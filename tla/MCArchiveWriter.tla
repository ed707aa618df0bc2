--------------------------- MODULE MCArchiveWriter ---------------------------
(* Small instances of ArchiveWriter for TLC. *)
EXTENDS ArchiveWriter, TLC

\* Checksums named after the contents they belong to.
OwnSum == [c \in Contents |-> <<"sha256", c>>]
OwnSums == {<<"sha256", c>> : c \in Contents}

\* Every combination of request id, reference and content, and requests that
\* declare the checksum of one of the contents.
SomeRequests ==
    {r \in Input : r.declared = None}
    \cup {r \in Input : r.reference = None /\ r.declared = OwnSum[CHOOSE c \in Contents : TRUE]}

Symmetry == Permutations(Workers) \cup Permutations(DocIds) \cup Permutations(RequestIds)
            \cup Permutations(References)
=============================================================================
