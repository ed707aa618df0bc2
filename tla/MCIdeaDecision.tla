---------------------------- MODULE MCIdeaDecision ----------------------------
(* Small instances of IdeaDecision for TLC. *)
EXTENDS IdeaDecision, TLC

Symmetry ==
    Permutations(Workers) \cup Permutations(Hosts) \cup Permutations(Inputs \ Foreign)
        \cup Permutations(IdemKeys)
=============================================================================
