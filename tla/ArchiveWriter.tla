---------------------------- MODULE ArchiveWriter ----------------------------
(***************************************************************************)
(* Archiving a document: ArchiveWriter.archive_document and the create     *)
(* request around it, by several workers over one database and one object  *)
(* store.                                                                  *)
(*                                                                         *)
(* The bytes are stored before the row that refers to them and deleted     *)
(* again when the row cannot be written.  The checks that come before, for *)
(* a colliding artifact and for a repeated request, read the database in   *)
(* transactions of their own.                                              *)
(***************************************************************************)
EXTENDS Integers, FiniteSets

CONSTANTS
    DocIds,        \* document ids that can be minted; each has its storage key
    RequestIds,    \* archive_request_id values
    References,    \* document_reference values
    Contents,      \* document contents
    Malformed,     \* the contents refused by validate_artifact_format
    Sums,          \* checksums
    Sum,           \* Sum[c]: the checksum of content c
    Requests,      \* the create requests callers send
    Workers,
    None,          \* SQL NULL, no id, no bytes
    Faults,        \* which failures can happen
    MaxFaults      \* bound: how many of them happen

\* ArchiveDocumentInput, as far as the writer looks at it.
Input == [id : RequestIds, reference : References \cup {None}, content : Contents,
          declared : Sums \cup {None}]

FaultKinds == {"put", "save", "commit_ack", "delete", "crash"}

ASSUME NoneAssumption == None \notin DocIds \cup References \cup Contents \cup Sums
ASSUME MalformedAssumption == Malformed \subseteq Contents
ASSUME SumAssumption ==
    /\ Sum \in [Contents -> Sums]
    /\ \A b, c \in Contents : Sum[b] = Sum[c] => b = c
ASSUME RequestsAssumption == Requests \subseteq Input
ASSUME FaultsAssumption == Faults \subseteq FaultKinds /\ MaxFaults \in Nat

VARIABLES
    rows,        \* archive_documents: the caller's input, the checksum and the document id
    objects,     \* objects[d]: the bytes under the storage key of d
    destroyed,   \* documents whose destruction was recorded (module Retention)
    pc,          \* pc[w]: the step worker w takes next
    req,         \* req[w]: the request it serves
    doc,         \* doc[w]: the document id it minted
    outcome,     \* outcome[w]: what it answers
    faults,      \* how many failures happened
    leaks        \* how many of them end a request that may leave an object behind

shared == <<rows, objects, destroyed>>
vars == <<shared, pc, req, doc, outcome, faults, leaks>>

Row == [doc : DocIds, input : Input, checksum : Sums]

Steps == {"idle", "collision", "lookup", "put", "check", "insert", "compensate", "record", "answer"}
Outcomes == {"none", "rejected", "collision", "duplicate", "replayed", "storage_failed",
             "save_failed", "created"}

TypeOK ==
    /\ rows \in SUBSET Row
    /\ objects \in [DocIds -> Contents \cup {None}]
    /\ destroyed \in SUBSET DocIds
    /\ pc \in [Workers -> Steps]
    /\ req \in [Workers -> Input \cup {None}]
    /\ doc \in [Workers -> DocIds \cup {None}]
    /\ outcome \in [Workers -> Outcomes]
    /\ faults \in 0..MaxFaults
    /\ leaks \in 0..MaxFaults

Init ==
    /\ rows = {}
    /\ objects = [d \in DocIds |-> None]
    /\ destroyed = {}
    /\ pc = [w \in Workers |-> "idle"]
    /\ req = [w \in Workers |-> None]
    /\ doc = [w \in Workers |-> None]
    /\ outcome = [w \in Workers |-> "none"]
    /\ faults = 0
    /\ leaks = 0

----------------------------------------------------------------------------
Goto(w, step) == pc' = [pc EXCEPT ![w] = step]
Decide(w, o) == outcome' = [outcome EXCEPT ![w] = o]

\* A failure of this kind happens now.
Fault(kind) == kind \in Faults /\ faults < MaxFaults /\ faults' = faults + 1

\* Wrong format, or bytes that are not the declared artifact.
Rejected(r) == r.content \in Malformed \/ r.declared \notin {None, Sum[r.content]}

\* The document row that holds the same bytes under another reference.
Colliding(r) ==
    {row \in rows : /\ row.checksum = Sum[r.content]
                    /\ row.input.reference \notin {None, r.reference}}

RowsOf(id) == {row \in rows : row.input.id = id}

\* A document id no row, object or request in flight has.
Fresh == {d \in DocIds : /\ objects[d] = None
                         /\ \A row \in rows : row.doc # d
                         /\ \A w \in Workers : doc[w] # d}

\* Mutant: the storage key is derived from the request rather than the document.
StorageKey_Request(d, r) ==
    (CHOOSE f \in [RequestIds -> DocIds] : \A p, q \in RequestIds : f[p] = f[q] => p = q)[r.id]

\* _storage_key_for: the key ends in the document id, so it is the document's own.
StorageKey(d, r) == d

----------------------------------------------------------------------------
create_document(w, r) ==
    /\ pc[w] = "idle"
    /\ req' = [req EXCEPT ![w] = r]
    /\ \/ Rejected(r) /\ Decide(w, "rejected") /\ Goto(w, "answer")
       \/ /\ ~Rejected(r)
          /\ Goto(w, IF r.reference # None THEN "collision" ELSE "lookup")
          /\ UNCHANGED outcome
    /\ UNCHANGED <<shared, doc, faults, leaks>>

CheckCollision(w) ==
    /\ pc[w] = "collision"
    /\ \/ Colliding(req[w]) # {} /\ Decide(w, "collision") /\ Goto(w, "answer")
       \/ Colliding(req[w]) = {} /\ Goto(w, "lookup") /\ UNCHANGED outcome
    /\ UNCHANGED <<shared, req, doc, faults, leaks>>

\* Mutant: a repeated request id is answered without comparing what it carries.
Lookup_Uncompared(w) ==
    /\ pc[w] = "lookup"
    /\ \/ /\ RowsOf(req[w].id) # {}
          /\ Decide(w, "replayed") /\ Goto(w, "record")
          /\ UNCHANGED doc
       \/ /\ RowsOf(req[w].id) = {}
          /\ \E d \in Fresh : doc' = [doc EXCEPT ![w] = d]
          /\ Goto(w, "put")
          /\ UNCHANGED outcome
    /\ UNCHANGED <<shared, req, faults, leaks>>

\* A repeated request id is a replay when content and metadata are the same.
Lookup(w) ==
    /\ pc[w] = "lookup"
    /\ LET r == req[w]
           same(row) == row.checksum = Sum[r.content] /\ row.input = r
       IN  \/ /\ \E row \in RowsOf(r.id) : same(row)
              /\ Decide(w, "replayed") /\ Goto(w, "record")
              /\ UNCHANGED doc
           \/ /\ \E row \in RowsOf(r.id) : ~same(row)
              /\ Decide(w, "duplicate") /\ Goto(w, "answer")
              /\ UNCHANGED doc
           \/ /\ RowsOf(r.id) = {}
              /\ \E d \in Fresh : doc' = [doc EXCEPT ![w] = d]
              /\ Goto(w, "put")
              /\ UNCHANGED outcome
    /\ UNCHANGED <<shared, req, faults, leaks>>

\* A put that fails may have stored the object; nothing deletes it.
Put(w) ==
    /\ pc[w] = "put"
    /\ LET stored == [objects EXCEPT ![StorageKey(doc[w], req[w])] = req[w].content]
       IN  \/ /\ objects' = stored
              /\ Goto(w, "check")
              /\ UNCHANGED <<outcome, faults, leaks>>
           \/ /\ Fault("put") /\ leaks' = leaks + 1
              /\ objects' \in {objects, stored}
              /\ Decide(w, "storage_failed") /\ Goto(w, "answer")
    /\ UNCHANGED <<rows, destroyed, req, doc>>

\* save() reads the request id before its transaction.
SaveCheck(w) ==
    /\ pc[w] = "check"
    /\ \/ RowsOf(req[w].id) # {} /\ Decide(w, "duplicate") /\ Goto(w, "compensate")
       \/ RowsOf(req[w].id) = {} /\ Goto(w, "insert") /\ UNCHANGED outcome
    /\ UNCHANGED <<shared, req, doc, faults, leaks>>

NewRow(w) == [doc |-> doc[w], input |-> req[w], checksum |-> Sum[req[w].content]]

\* Mutant: the request id is not unique in the table.
UniqueViolation_None(r) == FALSE

\* archive_request_id TEXT NOT NULL UNIQUE.
UniqueViolation(r) == RowsOf(r.id) # {}

\* Mutant: a conflict leaves without deleting what was stored.
Insert_NoCompensation(w) ==
    /\ pc[w] = "insert"
    /\ \/ /\ UniqueViolation(req[w])
          /\ Decide(w, "duplicate") /\ Goto(w, "answer")
          /\ UNCHANGED rows
       \/ /\ ~UniqueViolation(req[w])
          /\ rows' = rows \cup {NewRow(w)}
          /\ Decide(w, "created") /\ Goto(w, "record")
    /\ UNCHANGED <<objects, destroyed, req, doc, faults, leaks>>

\* Mutant: the transaction is rolled back at its end, whatever it wrote.
Insert_NoCommit(w) ==
    /\ pc[w] = "insert"
    /\ Decide(w, "save_failed") /\ Goto(w, "compensate")
    /\ UNCHANGED <<shared, req, doc, faults, leaks>>

\* The insert: refused by the unique index, failed, committed, or committed
\* with the acknowledgement lost.  Every exception leads to the compensation.
Insert(w) ==
    /\ pc[w] = "insert"
    /\ \/ /\ UniqueViolation(req[w])
          /\ Decide(w, "duplicate") /\ Goto(w, "compensate")
          /\ UNCHANGED <<rows, faults>>
       \/ /\ Fault("save")
          /\ Decide(w, "save_failed") /\ Goto(w, "compensate")
          /\ UNCHANGED rows
       \/ /\ ~UniqueViolation(req[w])
          /\ rows' = rows \cup {NewRow(w)}
          /\ Decide(w, "created") /\ Goto(w, "record")
          /\ UNCHANGED faults
       \/ /\ ~UniqueViolation(req[w])
          /\ Fault("commit_ack")
          /\ rows' = rows \cup {NewRow(w)}
          /\ Decide(w, "save_failed") /\ Goto(w, "compensate")
    /\ UNCHANGED <<objects, destroyed, req, doc, leaks>>

\* storage.delete of the object this request stored; it can fail in turn.
Compensate(w) ==
    /\ pc[w] = "compensate"
    /\ \/ /\ objects' = [objects EXCEPT ![StorageKey(doc[w], req[w])] = None]
          /\ UNCHANGED <<faults, leaks>>
       \/ /\ Fault("delete") /\ leaks' = leaks + 1
          /\ UNCHANGED objects
    /\ Goto(w, "answer")
    /\ UNCHANGED <<rows, destroyed, req, doc, outcome>>

\* The access event of an archived or replayed document.
Record(w) ==
    /\ pc[w] = "record"
    /\ Goto(w, "answer")
    /\ UNCHANGED <<shared, req, doc, outcome, faults, leaks>>

Idle(w) ==
    /\ Goto(w, "idle")
    /\ req' = [req EXCEPT ![w] = None]
    /\ doc' = [doc EXCEPT ![w] = None]
    /\ Decide(w, "none")
    /\ UNCHANGED shared

Answer(w) == pc[w] = "answer" /\ Idle(w) /\ UNCHANGED <<faults, leaks>>

\* The process ends, or its connection to the database is lost for good.
Crash(w) ==
    /\ pc[w] # "idle"
    /\ Fault("crash") /\ leaks' = leaks + 1
    /\ Idle(w)

\* Module Retention: the intent is recorded, then the bytes are deleted.
Destroy(row) ==
    /\ row.doc \notin destroyed
    /\ destroyed' = destroyed \cup {row.doc}
    /\ objects' = [objects EXCEPT ![StorageKey(row.doc, row.input)] = None]
    /\ UNCHANGED <<rows, pc, req, doc, outcome, faults, leaks>>

----------------------------------------------------------------------------
Step(w) == CheckCollision(w) \/ Lookup(w) \/ Put(w) \/ SaveCheck(w) \/ Insert(w)
           \/ Compensate(w) \/ Record(w) \/ Answer(w)

Next ==
    \/ \E w \in Workers : Step(w) \/ Crash(w) \/ \E r \in Requests : create_document(w, r)
    \/ \E row \in rows : Destroy(row)

Spec == Init /\ [][Next]_vars

\* A worker takes its next step, and a caller that got no document asks again.
Retry(w, r) == RowsOf(r.id) = {} /\ create_document(w, r)

FairSpec ==
    /\ Spec
    /\ \A w \in Workers : WF_vars(Step(w))
    /\ \A w \in Workers, r \in Requests : SF_vars(Retry(w, r))

----------------------------------------------------------------------------
(* Properties. *)

\* A document that was not destroyed has its bytes, exactly the ones its row
\* was written for: the compensation of one request never deletes what another
\* request archived, whichever of two writers of one request id loses.
BytesBehindRows ==
    \A row \in rows :
        /\ row.doc \notin destroyed => objects[StorageKey(row.doc, row.input)] = row.input.content
        /\ row.checksum = Sum[row.input.content]

\* One archive_request_id names one document, although two workers can both
\* find the id unused before either inserts it.
OneDocumentPerRequest ==
    \A p, q \in rows : p.input.id = q.input.id \/ p.doc = q.doc => p = q

\* A caller that is told "archived" finds a document with exactly the content
\* and metadata it sent, whether this request stored it or an earlier one did.
AnswersAreHeld ==
    \A w \in Workers : outcome[w] \in {"created", "replayed"} =>
        \E row \in rows : row.input = req[w] /\ row.checksum = Sum[req[w].content]

\* An object without a row belongs to a request in flight, or a failure of its
\* own accounts for it: conflicts and refused saves leave nothing behind.
OrphansAreAccounted ==
    Cardinality({d \in DocIds : /\ objects[d] # None
                                /\ \A row \in rows : row.doc # d
                                /\ \A w \in Workers : doc[w] # d}) =< leaks

\* A request that is repeated until it succeeds is archived, although puts,
\* saves and processes fail and a twin of it runs at the same time.
RequestsConverge ==
    \A id \in RequestIds :
        (\E w \in Workers : pc[w] = "put" /\ req[w].id = id) ~> (RowsOf(id) # {})
=============================================================================
