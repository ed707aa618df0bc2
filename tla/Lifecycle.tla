------------------------------ MODULE Lifecycle ------------------------------
(***************************************************************************)
(* Supersession, correction and reissue of archived documents, and the     *)
(* walk from a document to its current successor, by several workers over  *)
(* one database.                                                           *)
(*                                                                         *)
(* A transition is checked twice by the same rules: by the service on rows *)
(* it read one after the other, without locks, and by the repository on    *)
(* the two rows it holds locked.  The walk reads one document per step.    *)
(***************************************************************************)
EXTENDS Integers, FiniteSets

CONSTANTS
    Docs,       \* documents
    Types,      \* transition types; each has an origin column of its own
    Workers,
    NoDoc       \* SQL NULL

ASSUME NoDocAssumption == NoDoc \notin Docs

VARIABLES
    superseded_by,   \* superseded_by[d]: the document that replaced d
    origin,          \* origin[d][ty]: the document d supersedes, corrects or reissues
    purged,          \* the documents recorded as destroyed
    relationships,   \* the rows of archive_lifecycle_relationships
    pc,              \* pc[w]: the step worker w takes next
    req,             \* req[w]: the request it serves
    source,          \* source[w], target[w]: the two rows as the service read them
    target,
    walk,            \* walk[w]: its position in the chain it resolves, and the
                     \* relationships it listed
    outcome          \* outcome[w]: what it answers

database == <<superseded_by, origin, purged, relationships>>
vars == <<database, pc, req, source, target, walk, outcome>>

DocOrNone == Docs \cup {NoDoc}
Relationship == [source : Docs, target : Docs, type : Types]
Snapshot == [superseded_by : DocOrNone, origin : [Types -> DocOrNone], purged : BOOLEAN]
Walk == [start : DocOrNone, at : DocOrNone, next : DocOrNone, visited : SUBSET Docs,
         listed : SUBSET Relationship]
Steps == {"idle", "read_source", "read_target", "resolve_target", "find_applied", "apply",
          "record", "resolve_result", "resolve_current", "resolve_events", "list_events", "answer"}
Outcomes == {"none", "recorded", "already_recorded", "unsupported", "conflict", "cycle",
             "document_purged", "current", "events"}

NoSnapshot == [superseded_by |-> NoDoc, origin |-> [ty \in Types |-> NoDoc], purged |-> FALSE]
NoWalk == [start |-> NoDoc, at |-> NoDoc, next |-> NoDoc, visited |-> {}, listed |-> {}]
NoRequest == <<>>

TypeOK ==
    /\ superseded_by \in [Docs -> DocOrNone]
    /\ origin \in [Docs -> [Types -> DocOrNone]]
    /\ purged \in SUBSET Docs
    /\ relationships \in SUBSET Relationship
    /\ pc \in [Workers -> Steps]
    /\ req \in [Workers -> Relationship \cup {NoRequest}]
    /\ source \in [Workers -> Snapshot]
    /\ target \in [Workers -> Snapshot]
    /\ walk \in [Workers -> Walk]
    /\ outcome \in [Workers -> Outcomes]

Quiet ==
    /\ purged = {}
    /\ pc = [w \in Workers |-> "idle"]
    /\ req = [w \in Workers |-> NoRequest]
    /\ source = [w \in Workers |-> NoSnapshot]
    /\ target = [w \in Workers |-> NoSnapshot]
    /\ walk = [w \in Workers |-> NoWalk]
    /\ outcome = [w \in Workers |-> "none"]

\* Documents just archived.
Init ==
    /\ Quiet
    /\ superseded_by = [d \in Docs |-> NoDoc]
    /\ origin = [d \in Docs |-> [ty \in Types |-> NoDoc]]
    /\ relationships = {}

\* One transition recorded by an earlier release, whose whole-row save of a
\* stale snapshot may have cleared either pointer afterwards.
LegacyInit ==
    /\ Quiet
    /\ \E r \in Relationship :
          /\ r.source # r.target
          /\ relationships = {r}
          /\ superseded_by \in {[d \in Docs |-> NoDoc],
                                [d \in Docs |-> IF d = r.source THEN r.target ELSE NoDoc]}
          /\ origin \in {[d \in Docs |-> [ty \in Types |-> NoDoc]],
                         [d \in Docs |-> [ty \in Types |->
                             IF d = r.target /\ ty = r.type THEN r.source ELSE NoDoc]]}

\* Pointers as no writer leaves them, cycles included: what the visited set of
\* the walk is there for.
CorruptInit ==
    /\ Quiet
    /\ superseded_by \in [Docs -> DocOrNone]
    /\ origin = [d \in Docs |-> [ty \in Types |-> NoDoc]]
    /\ relationships = {}

----------------------------------------------------------------------------
(* lifecycle_transitions.py: the rules, on rows however they were read.     *)

Read(d) == [superseded_by |-> superseded_by[d], origin |-> origin[d], purged |-> d \in purged]

\* Mutant: a superseded document can become the target.
Refusal_TargetSuperseded(r, s, t) ==
    CASE r.source = r.target -> "unsupported"
      [] r.source # r.target /\ (s.purged \/ t.purged) -> "unsupported"
      [] OTHER -> IF \/ s.superseded_by # NoDoc
                     \/ \E ty \in Types : t.origin[ty] # NoDoc
                  THEN "conflict" ELSE "none"

\* validate_lifecycle_preconditions: the error it raises, or "none".
Refusal(r, s, t) ==
    CASE r.source = r.target -> "unsupported"
      [] r.source # r.target /\ (s.purged \/ t.purged) -> "unsupported"
      [] OTHER -> IF \/ s.superseded_by # NoDoc
                     \/ t.superseded_by # NoDoc
                     \/ \E ty \in Types : t.origin[ty] # NoDoc
                  THEN "conflict" ELSE "none"

\* transition_pointers_agree: both rows already record exactly this transition.
PointersAgree(r, s, t) == s.superseded_by = r.target /\ t.origin[r.type] = r.source

----------------------------------------------------------------------------
Goto(w, step) == pc' = [pc EXCEPT ![w] = step]
Decide(w, o) == outcome' = [outcome EXCEPT ![w] = o]

WalkFrom(d, row) ==
    [start |-> d, at |-> d, next |-> row.superseded_by, visited |-> {d}, listed |-> {}]

(* ArchiveService._apply_lifecycle_transition, before its transaction. *)

\* supersede_document, correct_document, reissue_document: one per type.
transition(w, r) ==
    /\ pc[w] = "idle"
    /\ req' = [req EXCEPT ![w] = r]
    /\ Goto(w, "read_source")
    /\ UNCHANGED <<database, source, target, walk, outcome>>

ReadSource(w) ==
    /\ pc[w] = "read_source"
    /\ source' = [source EXCEPT ![w] = Read(req[w].source)]
    /\ Goto(w, "read_target")
    /\ UNCHANGED <<database, req, target, walk, outcome>>

ReadTarget(w) ==
    /\ pc[w] = "read_target"
    /\ target' = [target EXCEPT ![w] = Read(req[w].target)]
    /\ walk' = [walk EXCEPT ![w] = WalkFrom(req[w].target, Read(req[w].target))]
    /\ Goto(w, "resolve_target")
    /\ UNCHANGED <<database, req, source, outcome>>

\* The replay check and the fast refusal, on the rows as they were read.
FindApplied(w) ==
    /\ pc[w] = "find_applied"
    /\ LET r == req[w]
           replay == PointersAgree(r, source[w], target[w]) /\ r \in relationships
           refusal == Refusal(r, source[w], target[w])
       IN  \/ replay /\ Decide(w, "already_recorded") /\ Goto(w, "record")
           \/ ~replay /\ refusal # "none" /\ Decide(w, refusal) /\ Goto(w, "answer")
           \/ ~replay /\ refusal = "none" /\ Goto(w, "apply") /\ UNCHANGED outcome
    /\ source' = [source EXCEPT ![w] = NoSnapshot]
    /\ target' = [target EXCEPT ![w] = NoSnapshot]
    /\ UNCHANGED <<database, req, walk>>

----------------------------------------------------------------------------
(* repository.apply_lifecycle_transition: one transaction over both rows. *)

\* Mutant: the relationship table has no unique indexes.
UniqueViolation_None(r) == FALSE

\* The unique indexes one_successor and one_origin of the relationship table.
UniqueViolation(r) ==
    \E q \in relationships : q.source = r.source \/ q.target = r.target

Link(r) ==
    /\ superseded_by' = [superseded_by EXCEPT ![r.source] = r.target]
    /\ origin' = [origin EXCEPT ![r.target][r.type] = r.source]
    /\ relationships' = relationships \cup {r}
    /\ UNCHANGED purged

\* Mutant: the transaction trusts the service's check of unlocked rows.
Apply_Unchecked(w) ==
    /\ pc[w] = "apply"
    /\ Link(req[w])
    /\ Decide(w, "recorded") /\ Goto(w, "record")
    /\ walk' = [walk EXCEPT ![w] = WalkFrom(req[w].target, Read(req[w].target))]
    /\ UNCHANGED <<req, source, target>>

Apply(w) ==
    /\ pc[w] = "apply"
    /\ LET r == req[w]
           s == Read(r.source)
           t == Read(r.target)
           replay == PointersAgree(r, s, t) /\ r \in relationships
           refusal == Refusal(r, s, t)
       IN  \/ /\ replay
              /\ Decide(w, "already_recorded") /\ Goto(w, "record")
              /\ walk' = [walk EXCEPT ![w] = WalkFrom(r.target, t)]
              /\ UNCHANGED database
           \/ /\ ~replay /\ refusal # "none"
              /\ Decide(w, refusal) /\ Goto(w, "answer")
              /\ UNCHANGED <<database, walk>>
           \/ /\ ~replay /\ refusal = "none" /\ UniqueViolation(r)
              /\ Decide(w, "conflict") /\ Goto(w, "answer")
              /\ UNCHANGED <<database, walk>>
           \/ /\ ~replay /\ refusal = "none" /\ ~UniqueViolation(r)
              /\ Link(r)
              /\ Decide(w, "recorded") /\ Goto(w, "record")
              /\ walk' = [walk EXCEPT ![w] = WalkFrom(r.target, t)]
    /\ UNCHANGED <<req, source, target>>

----------------------------------------------------------------------------
(* ArchiveService._resolve_current_document, one document per step. *)

\* Mutant: the walk does not keep the documents it visited.
Hop_Unbounded(w, resolved) ==
    LET k == walk[w] IN
    \/ /\ k.next = NoDoc
       /\ Goto(w, resolved)
       /\ UNCHANGED <<walk, outcome>>
    \/ /\ k.next # NoDoc
       /\ walk' = [walk EXCEPT ![w] = [k EXCEPT !.at = k.next, !.next = superseded_by[k.next]]]
       /\ UNCHANGED <<pc, outcome>>

Hop(w, resolved) ==
    LET k == walk[w] IN
    \/ /\ k.next = NoDoc
       /\ Goto(w, resolved)
       /\ UNCHANGED <<walk, outcome>>
    \/ /\ k.next # NoDoc /\ k.next \in k.visited
       /\ Decide(w, "cycle") /\ Goto(w, "answer")
       /\ UNCHANGED walk
    \/ /\ k.next # NoDoc /\ k.next \notin k.visited
       /\ walk' = [walk EXCEPT ![w] = [k EXCEPT !.at = k.next,
                                                !.next = superseded_by[k.next],
                                                !.visited = @ \cup {k.next}]]
       /\ UNCHANGED <<pc, outcome>>

Resolve(w) ==
    /\ \/ pc[w] = "resolve_target" /\ Hop(w, "find_applied")
       \/ pc[w] = "resolve_result" /\ Hop(w, "answer")
       \/ pc[w] = "resolve_current" /\ Hop(w, "record")
       \/ pc[w] = "resolve_events" /\ Hop(w, "list_events")
    /\ UNCHANGED <<database, req, source, target>>

\* get_current_document_metadata: a purged document is denied at the scope check.
get_current_document_metadata(w, d) ==
    /\ pc[w] = "idle"
    /\ \/ /\ d \in purged
          /\ Decide(w, "document_purged") /\ Goto(w, "answer")
          /\ UNCHANGED walk
       \/ /\ d \notin purged
          /\ Decide(w, "current") /\ Goto(w, "resolve_current")
          /\ walk' = [walk EXCEPT ![w] = WalkFrom(d, Read(d))]
    /\ UNCHANGED <<database, req, source, target>>

\* list_document_source_events: its scope check lets a purged document through.
list_document_source_events(w, d) ==
    /\ pc[w] = "idle"
    /\ Decide(w, "events") /\ Goto(w, "resolve_events")
    /\ walk' = [walk EXCEPT ![w] = WalkFrom(d, Read(d))]
    /\ UNCHANGED <<database, req, source, target>>

\* Mutant: only the transitions that led to the document are listed.
Listed_Targets(d) == {r \in relationships : r.target = d}

Listed(d) == {r \in relationships : r.source = d \/ r.target = d}

\* The relationships are listed after the current document was resolved.
ListEvents(w) ==
    /\ pc[w] = "list_events"
    /\ walk' = [walk EXCEPT ![w].listed = Listed(walk[w].start)]
    /\ Goto(w, "record")
    /\ UNCHANGED <<database, req, source, target, outcome>>

\* The access event is written; a transition applied by this request is then
\* resolved to the current document it answers with (the walk of a replay found
\* by the service is already at its end).
Record(w) ==
    /\ pc[w] = "record"
    /\ Goto(w, IF outcome[w] \in {"current", "events"} THEN "answer" ELSE "resolve_result")
    /\ UNCHANGED <<database, req, source, target, walk, outcome>>

Idle(w) ==
    /\ Goto(w, "idle")
    /\ req' = [req EXCEPT ![w] = NoRequest]
    /\ source' = [source EXCEPT ![w] = NoSnapshot]
    /\ target' = [target EXCEPT ![w] = NoSnapshot]
    /\ walk' = [walk EXCEPT ![w] = NoWalk]
    /\ Decide(w, "none")
    /\ UNCHANGED database

Answer(w) == pc[w] = "answer" /\ Idle(w)

\* The request is cut short after any of its steps.
Fail(w) == pc[w] \notin {"idle", "answer"} /\ Idle(w)

\* Destruction completes elsewhere (module Retention).
Purge(d) ==
    /\ d \notin purged
    /\ purged' = purged \cup {d}
    /\ UNCHANGED <<superseded_by, origin, relationships, pc, req, source, target, walk, outcome>>

----------------------------------------------------------------------------
Request(w) ==
    \/ \E r \in Relationship : transition(w, r)
    \/ \E d \in Docs : get_current_document_metadata(w, d) \/ list_document_source_events(w, d)

Step(w) == ReadSource(w) \/ ReadTarget(w) \/ FindApplied(w) \/ Apply(w) \/ Resolve(w)
           \/ ListEvents(w) \/ Record(w) \/ Answer(w)

Next ==
    \/ \E w \in Workers : Request(w) \/ Step(w) \/ Fail(w)
    \/ \E d \in Docs : Purge(d)

Spec == Init /\ [][Next]_vars

\* A worker takes its next step: no step of a request waits for another.
FairDamagedSpec ==
    /\ LegacyInit \/ CorruptInit
    /\ [][Next]_vars
    /\ \A w \in Workers : WF_vars(Step(w))

----------------------------------------------------------------------------
(* Properties. *)

\* Supersession never closes a cycle: every set of documents has one whose
\* successor lies outside it.  validate_lifecycle_preconditions refuses a
\* target that is itself superseded, so a new link always ends a chain.
Acyclic == \A S \in (SUBSET Docs) \ {{}} : \E d \in S : superseded_by[d] \notin S

\* The records give a document one successor and one origin at most.
OneSuccessorOneOrigin ==
    \A q, r \in relationships : q.source = r.source \/ q.target = r.target => q = r

\* Every pointer is backed by the relationship record of its transition, and
\* the records give a document one successor and one origin at most: "which
\* document replaced this one" has a single answer from either end.
PointersBacked ==
    /\ \A d \in Docs : superseded_by[d] # NoDoc =>
          \E r \in relationships : r.source = d /\ r.target = superseded_by[d]
    /\ \A d \in Docs, ty \in Types : origin[d][ty] # NoDoc =>
          \E r \in relationships : r.target = d /\ r.type = ty /\ r.source = origin[d][ty]
    /\ OneSuccessorOneOrigin

\* Documents archived by this release are linked in both directions or not at
\* all: pointer, origin column and relationship record say the same.
LinksMutual ==
    \A r \in Relationship :
        /\ r \in relationships <=> origin[r.target][r.type] = r.source
        /\ r \in relationships => superseded_by[r.source] = r.target

\* Pointers, origin columns and relationship records tell one history, whichever
\* of them a reader follows and in whichever order two transitions commit.
HistoryAgrees == PointersBacked /\ LinksMutual

\* A worker that answers "recorded" or "already recorded" is right, although
\* others went on changing documents after its transaction.
AnswersHold ==
    \A w \in Workers : outcome[w] \in {"recorded", "already_recorded"} =>
        /\ req[w] \in relationships
        /\ superseded_by[req[w].source] = req[w].target
        /\ origin[req[w].target][req[w].type] = req[w].source

\* A walk follows the recorded history however it grows meanwhile: it is the
\* chain from its first document to the one it is at, each document followed by
\* its stored successor, and the pointer it goes on with is still the stored one.
WalkFollowsHistory ==
    \A w \in Workers :
        LET k == walk[w] IN
        /\ k.visited # {} => {k.start, k.at} \subseteq k.visited
        /\ \A d \in k.visited \ {k.at} : superseded_by[d] \in k.visited
        /\ k.next # NoDoc => k.at \in k.visited /\ superseded_by[k.at] = k.next

\* The source events of a document explain the current document they name: a
\* response that names a successor lists the transition that replaced the
\* document, although the two were read in different transactions.  (The other
\* way round it may list a transition its current_document_id is older than.)
EventsExplainCurrent ==
    \A w \in Workers :
        LET k == walk[w] IN
        outcome[w] = "events" /\ pc[w] \in {"record", "answer"} /\ k.at # k.start =>
            \E r \in k.listed : r.source = k.start /\ r.target \in k.visited

\* No walk reports a cycle, so resolving the current document never fails.
NoCycleReported == \A w \in Workers : outcome[w] # "cycle"

\* History is append-only: pointers and records, once written, stay.
HistoryAppendOnly ==
    [][/\ relationships \subseteq relationships'
       /\ \A d \in Docs : superseded_by[d] # NoDoc => superseded_by'[d] = superseded_by[d]
       /\ \A d \in Docs, ty \in Types : origin[d][ty] # NoDoc => origin'[d][ty] = origin[d][ty]]_vars

\* A document recorded as destroyed is never linked, although the purge may
\* commit after the service checked the documents.
PurgedNeverLinked ==
    [][\A d \in Docs : superseded_by'[d] # superseded_by[d] =>
          d \notin purged /\ superseded_by'[d] \notin purged]_vars

\* A worker reports a transition as newly recorded only where the history had
\* none from its source or to its target, also where an earlier release erased
\* the pointers both checks look at: nothing is recorded twice or branched.
RecordedOnce ==
    [][\A w \in Workers : outcome[w] # "recorded" /\ outcome'[w] = "recorded" =>
          \A q \in relationships : q.source # req[w].source /\ q.target # req[w].target]_vars

\* Every request is answered, even over a cycle of corrupted pointers: it
\* "surfaces as an explicit failure rather than a hang".
WalksEnd == \A w \in Workers : (pc[w] # "idle") ~> (pc[w] = "idle")
=============================================================================
