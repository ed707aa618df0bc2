-------------------------- MODULE Lifecycle_proofs --------------------------
(***************************************************************************)
(* Proofs about Lifecycle for any number of documents, transition types    *)
(* and workers.                                                            *)
(***************************************************************************)
EXTENDS Lifecycle, TLAPS

\* A worker that is serving a transition has one to serve, an idle one has
\* decided nothing.
Serving ==
    \A w \in Workers :
        /\ pc[w] \in {"read_source", "read_target", "resolve_target", "find_applied", "apply"} =>
              req[w] \in Relationship
        /\ pc[w] = "idle" => outcome[w] = "none"

----------------------------------------------------------------------------
(* Type correctness. *)

\* The value that stands for "nothing read" is a row, the one for "no walk" a
\* walk.
LEMMA NothingType == NoSnapshot \in Snapshot /\ NoWalk \in Walk
BY DEF NoSnapshot, Snapshot, NoWalk, Walk, DocOrNone

\* A stored row is read as a row, and a walk starts from it.
LEMMA ReadType ==
    ASSUME TypeOK, NEW d \in Docs
    PROVE  /\ Read(d) \in Snapshot
           /\ WalkFrom(d, Read(d)) \in Walk
           /\ Read(d).superseded_by = superseded_by[d]
           /\ Read(d).origin = origin[d]
           /\ Read(d).purged = (d \in purged)
<1>1. superseded_by[d] \in DocOrNone /\ origin[d] \in [Types -> DocOrNone] BY DEF TypeOK
<1>2. (d \in purged) \in BOOLEAN OBVIOUS
<1>3. Read(d) \in Snapshot BY <1>1, <1>2, Zenon DEF Read, Snapshot
<1>4. Read(d).superseded_by = superseded_by[d] /\ Read(d).origin = origin[d] BY DEF Read
<1>5. Read(d).purged = (d \in purged) BY Zenon DEF Read
<1>6. WalkFrom(d, Read(d)) \in Walk BY <1>1, <1>4 DEF WalkFrom, Walk, DocOrNone
<1>. QED BY <1>3, <1>4, <1>5, <1>6

\* Initial states are well typed.
LEMMA TypeInit == Init => TypeOK /\ Serving
BY NothingType DEF Init, Quiet, TypeOK, Serving, DocOrNone, Steps, Outcomes

\* A step leaves the state well typed.
LEMMA TypeNext == TypeOK /\ Serving /\ [Next]_vars => TypeOK' /\ Serving'
<1>. SUFFICES ASSUME TypeOK, Serving, [Next]_vars PROVE TypeOK' /\ Serving' OBVIOUS
<1>. USE NothingType DEF TypeOK, Serving, Goto, Decide, database, Steps, Outcomes
<1>1. ASSUME NEW w \in Workers, NEW r \in Relationship, transition(w, r) PROVE TypeOK' /\ Serving'
  BY <1>1 DEF transition
<1>2. ASSUME NEW w \in Workers, NEW d \in Docs, get_current_document_metadata(w, d)
      PROVE TypeOK' /\ Serving'
  BY <1>2, ReadType DEF get_current_document_metadata
<1>3. ASSUME NEW w \in Workers, ReadSource(w) PROVE TypeOK' /\ Serving'
  <2>1. req[w] \in Relationship /\ req[w].source \in Docs BY <1>3 DEF ReadSource, Relationship
  <2>. QED BY <1>3, <2>1, ReadType DEF ReadSource
<1>4. ASSUME NEW w \in Workers, ReadTarget(w) PROVE TypeOK' /\ Serving'
  <2>1. req[w] \in Relationship /\ req[w].target \in Docs BY <1>4 DEF ReadTarget, Relationship
  <2>. QED BY <1>4, <2>1, ReadType DEF ReadTarget
<1>5. ASSUME NEW w \in Workers, FindApplied(w) PROVE TypeOK' /\ Serving'
  <2>1. Refusal(req[w], source[w], target[w]) \in {"none", "unsupported", "conflict"}
    BY DEF Refusal
  <2>. QED BY <1>5, <2>1 DEF FindApplied
<1>6. ASSUME NEW w \in Workers, Apply(w) PROVE TypeOK' /\ Serving'
  <2>. DEFINE r == req[w]
              s == Read(r.source)
              t == Read(r.target)
  <2>1. r \in Relationship /\ r.source \in Docs /\ r.target \in Docs /\ r.type \in Types
    BY <1>6 DEF Apply, Relationship
  <2>2. Refusal(r, s, t) \in {"none", "unsupported", "conflict"} BY DEF Refusal
  <2>3. WalkFrom(r.target, t) \in Walk BY <2>1, ReadType
  <2>4. CASE UNCHANGED database
    <3>1. walk' \in [Workers -> Walk] BY <1>6, <2>3 DEF Apply
    <3>2. /\ \E o \in {"already_recorded", "unsupported", "conflict", "recorded"} : Decide(w, o)
          /\ Goto(w, "record") \/ Goto(w, "answer")
      BY <1>6, <2>2 DEF Apply
    <3>. QED BY <1>6, <2>4, <3>1, <3>2 DEF Apply
  <2>5. CASE Link(r) /\ Decide(w, "recorded") /\ Goto(w, "record")
             /\ walk' = [walk EXCEPT ![w] = WalkFrom(r.target, t)]
    <3>1. /\ superseded_by' \in [Docs -> DocOrNone]
          /\ origin' \in [Docs -> [Types -> DocOrNone]]
          /\ relationships' \in SUBSET Relationship
          /\ purged' \in SUBSET Docs
      BY <2>1, <2>5 DEF Link, DocOrNone
    <3>. QED BY <1>6, <2>3, <2>5, <3>1 DEF Apply
  <2>. QED BY <1>6, <2>4, <2>5 DEF Apply
<1>7. ASSUME NEW w \in Workers, Resolve(w) PROVE TypeOK' /\ Serving'
  <2>. DEFINE k == walk[w]
  <2>1. k \in Walk OBVIOUS
  <2>2. k.next # NoDoc => [k EXCEPT !.at = k.next, !.next = superseded_by[k.next],
                                    !.visited = @ \cup {k.next}] \in Walk
    BY <2>1 DEF Walk, DocOrNone
  <2>. QED BY <1>7, <2>2 DEF Resolve, Hop
<1>8. ASSUME NEW w \in Workers, Record(w) PROVE TypeOK' /\ Serving' BY <1>8 DEF Record
<1>12. ASSUME NEW w \in Workers, NEW d \in Docs, list_document_source_events(w, d)
      PROVE TypeOK' /\ Serving'
  BY <1>12, ReadType DEF list_document_source_events
<1>13. ASSUME NEW w \in Workers, ListEvents(w) PROVE TypeOK' /\ Serving'
  <2>. DEFINE k == walk[w]
  <2>1. [k EXCEPT !.listed = Listed(k.start)] \in Walk BY DEF Walk, Listed
  <2>2. walk' = [walk EXCEPT ![w] = [k EXCEPT !.listed = Listed(k.start)]] BY <1>13 DEF ListEvents
  <2>. QED BY <1>13, <2>1, <2>2 DEF ListEvents
<1>9. ASSUME NEW w \in Workers, Answer(w) \/ Fail(w) PROVE TypeOK' /\ Serving'
  BY <1>9 DEF Answer, Fail, Idle
<1>10. ASSUME NEW d \in Docs, Purge(d) PROVE TypeOK' /\ Serving' BY <1>10 DEF Purge
<1>11. CASE UNCHANGED vars BY <1>11 DEF vars
<1>. QED BY <1>1, <1>2, <1>3, <1>4, <1>5, <1>6, <1>7, <1>8, <1>9, <1>10, <1>11,
            <1>12, <1>13 DEF Next, Request, Step

\* Type correctness of the whole specification.
THEOREM TypeCorrect == Spec => []TypeOK
BY TypeInit, TypeNext, PTL DEF Spec

----------------------------------------------------------------------------
(* What a step may do to the history. *)

pointers == <<superseded_by, origin, relationships>>

\* A link written by this release joins two different documents, neither of
\* them destroyed, the first without a successor, the second without a
\* successor or an origin, and neither with a relationship on that side.
NewLink(r) ==
    /\ r \in Relationship /\ r.source # r.target
    /\ r.source \notin purged /\ r.target \notin purged
    /\ superseded_by[r.source] = NoDoc /\ superseded_by[r.target] = NoDoc
    /\ \A ty \in Types : origin[r.target][ty] = NoDoc
    /\ ~UniqueViolation(r)
    /\ Link(r)

\* A transition is written only by the transaction that re-validated the rows.
LEMMA ApplyLinks ==
    ASSUME TypeOK, Serving, NEW w \in Workers, Apply(w)
    PROVE  \/ UNCHANGED pointers /\ (outcome'[w] = "already_recorded" =>
                 /\ req[w] \in relationships
                 /\ superseded_by[req[w].source] = req[w].target
                 /\ origin[req[w].target][req[w].type] = req[w].source)
              /\ outcome'[w] # "recorded"
           \/ NewLink(req[w])
<1>. DEFINE r == req[w]
            s == Read(r.source)
            t == Read(r.target)
<1>1. r \in Relationship /\ r.source \in Docs /\ r.target \in Docs /\ r.type \in Types
  BY DEF Serving, Apply, Relationship
<1>2. /\ s.superseded_by = superseded_by[r.source] /\ t.superseded_by = superseded_by[r.target]
      /\ t.origin = origin[r.target]
      /\ s.purged = (r.source \in purged) /\ t.purged = (r.target \in purged)
  BY <1>1, ReadType
<1>3. Refusal(r, s, t) \in {"none", "unsupported", "conflict"} BY DEF Refusal
<1>4. CASE ~(Refusal(r, s, t) = "none" /\ ~UniqueViolation(r) /\ Link(r))
  <2>. DEFINE replay == PointersAgree(r, s, t) /\ r \in relationships
  <2>1. /\ UNCHANGED database
        /\ \/ replay /\ Decide(w, "already_recorded")
           \/ Decide(w, Refusal(r, s, t)) \/ Decide(w, "conflict")
    BY <1>4 DEF Apply
  <2>2. outcome'[w] # "recorded" /\ (outcome'[w] = "already_recorded" => replay)
    BY <2>1, <1>3 DEF Decide, TypeOK
  <2>. QED BY <2>1, <2>2, <1>2 DEF PointersAgree, pointers, database
<1>5. CASE Refusal(r, s, t) = "none" /\ ~UniqueViolation(r) /\ Link(r)
  <2>1. /\ r.source # r.target /\ ~s.purged /\ ~t.purged
        /\ s.superseded_by = NoDoc /\ t.superseded_by = NoDoc
        /\ \A ty \in Types : t.origin[ty] = NoDoc
    BY <1>5 DEF Refusal
  <2>. QED BY <1>1, <1>2, <1>5, <2>1 DEF NewLink
<1>. QED BY <1>4, <1>5

\* Every step leaves the history alone or adds one new link to it.
LEMMA HistoryStep ==
    ASSUME TypeOK, Serving, [Next]_vars
    PROVE  UNCHANGED pointers \/ \E r \in Relationship : NewLink(r)
<1>1. ASSUME NEW w \in Workers, Apply(w)
      PROVE  UNCHANGED pointers \/ \E r \in Relationship : NewLink(r)
  BY <1>1, ApplyLinks DEF NewLink
<1>2. ASSUME NEW w \in Workers, Request(w) \/ Fail(w) PROVE UNCHANGED pointers
  BY <1>2 DEF Request, transition, get_current_document_metadata, list_document_source_events,
              Fail, Idle, database, pointers
<1>3. ASSUME NEW w \in Workers, Step(w), ~Apply(w) PROVE UNCHANGED pointers
  BY <1>3 DEF Step, ReadSource, ReadTarget, FindApplied, Resolve, ListEvents, Record, Answer,
              Idle, database, pointers
<1>4. ASSUME NEW d \in Docs, Purge(d) PROVE UNCHANGED pointers BY <1>4 DEF Purge, pointers
<1>5. CASE UNCHANGED vars BY <1>5 DEF vars, database, pointers
<1>. QED BY <1>1, <1>2, <1>3, <1>4, <1>5 DEF Next

\* What a link leaves in place.
LEMMA LinkEffect ==
    ASSUME TypeOK, NEW r \in Relationship, NewLink(r)
    PROVE  /\ superseded_by' = [superseded_by EXCEPT ![r.source] = r.target]
           /\ superseded_by'[r.source] = r.target
           /\ \A d \in Docs : d # r.source => superseded_by'[d] = superseded_by[d]
           /\ \A d \in Docs, ty \in Types :
                 origin'[d][ty] = IF d = r.target /\ ty = r.type THEN r.source ELSE origin[d][ty]
           /\ relationships' = relationships \cup {r}
           /\ r.source \in Docs /\ r.target \in Docs /\ r.type \in Types
<1>1. r.source \in Docs /\ r.target \in Docs /\ r.type \in Types BY DEF Relationship
<1>2. /\ superseded_by' = [superseded_by EXCEPT ![r.source] = r.target]
      /\ origin' = [origin EXCEPT ![r.target][r.type] = r.source]
      /\ relationships' = relationships \cup {r}
  BY DEF NewLink, Link
<1>. QED BY <1>1, <1>2 DEF TypeOK

\* A new link closes no cycle: its target ends a chain.
LEMMA AcyclicKept ==
    ASSUME TypeOK, Serving, [Next]_vars, Acyclic
    PROVE  Acyclic'
<1>1. CASE UNCHANGED pointers BY <1>1 DEF Acyclic, pointers
<1>2. ASSUME NEW r \in Relationship, NewLink(r) PROVE Acyclic'
  <2>. SUFFICES ASSUME NEW S \in (SUBSET Docs) \ {{}}
                PROVE  \E d \in S : superseded_by'[d] \notin S
    BY DEF Acyclic
  <2>0. /\ superseded_by'[r.source] = r.target
        /\ \A d \in Docs : d # r.source => superseded_by'[d] = superseded_by[d]
        /\ r.source \in Docs /\ r.target \in Docs
    BY <1>2, LinkEffect
  <2>1. CASE r.target \in S
    <3>1. superseded_by'[r.target] = NoDoc BY <1>2, <2>0 DEF NewLink
    <3>. QED BY <2>1, <3>1, NoDocAssumption
  <2>2. CASE r.target \notin S
    <3>1. PICK d \in S : superseded_by[d] \notin S BY DEF Acyclic
    <3>. QED BY <2>0, <2>2, <3>1
  <2>. QED BY <2>1, <2>2
<1>. QED BY <1>1, <1>2, HistoryStep

\* Every pointer stays backed by a record of its own.
LEMMA PointersBackedKept ==
    ASSUME TypeOK, Serving, [Next]_vars, PointersBacked
    PROVE  PointersBacked'
<1>1. CASE UNCHANGED pointers BY <1>1 DEF PointersBacked, OneSuccessorOneOrigin, pointers
<1>2. ASSUME NEW r \in Relationship, NewLink(r) PROVE PointersBacked'
  <2>0. /\ superseded_by'[r.source] = r.target
        /\ \A d \in Docs : d # r.source => superseded_by'[d] = superseded_by[d]
        /\ \A d \in Docs, ty \in Types :
              origin'[d][ty] = IF d = r.target /\ ty = r.type THEN r.source ELSE origin[d][ty]
        /\ relationships' = relationships \cup {r}
    BY <1>2, LinkEffect
  <2>1. \A d \in Docs : superseded_by'[d] # NoDoc =>
          \E q \in relationships' : q.source = d /\ q.target = superseded_by'[d]
    BY <2>0 DEF PointersBacked
  <2>2. \A d \in Docs, ty \in Types : origin'[d][ty] # NoDoc =>
          \E q \in relationships' : q.target = d /\ q.type = ty /\ q.source = origin'[d][ty]
    BY <2>0 DEF PointersBacked
  <2>3. \A p, q \in relationships' : p.source = q.source \/ p.target = q.target => p = q
    BY <1>2, <2>0 DEF PointersBacked, OneSuccessorOneOrigin, NewLink, UniqueViolation
  <2>. QED BY <2>1, <2>2, <2>3 DEF PointersBacked, OneSuccessorOneOrigin
<1>. QED BY <1>1, <1>2, HistoryStep

\* Pointer, origin column and record keep saying the same.
LEMMA LinksMutualKept ==
    ASSUME TypeOK, Serving, [Next]_vars, LinksMutual
    PROVE  LinksMutual'
<1>1. CASE UNCHANGED pointers BY <1>1 DEF LinksMutual, pointers
<1>2. ASSUME NEW r \in Relationship, NewLink(r) PROVE LinksMutual'
  <2>. SUFFICES ASSUME NEW q \in Relationship
                PROVE  /\ q \in relationships' <=> origin'[q.target][q.type] = q.source
                       /\ q \in relationships' => superseded_by'[q.source] = q.target
    BY DEF LinksMutual
  <2>0. /\ superseded_by'[r.source] = r.target
        /\ \A d \in Docs : d # r.source => superseded_by'[d] = superseded_by[d]
        /\ \A d \in Docs, ty \in Types :
              origin'[d][ty] = IF d = r.target /\ ty = r.type THEN r.source ELSE origin[d][ty]
        /\ relationships' = relationships \cup {r}
    BY <1>2, LinkEffect
  <2>1. q.source \in Docs /\ q.target \in Docs /\ q.type \in Types BY DEF Relationship
  <2>2. /\ q \in relationships <=> origin[q.target][q.type] = q.source
        /\ q \in relationships => superseded_by[q.source] = q.target
    BY DEF LinksMutual
  <2>3. CASE q = r BY <2>0, <2>1, <2>3
  <2>4. CASE q # r
    <3>1. q.source # r.source \/ q.target # r.target \/ q.type # r.type
      BY <2>4 DEF Relationship
    <3>2. superseded_by[r.source] = NoDoc /\ origin[r.target][r.type] = NoDoc
      BY <1>2 DEF NewLink, Relationship
    <3>3. q \in relationships <=> origin'[q.target][q.type] = q.source
      BY <2>0, <2>1, <2>2, <3>1, <3>2, NoDocAssumption
    <3>4. q \in relationships => superseded_by'[q.source] = q.target
      BY <2>0, <2>1, <2>2, <3>2, NoDocAssumption
    <3>. QED BY <2>0, <2>4, <3>3, <3>4
  <2>. QED BY <2>3, <2>4
<1>. QED BY <1>1, <1>2, HistoryStep

\* Pointers and records, once written, stay.
Appended ==
    /\ relationships \subseteq relationships'
    /\ \A d \in Docs : superseded_by[d] # NoDoc => superseded_by'[d] = superseded_by[d]
    /\ \A d \in Docs, ty \in Types : origin[d][ty] # NoDoc => origin'[d][ty] = origin[d][ty]

\* Every step only appends to the history.
LEMMA AppendedNext ==
    ASSUME TypeOK, Serving, [Next]_vars
    PROVE  Appended
<1>1. CASE UNCHANGED pointers BY <1>1 DEF Appended, pointers
<1>2. ASSUME NEW r \in Relationship, NewLink(r) PROVE Appended
  BY <1>2, LinkEffect DEF Appended, NewLink
<1>. QED BY <1>1, <1>2, HistoryStep

----------------------------------------------------------------------------
(* What the workers rely on. *)

\* An answer once true stays true, and only true answers are given.
LEMMA AnswersHoldKept ==
    ASSUME TypeOK, Serving, [Next]_vars, LinksMutual, LinksMutual', AnswersHold
    PROVE  AnswersHold'
<1>. SUFFICES ASSUME NEW v \in Workers, outcome'[v] \in {"recorded", "already_recorded"}
              PROVE  /\ req'[v] \in relationships'
                     /\ superseded_by'[req'[v].source] = req'[v].target
                     /\ origin'[req'[v].target][req'[v].type] = req'[v].source
  BY DEF AnswersHold
<1>a. Appended BY AppendedNext
<1>t. TypeOK' BY TypeNext
<1>. SUFFICES req'[v] \in relationships'
  BY <1>t DEF LinksMutual, TypeOK
<1>1. CASE outcome'[v] = outcome[v] /\ req'[v] = req[v]
  BY <1>1, <1>a DEF AnswersHold, Appended
<1>2. ASSUME NEW w \in Workers, Request(w) PROVE req'[v] \in relationships'
  <2>1. pc[w] = "idle" /\ outcome[w] = "none"
    BY <1>2 DEF Request, transition, get_current_document_metadata, list_document_source_events,
                Serving
  <2>2. \A u \in Workers : u # w => outcome'[u] = outcome[u] /\ req'[u] = req[u]
    BY <1>2 DEF Request, transition, get_current_document_metadata, list_document_source_events,
                TypeOK, Decide
  <2>3. outcome'[w] \in {"none", "document_purged", "current", "events"}
    BY <1>2, <2>1 DEF Request, transition, get_current_document_metadata,
                      list_document_source_events, TypeOK, Decide
  <2>. QED BY <1>1, <2>2, <2>3
<1>3. ASSUME NEW w \in Workers, Apply(w) PROVE req'[v] \in relationships'
  <2>1. CASE v # w BY <1>1, <1>3, <2>1 DEF Apply, Decide, TypeOK
  <2>2. CASE v = w
    <3>1. req'[v] = req[w] BY <1>3, <2>2 DEF Apply
    <3>2. CASE NewLink(req[w]) BY <3>1, <3>2, LinkEffect DEF NewLink
    <3>3. CASE UNCHANGED pointers /\ outcome'[w] # "recorded"
               /\ (outcome'[w] = "already_recorded" => req[w] \in relationships)
      BY <2>2, <3>1, <3>3 DEF pointers
    <3>. QED BY <1>3, <3>2, <3>3, ApplyLinks
  <2>. QED BY <2>1, <2>2
<1>4. ASSUME NEW w \in Workers, FindApplied(w) PROVE req'[v] \in relationships'
  <2>1. CASE v # w BY <1>1, <1>4, <2>1 DEF FindApplied, Decide, TypeOK
  <2>2. CASE v = w
    <3>1. Refusal(req[w], source[w], target[w]) \in {"none", "unsupported", "conflict"}
      BY DEF Refusal
    <3>2. CASE req[w] \in relationships BY <1>4, <2>2, <3>2, <1>a DEF FindApplied, Appended
    <3>3. CASE req[w] \notin relationships
      BY <1>1, <1>4, <2>2, <3>1, <3>3 DEF FindApplied, Decide, TypeOK
    <3>. QED BY <3>2, <3>3
  <2>. QED BY <2>1, <2>2
<1>5. ASSUME NEW w \in Workers, Answer(w) \/ Fail(w) PROVE req'[v] \in relationships'
  BY <1>1, <1>5 DEF Answer, Fail, Idle, Decide, TypeOK
<1>6. ASSUME NEW w \in Workers, Resolve(w) PROVE req'[v] \in relationships'
  BY <1>1, <1>6 DEF Resolve, Hop, Decide, TypeOK
<1>7. ASSUME NEW w \in Workers, ReadSource(w) \/ ReadTarget(w) \/ ListEvents(w) \/ Record(w)
      PROVE  req'[v] \in relationships'
  BY <1>1, <1>7 DEF ReadSource, ReadTarget, ListEvents, Record
<1>8. ASSUME NEW d \in Docs, Purge(d) PROVE req'[v] \in relationships'
  BY <1>1, <1>8 DEF Purge
<1>9. CASE UNCHANGED vars BY <1>1, <1>9 DEF vars
<1>. QED BY <1>2, <1>3, <1>4, <1>5, <1>6, <1>7, <1>8, <1>9 DEF Next, Step

\* One walk's part of WalkFollowsHistory.
Follows(k) ==
    /\ k.visited # {} => {k.start, k.at} \subseteq k.visited
    /\ \A d \in k.visited \ {k.at} : superseded_by[d] \in k.visited
    /\ k.next # NoDoc => k.at \in k.visited /\ superseded_by[k.at] = k.next

\* A walk that follows history goes on following it while history grows.
LEMMA FollowsLasts ==
    ASSUME TypeOK, Appended, NEW k \in Walk, Follows(k)
    PROVE  /\ k.visited # {} => {k.start, k.at} \subseteq k.visited
           /\ \A d \in k.visited \ {k.at} : superseded_by'[d] \in k.visited
           /\ k.next # NoDoc => k.at \in k.visited /\ superseded_by'[k.at] = k.next
<1>1. ASSUME NEW d \in k.visited \ {k.at} PROVE superseded_by'[d] \in k.visited
  <2>1. superseded_by[d] \in k.visited /\ d \in Docs BY DEF Follows, Walk
  <2>2. superseded_by[d] # NoDoc BY <2>1, NoDocAssumption DEF Walk
  <2>. QED BY <2>1, <2>2 DEF Appended
<1>2. ASSUME k.next # NoDoc PROVE k.at \in k.visited /\ superseded_by'[k.at] = k.next
  <2>1. k.at \in k.visited /\ superseded_by[k.at] = k.next BY <1>2 DEF Follows
  <2>2. k.at \in Docs BY <2>1 DEF Walk
  <2>. QED BY <1>2, <2>1, <2>2 DEF Appended
<1>. QED BY <1>1, <1>2 DEF Follows

\* Walks follow history.
LEMMA WalkKept ==
    ASSUME TypeOK, Serving, [Next]_vars, WalkFollowsHistory
    PROVE  WalkFollowsHistory'
<1>a. Appended BY AppendedNext
<1>. SUFFICES ASSUME NEW v \in Workers
              PROVE  /\ walk'[v].visited # {} =>
                           {walk'[v].start, walk'[v].at} \subseteq walk'[v].visited
                     /\ \A d \in walk'[v].visited \ {walk'[v].at} :
                           superseded_by'[d] \in walk'[v].visited
                     /\ walk'[v].next # NoDoc =>
                           /\ walk'[v].at \in walk'[v].visited
                           /\ superseded_by'[walk'[v].at] = walk'[v].next
  BY DEF WalkFollowsHistory
<1>k. walk[v] \in Walk /\ Follows(walk[v]) BY DEF WalkFollowsHistory, Follows, TypeOK
<1>1. CASE walk'[v] = walk[v] BY <1>1, <1>k, <1>a, FollowsLasts
<1>2. CASE walk'[v] = NoWalk BY <1>2 DEF NoWalk
<1>3. ASSUME NEW d \in Docs, walk'[v] = WalkFrom(d, Read(d)) PROVE
         /\ walk'[v].visited # {} => {walk'[v].start, walk'[v].at} \subseteq walk'[v].visited
         /\ \A e \in walk'[v].visited \ {walk'[v].at} : superseded_by'[e] \in walk'[v].visited
         /\ walk'[v].next # NoDoc => /\ walk'[v].at \in walk'[v].visited
                                     /\ superseded_by'[walk'[v].at] = walk'[v].next
  BY <1>3, <1>a, ReadType DEF WalkFrom, Appended
<1>4. ASSUME NEW w \in Workers, Resolve(w), walk'[v] # walk[v] PROVE
         /\ walk'[v].visited # {} => {walk'[v].start, walk'[v].at} \subseteq walk'[v].visited
         /\ \A e \in walk'[v].visited \ {walk'[v].at} : superseded_by'[e] \in walk'[v].visited
         /\ walk'[v].next # NoDoc => /\ walk'[v].at \in walk'[v].visited
                                     /\ superseded_by'[walk'[v].at] = walk'[v].next
  <2>. DEFINE k == walk[v]
  <2>1. /\ v = w /\ k.next # NoDoc /\ k.next \notin k.visited
        /\ walk'[v] = [k EXCEPT !.at = k.next, !.next = superseded_by[k.next],
                                !.visited = @ \cup {k.next}]
        /\ superseded_by' = superseded_by
    BY <1>4 DEF Resolve, Hop, TypeOK, database
  <2>2. /\ walk'[v].start = k.start /\ walk'[v].at = k.next
        /\ walk'[v].next = superseded_by[k.next] /\ walk'[v].visited = k.visited \cup {k.next}
    BY <2>1, <1>k DEF Walk
  <2>3. k.at \in k.visited /\ superseded_by[k.at] = k.next BY <2>1, <1>k DEF Follows
  <2>. QED BY <2>1, <2>2, <2>3, <1>k DEF Follows
<1>7. ASSUME NEW w \in Workers, ListEvents(w) PROVE
         /\ walk'[v].visited # {} => {walk'[v].start, walk'[v].at} \subseteq walk'[v].visited
         /\ \A e \in walk'[v].visited \ {walk'[v].at} : superseded_by'[e] \in walk'[v].visited
         /\ walk'[v].next # NoDoc => /\ walk'[v].at \in walk'[v].visited
                                     /\ superseded_by'[walk'[v].at] = walk'[v].next
  <2>. DEFINE k == walk[v]
  <2>1. walk'[v] = k \/ walk'[v] = [k EXCEPT !.listed = Listed(k.start)]
    BY <1>7 DEF ListEvents, TypeOK
  <2>2. /\ walk'[v].start = k.start /\ walk'[v].at = k.at
        /\ walk'[v].next = k.next /\ walk'[v].visited = k.visited
    BY <2>1, <1>k DEF Walk
  <2>. QED BY <2>2, <1>k, <1>a, FollowsLasts
<1>5. ASSUME NEW w \in Workers, Request(w) \/ Step(w) \/ Fail(w), ~Resolve(w), ~ListEvents(w)
      PROVE  walk'[v] \in {walk[v], NoWalk} \/ \E d \in Docs : walk'[v] = WalkFrom(d, Read(d))
  <2>1. ASSUME NEW d \in Docs, get_current_document_metadata(w, d)
        PROVE  walk'[v] = walk[v] \/ walk'[v] = WalkFrom(d, Read(d))
    BY <2>1 DEF get_current_document_metadata, TypeOK
  <2>5. ASSUME NEW d \in Docs, list_document_source_events(w, d)
        PROVE  walk'[v] = walk[v] \/ walk'[v] = WalkFrom(d, Read(d))
    BY <2>5 DEF list_document_source_events, TypeOK
  <2>2. CASE Apply(w) \/ ReadTarget(w)
    <3>1. req[w].target \in Docs BY <2>2 DEF Apply, ReadTarget, Serving, Relationship
    <3>. QED BY <2>2, <3>1 DEF Apply, ReadTarget, TypeOK
  <2>3. CASE Answer(w) \/ Fail(w) BY <2>3 DEF Answer, Fail, Idle, TypeOK
  <2>4. CASE ReadSource(w) \/ FindApplied(w) \/ Record(w) \/ \E r \in Relationship : transition(w, r)
    BY <2>4 DEF ReadSource, FindApplied, Record, transition
  <2>. QED BY <1>5, <2>1, <2>2, <2>3, <2>4, <2>5 DEF Request, Step
<1>6. CASE (\E d \in Docs : Purge(d)) \/ UNCHANGED vars BY <1>1, <1>6 DEF Purge, vars
<1>. QED BY <1>1, <1>2, <1>3, <1>4, <1>5, <1>6, <1>7 DEF Next, Step

\* A walk cannot come back to a document it visited: its documents would form a
\* set closed under supersession.
LEMMA NoCycleKept ==
    ASSUME TypeOK, Serving, [Next]_vars, Acyclic, WalkFollowsHistory, NoCycleReported
    PROVE  NoCycleReported'
<1>1. ASSUME NEW w \in Workers PROVE ~(walk[w].next # NoDoc /\ walk[w].next \in walk[w].visited)
  <2>. DEFINE k == walk[w]
  <2>1. SUFFICES ASSUME k.next # NoDoc, k.next \in k.visited PROVE FALSE OBVIOUS
  <2>2. k \in Walk /\ Follows(k) BY DEF WalkFollowsHistory, Follows, TypeOK
  <2>3. k.visited \in (SUBSET Docs) \ {{}} BY <2>1, <2>2 DEF Walk
  <2>4. \A d \in k.visited : superseded_by[d] \in k.visited BY <2>1, <2>2 DEF Follows
  <2>. QED BY <2>3, <2>4 DEF Acyclic
<1>2. ASSUME NEW w \in Workers, Resolve(w) PROVE NoCycleReported'
  BY <1>1, <1>2 DEF Resolve, Hop, NoCycleReported
<1>3. ASSUME NEW w \in Workers, Request(w) \/ Fail(w) PROVE NoCycleReported'
  BY <1>3 DEF Request, transition, get_current_document_metadata, list_document_source_events,
              Fail, Idle, Decide, TypeOK, NoCycleReported
<1>4. ASSUME NEW w \in Workers, Apply(w) \/ FindApplied(w) PROVE NoCycleReported'
  BY <1>4 DEF Apply, FindApplied, Refusal, Decide, TypeOK, NoCycleReported
<1>5. ASSUME NEW w \in Workers, ReadSource(w) \/ ReadTarget(w) \/ ListEvents(w) \/ Record(w) \/ Answer(w)
      PROVE  NoCycleReported'
  BY <1>5 DEF ReadSource, ReadTarget, ListEvents, Record, Answer, Idle, Decide, TypeOK, NoCycleReported
<1>6. CASE (\E d \in Docs : Purge(d)) \/ UNCHANGED vars BY <1>6 DEF Purge, vars, NoCycleReported
<1>. QED BY <1>2, <1>3, <1>4, <1>5, <1>6 DEF Next, Step

----------------------------------------------------------------------------
(* The inductive invariant and the theorems. *)

Safe ==
    /\ TypeOK /\ Serving
    /\ Acyclic /\ PointersBacked /\ LinksMutual
    /\ AnswersHold /\ WalkFollowsHistory /\ NoCycleReported

\* Documents just archived are safe.
LEMMA SafeInit == Init => Safe
<1>. SUFFICES ASSUME Init PROVE Safe OBVIOUS
<1>1. TypeOK /\ Serving BY TypeInit
<1>2. Acyclic BY NoDocAssumption DEF Init, Acyclic
<1>3. PointersBacked BY DEF Init, PointersBacked, OneSuccessorOneOrigin
<1>4. LinksMutual BY NoDocAssumption DEF Init, LinksMutual, Relationship
<1>5. AnswersHold /\ NoCycleReported BY DEF Init, Quiet, AnswersHold, NoCycleReported
<1>6. WalkFollowsHistory BY DEF Init, Quiet, WalkFollowsHistory, NoWalk
<1>. QED BY <1>1, <1>2, <1>3, <1>4, <1>5, <1>6 DEF Safe

\* Every step keeps them safe.
LEMMA SafeNext == Safe /\ [Next]_vars => Safe'
<1>. SUFFICES ASSUME Safe, [Next]_vars PROVE Safe' OBVIOUS
<1>. USE DEF Safe
<1>1. TypeOK' /\ Serving' BY TypeNext
<1>2. Acyclic' BY AcyclicKept
<1>3. PointersBacked' BY PointersBackedKept
<1>4. LinksMutual' BY LinksMutualKept
<1>5. AnswersHold' BY <1>4, AnswersHoldKept
<1>6. WalkFollowsHistory' BY WalkKept
<1>7. NoCycleReported' BY NoCycleKept
<1>. QED BY <1>1, <1>2, <1>3, <1>4, <1>5, <1>6, <1>7

\* Spec stays within the inductive invariant.
THEOREM SafeAlways == Spec => []Safe
BY SafeInit, SafeNext, PTL DEF Spec

\* Concurrent supersede, correct and reissue requests never close a cycle.
THEOREM AcyclicAlways == Spec => []Acyclic
<1>1. Safe => Acyclic BY DEF Safe
<1>. QED BY <1>1, SafeAlways, PTL

\* Every pointer is backed by one relationship record, records give a document
\* one successor and one origin, and documents are linked in both directions or
\* not at all.
THEOREM HistoryAgreesAlways == Spec => []HistoryAgrees
<1>1. Safe => HistoryAgrees BY DEF Safe, HistoryAgrees
<1>. QED BY <1>1, SafeAlways, PTL

\* A transition answered as recorded is recorded when the answer is given.
THEOREM AnswersHoldAlways == Spec => []AnswersHold
<1>1. Safe => AnswersHold BY DEF Safe
<1>. QED BY <1>1, SafeAlways, PTL

\* _resolve_current_document walks the stored chain, however it grows meanwhile.
THEOREM WalkFollowsHistoryAlways == Spec => []WalkFollowsHistory
<1>1. Safe => WalkFollowsHistory BY DEF Safe
<1>. QED BY <1>1, SafeAlways, PTL

\* _resolve_current_document never raises its cycle error on documents
\* archived by this release.
THEOREM NoCycleReportedAlways == Spec => []NoCycleReported
<1>1. Safe => NoCycleReported BY DEF Safe
<1>. QED BY <1>1, SafeAlways, PTL

\* No step rewrites or removes recorded history.
THEOREM HistoryAppendOnlyAlways == Spec => HistoryAppendOnly
<1>1. Safe /\ [Next]_vars =>
        [/\ relationships \subseteq relationships'
         /\ \A d \in Docs : superseded_by[d] # NoDoc => superseded_by'[d] = superseded_by[d]
         /\ \A d \in Docs, ty \in Types : origin[d][ty] # NoDoc => origin'[d][ty] = origin[d][ty]]_vars
  BY AppendedNext DEF Safe, Appended
<1>. QED BY <1>1, SafeAlways, PTL DEF Spec, HistoryAppendOnly

\* No step links a document that is recorded as destroyed.
THEOREM PurgedNeverLinkedAlways == Spec => PurgedNeverLinked
<1>1. ASSUME Safe, [Next]_vars
      PROVE  \A d \in Docs : superseded_by'[d] # superseded_by[d] =>
                d \notin purged /\ superseded_by'[d] \notin purged
  <2>1. CASE UNCHANGED pointers BY <2>1 DEF pointers
  <2>2. ASSUME NEW r \in Relationship, NewLink(r)
        PROVE  \A d \in Docs : superseded_by'[d] # superseded_by[d] =>
                  d \notin purged /\ superseded_by'[d] \notin purged
    BY <1>1, <2>2, LinkEffect DEF NewLink, Safe
  <2>. QED BY <1>1, <2>1, <2>2, HistoryStep DEF Safe
<1>. QED BY <1>1, SafeAlways, PTL DEF Spec, PurgedNeverLinked

----------------------------------------------------------------------------
(* Source events. *)

\* A listing names the transition away from the document it starts at, if its walk
\* left that document.
Explains(k) == k.at # k.start => \E r \in k.listed : r.source = k.start /\ r.target \in k.visited

\* The worker of a listing, and what it has listed when it answers.
Explaining ==
    \A w \in Workers : outcome[w] = "events" =>
        /\ walk[w].visited # {}
        /\ pc[w] \in {"resolve_events", "list_events", "record", "answer"}
        /\ pc[w] \in {"record", "answer"} => Explains(walk[w])

\* A listing that comes after the walk finds the transition the walk followed.
LEMMA ListingExplains ==
    ASSUME Safe, NEW w \in Workers, ListEvents(w), walk[w].visited # {}
    PROVE  Explains(walk'[w]) /\ walk'[w].visited # {}
<1>. DEFINE k == walk[w]
<1>1. k \in Walk /\ Follows(k) BY DEF Safe, WalkFollowsHistory, Follows, TypeOK
<1>2. walk'[w] = [k EXCEPT !.listed = Listed(k.start)] BY DEF ListEvents, Safe, TypeOK
<1>. PICK l : l = Listed(k.start) OBVIOUS
<1>3. /\ walk'[w].at = k.at /\ walk'[w].start = k.start /\ walk'[w].visited = k.visited
      /\ walk'[w].listed = l
  BY <1>1, <1>2 DEF Walk
<1>4. SUFFICES ASSUME k.at # k.start
               PROVE  \E r \in relationships : r.source = k.start /\ r.target \in k.visited
  BY <1>3 DEF Explains, Listed
<1>5. k.start \in Docs /\ k.start \in k.visited /\ superseded_by[k.start] \in k.visited
  BY <1>1, <1>4 DEF Follows, Walk
<1>6. superseded_by[k.start] # NoDoc BY <1>1, <1>5, NoDocAssumption DEF Walk
<1>. QED BY <1>5, <1>6 DEF Safe, PointersBacked

\* A listing walks first and lists afterwards, whatever the others do meanwhile.
LEMMA ExplainingNext ==
    ASSUME Safe, Explaining, [Next]_vars
    PROVE  Explaining'
<1>. USE DEF Goto, Decide
<1>0. /\ pc \in [Workers -> Steps] /\ outcome \in [Workers -> Outcomes] /\ walk \in [Workers -> Walk]
  BY DEF Safe, TypeOK
<1>. DEFINE Ok(v) == outcome'[v] = "events" =>
                        /\ walk'[v].visited # {}
                        /\ pc'[v] \in {"resolve_events", "list_events", "record", "answer"}
                        /\ pc'[v] \in {"record", "answer"} => Explains(walk'[v])
<1>1. SUFFICES ASSUME NEW v \in Workers PROVE Ok(v)
  BY DEF Explaining, Explains
<1>2. outcome[v] = "events" =>
        /\ walk[v].visited # {}
        /\ pc[v] \in {"resolve_events", "list_events", "record", "answer"}
        /\ pc[v] \in {"record", "answer"} => Explains(walk[v])
  BY DEF Explaining
<1>3. CASE outcome'[v] = outcome[v] /\ pc'[v] = pc[v] /\ walk'[v] = walk[v] BY <1>2, <1>3
<1>4. ASSUME NEW w \in Workers, Request(w) \/ Step(w) \/ Fail(w),
             ~(outcome'[v] = outcome[v] /\ pc'[v] = pc[v] /\ walk'[v] = walk[v])
      PROVE  w = v
  BY <1>0, <1>4 DEF Request, Step, Fail, transition, get_current_document_metadata,
     list_document_source_events, ReadSource, ReadTarget, FindApplied, Apply, Resolve, Hop,
     ListEvents, Record, Answer, Idle
<1>5. ASSUME Request(v) PROVE Ok(v)
  <2>1. ASSUME NEW d \in Docs, list_document_source_events(v, d) PROVE Ok(v)
    <3>1. walk'[v] = WalkFrom(d, Read(d)) /\ pc'[v] = "resolve_events"
      BY <1>0, <2>1 DEF list_document_source_events
    <3>2. walk'[v].visited = {d} BY <3>1 DEF WalkFrom
    <3>. QED BY <3>1, <3>2
  <2>2. ASSUME NEW d \in Docs, get_current_document_metadata(v, d) PROVE Ok(v)
    BY <1>0, <2>2 DEF get_current_document_metadata
  <2>3. ASSUME NEW r \in Relationship, transition(v, r) PROVE Ok(v)
    BY <1>0, <1>2, <2>3 DEF transition
  <2>. QED BY <1>5, <2>1, <2>2, <2>3 DEF Request
<1>6. ASSUME FindApplied(v) \/ Apply(v) \/ ReadSource(v) \/ ReadTarget(v) PROVE Ok(v)
  <2>1. \A r, s, t : Refusal(r, s, t) # "events" BY DEF Refusal
  <2>2. outcome[v] # "events" BY <1>2, <1>6 DEF FindApplied, Apply, ReadSource, ReadTarget
  <2>. QED BY <1>0, <1>6, <2>1, <2>2 DEF FindApplied, Apply, ReadSource, ReadTarget
<1>7. ASSUME Resolve(v) PROVE Ok(v)
  <2>1. CASE outcome[v] = "events"
    <3>1. pc[v] = "resolve_events" /\ Hop(v, "list_events") BY <1>2, <1>7, <2>1 DEF Resolve
    <3>2. CASE walk' = walk BY <1>0, <1>2, <2>1, <3>1, <3>2 DEF Hop
    <3>3. CASE walk' # walk
      <4>. DEFINE k == walk[v]
      <4>1. /\ walk' = [walk EXCEPT ![v] = [k EXCEPT !.at = k.next, !.next = superseded_by[k.next],
                                                     !.visited = @ \cup {k.next}]]
            /\ pc' = pc
        BY <3>1, <3>3 DEF Hop
      <4>2. walk'[v].visited = k.visited \cup {k.next} BY <1>0, <4>1 DEF Walk
      <4>. QED BY <3>1, <4>1, <4>2
    <3>. QED BY <3>2, <3>3
  <2>2. CASE outcome[v] # "events" BY <1>0, <1>7, <2>2 DEF Resolve, Hop
  <2>. QED BY <2>1, <2>2
<1>8. ASSUME ListEvents(v) PROVE Ok(v)
  BY <1>0, <1>2, <1>8, ListingExplains DEF ListEvents
<1>9. ASSUME Record(v) PROVE Ok(v)
  BY <1>0, <1>2, <1>9 DEF Record
<1>10. ASSUME Answer(v) \/ Fail(v) PROVE Ok(v)
  BY <1>0, <1>10 DEF Answer, Fail, Idle
<1>11. CASE (\E d \in Docs : Purge(d)) \/ UNCHANGED vars BY <1>3, <1>11 DEF Purge, vars
<1>. HIDE DEF Ok
<1>. QED BY <1>3, <1>4, <1>5, <1>6, <1>7, <1>8, <1>9, <1>10, <1>11 DEF Next, Step, Ok

\* The source events of a document explain the current document they name, although
\* list_document_source_events reads the two in different transactions.
THEOREM EventsExplainCurrentAlways == Spec => []EventsExplainCurrent
<1>1. Init => Explaining BY DEF Init, Quiet, Explaining
<1>2. Safe /\ Explaining /\ [Next]_vars => Explaining' BY ExplainingNext
<1>3. Explaining => EventsExplainCurrent BY DEF Explaining, Explains, EventsExplainCurrent
<1>. QED BY <1>1, <1>2, <1>3, SafeAlways, PTL DEF Spec

----------------------------------------------------------------------------
(* Damaged history. *)

\* Rows an earlier release damaged, and pointers no writer leaves, are well typed.
LEMMA DamagedType == LegacyInit \/ CorruptInit => TypeOK /\ Serving
<1>1. ASSUME Quiet PROVE /\ purged \in SUBSET Docs /\ pc \in [Workers -> Steps] /\ Serving
                         /\ req \in [Workers -> Relationship \cup {NoRequest}]
                         /\ source \in [Workers -> Snapshot] /\ target \in [Workers -> Snapshot]
                         /\ walk \in [Workers -> Walk] /\ outcome \in [Workers -> Outcomes]
  BY <1>1, NothingType DEF Quiet, Serving, Steps, Outcomes
<1>2. ASSUME LegacyInit PROVE TypeOK /\ Serving
  <2>1. PICK r \in Relationship :
          /\ relationships = {r}
          /\ superseded_by \in {[d \in Docs |-> NoDoc],
                                [d \in Docs |-> IF d = r.source THEN r.target ELSE NoDoc]}
          /\ origin \in {[d \in Docs |-> [ty \in Types |-> NoDoc]],
                         [d \in Docs |-> [ty \in Types |->
                             IF d = r.target /\ ty = r.type THEN r.source ELSE NoDoc]]}
    BY <1>2 DEF LegacyInit
  <2>2. r.source \in Docs /\ r.target \in Docs BY DEF Relationship
  <2>3. /\ superseded_by \in [Docs -> DocOrNone] /\ origin \in [Docs -> [Types -> DocOrNone]]
    BY <2>1, <2>2 DEF DocOrNone
  <2>. QED BY <1>1, <1>2, <2>1, <2>3 DEF LegacyInit, TypeOK
<1>3. ASSUME CorruptInit PROVE TypeOK /\ Serving
  BY <1>1, <1>3 DEF CorruptInit, TypeOK, DocOrNone
<1>. QED BY <1>2, <1>3

\* A worker that comes to report a new transition has found no record of its source and none of its target.
LEMMA RecordedStep ==
    ASSUME TypeOK, Serving, [Next]_vars, NEW v \in Workers, outcome[v] # "recorded", outcome'[v] = "recorded"
    PROVE  \A q \in relationships : q.source # req[v].source /\ q.target # req[v].target
<1>. USE DEF Goto, Decide
<1>0. outcome \in [Workers -> Outcomes] BY DEF TypeOK
<1>1. \A r, s, t : Refusal(r, s, t) # "recorded" BY DEF Refusal
<1>2. ASSUME NEW w \in Workers, Apply(w)
      PROVE  w = v /\ ~UniqueViolation(req[w])
  BY <1>0, <1>1, <1>2 DEF Apply
<1>3. ASSUME NEW w \in Workers, Request(w) \/ Fail(w) \/ (Step(w) /\ ~Apply(w)) PROVE FALSE
  BY <1>0, <1>1, <1>3 DEF Request, Step, Fail, transition, get_current_document_metadata,
     list_document_source_events, ReadSource, ReadTarget, FindApplied, Resolve, Hop,
     ListEvents, Record, Answer, Idle
<1>4. ~(\E d \in Docs : Purge(d)) /\ ~UNCHANGED vars BY DEF Purge, vars
<1>5. PICK w \in Workers : Apply(w) BY <1>3, <1>4 DEF Next
<1>. QED BY <1>2, <1>5 DEF UniqueViolation

\* Also over pointers an earlier release erased or corrupted, a transition is reported
\* as newly recorded only where the records had none from its source or to its target.
THEOREM RecordedOnceAlways == FairDamagedSpec => RecordedOnce
<1>1. TypeOK /\ Serving /\ [Next]_vars =>
        [\A w \in Workers : outcome[w] # "recorded" /\ outcome'[w] = "recorded" =>
            \A q \in relationships : q.source # req[w].source /\ q.target # req[w].target]_vars
  BY RecordedStep
<1>2. FairDamagedSpec => (LegacyInit \/ CorruptInit) /\ [][Next]_vars BY PTL DEF FairDamagedSpec
<1>. QED BY <1>1, <1>2, DamagedType, TypeNext, PTL DEF RecordedOnce
=============================================================================
