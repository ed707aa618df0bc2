----------------------------- MODULE Access_proofs -----------------------------
(***************************************************************************)
(* Proofs about Access for any number of documents and scopes, any batch   *)
(* limit, and documents that are archived, destroyed and damaged while the *)
(* request runs.                                                           *)
(***************************************************************************)
EXTENDS Access, SequenceTheorems, TLAPS

----------------------------------------------------------------------------
(* The inductive invariant. *)

\* The events of the request, written or to be written.
log == recorded \o pending

\* What an event says of a document is true of it and stays so.
True(e) ==
    /\ e.reason \in {"access_allowed", "download_succeeded", "document_purged",
                     "caller_scope_mismatch", "document_scope_unavailable"} =>
          e.doc \in DocIds /\ documents[e.doc] # None
    /\ e.reason \in {"access_allowed", "download_succeeded", "document_purged"} => InScope(e.doc)
    /\ e.reason = "document_purged" => documents[e.doc].purge = "purged"
    /\ e.reason = "caller_scope_mismatch" => ~InScope(e.doc)
    /\ e.reason = "document_scope_unavailable" => documents[e.doc].scope = NoScope

\* An item of a batch in answer a, against the event of its place in log l.
Told(i, l, a) ==
    /\ l[i].doc = req.ids[i]
    /\ l[i].allowed = (a.items[i].state = "allowed")
    /\ l[i].reason # "not_accessible"
    /\ a.items[i].doc = req.ids[i]
    /\ \/ a.items[i].reason \in {"not_accessible", "lookup_unavailable"}
       \/ InScope(req.ids[i])
    /\ req.ids[i] \in settled => a.items[i].state # "allowed"

\* Answer a against log l, from the moment it is decided.
Answered(l, a) ==
    /\ req.kind = "preflight" /\ a.status = "ok" =>
          /\ Len(l) = Len(req.ids)
          /\ DOMAIN a.items = DOMAIN req.ids
          /\ \A i \in DOMAIN req.ids : Told(i, l, a)
    /\ req.kind # "preflight" /\ a.status \in {"ok", "document_purged"} =>
          Len(l) = 1 /\ l[1].doc = doc
    /\ a.status = "authorization_failed" =>
          Len(l) = 1 /\ l[1].type = "authorization_denied"
    /\ req.kind \in SingleKinds \ {"access_events"} /\ a.status = "ok" => doc \notin settled

Deciding == {"idle", "find", "authorize", "lookup", "fetch"}

Inv ==
    /\ TypeOK
    /\ pc # "idle" => req \in Requests
    /\ pc \in Deciding => pending = <<>> /\ recorded = <<>>
    /\ pc = "find" => req.kind = "by_request"
    /\ pc = "fetch" => req.kind = "download" /\ InScope(doc) /\ doc \notin settled
    /\ pc = "lookup" /\ req.kind = "preflight" => Len(req.ids) >= 1
    /\ pc = "record" => pending # <<>>
    /\ pc = "answer" => pending = <<>>
    /\ \A d \in settled : documents[d] # None /\ documents[d].purge = "purged"
    /\ \A i \in DOMAIN log : True(log[i])
    /\ pc \in {"record", "answer"} => Answered(log, answer)

----------------------------------------------------------------------------
(* Operators. *)

\* A request names documents; one that is not a batch names one.
LEMMA RequestFacts ==
    ASSUME NEW r \in Requests
    PROVE  /\ r.kind \in Kinds
           /\ r.ids \in Seq(DocIds)
           /\ r.kind # "preflight" => Len(r.ids) = 1 /\ r.ids[1] \in DocIds
           /\ r.caller.scope \in Scopes \cup {NoScope}
<1>. DEFINE Callers == [service : Services \cup {NoService}, scope : Scopes \cup {NoScope}]
<1>1. ASSUME NEW b \in Batches, NEW c \in Callers, r = [kind |-> "preflight", ids |-> b, caller |-> c]
      PROVE  /\ r.kind = "preflight" /\ r.ids \in Seq(DocIds)
             /\ r.caller.scope \in Scopes \cup {NoScope}
  <2>1. PICK n \in 0..(MaxBatch + 1) : b \in [1..n -> DocIds] BY DEF Batches
  <2>2. n \in Nat BY BatchAssumption
  <2>3. b \in Seq(DocIds) BY <2>1, <2>2
  <2>. QED BY <1>1, <2>3
<1>2. ASSUME NEW k \in SingleKinds, NEW d \in DocIds, NEW c \in Callers,
             r = [kind |-> k, ids |-> <<d>>, caller |-> c]
      PROVE  /\ r.kind \in SingleKinds /\ r.ids \in Seq(DocIds) /\ Len(r.ids) = 1 /\ r.ids[1] \in DocIds
             /\ r.caller.scope \in Scopes \cup {NoScope}
  BY <1>2
<1>. QED BY <1>1, <1>2 DEF Requests, Kinds, SingleKinds

\* A document is in the caller's scope if it is allowed or called purged; it is
\* called purged if it is, and allowed if it is not.
LEMMA ScopeDecision ==
    ASSUME NEW row \in Row, NEW scope \in Scopes \cup {NoScope}
    PROVE  LET t == document_tenant_scope_decision(row, scope)
               d == document_scope_decision(row, scope)
               mine == scope # NoScope /\ row.scope = scope
           IN  /\ t.state = "allowed" <=> mine
               /\ t.state = "allowed" => t.reason = "access_allowed"
               /\ d.state = "allowed" <=> mine /\ row.purge # "purged"
               /\ d.state = "allowed" <=> d.reason = "access_allowed"
               /\ d.reason = "document_purged" <=> mine /\ row.purge = "purged"
               /\ \A e \in {t, d} :
                    /\ e.state \in {"allowed", "denied", "unavailable"} /\ e.reason \in Reasons
                    /\ e.reason \notin {"not_accessible", "lookup_unavailable", "document_not_found"}
                    /\ e.reason \in {"access_allowed", "document_purged"} => mine
                    /\ e.reason = "document_purged" => row.purge = "purged"
                    /\ e.reason = "caller_scope_mismatch" => ~mine
                    /\ e.reason = "document_scope_unavailable" => row.scope = NoScope
                    /\ e.reason # "download_succeeded"
                    /\ e.state = "allowed" => e.reason = "access_allowed"
<1>. DEFINE t == document_tenant_scope_decision(row, scope)
            d == document_scope_decision(row, scope)
<1>1. CASE scope = NoScope
  <2>1. t = Decision("denied", "caller_scope_mismatch") BY <1>1 DEF document_tenant_scope_decision
  <2>2. d = t BY <2>1 DEF document_scope_decision, Decision
  <2>. QED BY <1>1, <2>1, <2>2 DEF Decision, Reasons
<1>2. CASE scope # NoScope /\ row.scope = NoScope
  <2>1. t = Decision("unavailable", "document_scope_unavailable")
    BY <1>2 DEF document_tenant_scope_decision
  <2>2. d = t BY <2>1 DEF document_scope_decision, Decision
  <2>. QED BY <1>2, <2>1, <2>2 DEF Decision, Reasons
<1>3. CASE scope # NoScope /\ row.scope \notin {NoScope, scope}
  <2>1. t = Decision("denied", "caller_scope_mismatch") BY <1>3 DEF document_tenant_scope_decision
  <2>2. d = t BY <2>1 DEF document_scope_decision, Decision
  <2>. QED BY <1>3, <2>1, <2>2 DEF Decision, Reasons
<1>4. CASE scope # NoScope /\ row.scope = scope
  <2>1. t = Decision("allowed", "access_allowed") BY <1>4 DEF document_tenant_scope_decision
  <2>2. d = IF row.purge = "purged" THEN Decision("unavailable", "document_purged") ELSE t
    BY <2>1 DEF document_scope_decision, Decision
  <2>. QED BY <1>4, <2>1, <2>2 DEF Decision, Reasons
<1>. QED BY <1>1, <1>2, <1>3, <1>4

\* The granular decision on an id, as the audit keeps it, is true of the document.
LEMMA GranularTrue ==
    ASSUME Inv, req \in Requests, NEW d \in DocIds, NEW u
    PROVE  LET g == Granular(d, u, req.caller.scope)
           IN  /\ g.state \in {"allowed", "denied", "unavailable"} /\ g.reason \in Reasons
               /\ g.reason # "not_accessible" /\ g.reason # "download_succeeded"
               /\ g.reason \in {"access_allowed", "document_purged"} => InScope(d)
               /\ g.reason = "document_purged" => documents[d].purge = "purged"
               /\ g.reason = "caller_scope_mismatch" => documents[d] # None /\ ~InScope(d)
               /\ g.reason = "document_scope_unavailable" =>
                     documents[d] # None /\ documents[d].scope = NoScope
               /\ g.reason \in EXISTENCE_REVEALING \cup {"lookup_unavailable", "access_allowed",
                                                       "document_purged"}
               /\ g.state = "allowed" => g.reason = "access_allowed" /\ documents[d].purge # "purged"
<1>. DEFINE scope == req.caller.scope
            g == Granular(d, u, scope)
<1>t. documents[d] \in Row \cup {None} /\ scope \in Scopes \cup {NoScope}
  BY RequestFacts DEF Inv, TypeOK
<1>1. CASE d \in u
  <2>1. g = Decision("unavailable", "lookup_unavailable") BY <1>1 DEF Granular
  <2>. QED BY <2>1 DEF Decision, Reasons
<1>2. CASE d \notin u /\ documents[d] = None
  <2>1. g = Decision("denied", "document_not_found") BY <1>2 DEF Granular
  <2>. QED BY <2>1 DEF Decision, Reasons, EXISTENCE_REVEALING
<1>3. CASE d \notin u /\ documents[d] # None
  <2>. DEFINE row == documents[d]
  <2>1. g = document_scope_decision(row, scope) BY <1>3 DEF Granular
  <2>2. row \in Row BY <1>3, <1>t
  <2>3. InScope(d) <=> scope # NoScope /\ row.scope = scope BY <1>3 DEF InScope
  <2>4. g.reason \in {"access_allowed", "document_purged", "caller_scope_mismatch",
                      "document_scope_unavailable"}
    <3>1. document_tenant_scope_decision(row, scope) \in
            {Decision("denied", "caller_scope_mismatch"), Decision("allowed", "access_allowed"),
             Decision("unavailable", "document_scope_unavailable")}
      BY DEF document_tenant_scope_decision
    <3>. QED BY <2>1, <3>1 DEF document_scope_decision, Decision
  <2>. QED BY <1>3, <1>t, <2>1, <2>2, <2>3, <2>4, ScopeDecision DEF EXISTENCE_REVEALING
<1>. QED BY <1>1, <1>2, <1>3

----------------------------------------------------------------------------
(* The documents meanwhile. *)

\* A document keeps its scope for ever, and a purged one stays purged.
Kept ==
    \A d \in DocIds : documents[d] # None =>
        /\ documents'[d] # None
        /\ documents'[d].scope = documents[d].scope
        /\ documents[d].purge = "purged" => documents'[d].purge = "purged"

\* What other components do to a document meanwhile keeps its identity and its type, and a purge is never undone.
LEMMA MeanwhileKeeps ==
    ASSUME TypeOK, Meanwhile
    PROVE  Kept /\ documents' \in [DocIds -> Row \cup {None}]
<1>t. documents \in [DocIds -> Row \cup {None}] BY DEF TypeOK
<1>1. ASSUME NEW d \in DocIds, NEW row \in Row, documents' = [documents EXCEPT ![d] = row],
             documents[d] # None => /\ row.scope = documents[d].scope
                                    /\ documents[d].purge = "purged" => row.purge = "purged"
      PROVE  Kept /\ documents' \in [DocIds -> Row \cup {None}]
  BY <1>t, <1>1, NoneAssumption DEF Kept
<1>2. PICK d \in DocIds : (\E s \in Scopes : Archive(d, s)) \/ Destroy(d) \/ Damage(d)
  BY DEF Meanwhile
<1>3. CASE \E s \in Scopes : Archive(d, s)
  <2>1. PICK s \in Scopes : Archive(d, s) BY <1>3
  <2>2. Fresh(s) \in Row BY DEF Fresh, Row
  <2>. QED BY <1>1, <2>1, <2>2 DEF Archive
<1>4. CASE Destroy(d)
  <2>1. documents[d] \in Row BY <1>t, <1>4 DEF Destroy
  <2>2. \/ documents[d].purge = "retained"
           /\ documents' = [documents EXCEPT ![d] = [documents[d] EXCEPT !.purge = "started"]]
        \/ documents[d].purge = "started"
           /\ documents' = [documents EXCEPT ![d] = [documents[d] EXCEPT !.bytes = "gone"]]
        \/ documents[d].purge = "started"
           /\ documents' = [documents EXCEPT ![d] = [documents[d] EXCEPT !.purge = "purged"]]
    BY <1>4 DEF Destroy
  <2>3. ASSUME documents[d].purge = "retained",
               documents' = [documents EXCEPT ![d] = [documents[d] EXCEPT !.purge = "started"]]
        PROVE  Kept /\ documents' \in [DocIds -> Row \cup {None}]
    <3>1. [documents[d] EXCEPT !.purge = "started"] \in Row
          /\ [documents[d] EXCEPT !.purge = "started"].scope = documents[d].scope
      BY <2>1 DEF Row
    <3>. QED BY <1>1, <2>3, <3>1
  <2>4. ASSUME documents[d].purge = "started",
               documents' = [documents EXCEPT ![d] = [documents[d] EXCEPT !.bytes = "gone"]]
        PROVE  Kept /\ documents' \in [DocIds -> Row \cup {None}]
    <3>1. [documents[d] EXCEPT !.bytes = "gone"] \in Row
          /\ [documents[d] EXCEPT !.bytes = "gone"].scope = documents[d].scope
      BY <2>1 DEF Row
    <3>. QED BY <1>1, <2>4, <3>1
  <2>5. ASSUME documents[d].purge = "started",
               documents' = [documents EXCEPT ![d] = [documents[d] EXCEPT !.purge = "purged"]]
        PROVE  Kept /\ documents' \in [DocIds -> Row \cup {None}]
    <3>1. [documents[d] EXCEPT !.purge = "purged"] \in Row
          /\ [documents[d] EXCEPT !.purge = "purged"].scope = documents[d].scope
      BY <2>1 DEF Row
    <3>. QED BY <1>1, <2>5, <3>1
  <2>. QED BY <2>2, <2>3, <2>4, <2>5
<1>5. CASE Damage(d)
  <2>1. documents[d] \in Row /\ documents' = [documents EXCEPT ![d] = [documents[d] EXCEPT !.bytes = "altered"]]
    BY <1>t, <1>5 DEF Damage
  <2>2. /\ [documents[d] EXCEPT !.bytes = "altered"] \in Row
        /\ [documents[d] EXCEPT !.bytes = "altered"].scope = documents[d].scope
        /\ [documents[d] EXCEPT !.bytes = "altered"].purge = documents[d].purge
    BY <2>1 DEF Row
  <2>. QED BY <1>1, <2>1, <2>2
<1>. QED BY <1>2, <1>3, <1>4, <1>5

\* What others do to the documents disturbs nothing that a request relies on.
LEMMA MeanwhileInv ==
    ASSUME Inv, Meanwhile
    PROVE  Inv'
<1>1. Kept /\ documents' \in [DocIds -> Row \cup {None}] BY MeanwhileKeeps DEF Inv
<1>2. UNCHANGED <<adapter, pc, req, pending, recorded, answer, settled>> BY DEF Meanwhile, request
<1>3. TypeOK' BY <1>1, <1>2 DEF Inv, TypeOK
<1>4. ASSUME NEW d \in DocIds, documents[d] # None
      PROVE  /\ documents'[d] # None
             /\ InScope(d)' <=> InScope(d)
             /\ documents'[d].scope = documents[d].scope
             /\ documents[d].purge = "purged" => documents'[d].purge = "purged"
  BY <1>1, <1>2, <1>4 DEF Kept, InScope
<1>5. \A d \in settled : documents'[d] # None /\ documents'[d].purge = "purged"
  BY <1>4 DEF Inv, TypeOK
<1>6. ASSUME NEW i \in DOMAIN log PROVE True(log[i])'
  <2>. PICK e : e = log[i] OBVIOUS
  <2>1. True(e) BY DEF Inv
  <2>2. log' = log BY <1>2 DEF log
  <2>. QED BY <2>1, <2>2, <1>4 DEF True
<1>7. ASSUME pc \in {"record", "answer"} PROVE Answered(log, answer)'
  <2>1. log' = log BY <1>2 DEF log
  <2>2. Answered(log, answer) /\ req.ids \in Seq(DocIds) BY <1>7, RequestFacts DEF Inv
  <2>3. ASSUME NEW i \in DOMAIN req.ids, Told(i, log, answer) PROVE Told(i, log, answer)'
    <3>1. req.ids[i] \in DocIds BY <2>2
    <3>2. InScope(req.ids[i]) => InScope(req.ids[i])'
      BY <3>1, <1>2, <1>4 DEF InScope
    <3>. QED BY <2>1, <2>3, <1>2, <3>2 DEF Told
  <2>. QED BY <2>1, <2>2, <2>3, <1>2 DEF Answered, doc
<1>8. pc = "fetch" => InScope(doc)'
  <2>1. SUFFICES ASSUME pc = "fetch" PROVE InScope(doc)' OBVIOUS
  <2>2. doc \in DocIds /\ InScope(doc) BY <2>1, RequestFacts DEF Inv, doc
  <2>. QED BY <2>2, <1>2, <1>4 DEF InScope, doc
<1>9. DOMAIN log' = DOMAIN log BY <1>2 DEF log
<1>. QED BY <1>2, <1>3, <1>5, <1>6, <1>7, <1>8, <1>9 DEF Inv, doc

----------------------------------------------------------------------------
(* Deciding an answer. *)

\* A sequence is not changed when its head moves to the end of what precedes it.
LEMMA MoveHead ==
    ASSUME NEW S, NEW a \in Seq(S), NEW b \in Seq(S), b # <<>>
    PROVE  /\ Head(b) \in S /\ Tail(b) \in Seq(S)
           /\ Append(a, Head(b)) \o Tail(b) = a \o b
<1>1. b = <<Head(b)>> \o Tail(b) /\ Head(b) \in S /\ Tail(b) \in Seq(S) BY HeadTailProperties
<1>2. Append(a, Head(b)) = a \o <<Head(b)>> BY <1>1, AppendIsConcat
<1>3. <<Head(b)>> \in Seq(S) BY <1>1
<1>4. (a \o <<Head(b)>>) \o Tail(b) = a \o (<<Head(b)>> \o Tail(b)) BY <1>1, <1>3, ConcatAssociative
<1>. QED BY <1>1, <1>2, <1>4

\* Deciding answer a with the events that must precede it.
LEMMA ConcludeInv ==
    ASSUME Inv, pc \in Deciding \ {"idle"},
           NEW events \in Seq(Event), NEW a, Conclude(events, a),
           a.status \in Statuses, a.items \in Seq(Item), a.result \in ResultStates,
           UNCHANGED <<documents, adapter, req, recorded, settled>>,
           \A i \in DOMAIN events : True(events[i]),
           Answered(events, a)
    PROVE  Inv'
<1>1. /\ pc' \in {"record", "answer"} /\ pending' = events /\ answer' = a
      /\ pc' = "record" <=> events # <<>>
  BY DEF Conclude
<1>2. recorded' = <<>> /\ req \in Requests BY DEF Inv, Deciding
<1>3. log' = events BY <1>1, <1>2, ConcatEmptySeq DEF log
<1>4. TypeOK' BY <1>1 DEF Inv, TypeOK
<1>5. \A i \in DOMAIN log' : True(log[i])'
  BY <1>3 DEF True, InScope
<1>6. Answered(log, answer)'
  BY <1>1, <1>3 DEF Answered, Told, InScope, doc
<1>7. \A d \in settled' : documents'[d] # None /\ documents'[d].purge = "purged" BY DEF Inv
<1>. QED BY <1>1, <1>2, <1>4, <1>5, <1>6, <1>7 DEF Inv, Deciding

\* A refusal that no event precedes.
LEMMA RefuseInv ==
    ASSUME Inv, pc \in Deciding \ {"idle"},
           NEW status \in Statuses \ {"ok", "document_purged", "authorization_failed"},
           Refuse(status, <<>>), UNCHANGED <<documents, adapter, req, recorded, settled>>
    PROVE  Inv'
<1>. DEFINE a == [NoAnswer EXCEPT !.status = status]
<1>1. a.status = status /\ a.items = <<>> /\ a.result = "none" BY DEF NoAnswer
<1>2. Conclude(<<>>, a) BY DEF Refuse
<1>3. Answered(<<>>, a) BY <1>1 DEF Answered
<1>. HIDE DEF a
<1>4. a.items \in Seq(Item) /\ a.result \in ResultStates /\ a.status \in Statuses
  BY <1>1 DEF ResultStates
<1>5. <<>> \in Seq(Event) /\ \A i \in DOMAIN <<>> : True(<<>>[i]) OBVIOUS
<1>. QED BY <1>2, <1>3, <1>4, <1>5, ConcludeInv

\* A refusal after the event that records it, and an answer after its own.
LEMMA RecordOneInv ==
    ASSUME Inv, pc \in Deciding \ {"idle"},
           NEW status \in Statuses, NEW e \in Event, True(e),
           Refuse(status, <<e>>), UNCHANGED <<documents, adapter, req, recorded, settled>>,
           req.kind = "preflight" => status = "authorization_failed",
           status = "authorization_failed" => e.type = "authorization_denied",
           req.kind # "preflight" => e.doc = doc,
           req.kind \in SingleKinds \ {"access_events"} /\ status = "ok" => doc \notin settled
    PROVE  Inv'
<1>. DEFINE a == [NoAnswer EXCEPT !.status = status]
<1>1. a.status = status /\ a.items = <<>> /\ a.result = "none" BY DEF NoAnswer
<1>2. Conclude(<<e>>, a) BY DEF Refuse
<1>. HIDE DEF a
<1>3. Len(<<e>>) = 1 /\ <<e>>[1] = e /\ <<e>> \in Seq(Event) /\ \A i \in DOMAIN <<e>> : <<e>>[i] = e
  OBVIOUS
<1>4. Answered(<<e>>, a) BY <1>1, <1>3 DEF Answered
<1>5. a.items \in Seq(Item) /\ a.result \in ResultStates /\ a.status \in Statuses
  BY <1>1 DEF ResultStates
<1>. QED BY <1>2, <1>3, <1>4, <1>5, ConcludeInv

\* A step that decides nothing yet.
LEMMA GotoInv ==
    ASSUME Inv, pc \in Deciding \ {"idle"}, NEW step \in {"authorize", "lookup", "fetch"}, Goto(step),
           UNCHANGED <<documents, adapter, req, recorded, settled>>,
           step = "lookup" /\ req.kind = "preflight" => Len(req.ids) >= 1,
           step = "fetch" => req.kind = "download" /\ InScope(doc) /\ doc \notin settled
    PROVE  Inv'
<1>1. pc' = step /\ UNCHANGED <<pending, answer>> BY DEF Goto
<1>2. pending = <<>> /\ recorded = <<>> /\ req \in Requests BY DEF Inv, Deciding
<1>3. log' = log BY <1>1 DEF log
<1>4. TypeOK' BY <1>1 DEF Inv, TypeOK
<1>5. \A i \in DOMAIN log' : True(log[i])' BY <1>3 DEF Inv, True, InScope
<1>. QED BY <1>1, <1>2, <1>4, <1>5 DEF Inv, Deciding, InScope, doc

----------------------------------------------------------------------------
(* One lemma per step of the request. *)

\* A request starts with nothing recorded and nothing pending.
LEMMA ReceiveInv ==
    ASSUME Inv, NEW r \in Requests, receive(r)
    PROVE  Inv'
<1>1. /\ pc = "idle" /\ req' = r /\ recorded' = <<>> /\ UNCHANGED <<documents, adapter>>
      /\ pending = <<>>
      /\ settled' = {d \in DocIds : documents[d] # None /\ documents[d].purge = "purged"}
  BY DEF receive, Inv, Deciding
<1>2. /\ pending' = <<>> /\ answer'.items \in Seq(Item) /\ answer'.result \in ResultStates
      /\ answer'.status \in Statuses
      /\ \/ pc' = "answer" /\ answer'.status = "caller_context_missing"
         \/ pc' = "find" /\ r.kind = "by_request"
         \/ pc' = "authorize"
  <2>1. CASE Refuse("caller_context_missing", <<>>)
    BY <2>1 DEF Refuse, Conclude, NoAnswer, Statuses, ResultStates
  <2>2. ASSUME NEW step \in {"find", "authorize"}, Goto(step), step = "find" => r.kind = "by_request"
        PROVE  /\ pending' = <<>> /\ answer' = answer
               /\ \/ pc' = "find" /\ r.kind = "by_request"
                  \/ pc' = "authorize"
    BY <1>1, <2>2 DEF Goto
  <2>3. answer.items \in Seq(Item) /\ answer.result \in ResultStates /\ answer.status \in Statuses
    BY DEF Inv, TypeOK
  <2>. QED BY <2>1, <2>2, <2>3 DEF receive
<1>3. TypeOK' BY <1>1, <1>2 DEF Inv, TypeOK
<1>4. log' = <<>> BY <1>1, <1>2 DEF log
<1>5. pc' = "answer" => Answered(log, answer)' BY <1>2 DEF Answered
<1>. QED BY <1>1, <1>2, <1>3, <1>4, <1>5 DEF Inv, Deciding

\* The lookup by id before authorization: an unknown document is refused without an event.
LEMMA FindInv ==
    ASSUME Inv, Find
    PROVE  Inv'
<1>1. pc \in Deciding \ {"idle"} BY DEF Find, Deciding
<1>2. CASE Refuse("document_not_found", <<>>) BY <1>1, <1>2, RefuseInv DEF Find, Statuses
<1>3. CASE Goto("authorize") BY <1>1, <1>3, GotoInv DEF Find
<1>. QED BY <1>2, <1>3 DEF Find

\* Authorization: a refusal brings its event with it, a permission is not answered yet.
LEMMA AuthorizeInv ==
    ASSUME Inv, authorize
    PROVE  Inv'
<1>1. /\ pc \in Deciding \ {"idle"} /\ req \in Requests
      /\ UNCHANGED <<documents, adapter, req, recorded, settled>>
  BY DEF authorize, Deciding, Inv
<1>2. /\ req.ids \in Seq(DocIds) /\ Len(req.ids) \in Nat
      /\ req.kind # "preflight" => doc \in DocIds
  BY <1>1, RequestFacts DEF doc
<1>3. CASE Refuse("invalid", <<>>) \/ Refuse("caller_scope_missing", <<>>)
  BY <1>1, <1>3, RefuseInv DEF Statuses
<1>4. CASE Refuse("authorization_failed",
                  <<Denied(IF req.kind = "preflight" THEN None ELSE doc, "caller_not_allowed")>>)
  <2>. DEFINE e == Denied(IF req.kind = "preflight" THEN None ELSE doc, "caller_not_allowed")
  <2>1. /\ e \in Event /\ e.type = "authorization_denied" /\ e.reason = "caller_not_allowed"
        /\ req.kind # "preflight" => e.doc = doc
    BY <1>2 DEF Denied, Event, EventTypes, Reasons
  <2>. HIDE DEF e
  <2>2. True(e) BY <2>1 DEF True
  <2>3. Refuse("authorization_failed", <<e>>) BY <1>4 DEF e
  <2>. QED BY <1>1, <2>1, <2>2, <2>3, RecordOneInv DEF Statuses
<1>5. CASE /\ Goto("lookup")
           /\ ~(req.kind = "preflight" /\ Len(req.ids) \notin 1..MaxBatch)
  <2>1. req.kind = "preflight" => Len(req.ids) >= 1 BY <1>5, <1>2, BatchAssumption
  <2>. QED BY <1>1, <1>5, <2>1, GotoInv
<1>. QED BY <1>3, <1>4, <1>5 DEF authorize

\* The items and the events of a batch, decided from the documents as they are.
LEMMA PreflightInv ==
    ASSUME Inv, pc = "lookup", req.kind = "preflight", NEW u, PreflightAnswer(u),
           UNCHANGED <<documents, adapter, req, recorded, settled>>
    PROVE  Inv'
<1>. DEFINE g(i) == Granular(req.ids[i], u, req.caller.scope)
            items == [i \in DOMAIN req.ids |-> preflight_item(req.ids[i], g(i))]
            events == [i \in DOMAIN req.ids |->
                         [type |-> "batch_access_preflight", doc |-> req.ids[i],
                          allowed |-> items[i].state = "allowed", reason |-> g(i).reason]]
            a == [status |-> "ok", items |-> items, result |-> result_state_for_items(items)]
<1>1. req \in Requests /\ pc \in Deciding \ {"idle"} BY DEF Inv, Deciding
<1>2. /\ req.ids \in Seq(DocIds) /\ Len(req.ids) \in Nat /\ DOMAIN req.ids = 1..Len(req.ids)
  BY <1>1, RequestFacts
<1>3. Conclude(events, a) BY DEF PreflightAnswer
<1>4. ASSUME NEW i \in DOMAIN req.ids
      PROVE  /\ items[i] \in Item /\ items[i].doc = req.ids[i]
             /\ events[i] \in Event /\ events[i].doc = req.ids[i]
             /\ events[i].allowed = (items[i].state = "allowed")
             /\ events[i].reason # "not_accessible"
             /\ True(events[i])
             /\ items[i].reason \in {"not_accessible", "lookup_unavailable"} \/ InScope(req.ids[i])
             /\ req.ids[i] \in settled => items[i].state # "allowed"
  <2>. DEFINE d == req.ids[i]
  <2>1. d \in DocIds BY <1>2
  <2>2. /\ g(i).state \in {"allowed", "denied", "unavailable"} /\ g(i).reason \in Reasons
        /\ g(i).reason # "not_accessible" /\ g(i).reason # "download_succeeded"
        /\ g(i).reason \in {"access_allowed", "document_purged"} => InScope(d)
        /\ g(i).reason = "document_purged" => documents[d].purge = "purged"
        /\ g(i).reason = "caller_scope_mismatch" => documents[d] # None /\ ~InScope(d)
        /\ g(i).reason = "document_scope_unavailable" =>
              documents[d] # None /\ documents[d].scope = NoScope
        /\ g(i).reason \in EXISTENCE_REVEALING \cup {"lookup_unavailable", "access_allowed",
                                                   "document_purged"}
        /\ g(i).state = "allowed" => g(i).reason = "access_allowed" /\ documents[d].purge # "purged"
    BY <1>1, <2>1, GranularTrue
  <2>3. items[i] = preflight_item(d, g(i)) OBVIOUS
  <2>4. /\ events[i].doc = d /\ events[i].reason = g(i).reason
        /\ events[i].allowed = (items[i].state = "allowed")
        /\ events[i].type = "batch_access_preflight"
        /\ events[i] \in Event
    BY <2>1, <2>2 DEF Event, EventTypes
  <2>. HIDE DEF g, items, events
  <2>5. /\ items[i].doc = d /\ items[i] \in Item
        /\ items[i].reason \in {"not_accessible", g(i).reason}
        /\ g(i).reason \in EXISTENCE_REVEALING => items[i].reason = "not_accessible"
        /\ items[i].state = "allowed" => g(i).state = "allowed"
    BY <2>1, <2>2, <2>3 DEF preflight_item, Item, Reasons
  <2>6. True(events[i]) BY <2>1, <2>2, <2>4 DEF True, InScope
  <2>7. d \in settled => items[i].state # "allowed" BY <2>2, <2>5 DEF Inv
  <2>. QED BY <2>2, <2>4, <2>5, <2>6, <2>7
<1>5. items \in Seq(Item) /\ events \in Seq(Event)
      /\ DOMAIN items = DOMAIN req.ids /\ DOMAIN events = DOMAIN req.ids
  <2>1. items \in [1..Len(req.ids) -> Item] /\ events \in [1..Len(req.ids) -> Event] BY <1>2, <1>4
  <2>. HIDE DEF items, events
  <2>. QED BY <2>1, <1>2
<1>. HIDE DEF items, events
<1>6. /\ a.status = "ok" /\ a.items = items /\ a.result \in ResultStates
  BY DEF result_state_for_items, ResultStates
<1>. HIDE DEF a
<1>7. Answered(events, a)
  <2>1. Len(events) = Len(req.ids) BY <1>2, <1>5
  <2>2. \A i \in DOMAIN req.ids : Told(i, events, a) BY <1>4, <1>6 DEF Told
  <2>. QED BY <1>5, <1>6, <2>1, <2>2 DEF Answered, SingleKinds
<1>8. \A i \in DOMAIN events : True(events[i]) BY <1>4, <1>5
<1>9. a.status \in Statuses /\ a.items \in Seq(Item) BY <1>5, <1>6 DEF Statuses
<1>. QED BY <1>1, <1>3, <1>5, <1>6, <1>7, <1>8, <1>9, ConcludeInv

\* The batch lookup, with its timeouts: every item is decided and has its event.
LEMMA LookupBatchInv ==
    ASSUME Inv, LookupBatch
    PROVE  Inv'
<1>1. pc = "lookup" /\ req.kind = "preflight" /\ UNCHANGED <<documents, adapter, req, recorded, settled>>
  BY DEF LookupBatch
<1>2. CASE \E u \in SUBSET DocIds : PreflightAnswer(u) BY <1>1, <1>2, PreflightInv
<1>3. CASE Refuse("lookup_failed", <<>>) BY <1>1, <1>3, RefuseInv DEF Deciding, Statuses
<1>. QED BY <1>1, <1>2, <1>3, PreflightInv DEF LookupBatch

\* The scope check of a single read: a refusal is recorded and true, and what is
\* granted is a document of the caller's scope.
LEMMA AuthorizeScopeInv ==
    ASSUME Inv, pc = "lookup", req.kind # "preflight", documents[doc] # None,
           UNCHANGED <<documents, adapter, req, recorded, settled>>,
           NEW decision, decision \in {document_scope_decision(documents[doc], req.caller.scope),
                                       document_tenant_scope_decision(documents[doc], req.caller.scope)},
           NEW ACTION Granted, AuthorizeScope(decision, Granted),
           decision.state = "allowed" /\ Granted => Inv'
    PROVE  Inv'
<1>1. /\ req \in Requests /\ pc \in Deciding \ {"idle"}
      /\ doc \in DocIds /\ documents[doc] \in Row /\ req.caller.scope \in Scopes \cup {NoScope}
  BY RequestFacts DEF Inv, Deciding, doc, TypeOK
<1>2. CASE Refuse("caller_scope_missing", <<Denied(doc, "caller_scope_missing")>>)
  <2>. DEFINE e == Denied(doc, "caller_scope_missing")
  <2>1. e \in Event /\ e.doc = doc /\ e.reason = "caller_scope_missing"
    BY <1>1 DEF Denied, Event, EventTypes, Reasons
  <2>2. Refuse("caller_scope_missing", <<e>>) BY <1>2
  <2>. HIDE DEF e
  <2>3. True(e) BY <2>1 DEF True
  <2>. QED BY <1>1, <2>1, <2>2, <2>3, RecordOneInv DEF Statuses
<1>3. CASE /\ req.caller.scope # NoScope /\ decision.state # "allowed"
           /\ Refuse(IF decision.reason = "document_purged" THEN "document_purged"
                     ELSE "authorization_failed", <<Denied(doc, decision.reason)>>)
  <2>. DEFINE e == Denied(doc, decision.reason)
              status == IF decision.reason = "document_purged" THEN "document_purged"
                        ELSE "authorization_failed"
  <2>1. /\ decision.reason \in Reasons
        /\ decision.reason \in {"access_allowed", "document_purged"} => InScope(doc)
        /\ decision.reason = "document_purged" => documents[doc].purge = "purged"
        /\ decision.reason = "caller_scope_mismatch" => ~InScope(doc)
        /\ decision.reason = "document_scope_unavailable" => documents[doc].scope = NoScope
        /\ decision.reason # "download_succeeded"
    BY <1>1, ScopeDecision DEF InScope
  <2>2. e \in Event /\ e.doc = doc /\ e.reason = decision.reason /\ e.type = "authorization_denied"
    BY <1>1, <2>1 DEF Denied, Event, EventTypes
  <2>3. Refuse(status, <<e>>) /\ status \in {"document_purged", "authorization_failed"} BY <1>3
  <2>. HIDE DEF e, status
  <2>4. True(e) BY <1>1, <2>1, <2>2 DEF True
  <2>. QED BY <1>1, <2>2, <2>3, <2>4, RecordOneInv DEF Statuses
<1>. QED BY <1>2, <1>3 DEF AuthorizeScope

\* A read of one document: what it answers and what it will record agree.
LEMMA LookupDocumentInv ==
    ASSUME Inv, LookupDocument
    PROVE  Inv'
<1>. DEFINE row == documents[doc]
            scope == req.caller.scope
<1>1. /\ pc = "lookup" /\ req.kind # "preflight"
      /\ UNCHANGED <<documents, adapter, req, recorded, settled>>
      /\ req \in Requests /\ pc \in Deciding \ {"idle"}
      /\ doc \in DocIds /\ row \in Row \cup {None} /\ scope \in Scopes \cup {NoScope}
  BY RequestFacts DEF LookupDocument, Inv, Deciding, doc, TypeOK
<1>2. ASSUME row # None
      PROVE  /\ document_scope_decision(row, scope).state = "allowed" => InScope(doc) /\ doc \notin settled
             /\ document_tenant_scope_decision(row, scope).state = "allowed" => InScope(doc)
  BY <1>1, <1>2, ScopeDecision DEF InScope, Inv
\* A read that is granted and recorded.
<1>3. ASSUME NEW type \in EventTypes, Succeed(<<Allowed(type, doc, "access_allowed")>>), InScope(doc),
             req.kind # "access_events" => doc \notin settled
      PROVE  Inv'
  <2>. DEFINE e == Allowed(type, doc, "access_allowed")
  <2>1. e \in Event /\ e.doc = doc /\ e.reason = "access_allowed"
    BY <1>1 DEF Allowed, Event, Reasons
  <2>2. Refuse("ok", <<e>>) BY <1>3 DEF Succeed, Refuse
  <2>. HIDE DEF e
  <2>3. True(e) BY <1>1, <1>3, <2>1 DEF True, InScope
  <2>. QED BY <1>1, <1>3, <2>1, <2>2, <2>3, RecordOneInv DEF Statuses, SingleKinds
<1>4. CASE row = None /\ Refuse("document_not_found", <<>>)
  BY <1>1, <1>4, RefuseInv DEF Statuses
<1>5. CASE /\ row # None /\ req.kind \in {"metadata", "by_request"}
           /\ AuthorizeScope(document_scope_decision(row, scope),
                             Succeed(<<Allowed("metadata_read", doc, "access_allowed")>>))
  <2>. DEFINE decision == document_scope_decision(row, scope)
  <2>1. decision.state = "allowed" /\ Succeed(<<Allowed("metadata_read", doc, "access_allowed")>>) => Inv'
    BY <1>2, <1>3, <1>5 DEF EventTypes
  <2>2. AuthorizeScope(decision, Succeed(<<Allowed("metadata_read", doc, "access_allowed")>>)) BY <1>5
  <2>. HIDE DEF decision
  <2>3. decision = document_scope_decision(documents[doc], req.caller.scope) BY DEF decision
  <2>. QED BY <1>1, <1>5, <2>1, <2>2, <2>3, AuthorizeScopeInv
<1>6. CASE /\ row # None /\ req.kind = "download"
           /\ AuthorizeScope(document_scope_decision(row, scope), Goto("fetch"))
  <2>. DEFINE decision == document_scope_decision(row, scope)
  <2>1. decision.state = "allowed" /\ Goto("fetch") => Inv' BY <1>1, <1>2, <1>6, GotoInv
  <2>. QED BY <1>1, <1>6, <2>1, AuthorizeScopeInv
<1>7. CASE /\ row # None /\ req.kind = "access_events"
           /\ AuthorizeScope(document_tenant_scope_decision(row, scope),
                             Succeed(<<Allowed("access_events_read", doc, "access_allowed")>>))
  <2>. DEFINE decision == document_tenant_scope_decision(row, scope)
  <2>1. decision.state = "allowed" /\ Succeed(<<Allowed("access_events_read", doc, "access_allowed")>>) => Inv'
    BY <1>2, <1>3, <1>7 DEF EventTypes
  <2>. QED BY <1>1, <1>7, <2>1, AuthorizeScopeInv
<1>. QED BY <1>4, <1>5, <1>6, <1>7 DEF LookupDocument

\* The read of the bytes after the row was read.
LEMMA FetchInv ==
    ASSUME Inv, Fetch
    PROVE  Inv'
<1>1. /\ pc = "fetch" /\ req.kind = "download" /\ InScope(doc) /\ doc \notin settled
      /\ UNCHANGED <<documents, adapter, req, recorded, settled>>
      /\ req \in Requests /\ pc \in Deciding \ {"idle"} /\ doc \in DocIds /\ documents[doc] \in Row
  BY RequestFacts DEF Fetch, Inv, Deciding, doc, TypeOK, InScope
<1>2. ASSUME NEW status \in {"document_binary_missing", "document_checksum_mismatch", "ok"},
             NEW reason \in {"document_binary_missing", "document_checksum_mismatch", "download_succeeded"},
             Refuse(status, <<Allowed("binary_download", doc, reason)>>)
      PROVE  Inv'
  <2>. DEFINE e == Allowed("binary_download", doc, reason)
  <2>1. e \in Event /\ e.doc = doc /\ e.reason = reason
    BY <1>1 DEF Allowed, Event, EventTypes, Reasons
  <2>2. Refuse(status, <<e>>) BY <1>2
  <2>. HIDE DEF e
  <2>3. True(e) BY <1>1, <2>1 DEF True, InScope
  <2>. QED BY <1>1, <2>1, <2>2, <2>3, RecordOneInv DEF Statuses
<1>3. CASE Succeed(<<Allowed("binary_download", doc, "download_succeeded")>>)
  BY <1>2, <1>3 DEF Succeed, Refuse
<1>. QED BY <1>2, <1>3 DEF Fetch

\* One insert moves the head of the pending events to the recorded ones, so the log stays what it was.
LEMMA RecordInv ==
    ASSUME Inv, Record
    PROVE  Inv'
<1>1. /\ pc = "record" /\ UNCHANGED <<documents, adapter, req, settled>> /\ req \in Requests
      /\ recorded \in Seq(Event) /\ pending \in Seq(Event) /\ pending # <<>>
      /\ \A i \in DOMAIN log : True(log[i])
  BY DEF Record, Inv, TypeOK
<1>2. CASE /\ recorded' = Append(recorded, Head(pending)) /\ pending' = Tail(pending)
           /\ pc' = IF Tail(pending) = <<>> THEN "answer" ELSE "record"
           /\ UNCHANGED answer
  <2>1. /\ Head(pending) \in Event /\ Tail(pending) \in Seq(Event)
        /\ log' = log
    BY <1>1, <1>2, MoveHead DEF log
  <2>2. recorded' \in Seq(Event) BY <1>1, <1>2, <2>1
  <2>3. TypeOK' BY <1>1, <1>2, <2>1, <2>2 DEF Inv, TypeOK
  <2>4. \A i \in DOMAIN log' : True(log[i])' BY <1>1, <2>1 DEF True, InScope
  <2>5. Answered(log, answer)' BY <1>1, <1>2, <2>1 DEF Inv, Answered, Told, InScope, doc
  <2>. QED BY <1>1, <1>2, <2>3, <2>4, <2>5 DEF Inv, Deciding
<1>3. CASE Refuse("audit_failed", <<>>) /\ UNCHANGED recorded
  <2>1. /\ pc' = "answer" /\ pending' = <<>> /\ answer' = [NoAnswer EXCEPT !.status = "audit_failed"]
    BY <1>3 DEF Refuse, Conclude
  <2>2. answer'.status = "audit_failed" /\ answer'.items = <<>> /\ answer'.result = "none"
    BY <2>1 DEF NoAnswer
  <2>3. log' = recorded BY <1>1, <1>3, <2>1, ConcatEmptySeq DEF log
  <2>4. \A i \in DOMAIN recorded : i \in DOMAIN log /\ log[i] = recorded[i] BY <1>1 DEF log
  <2>5. \A i \in DOMAIN log' : True(log[i])' BY <1>1, <2>3, <2>4 DEF True, InScope
  <2>6. Answered(log, answer)' BY <2>2 DEF Answered
  <2>7. answer'.items \in Seq(Item) BY <2>2
  <2>8. TypeOK' BY <1>1, <1>3, <2>1, <2>2, <2>7 DEF Inv, TypeOK, Statuses, ResultStates
  <2>. QED BY <1>1, <2>1, <2>5, <2>6, <2>8 DEF Inv, Deciding
<1>. QED BY <1>2, <1>3 DEF Record

\* Nothing false is in a log without events.
LEMMA EmptyLog ==
    ASSUME recorded = <<>>, pending = <<>>
    PROVE  \A i \in DOMAIN log : True(log[i])
BY DEF log

\* The answer ends the request.
LEMMA AnswerInv ==
    ASSUME Inv, Answer
    PROVE  Inv'
<1>1. /\ pc' = "idle" /\ req' = None /\ pending' = <<>> /\ recorded' = <<>>
      /\ answer' = NoAnswer /\ settled' = {} /\ UNCHANGED <<documents, adapter>>
  BY DEF Answer
<1>2. <<>> \in Seq(Event) /\ <<>> \in Seq(Item) OBVIOUS
<1>3. TypeOK' BY <1>1, <1>2 DEF Inv, TypeOK, NoAnswer, Statuses, ResultStates
<1>4. log' = <<>> BY <1>1 DEF log
<1>5. \A i \in DOMAIN log' : True(log[i])' BY <1>4
<1>. QED BY <1>1, <1>3, <1>5 DEF Inv, Deciding

----------------------------------------------------------------------------
(* The theorems. *)

\* Every reachable state satisfies the inductive invariant, type correctness included.
THEOREM InvAlways == Spec => []Inv
<1>1. ASSUME Init PROVE Inv
  <2>1. \A s \in Scopes \cup {NoScope} : Fresh(s) \in Row BY DEF Fresh, Row
  <2>2. <<>> \in Seq(Event) /\ <<>> \in Seq(Item) OBVIOUS
  <2>3. TypeOK BY <1>1, <2>1, <2>2 DEF Init, TypeOK, NoAnswer, Statuses, ResultStates
  <2>4. \A i \in DOMAIN log : True(log[i]) BY <1>1, EmptyLog DEF Init
  <2>. QED BY <1>1, <2>3, <2>4 DEF Init, Inv, Deciding
<1>2. ASSUME Inv, [Next]_vars PROVE Inv'
  <2>1. CASE Meanwhile BY <1>2, <2>1, MeanwhileInv
  <2>2. ASSUME NEW r \in Requests, receive(r) PROVE Inv' BY <1>2, <2>2, ReceiveInv
  <2>3. CASE Find BY <1>2, <2>3, FindInv
  <2>4. CASE authorize BY <1>2, <2>4, AuthorizeInv
  <2>5. CASE LookupBatch BY <1>2, <2>5, LookupBatchInv
  <2>6. CASE LookupDocument BY <1>2, <2>6, LookupDocumentInv
  <2>7. CASE Fetch BY <1>2, <2>7, FetchInv
  <2>8. CASE Record BY <1>2, <2>8, RecordInv
  <2>9. CASE Answer BY <1>2, <2>9, AnswerInv
  <2>10. CASE UNCHANGED vars
    BY <1>2, <2>10 DEF Inv, TypeOK, vars, request, log, True, Answered, Told, InScope, doc
  <2>. QED BY <1>2, <2>1, <2>2, <2>3, <2>4, <2>5, <2>6, <2>7, <2>8, <2>9, <2>10 DEF Next
<1>. QED BY <1>1, <1>2, PTL DEF Spec

\* When the answer leaves, nothing is left to record.
LEMMA AnswerRecorded ==
    ASSUME Inv, pc = "answer"
    PROVE  log = recorded /\ Answered(recorded, answer)
<1>1. recorded \in Seq(Event) /\ pending = <<>> BY DEF Inv, TypeOK
<1>2. log = recorded BY <1>1, ConcatEmptySeq DEF log
<1>. QED BY <1>2 DEF Inv

\* The access events of an answer are stored before it leaves, one per id of a batch
\* in its order, one per read and per refusal (Record, each insert its own transaction).
THEOREM RecordedBeforeAnswerAlways == Spec => []RecordedBeforeAnswer
<1>1. ASSUME Inv PROVE RecordedBeforeAnswer
  BY <1>1, AnswerRecorded DEF RecordedBeforeAnswer, Preflighted, Answered, Told
<1>. QED BY <1>1, InvAlways, PTL

\* A batch preflight tells nothing of ids outside the caller's scope, whatever happens
\* to the documents while it runs (preflight_item).
THEOREM ExistenceHiddenAlways == Spec => []ExistenceHidden
<1>1. ASSUME Inv PROVE ExistenceHidden
  BY <1>1, AnswerRecorded DEF ExistenceHidden, Preflighted, Answered, Told, InScope
<1>. QED BY <1>1, InvAlways, PTL

\* What the trail says of a document is true of it and stays so.
THEOREM EventsAreTrueAlways == Spec => []EventsAreTrue
<1>1. ASSUME Inv PROVE EventsAreTrue
  <2>1. recorded \in Seq(Event) /\ pending \in Seq(Event) BY <1>1 DEF Inv, TypeOK
  <2>2. \A i \in DOMAIN recorded : i \in DOMAIN log /\ log[i] = recorded[i] BY <2>1 DEF log
  <2>3. \A i \in DOMAIN recorded : True(recorded[i]) BY <1>1, <2>2 DEF Inv
  <2>. QED BY <2>3 DEF EventsAreTrue, True
<1>. QED BY <1>1, InvAlways, PTL

\* A document recorded as purged when the request came is not served to it.
THEOREM PurgedStaysRefusedAlways == Spec => []PurgedStaysRefused
<1>1. ASSUME Inv PROVE PurgedStaysRefused
  <2>1. SUFFICES ASSUME pc = "answer", answer.status = "ok"
                 PROVE  IF req.kind = "preflight"
                        THEN \A i \in DOMAIN answer.items :
                               answer.items[i].doc \in settled => answer.items[i].state # "allowed"
                        ELSE req.kind # "access_events" => doc \notin settled
    BY DEF PurgedStaysRefused
  <2>2. Answered(recorded, answer) /\ req.kind \in Kinds
    BY <1>1, <2>1, AnswerRecorded, RequestFacts DEF Inv
  <2>. QED BY <2>1, <2>2 DEF Answered, Told, SingleKinds
<1>. QED BY <1>1, InvAlways, PTL
====
