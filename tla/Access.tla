-------------------------------- MODULE Access --------------------------------
(***************************************************************************)
(* Who may see which document: the caller allow-lists, the comparison of   *)
(* the caller's tenant and region with the document's, the batch access    *)
(* preflight, the metadata, download and access-event routes, and the      *)
(* access events each of them writes before it answers.                    *)
(*                                                                         *)
(* One request is served against documents that are archived, destroyed    *)
(* and damaged meanwhile.  Requests of this module write access events     *)
(* only and read none, so one at a time is enough.                         *)
(***************************************************************************)
EXTENDS Integers, Sequences

CONSTANTS
    DocIds,
    Scopes,        \* (tenant, case-folded region) pairs
    NoScope,       \* an incomplete pair: a header or a column is missing
    None,
    MaxBatch,      \* MAX_PREFLIGHT_DOCUMENT_IDS
    Adapters       \* repositories the service may be composed with

ASSUME ScopeAssumption == NoScope \notin Scopes
ASSUME BatchAssumption == MaxBatch \in Nat \ {0}
\* "postgresql", and one that raises ArchiveDocumentLookupUnavailableError.
ASSUME AdaptersAssumption == Adapters \subseteq {"postgresql", "mapping"}

Services == {"lotus-render", "lotus-report", "lotus-gateway"}
NoService == "missing"    \* x-caller-service, x-actor-type or x-actor-id is absent

Row == [scope : Scopes \cup {NoScope}, purge : {"retained", "started", "purged"},
        bytes : {"intact", "altered", "gone"}]

ASSUME NoneAssumption == None \notin DocIds \cup Row

Kinds == {"preflight", "metadata", "by_request", "download", "access_events"}
SingleKinds == Kinds \ {"preflight"}

\* The request model lets distinct ids through only.
Batches == UNION {{s \in [1..n -> DocIds] : \A i, j \in 1..n : s[i] = s[j] => i = j} : n \in 0..(MaxBatch + 1)}

Requests ==
    LET Callers == [service : Services \cup {NoService}, scope : Scopes \cup {NoScope}]
    IN  {[kind |-> "preflight", ids |-> b, caller |-> c] : b \in Batches, c \in Callers}
        \cup {[kind |-> k, ids |-> <<d>>, caller |-> c] : k \in SingleKinds, d \in DocIds, c \in Callers}

Reasons == {"access_allowed", "caller_scope_mismatch", "document_not_found", "document_purged",
            "document_scope_unavailable", "lookup_unavailable", "not_accessible",
            "caller_not_allowed", "caller_scope_missing",
            "document_binary_missing", "document_checksum_mismatch", "download_succeeded"}
EventTypes == {"authorization_denied", "batch_access_preflight", "metadata_read",
               "binary_download", "access_events_read"}
Event == [type : EventTypes, doc : DocIds \cup {None}, allowed : BOOLEAN, reason : Reasons]
Item == [doc : DocIds, state : {"allowed", "denied", "unavailable"}, reason : Reasons]

Statuses == {"none", "ok", "caller_context_missing", "invalid", "authorization_failed",
             "caller_scope_missing", "document_not_found", "document_purged",
             "document_binary_missing", "document_checksum_mismatch",
             "lookup_failed", "audit_failed"}
ResultStates == {"none", "complete", "partial", "unavailable"}

VARIABLES
    documents,  \* documents[d]: its row and object, or None
    adapter,    \* the repository the service is composed with
    pc,
    req,
    pending,    \* the events to write before the answer
    recorded,   \* the events of this request in archive_access_audit
    answer,
    settled     \* history: the documents recorded as purged when the request came

request == <<pc, req, pending, recorded, answer, settled>>
vars == <<documents, adapter, request>>

NoAnswer == [status |-> "none", items |-> <<>>, result |-> "none"]

TypeOK ==
    /\ documents \in [DocIds -> Row \cup {None}]
    /\ adapter \in Adapters
    /\ pc \in {"idle", "find", "authorize", "lookup", "fetch", "record", "answer"}
    /\ req \in Requests \cup {None}
    /\ pending \in Seq(Event)
    /\ recorded \in Seq(Event)
    /\ answer.status \in Statuses /\ answer.items \in Seq(Item) /\ answer.result \in ResultStates
    /\ settled \subseteq DocIds

Fresh(s) == [scope |-> s, purge |-> "retained", bytes |-> "intact"]

\* Documents archived before, by earlier releases without a complete scope too.
Init ==
    /\ documents \in [DocIds -> {Fresh(s) : s \in Scopes \cup {NoScope}} \cup {None}]
    /\ adapter \in Adapters
    /\ pc = "idle" /\ req = None /\ pending = <<>> /\ recorded = <<>>
    /\ answer = NoAnswer /\ settled = {}

----------------------------------------------------------------------------
(* Meanwhile: other requests, and the object store. *)

Archive(d, s) == documents[d] = None /\ documents' = [documents EXCEPT ![d] = Fresh(s)]

\* begin_purge, the deletion of the object, complete_purge.
Destroy(d) ==
    /\ documents[d] # None
    /\ LET row == documents[d]
       IN  \/ row.purge = "retained" /\ documents' = [documents EXCEPT ![d].purge = "started"]
           \/ row.purge = "started" /\ row.bytes # "gone"
              /\ documents' = [documents EXCEPT ![d].bytes = "gone"]
           \/ row.purge = "started" /\ row.bytes = "gone"
              /\ documents' = [documents EXCEPT ![d].purge = "purged"]

Damage(d) ==
    /\ documents[d] # None /\ documents[d].bytes = "intact"
    /\ documents' = [documents EXCEPT ![d].bytes = "altered"]

----------------------------------------------------------------------------
(* ArchiveAuthorizationPolicy *)

AllowedCallers(kind) ==
    CASE kind = "preflight" -> {"lotus-gateway"}
      [] kind \in {"metadata", "by_request", "download"} -> {"lotus-report", "lotus-gateway"}
      [] kind = "access_events" -> {"lotus-report"}

Decision(s, r) == [state |-> s, reason |-> r]

document_tenant_scope_decision(row, scope) ==
    CASE scope = NoScope -> Decision("denied", "caller_scope_mismatch")
      [] scope # NoScope /\ row.scope = NoScope -> Decision("unavailable", "document_scope_unavailable")
      [] scope # NoScope /\ row.scope \notin {NoScope, scope} -> Decision("denied", "caller_scope_mismatch")
      [] OTHER -> Decision("allowed", "access_allowed")

\* Mutant: the destruction of the document is not looked at.
document_scope_decision_Undestroyed(row, scope) == document_tenant_scope_decision(row, scope)

\* Mutant: the destruction of the document is looked at first.
document_scope_decision_PurgeFirst(row, scope) ==
    IF row.purge = "purged" THEN Decision("unavailable", "document_purged")
    ELSE document_tenant_scope_decision(row, scope)

document_scope_decision(row, scope) ==
    LET tenant == document_tenant_scope_decision(row, scope)
    IN  IF tenant.state = "allowed" /\ row.purge = "purged"
        THEN Decision("unavailable", "document_purged") ELSE tenant

----------------------------------------------------------------------------
(* access_preflight.py *)

\* Mutant: a document of another tenant is told apart from a missing one.
EXISTENCE_REVEALING_Short == {"document_not_found", "document_scope_unavailable"}

EXISTENCE_REVEALING == {"document_not_found", "caller_scope_mismatch", "document_scope_unavailable"}

\* The granular decision on one id, as the audit keeps it.
Granular(d, unavailable, scope) ==
    CASE d \in unavailable -> Decision("unavailable", "lookup_unavailable")
      [] d \notin unavailable /\ documents[d] = None -> Decision("denied", "document_not_found")
      [] OTHER -> document_scope_decision(documents[d], scope)

preflight_item(d, granular) ==
    IF granular.reason \in EXISTENCE_REVEALING
    THEN [doc |-> d, state |-> "denied", reason |-> "not_accessible"]
    ELSE [doc |-> d, state |-> granular.state, reason |-> granular.reason]

result_state_for_items(items) ==
    LET unavailable == {i \in DOMAIN items : items[i].state = "unavailable"}
    IN  CASE unavailable = DOMAIN items -> "unavailable"
          [] unavailable # DOMAIN items /\ unavailable # {} -> "partial"
          [] OTHER -> "complete"

----------------------------------------------------------------------------
(* The request. *)

Denied(d, reason) == [type |-> "authorization_denied", doc |-> d, allowed |-> FALSE, reason |-> reason]
Allowed(type, d, reason) == [type |-> type, doc |-> d, allowed |-> TRUE, reason |-> reason]

Goto(step) == pc' = step /\ UNCHANGED <<pending, answer>>

\* Answer once the events are written; none are for some refusals.
Conclude(events, a) ==
    /\ pending' = events
    /\ answer' = a
    /\ pc' = IF events = <<>> THEN "answer" ELSE "record"
Refuse(status, events) == Conclude(events, [NoAnswer EXCEPT !.status = status])
Succeed(events) == Conclude(events, [NoAnswer EXCEPT !.status = "ok"])

doc == req.ids[1]

receive(r) ==
    /\ pc = "idle"
    /\ req' = r
    /\ settled' = {d \in DocIds : documents[d] # None /\ documents[d].purge = "purged"}
    /\ \/ r.caller.service = NoService /\ Refuse("caller_context_missing", <<>>)
       \/ r.caller.service # NoService /\ r.kind = "by_request" /\ Goto("find")
       \/ r.caller.service # NoService /\ r.kind # "by_request" /\ Goto("authorize")
    /\ UNCHANGED <<documents, adapter, recorded>>

\* get_document_metadata_by_request_id: the document of an archive_request_id.
Find ==
    /\ pc = "find"
    /\ \/ documents[doc] = None /\ Refuse("document_not_found", <<>>)
       \/ documents[doc] # None /\ Goto("authorize")
    /\ UNCHANGED <<documents, adapter, req, recorded, settled>>

authorize ==
    /\ pc = "authorize"
    /\ LET batch == req.kind = "preflight"
           invalid == batch /\ Len(req.ids) \notin 1..MaxBatch
           known == req.caller.service \in AllowedCallers(req.kind)
           scoped == req.caller.scope # NoScope
       IN  \/ invalid /\ Refuse("invalid", <<>>)
           \/ ~invalid /\ ~known
              /\ Refuse("authorization_failed",
                        <<Denied(IF batch THEN None ELSE doc, "caller_not_allowed")>>)
           \/ ~invalid /\ known /\ batch /\ ~scoped /\ Refuse("caller_scope_missing", <<>>)
           \/ ~invalid /\ known /\ (batch => scoped) /\ Goto("lookup")
    /\ UNCHANGED <<documents, adapter, req, recorded, settled>>

\* One item and one event per id; unavailable: the ids the adapter gave up on.
PreflightAnswer(unavailable) ==
    LET granular(i) == Granular(req.ids[i], unavailable, req.caller.scope)
        items == [i \in DOMAIN req.ids |-> preflight_item(req.ids[i], granular(i))]
        events == [i \in DOMAIN req.ids |->
                     [type |-> "batch_access_preflight", doc |-> req.ids[i],
                      allowed |-> items[i].state = "allowed", reason |-> granular(i).reason]]
    IN  Conclude(events, [status |-> "ok", items |-> items, result |-> result_state_for_items(items)])

\* get_by_document_ids: one statement for the batch.  An adapter that maps its
\* timeouts may give up on some of the ids or on all of them; that of PostgreSQL
\* lets the driver's error pass.
LookupBatch ==
    /\ pc = "lookup" /\ req.kind = "preflight"
    /\ \/ PreflightAnswer({})
       \/ adapter = "mapping" /\ \E u \in SUBSET DocIds : PreflightAnswer(u)
       \/ adapter = "postgresql" /\ Refuse("lookup_failed", <<>>)
    /\ UNCHANGED <<documents, adapter, req, recorded, settled>>

\* authorize_document_scope, authorize_document_tenant_scope: a refusal is
\* recorded against the document; Granted is what follows when there is none.
AuthorizeScope(decision, Granted) ==
    \/ /\ req.caller.scope = NoScope
       /\ Refuse("caller_scope_missing", <<Denied(doc, "caller_scope_missing")>>)
    \/ /\ req.caller.scope # NoScope /\ decision.state # "allowed"
       /\ Refuse(IF decision.reason = "document_purged" THEN "document_purged"
                 ELSE "authorization_failed", <<Denied(doc, decision.reason)>>)
    \/ /\ req.caller.scope # NoScope /\ decision.state = "allowed"
       /\ Granted

\* _get_authorized_document_metadata; for access events, which a destroyed
\* document keeps, _get_tenant_authorized_document_metadata.
LookupDocument ==
    /\ pc = "lookup" /\ req.kind # "preflight"
    /\ LET row == documents[doc]
           scope == req.caller.scope
       IN  \/ row = None /\ Refuse("document_not_found", <<>>)
           \/ row # None /\ req.kind \in {"metadata", "by_request"}
              /\ AuthorizeScope(document_scope_decision(row, scope),
                                Succeed(<<Allowed("metadata_read", doc, "access_allowed")>>))
           \/ row # None /\ req.kind = "download"
              /\ AuthorizeScope(document_scope_decision(row, scope), Goto("fetch"))
           \/ row # None /\ req.kind = "access_events"
              /\ AuthorizeScope(document_tenant_scope_decision(row, scope),
                                Succeed(<<Allowed("access_events_read", doc, "access_allowed")>>))
    /\ UNCHANGED <<documents, adapter, req, recorded, settled>>

\* get_document_binary: read the object and compare its checksum.  A read that
\* fails on bytes that are there is answered like one that finds none.
Fetch ==
    /\ pc = "fetch"
    /\ LET log(reason) == <<Allowed("binary_download", doc, reason)>>
       IN  \/ Refuse("document_binary_missing", log("document_binary_missing"))
           \/ /\ documents[doc].bytes = "altered"
              /\ Refuse("document_checksum_mismatch", log("document_checksum_mismatch"))
           \/ /\ documents[doc].bytes = "intact"
              /\ Succeed(log("download_succeeded"))
    /\ UNCHANGED <<documents, adapter, req, recorded, settled>>

\* Mutant: an event that cannot be written is skipped.
Record_Lenient ==
    /\ pc = "record"
    /\ \/ recorded' = Append(recorded, Head(pending))
       \/ UNCHANGED recorded
    /\ pending' = Tail(pending)
    /\ pc' = IF Tail(pending) = <<>> THEN "answer" ELSE "record"
    /\ UNCHANGED <<documents, adapter, req, answer, settled>>

\* One insert per event, each its own transaction; a failed one ends the request.
Record ==
    /\ pc = "record"
    /\ \/ /\ recorded' = Append(recorded, Head(pending))
          /\ pending' = Tail(pending)
          /\ pc' = IF Tail(pending) = <<>> THEN "answer" ELSE "record"
          /\ UNCHANGED answer
       \/ /\ Refuse("audit_failed", <<>>)
          /\ UNCHANGED recorded
    /\ UNCHANGED <<documents, adapter, req, settled>>

Answer ==
    /\ pc = "answer"
    /\ pc' = "idle" /\ req' = None /\ pending' = <<>> /\ recorded' = <<>>
    /\ answer' = NoAnswer /\ settled' = {}
    /\ UNCHANGED <<documents, adapter>>

Meanwhile ==
    /\ \E d \in DocIds : (\E s \in Scopes : Archive(d, s)) \/ Destroy(d) \/ Damage(d)
    /\ UNCHANGED <<adapter, request>>

Next ==
    \/ Meanwhile
    \/ \E r \in Requests : receive(r)
    \/ Find \/ authorize \/ LookupBatch \/ LookupDocument \/ Fetch \/ Record \/ Answer

Spec == Init /\ [][Next]_vars

----------------------------------------------------------------------------
(* Properties. *)

Preflighted == pc = "answer" /\ req.kind = "preflight" /\ answer.status = "ok"
InScope(d) == documents[d] # None /\ req.caller.scope # NoScope /\ documents[d].scope = req.caller.scope

\* No answer about a document leaves before its access events are stored: a
\* batch has one event per id in the order of the request, which says allowed
\* of the ids the response allows and gives the granular reason where the
\* response hides it; a read, and a refusal by scope or allow-list, has one.
RecordedBeforeAnswer ==
    /\ Preflighted =>
          /\ Len(recorded) = Len(req.ids)
          /\ \A i \in DOMAIN req.ids :
                /\ recorded[i].doc = req.ids[i]
                /\ recorded[i].allowed = (answer.items[i].state = "allowed")
                /\ recorded[i].reason # "not_accessible"
    /\ pc = "answer" /\ req.kind # "preflight" /\ answer.status \in {"ok", "document_purged"} =>
          Len(recorded) = 1 /\ recorded[1].doc = doc
    /\ pc = "answer" /\ answer.status = "authorization_failed" =>
          Len(recorded) = 1 /\ recorded[1].type = "authorization_denied"

\* access_preflight.py:33-36: a batch tells nothing about ids outside the
\* caller's scope.  Any item that is neither not_accessible nor unavailable is
\* about a document of that scope, although it may be archived, destroyed or
\* damaged while the request runs.
ExistenceHidden ==
    Preflighted => \A i \in DOMAIN answer.items :
        \/ answer.items[i].reason \in {"not_accessible", "lookup_unavailable"}
        \/ InScope(answer.items[i].doc)

\* What the trail says of a document is true of it, for the investigator who
\* reads the event later: no reason is recorded that another one should hide.
EventsAreTrue ==
    \A i \in DOMAIN recorded :
        LET d == recorded[i].doc
            reason == recorded[i].reason
        IN  /\ reason \in {"access_allowed", "download_succeeded", "document_purged"} => InScope(d)
            /\ reason = "document_purged" => documents[d].purge = "purged"
            /\ reason = "caller_scope_mismatch" => documents[d] # None /\ ~InScope(d)
            /\ reason = "document_scope_unavailable" => documents[d].scope = NoScope

\* A document recorded as purged when a request comes is not served to it: no
\* metadata, no bytes, no "allowed" of a preflight.  Only its access events are.
PurgedStaysRefused ==
    pc = "answer" /\ answer.status = "ok" =>
        IF req.kind = "preflight"
        THEN \A i \in DOMAIN answer.items :
                answer.items[i].doc \in settled => answer.items[i].state # "allowed"
        ELSE req.kind # "access_events" => doc \notin settled
=============================================================================
