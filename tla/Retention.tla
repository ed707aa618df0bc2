------------------------------ MODULE Retention ------------------------------
(***************************************************************************)
(* Retention, legal hold and destruction of one archived document, served  *)
(* by several workers that share one database and one object store.        *)
(*                                                                         *)
(* A request is a sequence of steps of one worker; a step is one           *)
(* repository transaction, one storage call, or the local computation      *)
(* between two of them.  Steps of different workers interleave freely, so  *)
(* whatever a worker read in an earlier step may be stale.  A worker can   *)
(* fail between any two steps: a crash, a lost connection, a storage       *)
(* error, an acknowledgement that never arrives.                           *)
(***************************************************************************)
EXTENDS RetentionRules

CONSTANTS
    Workers,       \* the workers and replicas of the deployment
    Matters,       \* (authority_reference, hold_reason) pairs
    MatterOf,      \* the matter a hold id is minted for, fixed by its insert
    NoHold,        \* "no hold id"
    MaxFailures    \* bound: how often a worker or a storage read fails

ASSUME MatterAssumption == MatterOf \in [HoldIds -> Matters]
ASSUME NoHoldAssumption == NoHold \notin HoldIds
ASSUME MaxFailuresAssumption == MaxFailures \in Nat

VARIABLES
    row,        \* the retention columns of the document
    holds,      \* the legal-hold rows of the document
    object,     \* the stored bytes
    today,      \* the server's date
    pc,         \* pc[w]: the step worker w takes next
    op,         \* op[w]: the operation it serves
    arg,        \* arg[w]: the hold id it would mint, or was asked to release
    snap,       \* snap[w]: the row it last read, while the code still uses it
    reason,     \* reason[w]: the outcome it has decided so far
    event,      \* event[w]: the access event it has recorded
    failures,   \* how many requests were cut short, and storage reads failed
    unread      \* the workers whose storage read failed, whatever the store holds

vars == <<row, holds, object, today, pc, op, arg, snap, reason, event, failures, unread>>

stored == <<row, holds, object>>
request == <<op, arg>>

Operations == {"purge", "evaluate", "posture", "retention", "set_hold", "release_hold", "download"}
Steps == {"idle", "refresh", "evaluate", "grant", "withdraw", "reread", "relist",
          "begin", "delete", "complete", "list", "admit", "release", "fetch",
          "record", "answer"}
Outcomes == ReasonCodes \cup
    {"none", "allowed", "purged", "legal_hold_already_active", "purge_already_started",
     "legal_hold_not_found", "document_purged", "document_binary_missing",
     "download_succeeded"}

Objects == {"intact", "absent"}

NoRow == [purge_status |-> "not_eligible", purge_eligible_at |-> Unset,
          purge_started_at |-> Unset, purged_at |-> Unset,
          legal_hold_status |-> "clear", legal_hold_count |-> 0,
          retain_until_date |-> Unset]

TypeOK ==
    /\ row \in Rows
    /\ holds \in HoldRows
    /\ object \in Objects
    /\ today \in Days
    /\ pc \in [Workers -> Steps]
    /\ op \in [Workers -> Operations \cup {"none"}]
    /\ arg \in [Workers -> HoldIds \cup {NoHold}]
    /\ snap \in [Workers -> Rows]
    /\ reason \in [Workers -> Outcomes]
    /\ event \in [Workers -> Outcomes]
    /\ failures \in 0..MaxFailures
    /\ unread \in SUBSET Workers

Quiet ==
    /\ today = 1
    /\ pc = [w \in Workers |-> "idle"]
    /\ op = [w \in Workers |-> "none"]
    /\ arg = [w \in Workers |-> NoHold]
    /\ snap = [w \in Workers |-> NoRow]
    /\ reason = [w \in Workers |-> "none"]
    /\ event = [w \in Workers |-> "none"]
    /\ failures = 0
    /\ unread = {}

\* The document as archive_document leaves it.
FreshInit ==
    /\ Quiet
    /\ object = "intact"
    /\ holds = [h \in HoldIds |-> "absent"]
    /\ row \in {[NoRow EXCEPT !.retain_until_date = d] : d \in Stamps}

\* Any document that was never destroyed, the ones of earlier releases too:
\* its hold summary may have drifted from its hold rows before recounts were
\* derived in the transaction that writes them (what migration 013 repairs),
\* and it may have been found eligible under that summary.  A recount that
\* said "clear" wrote a count of 0 with it.
Init ==
    /\ Quiet
    /\ object = "intact"
    /\ holds \in HoldRows
    /\ \E d \in Stamps, s \in LegalHoldStatus, n \in 0..Cardinality(HoldIds) :
          /\ s = "clear" => n = 0
          /\ LET archived == [NoRow EXCEPT !.retain_until_date = d,
                                           !.legal_hold_status = s,
                                           !.legal_hold_count = n]
             IN  \/ row = archived
                 \/ /\ d = 1
                    /\ row = [archived EXCEPT !.purge_status = "eligible", !.purge_eligible_at = 1]
    /\ row.legal_hold_status = "active" => holds # [h \in HoldIds |-> "absent"]

----------------------------------------------------------------------------
(* Requests: authorize, read the document, check its tenant scope. *)

Goto(w, step) == pc' = [pc EXCEPT ![w] = step]
Decide(w, outcome) == reason' = [reason EXCEPT ![w] = outcome]
Keep(w, r) == snap' = [snap EXCEPT ![w] = r]

Begin(w, operation, h, step) ==
    /\ pc[w] = "idle"
    /\ op' = [op EXCEPT ![w] = operation]
    /\ arg' = [arg EXCEPT ![w] = h]
    /\ Goto(w, step)
    /\ UNCHANGED <<stored, today, snap, reason, event, failures, unread>>

purge_document(w) == Begin(w, "purge", NoHold, "refresh")
evaluate_purge(w) == Begin(w, "evaluate", NoHold, "refresh")
get_lifecycle_posture(w) == Begin(w, "posture", NoHold, "refresh")
get_retention(w) == Begin(w, "retention", NoHold, "refresh")
release_legal_hold(w, h) == Begin(w, "release_hold", h, "release")

\* h is the uuid this request mints if it records a hold.
set_legal_hold(w, h) ==
    /\ holds[h] = "absent"
    /\ \A v \in Workers : op[v] = "set_hold" => arg[v] # h
    /\ Begin(w, "set_hold", h, "list")

\* Reads of a purged document are denied at the scope check.
get_document_binary(w) ==
    /\ pc[w] = "idle"
    /\ op' = [op EXCEPT ![w] = "download"]
    /\ IF row.purge_status = "purged"
       THEN Decide(w, "document_purged") /\ Goto(w, "record")
       ELSE Goto(w, "fetch") /\ UNCHANGED reason
    /\ UNCHANGED <<stored, today, arg, snap, event, failures, unread>>

----------------------------------------------------------------------------
(* Evaluation: ArchiveService._refresh_legal_hold_summary, then             *)
(* purge_transitions.evaluate_purge and its helpers.                        *)

\* The recount commits; the worker goes on with the row it returned.
Refresh(w) ==
    /\ pc[w] = "refresh"
    /\ row' = refresh_legal_hold_summary(row, holds)
    /\ \/ /\ op[w] = "retention"
          /\ Decide(w, "allowed") /\ Goto(w, "record")
          /\ UNCHANGED snap
       \/ /\ op[w] = "purge" /\ row'.purge_status = "purged"
          /\ Decide(w, "already_purged") /\ Goto(w, "record")
          /\ UNCHANGED snap
       \/ /\ op[w] \in {"evaluate", "posture"} \/ (op[w] = "purge" /\ row'.purge_status # "purged")
          /\ Keep(w, row') /\ Goto(w, "evaluate")
          /\ UNCHANGED reason
    /\ UNCHANGED <<holds, object, today, request, event, failures, unread>>

\* Mutant: the object is deleted before the intent is on record.
AfterEvaluation_DeleteFirst(operation, outcome) ==
    CASE operation = "purge" -> IF outcome \in EligibleReasons THEN "delete" ELSE "record"
      [] operation = "posture" -> "answer"
      [] OTHER -> "record"

\* What the caller of evaluate_purge does with its answer.
AfterEvaluation(operation, outcome) ==
    CASE operation = "purge" -> IF outcome \in EligibleReasons THEN "begin" ELSE "record"
      [] operation = "posture" -> "answer"
      [] OTHER -> "record"

Answered(w, outcome) == Decide(w, outcome) /\ Goto(w, AfterEvaluation(op[w], outcome))

\* Classify the snapshot: no transaction, and possibly a later day.
Evaluate(w) ==
    /\ pc[w] = "evaluate"
    /\ LET outcome == Classify(snap[w], today) IN
       \/ /\ \/ outcome \in {"already_purged", "purge_in_progress"}
             \/ outcome = "retention_elapsed" /\ snap[w].purge_status = "eligible"
          /\ Answered(w, outcome)
       \/ /\ outcome = "retention_elapsed" /\ snap[w].purge_status # "eligible"
          /\ Decide(w, outcome) /\ Goto(w, "grant")
       \/ /\ outcome \in {"legal_hold_active", "retain_until_date_missing", "retention_period_active"}
          /\ Decide(w, outcome) /\ Goto(w, "withdraw")
    /\ Keep(w, NoRow)
    /\ UNCHANGED <<stored, today, request, event, failures, unread>>

\* A refused transition is classified again from the stored row.
Grant(w) ==
    /\ pc[w] = "grant"
    /\ row' = mark_purge_eligible(row, holds, today)
    /\ IF CanGrant(row, holds) THEN Answered(w, reason[w]) ELSE Goto(w, "reread") /\ UNCHANGED reason
    /\ UNCHANGED <<holds, object, today, request, snap, event, failures, unread>>

Withdraw(w) ==
    /\ pc[w] = "withdraw"
    /\ row' = mark_purge_not_eligible(row)
    /\ IF CanWithdraw(row) THEN Answered(w, reason[w]) ELSE Goto(w, "reread") /\ UNCHANGED reason
    /\ UNCHANGED <<holds, object, today, request, snap, event, failures, unread>>

Reread(w) ==
    /\ pc[w] = "reread"
    /\ \/ /\ row.purge_status = "purged"
          /\ Answered(w, "already_purged")
       \/ /\ row.purge_status # "purged" /\ row.purge_started_at # Unset
          /\ Answered(w, "purge_in_progress")
       \/ /\ row.purge_status # "purged" /\ row.purge_started_at = Unset
          /\ row.legal_hold_status = "active"
          /\ Answered(w, "legal_hold_active")
       \/ /\ row.purge_status # "purged" /\ row.purge_started_at = Unset
          /\ row.legal_hold_status # "active"
          /\ Goto(w, "relist") /\ UNCHANGED reason
    /\ UNCHANGED <<stored, today, request, snap, event, failures, unread>>

\* The hold rows are listed in a transaction after the one that read the row.
Relist(w) ==
    /\ pc[w] = "relist"
    /\ Answered(w, IF ActiveHolds(holds) # {} THEN "legal_hold_active" ELSE "purge_state_changed")
    /\ UNCHANGED <<stored, today, request, snap, event, failures, unread>>

----------------------------------------------------------------------------
(* Destruction: claim the intent, delete the object, record the outcome. *)

BeginPurge(w) ==
    /\ pc[w] = "begin"
    /\ row' = begin_purge(row, holds, today)
    /\ \/ Claimed(row, holds) /\ Goto(w, "delete") /\ UNCHANGED reason
       \/ ~Claimed(row, holds) /\ Decide(w, "legal_hold_active") /\ Goto(w, "record")
    /\ UNCHANGED <<holds, object, today, request, snap, event, failures, unread>>

\* Mutant: the outcome is recorded although the bytes are still there.
DeleteObject_Skipped(w) ==
    /\ pc[w] = "delete"
    /\ Goto(w, "complete")
    /\ UNCHANGED <<row, holds, object, today, request, snap, reason, event, failures, unread>>

\* Deleting an object that is already absent succeeds.
DeleteObject(w) ==
    /\ pc[w] = "delete"
    /\ object' = "absent"
    /\ Goto(w, "complete")
    /\ UNCHANGED <<row, holds, today, request, snap, reason, event, failures, unread>>

CompletePurge(w) ==
    /\ pc[w] = "complete"
    /\ row' = complete_purge(row, today)
    /\ Decide(w, "purged") /\ Goto(w, "record")
    /\ UNCHANGED <<holds, object, today, request, snap, event, failures, unread>>

----------------------------------------------------------------------------
(* Legal holds. *)

\* An identical active hold answers the request; no second one is minted.
ListHolds(w) ==
    /\ pc[w] = "list"
    /\ IF \E h \in ActiveHolds(holds) : MatterOf[h] = MatterOf[arg[w]]
       THEN Decide(w, "legal_hold_already_active") /\ Goto(w, "record")
       ELSE Goto(w, "admit") /\ UNCHANGED reason
    /\ UNCHANGED <<stored, today, request, snap, event, failures, unread>>

Admit(w) ==
    /\ pc[w] = "admit"
    /\ row' = admit_and_record_legal_hold(row, holds, arg[w])
    /\ holds' = IF CanAdmit(row) THEN AdmitHold(holds, arg[w]) ELSE holds
    /\ Decide(w, IF CanAdmit(row) THEN "allowed" ELSE "purge_already_started")
    /\ Goto(w, "record")
    /\ UNCHANGED <<object, today, request, snap, event, failures, unread>>

\* An unknown hold is refused without an access event.
Release(w) ==
    /\ pc[w] = "release"
    /\ \/ /\ holds[arg[w]] = "absent"
          /\ Decide(w, "legal_hold_not_found") /\ Goto(w, "answer")
          /\ UNCHANGED <<row, holds>>
       \/ /\ holds[arg[w]] # "absent"
          /\ row' = release_and_record_legal_hold(row, holds, arg[w])
          /\ holds' = ReleaseHold(holds, arg[w])
          /\ Decide(w, "allowed") /\ Goto(w, "record")
    /\ UNCHANGED <<object, today, request, snap, event, failures, unread>>

----------------------------------------------------------------------------
(* Download, access event, answer. *)

\* Damaged bytes are the subject of module Access.
Fetch(w) ==
    /\ pc[w] = "fetch"
    /\ Decide(w, IF object = "absent" THEN "document_binary_missing" ELSE "download_succeeded")
    /\ Goto(w, "record")
    /\ UNCHANGED <<stored, today, request, snap, event, failures, unread>>

\* Whatever keeps the store from answering (a refusal, a timeout, a lost
\* connection) is one StorageReadFailedError, and is recorded as absent bytes.
FetchFails(w) ==
    /\ pc[w] = "fetch"
    /\ failures < MaxFailures
    /\ failures' = failures + 1
    /\ unread' = unread \cup {w}
    /\ Decide(w, "document_binary_missing") /\ Goto(w, "record")
    /\ UNCHANGED <<stored, today, request, snap, event>>

\* The access event is written in a transaction of its own, last.
RecordEvent(w) ==
    /\ pc[w] = "record"
    /\ event' = [event EXCEPT ![w] = reason[w]]
    /\ Goto(w, "answer")
    /\ UNCHANGED <<stored, today, request, snap, reason, failures, unread>>

Idle(w) ==
    /\ Goto(w, "idle")
    /\ op' = [op EXCEPT ![w] = "none"]
    /\ arg' = [arg EXCEPT ![w] = NoHold]
    /\ Keep(w, NoRow)
    /\ Decide(w, "none")
    /\ event' = [event EXCEPT ![w] = "none"]
    /\ unread' = unread \ {w}
    /\ UNCHANGED <<stored, today>>

Answer(w) ==
    /\ pc[w] = "answer"
    /\ Idle(w)
    /\ UNCHANGED failures

\* The request ends after any of its steps, with what it committed so far.
Fail(w) ==
    /\ pc[w] # "idle"
    /\ failures < MaxFailures
    /\ failures' = failures + 1
    /\ Idle(w)

Tick ==
    /\ today < MaxDay
    /\ today' = today + 1
    /\ UNCHANGED <<stored, pc, request, snap, reason, event, failures, unread>>

----------------------------------------------------------------------------

Request(w) ==
    \/ purge_document(w)
    \/ evaluate_purge(w)
    \/ get_lifecycle_posture(w)
    \/ get_retention(w)
    \/ get_document_binary(w)
    \/ \E h \in HoldIds : set_legal_hold(w, h) \/ release_legal_hold(w, h)

Step(w) ==
    \/ Refresh(w) \/ Evaluate(w) \/ Grant(w) \/ Withdraw(w) \/ Reread(w) \/ Relist(w)
    \/ BeginPurge(w) \/ DeleteObject(w) \/ CompletePurge(w)
    \/ ListHolds(w) \/ Admit(w) \/ Release(w)
    \/ Fetch(w) \/ RecordEvent(w) \/ Answer(w)

\* What may happen to a request, and need not.
Fault(w) == FetchFails(w) \/ Fail(w)

Next == Tick \/ \E w \in Workers : Request(w) \/ Step(w) \/ Fault(w)

Spec == Init /\ [][Next]_vars

FreshSpec == FreshInit /\ [][Next]_vars

\* A worker that is not cut short takes its next step: no step waits for
\* anything but the database and the store.  A caller whose purge was cut
\* short asks again while the document is not recorded as destroyed.
RetryPurge(w) == row.purge_started_at # Unset /\ row.purge_status # "purged" /\ purge_document(w)

Fairness == \A w \in Workers : WF_vars(Step(w)) /\ SF_vars(RetryPurge(w))

FairSpec == Spec /\ Fairness

----------------------------------------------------------------------------
(* Properties. *)

\* Hold and destruction exclude each other: once an intent to destroy is
\* recorded no hold row is active, whichever of begin_purge and
\* admit_and_record_legal_hold committed first.
HoldExcludesDestruction == row.purge_started_at # Unset => ActiveHolds(holds) = {}

\* The bytes are never gone without the intent on record (migration 012, the
\* order of begin_purge and storage.delete in purge_document).
BytesGoneOnlyUnderIntent == object = "absent" => row.purge_started_at # Unset

\* A document recorded as purged really is destroyed, under a claimed intent.
PurgedMeansDestroyed ==
    row.purge_status = "purged" =>
        /\ object = "absent"
        /\ row.purge_started_at # Unset
        /\ row.purged_at # Unset

\* Destruction starts only when the retention period the document was archived
\* with is over; one with no retain_until_date is never destroyed.
RetentionHonoured ==
    row.purge_started_at # Unset =>
        /\ row.retain_until_date # Unset
        /\ row.retain_until_date =< row.purge_started_at

RetentionOver ==
    /\ row.retain_until_date # Unset
    /\ row.retain_until_date =< today

\* What entitles a worker to its next step, however stale what it read is:
\* it deletes and completes only under a recorded intent, completes only over
\* absent bytes, claims an intent or grants eligibility only once retention is
\* over, and never carries a permission to destroy into a withdrawal.
StepsAreJustified ==
    \A w \in Workers :
        /\ pc[w] \in {"delete", "complete"} => row.purge_started_at # Unset
        /\ pc[w] = "complete" => object = "absent"
        /\ pc[w] = "begin" => row.purge_started_at # Unset \/ RetentionOver
        /\ pc[w] = "grant" => reason[w] = "retention_elapsed" /\ RetentionOver
        /\ pc[w] = "withdraw" => reason[w] \notin EligibleReasons
        /\ pc[w] = "evaluate" =>
              /\ snap[w].retain_until_date = row.retain_until_date
              /\ snap[w].purge_started_at # Unset => row.purge_started_at # Unset
              /\ snap[w].purge_status = "purged" =>
                    row.purge_status = "purged" /\ row.purge_started_at # Unset

\* What an access event says of the stored state is true when it is recorded,
\* and stays true: a destruction reported as finished is, one reported as begun
\* (to an evaluation, to a refused hold) is begun, whichever snapshot or reread
\* row the explanation came from; an admitted hold has its row; and bytes are
\* reported missing only when destruction began, or when the read of this very
\* request failed.
EventsTellTheTruth ==
    \A w \in Workers :
        /\ event[w] \in {"purged", "already_purged", "document_purged"} => row.purge_status = "purged"
        /\ event[w] \in {"purge_in_progress", "purge_already_started"} => row.purge_started_at # Unset
        /\ op[w] = "set_hold" /\ event[w] = "allowed" => holds[arg[w]] # "absent"
        /\ event[w] = "document_binary_missing" => row.purge_started_at # Unset \/ w \in unread

CustodyOf(r) ==
    IF r.purge_status = "purged" THEN "destroyed"
    ELSE IF r.purge_started_at # Unset THEN "condemned"
    ELSE "retained"

Promise == INSTANCE Custody WITH
    custody <- CustodyOf(row),
    bytes <- IF object = "absent" THEN "gone" ELSE "held",
    holding <- ActiveHolds(holds),
    lifted <- {h \in HoldIds : holds[h] = "clear"},
    permitted <- row.purge_status = "eligible",
    dates <- [permitted |-> row.purge_eligible_at,
              condemned |-> row.purge_started_at,
              destroyed |-> row.purged_at],
    retainUntil <- row.retain_until_date,
    day <- today

\* However the steps of the workers interleave and wherever they fail, what
\* they do to the document is what module Custody allows, one atomic step at a
\* time: no destruction is undone, no date is stamped twice, no hold revives,
\* and permission to destroy is granted only on a day the retention period is
\* over and no hold is active, however old the worker's snapshot is.
ImplementsCustody == Promise!Spec

\* A destruction once begun is finished, although requests are cut short
\* between the intent, the delete and the record of the outcome.
StartedPurgeCompletes == (row.purge_started_at # Unset) ~> (row.purge_status = "purged")

\* service.py:393-396: a retry of an identical hold request converges on the
\* hold it already created; no second active hold of the same matter is minted.
OneHoldPerMatter ==
    \A g, h \in ActiveHolds(holds) : MatterOf[g] = MatterOf[h] => g = h
=============================================================================
