-------------------------- MODULE Retention_proofs --------------------------
(***************************************************************************)
(* Proofs about Retention for any number of workers, holds, days and       *)
(* failures.                                                               *)
(***************************************************************************)
EXTENDS Retention, FiniteSetTheorems, TLAPS

----------------------------------------------------------------------------
(* The repository transitions. *)

\* The active holds of a document are finitely many, so counting them is
\* meaningful (the recount of the hold summary).
LEMMA ActiveHoldsCount ==
    ASSUME NEW hs
    PROVE  Cardinality(ActiveHolds(hs)) \in Nat
<1>1. ActiveHolds(hs) \subseteq HoldIds BY DEF ActiveHolds
<1>2. IsFiniteSet(ActiveHolds(hs)) BY <1>1, HoldIdsAssumption, FS_Subset
<1>. QED BY <1>2, FS_CardinalityType

\* A recount stores a well-formed row and touches only the summary columns.
LEMMA DerivedRow ==
    ASSUME NEW r \in Rows, NEW hs
    PROVE  /\ Derived(r, hs) \in Rows
           /\ Derived(r, hs).purge_started_at = r.purge_started_at
           /\ Derived(r, hs).purge_status = r.purge_status
           /\ Derived(r, hs).purged_at = r.purged_at
           /\ Derived(r, hs).purge_eligible_at = r.purge_eligible_at
           /\ Derived(r, hs).retain_until_date = r.retain_until_date
BY ActiveHoldsCount DEF Derived, Rows, LegalHoldStatus

\* begin_purge writes the intent and nothing else, and only where no hold row
\* is active.
LEMMA BeginRow ==
    ASSUME NEW r \in Rows, NEW hs, NEW t \in Days
    PROVE  /\ begin_purge(r, hs, t) \in Rows
           /\ r.purge_started_at # Unset => begin_purge(r, hs, t) = r
           /\ begin_purge(r, hs, t).purge_started_at # Unset <=> Claimed(r, hs)
           /\ begin_purge(r, hs, t).purge_started_at # r.purge_started_at =>
                 /\ ActiveHolds(hs) = {}
                 /\ begin_purge(r, hs, t).purge_started_at = t
           /\ begin_purge(r, hs, t).purge_status = r.purge_status
           /\ begin_purge(r, hs, t).purged_at = r.purged_at
           /\ begin_purge(r, hs, t).purge_eligible_at = r.purge_eligible_at
           /\ begin_purge(r, hs, t).retain_until_date = r.retain_until_date
BY MaxDayAssumption DEF begin_purge, CanBegin, Claimed, Rows, Days, Stamps, Unset

\* complete_purge leaves the intent and the retention date alone.
LEMMA CompleteRow ==
    ASSUME NEW r \in Rows, NEW t \in Days
    PROVE  /\ complete_purge(r, t) \in Rows
           /\ complete_purge(r, t).purge_started_at = r.purge_started_at
           /\ complete_purge(r, t).retain_until_date = r.retain_until_date
           /\ r.purged_at # Unset => complete_purge(r, t).purged_at = r.purged_at
           /\ r.purge_started_at # Unset =>
                 /\ complete_purge(r, t).purge_status = "purged"
                 /\ complete_purge(r, t).purged_at # Unset
           /\ r.purge_started_at = Unset => complete_purge(r, t) = r
           /\ complete_purge(r, t).purge_eligible_at = r.purge_eligible_at
<1>1. CASE r.purge_started_at = Unset BY <1>1 DEF complete_purge, CanComplete
<1>2. CASE r.purge_started_at # Unset
  <2>. DEFINE at == IF r.purged_at = Unset THEN t ELSE r.purged_at
  <2>1. at \in Stamps /\ at # Unset BY MaxDayAssumption DEF Rows, Days, Stamps, Unset
  <2>2. r.purged_at # Unset => at = r.purged_at OBVIOUS
  <2>3. complete_purge(r, t) = [r EXCEPT !.purge_status = "purged", !.purged_at = at]
    BY <1>2 DEF complete_purge, CanComplete
  <2>. HIDE DEF at
  <2>. QED BY <1>2, <2>1, <2>2, <2>3 DEF Rows, PurgeStatus
<1>. QED BY <1>1, <1>2

\* Granting eligibility leaves intent, destruction and retention date alone,
\* and keeps the first eligibility date.
LEMMA GrantRow ==
    ASSUME NEW r \in Rows, NEW hs, NEW t \in Days
    PROVE  LET e == mark_purge_eligible(r, hs, t) IN
           /\ e \in Rows
           /\ e.purge_started_at = r.purge_started_at
           /\ e.retain_until_date = r.retain_until_date
           /\ e.purged_at = r.purged_at
           /\ (e.purge_status = "purged") <=> (r.purge_status = "purged")
           /\ r.purge_eligible_at # Unset => e.purge_eligible_at = r.purge_eligible_at
<1>1. CASE ~CanGrant(r, hs) BY <1>1 DEF mark_purge_eligible
<1>2. CASE CanGrant(r, hs)
  <2>. DEFINE at == IF r.purge_eligible_at = Unset THEN t ELSE r.purge_eligible_at
  <2>1. at \in Stamps BY MaxDayAssumption DEF Rows, Days, Stamps
  <2>2. r.purge_eligible_at # Unset => at = r.purge_eligible_at OBVIOUS
  <2>3. mark_purge_eligible(r, hs, t)
           = [r EXCEPT !.purge_status = "eligible", !.purge_eligible_at = at]
    BY <1>2 DEF mark_purge_eligible
  <2>4. r.purge_status # "purged" BY <1>2 DEF CanGrant
  <2>. HIDE DEF at
  <2>. QED BY <2>1, <2>2, <2>3, <2>4 DEF Rows, PurgeStatus
<1>. QED BY <1>1, <1>2

\* Withdrawing it changes the status of a document that is not purged.
LEMMA WithdrawRow ==
    ASSUME NEW r \in Rows
    PROVE  LET e == mark_purge_not_eligible(r) IN
           /\ e \in Rows
           /\ e.purge_started_at = r.purge_started_at
           /\ e.retain_until_date = r.retain_until_date
           /\ e.purged_at = r.purged_at
           /\ (e.purge_status = "purged") <=> (r.purge_status = "purged")
           /\ e.purge_eligible_at = r.purge_eligible_at
BY DEF mark_purge_not_eligible, CanWithdraw, Rows, PurgeStatus

\* Admission is refused once the intent is on record, and writes only the
\* summary otherwise.
LEMMA AdmitRow ==
    ASSUME NEW r \in Rows, NEW hs, NEW h
    PROVE  LET a == admit_and_record_legal_hold(r, hs, h) IN
           /\ a \in Rows
           /\ a.purge_started_at = r.purge_started_at
           /\ a.purge_status = r.purge_status
           /\ a.purged_at = r.purged_at
           /\ a.purge_eligible_at = r.purge_eligible_at
           /\ a.retain_until_date = r.retain_until_date
<1>1. Cardinality(ActiveHolds(AdmitHold(hs, h))) \in Nat BY ActiveHoldsCount
<1>. QED BY <1>1 DEF admit_and_record_legal_hold, Rows, LegalHoldStatus

\* Releasing keeps the hold rows well formed and activates none.
LEMMA ReleaseRows ==
    ASSUME NEW hs \in HoldRows, NEW h
    PROVE  /\ ReleaseHold(hs, h) \in HoldRows
           /\ ActiveHolds(ReleaseHold(hs, h)) \subseteq ActiveHolds(hs)
           /\ \A g \in HoldIds : hs[g] = "clear" => ReleaseHold(hs, h)[g] = "clear"
BY DEF ReleaseHold, HoldRows, ActiveHolds

\* Admitting keeps the hold rows well formed.
LEMMA AdmitRows ==
    ASSUME NEW hs \in HoldRows, NEW h
    PROVE  AdmitHold(hs, h) \in HoldRows
BY DEF AdmitHold, HoldRows

\* An answer that permits destruction is never given for a row that is neither
\* under an intent, nor purged, nor past its retention date.
LEMMA ClassifyOutcome ==
    ASSUME NEW r \in Rows, NEW d \in Days
    PROVE  /\ Classify(r, d) \in ReasonCodes
           /\ Classify(r, d) = "already_purged" => r.purge_status = "purged"
           /\ Classify(r, d) = "purge_in_progress" => r.purge_started_at # Unset
           /\ Classify(r, d) = "retention_elapsed" =>
                 r.retain_until_date # Unset /\ r.retain_until_date =< d
BY MaxDayAssumption DEF Classify, ReasonCodes, Rows, Days, Stamps, Unset

----------------------------------------------------------------------------
(* Type correctness. *)

\* evaluate_purge's caller goes on to a step of its operation.
LEMMA AfterEvaluationStep ==
    ASSUME NEW o, NEW c
    PROVE  /\ AfterEvaluation(o, c) \in {"begin", "record", "answer"}
           /\ AfterEvaluation(o, c) = "begin" => o = "purge" /\ c \in EligibleReasons
           /\ o = "purge" /\ AfterEvaluation(o, c) # "begin" => c \notin EligibleReasons
BY DEF AfterEvaluation

\* The empty row stands for "no snapshot".
LEMMA NoRowType == NoRow \in Rows
BY MaxDayAssumption DEF NoRow, Rows, PurgeStatus, LegalHoldStatus, Stamps, Unset

\* Every state the workers reach is well typed: rows, hold rows and clocks stay
\* in range whatever the interleaving of requests, failures and days.
LEMMA TypeInit == Init => TypeOK
<1>. SUFFICES ASSUME Init PROVE TypeOK OBVIOUS
<1>. USE DEF Init, Quiet
<1>1. PICK d \in Stamps, s \in LegalHoldStatus, n \in 0..Cardinality(HoldIds) :
        LET archived == [NoRow EXCEPT !.retain_until_date = d,
                                      !.legal_hold_status = s,
                                      !.legal_hold_count = n]
        IN  \/ row = archived
            \/ row = [archived EXCEPT !.purge_status = "eligible", !.purge_eligible_at = 1]
  OBVIOUS
<1>2. n \in Nat BY HoldIdsAssumption, FS_CardinalityType
<1>3. 1 \in Stamps BY MaxDayAssumption DEF Stamps
<1>4. row \in Rows BY <1>1, <1>2, <1>3, NoRowType DEF Rows, PurgeStatus
<1>. QED BY <1>4, NoRowType, MaxDayAssumption, MaxFailuresAssumption
        DEF TypeOK, Objects, Days, Steps, Outcomes, ReasonCodes

\* A request is admitted in a well-typed state.
LEMMA TypeRequest ==
    ASSUME TypeOK, NEW w \in Workers, Request(w)
    PROVE  TypeOK'
<1>. USE DEF TypeOK, stored, request, Goto
<1>1. CASE \E o \in Operations, h \in HoldIds \cup {NoHold}, s \in Steps : Begin(w, o, h, s)
  BY <1>1 DEF Begin
<1>2. CASE get_document_binary(w)
  BY <1>2 DEF get_document_binary, Decide, Operations, Steps, Outcomes
<1>. QED BY <1>1, <1>2
        DEF Request, purge_document, evaluate_purge, get_lifecycle_posture, get_retention,
            set_legal_hold, release_legal_hold, Operations, Steps

\* A step of a worker leaves the state well typed.
LEMMA TypeStep ==
    ASSUME TypeOK, NEW w \in Workers, Step(w)
    PROVE  TypeOK'
<1>. USE DEF TypeOK, stored, request, Goto, Decide, Keep
<1>1. CASE Refresh(w)
  <2>1. row' \in Rows BY <1>1, DerivedRow DEF Refresh, refresh_legal_hold_summary
  <2>. QED BY <1>1, <2>1 DEF Refresh, Steps, Outcomes, ReasonCodes
<1>2. CASE Evaluate(w)
  BY <1>2, NoRowType, AfterEvaluationStep, ClassifyOutcome DEF Evaluate, Answered, Steps, Outcomes
<1>3. CASE Grant(w)
  <2>1. row' \in Rows BY <1>3, GrantRow DEF Grant
  <2>. QED BY <1>3, <2>1, AfterEvaluationStep DEF Grant, Answered, Steps
<1>4. CASE Withdraw(w)
  <2>1. row' \in Rows BY <1>4, WithdrawRow DEF Withdraw
  <2>. QED BY <1>4, <2>1, AfterEvaluationStep DEF Withdraw, Answered, Steps
<1>5. CASE Reread(w)
  BY <1>5, AfterEvaluationStep DEF Reread, Answered, Steps, Outcomes, ReasonCodes
<1>6. CASE Relist(w)
  BY <1>6, AfterEvaluationStep DEF Relist, Answered, Steps, Outcomes, ReasonCodes
<1>7. CASE BeginPurge(w)
  <2>1. row' \in Rows BY <1>7, BeginRow DEF BeginPurge
  <2>. QED BY <1>7, <2>1 DEF BeginPurge, Steps, Outcomes, ReasonCodes
<1>8. CASE DeleteObject(w) BY <1>8 DEF DeleteObject, Objects, Steps
<1>9. CASE CompletePurge(w)
  <2>1. row' \in Rows BY <1>9, CompleteRow DEF CompletePurge
  <2>. QED BY <1>9, <2>1 DEF CompletePurge, Steps, Outcomes
<1>10. CASE ListHolds(w) BY <1>10 DEF ListHolds, Steps, Outcomes
<1>11. CASE Admit(w)
  <2>1. row' \in Rows BY <1>11, AdmitRow DEF Admit
  <2>2. holds' \in HoldRows BY <1>11, AdmitRows DEF Admit
  <2>. QED BY <1>11, <2>1, <2>2 DEF Admit, Steps, Outcomes
<1>12. CASE Release(w)
  <2>1. row' \in Rows BY <1>12, DerivedRow DEF Release, release_and_record_legal_hold
  <2>2. holds' \in HoldRows BY <1>12, ReleaseRows DEF Release
  <2>. QED BY <1>12, <2>1, <2>2 DEF Release, Steps, Outcomes
<1>13. CASE Fetch(w) BY <1>13 DEF Fetch, Objects, Steps, Outcomes
<1>14. CASE RecordEvent(w) BY <1>14 DEF RecordEvent, Steps
<1>15. CASE Answer(w) BY <1>15, NoRowType DEF Answer, Idle, Steps, Outcomes
<1>. QED BY <1>1, <1>2, <1>3, <1>4, <1>5, <1>6, <1>7, <1>8, <1>9, <1>10, <1>11, <1>12,
            <1>13, <1>14, <1>15 DEF Step

\* So does every step of the system.
LEMMA TypeNext == TypeOK /\ [Next]_vars => TypeOK'
<1>. SUFFICES ASSUME TypeOK, [Next]_vars PROVE TypeOK' OBVIOUS
<1>1. CASE Tick BY <1>1, MaxDayAssumption DEF Tick, TypeOK, stored, request, Days
<1>2. ASSUME NEW w \in Workers, Request(w) PROVE TypeOK' BY <1>2, TypeRequest
<1>3. ASSUME NEW w \in Workers, Step(w) PROVE TypeOK' BY <1>3, TypeStep
<1>4. ASSUME NEW w \in Workers, Fault(w) PROVE TypeOK'
  BY <1>4, NoRowType, MaxFailuresAssumption
     DEF Fault, FetchFails, Fail, Idle, Goto, Decide, Keep, TypeOK, stored, request, Steps, Outcomes
<1>5. CASE UNCHANGED vars BY <1>5 DEF vars, TypeOK
<1>. QED BY <1>1, <1>2, <1>3, <1>4, <1>5 DEF Next

\* Type correctness of the whole specification.
THEOREM TypeCorrect == Spec => []TypeOK
BY TypeInit, TypeNext, PTL DEF Spec

----------------------------------------------------------------------------
(* Safety of destruction. *)

\* Facts no step undoes: the intent, the retention date, the loss of the bytes,
\* a recorded destruction, the passing of days.
Lasting ==
    /\ row.purge_started_at # Unset => row'.purge_started_at = row.purge_started_at
    /\ row'.retain_until_date = row.retain_until_date
    /\ object = "absent" => object' = "absent"
    /\ row.purge_status = "purged" /\ row.purge_started_at # Unset => row'.purge_status = "purged"
    /\ row.purged_at # Unset => row'.purged_at = row.purged_at
    /\ row.purge_eligible_at # Unset => row'.purge_eligible_at = row.purge_eligible_at
    /\ today =< today'

\* The step of one worker changes only its own request.
Others(w) ==
    \A v \in Workers \ {w} :
        /\ pc'[v] = pc[v]
        /\ snap'[v] = snap[v]
        /\ reason'[v] = reason[v]
        /\ event'[v] = event[v]
        /\ op'[v] = op[v]
        /\ arg'[v] = arg[v]
        /\ v \in unread' <=> v \in unread

\* No step undoes a lasting fact.
LEMMA LastingNext == TypeOK /\ [Next]_vars => Lasting
<1>. SUFFICES ASSUME TypeOK, [Next]_vars PROVE Lasting OBVIOUS
<1>. USE DEF Lasting, stored
<1>t. /\ row \in Rows /\ today \in Days /\ today \in Int /\ today =< today
      /\ UNCHANGED today => today =< today'
  BY DEF TypeOK, Days
<1>1. CASE Tick BY <1>1, <1>t DEF Tick
<1>2. ASSUME NEW w \in Workers, Request(w) PROVE Lasting
  <2>1. UNCHANGED <<row, object, today>>
    BY <1>2 DEF Request, purge_document, evaluate_purge, get_lifecycle_posture, get_retention,
                set_legal_hold, release_legal_hold, Begin, get_document_binary
  <2>. QED BY <2>1, <1>t
<1>3. ASSUME NEW w \in Workers, Step(w) PROVE Lasting
  <2>1. CASE Refresh(w)
    BY <2>1, <1>t, DerivedRow DEF Refresh, refresh_legal_hold_summary
  <2>2. CASE Grant(w) BY <2>2, <1>t, GrantRow DEF Grant
  <2>3. CASE Withdraw(w) BY <2>3, <1>t, WithdrawRow DEF Withdraw
  <2>4. CASE BeginPurge(w) BY <2>4, <1>t, BeginRow DEF BeginPurge
  <2>5. CASE DeleteObject(w) BY <2>5, <1>t DEF DeleteObject
  <2>6. CASE CompletePurge(w) BY <2>6, <1>t, CompleteRow DEF CompletePurge
  <2>7. CASE Admit(w) BY <2>7, <1>t, AdmitRow DEF Admit
  <2>8. CASE Release(w)
    BY <2>8, <1>t, DerivedRow DEF Release, release_and_record_legal_hold
  <2>9. CASE \/ Evaluate(w) \/ Reread(w) \/ Relist(w) \/ ListHolds(w) \/ Fetch(w)
             \/ RecordEvent(w) \/ Answer(w)
    <3>1. UNCHANGED <<row, object, today>>
      BY <2>9 DEF Evaluate, Reread, Relist, ListHolds, Fetch, RecordEvent, Answer, Idle
    <3>. QED BY <3>1, <1>t
  <2>. QED BY <1>3, <2>1, <2>2, <2>3, <2>4, <2>5, <2>6, <2>7, <2>8, <2>9 DEF Step
<1>4. ASSUME NEW w \in Workers, Fault(w) PROVE Lasting BY <1>4, <1>t DEF Fault, FetchFails, Fail, Idle
<1>5. CASE UNCHANGED vars BY <1>5, <1>t DEF vars
<1>. QED BY <1>1, <1>2, <1>3, <1>4, <1>5 DEF Next

\* Requests are isolated: a worker writes no other worker's variables.
LEMMA Isolation ==
    ASSUME TypeOK, NEW w \in Workers, Request(w) \/ Step(w) \/ Fault(w)
    PROVE  Others(w)
<1>. USE DEF TypeOK, Others, request, Goto, Decide, Keep
<1>1. CASE Request(w)
  BY <1>1 DEF Request, purge_document, evaluate_purge, get_lifecycle_posture, get_retention,
              set_legal_hold, release_legal_hold, Begin, get_document_binary
<1>2. CASE Refresh(w) BY <1>2 DEF Refresh
<1>3. CASE Evaluate(w) BY <1>3 DEF Evaluate, Answered
<1>4. CASE Grant(w) \/ Withdraw(w) BY <1>4 DEF Grant, Withdraw, Answered
<1>5. CASE Reread(w) \/ Relist(w) BY <1>5 DEF Reread, Relist, Answered
<1>6. CASE BeginPurge(w) \/ DeleteObject(w) \/ CompletePurge(w)
  BY <1>6 DEF BeginPurge, DeleteObject, CompletePurge
<1>7. CASE ListHolds(w) \/ Admit(w) \/ Release(w) BY <1>7 DEF ListHolds, Admit, Release
<1>8. CASE Fetch(w) \/ RecordEvent(w) BY <1>8 DEF Fetch, RecordEvent
<1>9. CASE Answer(w) \/ Fault(w) BY <1>9 DEF Answer, Fault, FetchFails, Fail, Idle
<1>. QED BY <1>1, <1>2, <1>3, <1>4, <1>5, <1>6, <1>7, <1>8, <1>9 DEF Step

\* The inductive invariant.  The four safety properties are not inductive by
\* themselves: StepsAreJustified carries what each worker in flight relies on.
Safe ==
    /\ TypeOK
    /\ HoldExcludesDestruction
    /\ BytesGoneOnlyUnderIntent
    /\ PurgedMeansDestroyed
    /\ RetentionHonoured
    /\ StepsAreJustified

\* It holds of every document that was never destroyed, drifted or not.
LEMMA SafeInit == Init => Safe
<1>. SUFFICES ASSUME Init PROVE Safe OBVIOUS
<1>1. TypeOK BY TypeInit
<1>2. row.purge_started_at = Unset /\ row.purge_status # "purged"
  BY DEF Init, NoRow, Unset
<1>. QED BY <1>1, <1>2
        DEF Init, Quiet, Safe, HoldExcludesDestruction, BytesGoneOnlyUnderIntent,
            PurgedMeansDestroyed, RetentionHonoured, StepsAreJustified

\* The intent is claimed by begin_purge alone, for a document without an active
\* hold whose retention is over.
LEMMA IntentClaimed ==
    ASSUME Safe, [Next]_vars, row'.purge_started_at # row.purge_started_at
    PROVE  /\ ActiveHolds(holds) = {} /\ UNCHANGED <<holds, object>>
           /\ RetentionOver
           /\ row'.purge_started_at = today
           /\ row'.purge_status = row.purge_status
<1>. USE DEF Safe, stored
<1>t. row \in Rows /\ today \in Days BY DEF TypeOK
<1>1. \E w \in Workers : BeginPurge(w)
  <2>1. ~Tick BY DEF Tick
  <2>2. ASSUME NEW w \in Workers PROVE ~Request(w) /\ ~Fault(w)
    BY DEF Request, purge_document, evaluate_purge, get_lifecycle_posture, get_retention,
           set_legal_hold, release_legal_hold, Begin, get_document_binary, Fault, FetchFails, Fail, Idle
  <2>3. ASSUME NEW w \in Workers, Step(w) PROVE BeginPurge(w)
    <3>1. ~Refresh(w) /\ ~Release(w)
      BY <1>t, DerivedRow
         DEF Refresh, refresh_legal_hold_summary, Release, release_and_record_legal_hold
    <3>2. ~Grant(w) /\ ~Withdraw(w) BY <1>t, GrantRow, WithdrawRow DEF Grant, Withdraw
    <3>3. ~CompletePurge(w) /\ ~Admit(w) BY <1>t, CompleteRow, AdmitRow DEF CompletePurge, Admit
    <3>4. /\ ~Evaluate(w) /\ ~Reread(w) /\ ~Relist(w) /\ ~ListHolds(w) /\ ~Fetch(w)
          /\ ~RecordEvent(w) /\ ~Answer(w) /\ ~DeleteObject(w)
      BY DEF Evaluate, Reread, Relist, ListHolds, Fetch, RecordEvent, Answer, Idle, DeleteObject
    <3>. QED BY <2>3, <3>1, <3>2, <3>3, <3>4 DEF Step
  <2>. QED BY <2>1, <2>2, <2>3 DEF Next, vars
<1>2. PICK w \in Workers : BeginPurge(w) BY <1>1
<1>3. row' = begin_purge(row, holds, today) /\ UNCHANGED <<holds, object>> BY <1>2 DEF BeginPurge
<1>4. row.purge_started_at = Unset BY <1>3, <1>t, BeginRow
<1>5. RetentionOver BY <1>2, <1>4 DEF BeginPurge, StepsAreJustified
<1>. QED BY <1>3, <1>5, <1>t, BeginRow

\* Each safety property is kept by every step.
LEMMA PropertiesKept ==
    ASSUME Safe, [Next]_vars
    PROVE  /\ HoldExcludesDestruction'
           /\ BytesGoneOnlyUnderIntent'
           /\ PurgedMeansDestroyed'
           /\ RetentionHonoured'
<1>. USE DEF Safe, stored
<1>l. Lasting BY LastingNext
<1>t. row \in Rows /\ today \in Days /\ holds \in HoldRows BY DEF TypeOK
<1>c. row'.purge_started_at # row.purge_started_at =>
         /\ ActiveHolds(holds) = {} /\ UNCHANGED <<holds, object>>
         /\ RetentionOver
         /\ row'.purge_started_at = today
         /\ row'.purge_status = row.purge_status
  BY IntentClaimed
<1>1. HoldExcludesDestruction'
  <2>. SUFFICES ASSUME row'.purge_started_at # Unset PROVE ActiveHolds(holds') = {}
    BY DEF HoldExcludesDestruction, ActiveHolds
  <2>1. CASE row.purge_started_at = Unset BY <2>1, <1>c
  <2>2. CASE row.purge_started_at # Unset
    <3>1. ActiveHolds(holds) = {} BY <2>2 DEF HoldExcludesDestruction
    <3>2. ActiveHolds(holds') \subseteq ActiveHolds(holds)
      <4>1. ASSUME NEW w \in Workers, Admit(w) PROVE UNCHANGED holds
        BY <4>1, <2>2 DEF Admit, CanAdmit
      <4>2. ASSUME NEW w \in Workers, Release(w)
            PROVE UNCHANGED holds \/ holds' = ReleaseHold(holds, arg[w])
        BY <4>2 DEF Release
      <4>3. ASSUME NEW w \in Workers, Request(w) \/ Fault(w) PROVE UNCHANGED holds
        BY <4>3 DEF Request, purge_document, evaluate_purge, get_lifecycle_posture, get_retention,
                    set_legal_hold, release_legal_hold, Begin, get_document_binary, Fault, FetchFails, Fail, Idle
      <4>4. ASSUME NEW w \in Workers, Step(w) PROVE UNCHANGED holds \/ Admit(w) \/ Release(w)
        BY <4>4 DEF Step, Refresh, Evaluate, Grant, Withdraw, Reread, Relist, BeginPurge,
                    DeleteObject, CompletePurge, ListHolds, Fetch, RecordEvent, Answer, Idle
      <4>. QED BY <4>1, <4>2, <4>3, <4>4, <1>t, ReleaseRows DEF Next, vars, Tick
    <3>. QED BY <3>1, <3>2
  <2>. QED BY <2>1, <2>2
<1>d. ASSUME object' = "absent", object # "absent" PROVE row.purge_started_at # Unset
  <2>1. \E w \in Workers : DeleteObject(w)
    BY <1>d DEF Next, vars, Tick, Request, purge_document, evaluate_purge, get_lifecycle_posture,
                get_retention, set_legal_hold, release_legal_hold, Begin, get_document_binary,
                Fault, FetchFails, Fail, Idle, Step, Refresh, Evaluate, Grant, Withdraw, Reread, Relist, BeginPurge,
                CompletePurge, ListHolds, Admit, Release, Fetch, RecordEvent, Answer
  <2>. QED BY <2>1 DEF DeleteObject, StepsAreJustified
<1>2. BytesGoneOnlyUnderIntent' BY <1>d, <1>l DEF BytesGoneOnlyUnderIntent, Lasting
<1>p. ASSUME row'.purge_status = "purged", row.purge_status # "purged"
      PROVE  row'.purge_started_at # Unset /\ row'.purged_at # Unset /\ object' = "absent"
  <2>1. \E w \in Workers : CompletePurge(w)
    <3>1. ASSUME NEW w \in Workers, Step(w) PROVE CompletePurge(w)
      <4>1. ~Refresh(w) /\ ~Release(w)
        BY <1>p, <1>t, DerivedRow
           DEF Refresh, refresh_legal_hold_summary, Release, release_and_record_legal_hold
      <4>2. ~Grant(w) /\ ~Withdraw(w) BY <1>p, <1>t, GrantRow, WithdrawRow DEF Grant, Withdraw
      <4>3. ~BeginPurge(w) /\ ~Admit(w) BY <1>p, <1>t, BeginRow, AdmitRow DEF BeginPurge, Admit
      <4>. QED BY <1>p, <3>1, <4>1, <4>2, <4>3
              DEF Step, Evaluate, Reread, Relist, ListHolds, Fetch, RecordEvent, Answer, Idle,
                  DeleteObject
    <3>. QED BY <1>p, <3>1
            DEF Next, vars, Tick, Request, purge_document, evaluate_purge, get_lifecycle_posture,
                get_retention, set_legal_hold, release_legal_hold, Begin, get_document_binary,
                Fault, FetchFails, Fail, Idle
  <2>2. PICK w \in Workers : CompletePurge(w) BY <2>1
  <2>3. row.purge_started_at # Unset /\ object = "absent"
    BY <2>2 DEF CompletePurge, StepsAreJustified
  <2>4. row' = complete_purge(row, today) /\ UNCHANGED object BY <2>2 DEF CompletePurge
  <2>. QED BY <2>3, <2>4, <1>t, CompleteRow
<1>3. PurgedMeansDestroyed'
  BY <1>p, <1>l DEF PurgedMeansDestroyed, Lasting
<1>4. RetentionHonoured'
  BY <1>c, <1>l DEF RetentionHonoured, RetentionOver, Lasting
<1>. QED BY <1>1, <1>2, <1>3, <1>4

\* What entitles one worker to its next step.
Justified(w) ==
    /\ pc[w] \in {"delete", "complete"} => row.purge_started_at # Unset
    /\ pc[w] = "complete" => object = "absent"
    /\ pc[w] = "begin" => row.purge_started_at # Unset \/ RetentionOver
    /\ pc[w] = "grant" => reason[w] = "retention_elapsed" /\ RetentionOver
    /\ pc[w] = "withdraw" => reason[w] \notin EligibleReasons
    /\ pc[w] = "evaluate" =>
          /\ snap[w].retain_until_date = row.retain_until_date
          /\ snap[w].purge_started_at # Unset => row.purge_started_at # Unset
          /\ snap[w].purge_status = "purged" =>
                row.purge_status = "purged" /\ row.purge_started_at # Unset

\* A worker keeps its entitlement while others act, because what it rests on is
\* lasting.
LEMMA JustifiedLasts ==
    ASSUME TypeOK, TypeOK', Lasting, NEW v \in Workers, Justified(v),
           pc'[v] = pc[v], snap'[v] = snap[v], reason'[v] = reason[v]
    PROVE  Justified(v)'
<1>1. RetentionOver => RetentionOver'
  BY DEF TypeOK, Lasting, RetentionOver, Rows, Stamps, Days
<1>. QED BY <1>1 DEF Lasting, Justified

\* A worker that takes a step is entitled to the next one.
LEMMA JustifiedStep ==
    ASSUME Safe, TypeOK', Lasting, PurgedMeansDestroyed', NEW w \in Workers, Step(w)
    PROVE  Justified(w)'
<1>. USE DEF Goto, Decide, Keep
<1>t. /\ row \in Rows /\ today \in Days
      /\ pc \in [Workers -> Steps] /\ snap \in [Workers -> Rows] /\ reason \in [Workers -> Outcomes]
  BY DEF Safe, TypeOK
<1>j. Justified(w) BY DEF Safe, StepsAreJustified, Justified
<1>1. CASE pc'[w] \in {"record", "answer", "idle", "reread", "relist", "admit"}
  BY <1>1 DEF Justified
<1>2. CASE Refresh(w)
  <2>1. CASE pc'[w] = "evaluate"
    <3>1. snap'[w] = row' BY <1>2, <2>1, <1>t DEF Refresh
    <3>2. row'.purge_status = "purged" => row'.purge_started_at # Unset
      BY DEF PurgedMeansDestroyed
    <3>. QED BY <3>1, <3>2, <2>1 DEF Justified
  <2>. QED BY <1>1, <1>2, <2>1, <1>t DEF Refresh
<1>3. CASE Evaluate(w)
  <2>. DEFINE c == Classify(snap[w], today)
  <2>1. /\ reason'[w] = c
        /\ pc'[w] \in {AfterEvaluation(op[w], c), "grant", "withdraw"}
        /\ pc'[w] = "grant" => c = "retention_elapsed"
        /\ pc'[w] = "withdraw" =>
              c \in {"legal_hold_active", "retain_until_date_missing", "retention_period_active"}
        /\ row' = row /\ today' = today
    BY <1>3, <1>t, AfterEvaluationStep DEF Evaluate, Answered, stored
  <2>2. c \in EligibleReasons => row.purge_started_at # Unset \/ RetentionOver
    BY <1>3, <1>j, <1>t, ClassifyOutcome DEF Evaluate, Justified, EligibleReasons, RetentionOver
  <2>3. c = "retention_elapsed" => RetentionOver
    BY <1>3, <1>j, <1>t, ClassifyOutcome DEF Evaluate, Justified, RetentionOver
  <2>. HIDE DEF c
  <2>4. CASE pc'[w] = "begin"
    BY <2>1, <2>2, <2>4, AfterEvaluationStep DEF Justified, RetentionOver
  <2>5. CASE pc'[w] = "grant" BY <2>1, <2>3, <2>5 DEF Justified, RetentionOver
  <2>6. CASE pc'[w] = "withdraw" BY <2>1, <2>6 DEF Justified, EligibleReasons
  <2>. QED BY <1>1, <2>1, <2>4, <2>5, <2>6, AfterEvaluationStep
<1>4. CASE Grant(w)
  <2>1. CASE pc'[w] = "begin"
    <3>1. RetentionOver BY <1>4, <1>j DEF Grant, Justified
    <3>2. RetentionOver' BY <1>4, <3>1 DEF Grant, RetentionOver, Lasting
    <3>. QED BY <2>1, <3>2 DEF Justified
  <2>. QED BY <1>1, <1>4, <2>1, <1>t, AfterEvaluationStep DEF Grant, Answered
<1>5. CASE Withdraw(w)
  <2>1. pc'[w] # "begin" BY <1>5, <1>j, <1>t, AfterEvaluationStep DEF Withdraw, Answered, Justified
  <2>. QED BY <1>1, <1>5, <2>1, <1>t, AfterEvaluationStep DEF Withdraw, Answered
<1>6. CASE Reread(w)
  <2>1. CASE pc'[w] = "begin"
    <3>1. row.purge_started_at # Unset
      BY <1>6, <2>1, <1>t, AfterEvaluationStep
         DEF Reread, Answered, EligibleReasons, Safe, PurgedMeansDestroyed
    <3>. QED BY <2>1, <3>1 DEF Justified, Lasting
  <2>. QED BY <1>1, <1>6, <2>1, <1>t, AfterEvaluationStep DEF Reread, Answered
<1>7. CASE Relist(w)
  BY <1>1, <1>7, <1>t, AfterEvaluationStep DEF Relist, Answered, EligibleReasons
<1>8. CASE BeginPurge(w)
  <2>1. CASE pc'[w] = "delete"
    <3>1. Claimed(row, holds) BY <1>8, <2>1, <1>t DEF BeginPurge
    <3>2. row'.purge_started_at # Unset BY <1>8, <3>1, <1>t, BeginRow DEF BeginPurge
    <3>. QED BY <2>1, <3>2 DEF Justified
  <2>. QED BY <1>1, <1>8, <2>1, <1>t DEF BeginPurge
<1>9. CASE DeleteObject(w) BY <1>9, <1>j, <1>t DEF DeleteObject, Justified
<1>10. CASE \/ CompletePurge(w) \/ ListHolds(w) \/ Admit(w) \/ Release(w) \/ Fetch(w)
            \/ RecordEvent(w) \/ Answer(w)
  BY <1>1, <1>10, <1>t
     DEF CompletePurge, ListHolds, Admit, Release, Fetch, RecordEvent, Answer, Idle
<1>. QED BY <1>2, <1>3, <1>4, <1>5, <1>6, <1>7, <1>8, <1>9, <1>10 DEF Step

\* The invariant is inductive.
LEMMA SafeNext == Safe /\ [Next]_vars => Safe'
<1>. SUFFICES ASSUME Safe, [Next]_vars PROVE Safe' OBVIOUS
<1>1. TypeOK' BY TypeNext DEF Safe
<1>2. Lasting BY LastingNext DEF Safe
<1>3. /\ HoldExcludesDestruction' /\ BytesGoneOnlyUnderIntent'
      /\ PurgedMeansDestroyed' /\ RetentionHonoured'
  BY PropertiesKept
<1>4. ASSUME NEW v \in Workers PROVE Justified(v)'
  <2>0. Justified(v) BY DEF Safe, StepsAreJustified, Justified
  <2>1. CASE UNCHANGED <<pc, snap, reason>> BY <2>0, <2>1, <1>1, <1>2, JustifiedLasts DEF Safe
  <2>2. ASSUME NEW w \in Workers, Request(w) \/ Step(w) \/ Fault(w), v # w PROVE Justified(v)'
    <3>1. Others(w) BY <2>2, Isolation DEF Safe
    <3>. QED BY <2>0, <2>2, <3>1, <1>1, <1>2, JustifiedLasts DEF Safe, Others
  <2>3. CASE Step(v) BY <2>3, <1>1, <1>2, <1>3, JustifiedStep
  <2>4. CASE Request(v) \/ Fault(v)
    <3>1. pc'[v] \in {"refresh", "list", "release", "fetch", "record", "idle"}
      BY <2>4 DEF Safe, TypeOK, Request, purge_document, evaluate_purge, get_lifecycle_posture,
                  get_retention, set_legal_hold, release_legal_hold, Begin, get_document_binary,
                  Fault, FetchFails, Fail, Idle, Goto
    <3>. QED BY <3>1 DEF Justified
  <2>5. CASE Tick \/ UNCHANGED vars BY <2>1, <2>5 DEF Tick, vars
  <2>. QED BY <2>2, <2>3, <2>4, <2>5 DEF Next
<1>5. StepsAreJustified' BY <1>4 DEF StepsAreJustified, Justified, RetentionOver
<1>. QED BY <1>1, <1>3, <1>5 DEF Safe

\* The invariant holds throughout.
THEOREM SafeAlways == Spec => []Safe
BY SafeInit, SafeNext, PTL DEF Spec

\* Hold and destruction exclude each other for any number of workers.
THEOREM HoldExcludesDestructionAlways == Spec => []HoldExcludesDestruction
<1>1. Safe => HoldExcludesDestruction BY DEF Safe
<1>. QED BY SafeAlways, <1>1, PTL

\* The bytes are gone only under a recorded intent.
THEOREM BytesGoneOnlyUnderIntentAlways == Spec => []BytesGoneOnlyUnderIntent
<1>1. Safe => BytesGoneOnlyUnderIntent BY DEF Safe
<1>. QED BY SafeAlways, <1>1, PTL

\* A document recorded as purged is destroyed.
THEOREM PurgedMeansDestroyedAlways == Spec => []PurgedMeansDestroyed
<1>1. Safe => PurgedMeansDestroyed BY DEF Safe
<1>. QED BY SafeAlways, <1>1, PTL

\* No document is destroyed before its retention date.
THEOREM RetentionHonouredAlways == Spec => []RetentionHonoured
<1>1. Safe => RetentionHonoured BY DEF Safe
<1>. QED BY SafeAlways, <1>1, PTL

----------------------------------------------------------------------------
(* What the access events say, and what a request carries. *)

\* The operation a worker serves decides where in the code it can be.
Serves(w) ==
    /\ pc[w] = "idle" => op[w] = "none"
    /\ pc[w] = "refresh" => op[w] \in {"purge", "evaluate", "posture", "retention"}
    /\ pc[w] \in {"evaluate", "grant", "withdraw", "reread", "relist"} =>
          op[w] \in {"purge", "evaluate", "posture"}
    /\ pc[w] \in {"begin", "delete", "complete"} => op[w] = "purge"
    /\ pc[w] \in {"list", "admit"} => op[w] = "set_hold"
    /\ pc[w] = "release" => op[w] = "release_hold"
    /\ pc[w] = "fetch" => op[w] = "download"
    /\ op[w] \in {"set_hold", "release_hold"} => arg[w] \in HoldIds

\* What an outcome says of the stored state.
TrueOf(w, outcome) ==
    /\ outcome \in {"purged", "already_purged", "document_purged"} => row.purge_status = "purged"
    /\ outcome \in {"purge_in_progress", "purge_already_started"} => row.purge_started_at # Unset
    /\ op[w] = "set_hold" /\ outcome = "allowed" => holds[arg[w]] # "absent"
    /\ outcome = "document_binary_missing" => row.purge_started_at # Unset \/ w \in unread

\* An outcome is true once it is final, and an event is the outcome.  A worker
\* that withdraws eligibility has decided nothing about destruction.
Truthful(w) ==
    /\ pc[w] = "withdraw" =>
          reason[w] \in {"legal_hold_active", "retain_until_date_missing", "retention_period_active"}
    /\ pc[w] \in {"record", "answer"} => TrueOf(w, reason[w])
    /\ event[w] # "none" => pc[w] = "answer" /\ event[w] = reason[w]

\* A hold request that has not inserted its hold yet will insert a new one, and
\* no two hold requests mint the same id.
Minting ==
    /\ \A w \in Workers : pc[w] \in {"list", "admit"} => holds[arg[w]] = "absent"
    /\ \A v, w \in Workers : op[v] = "set_hold" /\ op[w] = "set_hold" /\ arg[v] = arg[w] => v = w

\* The day of destruction is written with the status, and by nothing else.
PurgedAtStatus == row.purge_status # "purged" => row.purged_at = Unset

\* The inductive invariant of the requests, on top of Safe.
Requested ==
    /\ \A w \in Workers : Serves(w) /\ Truthful(w)
    /\ Minting
    /\ PurgedAtStatus

\* A hold row appears by admission, is cleared by a release, and no other step
\* writes one.
LEMMA HoldsStep ==
    ASSUME TypeOK, [Next]_vars
    PROVE  \/ UNCHANGED holds
           \/ \E w \in Workers : /\ Admit(w) /\ CanAdmit(row)
                                 /\ holds' = AdmitHold(holds, arg[w])
           \/ \E w \in Workers : Release(w) /\ holds' = ReleaseHold(holds, arg[w])
<1>. USE DEF stored
<1>1. ASSUME NEW w \in Workers, Request(w) \/ Fault(w) PROVE UNCHANGED holds
  BY <1>1 DEF Request, purge_document, evaluate_purge, get_lifecycle_posture, get_retention,
              set_legal_hold, release_legal_hold, Begin, get_document_binary, Fault, FetchFails, Fail, Idle
<1>2. ASSUME NEW w \in Workers, Step(w) PROVE UNCHANGED holds \/ Admit(w) \/ Release(w)
  BY <1>2 DEF Step, Refresh, Evaluate, Grant, Withdraw, Reread, Relist, BeginPurge,
              DeleteObject, CompletePurge, ListHolds, Fetch, RecordEvent, Answer, Idle
<1>3. ASSUME NEW w \in Workers, Admit(w)
      PROVE  UNCHANGED holds \/ (CanAdmit(row) /\ holds' = AdmitHold(holds, arg[w]))
  BY <1>3 DEF Admit
<1>4. ASSUME NEW w \in Workers, Release(w)
      PROVE  UNCHANGED holds \/ holds' = ReleaseHold(holds, arg[w])
  BY <1>4 DEF Release
<1>. QED BY <1>1, <1>2, <1>3, <1>4 DEF Next, vars, Tick

\* A hold row is never deleted.
LEMMA HoldsLast ==
    ASSUME TypeOK, [Next]_vars, NEW h \in HoldIds, holds[h] # "absent"
    PROVE  holds'[h] # "absent"
<1>t. holds \in HoldRows BY DEF TypeOK
<1>1. ASSUME NEW w \in Workers PROVE AdmitHold(holds, arg[w])[h] # "absent"
  BY <1>t DEF AdmitHold, HoldRows
<1>2. ASSUME NEW w \in Workers PROVE ReleaseHold(holds, arg[w])[h] # "absent"
  BY <1>t DEF ReleaseHold, HoldRows
<1>. QED BY <1>1, <1>2, HoldsStep

\* What an outcome says of the stored state stays true while the worker waits.
LEMMA TruthLasts ==
    ASSUME Safe, [Next]_vars, Lasting, NEW v \in Workers, NEW c, Serves(v), TrueOf(v, c),
           op'[v] = op[v], arg'[v] = arg[v], v \in unread' <=> v \in unread
    PROVE  TrueOf(v, c)'
<1>1. row.purge_status = "purged" => row'.purge_status = "purged"
  BY DEF Safe, PurgedMeansDestroyed, Lasting
<1>2. op[v] = "set_hold" /\ holds[arg[v]] # "absent" => holds'[arg[v]] # "absent"
  BY HoldsLast DEF Safe, Serves
<1>. QED BY <1>1, <1>2 DEF TrueOf, Lasting

\* A step of a worker leaves it at a place its operation has.
LEMMA ServesStep ==
    ASSUME TypeOK, NEW w \in Workers, Serves(w), Step(w)
    PROVE  Serves(w)'
<1>. USE DEF TypeOK, Serves, request, Goto
<1>1. CASE Refresh(w) BY <1>1 DEF Refresh
<1>2. CASE Evaluate(w) BY <1>2, AfterEvaluationStep DEF Evaluate, Answered
<1>3. CASE Grant(w) \/ Withdraw(w) BY <1>3, AfterEvaluationStep DEF Grant, Withdraw, Answered
<1>4. CASE Reread(w) \/ Relist(w) BY <1>4, AfterEvaluationStep DEF Reread, Relist, Answered
<1>5. CASE BeginPurge(w) \/ DeleteObject(w) \/ CompletePurge(w)
  BY <1>5 DEF BeginPurge, DeleteObject, CompletePurge
<1>6. CASE ListHolds(w) \/ Admit(w) \/ Release(w) BY <1>6 DEF ListHolds, Admit, Release
<1>7. CASE Fetch(w) \/ RecordEvent(w) BY <1>7 DEF Fetch, RecordEvent
<1>8. CASE Answer(w) BY <1>8 DEF Answer, Idle
<1>. QED BY <1>1, <1>2, <1>3, <1>4, <1>5, <1>6, <1>7, <1>8 DEF Step

\* An outcome is true when the step that decides it commits.
LEMMA TruthfulStep ==
    ASSUME Safe, Lasting, NEW w \in Workers, Serves(w), Truthful(w), Step(w)
    PROVE  Truthful(w)'
<1>. USE DEF Goto, Decide, Keep, request
<1>t. /\ row \in Rows /\ today \in Days /\ holds \in HoldRows
      /\ pc \in [Workers -> Steps] /\ reason \in [Workers -> Outcomes]
      /\ event \in [Workers -> Outcomes] /\ op \in [Workers -> Operations \cup {"none"}]
      /\ arg \in [Workers -> HoldIds \cup {NoHold}]
  BY DEF Safe, TypeOK
<1>e. pc[w] # "answer" => event[w] = "none" BY DEF Truthful
<1>1. CASE Refresh(w)
  BY <1>1, <1>e, <1>t DEF Refresh, Serves, Truthful, TrueOf
<1>2. CASE Evaluate(w)
  <2>. DEFINE c == Classify(snap[w], today)
  <2>1. /\ c \in ReasonCodes
        /\ c = "already_purged" => row.purge_status = "purged"
        /\ c = "purge_in_progress" => row.purge_started_at # Unset
    BY <1>2, <1>t, ClassifyOutcome DEF Evaluate, Safe, StepsAreJustified, TypeOK
  <2>2. /\ reason'[w] = c /\ event' = event /\ row' = row
        /\ pc'[w] \in {AfterEvaluation(op[w], c), "grant", "withdraw"}
        /\ pc'[w] = "withdraw" =>
              c \in {"legal_hold_active", "retain_until_date_missing", "retention_period_active"}
    BY <1>2, <1>t, AfterEvaluationStep DEF Evaluate, Answered, stored
  <2>3. event[w] = "none" BY <1>2, <1>e DEF Evaluate
  <2>. HIDE DEF c
  <2>. QED BY <2>1, <2>2, <2>3 DEF Truthful, TrueOf, ReasonCodes
<1>3. CASE Grant(w)
  BY <1>3, <1>e, <1>t, AfterEvaluationStep
     DEF Grant, Answered, Serves, Truthful, TrueOf, EligibleReasons, Safe,
         StepsAreJustified
<1>4. CASE Withdraw(w)
  BY <1>4, <1>e, <1>t, AfterEvaluationStep
     DEF Withdraw, Answered, Serves, Truthful, TrueOf
<1>5. CASE Reread(w)
  BY <1>5, <1>e, <1>t, AfterEvaluationStep
     DEF Reread, Answered, Serves, Truthful, TrueOf, EligibleReasons, stored
<1>6. CASE Relist(w)
  BY <1>6, <1>e, <1>t, AfterEvaluationStep
     DEF Relist, Answered, Serves, Truthful, TrueOf, EligibleReasons
<1>7. CASE BeginPurge(w) BY <1>7, <1>e, <1>t DEF BeginPurge, Serves, Truthful, TrueOf
<1>8. CASE DeleteObject(w) BY <1>8, <1>e, <1>t DEF DeleteObject, Truthful
<1>9. CASE CompletePurge(w)
  <2>1. row'.purge_status = "purged"
    BY <1>9, <1>t, CompleteRow DEF CompletePurge, Safe, StepsAreJustified
  <2>. QED BY <1>9, <2>1, <1>e, <1>t DEF CompletePurge, Serves, Truthful, TrueOf
<1>10. CASE ListHolds(w) BY <1>10, <1>e, <1>t DEF ListHolds, Serves, Truthful, TrueOf
<1>11. CASE Admit(w)
  <2>1. CASE CanAdmit(row)
    <3>1. holds'[arg[w]] = "active" BY <1>11, <2>1, <1>t DEF Admit, AdmitHold, HoldRows, Serves
    <3>. QED BY <1>11, <2>1, <3>1, <1>e, <1>t DEF Admit, Serves, Truthful, TrueOf
  <2>2. CASE ~CanAdmit(row)
    <3>1. row'.purge_started_at # Unset BY <2>2 DEF CanAdmit, Lasting
    <3>. QED BY <1>11, <2>2, <3>1, <1>e, <1>t DEF Admit, Serves, Truthful, TrueOf
  <2>. QED BY <2>1, <2>2
<1>12. CASE Release(w) BY <1>12, <1>e, <1>t DEF Release, Serves, Truthful, TrueOf
<1>13. CASE Fetch(w)
  BY <1>13, <1>e, <1>t DEF Fetch, Serves, Truthful, TrueOf, Safe, BytesGoneOnlyUnderIntent, stored
<1>14. CASE RecordEvent(w) BY <1>14, <1>e, <1>t DEF RecordEvent, Truthful, TrueOf, stored
<1>15. CASE Answer(w) BY <1>15, <1>t DEF Answer, Idle, Truthful
<1>. QED BY <1>1, <1>2, <1>3, <1>4, <1>5, <1>6, <1>7, <1>8, <1>9, <1>10, <1>11, <1>12,
            <1>13, <1>14, <1>15 DEF Step

\* The invariant holds of a document nobody asks about yet.
LEMMA RequestedInit == Init => Requested
<1>. SUFFICES ASSUME Init PROVE Requested OBVIOUS
<1>1. row.purged_at = Unset BY DEF Init, NoRow
<1>. QED BY <1>1, NoHoldAssumption
        DEF Init, Quiet, Requested, Serves, Truthful, Minting, PurgedAtStatus

\* A request is at a place its operation has, and has recorded nothing yet.
LEMMA ServesRequest ==
    ASSUME TypeOK, NEW w \in Workers, Serves(w), Truthful(w), Request(w)
    PROVE  Serves(w)' /\ Truthful(w)'
<1>. USE DEF TypeOK, request, Goto
<1>e. pc[w] = "idle" => event[w] = "none" BY DEF Truthful
<1>1. ASSUME NEW o \in {"purge", "evaluate", "posture", "retention"}, Begin(w, o, NoHold, "refresh")
      PROVE  Serves(w)' /\ Truthful(w)'
  BY <1>1, <1>e DEF Begin, Serves, Truthful
<1>2. ASSUME NEW h \in HoldIds, Begin(w, "set_hold", h, "list") \/ Begin(w, "release_hold", h, "release")
      PROVE  Serves(w)' /\ Truthful(w)'
  BY <1>2, <1>e DEF Begin, Serves, Truthful
<1>3. CASE get_document_binary(w)
  BY <1>3, <1>e DEF get_document_binary, Decide, stored, Serves, Truthful, TrueOf
<1>. QED BY <1>1, <1>2, <1>3
        DEF Request, purge_document, evaluate_purge, get_lifecycle_posture, get_retention,
            set_legal_hold, release_legal_hold

\* Only a hold request changes which holds are being minted.
LEMMA MintingNext ==
    ASSUME TypeOK, Requested, [Next]_vars
    PROVE  Minting'
<1>. USE DEF stored, request, Goto
<1>t. /\ holds \in HoldRows /\ pc \in [Workers -> Steps]
      /\ op \in [Workers -> Operations \cup {"none"}]
      /\ arg \in [Workers -> HoldIds \cup {NoHold}]
  BY DEF TypeOK
<1>m. Minting /\ \A w \in Workers : Serves(w) BY DEF Requested
<1>1. ASSUME NEW w \in Workers, Request(w) PROVE Minting'
  <2>h. UNCHANGED holds
    BY <1>1 DEF Request, purge_document, evaluate_purge, get_lifecycle_posture, get_retention,
                set_legal_hold, release_legal_hold, Begin, get_document_binary
  <2>1. ASSUME NEW h \in HoldIds, set_legal_hold(w, h) PROVE Minting'
    BY <2>1, <2>h, <1>t, <1>m DEF set_legal_hold, Begin, Minting
  <2>2. CASE \A h \in HoldIds : ~set_legal_hold(w, h)
    <3>1. op'[w] # "set_hold" /\ pc'[w] \notin {"list", "admit"}
      BY <1>1, <2>2, <1>t
         DEF Request, purge_document, evaluate_purge, get_lifecycle_posture, get_retention,
             release_legal_hold, Begin, get_document_binary
    <3>2. Others(w) BY <1>1, Isolation
    <3>. QED BY <3>1, <3>2, <2>h, <1>m DEF Others, Minting
  <2>. QED BY <2>1, <2>2
<1>2. ASSUME NEW w \in Workers, Step(w) \/ Fault(w) PROVE Minting'
  <2>o. Others(w) BY <1>2, Isolation
  <2>1. CASE Admit(w)
    <3>1. /\ pc'[w] = "record" /\ UNCHANGED <<op, arg>> /\ op[w] = "set_hold"
          /\ holds' \in {holds, AdmitHold(holds, arg[w])}
      BY <2>1, <1>t, <1>m DEF Admit, Serves
    <3>2. ASSUME NEW v \in Workers, pc'[v] \in {"list", "admit"} PROVE holds'[arg'[v]] = "absent"
      <4>1. v # w /\ pc[v] \in {"list", "admit"} BY <3>1, <3>2, <2>o DEF Others
      <4>2. op[v] = "set_hold" /\ arg[v] # arg[w] /\ holds[arg[v]] = "absent" /\ arg[v] \in HoldIds
        BY <4>1, <3>1, <1>m DEF Serves, Minting
      <4>. QED BY <3>1, <4>2, <1>t DEF AdmitHold, HoldRows
    <3>. QED BY <3>1, <3>2, <1>m DEF Minting
  <2>2. CASE ~Admit(w)
    <3>1. /\ pc'[w] \in {"list", "admit"} => pc[w] = "list" /\ op'[w] = op[w] /\ arg'[w] = arg[w]
          /\ op'[w] = "set_hold" => op[w] = "set_hold" /\ arg'[w] = arg[w]
      BY <1>2, <2>2, <1>t, AfterEvaluationStep
         DEF Step, Refresh, Evaluate, Grant, Withdraw, Reread, Relist, Answered, BeginPurge,
             DeleteObject, CompletePurge, ListHolds, Release, Fetch, RecordEvent, Answer, Fault, FetchFails, Fail, Idle
    <3>2. UNCHANGED holds \/ (Release(w) /\ holds' = ReleaseHold(holds, arg[w]))
      BY <1>2, <2>2
         DEF Step, Refresh, Evaluate, Grant, Withdraw, Reread, Relist, BeginPurge,
             DeleteObject, CompletePurge, ListHolds, Release, Fetch, RecordEvent, Answer, Fault, FetchFails, Fail, Idle
    <3>3. ASSUME NEW h \in HoldIds, holds[h] = "absent" PROVE holds'[h] = "absent"
      BY <3>2, <3>3, <1>t DEF ReleaseHold, HoldRows
    <3>4. ASSUME NEW v \in Workers, pc'[v] \in {"list", "admit"} PROVE holds'[arg'[v]] = "absent"
      <4>1. pc[v] \in {"list", "admit"} /\ arg'[v] = arg[v] BY <3>1, <3>4, <2>o DEF Others
      <4>2. arg[v] \in HoldIds /\ holds[arg[v]] = "absent" BY <4>1, <1>m DEF Serves, Minting
      <4>. QED BY <4>1, <4>2, <3>3
    <3>5. ASSUME NEW u \in Workers, NEW v \in Workers,
                 op'[u] = "set_hold", op'[v] = "set_hold", arg'[u] = arg'[v]
          PROVE  u = v
      BY <3>1, <3>5, <2>o, <1>m DEF Others, Minting
    <3>. QED BY <3>4, <3>5 DEF Minting
  <2>. QED BY <2>1, <2>2
<1>3. CASE Tick \/ UNCHANGED vars BY <1>3, <1>m DEF Tick, vars, Minting
<1>. QED BY <1>1, <1>2, <1>3 DEF Next

\* The day of destruction is only ever written by complete_purge.
LEMMA PurgedAtNext ==
    ASSUME Safe, PurgedAtStatus, [Next]_vars
    PROVE  PurgedAtStatus'
<1>. USE DEF PurgedAtStatus, stored
<1>t. row \in Rows /\ today \in Days BY DEF Safe, TypeOK
<1>1. ASSUME NEW w \in Workers, Step(w) PROVE PurgedAtStatus'
  <2>1. CASE Refresh(w) BY <2>1, <1>t, DerivedRow DEF Refresh, refresh_legal_hold_summary
  <2>2. CASE Grant(w) \/ Withdraw(w) BY <2>2, <1>t, GrantRow, WithdrawRow DEF Grant, Withdraw
  <2>3. CASE BeginPurge(w) BY <2>3, <1>t, BeginRow DEF BeginPurge
  <2>4. CASE CompletePurge(w)
    BY <2>4, <1>t, CompleteRow DEF CompletePurge, Safe, StepsAreJustified
  <2>5. CASE Admit(w) BY <2>5, <1>t, AdmitRow DEF Admit
  <2>6. CASE Release(w) BY <2>6, <1>t, DerivedRow DEF Release, release_and_record_legal_hold
  <2>. QED BY <1>1, <2>1, <2>2, <2>3, <2>4, <2>5, <2>6
          DEF Step, Evaluate, Reread, Relist, DeleteObject, ListHolds, Fetch, RecordEvent, Answer, Idle
<1>. QED BY <1>1
        DEF Next, vars, Tick, Request, purge_document, evaluate_purge, get_lifecycle_posture,
            get_retention, set_legal_hold, release_legal_hold, Begin, get_document_binary, Fault, FetchFails, Fail, Idle

\* The invariant of the requests is inductive under Safe.
LEMMA RequestedNext == Safe /\ Requested /\ [Next]_vars => Requested'
<1>. SUFFICES ASSUME Safe, Requested, [Next]_vars PROVE Requested' OBVIOUS
<1>1. TypeOK /\ Lasting BY LastingNext DEF Safe
<1>2. ASSUME NEW v \in Workers PROVE Serves(v)' /\ Truthful(v)'
  <2>0. Serves(v) /\ Truthful(v) BY DEF Requested
  <2>1. ASSUME pc'[v] = pc[v], op'[v] = op[v], arg'[v] = arg[v], reason'[v] = reason[v],
               event'[v] = event[v], v \in unread' <=> v \in unread
        PROVE  Serves(v)' /\ Truthful(v)'
    <3>1. TrueOf(v, reason[v]) => TrueOf(v, reason[v])' BY <2>0, <2>1, <1>1, TruthLasts
    <3>. QED BY <2>0, <2>1, <3>1 DEF Serves, Truthful
  <2>2. ASSUME NEW w \in Workers, Request(w) \/ Step(w) \/ Fault(w), v # w
        PROVE  Serves(v)' /\ Truthful(v)'
    <3>1. Others(w) BY <2>2, <1>1, Isolation
    <3>. QED BY <2>1, <2>2, <3>1 DEF Others
  <2>3. CASE Request(v) BY <2>0, <2>3, <1>1, ServesRequest
  <2>4. CASE Step(v) BY <2>0, <2>4, <1>1, ServesStep, TruthfulStep
  <2>5. CASE Fault(v)
    <3>1. CASE Fail(v) BY <3>1, <1>1 DEF Fail, Idle, Goto, Decide, TypeOK, Serves, Truthful
    <3>2. CASE FetchFails(v)
      BY <3>2, <2>0, <1>1
         DEF FetchFails, Goto, Decide, request, stored, TypeOK, Serves, Truthful, TrueOf
    <3>. QED BY <2>5, <3>1, <3>2 DEF Fault
  <2>6. CASE Tick \/ UNCHANGED vars BY <2>1, <2>6 DEF Tick, vars, request
  <2>. QED BY <2>2, <2>3, <2>4, <2>5, <2>6 DEF Next
<1>3. Minting' BY <1>1, MintingNext
<1>4. PurgedAtStatus' BY PurgedAtNext DEF Requested
<1>. QED BY <1>2, <1>3, <1>4 DEF Requested

\* Both invariants hold throughout.
THEOREM RequestedAlways == Spec => [](Safe /\ Requested)
BY SafeInit, SafeNext, RequestedInit, RequestedNext, PTL DEF Spec

\* What an access event says of the stored state is true, whatever the other
\* workers do between the step it reports and its insert.
THEOREM EventsTellTheTruthAlways == Spec => []EventsTellTheTruth
<1>1. Requested => EventsTellTheTruth
  BY DEF Requested, Truthful, TrueOf, EventsTellTheTruth
<1>. QED BY RequestedAlways, <1>1, PTL

----------------------------------------------------------------------------
(* Retention implements Custody. *)

\* Before the intent a document is retained, after it condemned, then destroyed.
LEMMA CustodyStates ==
    ASSUME NEW r
    PROVE  /\ CustodyOf(r) = "retained" <=> r.purge_status # "purged" /\ r.purge_started_at = Unset
           /\ CustodyOf(r) = "condemned" <=> r.purge_status # "purged" /\ r.purge_started_at # Unset
           /\ CustodyOf(r) = "destroyed" <=> r.purge_status = "purged"
BY DEF CustodyOf

\* A step that keeps the columns, hold rows, bytes and day the mapping reads is
\* a stutter of Custody.
LEMMA CustodyStutter ==
    ASSUME row'.purge_status = row.purge_status,
           row'.purge_started_at = row.purge_started_at,
           row'.purged_at = row.purged_at,
           row'.purge_eligible_at = row.purge_eligible_at,
           row'.retain_until_date = row.retain_until_date,
           UNCHANGED <<holds, object, today>>
    PROVE  UNCHANGED Promise!vars
BY DEF Promise!vars, CustodyOf, ActiveHolds

\* Every document in an archive that starts is one Custody starts with.
LEMMA CustodyInit == Init => Promise!Init
<1>. SUFFICES ASSUME Init PROVE Promise!Init OBVIOUS
<1>. USE DEF Init, Quiet
<1>t. row \in Rows /\ holds \in HoldRows BY TypeInit DEF TypeOK
<1>1. /\ row.purge_started_at = Unset /\ row.purged_at = Unset
      /\ row.purge_status \in {"not_eligible", "eligible"}
      /\ row.purge_status = "eligible" => row.retain_until_date = 1
      /\ row.purge_eligible_at = IF row.purge_status = "eligible" THEN 1 ELSE Unset
  BY DEF NoRow
<1>2. CustodyOf(row) = "retained" BY <1>1, CustodyStates
<1>3. /\ ActiveHolds(holds) \in SUBSET HoldIds
      /\ {h \in HoldIds : holds[h] = "clear"} \in SUBSET (HoldIds \ ActiveHolds(holds))
  BY DEF ActiveHolds
<1>4. row.retain_until_date \in Promise!Stamps BY <1>t DEF Rows, Stamps, Promise!Stamps
<1>. QED BY <1>1, <1>2, <1>3, <1>4 DEF Promise!Init, Promise!Never, Unset

\* An inserted hold is a hold placed on a document in custody.
LEMMA AdmitPlaces ==
    ASSUME Safe, Requested, NEW w \in Workers, Admit(w)
    PROVE  (\E h \in HoldIds : Promise!PlaceHold(h)) \/ UNCHANGED Promise!vars
<1>t. row \in Rows /\ holds \in HoldRows BY DEF Safe, TypeOK
<1>r. /\ row'.purge_status = row.purge_status /\ row'.purge_started_at = row.purge_started_at
      /\ row'.purged_at = row.purged_at /\ row'.purge_eligible_at = row.purge_eligible_at
      /\ row'.retain_until_date = row.retain_until_date /\ UNCHANGED <<object, today>>
  BY <1>t, AdmitRow DEF Admit
<1>1. CASE ~CanAdmit(row) BY <1>1, <1>r, CustodyStutter DEF Admit
<1>2. CASE CanAdmit(row)
  <2>. DEFINE h == arg[w]
  <2>1. h \in HoldIds /\ holds[h] = "absent" /\ holds' = [holds EXCEPT ![h] = "active"]
    BY <1>2 DEF Admit, AdmitHold, Requested, Serves, Minting
  <2>. HIDE DEF h
  <2>2. row.purge_status # "purged"
    BY <1>2 DEF CanAdmit, Safe, PurgedMeansDestroyed
  <2>3. CustodyOf(row) = "retained" /\ CustodyOf(row') = "retained"
    BY <1>2, <1>r, <2>2, CustodyStates DEF CanAdmit
  <2>4. /\ ActiveHolds(holds') = ActiveHolds(holds) \cup {h}
        /\ {g \in HoldIds : holds'[g] = "clear"} = {g \in HoldIds : holds[g] = "clear"}
        /\ h \notin ActiveHolds(holds) \cup {g \in HoldIds : holds[g] = "clear"}
    BY <2>1, <1>t DEF ActiveHolds, HoldRows
  <2>5. Promise!PlaceHold(h) BY <1>r, <2>3, <2>4 DEF Promise!PlaceHold
  <2>. QED BY <2>1, <2>5
<1>. QED BY <1>1, <1>2

\* A release lifts a hold in force, or finds it lifted.
LEMMA ReleaseLifts ==
    ASSUME Safe, Requested, NEW w \in Workers, Release(w)
    PROVE  (\E h \in HoldIds : Promise!LiftHold(h)) \/ UNCHANGED Promise!vars
<1>t. row \in Rows /\ holds \in HoldRows BY DEF Safe, TypeOK
<1>r. /\ row'.purge_status = row.purge_status /\ row'.purge_started_at = row.purge_started_at
      /\ row'.purged_at = row.purged_at /\ row'.purge_eligible_at = row.purge_eligible_at
      /\ row'.retain_until_date = row.retain_until_date /\ UNCHANGED <<object, today>>
  BY <1>t, DerivedRow DEF Release, release_and_record_legal_hold
<1>1. PICK h \in HoldIds : h = arg[w] BY DEF Release, Requested, Serves
<1>2. CASE holds[h] # "active"
  <2>1. UNCHANGED holds BY <1>1, <1>2 DEF Release, ReleaseHold
  <2>. QED BY <1>r, <2>1, CustodyStutter
<1>3. CASE holds[h] = "active"
  <2>1. holds' = [holds EXCEPT ![h] = "clear"] BY <1>1, <1>3 DEF Release, ReleaseHold
  <2>2. /\ ActiveHolds(holds') = ActiveHolds(holds) \ {h}
        /\ {g \in HoldIds : holds'[g] = "clear"} = {g \in HoldIds : holds[g] = "clear"} \cup {h}
        /\ h \in ActiveHolds(holds)
    BY <1>1, <1>3, <2>1, <1>t DEF ActiveHolds, HoldRows
  <2>3. CustodyOf(row') = CustodyOf(row) BY <1>r DEF CustodyOf
  <2>4. Promise!LiftHold(h) BY <1>r, <2>2, <2>3 DEF Promise!LiftHold
  <2>. QED BY <1>1, <2>4
<1>. QED BY <1>2, <1>3

\* A worker that grants eligibility does so on a day retention is over, however
\* old the snapshot is that sent it here.
LEMMA GrantPermits ==
    ASSUME Safe, NEW w \in Workers, Grant(w)
    PROVE  Promise!Permit \/ UNCHANGED Promise!vars
<1>t. row \in Rows /\ today \in Days /\ UNCHANGED <<holds, object, today>>
  BY DEF Safe, TypeOK, Grant
<1>1. CASE ~CanGrant(row, holds) BY <1>1, <1>t, CustodyStutter DEF Grant, mark_purge_eligible
<1>2. CASE CanGrant(row, holds)
  <2>. DEFINE at == IF row.purge_eligible_at = Unset THEN today ELSE row.purge_eligible_at
  <2>1. row' = [row EXCEPT !.purge_status = "eligible", !.purge_eligible_at = at]
    BY <1>2 DEF Grant, mark_purge_eligible
  <2>2. /\ row'.purge_status = "eligible" /\ row'.purge_eligible_at = at
        /\ row'.purge_started_at = row.purge_started_at /\ row'.purged_at = row.purged_at
        /\ row'.retain_until_date = row.retain_until_date
    BY <2>1, <1>t DEF Rows
  <2>3. CustodyOf(row) = "retained" /\ CustodyOf(row') = "retained"
    BY <1>2, <2>2, CustodyStates DEF CanGrant
  <2>4. Promise!RetentionOver
    BY DEF Grant, Safe, StepsAreJustified, RetentionOver, Promise!RetentionOver, Promise!Never, Unset
  <2>. QED BY <1>2, <1>t, <2>2, <2>3, <2>4
          DEF CanGrant, Promise!Permit, Promise!Stamp, Promise!Never, Unset
<1>. QED BY <1>1, <1>2

\* A withdrawal forbids destruction of a document that is still retained.
LEMMA WithdrawForbids ==
    ASSUME Safe, NEW w \in Workers, Withdraw(w)
    PROVE  Promise!Forbid \/ UNCHANGED Promise!vars
<1>t. row \in Rows /\ UNCHANGED <<holds, object, today>> BY DEF Safe, TypeOK, Withdraw
<1>1. CASE ~CanWithdraw(row) BY <1>1, <1>t, CustodyStutter DEF Withdraw, mark_purge_not_eligible
<1>2. CASE CanWithdraw(row)
  <2>1. row' = [row EXCEPT !.purge_status = "not_eligible"]
    BY <1>2 DEF Withdraw, mark_purge_not_eligible
  <2>2. /\ row'.purge_status = "not_eligible" /\ row'.purge_eligible_at = row.purge_eligible_at
        /\ row'.purge_started_at = row.purge_started_at /\ row'.purged_at = row.purged_at
        /\ row'.retain_until_date = row.retain_until_date
    BY <2>1, <1>t DEF Rows
  <2>3. CustodyOf(row) = "retained" /\ CustodyOf(row') = "retained"
    BY <1>2, <2>2, CustodyStates DEF CanWithdraw
  <2>. QED BY <1>t, <2>2, <2>3 DEF Promise!Forbid
<1>. QED BY <1>1, <1>2

\* Claiming the intent condemns; claiming it again changes nothing.
LEMMA BeginCondemns ==
    ASSUME Safe, NEW w \in Workers, BeginPurge(w)
    PROVE  Promise!Condemn \/ UNCHANGED Promise!vars
<1>t. row \in Rows /\ today \in Days /\ UNCHANGED <<holds, object, today>>
  BY DEF Safe, TypeOK, BeginPurge
<1>1. CASE ~CanBegin(row, holds) BY <1>1, <1>t, CustodyStutter DEF BeginPurge, begin_purge
<1>2. CASE CanBegin(row, holds)
  <2>1. row' = [row EXCEPT !.purge_started_at = today] BY <1>2 DEF BeginPurge, begin_purge
  <2>2. /\ row'.purge_status = row.purge_status /\ row'.purge_eligible_at = row.purge_eligible_at
        /\ row'.purge_started_at = today /\ row'.purged_at = row.purged_at
        /\ row'.retain_until_date = row.retain_until_date
    BY <2>1, <1>t DEF Rows
  <2>3. today # Unset BY <1>t DEF Days, Unset
  <2>4. row.purge_status # "purged" BY <1>2 DEF CanBegin, Safe, PurgedMeansDestroyed
  <2>5. CustodyOf(row) = "retained" /\ CustodyOf(row') = "condemned"
    BY <1>2, <2>2, <2>3, <2>4, CustodyStates DEF CanBegin
  <2>6. Promise!RetentionOver
    BY <1>2 DEF BeginPurge, CanBegin, Safe, StepsAreJustified, RetentionOver,
                Promise!RetentionOver, Promise!Never, Unset
  <2>. QED BY <1>2, <1>t, <2>2, <2>5, <2>6 DEF CanBegin, Promise!Condemn
<1>. QED BY <1>1, <1>2

\* Deleting the object destroys a condemned document, or finds it destroyed.
LEMMA DeleteDestroys ==
    ASSUME Safe, NEW w \in Workers, DeleteObject(w)
    PROVE  Promise!Destroy \/ UNCHANGED Promise!vars
<1>1. UNCHANGED <<row, holds, today>> /\ object' = "absent" BY DEF DeleteObject
<1>2. CASE row.purge_status = "purged"
  <2>1. object = "absent" BY <1>2 DEF Safe, PurgedMeansDestroyed
  <2>. QED BY <1>1, <2>1, CustodyStutter
<1>3. CASE row.purge_status # "purged"
  <2>1. CustodyOf(row) = "condemned"
    BY <1>3, CustodyStates DEF DeleteObject, Safe, StepsAreJustified
  <2>. QED BY <1>1, <2>1 DEF Promise!Destroy, ActiveHolds, CustodyOf
<1>. QED BY <1>2, <1>3

\* The record of the outcome certifies a destruction that took place; a retry
\* of it changes nothing.
LEMMA CompleteCertifies ==
    ASSUME Safe, Requested, NEW w \in Workers, CompletePurge(w)
    PROVE  Promise!Certify \/ UNCHANGED Promise!vars
<1>t. row \in Rows /\ today \in Days /\ UNCHANGED <<holds, object, today>>
  BY DEF Safe, TypeOK, CompletePurge
<1>j. row.purge_started_at # Unset /\ object = "absent"
  BY DEF CompletePurge, Safe, StepsAreJustified
<1>. DEFINE at == IF row.purged_at = Unset THEN today ELSE row.purged_at
<1>1. row' = [row EXCEPT !.purge_status = "purged", !.purged_at = at]
  BY <1>j DEF CompletePurge, complete_purge, CanComplete
<1>2. /\ row'.purge_status = "purged" /\ row'.purge_eligible_at = row.purge_eligible_at
      /\ row'.purge_started_at = row.purge_started_at /\ row'.purged_at = at
      /\ row'.retain_until_date = row.retain_until_date
  BY <1>1, <1>t DEF Rows
<1>3. CASE row.purge_status = "purged"
  <2>1. at = row.purged_at BY <1>3 DEF Safe, PurgedMeansDestroyed
  <2>. QED BY <1>2, <1>3, <2>1, <1>t, CustodyStutter
<1>4. CASE row.purge_status # "purged"
  <2>1. at = today BY <1>4 DEF Requested, PurgedAtStatus
  <2>2. CustodyOf(row) = "condemned" /\ CustodyOf(row') = "destroyed"
    BY <1>4, <1>j, <1>2, CustodyStates
  <2>. QED BY <1>2, <1>t, <1>j, <2>1, <2>2 DEF Promise!Certify
<1>. QED BY <1>3, <1>4

\* Every step of the workers is a step of Custody or changes nothing in it.
LEMMA CustodyNext == Safe /\ Requested /\ [Next]_vars => [Promise!Next]_(Promise!vars)
<1>. SUFFICES ASSUME Safe, Requested, [Next]_vars PROVE Promise!Next \/ UNCHANGED Promise!vars
  OBVIOUS
<1>. USE DEF stored
<1>t. row \in Rows BY DEF Safe, TypeOK
<1>s. UNCHANGED <<row, holds, object, today>> => UNCHANGED Promise!vars BY CustodyStutter
<1>1. CASE Tick
  <2>1. Promise!NextDay
    BY <1>1 DEF Tick, Promise!NextDay, ActiveHolds, CustodyOf
  <2>. QED BY <2>1 DEF Promise!Next
<1>2. ASSUME NEW w \in Workers, Request(w) \/ Fault(w) PROVE UNCHANGED Promise!vars
  BY <1>2, <1>s DEF Request, purge_document, evaluate_purge, get_lifecycle_posture, get_retention,
                    set_legal_hold, release_legal_hold, Begin, get_document_binary, Fault, FetchFails, Fail, Idle
<1>3. ASSUME NEW w \in Workers, Step(w) PROVE Promise!Next \/ UNCHANGED Promise!vars
  <2>1. CASE Refresh(w)
    BY <2>1, <1>t, DerivedRow, CustodyStutter DEF Refresh, refresh_legal_hold_summary
  <2>2. CASE Grant(w) BY <2>2, GrantPermits DEF Promise!Next
  <2>3. CASE Withdraw(w) BY <2>3, WithdrawForbids DEF Promise!Next
  <2>4. CASE BeginPurge(w) BY <2>4, BeginCondemns DEF Promise!Next
  <2>5. CASE DeleteObject(w) BY <2>5, DeleteDestroys DEF Promise!Next
  <2>6. CASE CompletePurge(w) BY <2>6, CompleteCertifies DEF Promise!Next
  <2>7. CASE Admit(w) BY <2>7, AdmitPlaces DEF Promise!Next
  <2>8. CASE Release(w) BY <2>8, ReleaseLifts DEF Promise!Next
  <2>9. CASE \/ Evaluate(w) \/ Reread(w) \/ Relist(w) \/ ListHolds(w) \/ Fetch(w)
             \/ RecordEvent(w) \/ Answer(w)
    BY <2>9, <1>s DEF Evaluate, Reread, Relist, ListHolds, Fetch, RecordEvent, Answer, Idle
  <2>. QED BY <1>3, <2>1, <2>2, <2>3, <2>4, <2>5, <2>6, <2>7, <2>8, <2>9 DEF Step
<1>4. CASE UNCHANGED vars BY <1>4, <1>s DEF vars
<1>. QED BY <1>1, <1>2, <1>3, <1>4 DEF Next

\* Whatever workers, holds, days and failures there are, what they do to a
\* document is what module Custody allows, one atomic step at a time.
THEOREM CustodyImplemented == Spec => ImplementsCustody
BY CustodyInit, CustodyNext, RequestedAlways, PTL DEF Spec, ImplementsCustody, Promise!Spec
=============================================================================
