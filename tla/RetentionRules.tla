--------------------------- MODULE RetentionRules ---------------------------
(***************************************************************************)
(* The retention columns of one row of archive_documents, the legal-hold   *)
(* rows that refer to it, and the guarded transitions of the repository    *)
(* port (repository.py and postgres_repository.py implement the same       *)
(* ones).  Every transition is a function of the stored row and the stored *)
(* hold rows and writes only the columns it decides; a refused transition  *)
(* returns the row as it is.  Rows of different documents never meet in a  *)
(* transition of this module, so one row is enough.                        *)
(*                                                                         *)
(* Timestamps are abstracted to the day they fall on; Unset is SQL NULL.   *)
(***************************************************************************)
EXTENDS Integers, FiniteSets

CONSTANTS
    HoldIds,    \* the legal_hold_id values that can be minted
    MaxDay      \* bound: the last day the clock reaches

ASSUME HoldIdsAssumption == IsFiniteSet(HoldIds)
ASSUME MaxDayAssumption == MaxDay \in Nat \ {0}

Unset == 0
Days == 1..MaxDay
Stamps == 0..MaxDay

PurgeStatus == {"not_eligible", "eligible", "purged"}
LegalHoldStatus == {"clear", "active"}

Rows == [purge_status      : PurgeStatus,
         purge_eligible_at : Stamps,
         purge_started_at  : Stamps,
         purged_at         : Stamps,
         legal_hold_status : LegalHoldStatus,
         legal_hold_count  : Nat,
         retain_until_date : Stamps]

\* A hold row exists from its insertion on and is never deleted.
HoldRows == [HoldIds -> {"absent", "active", "clear"}]

ActiveHolds(holds) == {h \in HoldIds : holds[h] = "active"}

----------------------------------------------------------------------------
(* Hold summary: derived from the hold rows in the statement that writes it. *)

\* Mutant: the count is decremented rather than recounted.
Derived_Decrement(row, holds) ==
    [row EXCEPT !.legal_hold_status = IF ActiveHolds(holds) # {} THEN "active" ELSE "clear",
                !.legal_hold_count = row.legal_hold_count - 1]

\* The summary as the hold rows of the document determine it.
Derived(row, holds) ==
    [row EXCEPT !.legal_hold_status = IF ActiveHolds(holds) # {} THEN "active" ELSE "clear",
                !.legal_hold_count = Cardinality(ActiveHolds(holds))]

refresh_legal_hold_summary(row, holds) == Derived(row, holds)

----------------------------------------------------------------------------
(* Destruction intent. *)

CanBegin(row, holds) ==
    /\ row.purge_started_at = Unset
    /\ row.legal_hold_status # "active"
    /\ ActiveHolds(holds) = {}

begin_purge(row, holds, started_at) ==
    IF CanBegin(row, holds) THEN [row EXCEPT !.purge_started_at = started_at] ELSE row

\* Mutant: an intent that is already held is refused like a hold.
Claimed_NotIdempotent(row, holds) == CanBegin(row, holds)

\* begin_purge answers a row (rather than None) for a claimed intent, whether
\* this call claimed it or an earlier one did.
Claimed(row, holds) == CanBegin(row, holds) \/ row.purge_started_at # Unset

\* Mutant: only a document still marked eligible can be completed.
CanComplete_Eligible(row) == row.purge_started_at # Unset /\ row.purge_status = "eligible"

CanComplete(row) == row.purge_started_at # Unset

complete_purge(row, now) ==
    IF CanComplete(row)
    THEN [row EXCEPT !.purge_status = "purged",
                     !.purged_at = IF row.purged_at = Unset THEN now ELSE row.purged_at]
    ELSE row

----------------------------------------------------------------------------
(* Eligibility. *)

\* Mutant: eligibility is granted without looking at the stored holds.
CanGrant_NoHoldGuard(row, holds) ==
    /\ row.purge_started_at = Unset
    /\ row.purge_status # "purged"

CanGrant(row, holds) ==
    /\ row.purge_started_at = Unset
    /\ row.purge_status # "purged"
    /\ row.legal_hold_status # "active"
    /\ ActiveHolds(holds) = {}

mark_purge_eligible(row, holds, eligible_at) ==
    IF CanGrant(row, holds)
    THEN [row EXCEPT !.purge_status = "eligible",
                     !.purge_eligible_at =
                         IF row.purge_eligible_at = Unset THEN eligible_at ELSE row.purge_eligible_at]
    ELSE row

CanWithdraw(row) ==
    /\ row.purge_started_at = Unset
    /\ row.purge_status # "purged"

mark_purge_not_eligible(row) ==
    IF CanWithdraw(row) THEN [row EXCEPT !.purge_status = "not_eligible"] ELSE row

----------------------------------------------------------------------------
(* Legal holds: hold row and summary change in one transaction. *)

\* Mutant: admission does not look at the destruction intent.
CanAdmit_Late(row) == TRUE

CanAdmit(row) == row.purge_started_at = Unset

AdmitHold(holds, h) == [holds EXCEPT ![h] = "active"]

admit_and_record_legal_hold(row, holds, h) ==
    IF CanAdmit(row)
    THEN [row EXCEPT !.legal_hold_status = "active",
                     !.legal_hold_count = Cardinality(ActiveHolds(AdmitHold(holds, h)))]
    ELSE row

\* Releasing a hold that is already released converges on the recorded facts.
ReleaseHold(holds, h) ==
    IF holds[h] = "active" THEN [holds EXCEPT ![h] = "clear"] ELSE holds

release_and_record_legal_hold(row, holds, h) == Derived(row, ReleaseHold(holds, h))

----------------------------------------------------------------------------
(* purge_transitions.evaluate_purge: the order of the tests is the rule. *)

ReasonCodes == {"already_purged", "purge_in_progress", "legal_hold_active",
                "retain_until_date_missing", "retention_period_active",
                "retention_elapsed", "purge_state_changed"}

\* The answers that permit destruction to go ahead.
EligibleReasons == {"already_purged", "purge_in_progress", "retention_elapsed"}

\* Mutant: retention is over one day early.
Classify_DayEarly(row, today) ==
    IF row.purge_status = "purged" THEN "already_purged"
    ELSE IF row.purge_started_at # Unset THEN "purge_in_progress"
    ELSE IF row.legal_hold_status = "active" THEN "legal_hold_active"
    ELSE IF row.retain_until_date = Unset THEN "retain_until_date_missing"
    ELSE IF row.retain_until_date > today + 1 THEN "retention_period_active"
    ELSE "retention_elapsed"

Classify(row, today) ==
    IF row.purge_status = "purged" THEN "already_purged"
    ELSE IF row.purge_started_at # Unset THEN "purge_in_progress"
    ELSE IF row.legal_hold_status = "active" THEN "legal_hold_active"
    ELSE IF row.retain_until_date = Unset THEN "retain_until_date_missing"
    ELSE IF row.retain_until_date > today THEN "retention_period_active"
    ELSE "retention_elapsed"
=============================================================================
