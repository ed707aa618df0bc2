------------------------------- MODULE Custody -------------------------------
(***************************************************************************)
(* What the archive promises about one document, whoever asks and however  *)
(* many workers serve them: the document is retained, then condemned, then *)
(* destroyed; a hold keeps it from being condemned, and nothing condemned  *)
(* can be held any more.  Every step is atomic here.  Module Retention is  *)
(* shown to implement this one.                                            *)
(***************************************************************************)
EXTENDS Integers

CONSTANTS
    HoldIds,    \* the legal holds that can be placed
    MaxDay      \* bound: the last day the clock reaches

Never == 0
Stamps == 0..MaxDay

VARIABLES
    custody,     \* "retained", "condemned" or "destroyed"
    bytes,       \* "held" or "gone"
    holding,     \* the holds in force
    lifted,      \* the holds that were released
    permitted,   \* whether destruction is marked as permitted
    dates,       \* the days of permission, condemnation and destruction
    retainUntil, \* the day retention ends, Never if it has no end
    day          \* today

vars == <<custody, bytes, holding, lifted, permitted, dates, retainUntil, day>>

\* A document comes into custody with its bytes.  An earlier release may have
\* placed and lifted holds, or have marked it as permitted once retention ended.
Init ==
    /\ custody = "retained" /\ bytes = "held"
    /\ holding \in SUBSET HoldIds
    /\ lifted \in SUBSET (HoldIds \ holding)
    /\ day = 1
    /\ retainUntil \in Stamps
    /\ permitted \in BOOLEAN
    /\ permitted => retainUntil = 1
    /\ dates = [permitted |-> IF permitted THEN 1 ELSE Never, condemned |-> Never, destroyed |-> Never]

RetentionOver == retainUntil # Never /\ retainUntil =< day

\* A date is written once.
Stamp(date) == IF date = Never THEN day ELSE date

PlaceHold(h) ==
    /\ custody = "retained"
    /\ h \notin holding \cup lifted
    /\ holding' = holding \cup {h}
    /\ UNCHANGED <<custody, bytes, lifted, permitted, dates, retainUntil, day>>

LiftHold(h) ==
    /\ h \in holding
    /\ holding' = holding \ {h}
    /\ lifted' = lifted \cup {h}
    /\ UNCHANGED <<custody, bytes, permitted, dates, retainUntil, day>>

Permit ==
    /\ custody = "retained" /\ holding = {} /\ RetentionOver
    /\ permitted' = TRUE
    /\ dates' = [dates EXCEPT !.permitted = Stamp(@)]
    /\ UNCHANGED <<custody, bytes, holding, lifted, retainUntil, day>>

Forbid ==
    /\ custody = "retained"
    /\ permitted' = FALSE
    /\ UNCHANGED <<custody, bytes, holding, lifted, dates, retainUntil, day>>

\* A standing permission is not asked for again: what it rests on is.
Condemn ==
    /\ custody = "retained" /\ holding = {} /\ RetentionOver
    /\ custody' = "condemned"
    /\ dates' = [dates EXCEPT !.condemned = day]
    /\ UNCHANGED <<bytes, holding, lifted, permitted, retainUntil, day>>

Destroy ==
    /\ custody = "condemned"
    /\ bytes' = "gone"
    /\ UNCHANGED <<custody, holding, lifted, permitted, dates, retainUntil, day>>

\* Destruction is on record only once the bytes are gone; it uses up whatever
\* permission was left.
Certify ==
    /\ custody = "condemned" /\ bytes = "gone"
    /\ custody' = "destroyed"
    /\ permitted' = FALSE
    /\ dates' = [dates EXCEPT !.destroyed = day]
    /\ UNCHANGED <<bytes, holding, lifted, retainUntil, day>>

NextDay ==
    /\ day < MaxDay
    /\ day' = day + 1
    /\ UNCHANGED <<custody, bytes, holding, lifted, permitted, dates, retainUntil>>

Next ==
    \/ \E h \in HoldIds : PlaceHold(h) \/ LiftHold(h)
    \/ Permit \/ Forbid \/ Condemn \/ Destroy \/ Certify \/ NextDay

Spec == Init /\ [][Next]_vars
=============================================================================
