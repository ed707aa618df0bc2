------------------------------- MODULE EventFeed -------------------------------
(***************************************************************************)
(* The two event lists of one document that are read page by page with     *)
(* limit and offset: its access events and its source events.              *)
(*                                                                         *)
(* A worker stamps an event with its clock and stores it in a later step;  *)
(* a reader asks for the page at an offset and follows next_offset.  The   *)
(* list is ordered by the stamp and not by arrival.  Reading access events *)
(* is itself an access event, stored before the page is listed.            *)
(***************************************************************************)
EXTENDS Integers, FiniteSets

CONSTANTS
    Writers,     \* workers that record events of the document
    Limit,       \* page size
    MaxEvents,   \* bound: access events of other requests
    MaxReads,    \* bound: pages of access events
    MaxReplays   \* bound: replays, each from where the last one ended

\* A document is the source of one lifecycle relationship and the target of one.
MaxRelationships == 2

ASSUME BoundsAssumption ==
    /\ Limit \in Nat \ {0} /\ MaxEvents \in Nat /\ MaxReads \in Nat /\ MaxReplays \in Nat \ {0}
    /\ MaxRelationships =< MaxEvents + MaxReads

\* An event is known by its stamp; no two stamps are the same microsecond.
\* 0: the event of the archiving, which is there from the start.
Stamps == 0..(MaxEvents + MaxReads)
NoStamp == 0

VARIABLES
    audited,     \* TRUE: access events; FALSE: source events
    overlap,     \* FALSE: one process serves all requests, one after the other
    clock,       \* the last stamp given
    feed,        \* the stored events
    stamped,     \* stamped[w]: the event w has stamped and not stored
    left,        \* events other requests may still record
    pc, offset,  \* the reader's request
    page,        \* the events of the page it asked for
    listed,      \* history: the feed when that page was listed
    total,
    got, twice,  \* events the reader has received, and received again
    replays

writing == <<clock, feed, stamped, left>>
reading == <<pc, offset, page, listed, total, got, twice, replays>>
setting == <<audited, overlap>>
vars == <<setting, writing, reading>>

TypeOK ==
    /\ clock \in Stamps
    /\ feed \subseteq Stamps /\ stamped \in [Writers -> Stamps]
    /\ audited \in BOOLEAN /\ overlap \in BOOLEAN
    /\ left \in 0..(IF audited THEN MaxEvents ELSE MaxRelationships)
    /\ pc \in {"idle", "list", "count", "answer", "done"}
    /\ offset \in Nat /\ total \in Nat
    /\ page \subseteq feed /\ listed \subseteq feed
    /\ got \subseteq feed /\ twice \subseteq got
    /\ Cardinality(page) =< Limit
    /\ replays \in 0..MaxReplays

Init ==
    /\ clock = 0 /\ feed = {0}
    /\ stamped = [w \in Writers |-> NoStamp]
    /\ audited \in BOOLEAN /\ overlap \in BOOLEAN
    /\ left = IF audited THEN MaxEvents ELSE MaxRelationships
    /\ pc = "idle" /\ offset = 0 /\ page = {} /\ listed = {} /\ total = 0
    /\ got = {} /\ twice = {} /\ replays = 0

----------------------------------------------------------------------------
(* Writers. *)

Unwritten == {w \in Writers : stamped[w] # NoStamp}

\* access_audit_event, LifecycleRelationshipRecord: created_at, requested_at.
Stamp(w) ==
    /\ stamped[w] = NoStamp /\ left > 0
    /\ overlap \/ (Unwritten = {} /\ pc \in {"idle", "done"})
    /\ clock' = clock + 1
    /\ stamped' = [stamped EXCEPT ![w] = clock']
    /\ left' = left - 1
    /\ UNCHANGED <<setting, feed, reading>>

\* record, apply_lifecycle_transition: one transaction, which may fail.
Store(w) ==
    /\ stamped[w] # NoStamp
    /\ feed' \in {feed, feed \cup {stamped[w]}}
    /\ stamped' = [stamped EXCEPT ![w] = NoStamp]
    /\ UNCHANGED <<setting, clock, left, reading>>

----------------------------------------------------------------------------
(* The reader. *)

\* The position of event e in ORDER BY created_at.
Rank(e, S) == Cardinality({f \in S : f < e})

\* LIMIT and OFFSET, items[offset : offset + limit].
Slice(S, o) == {e \in S : Rank(e, S) \in o..(o + Limit - 1)}

\* list_access_events records the read before it lists the page.
Ask ==
    /\ pc = "idle"
    /\ overlap \/ Unwritten = {}
    /\ \/ ~audited /\ UNCHANGED <<clock, feed>>
       \/ /\ audited /\ clock < MaxEvents + MaxReads - left
          /\ clock' = clock + 1
          /\ feed' = feed \cup {clock'}
    /\ pc' = "list"
    /\ UNCHANGED <<setting, stamped, left, offset, page, listed, total, got, twice, replays>>

List ==
    /\ pc = "list"
    /\ page' = Slice(feed, offset)
    /\ listed' = feed
    /\ pc' = "count"
    /\ UNCHANGED <<setting, writing, offset, total, got, twice, replays>>

\* Mutant: the page is counted instead of the list.
Count_Page ==
    /\ pc = "count"
    /\ total' = offset + Cardinality(page)
    /\ pc' = "answer"
    /\ UNCHANGED <<setting, writing, offset, page, listed, got, twice, replays>>

\* count_by_document_id is a statement of its own; source events are counted
\* in the list the page is cut from.
Count ==
    /\ pc = "count"
    /\ total' = Cardinality(IF audited THEN feed ELSE listed)
    /\ pc' = "answer"
    /\ UNCHANGED <<setting, writing, offset, page, listed, got, twice, replays>>

\* Mutant: the next page starts where this one did.
NextOffset_Same == offset

NextOffset == offset + Limit

\* Mutant: one event more than a page is left to the next replay.
MorePages_Late == NextOffset + 1 < total

\* Whether next_offset is given.
MorePages == NextOffset < total

\* The reader takes the page; after the last one it resumes, later, behind the
\* events it has.
Answer ==
    /\ pc = "answer"
    /\ got' = got \cup page
    /\ twice' = twice \cup (got \cap page)
    /\ \/ /\ MorePages
          /\ offset' = NextOffset
          /\ pc' = "idle"
          /\ UNCHANGED replays
       \/ /\ ~MorePages
          /\ offset' = offset + Cardinality(page)
          /\ replays' = replays + 1
          /\ pc' = IF replays' = MaxReplays THEN "done" ELSE "idle"
    /\ UNCHANGED <<setting, writing, page, listed, total>>

Read == Ask \/ List \/ Count \/ Answer

Next == Read \/ \E w \in Writers : Stamp(w) \/ Store(w)

Spec == Init /\ [][Next]_vars

\* The reader keeps asking while the service answers it, and a request that has
\* stamped its event goes on to store it.
FairSpec == Spec /\ WF_vars(Read) /\ \A w \in Writers : WF_vars(Store(w))

----------------------------------------------------------------------------
(* Properties. *)

Ending == pc = "answer" /\ ~MorePages

\* api_models.py:310: a page without next_offset is the last one: it holds
\* every event that was stored, from the offset on, when it was listed.  The
\* count comes after the list, so events stored in between cost one page more
\* and hide none.
EndIsTheEnd == Ending => {e \in listed : Rank(e, listed) >= offset} \subseteq page

\* archive-service-boundaries.md:151-152: the events are "ordered by event time
\* and stable event id, and paged with bounded `limit`/`offset` semantics for
\* replay and resume".  Where one process serves all requests, a reader that
\* follows next_offset and resumes where it ended receives every event once.
\* Where several do this does not hold: an event stamped first and stored last
\* takes a position the reader has passed.
ReplayComplete ==
    ~overlap => twice = {} /\ (Ending => listed \subseteq got \cup page)

\* A reader that follows next_offset comes to the last page, although each of
\* its own reads lengthens the list of access events.
PagerEnds == <>(pc = "done")
=============================================================================
