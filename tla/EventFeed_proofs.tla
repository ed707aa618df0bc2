---------------------------- MODULE EventFeed_proofs ----------------------------
(***************************************************************************)
(* Proofs about EventFeed for any number of writers and events and any     *)
(* page size: the last page is the last one, and where one process serves  *)
(* all requests a reader that follows next_offset receives every event     *)
(* exactly once.                                                           *)
(***************************************************************************)
EXTENDS EventFeed, FiniteSetTheorems, TLAPS

----------------------------------------------------------------------------
(* The inductive invariant. *)

\* Requests served one after the other store their events in the order of their
\* stamps, and what the reader has is what lies before its offset.
InOrder ==
    /\ \A w, u \in Unwritten : w = u
    /\ \A w \in Unwritten : stamped[w] = clock /\ clock \notin feed
    /\ feed \subseteq 0..clock
    /\ pc \in {"list", "count", "answer"} => Unwritten = {}
    /\ pc \in {"count", "answer"} => listed = feed
    /\ pc = "answer" => total = Cardinality(feed)
    /\ got = {e \in feed : Rank(e, feed) < offset}
    /\ offset =< Cardinality(feed)
    /\ twice = {}

\* The page is cut from the list, and the list is counted no earlier than it is listed.
PageOfList ==
    /\ pc \in {"count", "answer"} => page = Slice(listed, offset)
    /\ pc = "answer" => Cardinality(listed) =< total

Inv ==
    /\ TypeOK
    /\ clock + left =< MaxEvents + MaxReads
    /\ pc # "done" => replays < MaxReplays
    /\ PageOfList
    /\ ~overlap => InOrder

----------------------------------------------------------------------------
(* Positions in a list ordered by stamp. *)

\* Stamps are finitely many numbers.
LEMMA StampsFinite ==
    ASSUME NEW S, S \subseteq Stamps
    PROVE  S \subseteq Nat /\ IsFiniteSet(S) /\ Cardinality(S) \in Nat
<1>1. Stamps \subseteq Nat /\ IsFiniteSet(Stamps) BY BoundsAssumption, FS_Interval DEF Stamps
<1>2. S \in SUBSET Stamps OBVIOUS
<1>3. IsFiniteSet(S) BY <1>1, <1>2, FS_Subset
<1>. QED BY <1>1, <1>3, FS_CardinalityType

\* The position of an event is that of an element of the list.
LEMMA RankBound ==
    ASSUME NEW S, S \subseteq Nat, IsFiniteSet(S), NEW e \in S
    PROVE  Rank(e, S) \in Nat /\ Rank(e, S) < Cardinality(S)
<1>. DEFINE B == {f \in S : f < e}
<1>1. Cardinality(S) \in Nat /\ IsFiniteSet(S \ {e}) /\ Cardinality(S \ {e}) = Cardinality(S) - 1
  BY FS_CardinalityType, FS_RemoveElement
<1>2. B \in SUBSET (S \ {e})
  <2>1. e \in Nat /\ ~(e < e) OBVIOUS
  <2>. QED BY <2>1
<1>3. IsFiniteSet(B) /\ Cardinality(B) =< Cardinality(S \ {e})
  <2>. HIDE DEF B
  <2>. QED BY <1>1, <1>2, FS_Subset
<1>4. Cardinality(B) \in Nat BY <1>3, FS_CardinalityType
<1>5. Rank(e, S) = Cardinality(B) BY DEF Rank
<1>. HIDE DEF B
<1>. QED BY <1>1, <1>3, <1>4, <1>5

\* A later event has a later position.
LEMMA RankGrows ==
    ASSUME NEW S, S \subseteq Nat, IsFiniteSet(S), NEW e \in S, NEW f \in S, e < f
    PROVE  Rank(e, S) < Rank(f, S)
<1>. DEFINE B == {g \in S : g < f}
<1>1. B \in SUBSET S OBVIOUS
<1>2. IsFiniteSet(B) BY <1>1, FS_Subset
<1>3. e \in B /\ B \subseteq Nat OBVIOUS
<1>4. {g \in B : g < e} = {g \in S : g < e}
  <2>1. e \in Nat /\ f \in Nat /\ \A g \in S : g \in Nat OBVIOUS
  <2>2. \A g \in S : g < e => g < f BY <2>1
  <2>. QED BY <2>2
<1>5. Rank(e, B) = Rank(e, S) /\ Rank(f, S) = Cardinality(B) BY <1>4 DEF Rank
<1>. HIDE DEF B
<1>. QED BY <1>2, <1>3, <1>5, RankBound

\* Two events never share a position.
LEMMA RankUnique ==
    ASSUME NEW S, S \subseteq Nat, IsFiniteSet(S), NEW e \in S, NEW f \in S, Rank(e, S) = Rank(f, S)
    PROVE  e = f
<1>1. e \in Nat /\ f \in Nat OBVIOUS
<1>2. Rank(e, S) \in Nat /\ Rank(f, S) \in Nat BY RankBound
<1>3. e < f => Rank(e, S) < Rank(f, S) BY RankGrows
<1>4. f < e => Rank(f, S) < Rank(e, S) BY RankGrows
<1>5. ~(e < f) /\ ~(f < e) BY <1>2, <1>3, <1>4
<1>. QED BY <1>1, <1>5

\* The first n events of a list are n events.
LEMMA SegmentSize ==
    ASSUME NEW S, S \subseteq Nat, IsFiniteSet(S), NEW n \in Nat, n =< Cardinality(S)
    PROVE  /\ IsFiniteSet({e \in S : Rank(e, S) < n})
           /\ Cardinality({e \in S : Rank(e, S) < n}) = n
<1>. DEFINE C == Cardinality(S)
            A == {e \in S : Rank(e, S) < n}
            f == [e \in S |-> Rank(e, S)]
            g == [e \in A |-> Rank(e, S)]
            T == 0..(C - 1)
            U == 0..(n - 1)
<1>1. C \in Nat BY FS_CardinalityType
<1>2. \A e \in S : Rank(e, S) \in Nat /\ Rank(e, S) < C BY RankBound
<1>3. IsFiniteSet(T) /\ Cardinality(T) = C /\ IsFiniteSet(U) /\ Cardinality(U) = n
  <2>1. C - 1 \in Int /\ n - 1 \in Int /\ 0 \in Int BY <1>1
  <2>2. /\ IsFiniteSet(T) /\ Cardinality(T) = IF 0 > C - 1 THEN 0 ELSE C - 1 - 0 + 1
        /\ IsFiniteSet(U) /\ Cardinality(U) = IF 0 > n - 1 THEN 0 ELSE n - 1 - 0 + 1
    <3>. HIDE DEF C
    <3>. QED BY <2>1, FS_Interval
  <2>. HIDE DEF C, T, U
  <2>. QED BY <1>1, <2>2
<1>4. \A a, b \in S : Rank(a, S) = Rank(b, S) => a = b BY RankUnique
<1>5. f \in Injection(S, T)
  <2>1. f \in [S -> T] BY <1>1, <1>2
  <2>2. IsInjective(f) BY <1>4 DEF IsInjective
  <2>. QED BY <2>1, <2>2 DEF Injection
<1>6. f \in Surjection(S, T)
  <2>. HIDE DEF f, T
  <2>. QED BY <1>3, <1>5, FS_Injection
<1>7. \A k \in T : \E e \in S : Rank(e, S) = k BY <1>6 DEF Surjection
<1>8. g \in Injection(A, U)
  <2>0. ASSUME NEW e \in A PROVE Rank(e, S) \in U
    <3>1. Rank(e, S) \in Nat /\ Rank(e, S) < n BY <1>2
    <3>. QED BY <3>1
  <2>. HIDE DEF U
  <2>1. g \in [A -> U] BY <2>0
  <2>2. IsInjective(g) BY <1>4 DEF IsInjective
  <2>. QED BY <2>1, <2>2 DEF Injection
<1>9. g \in Surjection(A, U)
  <2>1. ASSUME NEW k \in U PROVE \E e \in A : g[e] = k
    <3>1. k \in T /\ k < n BY <1>1, <2>1
    <3>2. PICK e \in S : Rank(e, S) = k BY <1>7, <3>1
    <3>. QED BY <3>1, <3>2
  <2>2. g \in [A -> U] BY <1>8 DEF Injection
  <2>. QED BY <2>1, <2>2 DEF Surjection
<1>. HIDE DEF g, U
<1>10. IsFiniteSet(A) /\ Cardinality(A) = Cardinality(U)
  <2>. HIDE DEF A
  <2>. QED BY <1>3, <1>8, <1>9, FS_Injection
<1>. QED BY <1>3, <1>10

\* A page is a part of the list and holds Limit events at most.
LEMMA SliceSize ==
    ASSUME NEW S, S \subseteq Nat, IsFiniteSet(S), NEW o \in Nat
    PROVE  /\ Slice(S, o) \subseteq S
           /\ IsFiniteSet(Slice(S, o)) /\ Cardinality(Slice(S, o)) \in Nat
           /\ Cardinality(Slice(S, o)) =< Limit
<1>. DEFINE P == Slice(S, o)
            I == o..(o + Limit - 1)
            f == [e \in P |-> Rank(e, S)]
<1>1. P \subseteq S BY DEF Slice
<1>2. IsFiniteSet(I) /\ Cardinality(I) = Limit
  <2>. DEFINE last == o + Limit - 1
  <2>1. o \in Int /\ last \in Int BY BoundsAssumption
  <2>. HIDE DEF last
  <2>2. IsFiniteSet(o..last) /\ Cardinality(o..last) = IF o > last THEN 0 ELSE last - o + 1
    BY <2>1, FS_Interval
  <2>3. ~(o > last) /\ last - o + 1 = Limit BY BoundsAssumption DEF last
  <2>. QED BY <2>2, <2>3 DEF last
<1>3. f \in Injection(P, I)
  <2>1. f \in [P -> I] BY DEF Slice
  <2>2. \A a, b \in S : Rank(a, S) = Rank(b, S) => a = b BY RankUnique
  <2>3. IsInjective(f) BY <1>1, <2>2 DEF IsInjective
  <2>. QED BY <2>1, <2>3 DEF Injection
<1>. HIDE DEF P, I, f
<1>4. IsFiniteSet(P) /\ Cardinality(P) =< Cardinality(I) BY <1>2, <1>3, FS_Injection
<1>. QED BY <1>1, <1>2, <1>4, FS_CardinalityType DEF P

\* An event stored after the others in the order of the list moves none of them.
LEMMA RankAppend ==
    ASSUME NEW S, S \subseteq Nat, IsFiniteSet(S), NEW x \in Nat, \A e \in S : e < x
    PROVE  /\ \A e \in S : Rank(e, S \cup {x}) = Rank(e, S)
           /\ Rank(x, S \cup {x}) = Cardinality(S)
           /\ x \notin S /\ Cardinality(S \cup {x}) = Cardinality(S) + 1
<1>1. ~(x < x) /\ x \notin S OBVIOUS
<1>2. \A e \in S : {f \in S \cup {x} : f < e} = {f \in S : f < e}
  <2>1. \A e \in S : e \in Nat /\ ~(x < e) OBVIOUS
  <2>. QED BY <2>1
<1>3. {f \in S \cup {x} : f < x} = S BY <1>1
<1>4. Cardinality(S \cup {x}) = Cardinality(S) + 1 BY <1>1, FS_AddElement
<1>. QED BY <1>1, <1>2, <1>3, <1>4 DEF Rank

----------------------------------------------------------------------------
(* Writers. *)

\* The empty list is in order.
LEMMA InvInit == Init => Inv
<1>. SUFFICES ASSUME Init PROVE Inv OBVIOUS
<1>. USE BoundsAssumption
<1>0. IsFiniteSet({0}) /\ Cardinality({0}) = 1 BY FS_Singleton, Zenon
<1>1. {0} \subseteq Stamps /\ Cardinality({}) = 0 /\ Cardinality({0}) = 1
  BY <1>0, FS_EmptySet DEF Stamps
<1>2. TypeOK BY <1>1 DEF Init, TypeOK, Stamps, NoStamp, MaxRelationships
<1>3. clock + left =< MaxEvents + MaxReads BY DEF Init, MaxRelationships
<1>4. PageOfList BY DEF Init, PageOfList
<1>5. InOrder
  <2>1. Unwritten = {} BY DEF Init, Unwritten
  <2>2. Rank(0, {0}) \in Nat
    <3>1. {0} \subseteq Nat /\ IsFiniteSet({0}) BY <1>0
    <3>. QED BY <3>1, RankBound
  <2>3. {e \in feed : Rank(e, feed) < offset} = {} BY <2>2 DEF Init
  <2>. QED BY <1>1, <2>1, <2>3 DEF Init, InOrder
<1>. QED BY <1>2, <1>3, <1>4, <1>5 DEF Inv, Init

\* What is stored after everything else leaves the reader's part of the list as it is.
LEMMA AppendOrder ==
    ASSUME Inv, ~overlap, NEW x \in Stamps, feed' = feed \cup {x}, \A e \in feed : e < x,
           UNCHANGED <<got, offset>>
    PROVE  /\ got' = {e \in feed' : Rank(e, feed') < offset'}
           /\ offset' =< Cardinality(feed')
<1>1. feed \subseteq Nat /\ IsFiniteSet(feed) /\ Cardinality(feed) \in Nat BY StampsFinite DEF Inv, TypeOK
<1>2. x \in Nat /\ offset \in Nat BY BoundsAssumption DEF Stamps, Inv, TypeOK
<1>3. /\ \A e \in feed : Rank(e, feed') = Rank(e, feed)
      /\ Rank(x, feed') = Cardinality(feed) /\ Cardinality(feed') = Cardinality(feed) + 1
  BY <1>1, <1>2, RankAppend
<1>4. offset =< Cardinality(feed) /\ got = {e \in feed : Rank(e, feed) < offset} BY DEF Inv, InOrder
<1>5. ~(Rank(x, feed') < offset) BY <1>1, <1>2, <1>3, <1>4
<1>6. {e \in feed' : Rank(e, feed') < offset} = got BY <1>3, <1>4, <1>5
<1>. QED BY <1>1, <1>2, <1>3, <1>4, <1>6

\* A stamp is later than every event stored so far.
LEMMA StampInv ==
    ASSUME Inv, NEW w \in Writers, Stamp(w)
    PROVE  Inv'
<1>1. /\ stamped[w] = NoStamp /\ left > 0 /\ (overlap \/ (Unwritten = {} /\ pc \in {"idle", "done"}))
      /\ clock' = clock + 1 /\ stamped' = [stamped EXCEPT ![w] = clock'] /\ left' = left - 1
      /\ UNCHANGED <<audited, overlap, feed, pc, offset, page, listed, total, got, twice, replays>>
  BY DEF Stamp, setting, reading
<1>2. /\ clock \in Nat /\ left \in Nat /\ clock + left =< MaxEvents + MaxReads
      /\ left \in 0..(IF audited THEN MaxEvents ELSE MaxRelationships)
      /\ stamped \in [Writers -> Stamps]
  BY BoundsAssumption DEF Inv, TypeOK, Stamps, MaxRelationships
<1>3. clock' \in Stamps /\ clock' # NoStamp BY <1>1, <1>2, BoundsAssumption DEF Stamps, NoStamp
<1>4. left' \in 0..(IF audited THEN MaxEvents ELSE MaxRelationships)
  BY <1>1, <1>2, BoundsAssumption DEF MaxRelationships
<1>5. TypeOK' BY <1>1, <1>2, <1>3, <1>4 DEF Inv, TypeOK
<1>6. clock' + left' =< MaxEvents + MaxReads BY <1>1, <1>2
<1>7. PageOfList' BY <1>1 DEF Inv, PageOfList, Slice, Rank
<1>8. ~overlap => InOrder'
  <2>1. SUFFICES ASSUME ~overlap PROVE InOrder' OBVIOUS
  <2>2. InOrder /\ Unwritten = {} /\ pc \in {"idle", "done"} BY <1>1, <2>1 DEF Inv
  <2>3. \A u \in Writers : u # w => stamped'[u] = NoStamp BY <1>1, <1>2, <2>2 DEF Unwritten
  <2>4. Unwritten' = {w} /\ stamped'[w] = clock' BY <1>1, <1>2, <1>3, <2>3 DEF Unwritten
  <2>5. feed' \subseteq 0..clock' /\ clock' \notin feed' BY <1>1, <1>2, <2>2 DEF InOrder
  <2>6. /\ got' = {e \in feed' : Rank(e, feed') < offset'} /\ offset' =< Cardinality(feed') /\ twice' = {}
    BY <1>1, <2>2 DEF InOrder
  <2>. QED BY <1>1, <2>2, <2>4, <2>5, <2>6 DEF InOrder
<1>. QED BY <1>1, <1>5, <1>6, <1>7, <1>8 DEF Inv

\* An event that is stored extends the list; where one process serves all requests, it does so at its end.
LEMMA StoreInv ==
    ASSUME Inv, NEW w \in Writers, Store(w)
    PROVE  Inv'
<1>1. /\ stamped[w] # NoStamp /\ feed' \in {feed, feed \cup {stamped[w]}}
      /\ stamped' = [stamped EXCEPT ![w] = NoStamp]
      /\ UNCHANGED <<audited, overlap, clock, left, pc, offset, page, listed, total, got, twice, replays>>
  BY DEF Store, setting, reading
<1>2. /\ stamped \in [Writers -> Stamps] /\ stamped[w] \in Stamps /\ NoStamp \in Stamps
      /\ feed \subseteq Stamps /\ clock \in Nat
  BY BoundsAssumption DEF Inv, TypeOK, Stamps, NoStamp
<1>3. feed \subseteq feed' /\ feed' \subseteq Stamps BY <1>1, <1>2
<1>4. TypeOK' BY <1>1, <1>2, <1>3 DEF Inv, TypeOK
<1>5. PageOfList' BY <1>1 DEF Inv, PageOfList, Slice, Rank
<1>6. ~overlap => InOrder'
  <2>1. SUFFICES ASSUME ~overlap PROVE InOrder' OBVIOUS
  <2>2. InOrder /\ w \in Unwritten BY <1>1, <2>1 DEF Inv, Unwritten
  <2>3. Unwritten' = {}
    <3>1. \A u \in Writers : u # w => stamped[u] = NoStamp BY <2>2 DEF InOrder, Unwritten
    <3>. QED BY <1>1, <1>2, <3>1 DEF Unwritten
  <2>4. stamped[w] = clock /\ clock \notin feed /\ feed \subseteq 0..clock BY <2>2 DEF InOrder
  <2>5. \A e \in feed : e < stamped[w]
    <3>1. \A e \in feed : e \in 0..clock /\ e # clock BY <2>4
    <3>. QED BY <1>2, <2>4, <3>1
  <2>6. pc \notin {"list", "count", "answer"} BY <2>2 DEF InOrder
  <2>7. got' = {e \in feed' : Rank(e, feed') < offset'} /\ offset' =< Cardinality(feed')
    <3>1. CASE feed' = feed BY <1>1, <2>2, <3>1 DEF InOrder
    <3>2. CASE feed' = feed \cup {stamped[w]} BY <1>1, <1>2, <2>1, <2>5, <3>2, AppendOrder
    <3>. QED BY <1>1, <3>1, <3>2
  <2>8. feed' \subseteq 0..clock' BY <1>1, <1>2, <2>4
  <2>. QED BY <1>1, <2>2, <2>3, <2>6, <2>7, <2>8 DEF InOrder
<1>. QED BY <1>1, <1>4, <1>5, <1>6 DEF Inv

----------------------------------------------------------------------------
(* The reader. *)

\* A request for a page; a read of access events stores its own event first.
LEMMA AskInv ==
    ASSUME Inv, Ask
    PROVE  Inv'
<1>1. /\ pc = "idle" /\ pc' = "list" /\ (overlap \/ Unwritten = {})
      /\ UNCHANGED <<audited, overlap, stamped, left, offset, page, listed, total, got, twice, replays>>
  BY DEF Ask, setting
<1>2. CASE UNCHANGED <<clock, feed>>
  <2>1. TypeOK' BY <1>1, <1>2 DEF Inv, TypeOK
  <2>2. PageOfList' BY <1>1 DEF PageOfList
  <2>3. ~overlap => InOrder'
    BY <1>1, <1>2 DEF Inv, InOrder, Unwritten
  <2>. QED BY <1>1, <1>2, <2>1, <2>2, <2>3 DEF Inv
<1>3. CASE /\ clock < MaxEvents + MaxReads - left /\ clock' = clock + 1
           /\ feed' = feed \cup {clock'}
  <2>1. /\ clock \in Nat /\ left \in Nat /\ feed \subseteq Stamps
    BY BoundsAssumption DEF Inv, TypeOK, Stamps, MaxRelationships
  <2>2. clock' \in Stamps /\ clock' + left =< MaxEvents + MaxReads
    BY <1>3, <2>1, BoundsAssumption DEF Stamps
  <2>3. TypeOK' BY <1>1, <1>3, <2>1, <2>2 DEF Inv, TypeOK
  <2>4. PageOfList' BY <1>1 DEF PageOfList
  <2>5. ~overlap => InOrder'
    <3>1. SUFFICES ASSUME ~overlap PROVE InOrder' OBVIOUS
    <3>2. InOrder /\ Unwritten = {} /\ Unwritten' = {} BY <1>1, <3>1 DEF Inv, Unwritten
    <3>3. feed \subseteq 0..clock BY <3>2 DEF InOrder
    <3>4. (\A e \in feed : e < clock') /\ feed' \subseteq 0..clock'
      <4>1. \A e \in feed : e \in 0..clock BY <3>3
      <4>. QED BY <1>3, <2>1, <4>1
    <3>5. got' = {e \in feed' : Rank(e, feed') < offset'} /\ offset' =< Cardinality(feed')
      BY <1>1, <1>3, <2>2, <3>1, <3>4, AppendOrder
    <3>. QED BY <1>1, <3>2, <3>4, <3>5 DEF InOrder
  <2>. QED BY <1>1, <2>2, <2>3, <2>4, <2>5 DEF Inv
<1>. QED BY <1>2, <1>3 DEF Ask

\* A page is a segment of the list as it is now.
LEMMA ListInv ==
    ASSUME Inv, List
    PROVE  Inv'
<1>1. /\ pc = "list" /\ page' = Slice(feed, offset) /\ listed' = feed /\ pc' = "count"
      /\ UNCHANGED <<audited, overlap, clock, feed, stamped, left, offset, total, got, twice, replays>>
  BY DEF List, setting, writing
<1>2. feed \subseteq Nat /\ IsFiniteSet(feed) /\ offset \in Nat BY StampsFinite DEF Inv, TypeOK
<1>3. page' \subseteq feed /\ Cardinality(page') =< Limit BY <1>1, <1>2, SliceSize
<1>4. TypeOK' BY <1>1, <1>3 DEF Inv, TypeOK
<1>5. PageOfList' BY <1>1 DEF PageOfList
<1>6. ~overlap => InOrder' BY <1>1 DEF Inv, InOrder, Unwritten
<1>. QED BY <1>1, <1>4, <1>5, <1>6 DEF Inv

\* The total is counted after the page was read, hence at least what was listed.
LEMMA CountInv ==
    ASSUME Inv, Count
    PROVE  Inv'
<1>1. /\ pc = "count" /\ total' = Cardinality(IF audited THEN feed ELSE listed) /\ pc' = "answer"
      /\ UNCHANGED <<audited, overlap, clock, feed, stamped, left, offset, page, listed, got, twice, replays>>
  BY DEF Count, setting, writing
<1>2. IsFiniteSet(feed) /\ Cardinality(feed) \in Nat /\ listed \in SUBSET feed
  BY StampsFinite DEF Inv, TypeOK
<1>3. Cardinality(listed) =< Cardinality(feed) /\ Cardinality(listed) \in Nat
  BY <1>2, FS_Subset, FS_CardinalityType
<1>4. total' \in Nat /\ Cardinality(listed) =< total' BY <1>1, <1>2, <1>3
<1>5. TypeOK' BY <1>1, <1>4 DEF Inv, TypeOK
<1>6. PageOfList' BY <1>1, <1>4 DEF Inv, PageOfList, Slice, Rank
<1>7. ~overlap => InOrder' BY <1>1 DEF Inv, InOrder, Unwritten
<1>. QED BY <1>1, <1>5, <1>6, <1>7 DEF Inv

\* A page without next_offset holds everything from its offset on.
LEMMA LastPage ==
    ASSUME Inv
    PROVE  EndIsTheEnd
<1>1. SUFFICES ASSUME pc = "answer", ~MorePages, NEW e \in listed, Rank(e, listed) >= offset
               PROVE  e \in page
  BY DEF EndIsTheEnd, Ending
<1>2. listed \subseteq Stamps /\ offset \in Nat /\ total \in Nat BY DEF Inv, TypeOK
<1>3. listed \subseteq Nat /\ IsFiniteSet(listed) /\ Cardinality(listed) \in Nat BY <1>2, StampsFinite
<1>4. Rank(e, listed) \in Nat /\ Rank(e, listed) < Cardinality(listed) BY <1>3, RankBound
<1>5. page = Slice(listed, offset) /\ Cardinality(listed) =< total BY <1>1 DEF Inv, PageOfList
<1>6. total =< offset + Limit BY <1>1, <1>2, BoundsAssumption DEF MorePages, NextOffset
<1>7. Rank(e, listed) \in offset..(offset + Limit - 1)
  BY <1>1, <1>2, <1>3, <1>4, <1>5, <1>6, BoundsAssumption
<1>. QED BY <1>5, <1>7 DEF Slice

\* Where requests do not overlap, the page goes on where the reader is.
LEMMA PageInOrder ==
    ASSUME Inv, ~overlap, pc = "answer"
    PROVE  /\ got \cap page = {}
           /\ MorePages => /\ got \cup page = {e \in feed : Rank(e, feed) < NextOffset}
                           /\ NextOffset =< Cardinality(feed)
           /\ ~MorePages => got \cup page = feed /\ offset + Cardinality(page) = Cardinality(feed)
<1>1. /\ listed = feed /\ total = Cardinality(feed) /\ offset =< Cardinality(feed)
      /\ got = {e \in feed : Rank(e, feed) < offset} /\ page = Slice(feed, offset)
  BY DEF Inv, InOrder, PageOfList
<1>2. /\ feed \subseteq Nat /\ IsFiniteSet(feed) /\ Cardinality(feed) \in Nat /\ offset \in Nat
  BY StampsFinite DEF Inv, TypeOK
<1>3. \A e \in feed : Rank(e, feed) \in Nat /\ Rank(e, feed) < Cardinality(feed) BY <1>2, RankBound
<1>4. \A e \in feed : e \in page <=> offset =< Rank(e, feed) /\ Rank(e, feed) < offset + Limit
  <2>1. \A e \in feed : Rank(e, feed) \in offset..(offset + Limit - 1) <=>
                        offset =< Rank(e, feed) /\ Rank(e, feed) < offset + Limit
    BY <1>2, <1>3, BoundsAssumption
  <2>. QED BY <1>1, <2>1 DEF Slice
<1>5. page \subseteq feed BY <1>1 DEF Slice
<1>6. got \cap page = {}
  <2>1. \A e \in feed : ~(Rank(e, feed) < offset /\ offset =< Rank(e, feed)) BY <1>2, <1>3
  <2>. QED BY <1>1, <1>4, <2>1
<1>7. MorePages => /\ got \cup page = {e \in feed : Rank(e, feed) < NextOffset}
                   /\ NextOffset =< Cardinality(feed)
  <2>1. \A e \in feed : (e \in got \/ e \in page) <=> Rank(e, feed) < offset + Limit
    BY <1>1, <1>2, <1>3, <1>4, BoundsAssumption
  <2>2. got \cup page = {e \in feed : Rank(e, feed) < offset + Limit} BY <1>1, <1>5, <2>1
  <2>3. MorePages => offset + Limit =< Cardinality(feed)
    BY <1>1, <1>2, BoundsAssumption DEF MorePages, NextOffset
  <2>. QED BY <2>2, <2>3 DEF NextOffset
<1>8. ~MorePages => got \cup page = feed /\ offset + Cardinality(page) = Cardinality(feed)
  <2>1. SUFFICES ASSUME ~MorePages
                 PROVE  got \cup page = feed /\ offset + Cardinality(page) = Cardinality(feed)
    OBVIOUS
  <2>2. Cardinality(feed) =< offset + Limit
    BY <1>1, <1>2, <2>1, BoundsAssumption DEF MorePages, NextOffset
  <2>3. \A e \in feed : e \in got \/ e \in page BY <1>1, <1>2, <1>3, <1>4, <2>2, BoundsAssumption
  <2>4. got \cup page = feed BY <1>1, <1>5, <2>3
  <2>5. IsFiniteSet(got) /\ Cardinality(got) = offset BY <1>1, <1>2, SegmentSize
  <2>6. IsFiniteSet(page) /\ Cardinality(page) \in Nat BY <1>1, <1>2, SliceSize
  <2>7. Cardinality(got \cup page) = Cardinality(got) + Cardinality(page) - Cardinality(got \cap page)
    BY <2>5, <2>6, FS_Union
  <2>8. Cardinality(got \cap page) = 0 BY <1>6, FS_EmptySet
  <2>. QED BY <1>2, <2>4, <2>5, <2>6, <2>7, <2>8
<1>. QED BY <1>6, <1>7, <1>8

\* The reader takes over the page; without next_offset it has everything.
LEMMA AnswerInv ==
    ASSUME Inv, Answer
    PROVE  Inv'
<1>1. /\ pc = "answer" /\ got' = got \cup page /\ twice' = twice \cup (got \cap page)
      /\ UNCHANGED <<audited, overlap, clock, feed, stamped, left, page, listed, total>>
      /\ \/ MorePages /\ offset' = NextOffset /\ pc' = "idle" /\ replays' = replays
         \/ /\ ~MorePages /\ offset' = offset + Cardinality(page) /\ replays' = replays + 1
            /\ pc' = IF replays' = MaxReplays THEN "done" ELSE "idle"
  BY DEF Answer, setting, writing
<1>2. /\ page \subseteq Stamps /\ offset \in Nat /\ replays \in Nat /\ replays < MaxReplays
  BY <1>1 DEF Inv, TypeOK
<1>3. Cardinality(page) \in Nat BY <1>2, StampsFinite
<1>4. offset' \in Nat BY <1>1, <1>2, <1>3, BoundsAssumption DEF NextOffset
<1>5. replays' \in 0..MaxReplays /\ (pc' # "done" => replays' < MaxReplays)
  BY <1>1, <1>2, BoundsAssumption
<1>6. pc' \in {"idle", "done"} BY <1>1
<1>7. TypeOK' BY <1>1, <1>4, <1>5, <1>6 DEF Inv, TypeOK
<1>8. PageOfList' BY <1>6 DEF PageOfList
<1>9. ~overlap => InOrder'
  <2>1. SUFFICES ASSUME ~overlap PROVE InOrder' OBVIOUS
  <2>2. InOrder /\ Unwritten' = Unwritten BY <1>1, <2>1 DEF Inv, Unwritten
  <2>3. twice' = {} BY <1>1, <2>1, <2>2, PageInOrder DEF InOrder
  <2>4. CASE MorePages
    <3>1. /\ got' = {e \in feed : Rank(e, feed) < offset'} /\ offset' =< Cardinality(feed)
      BY <1>1, <2>1, <2>4, PageInOrder
    <3>. QED BY <1>1, <1>6, <2>2, <2>3, <3>1 DEF InOrder
  <2>5. CASE ~MorePages
    <3>1. got' = feed /\ offset' = Cardinality(feed) BY <1>1, <2>1, <2>5, PageInOrder
    <3>2. /\ feed \subseteq Nat /\ IsFiniteSet(feed) /\ Cardinality(feed) \in Nat
      BY StampsFinite DEF Inv, TypeOK
    <3>3. \A e \in feed : Rank(e, feed) < offset' BY <3>1, <3>2, RankBound
    <3>4. got' = {e \in feed : Rank(e, feed) < offset'} BY <3>1, <3>3
    <3>. QED BY <1>1, <1>6, <2>2, <2>3, <3>1, <3>2, <3>4 DEF InOrder
  <2>. QED BY <2>4, <2>5
<1>. QED BY <1>1, <1>5, <1>7, <1>8, <1>9 DEF Inv

----------------------------------------------------------------------------
(* The theorems. *)

\* Every step keeps the invariant.
LEMMA InvNext == Inv /\ [Next]_vars => Inv'
<1>. SUFFICES ASSUME Inv, [Next]_vars PROVE Inv' OBVIOUS
<1>1. CASE Read BY <1>1, AskInv, ListInv, CountInv, AnswerInv DEF Read
<1>2. ASSUME NEW w \in Writers, Stamp(w) \/ Store(w) PROVE Inv' BY <1>2, StampInv, StoreInv
<1>3. CASE UNCHANGED vars
  <2>1. TypeOK' BY <1>3 DEF Inv, TypeOK, vars, setting, writing, reading
  <2>2. PageOfList' BY <1>3 DEF Inv, PageOfList, Slice, Rank, vars, setting, writing, reading
  <2>3. InOrder <=> InOrder' BY <1>3 DEF InOrder, Unwritten, Rank, vars, setting, writing, reading
  <2>. QED BY <1>3, <2>1, <2>2, <2>3 DEF Inv, vars, setting, writing, reading
<1>. QED BY <1>1, <1>2, <1>3 DEF Next

\* The invariant holds in every reachable state.
THEOREM InvAlways == Spec => []Inv
BY InvInit, InvNext, PTL DEF Spec

\* Stamps, positions, pages and replays stay within their bounds; a page never holds
\* more than Limit events.
THEOREM TypeCorrect == Spec => []TypeOK
<1>1. Inv => TypeOK BY DEF Inv
<1>. QED BY <1>1, InvAlways, PTL

\* A page without next_offset is the last one, however many events are stored between
\* the statement that lists it and the one that counts (api_models.py, service.py).
THEOREM EndIsTheEndAlways == Spec => []EndIsTheEnd
<1>. QED BY LastPage, InvAlways, PTL

\* Where one process serves all requests, following next_offset and resuming at the end
\* yields every event, and none twice.
THEOREM ReplayCompleteAlways == Spec => []ReplayComplete
<1>1. ASSUME Inv PROVE ReplayComplete
  <2>1. ~overlap => twice = {} BY <1>1 DEF Inv, InOrder
  <2>2. ~overlap /\ Ending => listed \subseteq got \cup page
    <3>1. ~overlap /\ Ending => listed = feed BY <1>1 DEF Inv, InOrder, Ending
    <3>. QED BY <1>1, <3>1, PageInOrder DEF Ending
  <2>. QED BY <2>1, <2>2 DEF ReplayComplete
<1>. QED BY <1>1, InvAlways, PTL
================================================================================
