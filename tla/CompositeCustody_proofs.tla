----------------------- MODULE CompositeCustody_proofs -----------------------
(***************************************************************************)
(* Proofs about CompositeCustody for any bodies, months of any one length  *)
(* and any number of offers, migrations and replays of migrations.         *)
(***************************************************************************)
EXTENDS CompositeCustody, FiniteSetTheorems, SequenceTheorems, WellFoundedInduction, TLAPS

----------------------------------------------------------------------------
(* Parsing and dumping. *)

\* The envelope of a document does not depend on how its identity is written.
Envelope == DocumentFields \ {"composite_report_identity"}

\* Writing another identity into a document changes nothing else.
LEMMA WithIdentityFields ==
    ASSUME NEW d, IsObject(d, DocumentFields), NEW i
    PROVE  /\ IsObject(WithIdentity(d, i), DocumentFields)
           /\ WithIdentity(d, i).composite_report_identity = i
           /\ \A f \in Envelope : WithIdentity(d, i)[f] = d[f]
           /\ \A j : WithIdentity(WithIdentity(d, i), j) = WithIdentity(d, j)
           /\ WithIdentity(d, d.composite_report_identity) = d
BY DEF IsObject, DocumentFields, WithIdentity, Envelope

\* The identity of a source context, and its product list written anew.
ContextFields == {"contract_version", "selection", "source_products", "source_context", "definition"}
WithProducts(i, ps) == [i EXCEPT !.source_products = ps]

\* Writing another product list into an identity changes nothing else.
LEMMA WithProductsFields ==
    ASSUME NEW i, IsObject(i, ContextFields), NEW ps
    PROVE  /\ IsObject(WithProducts(i, ps), ContextFields)
           /\ WithProducts(i, ps).source_products = ps
           /\ \A f \in ContextFields \ {"source_products"} : WithProducts(i, ps)[f] = i[f]
           /\ \A qs : WithProducts(WithProducts(i, ps), qs) = WithProducts(i, qs)
           /\ WithProducts(i, i.source_products) = i
BY DEF IsObject, ContextFields, WithProducts

\* What two spellings of a body have in common.
Alike(d, e) ==
    /\ IsObject(e, DocumentFields)
    /\ \A f \in Envelope : e[f] = d[f]
    /\ e = d \/ /\ IsSourceContext(d) /\ IsSourceContext(e)
                /\ IsObject(e.composite_report_identity, ContextFields)
                /\ \A f \in ContextFields \ {"source_products"} :
                     e.composite_report_identity[f] = d.composite_report_identity[f]

\* All spellings of a body parse to one model and dump to one JSON.
LEMMA OneDocument ==
    ASSUME NEW d \in Requests, NEW e \in Spellings(d)
    PROVE  Parse(e) = Parse(d) /\ Dump(e) = Dump(d) /\ Alike(d, e) /\ e # Null
<1>. DEFINE i == d.composite_report_identity
            With(ps) == WithIdentity(d, WithProducts(i, ps))
<1>1. /\ IsObject(d, DocumentFields)
      /\ \A s \in Spellings(d) : s # Null /\ (s.composite_report_identity = Null => i = Null)
  BY RequestsAssumption
<1>2. CASE ~IsSourceContext(d) \/ i.source_products \notin {Absent, <<>>}
  <2>1. Parse(d) = d /\ Dump(d) = d BY <1>2 DEF Parse, Dump
  <2>. QED BY <1>1, <2>1 DEF Spellings, Alike
<1>3. CASE IsSourceContext(d) /\ i.source_products \in {Absent, <<>>}
  <2>1. IsObject(i, ContextFields) /\ i # Null /\ i.contract_version = 8
    BY <1>3, RequestsAssumption DEF IsSourceContext, IsIdentity, ContextFields
  <2>2. Parse(d) = IF i.source_products = Absent THEN With(<<>>) ELSE d BY <1>3 DEF Parse, WithProducts
  <2>3. Dump(d) = IF i.source_products = <<>> THEN With(Absent) ELSE d BY <1>3 DEF Dump, WithProducts
  <2>4. WithProducts(i, i.source_products) = i BY <2>1, WithProductsFields
  <2>5. With(i.source_products) = d BY <1>1, <2>4, WithIdentityFields
  <2>6. Spellings(d) = {With(Absent), With(<<>>)} /\ Parse(d) = With(<<>>) /\ Dump(d) = With(Absent)
    BY <1>3, <2>2, <2>3, <2>5, AbsentAssumption DEF Spellings
  <2>7. ASSUME NEW ps \in {Absent, <<>>}
        PROVE  /\ Parse(With(ps)) = With(<<>>) /\ Dump(With(ps)) = With(Absent)
               /\ Alike(d, With(ps)) /\ With(ps) # Null
    <3>. DEFINE j == WithProducts(i, ps)
    <3>1. /\ With(ps).composite_report_identity = j /\ IsObject(With(ps), DocumentFields)
          /\ \A f \in Envelope : With(ps)[f] = d[f]
          /\ \A k : WithIdentity(With(ps), k) = WithIdentity(d, k)
      BY <1>1, WithIdentityFields
    <3>2. /\ j.source_products = ps /\ IsObject(j, ContextFields)
          /\ \A f \in ContextFields \ {"source_products"} : j[f] = i[f]
          /\ \A qs : WithProducts(j, qs) = WithProducts(i, qs)
      BY <2>1, WithProductsFields
    <3>3. j.contract_version = 8 BY <2>1, <3>2 DEF ContextFields
    <3>4. With(ps) \in Spellings(d) BY <2>6
    <3>5. j # Null /\ With(ps) # Null BY <1>1, <2>1, <3>1, <3>4
    <3>6. IsSourceContext(With(ps)) BY <3>1, <3>3, <3>5 DEF IsSourceContext
    <3>7. Parse(With(ps)) = IF ps = Absent THEN With(<<>>) ELSE With(ps)
      BY <3>1, <3>2, <3>6 DEF Parse, WithProducts
    <3>8. Dump(With(ps)) = IF ps = <<>> THEN With(Absent) ELSE With(ps)
      BY <3>1, <3>2, <3>6 DEF Dump, WithProducts
    <3>9. Alike(d, With(ps)) BY <1>3, <3>1, <3>2, <3>6 DEF Alike
    <3>. HIDE DEF With
    <3>. QED BY <3>5, <3>7, <3>8, <3>9, AbsentAssumption
  <2>. HIDE DEF With
  <2>. QED BY <2>6, <2>7
<1>. QED BY <1>2, <1>3

----------------------------------------------------------------------------
(* Custody. *)

\* Half a document to come: a row whose bytes are gone, or are about to be deleted by
\* a handler that does not know of it.
Halved == row # Null /\ (~object \/ pc = "compensate")

\* A row is the stored form of the one request there is, which was validated before
\* its bytes were put; bytes are there only while a row, or the worker that is to
\* insert one or to delete them, refers to them; every half document has a fault of
\* its own.
Inv ==
    /\ \E d \in Requests : request \in Spellings(d)
    /\ level \in 0 .. 8 /\ strays \in Nat /\ faults \in Nat
    /\ pc \in {"idle", "lookup", "put", "save", "compensate"}
    /\ pc # "idle" => ArchiveDocumentInput(Parse(request))
    /\ pc \in {"put", "save"} => row = Null
    /\ row # Null => /\ row = Dump(request) /\ ArchiveDocumentInput(Parse(request))
                     /\ scope_check(level, row)
    /\ pc \in {"save", "compensate"} => object
    /\ object => row # Null \/ pc \in {"save", "compensate"}
    /\ strays <= faults
    /\ Halved => strays < faults
    /\ ReplayConverges

\* How a request is written does not matter, and what is stored reads back.
LEMMA Spelt ==
    ASSUME NEW d \in Requests, NEW e \in Spellings(d)
    PROVE  /\ Parse(e) \in Spellings(d) /\ Dump(e) \in Spellings(d)
           /\ Parse(Parse(e)) = Parse(e) /\ Parse(Dump(e)) = Parse(e)
           /\ Dump(Parse(e)) = Dump(e) /\ Dump(Dump(e)) = Dump(e)
           /\ Dump(e) # Null
<1>1. Parse(d) \in Spellings(d) /\ Dump(d) \in Spellings(d) BY DEF Spellings
<1>. QED BY <1>1, OneDocument

\* Nothing is stored at first.
LEMMA InvInit == Init => Inv
<1>. SUFFICES ASSUME Init PROVE Inv OBVIOUS
<1>1. ~Halved BY DEF Init, Halved
<1>. QED BY <1>1 DEF Init, Inv, Spellings, ReplayConverges

\* Every step keeps the invariant.
LEMMA InvNext == Inv /\ [Next]_vars => Inv'
<1>. SUFFICES ASSUME Inv, [Next]_vars PROVE Inv' OBVIOUS
<1>. PICK d \in Requests : request \in Spellings(d) BY DEF Inv
<1>0. /\ Parse(request) \in Spellings(d) /\ Dump(request) \in Spellings(d)
      /\ Parse(Parse(request)) = Parse(request) /\ Parse(Dump(request)) = Parse(request)
      /\ Dump(Parse(request)) = Dump(request) /\ Dump(Dump(request)) = Dump(request)
      /\ Dump(request) # Null
  BY Spelt
<1>1. CASE Offer BY <1>1 DEF Offer, Inv, Halved, ReplayConverges
<1>2. CASE Lookup
  <2>1. row # Null => Parse(row) = Parse(request) /\ Dump(Parse(row)) = Dump(Parse(request))
    BY <1>0 DEF Inv
  <2>2. row # Null => answer' = "archived" BY <1>2, <2>1 DEF Lookup, Inv
  <2>. QED BY <1>2, <2>2 DEF Lookup, Inv, Halved, ReplayConverges
<1>3. CASE Put BY <1>3 DEF Put, Inv, Halved, ReplayConverges
<1>s. Stored(Metadata) = Dump(request) BY <1>0 DEF Stored, Metadata
<1>4. CASE Save
  <2>1. CASE Insertable
    <3>1. row' = Dump(request) /\ answer' = "archived" /\ pc' = "idle" /\ scope_check(level, Dump(request))
      BY <1>4, <1>s, <2>1 DEF Save, Insertable
    <3>. QED BY <1>0, <1>4, <3>1 DEF Save, Inv, Halved, ReplayConverges
  <2>2. CASE ~Insertable BY <1>4, <2>2 DEF Save, Inv, Halved, ReplayConverges
  <2>. QED BY <2>1, <2>2
<1>f. CASE SaveFails
  <2>1. row' = row \/ (row' = Dump(request) /\ scope_check(level, Dump(request)))
    BY <1>f, <1>s DEF SaveFails, Insertable
  <2>. QED BY <1>0, <1>f, <2>1 DEF SaveFails, Inv, Halved, ReplayConverges
<1>c. CASE Compensate BY <1>c DEF Compensate, Inv, Halved, ReplayConverges
<1>x. CASE CutShort
  <2>1. CASE row = Null
    <3>1. strays' \in Nat /\ faults' \in Nat /\ strays' <= faults' BY <1>x, <2>1 DEF CutShort, Inv
    <3>. QED BY <1>x, <2>1, <3>1 DEF CutShort, Inv, Halved, ReplayConverges
  <2>2. CASE row # Null BY <1>x, <2>2 DEF CutShort, Inv, Halved, ReplayConverges
  <2>. QED BY <2>1, <2>2
<1>5. CASE Resend
  <2>1. /\ request' \in Spellings(d) /\ Parse(request') = Parse(request) /\ Dump(request') = Dump(request)
    BY <1>0, <1>5 DEF Resend
  <2>. QED BY <1>5, <2>1 DEF Resend, Inv, Halved, ReplayConverges
<1>6. ASSUME NEW k \in Versions, Migrate(k) PROVE Inv'
  <2>1. row # Null => scope_check(k, row) BY <1>6 DEF Migrate, RetainedRowsPass
  <2>2. level' \in 0 .. 8 BY <1>6 DEF Migrate, Versions
  <2>. QED BY <1>6, <2>1, <2>2 DEF Migrate, Inv, Halved, ReplayConverges
<1>7. CASE UNCHANGED vars BY <1>7 DEF vars, Inv, Halved, ReplayConverges
<1>. QED BY <1>1, <1>2, <1>3, <1>4, <1>f, <1>c, <1>x, <1>5, <1>6, <1>7 DEF Next

\* The invariant holds of every behaviour.
THEOREM InvAlways == Spec => []Inv
<1>. QED BY InvInit, InvNext, PTL DEF Spec

\* A retry is answered with the document it made, never with a conflict, however its
\* fields are written and whatever migrations ran in between.
THEOREM ReplayConvergesAlways == Spec => []ReplayConverges
<1>1. Inv => ReplayConverges BY DEF Inv
<1>. QED BY <1>1, InvAlways, PTL

\* Every row is guarded by the CHECK in force, and half documents are no more than the
\* steps of store, database and worker that failed, for every number of those.
THEOREM CustodyIsWholeAlways == Spec => []CustodyIsWhole
<1>1. Inv => CustodyIsWhole BY DEF Inv, Halved, CustodyIsWhole
<1>. QED BY <1>1, InvAlways, PTL

----------------------------------------------------------------------------
(* Windows and months. *)

\* A set of numbers has a least one: induction, as a least counterexample.
LEMMA LeastNumber ==
    ASSUME NEW T, T \subseteq Nat, T # {}
    PROVE  \E x \in T : \A y \in T : x <= y
<1>. DEFINE R == OpToRel(<, Nat)
<1>1. \A x, y \in Nat : x < y => <<x, y>> \in R BY DEF OpToRel
<1>2. IsWellFoundedOn(R, Nat) BY NatLessThanWellFounded, Zenon
<1>. HIDE DEF R
<1>3. PICK x \in T : \A y \in T : ~(<<y, x>> \in R) BY <1>2, WFMin
<1>4. \A y \in T : ~(y < x) BY <1>1, <1>3
<1>5. \A y \in T : x \in Nat /\ y \in Nat OBVIOUS
<1>. QED BY <1>4, <1>5

\* The positions of a list.
LEMMA ListFacts ==
    ASSUME NEW s, IsList(s)
    PROVE  /\ Len(s) \in Nat /\ DOMAIN s = 1 .. Len(s)
           /\ s # <<>> => Len(s) >= 1 /\ 1 \in DOMAIN s /\ Len(s) \in DOMAIN s
<1>1. Len(s) \in Nat /\ DOMAIN s = 1 .. Len(s) BY LenProperties DEF IsList
<1>2. s # <<>> => Len(s) # 0 BY EmptySeq DEF IsList
<1>. QED BY <1>1, <1>2

\* What increases from each position to the next increases over all of them.
LEMMA Increasing ==
    ASSUME NEW n \in Nat, NEW lo, NEW hi,
           \A k \in 1 .. n : lo[k] \in Int /\ hi[k] \in Int /\ lo[k] <= hi[k],
           \A k \in 1 .. n - 1 : hi[k] < lo[k + 1]
    PROVE  \A j, k \in 1 .. n : j < k => hi[j] < lo[k]
<1>. SUFFICES ASSUME NEW j \in 1 .. n, NEW m \in 1 .. n, j < m, ~(hi[j] < lo[m]) PROVE FALSE
  OBVIOUS
<1>. DEFINE T == {k \in 1 .. n : j < k /\ ~(hi[j] < lo[k])}
<1>1. T \subseteq Nat /\ T # {} OBVIOUS
<1>2. PICK k \in T : \A x \in T : k <= x BY <1>1, LeastNumber
<1>3. k \in 1 .. n /\ j < k /\ ~(hi[j] < lo[k]) OBVIOUS
<1>4. k - 1 \in 1 .. n - 1 /\ k - 1 \in 1 .. n /\ (k - 1) + 1 = k BY <1>3
<1>5. hi[k - 1] < lo[k] BY <1>4
<1>6. CASE k - 1 = j BY <1>3, <1>5, <1>6
<1>7. CASE j < k - 1
  <2>1. k - 1 \notin T BY <1>2, <1>3
  <2>2. hi[j] < lo[k - 1] BY <1>4, <1>7, <2>1
  <2>3. lo[k - 1] <= hi[k - 1] BY <1>4
  <2>4. hi[j] \in Int /\ lo[k - 1] \in Int /\ hi[k - 1] \in Int /\ lo[k] \in Int BY <1>3, <1>4
  <2>. QED BY <1>3, <1>5, <2>2, <2>3, <2>4
<1>. QED BY <1>3, <1>4, <1>6, <1>7

\* The days of a vector of neighbouring windows: each day from its first to its last
\* is in one window, and no window reaches outside.
LEMMA VectorCovers ==
    ASSUME NEW ws, IsVector(ws), ws # <<>>, All(ordered_window, ws), Contiguous(ws)
    PROVE  /\ \A j, k \in DOMAIN ws : j < k => ws[j].end < ws[k].start
           /\ \A day \in ws[1].start .. ws[Len(ws)].end :
                \E n \in DOMAIN ws : day \in ws[n].start .. ws[n].end
           /\ \A n \in DOMAIN ws : ws[1].start <= ws[n].start /\ ws[n].end <= ws[Len(ws)].end
<1>. DEFINE N == Len(ws)
            lo == [k \in 1 .. N |-> ws[k].start]
            hi == [k \in 1 .. N |-> ws[k].end]
<1>1. /\ N \in Nat /\ DOMAIN ws = 1 .. N /\ N >= 1 /\ 1 \in 1 .. N /\ N \in 1 .. N
  BY ListFacts DEF IsVector
<1>2. \A k \in 1 .. N : lo[k] \in Int /\ hi[k] \in Int /\ lo[k] <= hi[k]
  BY <1>1 DEF IsVector, All, ordered_window
<1>3. \A k \in 1 .. N - 1 : k \in 1 .. N /\ k + 1 \in 1 .. N /\ lo[k + 1] = hi[k] + 1
  BY <1>1 DEF Contiguous
<1>. HIDE DEF N
<1>4. \A k \in 1 .. N - 1 : hi[k] < lo[k + 1]
  <2>. HIDE DEF lo, hi
  <2>. QED BY <1>2, <1>3
<1>5. \A j, k \in 1 .. N : j < k => hi[j] < lo[k]
  <2>. HIDE DEF lo, hi
  <2>. QED BY <1>1, <1>2, <1>4, Increasing
<1>6. ASSUME NEW day \in lo[1] .. hi[N] PROVE \E n \in 1 .. N : day \in lo[n] .. hi[n]
  <2>. HIDE DEF lo, hi
  <2>. DEFINE T == {n \in 1 .. N : day <= hi[n]}
  <2>1. N \in T /\ T \subseteq Nat BY <1>1, <1>2
  <2>2. PICK n \in T : \A x \in T : n <= x BY <2>1, LeastNumber
  <2>3. n \in 1 .. N /\ day <= hi[n] /\ lo[n] \in Int /\ hi[n] \in Int BY <1>2
  <2>4. CASE n = 1 BY <1>1, <1>2, <2>3, <2>4
  <2>5. CASE n # 1
    <3>1. n - 1 \in 1 .. N - 1 /\ n - 1 \in 1 .. N /\ (n - 1) + 1 = n /\ n - 1 \notin T
      BY <1>1, <2>2, <2>3, <2>5
    <3>2. hi[n - 1] < day BY <1>1, <1>2, <3>1
    <3>3. lo[n] = hi[n - 1] + 1 BY <1>3, <3>1
    <3>4. hi[n - 1] \in Int /\ day \in Int BY <1>1, <1>2, <3>1
    <3>. QED BY <2>3, <3>2, <3>3, <3>4
  <2>. QED BY <2>4, <2>5
<1>7. ASSUME NEW n \in 1 .. N PROVE lo[1] <= lo[n] /\ hi[n] <= hi[N]
  <2>. HIDE DEF lo, hi
  <2>1. n = 1 \/ 1 < n BY <1>1
  <2>2. n = N \/ n < N BY <1>1
  <2>3. lo[1] <= lo[n] BY <1>1, <1>2, <1>5, <2>1
  <2>. QED BY <1>1, <1>2, <1>5, <2>2, <2>3
<1>8. \A k \in 1 .. N : lo[k] = ws[k].start /\ hi[k] = ws[k].end OBVIOUS
<1>. HIDE DEF lo, hi
<1>. QED BY <1>1, <1>5, <1>6, <1>7, <1>8 DEF N

\* The calendar: a month has its days, and no two months share one.
LEMMA Calendar ==
    /\ \A day \in Int : /\ Month(day) \in Int
                        /\ FirstDay(Month(day)) <= day /\ day <= LastDay(Month(day))
    /\ \A m \in Int : FirstDay(m) \in Int /\ LastDay(m) \in Int /\ FirstDay(m) <= LastDay(m)
    /\ \A m, n \in Int : m < n => LastDay(m) < FirstDay(n)
<1>. DEFINE D == DaysPerMonth
<1>1. D \in Nat /\ D >= 1 BY CalendarAssumption
<1>. HIDE DEF D
<1>2. \A m \in Int : m * D \in Int /\ (m - 1) * D = m * D - D BY <1>1
<1>3. \A m, n \in Int : m < n => m * D <= (n - 1) * D
  <2>1. SUFFICES ASSUME NEW m \in Int, NEW n \in Int, m < n PROVE m * D <= (n - 1) * D OBVIOUS
  <2>2. PICK k \in Nat : n - 1 = m + k
    <3>1. n - 1 - m \in Nat /\ n - 1 = m + (n - 1 - m) BY <2>1
    <3>. QED BY <3>1
  <2>3. (m + k) * D = m * D + k * D BY <1>1
  <2>4. k * D >= 0 /\ k * D \in Int /\ m * D \in Int BY <1>1
  <2>. QED BY <2>2, <2>3, <2>4
<1>4. ASSUME NEW a \in Int PROVE a \div D \in Int /\ (a \div D) * D <= a /\ a <= (a \div D) * D + D - 1
  BY <1>1
<1>5. ASSUME NEW day \in Int
      PROVE  /\ Month(day) \in Int
             /\ FirstDay(Month(day)) <= day /\ day <= LastDay(Month(day))
  <2>. DEFINE q == (day - 1) \div D
  <2>1. q \in Int /\ q * D <= day - 1 /\ day - 1 <= q * D + D - 1 BY <1>4
  <2>. HIDE DEF q
  <2>2. (q + 1 - 1) * D = q * D /\ (q + 1) * D = q * D + D /\ q * D \in Int BY <1>1, <2>1
  <2>3. Month(day) = q + 1 BY DEF Month, q, D
  <2>. QED BY <1>1, <2>1, <2>2, <2>3 DEF FirstDay, LastDay, D
<1>. QED BY <1>1, <1>2, <1>3, <1>5 DEF FirstDay, LastDay, D

\* A day between the ends of a month is a day of that month.
LEMMA DayOfMonth ==
    ASSUME NEW m \in Int, NEW day \in Int
    PROVE  day \in FirstDay(m) .. LastDay(m) <=> Month(day) = m
<1>. DEFINE k == Month(day)
<1>1. k \in Int /\ FirstDay(k) <= day /\ day <= LastDay(k) BY Calendar
<1>2. FirstDay(m) \in Int /\ LastDay(m) \in Int /\ FirstDay(k) \in Int /\ LastDay(k) \in Int
  BY <1>1, Calendar
<1>3. k < m => LastDay(k) < FirstDay(m) BY <1>1, Calendar
<1>4. m < k => LastDay(m) < FirstDay(k) BY <1>1, Calendar
<1>. HIDE DEF k
<1>5. k = m \/ k < m \/ m < k BY <1>1
<1>6. k = m => day \in FirstDay(m) .. LastDay(m) BY <1>1, <1>2
<1>7. k < m => ~(FirstDay(m) <= day) BY <1>1, <1>2, <1>3
<1>8. m < k => ~(day <= LastDay(m)) BY <1>1, <1>2, <1>4
<1>9. day \in FirstDay(m) .. LastDay(m) => FirstDay(m) <= day /\ day <= LastDay(m) BY <1>2
<1>. QED BY <1>5, <1>6, <1>7, <1>8, <1>9 DEF k

\* A later day is in no earlier month.
LEMMA MonthMonotone ==
    ASSUME NEW a \in Int, NEW b \in Int, a <= b
    PROVE  Month(a) \in Int /\ Month(b) \in Int /\ Month(a) <= Month(b)
<1>. DEFINE m == Month(a)
            n == Month(b)
<1>1. m \in Int /\ n \in Int /\ FirstDay(m) <= a /\ b <= LastDay(n) BY Calendar
<1>2. n < m => LastDay(n) < FirstDay(m) BY <1>1, Calendar
<1>3. FirstDay(m) \in Int /\ LastDay(n) \in Int BY <1>1, Calendar
<1>. HIDE DEF m, n
<1>4. ~(n < m) BY <1>1, <1>2, <1>3
<1>. QED BY <1>1, <1>4 DEF m, n

\* The days of a run of whole months.
LEMMA WholeMonths ==
    ASSUME NEW a \in Int, NEW b \in Int, a <= b, a = FirstDay(Month(a)), b = LastDay(Month(b))
    PROVE  /\ a .. b = UNION {FirstDay(m) .. LastDay(m) : m \in Month(a) .. Month(b)}
           /\ {Month(day) : day \in a .. b} = Month(a) .. Month(b)
<1>. DEFINE p == Month(a)
            q == Month(b)
<1>1. p \in Int /\ q \in Int BY MonthMonotone
<1>2. ASSUME NEW day \in a .. b PROVE Month(day) \in p .. q /\ day \in FirstDay(Month(day)) .. LastDay(Month(day))
  <2>1. day \in Int /\ a <= day /\ day <= b OBVIOUS
  <2>2. Month(day) \in Int /\ p <= Month(day) /\ Month(day) <= q BY <2>1, MonthMonotone
  <2>3. day \in FirstDay(Month(day)) .. LastDay(Month(day)) BY <2>1, <2>2, DayOfMonth
  <2>. HIDE DEF p, q
  <2>. QED BY <1>1, <2>2, <2>3
<1>3. ASSUME NEW m \in p .. q, NEW day \in FirstDay(m) .. LastDay(m) PROVE day \in a .. b
  <2>0. m \in Int /\ p <= m /\ m <= q
    <3>. HIDE DEF p, q
    <3>. QED BY <1>1
  <2>1. FirstDay(m) \in Int /\ LastDay(m) \in Int /\ FirstDay(m) <= day /\ day <= LastDay(m) /\ day \in Int
    BY <2>0, Calendar
  <2>2. a <= FirstDay(m)
    <3>1. CASE m = p BY <3>1, <2>1
    <3>2. CASE p < m
      <4>1. LastDay(p) < FirstDay(m) /\ FirstDay(p) <= LastDay(p) /\ LastDay(p) \in Int
        BY <1>1, <2>0, <3>2, Calendar
      <4>. HIDE DEF p
      <4>. QED BY <4>1, <2>1 DEF p
    <3>. HIDE DEF p, q
    <3>. QED BY <1>1, <2>0, <3>1, <3>2
  <2>3. LastDay(m) <= b
    <3>1. CASE m = q BY <3>1, <2>1
    <3>2. CASE m < q
      <4>1. LastDay(m) < FirstDay(q) /\ FirstDay(q) <= LastDay(q) /\ FirstDay(q) \in Int
        BY <1>1, <2>0, <3>2, Calendar
      <4>. HIDE DEF q
      <4>. QED BY <4>1, <2>1 DEF q
    <3>. HIDE DEF p, q
    <3>. QED BY <1>1, <2>0, <3>1, <3>2
  <2>. QED BY <2>1, <2>2, <2>3
<1>4. ASSUME NEW m \in p .. q PROVE FirstDay(m) \in a .. b /\ Month(FirstDay(m)) = m
  <2>1. m \in Int
    <3>. HIDE DEF p, q
    <3>. QED BY <1>1
  <2>2. FirstDay(m) \in Int /\ FirstDay(m) \in FirstDay(m) .. LastDay(m) BY <2>1, Calendar
  <2>. QED BY <1>3, <2>1, <2>2, DayOfMonth
<1>. QED BY <1>2, <1>3, <1>4

----------------------------------------------------------------------------
(* What is retained. *)

\* The product list of a source context, parsed and dumped.
LEMMA ProductLists ==
    ASSUME NEW d \in Requests, IsSourceContext(d)
    PROVE  LET i == d.composite_report_identity
               ps == i.source_products
           IN  /\ IsObject(i, ContextFields)
               /\ Parse(d).composite_report_identity = WithProducts(i, IF ps = Absent THEN <<>> ELSE ps)
               /\ Dump(d).composite_report_identity = WithProducts(i, IF ps = <<>> THEN Absent ELSE ps)
<1>. DEFINE i == d.composite_report_identity
            ps == i.source_products
<1>1. IsObject(d, DocumentFields) /\ IsObject(i, ContextFields)
  BY RequestsAssumption DEF IsSourceContext, IsIdentity, ContextFields
<1>2. WithProducts(i, ps) = i BY <1>1, WithProductsFields
<1>3. \A j : WithIdentity(d, j).composite_report_identity = j BY <1>1, WithIdentityFields
<1>4. Parse(d) = IF ps = Absent THEN WithIdentity(d, WithProducts(i, <<>>)) ELSE d BY DEF Parse, WithProducts
<1>5. Dump(d) = IF ps = <<>> THEN WithIdentity(d, WithProducts(i, Absent)) ELSE d BY DEF Dump, WithProducts
<1>. QED BY <1>1, <1>2, <1>3, <1>4, <1>5

\* A valid composite report e as it was parsed, p, and as it is stored, r.
LEMMA StoredForm ==
    ASSUME NEW d \in Requests, NEW e \in Spellings(d), ArchiveDocumentInput(Parse(e)), IsComposite(e),
           NEW p, p = Parse(e), NEW r, r = Dump(e),
           NEW i, i = p.composite_report_identity, NEW j, j = r.composite_report_identity
    PROVE  /\ \A f \in Envelope : r[f] = d[f] /\ p[f] = d[f] /\ e[f] = d[f]
           /\ IsComposite(d) /\ IsComposite(p) /\ IsComposite(r)
           /\ i # Null /\ j # Null /\ CompositeCustodyIdentity(i) /\ IsIdentity(d.composite_report_identity)
           /\ i.contract_version = j.contract_version /\ i.selection = j.selection
           /\ i.contract_version = d.composite_report_identity.contract_version
           /\ i.selection = d.composite_report_identity.selection
           /\ i.contract_version # 8 => i = j /\ i = d.composite_report_identity
           /\ i.contract_version = 8 =>
                /\ i.source_context = j.source_context /\ i.definition = j.definition
                /\ i.source_products # Absent
                /\ j.source_products = IF i.source_products = <<>> THEN Absent ELSE i.source_products
                /\ i.source_products = (LET ps == d.composite_report_identity.source_products
                                        IN  IF ps = Absent THEN <<>> ELSE ps)
<1>. DEFINE h == d.composite_report_identity
<1>1. Parse(d) \in Spellings(d) /\ Dump(d) \in Spellings(d) BY DEF Spellings
<1>2. p = Parse(d) /\ r = Dump(d) /\ Alike(d, e) BY OneDocument
<1>3. Alike(d, p) /\ Alike(d, r) BY <1>1, <1>2, OneDocument
<1>4. \A f \in Envelope : r[f] = d[f] /\ p[f] = d[f] /\ e[f] = d[f] BY <1>2, <1>3 DEF Alike
<1>5. IsComposite(d) /\ IsComposite(p) /\ IsComposite(r)
  BY <1>4 DEF IsComposite, Envelope, DocumentFields
<1>6. i # Null /\ CompositeCustodyIdentity(i) BY <1>5 DEF ArchiveDocumentInput, _report_scope_must_agree
<1>7. h # Null
  <2>1. CASE p = d BY <1>6, <2>1
  <2>2. CASE p # d BY <1>3, <2>2 DEF Alike, IsSourceContext
  <2>. QED BY <2>1, <2>2
<1>8. j # Null /\ IsIdentity(h) BY <1>1, <1>2, <1>7, RequestsAssumption
<1>9. CASE ~IsSourceContext(d)
  <2>1. i = h /\ j = h BY <1>3, <1>9 DEF Alike
  <2>2. h.contract_version # 8 BY <1>7, <1>9 DEF IsSourceContext
  <2>. QED BY <1>4, <1>5, <1>6, <1>8, <2>1, <2>2
<1>10. CASE IsSourceContext(d)
  <2>. DEFINE ps == h.source_products
  <2>1. /\ IsObject(h, ContextFields)
        /\ i = WithProducts(h, IF ps = Absent THEN <<>> ELSE ps)
        /\ j = WithProducts(h, IF ps = <<>> THEN Absent ELSE ps)
    BY <1>2, <1>10, ProductLists
  <2>2. \A qs : /\ WithProducts(h, qs).source_products = qs
                /\ \A f \in ContextFields \ {"source_products"} : WithProducts(h, qs)[f] = h[f]
    BY <2>1, WithProductsFields
  <2>3. \A f \in ContextFields \ {"source_products"} : i[f] = h[f] /\ j[f] = h[f] BY <2>1, <2>2
  <2>4. /\ i.contract_version = h.contract_version /\ j.contract_version = h.contract_version
        /\ i.selection = h.selection /\ j.selection = h.selection
        /\ i.source_context = j.source_context /\ i.definition = j.definition
    BY <2>3 DEF ContextFields
  <2>5. i.source_products = (IF ps = Absent THEN <<>> ELSE ps) /\ j.source_products = IF ps = <<>> THEN Absent ELSE ps
    BY <2>1, <2>2
  <2>6. /\ i.source_products # Absent
        /\ j.source_products = IF i.source_products = <<>> THEN Absent ELSE i.source_products
    BY <2>5, AbsentAssumption
  <2>7. h.contract_version = 8 BY <1>10 DEF IsSourceContext
  <2>. QED BY <1>4, <1>5, <1>6, <1>8, <2>4, <2>5, <2>6, <2>7
<1>. QED BY <1>9, <1>10

\* The scope a valid composite report names is that of its identity.
LEMMA ScopeAgrees ==
    ASSUME NEW p, NEW i, i = p.composite_report_identity, ArchiveDocumentInput(p), IsComposite(p)
    PROVE  /\ p.tenant_id = i.selection.tenant_id /\ p.composite_id = ScopeOf(i).composite_id
           /\ p.reporting_period_start = ScopeOf(i).start /\ p.reporting_period_end = ScopeOf(i).end
           /\ p.as_of_date = ScopeOf(i).end
           /\ p.template_version = i.contract_version
           /\ p.report_data_contract_version = i.contract_version
BY DEF ArchiveDocumentInput, _report_scope_must_agree

\* What the contracts with windows demand of them.
LEMMA ValidWindows ==
    ASSUME NEW i, CompositeCustodyIdentity(i), i.contract_version \in {1, 2, 3, 8}
    PROVE  LET ws == i.selection.windows
           IN  /\ ws # <<>> /\ All(ordered_window, ws) /\ Contiguous(ws)
               /\ ExactHorizon(ws, ScopeOf(i).start, ScopeOf(i).end)
<1>1. CASE i.contract_version = 1
  BY <1>1 DEF CompositeCustodyIdentity, CompositeReportIdentity, ordered_vector, ScopeOf
<1>2. CASE i.contract_version = 2
  BY <1>2 DEF CompositeCustodyIdentity, CompositeReportIdentityV2, ordered_vector, ScopeOf
<1>3. CASE i.contract_version = 3
  BY <1>3 DEF CompositeCustodyIdentity, CompositeReportIdentityV3, exact_linked_vector, ScopeOf
<1>4. CASE i.contract_version = 8
  BY <1>4 DEF CompositeCustodyIdentity, CompositeReportIdentityV8, ordered_vector, ScopeOf
<1>. QED BY <1>1, <1>2, <1>3, <1>4

\* What the contracts with months demand of them.
LEMMA ValidMonths ==
    ASSUME NEW i, CompositeCustodyIdentity(i), i.contract_version \in {4, 6, 7}
    PROVE  ordered_selected_months(i.selection) /\ ScopeOf(i) = i.selection
<1>1. CASE i.contract_version = 4
  BY <1>1 DEF CompositeCustodyIdentity, CompositeReportIdentityV4, ScopeOf
<1>2. CASE i.contract_version = 6
  BY <1>2 DEF CompositeCustodyIdentity, CompositeReportIdentityV6, ScopeOf
<1>3. CASE i.contract_version = 7
  BY <1>3 DEF CompositeCustodyIdentity, CompositeReportIdentityV7, ScopeOf
<1>. QED BY <1>1, <1>2, <1>3

\* A retained composite report: its identity is that of a valid document of the same
\* envelope.
LEMMA Retained ==
    ASSUME Inv, RetainedComposite, NEW i, i = Parse(request).composite_report_identity
    PROVE  /\ CompositeCustodyIdentity(i) /\ IsComposite(request)
           /\ i.contract_version = Identity.contract_version /\ i.selection = Identity.selection
           /\ i.contract_version \in {1, 2, 3, 8} => IsVector(i.selection.windows)
           /\ i.contract_version \in {4, 6, 7} => IsMonths(i.selection.months)
           /\ row.reporting_period_start \in Int /\ row.reporting_period_end \in Int
           /\ row.reporting_period_start = ScopeOf(i).start /\ row.reporting_period_end = ScopeOf(i).end
<1>. PICK d \in Requests : request \in Spellings(d) BY DEF Inv
<1>. DEFINE p == Parse(request)
<1>1. row = Dump(request) /\ ArchiveDocumentInput(p) BY DEF Inv, RetainedComposite
<1>2. Dump(d) \in Spellings(d) /\ row = Dump(d) /\ Alike(d, request) BY <1>1, OneDocument DEF Spellings
<1>3. Alike(d, row) BY <1>2, OneDocument
<1>4. IsComposite(request)
  BY <1>2, <1>3 DEF Alike, RetainedComposite, IsComposite, Envelope, DocumentFields
<1>5. /\ \A f \in Envelope : row[f] = d[f] /\ p[f] = d[f]
      /\ CompositeCustodyIdentity(i) /\ IsComposite(p) /\ IsIdentity(d.composite_report_identity)
      /\ i.contract_version = Identity.contract_version /\ i.selection = Identity.selection
      /\ i.contract_version = d.composite_report_identity.contract_version
      /\ i.selection = d.composite_report_identity.selection
  BY <1>1, <1>4, StoredForm DEF Identity
<1>6. /\ row.reporting_period_start = p.reporting_period_start /\ row.reporting_period_end = p.reporting_period_end
      /\ row.reporting_period_start \in Int /\ row.reporting_period_end \in Int
  BY <1>5, RequestsAssumption DEF Envelope, DocumentFields
<1>7. p.reporting_period_start = ScopeOf(i).start /\ p.reporting_period_end = ScopeOf(i).end
  BY <1>1, <1>5, ScopeAgrees
<1>. QED BY <1>4, <1>5, <1>6, <1>7 DEF IsIdentity

\* Neighbouring windows and the two ends of the horizon are all the validators look
\* at, and no day is left out or counted twice.
THEOREM HorizonCoveredAlways == Spec => []HorizonCovered
<1>1. ASSUME Inv PROVE HorizonCovered
  <2>1. SUFFICES ASSUME RetainedComposite
                 PROVE  HorizonCovered
    BY DEF HorizonCovered
  <2>. DEFINE i == Parse(request).composite_report_identity
              a == row.reporting_period_start
              b == row.reporting_period_end
              ws == Identity.selection.windows
              ms == Identity.selection.months
              pinned(m) == {n \in DOMAIN ms : ms[n].month = m}
  <2>2. /\ CompositeCustodyIdentity(i)
        /\ i.contract_version = Identity.contract_version /\ i.selection = Identity.selection
        /\ i.contract_version \in {1, 2, 3, 8} => IsVector(ws)
        /\ i.contract_version \in {4, 6, 7} => IsMonths(ms)
        /\ a \in Int /\ b \in Int /\ a = ScopeOf(i).start /\ b = ScopeOf(i).end
    BY <1>1, <2>1, Retained
  <2>. HIDE DEF i
  <2>3. ASSUME HasWindows
        PROVE  /\ DaysOf(ws) = Horizon
               /\ \A day \in Horizon : Cardinality({n \in DOMAIN ws : day \in ws[n].start .. ws[n].end}) = 1
    <3>1. i.contract_version \in {1, 2, 3, 8} BY <2>2, <2>3 DEF HasWindows
    <3>2. /\ IsVector(ws) /\ ws # <<>> /\ All(ordered_window, ws) /\ Contiguous(ws)
          /\ ws[1].start = a /\ ws[Len(ws)].end = b
      BY <2>2, <3>1, ValidWindows DEF ExactHorizon
    <3>. HIDE DEF ws, a, b
    <3>3. /\ \A j, k \in DOMAIN ws : j < k => ws[j].end < ws[k].start
          /\ \A day \in a .. b : \E n \in DOMAIN ws : day \in ws[n].start .. ws[n].end
          /\ \A n \in DOMAIN ws : a <= ws[n].start /\ ws[n].end <= b
      BY <3>2, VectorCovers
    <3>4. \A n \in DOMAIN ws : ws[n].start \in Int /\ ws[n].end \in Int BY <3>2 DEF IsVector
    <3>5. DOMAIN ws \subseteq Nat BY <3>2, ListFacts DEF IsVector
    <3>6. DaysOf(ws) = a .. b
      <4>1. ASSUME NEW n \in DOMAIN ws, NEW day \in ws[n].start .. ws[n].end PROVE day \in a .. b
        BY <2>2, <3>3, <3>4
      <4>. QED BY <3>3, <4>1 DEF DaysOf
    <3>7. ASSUME NEW day \in a .. b
          PROVE  Cardinality({n \in DOMAIN ws : day \in ws[n].start .. ws[n].end}) = 1
      <4>1. PICK n \in DOMAIN ws : day \in ws[n].start .. ws[n].end BY <3>3
      <4>2. ASSUME NEW m \in DOMAIN ws, day \in ws[m].start .. ws[m].end PROVE m = n
        <5>1. ~(m < n) /\ ~(n < m) BY <2>2, <3>3, <3>4, <4>1, <4>2
        <5>. QED BY <3>5, <5>1
      <4>3. {m \in DOMAIN ws : day \in ws[m].start .. ws[m].end} = {n} BY <4>1, <4>2
      <4>. QED BY <4>3, FS_Singleton
    <3>. QED BY <3>6, <3>7 DEF Horizon, a, b
  <2>4. ASSUME HasMonths
        PROVE  /\ Horizon = UNION {FirstDay(m) .. LastDay(m) : m \in Month(a) .. Month(b)}
               /\ \A m \in {Month(day) : day \in Horizon} : Cardinality(pinned(m)) <= 1
               /\ \A n \in DOMAIN ms : ms[n].month \in {Month(day) : day \in Horizon}
               /\ pinned(Month(a)) # {} /\ pinned(Month(b)) # {}
    <3>1. i.contract_version \in {4, 6, 7} BY <2>2, <2>4 DEF HasMonths
    <3>2. /\ IsMonths(ms) /\ ms # <<>> /\ \A n \in 1 .. Len(ms) - 1 : ms[n].month < ms[n + 1].month
          /\ a <= b /\ ms[1].month = Month(a) /\ ms[Len(ms)].month = Month(b)
          /\ a = FirstDay(Month(a)) /\ b = LastDay(Month(b))
      BY <2>2, <3>1, ValidMonths DEF ordered_selected_months
    <3>3. /\ a .. b = UNION {FirstDay(m) .. LastDay(m) : m \in Month(a) .. Month(b)}
          /\ {Month(day) : day \in a .. b} = Month(a) .. Month(b)
          /\ Month(a) \in Int /\ Month(b) \in Int
      BY <2>2, <3>2, WholeMonths, MonthMonotone
    <3>4. Len(ms) \in Nat /\ DOMAIN ms = 1 .. Len(ms) /\ 1 \in DOMAIN ms /\ Len(ms) \in DOMAIN ms
      BY <3>2, ListFacts DEF IsMonths
    <3>. HIDE DEF ms, a, b
    <3>5. \A j, k \in DOMAIN ms : j < k => ms[j].month < ms[k].month
      <4>. DEFINE f == [n \in 1 .. Len(ms) |-> ms[n].month]
      <4>1. /\ \A n \in 1 .. Len(ms) : f[n] \in Int /\ f[n] <= f[n]
            /\ \A n \in 1 .. Len(ms) - 1 : f[n] < f[n + 1]
        BY <3>2, <3>4 DEF IsMonths
      <4>2. \A j, k \in 1 .. Len(ms) : j < k => f[j] < f[k]
        <5>. HIDE DEF f
        <5>. QED BY <3>4, <4>1, Increasing
      <4>. QED BY <3>4, <4>2
    <3>6. \A n \in DOMAIN ms : ms[n].month \in Int BY <3>2 DEF IsMonths
    <3>7. ASSUME NEW n \in DOMAIN ms PROVE ms[n].month \in Month(a) .. Month(b)
      <4>1. n = 1 \/ 1 < n BY <3>4
      <4>2. n = Len(ms) \/ n < Len(ms) BY <3>4
      <4>3. Month(a) <= ms[n].month BY <3>2, <3>3, <3>4, <3>5, <3>6, <4>1
      <4>4. ms[n].month <= Month(b) BY <3>2, <3>3, <3>4, <3>5, <3>6, <4>2
      <4>. QED BY <3>3, <3>6, <4>3, <4>4
    <3>8. ASSUME NEW m PROVE Cardinality(pinned(m)) <= 1
      <4>1. CASE pinned(m) = {}
        <5>. HIDE DEF pinned
        <5>. QED BY <4>1, FS_EmptySet
      <4>2. ASSUME NEW n \in pinned(m) PROVE Cardinality(pinned(m)) <= 1
        <5>1. ASSUME NEW k \in pinned(m) PROVE k = n
          <6>1. k \in DOMAIN ms /\ n \in DOMAIN ms /\ ms[k].month = ms[n].month OBVIOUS
          <6>2. ~(k < n) /\ ~(n < k) BY <3>5, <3>6, <6>1
          <6>. QED BY <3>4, <6>1, <6>2
        <5>2. pinned(m) = {n} BY <5>1
        <5>. HIDE DEF pinned
        <5>. QED BY <5>2, FS_Singleton
      <4>. QED BY <4>1, <4>2
    <3>9. 1 \in pinned(Month(a)) /\ Len(ms) \in pinned(Month(b)) BY <3>2, <3>4
    <3>. HIDE DEF pinned
    <3>. QED BY <3>3, <3>7, <3>8, <3>9 DEF Horizon, a, b
  <2>. QED BY <2>3, <2>4 DEF HorizonCovered
<1>. QED BY <1>1, InvAlways, PTL

----------------------------------------------------------------------------
(* Products. *)

\* The places of the members of a set of positions are 1, 2, ... without a gap.
LEMMA Places ==
    ASSUME NEW S, S \subseteq Nat, IsFiniteSet(S)
    PROVE  /\ \A n \in S : Place(n, S) \in 1 .. Cardinality(S)
           /\ \A k \in 1 .. Cardinality(S) : \E n \in S : Place(n, S) = k
           /\ \A m, n \in S : Place(m, S) = Place(n, S) => m = n
<1>. DEFINE C == Cardinality(S)
            Upto(n) == {m \in S : m <= n}
            f == [n \in S |-> Place(n, S)]
<1>1. C \in Nat BY FS_CardinalityType
<1>2. \A n \in S : Place(n, S) = Cardinality(Upto(n)) BY DEF Place
<1>3. \A n \in S : Upto(n) \subseteq S /\ n \in Upto(n)
  <2>1. \A n \in S : n \in Nat OBVIOUS
  <2>. QED BY <2>1
<1>4. \A m, n \in S : m < n => Upto(m) \subseteq Upto(n) \ {n}
  <2>1. \A n \in S : n \in Nat OBVIOUS
  <2>2. SUFFICES ASSUME NEW m \in S, NEW n \in S, m < n, NEW x \in Upto(m) PROVE x \in S /\ x <= n /\ x # n
    OBVIOUS
  <2>3. x \in S /\ x <= m OBVIOUS
  <2>. QED BY <2>1, <2>2, <2>3
<1>. HIDE DEF Upto, C
<1>5. \A n \in S : IsFiniteSet(Upto(n)) /\ Cardinality(Upto(n)) \in Nat /\ Cardinality(Upto(n)) <= C
  BY <1>3, FS_Subset, FS_CardinalityType DEF C
<1>6. \A n \in S : Cardinality(Upto(n)) >= 1
  <2>. SUFFICES ASSUME NEW n \in S PROVE Cardinality(Upto(n)) >= 1 OBVIOUS
  <2>1. Cardinality(Upto(n)) # 0 BY <1>3, <1>5, FS_EmptySet
  <2>. QED BY <1>5, <2>1
<1>7. \A n \in S : Place(n, S) \in 1 .. C BY <1>1, <1>2, <1>5, <1>6
<1>8. ASSUME NEW m \in S, NEW n \in S, m < n PROVE Place(m, S) < Place(n, S)
  <2>1. IsFiniteSet(Upto(n) \ {n}) /\ Cardinality(Upto(n) \ {n}) = Cardinality(Upto(n)) - 1
    BY <1>3, <1>5, FS_RemoveElement
  <2>2. Upto(m) \subseteq Upto(n) \ {n} BY <1>4, <1>8
  <2>3. Cardinality(Upto(m)) <= Cardinality(Upto(n) \ {n}) BY <2>1, <2>2, FS_Subset
  <2>. QED BY <1>2, <1>5, <2>1, <2>3
<1>9. \A m, n \in S : Place(m, S) = Place(n, S) => m = n
  <2>. SUFFICES ASSUME NEW m \in S, NEW n \in S, Place(m, S) = Place(n, S) PROVE m = n OBVIOUS
  <2>1. Place(m, S) \in Int BY <1>1, <1>7
  <2>2. ~(m < n) /\ ~(n < m) BY <1>8, <2>1
  <2>3. m \in Nat /\ n \in Nat OBVIOUS
  <2>. QED BY <2>2, <2>3
<1>10. f \in Injection(S, 1 .. C)
  <2>1. f \in [S -> 1 .. C] BY <1>7
  <2>2. IsInjective(f) BY <1>9 DEF IsInjective
  <2>. QED BY <2>1, <2>2 DEF Injection
<1>11. IsFiniteSet(1 .. C) /\ Cardinality(1 .. C) = C
  <2>1. 1 \in Int /\ C \in Int BY <1>1
  <2>2. IsFiniteSet(1 .. C) /\ Cardinality(1 .. C) = IF 1 > C THEN 0 ELSE C - 1 + 1 BY <2>1, FS_Interval
  <2>. QED BY <1>1, <2>2
<1>12. f \in Surjection(S, 1 .. C)
  <2>. HIDE DEF f
  <2>. QED BY <1>10, <1>11, FS_Injection DEF C
<1>13. \A k \in 1 .. C : \E n \in S : Place(n, S) = k BY <1>12 DEF Surjection
<1>. QED BY <1>7, <1>9, <1>13 DEF C

\* A subvector has exactly the windows that lie within its selection.
LEMMA SubvectorWindows ==
    ASSUME NEW ws, IsList(ws), NEW sel, NEW v, v = Subvector(ws, sel)
    PROVE  /\ \A k \in DOMAIN v : \E n \in Within(ws, sel) : v[k] = ws[n]
           /\ \A n \in Within(ws, sel) : \E k \in DOMAIN v : v[k] = ws[n]
<1>. DEFINE S == Within(ws, sel)
            C == Cardinality(S)
            pick(k) == CHOOSE n \in S : Place(n, S) = k
<1>1. Len(ws) \in Nat /\ DOMAIN ws = 1 .. Len(ws) BY ListFacts
<1>2. S \subseteq 1 .. Len(ws) BY <1>1 DEF Within
<1>3. S \subseteq Nat /\ IsFiniteSet(S)
  <2>1. IsFiniteSet(1 .. Len(ws)) BY <1>1, FS_Interval
  <2>. QED BY <1>1, <1>2, <2>1, FS_Subset
<1>4. v = [k \in 1 .. C |-> ws[pick(k)]] BY DEF Subvector
<1>. HIDE DEF S
<1>5. /\ \A n \in S : Place(n, S) \in 1 .. C
      /\ \A k \in 1 .. C : \E n \in S : Place(n, S) = k
      /\ \A m, n \in S : Place(m, S) = Place(n, S) => m = n
  BY <1>3, Places
<1>. HIDE DEF C
<1>6. \A k \in 1 .. C : pick(k) \in S /\ Place(pick(k), S) = k BY <1>5
<1>7. \A n \in S : pick(Place(n, S)) = n BY <1>5, <1>6
<1>. HIDE DEF pick
<1>8. DOMAIN v = 1 .. C /\ \A k \in 1 .. C : v[k] = ws[pick(k)] BY <1>4
<1>9. \A k \in 1 .. C : \E n \in S : v[k] = ws[n] BY <1>6, <1>8
<1>10. \A n \in S : v[Place(n, S)] = ws[n] BY <1>5, <1>7, <1>8
<1>. QED BY <1>5, <1>8, <1>9, <1>10 DEF S

\* Neighbouring windows of one whole month each are a run of months.
LEMMA MonthRun ==
    ASSUME NEW ws, IsVector(ws), ws # <<>>, All(ordered_window, ws), Contiguous(ws), All(CompleteMonth, ws),
           NEW a, a = ws[1].start, NEW b, b = ws[Len(ws)].end
    PROVE  /\ a \in Int /\ b \in Int /\ a <= b
           /\ a = FirstDay(Month(a)) /\ b = LastDay(Month(b))
           /\ Month(a) = Month(b) - Len(ws) + 1
<1>. DEFINE N == Len(ws)
            m(k) == Month(ws[k].start)
<1>1. N \in Nat /\ DOMAIN ws = 1 .. N /\ N >= 1 /\ 1 \in 1 .. N /\ N \in 1 .. N BY ListFacts DEF IsVector
<1>2. \A k \in 1 .. N : /\ ws[k].start \in Int /\ ws[k].end \in Int /\ ws[k].start <= ws[k].end
                        /\ ws[k].start = FirstDay(m(k)) /\ ws[k].end = LastDay(m(k)) /\ Month(ws[k].end) = m(k)
  BY <1>1 DEF IsVector, All, ordered_window, CompleteMonth
<1>3. \A k \in 1 .. N : m(k) \in Int BY <1>2, Calendar
<1>4. \A k \in 1 .. N - 1 : k \in 1 .. N /\ k + 1 \in 1 .. N /\ ws[k + 1].start = ws[k].end + 1
  BY <1>1 DEF Contiguous
<1>5. ASSUME NEW k \in 1 .. N - 1 PROVE m(k + 1) = m(k) + 1
  <2>1. ws[k + 1].start = LastDay(m(k)) + 1 BY <1>2, <1>4
  <2>2. \A x \in Int : LastDay(x) + 1 = FirstDay(x + 1) BY CalendarAssumption DEF FirstDay, LastDay
  <2>3. ws[k + 1].start = FirstDay(m(k) + 1) /\ m(k) + 1 \in Int
    <3>1. m(k) \in Int BY <1>3, <1>4
    <3>2. LastDay(m(k)) + 1 = FirstDay(m(k) + 1) BY <2>2, <3>1, Zenon
    <3>. QED BY <2>1, <3>1, <3>2
  <2>4. FirstDay(m(k) + 1) \in Int /\ FirstDay(m(k) + 1) \in FirstDay(m(k) + 1) .. LastDay(m(k) + 1)
    BY <2>3, Calendar
  <2>5. Month(FirstDay(m(k) + 1)) = m(k) + 1 BY <2>3, <2>4, DayOfMonth
  <2>. QED BY <2>3, <2>5
<1>. HIDE DEF m, N
<1>6. \A k \in 1 .. N : m(k) = m(1) + k - 1
  <2>. DEFINE T == {k \in 1 .. N : m(k) # m(1) + k - 1}
  <2>1. SUFFICES ASSUME T # {} PROVE FALSE OBVIOUS
  <2>2. T \subseteq Nat BY <1>1
  <2>3. PICK k \in T : \A x \in T : k <= x BY <2>1, <2>2, LeastNumber
  <2>4. k \in 1 .. N /\ m(k) # m(1) + k - 1 OBVIOUS
  <2>5. k # 1 BY <1>1, <1>3, <2>4
  <2>6. k - 1 \in 1 .. N - 1 /\ k - 1 \in 1 .. N /\ k - 1 \notin T /\ (k - 1) + 1 = k BY <1>1, <2>3, <2>4, <2>5
  <2>7. m(k - 1) = m(1) + (k - 1) - 1 BY <2>6
  <2>8. m(k) = m(k - 1) + 1 BY <1>5, <2>6
  <2>. QED BY <1>1, <1>3, <2>4, <2>7, <2>8
<1>7. m(N) = m(1) + N - 1 BY <1>1, <1>6
<1>8. m(1) = Month(a) /\ m(N) = Month(b) /\ a \in Int /\ b \in Int /\ a = FirstDay(m(1)) /\ b = LastDay(m(N))
  <2>1. m(1) = Month(a) BY DEF m
  <2>2. m(N) = Month(b) BY <1>1, <1>2 DEF N
  <2>. QED BY <1>1, <1>2, <2>1, <2>2 DEF N
<1>9. a <= b
  <2>1. \A n \in DOMAIN ws : ws[1].start <= ws[n].start BY VectorCovers
  <2>. QED BY <1>1, <1>2, <2>1 DEF N
<1>. QED BY <1>1, <1>3, <1>7, <1>8, <1>9 DEF N

\* A product whose windows are those of the primary vector within its own horizon.
LEMMA ProductWindows ==
    ASSUME NEW ws, IsVector(ws), ws # <<>>, All(ordered_window, ws), Contiguous(ws),
           NEW sel, IsVector(sel.windows), ordered_vector(sel), require_complete_months(sel),
           sel.windows = Subvector(ws, sel)
    PROVE  LET months == Month(sel.start) .. Month(sel.end)
           IN  /\ {sel.windows[k] : k \in DOMAIN sel.windows}
                    = {ws[n] : n \in {n \in DOMAIN ws : Month(ws[n].start) \in months}}
               /\ DaysOf(sel.windows) = UNION {FirstDay(m) .. LastDay(m) : m \in months}
               /\ Month(sel.start) \in Int /\ Month(sel.end) \in Int
               /\ Month(sel.start) = Month(sel.end) - Len(sel.windows) + 1
<1>. DEFINE v == sel.windows
            a == sel.start
            b == sel.end
            months == Month(a) .. Month(b)
<1>1. /\ v # <<>> /\ All(ordered_window, v) /\ Contiguous(v) /\ All(CompleteMonth, v)
      /\ a = v[1].start /\ b = v[Len(v)].end
  BY DEF ordered_vector, ExactHorizon, require_complete_months
<1>2. /\ a \in Int /\ b \in Int /\ a <= b /\ a = FirstDay(Month(a)) /\ b = LastDay(Month(b))
      /\ Month(a) = Month(b) - Len(v) + 1
  BY <1>1, MonthRun
<1>3. /\ a .. b = UNION {FirstDay(m) .. LastDay(m) : m \in months}
      /\ Month(a) \in Int /\ Month(b) \in Int
  BY <1>2, WholeMonths, MonthMonotone
<1>4. /\ \A day \in a .. b : \E k \in DOMAIN v : day \in v[k].start .. v[k].end
      /\ \A k \in DOMAIN v : a <= v[k].start /\ v[k].end <= b
  BY <1>1, VectorCovers
<1>5. \A k \in DOMAIN v : v[k].start \in Int /\ v[k].end \in Int BY DEF IsVector
<1>6. /\ \A k \in DOMAIN v : \E n \in Within(ws, sel) : v[k] = ws[n]
      /\ \A n \in Within(ws, sel) : \E k \in DOMAIN v : v[k] = ws[n]
  BY SubvectorWindows DEF IsVector
<1>7. /\ \A j, k \in DOMAIN ws : j < k => ws[j].end < ws[k].start
      /\ \A n \in DOMAIN ws : ws[n].start \in Int /\ ws[n].end \in Int /\ ws[n].start <= ws[n].end
      /\ DOMAIN ws \subseteq Nat
  <2>1. \A j, k \in DOMAIN ws : j < k => ws[j].end < ws[k].start BY VectorCovers
  <2>2. \A n \in DOMAIN ws : ws[n].start \in Int /\ ws[n].end \in Int /\ ws[n].start <= ws[n].end
    BY DEF IsVector, All, ordered_window
  <2>3. DOMAIN ws \subseteq Nat BY ListFacts DEF IsVector
  <2>. QED BY <2>1, <2>2, <2>3
<1>. HIDE DEF v, a, b
<1>8. DaysOf(v) = a .. b
  <2>1. ASSUME NEW k \in DOMAIN v, NEW day \in v[k].start .. v[k].end PROVE day \in a .. b
    BY <1>2, <1>4, <1>5
  <2>. QED BY <1>4, <2>1 DEF DaysOf
<1>9. ASSUME NEW n \in DOMAIN ws, n \in Within(ws, sel) PROVE Month(ws[n].start) \in months
  <2>1. a <= ws[n].start /\ ws[n].end <= b BY <1>9 DEF Within, a, b
  <2>2. a <= ws[n].start /\ ws[n].start <= b BY <1>2, <1>7, <2>1
  <2>3. /\ Month(ws[n].start) \in Int
        /\ Month(a) <= Month(ws[n].start) /\ Month(ws[n].start) <= Month(b)
    BY <1>2, <1>7, <2>2, MonthMonotone
  <2>. QED BY <1>3, <2>3
<1>10. ASSUME NEW n \in DOMAIN ws, Month(ws[n].start) \in months PROVE n \in Within(ws, sel)
  <2>. DEFINE day == ws[n].start
  <2>1. day \in Int /\ Month(day) \in Int BY <1>7, Calendar
  <2>2. day \in FirstDay(Month(day)) .. LastDay(Month(day)) BY <2>1, DayOfMonth
  <2>3. day \in a .. b BY <1>3, <1>10, <2>2
  <2>4. PICK k \in DOMAIN v : day \in v[k].start .. v[k].end BY <1>4, <2>3
  <2>5. PICK j \in Within(ws, sel) : v[k] = ws[j] BY <1>6
  <2>6. j \in DOMAIN ws /\ day \in ws[j].start .. ws[j].end BY <2>4, <2>5 DEF Within
  <2>7. ~(j < n) /\ ~(n < j) BY <1>7, <2>6
  <2>8. j = n BY <1>7, <2>6, <2>7
  <2>. QED BY <2>8
<1>11. \A n \in Within(ws, sel) : n \in DOMAIN ws BY DEF Within
<1>12. {v[k] : k \in DOMAIN v} = {ws[n] : n \in {n \in DOMAIN ws : Month(ws[n].start) \in months}}
  <2>1. \A n \in DOMAIN ws : Month(ws[n].start) \in months <=> n \in Within(ws, sel) BY <1>9, <1>10
  <2>. HIDE DEF months
  <2>. QED BY <1>6, <1>11, <2>1
<1>. QED BY <1>2, <1>3, <1>8, <1>12 DEF v, a, b

\* The products that are stored are those that were validated.
LEMMA StoredProducts ==
    ASSUME NEW d \in Requests, NEW e \in Spellings(d), ArchiveDocumentInput(Parse(e)), IsComposite(e),
           NEW i, i = Parse(e).composite_report_identity, NEW j, j = Dump(e).composite_report_identity,
           i.contract_version \in {2, 8}, j.source_products # Absent
    PROVE  /\ j.source_products = i.source_products /\ j.source_products # <<>>
           /\ IsProducts(j.source_products) /\ product_scope(j.selection, j.source_products)
<1>. DEFINE h == d.composite_report_identity
<1>1. /\ CompositeCustodyIdentity(i) /\ IsIdentity(h)
      /\ i.contract_version = h.contract_version /\ i.selection = j.selection
      /\ i.contract_version # 8 => i = j /\ i = h
      /\ i.contract_version = 8 =>
           /\ i.source_products # Absent
           /\ j.source_products = IF i.source_products = <<>> THEN Absent ELSE i.source_products
           /\ i.source_products = IF h.source_products = Absent THEN <<>> ELSE h.source_products
  BY StoredForm
<1>2. h.source_products = Absent \/ IsProducts(h.source_products) BY <1>1 DEF IsIdentity
<1>3. CASE i.contract_version = 2
  <2>1. i = j /\ i = h BY <1>1, <1>3
  <2>2. i.source_products # <<>> /\ product_scope(i.selection, i.source_products)
    BY <1>1, <1>3 DEF CompositeCustodyIdentity, CompositeReportIdentityV2
  <2>. QED BY <1>2, <2>1, <2>2
<1>4. CASE i.contract_version = 8
  <2>1. /\ i.source_products # <<>> /\ j.source_products = i.source_products
        /\ h.source_products # Absent /\ i.source_products = h.source_products
    BY <1>1, <1>4
  <2>2. source_context_agrees(i) BY <1>1, <1>4 DEF CompositeCustodyIdentity, CompositeReportIdentityV8
  <2>3. product_scope(i.selection, i.source_products) BY <2>1, <2>2 DEF source_context_agrees
  <2>. QED BY <1>1, <1>2, <2>1, <2>3
<1>. QED BY <1>3, <1>4

\* A product beside a calculation says what its name says, from the windows of that
\* calculation, whatever the length of months and years.
THEOREM ProductsTellThePrimaryAlways == Spec => []ProductsTellThePrimary
<1>1. ASSUME Inv PROVE ProductsTellThePrimary
  <2>. DEFINE i == Parse(request).composite_report_identity
              ps == Identity.source_products
              primary == Identity.selection
              ws == primary.windows
              b == row.reporting_period_end
  <2>1. SUFFICES ASSUME RetainedComposite, Identity.contract_version \in {2, 8}, ps # Absent,
                        NEW n \in DOMAIN ps
                 PROVE  LET pin == ps[n].pin
                            months == IF pin.kind = "CALENDAR_RETURN"
                                      THEN (pin.year - 1) * MonthsPerYear + 1 .. pin.year * MonthsPerYear
                                      ELSE Month(b) - pin.months + 1 .. Month(b)
                        IN  /\ {pin.selection.windows[k] : k \in DOMAIN pin.selection.windows}
                                 = {ws[k] : k \in {k \in DOMAIN ws : Month(ws[k].start) \in months}}
                            /\ DaysOf(pin.selection.windows) = UNION {FirstDay(m) .. LastDay(m) : m \in months}
    BY DEF ProductsTellThePrimary
  <2>. DEFINE pin == ps[n].pin
              sel == pin.selection
  <2>2. /\ CompositeCustodyIdentity(i) /\ IsComposite(request)
        /\ i.contract_version = Identity.contract_version /\ i.selection = primary
        /\ IsVector(ws) /\ b = ScopeOf(i).end
    BY <1>1, <2>1, Retained
  <2>3. ScopeOf(i) = primary BY <2>1, <2>2 DEF ScopeOf
  <2>4. ws # <<>> /\ All(ordered_window, ws) /\ Contiguous(ws) BY <2>1, <2>2, ValidWindows
  <2>5. PICK d \in Requests : request \in Spellings(d) BY <1>1 DEF Inv
  <2>6. row = Dump(request) /\ ArchiveDocumentInput(Parse(request)) BY <1>1, <2>1 DEF Inv, RetainedComposite
  <2>7. IsProducts(ps) /\ product_scope(primary, ps)
    BY <2>1, <2>2, <2>5, <2>6, StoredProducts DEF Identity
  <2>. HIDE DEF i, ps, primary, b
  <2>8. /\ IsVector(sel.windows)
        /\ pin.kind = "CALENDAR_RETURN" => pin.year \in Int
        /\ SourceProduct(ps[n])
        /\ sel.windows = Subvector(ws, sel) /\ EndsAtPrimary(pin, primary)
    BY <2>1, <2>7 DEF IsProducts, product_scope, All
  <2>9. /\ ordered_vector(sel) /\ require_complete_months(sel)
        /\ pin.kind = "CALENDAR_RETURN" => calendar_horizon(pin)
        /\ pin.kind # "CALENDAR_RETURN" => Len(sel.windows) = pin.months /\ sel.end = b
    BY <2>2, <2>3, <2>8 DEF SourceProduct, calendar_horizon, trailing_horizon, EndsAtPrimary
  <2>. HIDE DEF pin, ws
  <2>10. /\ {sel.windows[k] : k \in DOMAIN sel.windows}
              = {ws[k] : k \in {k \in DOMAIN ws : Month(ws[k].start) \in Month(sel.start) .. Month(sel.end)}}
         /\ DaysOf(sel.windows) = UNION {FirstDay(m) .. LastDay(m) : m \in Month(sel.start) .. Month(sel.end)}
         /\ Month(sel.start) = Month(sel.end) - Len(sel.windows) + 1
    BY <2>2, <2>4, <2>8, <2>9, ProductWindows
  <2>11. CASE pin.kind = "CALENDAR_RETURN"
    <3>. DEFINE p == (pin.year - 1) * MonthsPerYear + 1
                q == pin.year * MonthsPerYear
    <3>1. p \in Int /\ q \in Int
      <4>1. pin.year \in Int /\ MonthsPerYear \in Int BY <2>8, <2>11, CalendarAssumption
      <4>. QED BY <4>1
    <3>2. sel.start = FirstDay(p) /\ sel.end = LastDay(q) BY <2>9, <2>11 DEF calendar_horizon
    <3>. HIDE DEF p, q
    <3>3. /\ FirstDay(p) \in Int /\ FirstDay(p) \in FirstDay(p) .. LastDay(p)
          /\ LastDay(q) \in Int /\ LastDay(q) \in FirstDay(q) .. LastDay(q)
      BY <3>1, Calendar
    <3>4. Month(sel.start) = p /\ Month(sel.end) = q BY <3>1, <3>2, <3>3, DayOfMonth
    <3>. QED BY <2>10, <2>11, <3>4 DEF p, q, pin
  <2>12. CASE pin.kind # "CALENDAR_RETURN"
    <3>1. Month(sel.start) = Month(b) - pin.months + 1 /\ Month(sel.end) = Month(b) BY <2>9, <2>10, <2>12
    <3>. QED BY <2>10, <2>12, <3>1 DEF pin
  <2>. QED BY <2>11, <2>12
<1>. QED BY <1>1, InvAlways, PTL

----------------------------------------------------------------------------
(* The models and the CHECK. *)

\* The CHECK counts the receipts of the original version over all corrections; the
\* models look at the lineage of each: one root, the last receipt.
LEMMA HistoricalAgrees ==
    ASSUME NEW sel, IsMonths(sel.months), All(HistoricalMonth, sel.months),
           \A n \in DOMAIN sel.months : LET receipts == sel.months[n].lineage_receipts
                                        IN  receipts = Absent \/ IsList(receipts)
    PROVE  HistoricalCheck(sel)
<1>. DEFINE ms == sel.months
            C == Corrections(sel)
            receipts(n) == ms[n].lineage_receipts
            root(n) == Len(receipts(n))
            f == [n \in C |-> <<n, root(n)>>]
            T == RootReceipts(sel)
<1>1. \A n \in DOMAIN ms : HistoricalMonth(ms[n]) BY DEF All
<1>2. \A n \in DOMAIN ms :
        \/ /\ ms[n].product_version = "v3" /\ ms[n].lineage_receipts = Absent
           /\ ms[n].parent_publication_response_digest = Absent
        \/ /\ ms[n].product_version = "v4" /\ ms[n].lineage_receipts \notin {Absent, <<>>}
           /\ ms[n].lineage_receipts[Len(ms[n].lineage_receipts)] = "v3"
           /\ \/ ms[n].evidence_kind = "EVALUATED_ONLY"
              \/ ms[n].parent_publication_response_digest # Absent
  BY <1>1 DEF HistoricalMonth, OriginalRoot, ParentPublication, IsMonths
<1>3. \A n \in C : /\ n \in DOMAIN ms /\ ms[n].product_version = "v4" BY DEF Corrections
<1>4. \A n \in C : /\ receipts(n) # Absent /\ receipts(n) # <<>> /\ OriginalRoot(receipts(n))
  BY <1>1, <1>3 DEF HistoricalMonth
<1>5. \A n \in C : IsList(receipts(n)) BY <1>3, <1>4
<1>6. ASSUME NEW n \in C
      PROVE  {r \in DOMAIN receipts(n) : receipts(n)[r] = "v3"} = {root(n)}
  <2>. PICK s : s = receipts(n) OBVIOUS
  <2>1. Len(s) \in Nat /\ DOMAIN s = 1 .. Len(s) /\ Len(s) \in DOMAIN s BY <1>4, <1>5, ListFacts
  <2>2. s[Len(s)] = "v3" /\ \A r \in 1 .. Len(s) - 1 : s[r] = "v4" BY <1>4 DEF OriginalRoot
  <2>3. \A r \in DOMAIN s : r = Len(s) \/ r \in 1 .. Len(s) - 1 BY <2>1
  <2>4. \A r \in DOMAIN s : s[r] = "v3" <=> r = Len(s) BY <2>1, <2>2, <2>3
  <2>. QED BY <2>1, <2>4
<1>7. T = UNION {{<<n, r>> : r \in {r \in DOMAIN receipts(n) : receipts(n)[r] = "v3"}} : n \in C}
  BY DEF RootReceipts
<1>8. T = {<<n, root(n)>> : n \in C}
  <2>. HIDE DEF root, receipts, C
  <2>. QED BY <1>6, <1>7
<1>9. IsFiniteSet(C)
  <2>1. Len(ms) \in Nat /\ DOMAIN ms = 1 .. Len(ms) BY ListFacts DEF IsMonths
  <2>2. IsFiniteSet(DOMAIN ms) BY <2>1, FS_Interval
  <2>3. C \subseteq DOMAIN ms BY <1>3
  <2>. QED BY <2>2, <2>3, FS_Subset
<1>. HIDE DEF T, C, root
<1>10. f \in Bijection(C, T)
  <2>1. f \in [C -> T] BY <1>8
  <2>2. IsInjective(f) BY DEF IsInjective
  <2>3. \A t \in T : \E n \in C : f[n] = t BY <1>8
  <2>. QED BY <2>1, <2>2, <2>3 DEF Bijection, Injection, Surjection
<1>11. Cardinality(T) = Cardinality(C)
  <2>1. ExistsBijection(C, T) BY <1>10 DEF ExistsBijection
  <2>. QED BY <1>9, <2>1, FS_Bijection
<1>. QED BY <1>2, <1>11 DEF HistoricalCheck, T, C

\* A product the models accept beside a primary vector.
LEMMA ProductsAgree ==
    ASSUME NEW primary, IsList(primary.windows), NEW ps, product_scope(primary, ps), NEW hash,
           \A n \in DOMAIN primary.windows : primary.windows[n].definition_content_hash = hash
    PROVE  ProductCheck(primary, ps, hash)
<1>1. Distinct(ProductKey, ps) BY DEF product_scope
<1>2. SUFFICES ASSUME NEW n \in DOMAIN ps
               PROVE  LET pin == ps[n].pin
                          ws == pin.selection.windows IN
                      /\ ws # <<>> /\ ws = Subvector(primary.windows, pin.selection)
                      /\ \/ /\ pin.kind = "CALENDAR_RETURN" /\ Len(ws) = MonthsPerYear
                            /\ pin.selection.start = FirstDay((pin.year - 1) * MonthsPerYear + 1)
                            /\ pin.selection.end = LastDay(pin.year * MonthsPerYear)
                         \/ /\ pin.kind = "TRAILING_RETURN" /\ Len(ws) = pin.months
                            /\ pin.selection.end = primary.end
                      /\ ps[n].source_response_digest = pin.selection.response_digest
                      /\ Scope(pin.selection) = Scope(primary)
                      /\ \A w \in DOMAIN ws : ws[w].definition_content_hash = hash
  BY <1>1 DEF ProductCheck
<1>. DEFINE pin == ps[n].pin
            ws == pin.selection.windows
<1>3. /\ SourceProduct(ps[n]) /\ Scope(pin.selection) = Scope(primary)
      /\ ws = Subvector(primary.windows, pin.selection) /\ EndsAtPrimary(pin, primary)
  BY DEF product_scope, All
<1>4. /\ ws # <<>> /\ ps[n].source_response_digest = pin.selection.response_digest
      /\ \/ /\ pin.kind = "CALENDAR_RETURN" /\ Len(ws) = MonthsPerYear
            /\ pin.selection.start = FirstDay((pin.year - 1) * MonthsPerYear + 1)
            /\ pin.selection.end = LastDay(pin.year * MonthsPerYear)
         \/ /\ pin.kind = "TRAILING_RETURN" /\ Len(ws) = pin.months
            /\ pin.selection.end = primary.end
  BY <1>3 DEF SourceProduct, ordered_vector, calendar_horizon, trailing_horizon, EndsAtPrimary
<1>5. \A k \in DOMAIN ws : \E m \in DOMAIN primary.windows : ws[k] = primary.windows[m]
  BY <1>3, SubvectorWindows DEF Within
<1>6. \A k \in DOMAIN ws : ws[k].definition_content_hash = hash BY <1>5
<1>. QED BY <1>3, <1>4, <1>6

\* What the models accept over months passes the part of the CHECK that looks at them.
LEMMA MonthsAgree ==
    ASSUME NEW r, NEW i, CompositeCustodyIdentity(i), i.contract_version \in {4, 6, 7},
           r.reporting_period_start = ScopeOf(i).start, r.reporting_period_end = ScopeOf(i).end
    PROVE  MonthsCheck(r, i.selection)
<1>1. ordered_selected_months(i.selection) /\ ScopeOf(i) = i.selection BY ValidMonths
<1>. QED BY <1>1 DEF ordered_selected_months, MonthsCheck

\* The same of a source context; j is the identity i as it is stored, with its empty
\* product list left out.
LEMMA ContextAgrees ==
    ASSUME NEW r, NEW i, NEW j, ordered_vector(i.selection), source_context_agrees(i),
           IsVector(i.selection.windows),
           i.selection = j.selection, i.source_context = j.source_context, i.definition = j.definition,
           j.source_products # Absent => product_scope(j.selection, j.source_products),
           r.reporting_period_start = i.selection.start, r.reporting_period_end = i.selection.end
    PROVE  SourceContextCheck(r, j)
<1>. DEFINE ws == i.selection.windows
            ms == i.source_context.memberships
            pin == i.definition.pin
<1>1. /\ i.definition.source_response_digest = pin.response_digest
      /\ i.source_context.definition = pin
      /\ Len(ms) <= 2 /\ Distinct(MembershipRevision, ms)
      /\ i.source_context.since_inception \/ ms # <<>>
      /\ \A n \in DOMAIN ws : ws[n].definition_content_hash = pin.content_hash
      /\ ms # <<>> => {ws[n].membership_content_hash : n \in DOMAIN ws}
                         \subseteq {ms[n].content_hash : n \in DOMAIN ms}
  BY DEF source_context_agrees, require_attachment, definition_digest_agrees
<1>2. /\ ws # <<>> /\ Distinct(MaterializationId, ws)
      /\ ExactHorizon(ws, r.reporting_period_start, r.reporting_period_end)
  BY DEF ordered_vector
<1>3. ASSUME ms # <<>>, NEW n \in DOMAIN ws
      PROVE  \E k \in DOMAIN ms : ws[n].membership_content_hash = ms[k].content_hash
  <2>1. ws[n].membership_content_hash \in {ms[k].content_hash : k \in DOMAIN ms} BY <1>1, <1>3
  <2>. QED BY <2>1
<1>4. j.source_products # Absent => ProductCheck(j.selection, j.source_products, pin.content_hash)
  <2>1. IsList(ws) BY DEF IsVector
  <2>. QED BY <1>1, <2>1, ProductsAgree
<1>. HIDE DEF ws, ms, pin
<1>5. /\ ws = j.selection.windows /\ ms = j.source_context.memberships /\ pin = j.definition.pin
  BY DEF ws, ms, pin
<1>. QED BY <1>1, <1>2, <1>3, <1>4, <1>5 DEF SourceContextCheck

\* A valid composite report, as it is stored, satisfies the CHECK of its contract.
LEMMA IdentityAgrees ==
    ASSUME NEW d \in Requests, NEW e \in Spellings(d), ArchiveDocumentInput(Parse(e)), IsComposite(e),
           NEW r, r = Dump(e), NEW j, j = r.composite_report_identity
    PROVE  IdentityCheck(r, j)
<1>. DEFINE p == Parse(e)
            i == p.composite_report_identity
            h == d.composite_report_identity
<1>1. /\ \A f \in Envelope : r[f] = d[f] /\ p[f] = d[f]
      /\ IsComposite(p) /\ CompositeCustodyIdentity(i) /\ IsIdentity(h)
      /\ i.contract_version = j.contract_version /\ i.selection = j.selection
      /\ i.contract_version = h.contract_version /\ i.selection = h.selection
      /\ i.contract_version # 8 => i = j /\ i = h
      /\ i.contract_version = 8 => i.source_context = j.source_context /\ i.definition = j.definition
  BY StoredForm
<1>2. /\ r.composite_id = p.composite_id
      /\ r.reporting_period_start = p.reporting_period_start /\ r.reporting_period_end = p.reporting_period_end
  BY <1>1 DEF Envelope, DocumentFields
<1>3. /\ r.composite_id = ScopeOf(i).composite_id
      /\ r.reporting_period_start = ScopeOf(i).start /\ r.reporting_period_end = ScopeOf(i).end
  BY <1>1, <1>2, ScopeAgrees
<1>4. ScopeOf(j) = ScopeOf(i) BY <1>1 DEF ScopeOf
<1>5. i.contract_version \in Versions BY <1>1 DEF CompositeCustodyIdentity
<1>6. i.contract_version \in {2, 8} /\ j.source_products # Absent
        => product_scope(j.selection, j.source_products)
  BY StoredProducts
<1>. HIDE DEF p, i, h
<1>7. CASE i.contract_version = 1 BY <1>1, <1>3, <1>4, <1>7 DEF IdentityCheck
<1>8. CASE i.contract_version = 2
  <2>1. i.source_products \notin {Absent, <<>>}
    BY <1>1, <1>8 DEF CompositeCustodyIdentity, CompositeReportIdentityV2
  <2>. QED BY <1>1, <1>3, <1>4, <1>8, <2>1 DEF IdentityCheck
<1>9. CASE i.contract_version = 3
  <2>1. exact_linked_vector(i.selection) /\ ScopeOf(i) = i.selection.source_request
    BY <1>1, <1>9 DEF CompositeCustodyIdentity, CompositeReportIdentityV3, ScopeOf
  <2>2. LinkedCheck(r, j.selection) BY <1>1, <1>3, <2>1 DEF exact_linked_vector, LinkedCheck
  <2>. QED BY <1>1, <1>3, <1>4, <1>9, <2>2 DEF IdentityCheck
<1>10. CASE i.contract_version = 4
  <2>1. MonthsCheck(r, j.selection) BY <1>1, <1>3, <1>10, MonthsAgree
  <2>. QED BY <1>1, <1>3, <1>4, <1>10, <2>1 DEF IdentityCheck
<1>11. CASE i.contract_version = 5
  <2>1. require_exact_pooled_identity(i.selection)
    BY <1>1, <1>11 DEF CompositeCustodyIdentity, CompositeReportIdentityV5
  <2>2. PooledCheck(j.selection) BY <1>1, <2>1 DEF require_exact_pooled_identity, PooledCheck
  <2>. QED BY <1>1, <1>3, <1>4, <1>11, <2>2 DEF IdentityCheck
<1>12. CASE i.contract_version = 6
  <2>1. MonthsCheck(r, j.selection) BY <1>1, <1>3, <1>12, MonthsAgree
  <2>2. All(Amendment, i.selection.months)
    BY <1>1, <1>12 DEF CompositeCustodyIdentity, CompositeReportIdentityV6
  <2>3. AmendmentCheck(j.selection) BY <1>1, <2>2 DEF All, Amendment, ParentPublication, AmendmentCheck
  <2>. QED BY <1>1, <1>3, <1>4, <1>12, <2>1, <2>3 DEF IdentityCheck
<1>13. CASE i.contract_version = 7
  <2>1. MonthsCheck(r, j.selection) BY <1>1, <1>3, <1>13, MonthsAgree
  <2>2. All(HistoricalMonth, i.selection.months)
    BY <1>1, <1>13 DEF CompositeCustodyIdentity, CompositeReportIdentityV7
  <2>3. /\ IsMonths(i.selection.months)
        /\ \A n \in DOMAIN i.selection.months : LET receipts == i.selection.months[n].lineage_receipts
                                                IN  receipts = Absent \/ IsList(receipts)
    BY <1>1, <1>13 DEF IsIdentity
  <2>4. HistoricalCheck(j.selection) BY <1>1, <2>2, <2>3, HistoricalAgrees
  <2>. QED BY <1>1, <1>3, <1>4, <1>13, <2>1, <2>4 DEF IdentityCheck
<1>14. CASE i.contract_version = 8
  <2>1. ordered_vector(i.selection) /\ source_context_agrees(i) /\ ScopeOf(i) = i.selection
    BY <1>1, <1>14 DEF CompositeCustodyIdentity, CompositeReportIdentityV8, ScopeOf
  <2>2. IsVector(i.selection.windows) BY <1>1, <1>14 DEF IsIdentity
  <2>3. r.reporting_period_start = i.selection.start /\ r.reporting_period_end = i.selection.end
    BY <1>3, <2>1
  <2>4. /\ i.selection = j.selection /\ i.source_context = j.source_context /\ i.definition = j.definition
        /\ j.source_products # Absent => product_scope(j.selection, j.source_products)
    BY <1>1, <1>6, <1>14
  <2>5. SourceContextCheck(r, j) BY ONLY <2>1, <2>2, <2>3, <2>4, ContextAgrees
  <2>. QED BY <1>1, <1>3, <1>4, <1>14, <2>5 DEF IdentityCheck
<1>. QED BY <1>5, <1>7, <1>8, <1>9, <1>10, <1>11, <1>12, <1>13, <1>14 DEF Versions

\* The contract the models state implies the one the migrations state: a document the
\* service accepted is refused by no schema that knows its version.
THEOREM ValidatedPassesTheCheckAlways == Spec => []ValidatedPassesTheCheck
<1>1. ASSUME Inv PROVE ValidatedPassesTheCheck
  <2>. DEFINE p == Parse(request)
              r == Dump(request)
              j == r.composite_report_identity
  <2>1. SUFFICES ASSUME pc = "save", level >= (IF IsComposite(request) THEN request.template_version ELSE 1)
                 PROVE  scope_check(level, r)
    <3>1. PICK d \in Requests : request \in Spellings(d) BY <1>1 DEF Inv
    <3>2. Dump(Parse(request)) = Dump(request) BY <3>1, Spelt
    <3>. QED BY <3>2 DEF ValidatedPassesTheCheck, Stored
  <2>2. PICK d \in Requests : request \in Spellings(d) BY <1>1 DEF Inv
  <2>3. ArchiveDocumentInput(p) /\ level \in Int BY <1>1, <2>1 DEF Inv
  <2>4. CASE IsComposite(request)
    <3>. DEFINE i == p.composite_report_identity
    <3>1. /\ \A f \in Envelope : r[f] = d[f] /\ p[f] = d[f] /\ request[f] = d[f]
          /\ IsComposite(p) /\ IsComposite(r) /\ j # Null /\ CompositeCustodyIdentity(i)
          /\ i.contract_version = j.contract_version /\ i.selection = j.selection
      BY <2>2, <2>3, <2>4, StoredForm
    <3>2. \A f \in Envelope : r[f] = p[f] /\ request[f] = p[f] BY <3>1
    <3>3. /\ r.portfolio_scope = p.portfolio_scope /\ r.portfolio_id = p.portfolio_id
          /\ r.composite_id = p.composite_id /\ r.tenant_id = p.tenant_id
          /\ r.as_of_date = p.as_of_date /\ r.reporting_period_end = p.reporting_period_end
          /\ r.evidence = p.evidence /\ r.template_id = p.template_id
          /\ r.template_version = p.template_version /\ r.format = p.format
          /\ r.report_data_contract_version = p.report_data_contract_version
          /\ request.template_version = p.template_version
      BY <3>2 DEF Envelope, DocumentFields
    <3>4. /\ p.portfolio_scope = "composite" /\ p.portfolio_id = Null /\ p.composite_id # Null
          /\ p.template_id = "composite-review" /\ p.format = "xlsx"
          /\ p.evidence = {"report_revision_id", "document_reference", "declared_artifact_sha256"}
      BY <2>3, <3>1 DEF ArchiveDocumentInput, _report_scope_must_agree
    <3>5. /\ p.tenant_id = i.selection.tenant_id /\ p.reporting_period_end = ScopeOf(i).end
          /\ p.as_of_date = ScopeOf(i).end /\ p.template_version = i.contract_version
          /\ p.report_data_contract_version = i.contract_version
      BY <2>3, <3>1, ScopeAgrees
    <3>6. i.contract_version \in 1 .. 8 BY <3>1 DEF CompositeCustodyIdentity, Versions
    <3>7. level >= r.template_version /\ r.template_version \in 1 .. 8 BY <2>1, <2>4, <3>3, <3>5, <3>6
    <3>8. IdentityCheck(r, j) BY <2>2, <2>3, <2>4, IdentityAgrees
    <3>9. r.template_version \in 1 .. level /\ level >= 1 BY <2>3, <3>7
    <3>. HIDE DEF p, r, i
    <3>. QED BY <3>1, <3>3, <3>4, <3>5, <3>8, <3>9 DEF scope_check
  <2>5. CASE ~IsComposite(request)
    <3>1. p \in Spellings(d) /\ r \in Spellings(d) BY <2>2, Spelt
    <3>2. Alike(d, p) /\ Alike(d, r) /\ Alike(d, request) BY <2>2, <3>1, OneDocument
    <3>3. \A f \in Envelope : p[f] = d[f] /\ r[f] = d[f] /\ request[f] = d[f] BY <3>2 DEF Alike
    <3>4. /\ r.report_type = p.report_type /\ request.report_type = p.report_type
          /\ r.portfolio_scope = p.portfolio_scope /\ r.portfolio_id = p.portfolio_id
          /\ r.composite_id = p.composite_id
      BY <3>3 DEF Envelope, DocumentFields
    <3>5. ~IsComposite(p) /\ ~IsComposite(r) BY <2>5, <3>4 DEF IsComposite
    <3>6. /\ p.portfolio_id # Null /\ p.portfolio_scope # "composite"
          /\ p.composite_id = Null /\ p.composite_report_identity = Null
      BY <2>3, <3>5 DEF ArchiveDocumentInput, _report_scope_must_agree
    <3>7. p = d BY <3>2, <3>6 DEF Alike, IsSourceContext
    <3>8. r = d BY <3>2, <3>6, <3>7 DEF Alike, IsSourceContext
    <3>9. j = Null BY <3>6, <3>7, <3>8
    <3>10. level >= 1 BY <2>1, <2>5
    <3>. HIDE DEF p, r, j
    <3>. QED BY <3>4, <3>5, <3>6, <3>9, <3>10 DEF scope_check, j
  <2>. QED BY <2>4, <2>5
<1>. QED BY <1>1, InvAlways, PTL
=============================================================================
