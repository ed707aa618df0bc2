------------------------ MODULE ArchiveWriter_proofs ------------------------
(***************************************************************************)
(* Proofs about ArchiveWriter for any number of workers, requests,         *)
(* documents and faults.                                                   *)
(***************************************************************************)
EXTENDS ArchiveWriter, FiniteSetTheorems, TLAPS

----------------------------------------------------------------------------
(* The inductive invariant. *)

\* What a worker carries, by the step it is at.
Carries(w) ==
    /\ pc[w] = "idle" => outcome[w] = "none"
    /\ pc[w] # "idle" => req[w] \in Input
    /\ pc[w] \in {"idle", "collision", "lookup"} => doc[w] = None
    /\ pc[w] \in {"put", "check", "insert", "compensate"} => doc[w] \in DocIds

\* The document id of a request in flight is its own: no row has it before the
\* insert, and from the put on the bytes of the request are stored under it.
Reserves(w) ==
    /\ pc[w] \in {"put", "check", "insert"} => \A row \in rows : row.doc # doc[w]
    /\ pc[w] \in {"check", "insert"} => objects[doc[w]] = req[w].content
    /\ pc[w] = "record" /\ doc[w] # None => \E row \in rows : row.doc = doc[w]

\* No two requests in flight have the same document id.
Apart == \A v, w \in Workers : doc[v] = doc[w] /\ doc[v] # None => v = w

\* The objects no row refers to and no request will still deal with.
Orphaned ==
    {d \in DocIds : /\ objects[d] # None
                    /\ \A row \in rows : row.doc # d
                    /\ \A w \in Workers : doc[w] = d => pc[w] = "answer"}

\* Each of them has a failure of its own.
Accounted == IsFiniteSet(Orphaned) /\ Cardinality(Orphaned) =< leaks

Inv ==
    /\ TypeOK
    /\ leaks =< faults
    /\ \A w \in Workers : Carries(w) /\ Reserves(w)
    /\ Apart
    /\ OneDocumentPerRequest
    /\ AnswersAreHeld
    /\ Accounted

\* A commit whose acknowledgement arrives is not compensated.
Uncommitted == \A w \in Workers : pc[w] = "compensate" => \A row \in rows : row.doc # doc[w]

----------------------------------------------------------------------------
(* What a step changes. *)

\* The step of one worker changes only its own request.
Others(w) ==
    \A v \in Workers \ {w} :
        pc'[v] = pc[v] /\ req'[v] = req[v] /\ doc'[v] = doc[v] /\ outcome'[v] = outcome[v]

\* A worker writes no other worker's variables.
LEMMA Isolation ==
    ASSUME TypeOK, NEW w \in Workers,
           Step(w) \/ Crash(w) \/ \E r \in Requests : create_document(w, r)
    PROVE  Others(w)
<1>. USE DEF TypeOK, Others, Goto, Decide
<1>1. CASE \E r \in Requests : create_document(w, r) BY <1>1 DEF create_document
<1>2. CASE CheckCollision(w) \/ Lookup(w) BY <1>2 DEF CheckCollision, Lookup
<1>3. CASE Put(w) \/ SaveCheck(w) BY <1>3 DEF Put, SaveCheck
<1>4. CASE Insert(w) BY <1>4 DEF Insert
<1>5. CASE Compensate(w) \/ Record(w) BY <1>5 DEF Compensate, Record
<1>6. CASE Answer(w) \/ Crash(w) BY <1>6 DEF Answer, Crash, Idle
<1>. QED BY <1>1, <1>2, <1>3, <1>4, <1>5, <1>6 DEF Step

\* A row is written by an insert that found its request id unused.
LEMMA RowsStep ==
    ASSUME [Next]_vars
    PROVE  \/ UNCHANGED rows
           \/ \E w \in Workers : /\ Insert(w) /\ ~UniqueViolation(req[w])
                                 /\ rows' = rows \cup {NewRow(w)}
<1>. USE DEF shared
<1>1. ASSUME NEW w \in Workers, Insert(w)
      PROVE  UNCHANGED rows \/ (~UniqueViolation(req[w]) /\ rows' = rows \cup {NewRow(w)})
  BY <1>1 DEF Insert
<1>2. ASSUME NEW w \in Workers, Step(w) \/ Crash(w) \/ \E r \in Requests : create_document(w, r)
      PROVE  UNCHANGED rows \/ Insert(w)
  BY <1>2 DEF Step, CheckCollision, Lookup, Put, SaveCheck, Compensate, Record, Answer, Idle,
              Crash, create_document
<1>. QED BY <1>1, <1>2 DEF Next, Destroy, vars

\* An object is written by the put of the request that owns its key and deleted
\* by the compensation of that request or by the destruction of its document.
LEMMA ObjectsStep ==
    ASSUME [Next]_vars
    PROVE  \/ UNCHANGED objects
           \/ \E w \in Workers : Put(w) /\ objects' = [objects EXCEPT ![doc[w]] = req[w].content]
           \/ \E w \in Workers : Compensate(w) /\ objects' = [objects EXCEPT ![doc[w]] = None]
           \/ \E row \in rows : Destroy(row) /\ objects' = [objects EXCEPT ![row.doc] = None]
<1>. USE DEF shared, StorageKey
<1>1. ASSUME NEW w \in Workers, Put(w)
      PROVE  UNCHANGED objects \/ objects' = [objects EXCEPT ![doc[w]] = req[w].content]
  BY <1>1 DEF Put
<1>2. ASSUME NEW w \in Workers, Compensate(w)
      PROVE  UNCHANGED objects \/ objects' = [objects EXCEPT ![doc[w]] = None]
  BY <1>2 DEF Compensate
<1>3. ASSUME NEW w \in Workers, Step(w) \/ Crash(w) \/ \E r \in Requests : create_document(w, r)
      PROVE  UNCHANGED objects \/ Put(w) \/ Compensate(w)
  BY <1>3 DEF Step, CheckCollision, Lookup, SaveCheck, Insert, Record, Answer, Idle,
              Crash, create_document
<1>4. ASSUME NEW row \in rows, Destroy(row) PROVE objects' = [objects EXCEPT ![row.doc] = None]
  BY <1>4 DEF Destroy
<1>. QED BY <1>1, <1>2, <1>3, <1>4 DEF Next, vars

----------------------------------------------------------------------------
(* Types. *)

\* A row that is inserted is well formed.
LEMMA NewRowType ==
    ASSUME TypeOK, NEW w \in Workers, Carries(w), pc[w] = "insert"
    PROVE  /\ NewRow(w) \in Row
           /\ NewRow(w).doc = doc[w] /\ NewRow(w).input = req[w]
           /\ NewRow(w).checksum = Sum[req[w].content]
<1>1. req[w] \in Input /\ doc[w] \in DocIds BY DEF Carries
<1>2. Sum[req[w].content] \in Sums BY <1>1, SumAssumption DEF Input
<1>. QED BY <1>1, <1>2 DEF NewRow, Row

\* A step leaves the state well typed, and counts a leak only with a fault.
LEMMA TypeNext ==
    ASSUME TypeOK, leaks =< faults, \A w \in Workers : Carries(w), [Next]_vars
    PROVE  TypeOK' /\ leaks' =< faults'
<1>. USE DEF shared
<1>t. /\ rows \in SUBSET Row /\ objects \in [DocIds -> Contents \cup {None}]
      /\ destroyed \in SUBSET DocIds /\ pc \in [Workers -> Steps]
      /\ req \in [Workers -> Input \cup {None}] /\ doc \in [Workers -> DocIds \cup {None}]
      /\ outcome \in [Workers -> Outcomes] /\ faults \in 0..MaxFaults /\ leaks \in 0..MaxFaults
  BY DEF TypeOK
<1>r. rows' \in SUBSET Row BY <1>t, RowsStep, NewRowType DEF Insert
<1>o. objects' \in [DocIds -> Contents \cup {None}]
  <2>1. ASSUME NEW w \in Workers, Put(w)
        PROVE  [objects EXCEPT ![doc[w]] = req[w].content] \in [DocIds -> Contents \cup {None}]
    BY <2>1, <1>t DEF Put, Carries, Input
  <2>. QED BY <2>1, <1>t, ObjectsStep
<1>f. faults' \in 0..MaxFaults /\ leaks' \in 0..MaxFaults /\ leaks' =< faults'
  <2>0. MaxFaults \in Nat BY FaultsAssumption
  <2>1. \/ UNCHANGED <<faults, leaks>>
        \/ faults < MaxFaults /\ faults' = faults + 1 /\ leaks' = leaks + 1
        \/ faults < MaxFaults /\ faults' = faults + 1 /\ UNCHANGED leaks
    BY DEF Next, Step, CheckCollision, Lookup, Put, SaveCheck, Insert, Compensate, Record, Answer,
           Crash, create_document, Destroy, Fault, vars
  <2>. QED BY <2>0, <2>1, <1>t
<1>1. ASSUME NEW w \in Workers, Step(w) \/ Crash(w) \/ \E r \in Requests : create_document(w, r)
      PROVE  /\ UNCHANGED destroyed /\ pc' \in [Workers -> Steps]
             /\ req' \in [Workers -> Input \cup {None}]
             /\ doc' \in [Workers -> DocIds \cup {None}]
             /\ outcome' \in [Workers -> Outcomes]
  <2>. USE <1>t DEF Goto, Decide, Steps, Outcomes
  <2>1. CASE \E r \in Requests : create_document(w, r)
    BY <2>1, RequestsAssumption DEF create_document
  <2>2. CASE CheckCollision(w) BY <2>2 DEF CheckCollision
  <2>3. CASE Lookup(w) BY <2>3 DEF Lookup, Fresh
  <2>4. CASE Put(w) \/ SaveCheck(w) BY <2>4 DEF Put, SaveCheck
  <2>5. CASE Insert(w) BY <2>5 DEF Insert
  <2>6. CASE Compensate(w) \/ Record(w) BY <2>6 DEF Compensate, Record
  <2>7. CASE Answer(w) \/ Crash(w) BY <2>7 DEF Answer, Crash, Idle
  <2>. QED BY <1>1, <2>1, <2>2, <2>3, <2>4, <2>5, <2>6, <2>7 DEF Step
<1>2. ASSUME NEW row \in rows, Destroy(row)
      PROVE  /\ destroyed' \in SUBSET DocIds /\ UNCHANGED <<pc, req, doc, outcome>>
  BY <1>2, <1>t DEF Destroy, Row
<1>3. CASE UNCHANGED vars BY <1>3, <1>t, <1>f DEF vars, TypeOK
<1>. QED BY <1>1, <1>2, <1>3, <1>r, <1>o, <1>f, <1>t DEF Next, TypeOK

----------------------------------------------------------------------------
(* The parts of the invariant. *)

\* A step leaves its worker with what the next step needs.
LEMMA CarriesStep ==
    ASSUME TypeOK, NEW w \in Workers, Carries(w),
           Step(w) \/ Crash(w) \/ \E r \in Requests : create_document(w, r)
    PROVE  Carries(w)'
<1>. USE DEF TypeOK, Carries, Goto, Decide
<1>1. CASE \E r \in Requests : create_document(w, r)
  BY <1>1, RequestsAssumption DEF create_document
<1>2. CASE CheckCollision(w) BY <1>2 DEF CheckCollision
<1>3. CASE Lookup(w) BY <1>3 DEF Lookup, Fresh
<1>4. CASE Put(w) \/ SaveCheck(w) BY <1>4 DEF Put, SaveCheck
<1>5. CASE Insert(w) BY <1>5 DEF Insert
<1>6. CASE Compensate(w) \/ Record(w) BY <1>6 DEF Compensate, Record
<1>7. CASE Answer(w) \/ Crash(w) BY <1>7 DEF Answer, Crash, Idle
<1>. QED BY <1>1, <1>2, <1>3, <1>4, <1>5, <1>6, <1>7 DEF Step

\* What a worker has reserved is out of reach of the others: the row another one
\* inserts has another document id, its put and its compensation another key,
\* and only documents that have a row are destroyed.
LEMMA ReservesLasts ==
    ASSUME Inv, [Next]_vars, NEW v \in Workers,
           pc'[v] = pc[v], req'[v] = req[v], doc'[v] = doc[v]
    PROVE  Reserves(v)'
<1>t. /\ objects \in [DocIds -> Contents \cup {None}] /\ pc \in [Workers -> Steps]
      /\ doc \in [Workers -> DocIds \cup {None}] /\ rows \subseteq Row
  BY DEF Inv, TypeOK
<1>i. /\ Reserves(v) /\ Apart /\ \A w \in Workers : Carries(w)
      /\ pc[v] \in {"put", "check", "insert", "compensate"} => doc[v] \in DocIds /\ doc[v] # None
  BY NoneAssumption DEF Inv, Carries
<1>1. pc[v] \in {"put", "check", "insert"} => \A row \in rows' : row.doc # doc[v]
  <2>1. ASSUME NEW w \in Workers, Insert(w) PROVE w # v /\ NewRow(w).doc = doc[w]
    BY <2>1, <1>t, <1>i, NewRowType DEF Insert, Goto, Inv
  <2>. QED BY <2>1, <1>i, RowsStep DEF Reserves, Apart
<1>2. pc[v] \in {"check", "insert"} => objects'[doc[v]] = objects[doc[v]]
  <2>1. ASSUME NEW w \in Workers, Put(w) \/ Compensate(w) PROVE w # v
    BY <2>1, <1>t DEF Put, Compensate, Goto
  <2>2. CASE pc[v] \in {"check", "insert"}
    <3>1. ASSUME NEW w \in Workers, Put(w) \/ Compensate(w) PROVE doc[w] # doc[v]
      BY <2>1, <2>2, <3>1, <1>i DEF Apart
    <3>2. ASSUME NEW row \in rows PROVE row.doc # doc[v] BY <2>2, <1>i DEF Reserves
    <3>. QED BY <2>2, <3>1, <3>2, <1>t, <1>i, ObjectsStep
  <2>. QED BY <2>2
<1>3. rows \subseteq rows' BY RowsStep
<1>. QED BY <1>1, <1>2, <1>3, <1>i DEF Reserves

\* A step reserves what the next one relies on.
LEMMA ReservesStep ==
    ASSUME Inv, [Next]_vars, NEW w \in Workers,
           Step(w) \/ Crash(w) \/ \E r \in Requests : create_document(w, r)
    PROVE  Reserves(w)'
<1>. USE DEF Goto, Decide, shared
<1>t. /\ objects \in [DocIds -> Contents \cup {None}] /\ pc \in [Workers -> Steps]
      /\ doc \in [Workers -> DocIds \cup {None}] /\ rows \subseteq Row
      /\ Carries(w) /\ Reserves(w)
  BY DEF Inv, TypeOK
<1>0. CASE pc'[w] \in {"idle", "answer", "collision", "lookup", "compensate"} BY <1>0 DEF Reserves
<1>1. CASE \E r \in Requests : create_document(w, r) BY <1>0, <1>1, <1>t DEF create_document
<1>2. CASE CheckCollision(w) \/ Compensate(w) BY <1>0, <1>2, <1>t DEF CheckCollision, Compensate
<1>3. CASE Lookup(w) BY <1>0, <1>3, <1>t DEF Lookup, Fresh, Reserves, Carries
<1>4. CASE Put(w)
  <2>1. CASE pc'[w] = "check"
    <3>1. objects' = [objects EXCEPT ![doc[w]] = req[w].content] /\ UNCHANGED <<rows, req, doc>>
      BY <1>4, <2>1, <1>t DEF Put, StorageKey
    <3>. QED BY <1>4, <2>1, <3>1, <1>t DEF Put, Reserves, Carries
  <2>. QED BY <1>0, <1>4, <2>1, <1>t DEF Put
<1>5. CASE SaveCheck(w) BY <1>0, <1>5, <1>t DEF SaveCheck, Reserves
<1>6. CASE Insert(w)
  <2>1. CASE pc'[w] = "record"
    <3>1. rows' = rows \cup {NewRow(w)} /\ UNCHANGED doc BY <1>6, <2>1, <1>t DEF Insert
    <3>2. NewRow(w).doc = doc[w] BY <1>6, <1>t, NewRowType DEF Insert, Inv
    <3>. QED BY <2>1, <3>1, <3>2 DEF Reserves
  <2>. QED BY <1>0, <1>6, <2>1, <1>t DEF Insert
<1>7. CASE Record(w) \/ Answer(w) \/ Crash(w) BY <1>0, <1>7, <1>t DEF Record, Answer, Crash, Idle
<1>. QED BY <1>1, <1>2, <1>3, <1>4, <1>5, <1>6, <1>7 DEF Step

\* A worker's own step or another's: what it carries and reserves is in order.
LEMMA RequestsKept ==
    ASSUME Inv, [Next]_vars, NEW v \in Workers
    PROVE  Carries(v)' /\ Reserves(v)'
<1>0. TypeOK /\ Carries(v) BY DEF Inv
<1>1. ASSUME pc'[v] = pc[v], req'[v] = req[v], doc'[v] = doc[v], outcome'[v] = outcome[v]
      PROVE  Carries(v)' /\ Reserves(v)'
  BY <1>0, <1>1, ReservesLasts DEF Carries
<1>2. ASSUME NEW w \in Workers, v # w,
             Step(w) \/ Crash(w) \/ \E r \in Requests : create_document(w, r)
      PROVE  Carries(v)' /\ Reserves(v)'
  <2>1. Others(w) BY <1>0, <1>2, Isolation
  <2>. QED BY <1>1, <1>2, <2>1 DEF Others
<1>3. CASE Step(v) \/ Crash(v) \/ \E r \in Requests : create_document(v, r)
  BY <1>0, <1>3, CarriesStep, ReservesStep
<1>4. CASE UNCHANGED vars \/ \E row \in rows : Destroy(row) BY <1>1, <1>4 DEF vars, Destroy
<1>. QED BY <1>2, <1>3, <1>4 DEF Next

\* Document ids are fresh, and one that is dropped is not handed on.
LEMMA ApartNext ==
    ASSUME Inv, [Next]_vars
    PROVE  Apart'
<1>. USE DEF Goto, Decide, shared
<1>t. TypeOK /\ doc \in [Workers -> DocIds \cup {None}] /\ Apart BY DEF Inv, TypeOK
<1>1. ASSUME NEW w \in Workers, Step(w) \/ Crash(w) \/ \E r \in Requests : create_document(w, r)
      PROVE  Apart'
  <2>1. \/ UNCHANGED doc
        \/ doc' = [doc EXCEPT ![w] = None]
        \/ \E d \in Fresh : doc' = [doc EXCEPT ![w] = d]
    BY <1>1 DEF Step, CheckCollision, Lookup, Put, SaveCheck, Insert, Compensate, Record, Answer,
                Idle, Crash, create_document
  <2>. QED BY <2>1, <1>t DEF Apart, Fresh
<1>. QED BY <1>1, <1>t DEF Next, Destroy, vars, Apart

\* The unique index decides between two requests with one id, and the document
\* id of a request in flight is in no row.
LEMMA OneDocumentNext ==
    ASSUME Inv, [Next]_vars
    PROVE  OneDocumentPerRequest'
<1>1. ASSUME NEW w \in Workers, Insert(w), ~UniqueViolation(req[w]), NEW row \in rows
      PROVE  row.input.id # NewRow(w).input.id /\ row.doc # NewRow(w).doc
  BY <1>1, NewRowType DEF Insert, Inv, UniqueViolation, RowsOf, Reserves
<1>. QED BY <1>1, RowsStep DEF Inv, OneDocumentPerRequest

\* A final answer is given when the row it speaks of is stored, and rows stay.
LEMMA AnswersNext ==
    ASSUME Inv, [Next]_vars
    PROVE  AnswersAreHeld'
<1>. USE DEF Goto, Decide, shared
<1>t. /\ TypeOK /\ pc \in [Workers -> Steps] /\ outcome \in [Workers -> Outcomes]
      /\ req \in [Workers -> Input \cup {None}] /\ AnswersAreHeld
      /\ \A v \in Workers : Carries(v)
  BY DEF Inv, TypeOK
<1>g. rows \subseteq rows' BY RowsStep
<1>. DEFINE Held(v) == \E row \in rows : row.input = req[v] /\ row.checksum = Sum[req[v].content]
<1>1. ASSUME NEW v \in Workers, req'[v] = req[v], outcome'[v] = outcome[v],
             outcome'[v] \in {"created", "replayed"}
      PROVE  Held(v)'
  BY <1>1, <1>t, <1>g DEF AnswersAreHeld
<1>2. ASSUME NEW w \in Workers, Step(w) \/ Crash(w) \/ \E r \in Requests : create_document(w, r),
             outcome'[w] \in {"created", "replayed"}
      PROVE  Held(w)'
  <2>1. CASE \E r \in Requests : create_document(w, r)
    BY <1>2, <2>1, <1>t DEF create_document, Carries
  <2>2. CASE CheckCollision(w) \/ Put(w) \/ SaveCheck(w) \/ Compensate(w) \/ Record(w)
    <3>1. req' = req /\ outcome'[w] = outcome[w]
      BY <1>2, <2>2, <1>t DEF CheckCollision, Put, SaveCheck, Compensate, Record
    <3>. QED BY <1>1, <1>2, <3>1
  <2>3. CASE Lookup(w)
    <3>1. CASE outcome'[w] = outcome[w] BY <1>1, <1>2, <2>3, <3>1 DEF Lookup
    <3>2. CASE outcome'[w] # outcome[w]
      <4>1. /\ req' = req
            /\ \E row \in RowsOf(req[w].id) : row.checksum = Sum[req[w].content] /\ row.input = req[w]
        BY <1>2, <2>3, <3>2, <1>t DEF Lookup
      <4>. QED BY <4>1, <1>g DEF RowsOf
    <3>. QED BY <3>1, <3>2
  <2>4. CASE Insert(w)
    <3>1. rows' = rows \cup {NewRow(w)} /\ req' = req BY <1>2, <2>4, <1>t DEF Insert
    <3>2. NewRow(w).input = req[w] /\ NewRow(w).checksum = Sum[req[w].content]
      BY <2>4, <1>t, NewRowType DEF Insert
    <3>. QED BY <3>1, <3>2
  <2>5. CASE Answer(w) \/ Crash(w) BY <1>2, <2>5, <1>t DEF Answer, Crash, Idle
  <2>. QED BY <1>2, <2>1, <2>2, <2>3, <2>4, <2>5 DEF Step
<1>3. ASSUME NEW v \in Workers, outcome'[v] \in {"created", "replayed"} PROVE Held(v)'
  <2>1. ASSUME NEW w \in Workers, v # w,
               Step(w) \/ Crash(w) \/ \E r \in Requests : create_document(w, r)
        PROVE  Held(v)'
    <3>1. Others(w) BY <2>1, <1>t, Isolation
    <3>. QED BY <1>1, <1>3, <2>1, <3>1 DEF Others
  <2>2. CASE UNCHANGED vars \/ \E row \in rows : Destroy(row)
    BY <1>1, <1>3, <2>2 DEF vars, Destroy
  <2>. QED BY <1>2, <1>3, <2>1, <2>2 DEF Next
<1>. QED BY <1>3 DEF AnswersAreHeld

----------------------------------------------------------------------------
(* Orphaned objects. *)

\* One object more needs one failure more.
LEMMA OneMore ==
    ASSUME NEW S, IsFiniteSet(S), NEW n \in Nat, Cardinality(S) =< n, NEW x, NEW T,
           T \subseteq S \cup {x}
    PROVE  IsFiniteSet(T) /\ Cardinality(T) =< n + 1
<1>1. IsFiniteSet(S \cup {x}) /\ Cardinality(S \cup {x}) =< Cardinality(S) + 1
  <2>0. Cardinality(S) \in Nat BY FS_CardinalityType
  <2>1. CASE x \in S
    <3>1. S \cup {x} = S BY <2>1
    <3>2. Cardinality(S) =< Cardinality(S) + 1 BY <2>0
    <3>. QED BY <3>1, <3>2
  <2>2. CASE x \notin S
    <3>1. IsFiniteSet(S \cup {x}) /\ Cardinality(S \cup {x}) = Cardinality(S) + 1
      BY <2>2, FS_AddElement
    <3>. QED BY <3>1, <2>0
  <2>. QED BY <2>1, <2>2
<1>2. IsFiniteSet(T) /\ Cardinality(T) =< Cardinality(S \cup {x}) BY <1>1, FS_Subset
<1>3. /\ Cardinality(T) \in Nat /\ Cardinality(S) \in Nat /\ Cardinality(S \cup {x}) \in Nat
  BY <1>1, <1>2, FS_CardinalityType
<1>. QED BY <1>1, <1>2, <1>3

\* No object more needs none.
LEMMA NoMore ==
    ASSUME NEW S, IsFiniteSet(S), NEW n \in Nat, Cardinality(S) =< n, NEW T, T \subseteq S
    PROVE  IsFiniteSet(T) /\ Cardinality(T) =< n
<1>1. IsFiniteSet(T) /\ Cardinality(T) =< Cardinality(S) BY FS_Subset
<1>2. Cardinality(T) \in Nat /\ Cardinality(S) \in Nat BY <1>1, FS_CardinalityType
<1>. QED BY <1>1, <1>2

\* A step orphans at most the object of its own request, and that only when it
\* counts a leak.
LEMMA OrphanedStep ==
    ASSUME Inv, NEW w \in Workers,
           Step(w) \/ Crash(w) \/ \E r \in Requests : create_document(w, r)
    PROVE  \/ Orphaned' \subseteq Orphaned /\ leaks' = leaks
           \/ Orphaned' \subseteq Orphaned \cup {doc[w]} /\ leaks' = leaks + 1
<1>. USE DEF Goto, Decide, shared
<1>t. /\ objects \in [DocIds -> Contents \cup {None}] /\ pc \in [Workers -> Steps]
      /\ doc \in [Workers -> DocIds \cup {None}]
      /\ Carries(w) /\ Reserves(w)
  BY DEF Inv, TypeOK
<1>o. Others(w) BY Isolation DEF Inv
<1>1. CASE \E r \in Requests : create_document(w, r)
  BY <1>1, <1>t, NoneAssumption DEF create_document, Orphaned, Carries
<1>2. CASE CheckCollision(w) BY <1>2, <1>t, NoneAssumption DEF CheckCollision, Orphaned, Carries
<1>3. CASE Lookup(w)
  <2>1. UNCHANGED <<objects, rows, leaks>> /\ doc[w] = None BY <1>3, <1>t DEF Lookup, Carries
  <2>2. CASE UNCHANGED doc BY <2>1, <2>2, <1>o, NoneAssumption DEF Others, Orphaned
  <2>3. ASSUME NEW d \in Fresh, doc' = [doc EXCEPT ![w] = d]
        PROVE  Orphaned' \subseteq Orphaned
    BY <2>1, <2>3, <1>t, <1>o, NoneAssumption DEF Others, Orphaned, Fresh
  <2>. QED BY <1>3, <2>1, <2>2, <2>3 DEF Lookup
<1>4. CASE Put(w)
  <2>1. UNCHANGED <<rows, doc>> /\ doc[w] \in DocIds BY <1>4, <1>t DEF Put, Carries
  <2>2. ASSUME NEW d \in DocIds, d # doc[w] PROVE objects'[d] = objects[d]
    BY <1>4, <2>1, <2>2, <1>t DEF Put, StorageKey
  <2>3. Orphaned' \subseteq Orphaned \cup {doc[w]}
    BY <2>1, <2>2, <1>t, <1>o DEF Others, Orphaned
  <2>4. CASE leaks' = leaks + 1 BY <2>3, <2>4
  <2>5. CASE pc'[w] = "check" /\ leaks' = leaks BY <2>1, <2>3, <2>5 DEF Orphaned
  <2>. QED BY <1>4, <2>4, <2>5, <1>t DEF Put
<1>5. CASE SaveCheck(w) BY <1>5, <1>t, <1>o DEF SaveCheck, Orphaned, Others
<1>6. CASE Insert(w)
  <2>1. UNCHANGED <<objects, doc, leaks>> /\ rows \subseteq rows' /\ pc'[w] # "answer"
    BY <1>6, <1>t DEF Insert
  <2>. QED BY <2>1, <1>o DEF Others, Orphaned
<1>7. CASE Compensate(w)
  <2>1. UNCHANGED <<rows, doc>> /\ doc[w] \in DocIds BY <1>7, <1>t DEF Compensate, Carries
  <2>2. CASE leaks' = leaks + 1 /\ UNCHANGED objects
    BY <2>1, <2>2, <1>t, <1>o DEF Others, Orphaned
  <2>3. CASE leaks' = leaks /\ objects' = [objects EXCEPT ![doc[w]] = None]
    BY <2>1, <2>3, <1>t, <1>o DEF Others, Orphaned
  <2>. QED BY <1>7, <2>2, <2>3 DEF Compensate, StorageKey
<1>8. CASE Record(w) BY <1>8, <1>t, <1>o, NoneAssumption DEF Record, Orphaned, Others, Reserves
<1>9. CASE Answer(w) BY <1>9, <1>t, <1>o DEF Answer, Idle, Orphaned, Others
<1>10. CASE Crash(w) BY <1>10, <1>t, <1>o DEF Crash, Idle, Orphaned, Others
<1>. QED BY <1>1, <1>2, <1>3, <1>4, <1>5, <1>6, <1>7, <1>8, <1>9, <1>10 DEF Step

\* Every orphaned object stays accounted for.
LEMMA AccountedNext ==
    ASSUME Inv, [Next]_vars
    PROVE  Accounted'
<1>t. Accounted /\ leaks \in Nat /\ objects \in [DocIds -> Contents \cup {None}]
  BY FaultsAssumption DEF Inv, TypeOK
<1>1. ASSUME NEW w \in Workers, Step(w) \/ Crash(w) \/ \E r \in Requests : create_document(w, r)
      PROVE  Accounted'
  <2>1. CASE Orphaned' \subseteq Orphaned /\ leaks' = leaks
    BY <2>1, <1>t, NoMore DEF Accounted
  <2>2. CASE Orphaned' \subseteq Orphaned \cup {doc[w]} /\ leaks' = leaks + 1
    BY <2>2, <1>t, OneMore DEF Accounted
  <2>. QED BY <1>1, <2>1, <2>2, OrphanedStep
<1>2. ASSUME NEW row \in rows, Destroy(row) PROVE Accounted'
  <2>1. Orphaned' \subseteq Orphaned /\ leaks' = leaks
    BY <1>2, <1>t DEF Destroy, StorageKey, Orphaned
  <2>. QED BY <2>1, <1>t, NoMore DEF Accounted
<1>3. CASE UNCHANGED vars BY <1>3, <1>t DEF vars, shared, Accounted, Orphaned
<1>. QED BY <1>1, <1>2, <1>3 DEF Next

----------------------------------------------------------------------------
(* Theorems. *)

\* An empty archive satisfies the invariant.
LEMMA InvInit == Init => Inv
<1>. SUFFICES ASSUME Init PROVE Inv OBVIOUS
<1>1. TypeOK /\ leaks =< faults
  BY FaultsAssumption DEF Init, TypeOK, Steps, Outcomes
<1>2. Accounted
  <2>1. Orphaned = {} BY DEF Init, Orphaned
  <2>. QED BY <2>1, FS_EmptySet DEF Init, Accounted
<1>. QED BY <1>1, <1>2 DEF Init, Inv, Carries, Reserves, Apart, OneDocumentPerRequest, AnswersAreHeld

\* Every step keeps it, whatever fails.
LEMMA InvNext == Inv /\ [Next]_vars => Inv'
<1>. SUFFICES ASSUME Inv, [Next]_vars PROVE Inv' OBVIOUS
<1>1. TypeOK' /\ leaks' =< faults' BY TypeNext DEF Inv
<1>2. \A w \in Workers : Carries(w)' /\ Reserves(w)' BY RequestsKept
<1>3. Apart' /\ OneDocumentPerRequest' /\ AnswersAreHeld' /\ Accounted'
  BY ApartNext, OneDocumentNext, AnswersNext, AccountedNext
<1>. QED BY <1>1, <1>2, <1>3 DEF Inv

\* The invariant holds throughout.
THEOREM InvAlways == Spec => []Inv
BY InvInit, InvNext, PTL DEF Spec

\* Two overlapping creates never archive two documents under one request id, nor
\* one document id twice.
THEOREM OneDocumentPerRequestAlways == Spec => []OneDocumentPerRequest
<1>1. Inv => OneDocumentPerRequest BY DEF Inv
<1>. QED BY InvAlways, <1>1, PTL

\* "Archived" is only said of a document that is stored as it was sent.
THEOREM AnswersAreHeldAlways == Spec => []AnswersAreHeld
<1>1. Inv => AnswersAreHeld BY DEF Inv
<1>. QED BY InvAlways, <1>1, PTL

\* Every object that is left behind is the trace of a failure of its own.
THEOREM OrphansAreAccountedAlways == Spec => []OrphansAreAccounted
<1>1. Inv => OrphansAreAccounted
  <2>. SUFFICES ASSUME Inv PROVE OrphansAreAccounted OBVIOUS
  <2>. DEFINE Left == {d \in DocIds : /\ objects[d] # None
                                      /\ \A row \in rows : row.doc # d
                                      /\ \A w \in Workers : doc[w] # d}
  <2>1. Left \subseteq Orphaned BY DEF Orphaned
  <2>2. leaks \in Nat BY FaultsAssumption DEF Inv, TypeOK
  <2>3. Cardinality(Left) =< leaks BY <2>1, <2>2, NoMore DEF Inv, Accounted
  <2>. QED BY <2>3 DEF OrphansAreAccounted
<1>. QED BY InvAlways, <1>1, PTL

\* A compensation finds no row of its document, if no acknowledgement of a
\* commit is lost.
LEMMA UncommittedNext ==
    ASSUME "commit_ack" \notin Faults, Inv, Uncommitted, [Next]_vars
    PROVE  Uncommitted'
<1>. USE DEF Goto, shared
<1>t. TypeOK /\ pc \in [Workers -> Steps] /\ Apart BY DEF Inv, TypeOK
<1>. SUFFICES ASSUME NEW v \in Workers, pc'[v] = "compensate", NEW row \in rows'
              PROVE  row.doc # doc'[v]
  BY DEF Uncommitted
<1>1. CASE pc[v] = "compensate" /\ doc'[v] = doc[v]
  <2>1. ASSUME NEW w \in Workers, Insert(w) PROVE NewRow(w).doc # doc[v]
    <3>1. w # v BY <2>1, <1>1, <1>t DEF Insert
    <3>2. NewRow(w).doc = doc[w] /\ doc[v] \in DocIds
      BY <2>1, <1>1, <1>t, NewRowType DEF Insert, Inv, Carries
    <3>. QED BY <3>1, <3>2, <1>t, NoneAssumption DEF Apart
  <2>. QED BY <1>1, <2>1, RowsStep DEF Uncommitted
<1>2. CASE Step(v) \/ Crash(v) \/ \E r \in Requests : create_document(v, r)
  <2>1. /\ pc[v] \in {"check", "insert"} /\ UNCHANGED doc
        /\ UNCHANGED rows
    BY <1>2, <1>t
       DEF Step, CheckCollision, Lookup, Put, SaveCheck, Insert, Compensate, Record, Answer, Idle,
           Crash, create_document, Fault
  <2>. QED BY <2>1 DEF Inv, Reserves
<1>3. ASSUME NEW w \in Workers, v # w,
             Step(w) \/ Crash(w) \/ \E r \in Requests : create_document(w, r)
      PROVE  pc[v] = "compensate" /\ doc'[v] = doc[v]
  BY <1>3, <1>t, Isolation DEF Others
<1>4. CASE UNCHANGED vars \/ \E r \in rows : Destroy(r) BY <1>1, <1>4 DEF vars, Destroy
<1>. QED BY <1>1, <1>2, <1>3, <1>4 DEF Next

\* The bytes of a document are touched by its own destruction only.
LEMMA BytesNext ==
    ASSUME Inv, Uncommitted, BytesBehindRows, [Next]_vars
    PROVE  BytesBehindRows'
<1>. USE DEF StorageKey
<1>t. objects \in [DocIds -> Contents \cup {None}] /\ rows \subseteq Row
  BY DEF Inv, TypeOK
<1>1. ASSUME NEW row \in rows, row.doc \notin destroyed'
      PROVE  objects'[row.doc] = row.input.content
  <2>0. destroyed \subseteq destroyed' BY DEF Next, Step, CheckCollision, Lookup, Put, SaveCheck,
       Insert, Compensate, Record, Answer, Idle, Crash, create_document, Destroy, shared, vars
  <2>1. objects[row.doc] = row.input.content BY <1>1, <2>0 DEF BytesBehindRows
  <2>2. ASSUME NEW w \in Workers, Put(w) PROVE doc[w] # row.doc
    BY <2>2 DEF Put, Inv, Reserves
  <2>3. ASSUME NEW w \in Workers, Compensate(w) PROVE doc[w] # row.doc
    BY <2>3 DEF Compensate, Uncommitted
  <2>4. ASSUME NEW r \in rows, Destroy(r) PROVE r.doc # row.doc BY <1>1, <2>4 DEF Destroy
  <2>. QED BY <2>1, <2>2, <2>3, <2>4, <1>t, ObjectsStep DEF Row
<1>2. ASSUME NEW w \in Workers, Insert(w)
      PROVE  /\ objects'[NewRow(w).doc] = NewRow(w).input.content
             /\ NewRow(w).checksum = Sum[NewRow(w).input.content]
  <2>1. /\ NewRow(w).doc = doc[w] /\ NewRow(w).input = req[w]
        /\ NewRow(w).checksum = Sum[req[w].content]
    BY <1>2, NewRowType DEF Insert, Inv
  <2>2. objects'[doc[w]] = req[w].content BY <1>2 DEF Insert, Inv, Reserves
  <2>. QED BY <2>1, <2>2
<1>. QED BY <1>1, <1>2, RowsStep DEF BytesBehindRows

\* Where commits are acknowledged, every document that was not destroyed has
\* exactly its bytes, whatever else fails and whichever request loses a race.
THEOREM BytesBehindRowsAlways ==
    ASSUME "commit_ack" \notin Faults
    PROVE  Spec => []BytesBehindRows
<1>1. Init => Uncommitted /\ BytesBehindRows BY DEF Init, Uncommitted, BytesBehindRows
<1>2. Inv /\ Uncommitted /\ BytesBehindRows /\ [Next]_vars => (Uncommitted /\ BytesBehindRows)'
  BY UncommittedNext, BytesNext
<1>. QED BY InvAlways, <1>1, <1>2, PTL DEF Spec
=============================================================================
