-------------------------- MODULE Transactions_proofs --------------------------
(***************************************************************************)
(* Proofs about Transactions for any number of connections, documents and  *)
(* holds: a call of the repository port is atomic although it is several   *)
(* statements, migration 013 leaves every summary as the hold rows say,    *)
(* and no transactions wait for each other in a circle.                    *)
(***************************************************************************)
EXTENDS Transactions, FiniteSetTheorems, TLAPS

----------------------------------------------------------------------------
(* The inductive invariant. *)

Steps == {"idle", "update", "lock", "insert", "count", "clear", "recount", "link", "commit"}

TypeOK ==
    /\ rows \in [Docs -> Rows]
    /\ holds \in HoldRows
    /\ superseded_by \in [Docs -> Docs \cup {Unset}]
    /\ origin \in [Docs -> Docs \cup {Unset}]
    /\ lock \in [Docs -> Txns \cup {NoTxn}]
    /\ txn \in [Txns -> [pc : Steps, call : Calls \cup {NoCall}, snapshot : HoldRows]]
    /\ written = [t \in Txns |-> written[t]]
    /\ repair.step \in {"none", "requested", "held", "done"}
    /\ repair = [step |-> repair.step, derived |-> repair.derived]

\* The writes of a call that is done with its statements are what the call makes of
\* the committed rows, and the rows it read and wrote are locked.
Complete(t) ==
    LET c == txn[t].call
        d == c.source
    IN  \/ /\ c.op \in Updates \cup {"refresh"} /\ lock[d] = t
           /\ written[t] = [rows |-> One(d, Set(c.op, rows[d], HoldsOf(d, holds))),
                            holds |-> <<>>, link |-> {}]
        \/ /\ c.op = "admit" /\ lock[d] = t /\ CanAdmit(rows[d])
           /\ written[t] = [rows |-> One(d, admit_and_record_legal_hold(rows[d], HoldsOf(d, holds), c.hold)),
                            holds |-> One(c.hold, "active"), link |-> {}]
        \/ /\ c.op = "release" /\ lock[d] = t
           /\ written[t] = [rows |-> One(d, release_and_record_legal_hold(rows[d], HoldsOf(d, holds), c.hold)),
                            holds |-> One(c.hold, ReleaseHold(holds, c.hold)[c.hold]), link |-> {}]
        \/ /\ c.op = "transition" /\ lock[d] = t /\ lock[c.target] = t
           /\ CanLink(d, c.target)
           /\ written[t] = [rows |-> <<>>, holds |-> <<>>, link |-> {<<d, c.target>>}]

\* What a transaction has written and locked, by the statement it is at.
Progress(t) ==
    LET c == txn[t].call
        d == c.source
        pc == txn[t].pc
    IN  /\ pc # "idle" => c \in Calls
        /\ pc \in {"idle", "update", "lock", "clear", "link"} => written[t] = NoWrites
        /\ pc = "update" => c.op \in Updates \cup {"admit"}
        /\ pc = "lock" => c.op \in {"refresh", "release", "transition"}
        /\ pc \in {"insert", "count"} =>
              /\ c.op = "admit" /\ lock[d] = t /\ CanAdmit(rows[d])
              /\ written[t] = [rows |-> One(d, [rows[d] EXCEPT !.legal_hold_status = "active"]),
                               holds |-> IF pc = "insert" THEN <<>> ELSE One(c.hold, "active"),
                               link |-> {}]
        /\ pc = "clear" => c.op = "release" /\ lock[d] = t
        /\ pc = "recount" =>
              /\ c.op \in {"refresh", "release"} /\ lock[d] = t
              /\ c.op = "release" => holds[c.hold] # "absent"
              /\ written[t] = [rows |-> <<>>,
                               holds |-> IF c.op = "refresh" THEN <<>>
                                         ELSE One(c.hold, ReleaseHold(holds, c.hold)[c.hold]),
                               link |-> {}]
        /\ pc = "link" => c.op = "transition" /\ lock[d] = t /\ lock[c.target] = t
        /\ pc = "commit" => written[t] = NoWrites \/ Complete(t)
        /\ pc # "idle" /\ c.op = "admit" => holds[c.hold] = "absent"

\* A hold admitted since a waiting UPDATE took its snapshot shows in the summary:
\* the column the UPDATE will look at again.
Aware(t) ==
    txn[t].pc = "update" =>
        LET d == txn[t].call.source
        IN  (\E h \in HoldIds : /\ HoldDoc[h] = d /\ holds[h] = "active"
                                /\ txn[t].snapshot[h] # "active")
            => rows[d].legal_hold_status = "active"

\* Locks are taken in ascending order, by transactions that wait for nothing else.
Ordered(t) ==
    /\ txn[t].pc \in {"idle", "update"} => Held(t) = {}
    /\ txn[t].pc = "lock" =>
          /\ Held(t) \subseteq Wanted(t) /\ Held(t) # Wanted(t)
          /\ \A d \in Held(t), e \in Wanted(t) \ Held(t) : d < e

\* One admission per hold id at a time.
Admissions ==
    \A t, u \in Txns : t # u /\ txn[t].call.op = "admit" /\ txn[u].call.op = "admit" =>
        txn[t].call.hold # txn[u].call.hold

\* The migration has the tables to itself between its two statements.
Alone ==
    /\ repair.step = "held" => /\ \A t \in Txns : txn[t].pc = "idle"
                               /\ repair.derived = [d \in Docs |-> HoldsOf(d, holds)]
    /\ repair.step # "held" => repair.derived = <<>>

Inv ==
    /\ TypeOK
    /\ \A t \in Txns : Progress(t) /\ Aware(t) /\ Ordered(t)
    /\ Admissions
    /\ Alone
    /\ RepairHolds

----------------------------------------------------------------------------
(* Tables and writes. *)

\* A row written twice by one transaction has its last value.
LEMMA OneOver ==
    ASSUME NEW x, NEW v, NEW w
    PROVE  Over(One(x, v), <<>>) = One(x, v) /\ Over(One(x, v), One(x, w)) = One(x, v)
BY DEF Over, One

\* What a call names, by its operation.
LEMMA CallFacts ==
    ASSUME NEW c \in Calls
    PROVE  /\ c.op \in Updates \cup {"refresh", "admit", "release", "transition"}
           /\ c.source \in Docs
           /\ c.op # "transition" => c.target = Unset
           /\ c.op = "transition" => c.target \in Docs
           /\ c.op \in {"admit", "release"} => c.hold \in HoldIds /\ HoldDoc[c.hold] = c.source
BY HoldDocAssumption DEF Calls, Updates

\* The hold rows of one document are hold rows, and its active holds are those of the table.
LEMMA HoldsOfRows ==
    ASSUME NEW hs \in HoldRows, NEW d
    PROVE  /\ HoldsOf(d, hs) \in HoldRows
           /\ ActiveHolds(HoldsOf(d, hs)) = {h \in HoldIds : HoldDoc[h] = d /\ hs[h] = "active"}
BY DEF HoldRows, HoldsOf, ActiveHolds

\* An admission and a release change the holds of their own document only.
LEMMA HoldsOfAdmitted ==
    ASSUME NEW hs \in HoldRows, NEW h \in HoldIds, NEW d \in Docs
    PROVE  /\ AdmitHold(hs, h) \in HoldRows
           /\ HoldDoc[h] = d => HoldsOf(d, AdmitHold(hs, h)) = AdmitHold(HoldsOf(d, hs), h)
           /\ HoldDoc[h] # d => HoldsOf(d, AdmitHold(hs, h)) = HoldsOf(d, hs)
BY DEF AdmitHold, HoldsOf, HoldRows

\* Releasing a hold changes its own row and the holds of its own document.
LEMMA HoldsOfReleased ==
    ASSUME NEW hs \in HoldRows, NEW h \in HoldIds, NEW d \in Docs
    PROVE  /\ ReleaseHold(hs, h) \in HoldRows
           /\ HoldDoc[h] = d => HoldsOf(d, ReleaseHold(hs, h)) = ReleaseHold(HoldsOf(d, hs), h)
           /\ HoldDoc[h] # d => HoldsOf(d, ReleaseHold(hs, h)) = HoldsOf(d, hs)
           /\ ReleaseHold(hs, h) = [hs EXCEPT ![h] = ReleaseHold(hs, h)[h]]
<1>1. CASE hs[h] = "active"
  <2>1. ReleaseHold(hs, h) = [hs EXCEPT ![h] = "clear"] BY <1>1 DEF ReleaseHold
  <2>2. HoldDoc[h] = d => ReleaseHold(HoldsOf(d, hs), h) = [HoldsOf(d, hs) EXCEPT ![h] = "clear"]
    BY <1>1 DEF ReleaseHold, HoldsOf
  <2>. QED BY <2>1, <2>2 DEF HoldsOf, HoldRows
<1>2. CASE hs[h] # "active"
  <2>1. ReleaseHold(hs, h) = hs BY <1>2 DEF ReleaseHold
  <2>2. HoldDoc[h] = d => ReleaseHold(HoldsOf(d, hs), h) = HoldsOf(d, hs)
    BY <1>2 DEF ReleaseHold, HoldsOf
  <2>. QED BY <2>1, <2>2 DEF HoldRows
<1>. QED BY <1>1, <1>2

\* What the UPDATE of a release writes in the row of the hold.
LEMMA ReleasedValue ==
    ASSUME NEW hs \in HoldRows, NEW h \in HoldIds
    PROVE  ReleaseHold(hs, h)[h] = IF hs[h] = "active" THEN "clear" ELSE hs[h]
BY DEF ReleaseHold, HoldRows

\* There are finitely many active holds.
LEMMA ActiveHoldsCount ==
    ASSUME NEW hs
    PROVE  Cardinality(ActiveHolds(hs)) \in Nat
<1>1. ActiveHolds(hs) \subseteq HoldIds BY DEF ActiveHolds
<1>2. IsFiniteSet(ActiveHolds(hs)) BY <1>1, HoldIdsAssumption, FS_Subset
<1>. QED BY <1>2, FS_CardinalityType

\* A summary that agrees with the hold rows.
Agrees(row, hs) ==
    /\ row.legal_hold_status = IF ActiveHolds(hs) # {} THEN "active" ELSE "clear"
    /\ row.legal_hold_count = Cardinality(ActiveHolds(hs))

\* The derived summary agrees with the hold rows, and only the derived one does.
LEMMA DerivedAgrees ==
    ASSUME NEW row \in Rows, NEW hs
    PROVE  /\ Derived(row, hs) \in Rows
           /\ Agrees(Derived(row, hs), hs)
           /\ Agrees(row, hs) <=> row = Derived(row, hs)
<1>. DEFINE s == IF ActiveHolds(hs) # {} THEN "active" ELSE "clear"
            n == Cardinality(ActiveHolds(hs))
<1>1. s \in LegalHoldStatus /\ n \in Nat BY ActiveHoldsCount DEF LegalHoldStatus
<1>2. Derived(row, hs) = [row EXCEPT !.legal_hold_status = s, !.legal_hold_count = n] BY DEF Derived
<1>3. \A r : Agrees(r, hs) <=> r.legal_hold_status = s /\ r.legal_hold_count = n BY DEF Agrees
<1>. HIDE DEF s, n
<1>. QED BY <1>1, <1>2, <1>3 DEF Rows

\* A guarded UPDATE leaves the summary alone.
LEMMA SetRow ==
    ASSUME NEW op \in Updates, NEW row \in Rows, NEW hs
    PROVE  /\ Set(op, row, hs) \in Rows
           /\ Set(op, row, hs).legal_hold_status = row.legal_hold_status
           /\ Set(op, row, hs).legal_hold_count = row.legal_hold_count
<1>. USE MaxDayAssumption DEF Rows, Now, Stamps, PurgeStatus
<1>n. 1 \in Stamps /\ 1 \in Nat BY DEF Stamps
<1>1. CASE op = "begin_purge" BY <1>n, <1>1 DEF Set, begin_purge
<1>2. CASE op = "mark_purge_eligible"
  <2>. DEFINE at == IF row.purge_eligible_at = Unset THEN Now ELSE row.purge_eligible_at
  <2>1. at \in Stamps BY <1>n
  <2>2. Set(op, row, hs) = IF CanGrant(row, hs)
                           THEN [row EXCEPT !.purge_status = "eligible", !.purge_eligible_at = at]
                           ELSE row
    BY <1>2 DEF Set, mark_purge_eligible
  <2>. HIDE DEF at
  <2>. QED BY <2>1, <2>2
<1>3. CASE op = "mark_purge_not_eligible" BY <1>3 DEF Set, mark_purge_not_eligible
<1>4. CASE op = "complete_purge"
  <2>. DEFINE at == IF row.purged_at = Unset THEN Now ELSE row.purged_at
  <2>1. at \in Stamps BY <1>n
  <2>2. Set(op, row, hs) = IF CanComplete(row)
                           THEN [row EXCEPT !.purge_status = "purged", !.purged_at = at]
                           ELSE row
    BY <1>4 DEF Set, complete_purge
  <2>. HIDE DEF at
  <2>. QED BY <2>1, <2>2
<1>. QED BY <1>1, <1>2, <1>3, <1>4 DEF Updates

\* The recount writes the derived summary.
LEMMA SetRefresh ==
    ASSUME NEW row, NEW hs
    PROVE  Set("refresh", row, hs) = Derived(row, hs)
BY DEF Set, refresh_legal_hold_summary

\* Admission makes a summary that agrees with the hold rows, the new one included.
LEMMA AdmitRow ==
    ASSUME NEW row \in Rows, NEW hs \in HoldRows, NEW h \in HoldIds, CanAdmit(row)
    PROVE  /\ admit_and_record_legal_hold(row, hs, h) \in Rows
           /\ Agrees(admit_and_record_legal_hold(row, hs, h), AdmitHold(hs, h))
<1>. DEFINE n == Cardinality(ActiveHolds(AdmitHold(hs, h)))
<1>1. n \in Nat BY ActiveHoldsCount
<1>2. admit_and_record_legal_hold(row, hs, h)
        = [row EXCEPT !.legal_hold_status = "active", !.legal_hold_count = n]
  BY DEF admit_and_record_legal_hold
<1>3. ActiveHolds(AdmitHold(hs, h)) # {} BY DEF ActiveHolds, AdmitHold, HoldRows
<1>. HIDE DEF n
<1>4. /\ [row EXCEPT !.legal_hold_status = "active", !.legal_hold_count = n] \in Rows
      /\ [row EXCEPT !.legal_hold_status = "active", !.legal_hold_count = n].legal_hold_status = "active"
      /\ [row EXCEPT !.legal_hold_status = "active", !.legal_hold_count = n].legal_hold_count = n
  BY <1>1 DEF Rows, LegalHoldStatus
<1>. QED BY <1>2, <1>3, <1>4 DEF Agrees, n

----------------------------------------------------------------------------
(* Isolation. *)

\* A step of t leaves the other transactions, their writes and their locks alone.
Elsewhere(t) ==
    \A u \in Txns \ {t} : /\ txn'[u] = txn[u] /\ written'[u] = written[u]
                          /\ \A d \in Docs : lock'[d] = u <=> lock[d] = u

\* Nothing a locked row determines has changed for document d.
Unaffected(d) ==
    /\ rows'[d] = rows[d] /\ superseded_by'[d] = superseded_by[d] /\ origin'[d] = origin[d]
    /\ \A h \in HoldIds : HoldDoc[h] = d => holds'[h] = holds[h]

\* A step that writes no hold of a document leaves its holds alone.
LEMMA UnaffectedHolds ==
    ASSUME NEW d \in Docs, Unaffected(d)
    PROVE  HoldsOf(d, holds') = HoldsOf(d, holds)
BY DEF Unaffected, HoldsOf

\* A link between documents none of which t has locked disturbs none of its checks.
LEMMA CanLinkLasts ==
    ASSUME NEW s \in Docs, NEW e \in Docs, CanLink(s, e), Unaffected(s), Unaffected(e),
           NEW L, relationships' = relationships \cup L,
           \A r \in L : r[1] # s /\ r[2] # e
    PROVE  CanLink(s, e)'
BY DEF CanLink, Unaffected

\* The uncommitted writes of t stay what they were made from: nobody else commits
\* to the rows it has locked.
LEMMA ProgressLasts ==
    ASSUME Inv, holds' \in HoldRows, NEW t \in Txns, txn'[t] = txn[t], written'[t] = written[t],
           \A d \in Docs : lock'[d] = t <=> lock[d] = t,
           \A d \in Docs : lock[d] = t => Unaffected(d),
           NEW L, relationships' = relationships \cup L,
           \A r \in L : \A d \in Docs : lock[d] = t => r[1] # d /\ r[2] # d,
           txn[t].pc # "idle" /\ txn[t].call.op = "admit" =>
               holds'[txn[t].call.hold] = holds[txn[t].call.hold]
    PROVE  Progress(t)'
<1>. DEFINE c == txn[t].call
            d == c.source
            pc == txn[t].pc
<1>1. Progress(t) BY DEF Inv
<1>2. CASE pc = "idle" BY <1>1, <1>2 DEF Progress
<1>3. CASE pc # "idle"
  <2>1. /\ c \in Calls /\ d \in Docs
        /\ c.op = "transition" => c.target \in Docs
        /\ c.op \in {"admit", "release"} => c.hold \in HoldIds /\ HoldDoc[c.hold] = d
    BY <1>1, <1>3, CallFacts DEF Progress
  <2>2. /\ lock'[d] = t <=> lock[d] = t
        /\ c.op = "transition" => (lock'[c.target] = t <=> lock[c.target] = t)
    BY <2>1
  <2>3. ASSUME lock[d] = t
        PROVE  /\ rows'[d] = rows[d] /\ HoldsOf(d, holds') = HoldsOf(d, holds)
               /\ c.op = "release" => /\ holds'[c.hold] = holds[c.hold]
                                      /\ ReleaseHold(holds', c.hold)[c.hold] = ReleaseHold(holds, c.hold)[c.hold]
    <3>1. Unaffected(d) BY <2>1, <2>3
    <3>2. c.op = "release" => holds'[c.hold] = holds[c.hold] BY <2>1, <3>1 DEF Unaffected
    <3>3. c.op = "release" => ReleaseHold(holds', c.hold)[c.hold] = ReleaseHold(holds, c.hold)[c.hold]
      BY <3>2, <2>1, ReleasedValue DEF Inv, TypeOK
    <3>. QED BY <3>1, <3>2, <3>3, <2>1, UnaffectedHolds DEF Unaffected
  <2>4. Complete(t) => Complete(t)'
    <3>. DEFINE e == c.target
    <3>1. ASSUME c.op = "transition", lock[d] = t, lock[e] = t, CanLink(d, e) PROVE CanLink(d, e)'
      <4>1. d \in Docs /\ e \in Docs BY <3>1, <2>1
      <4>2. Unaffected(d) /\ Unaffected(e) BY <3>1, <4>1
      <4>3. \A r \in L : r[1] # d /\ r[2] # e BY <3>1, <4>1
      <4>. PICK s0, e0 : s0 = d /\ e0 = e OBVIOUS
      <4>4. CanLink(s0, e0)' BY <3>1, <4>1, <4>2, <4>3, CanLinkLasts
      <4>. QED BY <4>4 DEF CanLink
    <3>. QED BY <2>2, <2>3, <3>1 DEF Complete
  <2>. QED BY <1>1, <1>3, <2>1, <2>2, <2>3, <2>4 DEF Progress
<1>. QED BY <1>2, <1>3

----------------------------------------------------------------------------
(* Commit. *)

\* The summary of d is as it was, with the holds of d as they were, or it agrees with
\* the hold rows.
SummaryKept(d) ==
    \/ /\ rows'[d].legal_hold_status = rows[d].legal_hold_status
       /\ rows'[d].legal_hold_count = rows[d].legal_hold_count
       /\ HoldsOf(d, holds') = HoldsOf(d, holds)
    \/ Agrees(rows'[d], HoldsOf(d, holds'))

\* The relationships added are between documents t has locked.
LinksLocked(t) ==
    \E L \in SUBSET (Docs \X Docs) :
        /\ relationships' = relationships \cup L
        /\ \A r \in L : lock[r[1]] = t /\ lock[r[2]] = t

\* A step without a new relationship has none to be locked for.
LEMMA LinkNone ==
    ASSUME NEW t, UNCHANGED relationships
    PROVE  LinksLocked(t)
<1>1. SUFFICES \E L \in SUBSET (Docs \X Docs) :
                  /\ relationships' = relationships \cup L
                  /\ \A r \in L : lock[r[1]] = t /\ lock[r[2]] = t
  BY DEF LinksLocked
<1>. WITNESS {} \in SUBSET (Docs \X Docs)
<1>. QED OBVIOUS

\* A commit is one call of the port on what is committed, and changes only what the
\* transaction has locked.
Effect(t) ==
    /\ AtomicCall \/ UNCHANGED database
    /\ rows' \in [Docs -> Rows] /\ holds' \in HoldRows
    /\ superseded_by' \in [Docs -> Docs \cup {Unset}] /\ origin' \in [Docs -> Docs \cup {Unset}]
    /\ \A d \in Docs : SummaryKept(d) /\ (lock[d] # t => Unaffected(d))
    /\ LinksLocked(t)
    /\ \A h \in HoldIds : holds'[h] # holds[h] =>
          \/ holds[h] = "active"
          \/ txn[t].pc # "idle" /\ txn[t].call.op = "admit" /\ txn[t].call.hold = h

\* The lifecycle columns stay as they are when there is no link to write.
LEMMA NoLink ==
    ASSUME TypeOK, NEW t \in Txns, Commit(t), written[t].link = {}
    PROVE  UNCHANGED <<superseded_by, origin, relationships>>
BY DEF TypeOK, Commit

\* A call that wrote one row of archive_documents and no other table.
LEMMA CommitRow ==
    ASSUME Inv, NEW t \in Txns, Commit(t), txn[t].call \in Calls,
           NEW op \in Updates \cup {"refresh"}, txn[t].call.op = op,
           lock[txn[t].call.source] = t,
           written[t] = [rows |-> One(txn[t].call.source,
                                      Set(op, rows[txn[t].call.source], HoldsOf(txn[t].call.source, holds))),
                         holds |-> <<>>, link |-> {}]
    PROVE  Effect(t)
<1>. DEFINE d == txn[t].call.source
            hs == HoldsOf(d, holds)
            row == Set(op, rows[d], hs)
<1>1. /\ d \in Docs /\ rows \in [Docs -> Rows] /\ holds \in HoldRows
      /\ superseded_by \in [Docs -> Docs \cup {Unset}] /\ origin \in [Docs -> Docs \cup {Unset}]
      /\ rows[d] \in Rows
  BY CallFacts DEF Inv, TypeOK
<1>2. /\ written[t].rows = One(d, row) /\ written[t].holds = <<>> /\ written[t].link = {} OBVIOUS
<1>3. rows' = [rows EXCEPT ![d] = row] 
  <2>1. rows' = Over(One(d, row), rows) BY <1>2 DEF Commit
  <2>. HIDE DEF row
  <2>. QED BY <1>1, <2>1 DEF Over, One
<1>4. holds' = holds
  <2>1. holds' = Over(<<>>, holds) BY <1>2 DEF Commit
  <2>. QED BY <1>1, <2>1 DEF Over, HoldRows
<1>5. UNCHANGED <<superseded_by, origin, relationships>> BY <1>2, NoLink DEF Inv
<1>6. /\ row \in Rows
      /\ \/ /\ row.legal_hold_status = rows[d].legal_hold_status
            /\ row.legal_hold_count = rows[d].legal_hold_count
         \/ Agrees(row, hs)
  BY <1>1, SetRow, SetRefresh, DerivedAgrees
<1>7. AtomicCall BY <1>1, <1>3, <1>4, <1>5 DEF AtomicCall
<1>. HIDE DEF row
<1>8. \A e \in Docs : rows'[e] = IF e = d THEN row ELSE rows[e] BY <1>1, <1>3
<1>9. \A e \in Docs : SummaryKept(e) /\ (lock[e] # t => Unaffected(e))
  BY <1>4, <1>5, <1>6, <1>8 DEF SummaryKept, Unaffected
<1>10. rows' \in [Docs -> Rows] BY <1>1, <1>3, <1>6
<1>11. LinksLocked(t) BY <1>5, LinkNone
<1>. QED BY <1>1, <1>4, <1>5, <1>7, <1>9, <1>10, <1>11 DEF Effect

\* An admission and a release write the hold row and the summary together.
LEMMA CommitHold ==
    ASSUME Inv, NEW t \in Txns, Commit(t), txn[t].call \in Calls, txn[t].pc # "idle",
           txn[t].call.op \in {"admit", "release"}, lock[txn[t].call.source] = t,
           NEW row \in Rows, NEW new, new \in {AdmitHold(holds, txn[t].call.hold),
                                               ReleaseHold(holds, txn[t].call.hold)},
           new = [holds EXCEPT ![txn[t].call.hold] = new[txn[t].call.hold]],
           Agrees(row, HoldsOf(txn[t].call.source, new)),
           new # holds => holds[txn[t].call.hold] = "active" \/ txn[t].call.op = "admit",
           written[t] = [rows |-> One(txn[t].call.source, row),
                         holds |-> One(txn[t].call.hold, new[txn[t].call.hold]), link |-> {}],
           rows' = [rows EXCEPT ![txn[t].call.source] = row] /\ holds' = new => AtomicCall
    PROVE  Effect(t)
<1>. DEFINE d == txn[t].call.source
            h == txn[t].call.hold
<1>1. /\ d \in Docs /\ h \in HoldIds /\ HoldDoc[h] = d
      /\ rows \in [Docs -> Rows] /\ holds \in HoldRows
      /\ superseded_by \in [Docs -> Docs \cup {Unset}] /\ origin \in [Docs -> Docs \cup {Unset}]
  BY CallFacts DEF Inv, TypeOK
<1>2. /\ written[t].rows = One(d, row) /\ written[t].holds = One(h, new[h]) /\ written[t].link = {}
  OBVIOUS
<1>3. rows' = [rows EXCEPT ![d] = row] 
  <2>1. rows' = Over(One(d, row), rows) BY <1>2 DEF Commit
  <2>. QED BY <1>1, <2>1 DEF Over, One
<1>4. holds' = new
  <2>1. Over(One(h, new[h]), holds) = [holds EXCEPT ![h] = new[h]]
    BY <1>1 DEF HoldRows, Over, One
  <2>. QED BY <1>2, <2>1 DEF Commit
<1>5. UNCHANGED <<superseded_by, origin, relationships>> BY <1>2, NoLink DEF Inv
<1>6. holds' \in HoldRows /\ \A e \in Docs : e # d => HoldsOf(e, holds') = HoldsOf(e, holds)
  BY <1>1, <1>4, HoldsOfAdmitted, HoldsOfReleased
<1>7. \A g \in HoldIds : g # h => holds'[g] = holds[g] BY <1>1, <1>4 DEF HoldRows
<1>8. \A e \in Docs : rows'[e] = IF e = d THEN row ELSE rows[e] BY <1>1, <1>3
<1>9. ASSUME NEW e \in Docs PROVE SummaryKept(e) /\ (lock[e] # t => Unaffected(e))
  <2>1. CASE e = d BY <1>4, <1>8, <2>1 DEF SummaryKept
  <2>2. CASE e # d BY <1>1, <1>5, <1>6, <1>7, <1>8, <2>2 DEF SummaryKept, Unaffected
  <2>. QED BY <2>1, <2>2
<1>10. rows' \in [Docs -> Rows] BY <1>1, <1>3
<1>11. LinksLocked(t) BY <1>5, LinkNone
<1>12. \A g \in HoldIds : holds'[g] # holds[g] =>
         holds[g] = "active" \/ (txn[t].call.op = "admit" /\ txn[t].call.hold = g)
  BY <1>4, <1>7
<1>. QED BY <1>1, <1>3, <1>4, <1>5, <1>6, <1>9, <1>10, <1>11, <1>12 DEF Effect

\* A transition writes the lifecycle columns of its two documents and the relationship.
LEMMA CommitLink ==
    ASSUME Inv, NEW t \in Txns, Commit(t), txn[t].call \in Calls, txn[t].call.op = "transition",
           lock[txn[t].call.source] = t, lock[txn[t].call.target] = t,
           CanLink(txn[t].call.source, txn[t].call.target),
           written[t] = [rows |-> <<>>, holds |-> <<>>,
                         link |-> {<<txn[t].call.source, txn[t].call.target>>}]
    PROVE  Effect(t)
<1>. DEFINE s == txn[t].call.source
            e == txn[t].call.target
<1>1. /\ s \in Docs /\ e \in Docs
      /\ rows \in [Docs -> Rows] /\ holds \in HoldRows
      /\ superseded_by \in [Docs -> Docs \cup {Unset}] /\ origin \in [Docs -> Docs \cup {Unset}]
  BY CallFacts DEF Inv, TypeOK
<1>2. rows' = rows /\ holds' = holds
  <2>1. rows' = Over(<<>>, rows) /\ holds' = Over(<<>>, holds) BY DEF Commit
  <2>. QED BY <1>1, <2>1 DEF Over, HoldRows
<1>3. /\ superseded_by' = [superseded_by EXCEPT ![s] = e]
      /\ origin' = [origin EXCEPT ![e] = s]
      /\ relationships' = relationships \cup {<<s, e>>}
  <2>1. written[t].link = {<<s, e>>} OBVIOUS
  <2>2. \A d \in Docs : /\ (\E r \in written[t].link : r[1] = d) <=> d = s
                        /\ (\E r \in written[t].link : r[2] = d) <=> d = e
    <3>1. \A d : /\ (\E r \in {<<s, e>>} : r[1] = d) <=> d = s
                 /\ (\E r \in {<<s, e>>} : r[2] = d) <=> d = e
      OBVIOUS
    <3>. QED BY ONLY <2>1, <3>1
  <2>3. ASSUME NEW d \in Docs
        PROVE  /\ superseded_by'[d] = IF d = s THEN e ELSE superseded_by[d]
               /\ origin'[d] = IF d = e THEN s ELSE origin[d]
    <3>1. /\ superseded_by'[d] = IF \E r \in written[t].link : r[1] = d THEN e ELSE superseded_by[d]
          /\ origin'[d] = IF \E r \in written[t].link : r[2] = d THEN s ELSE origin[d]
      BY DEF Commit
    <3>. QED BY <3>1, <2>2
  <2>5. /\ superseded_by' = [d \in Docs |-> superseded_by'[d]]
        /\ origin' = [d \in Docs |-> origin'[d]]
        /\ relationships' = relationships \cup {<<s, e>>}
    BY <2>1 DEF Commit
  <2>. HIDE DEF s, e
  <2>. QED BY <1>1, <2>3, <2>5
<1>4. AtomicCall BY <1>1, <1>2, <1>3 DEF AtomicCall
<1>5. \A d \in Docs : SummaryKept(d) /\ (lock[d] # t => Unaffected(d))
  BY <1>1, <1>2, <1>3 DEF SummaryKept, Unaffected
<1>6. LinksLocked(t)
  <2>1. /\ {<<s, e>>} \in SUBSET (Docs \X Docs)
        /\ \A r \in {<<s, e>>} : lock[r[1]] = t /\ lock[r[2]] = t
    BY <1>1
  <2>. QED BY <1>3, <2>1 DEF LinksLocked
<1>. QED BY <1>1, <1>2, <1>3, <1>4, <1>5, <1>6 DEF Effect

\* What a commit does to the committed rows: one operator of the port, or one checked link, applied to them as they are.
LEMMA CommitEffect ==
    ASSUME Inv, NEW t \in Txns, Commit(t)
    PROVE  Effect(t)
<1>. DEFINE c == txn[t].call
            d == c.source
            h == c.hold
<1>1. /\ txn[t].pc = "commit" /\ c \in Calls /\ (written[t] = NoWrites \/ Complete(t))
      /\ rows \in [Docs -> Rows] /\ holds \in HoldRows
      /\ superseded_by \in [Docs -> Docs \cup {Unset}] /\ origin \in [Docs -> Docs \cup {Unset}]
  BY DEF Commit, Inv, TypeOK, Progress
<1>2. /\ d \in Docs /\ rows[d] \in Rows
      /\ c.op \in {"admit", "release"} => h \in HoldIds /\ HoldDoc[h] = d
  BY <1>1, CallFacts
<1>3. CASE written[t] = NoWrites
  <2>1. UNCHANGED <<superseded_by, origin, relationships>> BY <1>3, NoLink DEF NoWrites, Inv
  <2>2. UNCHANGED <<rows, holds>>
    <3>1. rows' = Over(<<>>, rows) /\ holds' = Over(<<>>, holds) BY <1>3 DEF Commit, NoWrites
    <3>. QED BY <1>1, <3>1 DEF Over, HoldRows
  <2>3. LinksLocked(t) BY <2>1, LinkNone
  <2>. QED BY <1>1, <2>1, <2>2, <2>3 DEF Effect, SummaryKept, Unaffected, database
<1>4. ASSUME c.op \in Updates \cup {"refresh"}, lock[d] = t,
             written[t] = [rows |-> One(d, Set(c.op, rows[d], HoldsOf(d, holds))),
                           holds |-> <<>>, link |-> {}]
      PROVE  Effect(t)
  BY <1>1, <1>4, CommitRow
<1>5. ASSUME c.op = "admit", lock[d] = t, CanAdmit(rows[d]),
             written[t] = [rows |-> One(d, admit_and_record_legal_hold(rows[d], HoldsOf(d, holds), h)),
                           holds |-> One(h, "active"), link |-> {}]
      PROVE  Effect(t)
  <2>. DEFINE new == AdmitHold(holds, h)
              row == admit_and_record_legal_hold(rows[d], HoldsOf(d, holds), h)
  <2>1. /\ new \in HoldRows /\ new[h] = "active" /\ new = [holds EXCEPT ![h] = new[h]]
        /\ HoldsOf(d, new) = AdmitHold(HoldsOf(d, holds), h)
    <3>1. new = [holds EXCEPT ![h] = "active"] BY DEF AdmitHold
    <3>2. new[h] = "active" BY <1>1, <1>2, <1>5, <3>1 DEF HoldRows
    <3>. QED BY <1>1, <1>2, <1>5, <3>1, <3>2, HoldsOfAdmitted
  <2>2. HoldsOf(d, holds) \in HoldRows BY <1>1, HoldsOfRows
  <2>3. row \in Rows /\ Agrees(row, HoldsOf(d, new)) BY <1>2, <1>5, <2>1, <2>2, AdmitRow
  <2>4. holds[h] = "absent" BY <1>1, <1>5 DEF Inv, Progress
  <2>5. rows' = [rows EXCEPT ![d] = row] /\ holds' = new => AtomicCall
    <3>1. UNCHANGED <<superseded_by, origin, relationships>> BY <1>5, NoLink DEF Inv
    <3>. QED BY <1>1, <1>2, <1>5, <2>4, <3>1 DEF AtomicCall
  <2>6. written[t] = [rows |-> One(d, row), holds |-> One(h, new[h]), link |-> {}] BY <1>5, <2>1
  <2>. HIDE DEF new, row
  <2>7. new = AdmitHold(holds, txn[t].call.hold) BY DEF new
  <2>. QED BY <1>1, <1>5, <2>1, <2>3, <2>5, <2>6, <2>7, CommitHold
<1>6. ASSUME c.op = "release", lock[d] = t,
             written[t] = [rows |-> One(d, release_and_record_legal_hold(rows[d], HoldsOf(d, holds), h)),
                           holds |-> One(h, ReleaseHold(holds, h)[h]), link |-> {}]
      PROVE  Effect(t)
  <2>. DEFINE new == ReleaseHold(holds, h)
              row == release_and_record_legal_hold(rows[d], HoldsOf(d, holds), h)
  <2>1. /\ new \in HoldRows /\ new = [holds EXCEPT ![h] = new[h]]
        /\ HoldsOf(d, new) = ReleaseHold(HoldsOf(d, holds), h)
    BY <1>1, <1>2, <1>6, HoldsOfReleased
  <2>2. row = Derived(rows[d], HoldsOf(d, new)) BY <2>1 DEF release_and_record_legal_hold
  <2>3. row \in Rows /\ Agrees(row, HoldsOf(d, new)) BY <1>2, <2>2, DerivedAgrees
  <2>4. new # holds => holds[h] = "active" BY DEF ReleaseHold
  <2>5. rows' = [rows EXCEPT ![d] = row] /\ holds' = new => AtomicCall
    <3>1. UNCHANGED <<superseded_by, origin, relationships>> BY <1>6, NoLink DEF Inv
    <3>. QED BY <1>1, <1>2, <1>6, <3>1 DEF AtomicCall
  <2>6. written[t] = [rows |-> One(d, row), holds |-> One(h, new[h]), link |-> {}] BY <1>6
  <2>. HIDE DEF new, row
  <2>7. new = ReleaseHold(holds, txn[t].call.hold) BY DEF new
  <2>. QED BY <1>1, <1>6, <2>1, <2>3, <2>4, <2>5, <2>6, <2>7, CommitHold
<1>7. ASSUME c.op = "transition", lock[d] = t, lock[c.target] = t, CanLink(d, c.target),
             written[t] = [rows |-> <<>>, holds |-> <<>>, link |-> {<<d, c.target>>}]
      PROVE  Effect(t)
  BY <1>1, <1>7, CommitLink
<1>. QED BY <1>1, <1>3, <1>4, <1>5, <1>6, <1>7 DEF Complete

----------------------------------------------------------------------------
(* Steps of one transaction. *)

\* Moved: transaction t is at another step of the same call.
Moved(t, step) ==
    /\ txn' \in [Txns -> [pc : Steps, call : Calls \cup {NoCall}, snapshot : HoldRows]]
    /\ txn'[t].pc = step /\ txn'[t].call = txn[t].call
    /\ \A u \in Txns \ {t} : txn'[u] = txn[u]

\* A statement that goes on changes the place of its own transaction.
LEMMA GotoMoves ==
    ASSUME TypeOK, NEW t \in Txns, NEW step \in Steps,
           \/ Goto(t, step)
           \/ txn' = [txn EXCEPT ![t].pc = step, ![t].snapshot = NoHolds]
    PROVE  Moved(t, step)
<1>1. NoHolds \in HoldRows BY DEF NoHolds, HoldRows
<1>2. txn \in [Txns -> [pc : Steps, call : Calls \cup {NoCall}, snapshot : HoldRows]] BY DEF TypeOK
<1>. QED BY <1>1, <1>2 DEF Goto, Moved

\* Wrote: the uncommitted writes of t are w.
Wrote(t, w) ==
    /\ written'[t] = w /\ written' = [u \in Txns |-> written'[u]]
    /\ \A u \in Txns \ {t} : written'[u] = written[u]

\* A statement that writes changes one of the uncommitted writes of its own transaction.
LEMMA WriteWrote ==
    ASSUME TypeOK, NEW t \in Txns, NEW r, NEW h, NEW l, written[t] = [rows |-> r, holds |-> h, link |-> l]
    PROVE  /\ UNCHANGED written => Wrote(t, written[t])
           /\ \A x : written' = [written EXCEPT ![t].rows = x] => Wrote(t, [rows |-> x, holds |-> h, link |-> l])
           /\ \A x : written' = [written EXCEPT ![t].holds = x] => Wrote(t, [rows |-> r, holds |-> x, link |-> l])
           /\ \A x : written' = [written EXCEPT ![t].link = x] => Wrote(t, [rows |-> r, holds |-> h, link |-> x])
BY DEF TypeOK, Wrote

\* Aware and Ordered of the transactions that did not move.
LEMMA OthersOrdered ==
    ASSUME TypeOK, NEW t \in Txns, Elsewhere(t), NEW u \in Txns \ {t}, Ordered(u)
    PROVE  Ordered(u)'
<1>1. Held(u)' = Held(u) BY DEF Elsewhere, Held
<1>2. txn'[u] = txn[u] BY DEF Elsewhere
<1>3. Wanted(u)' = Wanted(u) BY <1>2 DEF Wanted
<1>. QED BY <1>1, <1>2, <1>3 DEF Ordered

\* A call that goes on or ends admits nothing another one admits.
LEMMA SameAdmissions ==
    ASSUME Inv, NEW t \in Txns, Elsewhere(t), txn'[t].call \in {txn[t].call, NoCall}
    PROVE  Admissions'
<1>1. ASSUME NEW u \in Txns, txn'[u].call.op = "admit" PROVE txn'[u].call = txn[u].call
  BY <1>1 DEF Elsewhere, NoCall
<1>. QED BY <1>1 DEF Inv, Admissions

\* A step that commits nothing.
LEMMA LocalStep ==
    ASSUME Inv, NEW t \in Txns, Elsewhere(t), UNCHANGED <<database, repair>>, repair.step # "held",
           TypeOK', Progress(t)', Aware(t)', Ordered(t)', Admissions'
    PROVE  Inv'
<1>1. ASSUME NEW u \in Txns \ {t} PROVE Progress(u)' /\ Aware(u)' /\ Ordered(u)'
  <2>1. txn'[u] = txn[u] /\ written'[u] = written[u] /\ \A d \in Docs : lock'[d] = u <=> lock[d] = u
    BY DEF Elsewhere
  <2>2. \A d \in Docs : Unaffected(d) BY DEF Unaffected, database
  <2>. PICK L : L = {} OBVIOUS
  <2>3. relationships' = relationships \cup L BY DEF database
  <2>4. holds' \in HoldRows /\ holds' = holds BY DEF Inv, TypeOK, database
  <2>5. \A r \in L : \A d \in Docs : lock[d] = u => r[1] # d /\ r[2] # d OBVIOUS
  <2>6. Progress(u)' BY <2>1, <2>2, <2>3, <2>4, <2>5, ProgressLasts
  <2>7. Aware(u)' BY <2>1 DEF Inv, Aware, database
  <2>. QED BY <2>6, <2>7, OthersOrdered DEF Inv
<1>2. RepairHolds' BY DEF Inv, RepairHolds, database
<1>3. Alone' BY DEF Inv, Alone, database
<1>. QED BY <1>1, <1>2, <1>3 DEF Inv

\* The same, for a step that keeps its call and leaves no wait behind.
LEMMA MoveInv ==
    ASSUME Inv, NEW t \in Txns, NEW step \in Steps \ {"idle", "update", "lock"}, Moved(t, step),
           NEW w, Wrote(t, w), UNCHANGED <<database, repair>>, txn[t].pc # "idle",
           \A d \in Docs : lock'[d] = lock[d] \/ (lock[d] = NoTxn /\ lock'[d] = t),
           lock' \in [Docs -> Txns \cup {NoTxn}],
           Progress(t)'
    PROVE  Inv'
<1>1. Elsewhere(t) BY NoTxnAssumption DEF Moved, Wrote, Elsewhere
<1>2. repair.step # "held" BY DEF Inv, Alone
<1>3. TypeOK' BY DEF Inv, TypeOK, Moved, Wrote, database
<1>4. Aware(t)' /\ Ordered(t)' BY DEF Aware, Ordered, Moved
<1>5. Admissions' BY <1>1, SameAdmissions DEF Moved
<1>. QED BY <1>1, <1>2, <1>3, <1>4, <1>5, LocalStep

\* A transaction starts with no lock and no write.
LEMMA StartInv ==
    ASSUME Inv, NEW t \in Txns, NEW c \in Calls, Start(t, c)
    PROVE  Inv'
<1>. DEFINE seen == HoldsOf(c.source, holds)
            none == FirstStep(c) = "update" /\ ~Where(c.op, rows[c.source], seen)
            new == [pc |-> IF none THEN "commit" ELSE FirstStep(c), call |-> c,
                    snapshot |-> IF none THEN NoHolds ELSE seen]
<1>1. /\ txn[t].pc = "idle" /\ repair.step # "held" /\ txn' = [txn EXCEPT ![t] = new]
      /\ UNCHANGED <<database, lock, written, repair>>
      /\ c.op = "admit" => holds[c.hold] = "absent" /\ \A u \in Txns : txn[u].call.hold # c.hold
  BY DEF Start
<1>2. /\ txn \in [Txns -> [pc : Steps, call : Calls \cup {NoCall}, snapshot : HoldRows]]
      /\ holds \in HoldRows
  BY DEF Inv, TypeOK
<1>3. /\ c.source \in Docs /\ c.source # Unset
      /\ c.op \in Updates \cup {"refresh", "admit", "release", "transition"}
  BY CallFacts, DocsAssumption DEF Unset
<1>4. /\ new.pc \in {"commit", "update", "lock"} /\ new.call = c /\ new.snapshot \in HoldRows
      /\ new \in [pc : Steps, call : Calls \cup {NoCall}, snapshot : HoldRows]
      /\ new.pc = "update" => new.snapshot = seen /\ c.op \in Updates \cup {"admit"}
      /\ new.pc = "lock" => c.op \in {"refresh", "release", "transition"}
  <2>1. NoHolds \in HoldRows /\ seen \in HoldRows BY <1>2, HoldsOfRows DEF NoHolds, HoldRows
  <2>2. FirstStep(c) \in {"update", "lock"} BY DEF FirstStep
  <2>3. FirstStep(c) = "update" <=> c.op \in Updates \cup {"admit"} BY DEF FirstStep
  <2>. HIDE DEF seen
  <2>. QED BY <1>3, <2>1, <2>2, <2>3 DEF Steps
<1>. HIDE DEF new
<1>5. txn'[t] = new /\ \A u \in Txns \ {t} : txn'[u] = txn[u] BY <1>1, <1>2
<1>6. Elsewhere(t) BY <1>1, <1>5 DEF Elsewhere
<1>7. TypeOK' BY <1>1, <1>2, <1>4 DEF Inv, TypeOK, database
<1>8. written'[t] = NoWrites BY <1>1 DEF Inv, Progress
<1>9. Progress(t)' BY <1>1, <1>4, <1>5, <1>8 DEF Progress, database
<1>10. Aware(t)' BY <1>1, <1>3, <1>4, <1>5 DEF Aware, HoldsOf, database
<1>11. Ordered(t)'
  <2>1. Held(t)' = {} BY <1>1 DEF Inv, Ordered, Held
  <2>2. c.source \in Wanted(t)' BY <1>3, <1>4, <1>5 DEF Wanted
  <2>. QED BY <2>1, <2>2 DEF Ordered
<1>12. Admissions'
  <2>1. \A u \in Txns \ {t} : txn'[u] = txn[u] /\ (c.op = "admit" => txn[u].call.hold # c.hold)
    BY <1>1, <1>5
  <2>2. txn'[t].call = c BY <1>4, <1>5
  <2>. QED BY <2>1, <2>2 DEF Inv, Admissions
<1>. QED BY <1>1, <1>6, <1>7, <1>9, <1>10, <1>11, <1>12, LocalStep

\* An UPDATE that matched with the answers its subquery had matches with the hold rows
\* as they are now: a hold admitted meanwhile is in the summary.
LEMMA SnapshotStillTrue ==
    ASSUME NEW op \in Updates, NEW row, NEW hs, NEW gs, Where(op, row, hs),
           ActiveHolds(hs) = {} /\ row.legal_hold_status # "active" => ActiveHolds(gs) = {}
    PROVE  Set(op, row, hs) = Set(op, row, gs)
<1>1. CASE op = "begin_purge" BY <1>1 DEF Where, Set, begin_purge, CanBegin
<1>2. CASE op = "mark_purge_eligible" BY <1>2 DEF Where, Set, mark_purge_eligible, CanGrant
<1>3. CASE op \in {"mark_purge_not_eligible", "complete_purge"} BY <1>3 DEF Set
<1>. QED BY <1>1, <1>2, <1>3 DEF Updates

\* A conditional UPDATE: it takes the row lock and evaluates its WHERE on the committed row.
LEMMA UpdateInv ==
    ASSUME Inv, NEW t \in Txns, Update(t)
    PROVE  Inv'
<1>. DEFINE c == txn[t].call
            d == c.source
            seen == txn[t].snapshot
            step == IF c.op = "admit" THEN "insert" ELSE "commit"
<1>1. /\ txn[t].pc = "update" /\ lock[d] = NoTxn /\ UNCHANGED <<database, repair>>
  BY DEF Update
<1>2. /\ c \in Calls /\ d \in Docs /\ c.op \in Updates \cup {"admit"} /\ written[t] = NoWrites
      /\ c.op = "admit" => holds[c.hold] = "absent"
      /\ rows \in [Docs -> Rows] /\ holds \in HoldRows /\ lock \in [Docs -> Txns \cup {NoTxn}]
      /\ seen \in HoldRows
  BY <1>1, CallFacts DEF Inv, TypeOK, Progress
<1>3. written[t] = [rows |-> <<>>, holds |-> <<>>, link |-> {}] BY <1>2 DEF NoWrites
<1>4. CASE Where(c.op, rows[d], seen)
  <2>1. /\ lock' = [lock EXCEPT ![d] = t]
        /\ written' = [written EXCEPT ![t].rows = Over(One(d, Set(c.op, rows[d], seen)), written[t].rows)]
        /\ txn' = [txn EXCEPT ![t].pc = step, ![t].snapshot = NoHolds]
    BY <1>4 DEF Update, WriteRow
  <2>2. step \in Steps \ {"idle", "update", "lock"} BY DEF Steps
  <2>3. Moved(t, step) BY <2>1, <2>2, GotoMoves DEF Inv
  <2>. DEFINE row == Set(c.op, rows[d], seen)
              w == [rows |-> One(d, row), holds |-> <<>>, link |-> {}]
  <2>4. Wrote(t, w)
    <3>1. Over(One(d, row), written[t].rows) = One(d, row) BY <1>3, OneOver
    <3>2. written' = [written EXCEPT ![t].rows = One(d, row)] BY <2>1, <3>1
    <3>. HIDE DEF row
    <3>. QED BY <1>3, <3>2, WriteWrote DEF Inv
  <2>5. Progress(t)'
    <3>0. /\ txn'[t].call = c /\ txn'[t].pc = step /\ written'[t] = w /\ lock'[d] = t
          /\ rows' = rows /\ holds' = holds
      BY <1>1, <1>2, <2>1, <2>3, <2>4 DEF Moved, Wrote, database
    <3>1. CASE c.op = "admit"
      <4>1. CanAdmit(rows[d]) BY <1>4, <3>1 DEF Where
      <4>2. row = [rows[d] EXCEPT !.legal_hold_status = "active"] BY <3>1 DEF Set
      <4>. QED BY <1>2, <3>0, <3>1, <4>1, <4>2 DEF Progress
    <3>2. CASE c.op \in Updates
      <4>1. ActiveHolds(seen) = {} /\ rows[d].legal_hold_status # "active"
              => ActiveHolds(HoldsOf(d, holds)) = {}
        <5>1. SUFFICES ASSUME ActiveHolds(seen) = {}, rows[d].legal_hold_status # "active"
                       PROVE  \A h \in HoldIds : ~(HoldDoc[h] = d /\ holds[h] = "active")
          BY <1>2, HoldsOfRows
        <5>2. \A h \in HoldIds : seen[h] # "active" BY <5>1 DEF ActiveHolds
        <5>. QED BY <1>1, <5>1, <5>2 DEF Inv, Aware
      <4>2. row = Set(c.op, rows[d], HoldsOf(d, holds)) BY <1>4, <3>2, <4>1, SnapshotStillTrue
      <4>3. step = "commit" BY <3>2 DEF Updates
      <4>. HIDE DEF row
      <4>4. Complete(t)' BY <3>0, <3>2, <4>2 DEF Complete
      <4>. QED BY <1>2, <3>0, <3>2, <4>3, <4>4 DEF Progress, Updates
    <3>. QED BY <1>2, <3>1, <3>2
  <2>6. /\ \A e \in Docs : lock'[e] = lock[e] \/ (lock[e] = NoTxn /\ lock'[e] = t)
        /\ lock' \in [Docs -> Txns \cup {NoTxn}]
    BY <1>1, <1>2, <2>1
  <2>. HIDE DEF w, step
  <2>. QED BY <1>1, <2>2, <2>3, <2>4, <2>5, <2>6, MoveInv
<1>5. CASE ~Where(c.op, rows[d], seen)
  <2>1. /\ txn' = [txn EXCEPT ![t].pc = "commit", ![t].snapshot = NoHolds]
        /\ UNCHANGED <<lock, written>>
    BY <1>5 DEF Update
  <2>2. Moved(t, "commit") BY <2>1, GotoMoves DEF Inv, Steps
  <2>3. Wrote(t, written[t]) BY <1>3, <2>1, WriteWrote DEF Inv
  <2>4. Progress(t)' BY <1>1, <1>2, <2>1, <2>2 DEF Progress, Moved, database
  <2>. QED BY <1>1, <1>2, <2>1, <2>2, <2>3, <2>4, MoveInv DEF Steps
<1>. QED BY <1>4, <1>5

\* The row to lock next is the least of those not locked yet.
LEMMA NextLockLeast ==
    ASSUME Inv, NEW t \in Txns, txn[t].pc = "lock"
    PROVE  /\ NextLock(t) \in Wanted(t) \ Held(t) /\ NextLock(t) \in Docs
           /\ \A e \in Wanted(t) \ Held(t) : NextLock(t) =< e
           /\ Wanted(t) \subseteq Docs /\ Held(t) \subseteq Wanted(t)
           /\ \A d \in Held(t), e \in Wanted(t) \ Held(t) : d < e
<1>. DEFINE c == txn[t].call
            W == Wanted(t) \ Held(t)
<1>1. /\ c \in Calls /\ Ordered(t) BY DEF Inv, Progress
<1>2. Wanted(t) \subseteq Docs /\ \A x \in Wanted(t) : x \in {c.source, c.target}
  BY <1>1, CallFacts DEF Wanted
<1>3. W # {} /\ Held(t) \subseteq Wanted(t) BY <1>1 DEF Ordered
<1>4. \A x \in W : x \in Int
  <2>1. Docs \subseteq Int BY DocsAssumption
  <2>. QED BY <1>2, <2>1
<1>5. \E d \in W : \A e \in W : d =< e
  <2>1. PICK x \in W : TRUE BY <1>3
  <2>2. CASE \A e \in W : x =< e BY <2>2
  <2>3. CASE \E e \in W : ~(x =< e)
    <3>1. PICK y \in W : ~(x =< y) BY <2>3
    <3>2. x \in Int /\ y \in Int /\ y =< x /\ y =< y /\ x # y BY <3>1, <1>4
    <3>3. \A e \in W : e = x \/ e = y BY <1>2, <3>2
    <3>. QED BY <3>2, <3>3
  <2>. QED BY <2>2, <2>3
<1>6. NextLock(t) \in W /\ \A e \in W : NextLock(t) =< e
  <2>. HIDE DEF W
  <2>. QED BY <1>5 DEF NextLock, W
<1>. QED BY <1>1, <1>2, <1>3, <1>6 DEF Ordered

\* SELECT ... FOR UPDATE takes the lower document first.
LEMMA ForUpdateInv ==
    ASSUME Inv, NEW t \in Txns, ForUpdate(t)
    PROVE  Inv'
<1>. DEFINE c == txn[t].call
            d == NextLock(t)
            step == IF Wanted(t) \ Held(t) = {d} THEN AfterLocks(c.op) ELSE "lock"
<1>1. /\ txn[t].pc = "lock" /\ lock[d] = NoTxn /\ UNCHANGED <<database, written, repair>>
      /\ lock' = [lock EXCEPT ![d] = t]
      /\ txn' = [txn EXCEPT ![t].pc = step, ![t].snapshot = NoHolds]
  BY DEF ForUpdate
<1>2. /\ d \in Wanted(t) \ Held(t) /\ d \in Docs
      /\ \A e \in Wanted(t) \ Held(t) : d =< e
      /\ Wanted(t) \subseteq Docs /\ Held(t) \subseteq Wanted(t)
      /\ \A x \in Held(t), e \in Wanted(t) \ Held(t) : x < e
  BY <1>1, NextLockLeast
<1>3. /\ c \in Calls /\ c.op \in {"refresh", "release", "transition"} /\ written[t] = NoWrites
      /\ lock \in [Docs -> Txns \cup {NoTxn}]
  BY <1>1 DEF Inv, TypeOK, Progress
<1>4. /\ step \in Steps /\ step \in {"lock", AfterLocks(c.op)}
      /\ c.op = "refresh" => AfterLocks(c.op) = "recount"
      /\ c.op = "release" => AfterLocks(c.op) = "clear"
      /\ c.op = "transition" => AfterLocks(c.op) = "link"
  BY <1>3 DEF AfterLocks, Steps
<1>5. Moved(t, step) BY <1>1, <1>4, GotoMoves DEF Inv
<1>6. Wrote(t, written[t]) BY <1>1, <1>3, WriteWrote DEF Inv, NoWrites
<1>7. /\ lock' \in [Docs -> Txns \cup {NoTxn}]
      /\ \A e \in Docs : lock'[e] = IF e = d THEN t ELSE lock[e]
  BY <1>1, <1>2, <1>3
<1>8. /\ txn'[t].pc = step /\ txn'[t].call = c /\ written'[t] = NoWrites
      /\ UNCHANGED <<rows, holds>>
  BY <1>1, <1>3, <1>5 DEF Moved, database
<1>. HIDE DEF d
<1>9. Held(t)' = Held(t) \cup {d} /\ Wanted(t)' = Wanted(t) BY <1>2, <1>7, <1>8 DEF Held, Wanted
<1>10. CASE Wanted(t) \ Held(t) = {d}
  <2>1. step = AfterLocks(c.op) BY <1>10
  <2>2. Held(t)' = Wanted(t) BY <1>2, <1>9, <1>10
  <2>3. /\ c.source \in Wanted(t) /\ c.source \in Docs
        /\ c.op = "transition" => c.target \in Wanted(t) /\ c.target \in Docs
    BY <1>3, CallFacts, DocsAssumption DEF Wanted, Unset
  <2>4. lock'[c.source] = t /\ (c.op = "transition" => lock'[c.target] = t)
    BY <2>2, <2>3 DEF Held
  <2>5. Progress(t)'
    <3>1. CASE c.op = "refresh" BY <1>3, <1>4, <1>8, <2>1, <2>4, <3>1 DEF Progress, NoWrites
    <3>2. CASE c.op = "release" BY <1>3, <1>4, <1>8, <2>1, <2>4, <3>2 DEF Progress
    <3>3. CASE c.op = "transition" BY <1>3, <1>4, <1>8, <2>1, <2>4, <3>3 DEF Progress
    <3>. QED BY <1>3, <3>1, <3>2, <3>3
  <2>6. step \in Steps \ {"idle", "update", "lock"} BY <1>3, <1>4, <2>1
  <2>7. \A e \in Docs : lock'[e] = lock[e] \/ (lock[e] = NoTxn /\ lock'[e] = t) BY <1>1, <1>7
  <2>. HIDE DEF step
  <2>. QED BY <1>1, <1>5, <1>6, <1>7, <2>5, <2>6, <2>7, MoveInv
<1>11. CASE Wanted(t) \ Held(t) # {d}
  <2>1. step = "lock" BY <1>11
  <2>2. Elsewhere(t) BY <1>1, <1>5, <1>6, <1>7, NoTxnAssumption DEF Elsewhere, Moved, Wrote
  <2>3. TypeOK' BY <1>1, <1>5, <1>6, <1>7 DEF Inv, TypeOK, Moved, Wrote, database
  <2>4. Progress(t)' BY <1>3, <1>8, <2>1 DEF Progress
  <2>5. Aware(t)' BY <1>8, <2>1 DEF Aware
  <2>6. Ordered(t)'
    <3>1. Held(t)' \subseteq Wanted(t)' /\ Held(t)' # Wanted(t)' BY <1>2, <1>9, <1>11
    <3>2. ASSUME NEW x \in Held(t)', NEW e \in Wanted(t)' \ Held(t)' PROVE x < e
      <4>0. e \in Wanted(t) \ Held(t) /\ e # d BY <1>9, <3>2
      <4>1. e \in Wanted(t) \ Held(t) /\ e # d /\ e \in Int /\ d \in Int BY <1>2, <4>0, DocsAssumption
      <4>2. CASE x \in Held(t) BY <1>2, <4>1, <4>2
      <4>3. CASE x = d
        <5>1. d =< e BY <1>2, <4>1
        <5>. QED BY <4>1, <4>3, <5>1
      <4>. QED BY <1>9, <4>2, <4>3
    <3>. QED BY <1>8, <2>1, <3>1, <3>2 DEF Ordered
  <2>7. Admissions' BY <1>8, <2>2, SameAdmissions
  <2>8. repair.step # "held" BY <1>1 DEF Inv, Alone
  <2>. QED BY <1>1, <2>2, <2>3, <2>4, <2>5, <2>6, <2>7, <2>8, LocalStep
<1>. QED BY <1>10, <1>11

\* The INSERT of an admitted hold, under the lock of its document.
LEMMA InsertHoldInv ==
    ASSUME Inv, NEW t \in Txns, InsertHold(t)
    PROVE  Inv'
<1>. DEFINE c == txn[t].call
            d == c.source
            old == One(d, [rows[d] EXCEPT !.legal_hold_status = "active"])
            w == [rows |-> old, holds |-> One(c.hold, "active"), link |-> {}]
<1>1. /\ txn[t].pc = "insert" /\ UNCHANGED <<database, lock, repair>> /\ Goto(t, "count")
      /\ written' = [written EXCEPT ![t].holds = Over(One(c.hold, "active"), written[t].holds)]
  BY DEF InsertHold
<1>2. /\ c \in Calls /\ c.op = "admit" /\ lock[d] = t /\ CanAdmit(rows[d]) /\ holds[c.hold] = "absent"
      /\ written[t] = [rows |-> old, holds |-> <<>>, link |-> {}]
      /\ lock \in [Docs -> Txns \cup {NoTxn}]
  BY <1>1 DEF Inv, TypeOK, Progress
<1>3. Moved(t, "count") BY <1>1, GotoMoves DEF Inv, Steps
<1>. HIDE DEF old
<1>4. Over(One(c.hold, "active"), <<>>) = One(c.hold, "active") BY OneOver
<1>5. Wrote(t, w)
  <2>0. Over(One(c.hold, "active"), written[t].holds) = One(c.hold, "active") BY <1>2, <1>4
  <2>1. written' = [written EXCEPT ![t].holds = One(c.hold, "active")] BY <1>1, <2>0
  <2>. QED BY <1>2, <2>1, WriteWrote DEF Inv
<1>6. Progress(t)' BY <1>1, <1>2, <1>3, <1>5 DEF Progress, Moved, Wrote, database, old
<1>. HIDE DEF w
<1>. QED BY <1>1, <1>2, <1>3, <1>5, <1>6, MoveInv DEF Steps

\* The count of an admission sees the committed holds and the inserted one.
LEMMA CountHoldsInv ==
    ASSUME Inv, NEW t \in Txns, CountHolds(t)
    PROVE  Inv'
<1>. DEFINE c == txn[t].call
            d == c.source
            h == c.hold
            old == [rows[d] EXCEPT !.legal_hold_status = "active"]
            row == admit_and_record_legal_hold(rows[d], HoldsOf(d, holds), h)
            w == [rows |-> One(d, row), holds |-> One(h, "active"), link |-> {}]
<1>1. /\ txn[t].pc = "count" /\ UNCHANGED <<database, lock, repair>> /\ Goto(t, "commit")
      /\ WriteRow(t, d, [SeenRow(t, d) EXCEPT !.legal_hold_count =
                             Cardinality(ActiveHolds(SeenHolds(t, d)))])
  BY DEF CountHolds
<1>2. /\ c \in Calls /\ c.op = "admit" /\ lock[d] = t /\ CanAdmit(rows[d]) /\ holds[h] = "absent"
      /\ written[t] = [rows |-> One(d, old), holds |-> One(h, "active"), link |-> {}]
      /\ lock \in [Docs -> Txns \cup {NoTxn}] /\ rows \in [Docs -> Rows] /\ holds \in HoldRows
  BY <1>1 DEF Inv, TypeOK, Progress
<1>3. d \in Docs /\ h \in HoldIds /\ HoldDoc[h] = d BY <1>2, CallFacts
<1>4. Moved(t, "commit") BY <1>1, GotoMoves DEF Inv, Steps
<1>5. SeenRow(t, d) = old BY <1>2 DEF SeenRow, Over, One
<1>6. SeenHolds(t, d) = AdmitHold(HoldsOf(d, holds), h)
  <2>1. Over(One(h, "active"), holds) = AdmitHold(holds, h) BY <1>2, <1>3 DEF Over, One, AdmitHold, HoldRows
  <2>2. SeenHolds(t, d) = HoldsOf(d, AdmitHold(holds, h)) BY <1>2, <2>1 DEF SeenHolds
  <2>. QED BY <1>2, <1>3, <2>2, HoldsOfAdmitted
<1>7. row = [old EXCEPT !.legal_hold_count = Cardinality(ActiveHolds(AdmitHold(HoldsOf(d, holds), h)))]
  BY <1>2 DEF admit_and_record_legal_hold
<1>8. WriteRow(t, d, row) BY <1>1, <1>5, <1>6, <1>7
<1>. HIDE DEF old, row
<1>9. Wrote(t, w)
  <2>1. Over(One(d, row), One(d, old)) = One(d, row) BY OneOver
  <2>2. Over(One(d, row), written[t].rows) = One(d, row) BY <1>2, <2>1
  <2>3. written' = [written EXCEPT ![t].rows = One(d, row)] BY <1>8, <2>2 DEF WriteRow
  <2>. QED BY <1>2, <2>3, WriteWrote DEF Inv
<1>10. Progress(t)'
  <2>1. /\ txn'[t].call = c /\ txn'[t].pc = "commit" /\ written'[t] = w
        /\ UNCHANGED <<rows, holds, lock>>
    BY <1>1, <1>4, <1>9 DEF Moved, Wrote, database
  <2>2. Complete(t)' BY <1>2, <2>1 DEF Complete, row
  <2>. QED BY <1>2, <2>1, <2>2 DEF Progress
<1>. HIDE DEF w
<1>. QED BY <1>1, <1>2, <1>4, <1>9, <1>10, MoveInv DEF Steps

\* The UPDATE of a released hold, under the lock of its document.
LEMMA ClearHoldInv ==
    ASSUME Inv, NEW t \in Txns, ClearHold(t)
    PROVE  Inv'
<1>. DEFINE c == txn[t].call
            h == c.hold
            v == ReleaseHold(holds, h)[h]
            w == [rows |-> <<>>, holds |-> One(h, v), link |-> {}]
<1>1. txn[t].pc = "clear" /\ UNCHANGED <<database, lock, repair>> BY DEF ClearHold
<1>2. /\ c \in Calls /\ c.op = "release" /\ lock[c.source] = t /\ written[t] = NoWrites
      /\ lock \in [Docs -> Txns \cup {NoTxn}]
  BY <1>1 DEF Inv, TypeOK, Progress
<1>3. written[t] = [rows |-> <<>>, holds |-> <<>>, link |-> {}] BY <1>2 DEF NoWrites
<1>4. CASE holds[h] = "absent" /\ Goto(t, "commit") /\ UNCHANGED written
  <2>1. Moved(t, "commit") BY <1>4, GotoMoves DEF Inv, Steps
  <2>2. Wrote(t, written[t]) BY <1>3, <1>4, WriteWrote DEF Inv
  <2>3. Progress(t)' BY <1>1, <1>2, <1>4, <2>1 DEF Progress, Moved
  <2>. QED BY <1>1, <1>2, <2>1, <2>2, <2>3, MoveInv DEF Steps
<1>5. CASE /\ holds[h] # "absent" /\ Goto(t, "recount")
           /\ written' = [written EXCEPT ![t].holds = Over(One(h, v), written[t].holds)]
  <2>1. Moved(t, "recount") BY <1>5, GotoMoves DEF Inv, Steps
  <2>. HIDE DEF v
  <2>2. Over(One(h, v), written[t].holds) = One(h, v) BY <1>3, OneOver
  <2>3. written' = [written EXCEPT ![t].holds = One(h, v)] BY <1>5, <2>2
  <2>4. Wrote(t, w) BY <1>3, <2>3, WriteWrote DEF Inv
  <2>5. Progress(t)' BY <1>1, <1>2, <1>5, <2>1, <2>4 DEF Progress, Moved, Wrote, database, v
  <2>. HIDE DEF w
  <2>. QED BY <1>1, <1>2, <2>1, <2>4, <2>5, MoveInv DEF Steps
<1>. QED BY <1>4, <1>5 DEF ClearHold

\* The recount under the lock of the document.
LEMMA RecountInv ==
    ASSUME Inv, NEW t \in Txns, Recount(t)
    PROVE  Inv'
<1>. DEFINE c == txn[t].call
            d == c.source
            h == c.hold
            seen == SeenHolds(t, d)
            row == Derived(rows[d], seen)
            hw == IF c.op = "refresh" THEN <<>> ELSE One(h, ReleaseHold(holds, h)[h])
            w == [rows |-> One(d, row), holds |-> hw, link |-> {}]
<1>1. /\ txn[t].pc = "recount" /\ UNCHANGED <<database, lock, repair>> /\ Goto(t, "commit")
      /\ WriteRow(t, d, Set("refresh", SeenRow(t, d), seen))
  BY DEF Recount
<1>2. /\ c \in Calls /\ c.op \in {"refresh", "release"} /\ lock[d] = t
      /\ written[t] = [rows |-> <<>>, holds |-> hw, link |-> {}]
      /\ lock \in [Docs -> Txns \cup {NoTxn}] /\ rows \in [Docs -> Rows] /\ holds \in HoldRows
  BY <1>1 DEF Inv, TypeOK, Progress
<1>3. d \in Docs /\ (c.op = "release" => h \in HoldIds /\ HoldDoc[h] = d) BY <1>2, CallFacts
<1>4. Moved(t, "commit") BY <1>1, GotoMoves DEF Inv, Steps
<1>5. SeenRow(t, d) = rows[d] BY <1>2, <1>3 DEF SeenRow, Over
<1>6. WriteRow(t, d, row) BY <1>1, <1>5, SetRefresh
<1>7. Wrote(t, w)
  <2>. HIDE DEF row, hw
  <2>1. Over(One(d, row), <<>>) = One(d, row) BY OneOver
  <2>2. Over(One(d, row), written[t].rows) = One(d, row) BY <1>2, <2>1
  <2>3. written' = [written EXCEPT ![t].rows = One(d, row)] BY <1>6, <2>2 DEF WriteRow
  <2>. QED BY <1>2, <2>3, WriteWrote DEF Inv
<1>8. Complete(t)'
  <2>0. /\ txn'[t].call = c /\ written'[t] = w /\ UNCHANGED <<rows, holds, lock>>
    BY <1>1, <1>4, <1>7 DEF Moved, Wrote, database
  <2>1. CASE c.op = "refresh"
    <3>1. Over(<<>>, holds) = holds BY <1>2 DEF Over, HoldRows
    <3>2. seen = HoldsOf(d, holds) BY <1>2, <2>1, <3>1 DEF SeenHolds
    <3>3. row = Set("refresh", rows[d], HoldsOf(d, holds)) BY <3>2, SetRefresh
    <3>4. hw = <<>> BY <2>1
    <3>. HIDE DEF row, hw, seen
    <3>. QED BY <1>2, <2>0, <2>1, <3>3, <3>4 DEF Complete
  <2>2. CASE c.op = "release"
    <3>1. hw = One(h, ReleaseHold(holds, h)[h]) BY <2>2
    <3>2. ReleaseHold(holds, h) = [holds EXCEPT ![h] = ReleaseHold(holds, h)[h]]
          /\ HoldsOf(d, ReleaseHold(holds, h)) = ReleaseHold(HoldsOf(d, holds), h)
      BY <1>2, <1>3, <2>2, HoldsOfReleased
    <3>3. Over(hw, holds) = ReleaseHold(holds, h)
      <4>. DEFINE v == ReleaseHold(holds, h)[h]
      <4>. HIDE DEF v, hw
      <4>1. Over(One(h, v), holds) = [holds EXCEPT ![h] = v] BY <1>2, <1>3, <2>2 DEF Over, One, HoldRows
      <4>. QED BY <3>1, <3>2, <4>1 DEF v
    <3>4. seen = ReleaseHold(HoldsOf(d, holds), h)
      <4>. HIDE DEF hw
      <4>. QED BY <1>2, <3>2, <3>3 DEF SeenHolds
    <3>5. row = release_and_record_legal_hold(rows[d], HoldsOf(d, holds), h)
      BY <3>4 DEF release_and_record_legal_hold
    <3>. HIDE DEF row, hw, seen
    <3>. QED BY <1>2, <2>0, <2>2, <3>1, <3>5 DEF Complete
  <2>. QED BY <1>2, <2>1, <2>2
<1>9. Progress(t)' BY <1>1, <1>2, <1>4, <1>8 DEF Progress, Moved
<1>. HIDE DEF w
<1>. QED BY <1>1, <1>2, <1>4, <1>7, <1>9, MoveInv DEF Steps

\* The checks and writes of a transition, under the locks of both documents.
LEMMA LinkInv ==
    ASSUME Inv, NEW t \in Txns, Link(t)
    PROVE  Inv'
<1>. DEFINE c == txn[t].call
            s == c.source
            e == c.target
            l == IF CanLink(s, e) THEN {<<s, e>>} ELSE {}
            w == [rows |-> <<>>, holds |-> <<>>, link |-> l]
<1>1. /\ txn[t].pc = "link" /\ UNCHANGED <<database, lock, repair>> /\ Goto(t, "commit")
      /\ written' = [written EXCEPT ![t].link = l]
  BY DEF Link
<1>2. /\ c \in Calls /\ c.op = "transition" /\ lock[s] = t /\ lock[e] = t /\ written[t] = NoWrites
      /\ lock \in [Docs -> Txns \cup {NoTxn}]
  BY <1>1 DEF Inv, TypeOK, Progress
<1>3. written[t] = [rows |-> <<>>, holds |-> <<>>, link |-> {}] BY <1>2 DEF NoWrites
<1>4. Moved(t, "commit") BY <1>1, GotoMoves DEF Inv, Steps
<1>. HIDE DEF l
<1>5. Wrote(t, w) BY <1>1, <1>3, WriteWrote DEF Inv
<1>6. written'[t] = NoWrites \/ Complete(t)'
  <2>1. /\ txn'[t].call = c /\ written'[t] = w /\ UNCHANGED <<database, lock>>
    BY <1>1, <1>4, <1>5 DEF Moved, Wrote
  <2>2. CASE CanLink(s, e)
    <3>1. l = {<<s, e>>} BY <2>2 DEF l
    <3>2. CanLink(s, e)' BY <2>1, <2>2 DEF CanLink, database
    <3>. QED BY <1>2, <2>1, <3>1, <3>2 DEF Complete
  <2>3. CASE ~CanLink(s, e) BY <2>1, <2>3 DEF NoWrites, l
  <2>. QED BY <2>2, <2>3
<1>7. Progress(t)' BY <1>1, <1>2, <1>4, <1>6 DEF Progress, Moved
<1>. HIDE DEF w
<1>. QED BY <1>1, <1>2, <1>4, <1>5, <1>7, MoveInv DEF Steps

\* A transaction that ends leaves nothing behind.
LEMMA EndLeavesNothing ==
    ASSUME Inv, NEW t \in Txns, End(t), txn[t].pc # "idle"
    PROVE  /\ Elsewhere(t) /\ txn'[t] = Idle /\ written'[t] = NoWrites
           /\ lock' \in [Docs -> Txns \cup {NoTxn}]
           /\ txn' \in [Txns -> [pc : Steps, call : Calls \cup {NoCall}, snapshot : HoldRows]]
           /\ written' = [u \in Txns |-> written'[u]]
           /\ Progress(t)' /\ Aware(t)' /\ Ordered(t)' /\ Admissions'
           /\ UNCHANGED repair /\ repair.step # "held"
<1>1. NoHolds \in HoldRows BY DEF NoHolds, HoldRows
<1>2. Idle \in [pc : Steps, call : Calls \cup {NoCall}, snapshot : HoldRows] BY <1>1 DEF Idle, Steps
<1>3. /\ txn \in [Txns -> [pc : Steps, call : Calls \cup {NoCall}, snapshot : HoldRows]]
      /\ lock \in [Docs -> Txns \cup {NoTxn}] /\ written = [u \in Txns |-> written[u]]
  BY DEF Inv, TypeOK
<1>4. /\ txn' = [txn EXCEPT ![t] = Idle] /\ written' = [written EXCEPT ![t] = NoWrites]
      /\ lock' = [d \in Docs |-> IF lock[d] = t THEN NoTxn ELSE lock[d]] /\ UNCHANGED repair
  BY DEF End
<1>5. /\ txn'[t] = Idle /\ \A u \in Txns \ {t} : txn'[u] = txn[u]
      /\ txn' \in [Txns -> [pc : Steps, call : Calls \cup {NoCall}, snapshot : HoldRows]]
  BY <1>2, <1>3, <1>4
<1>6. /\ written'[t] = NoWrites /\ written' = [u \in Txns |-> written'[u]]
      /\ \A u \in Txns \ {t} : written'[u] = written[u]
  <2>1. written' = [u \in Txns |-> IF u = t THEN NoWrites ELSE written[u]] BY <1>3, <1>4
  <2>. QED BY <2>1
<1>7. Elsewhere(t) BY <1>3, <1>4, <1>5, <1>6, NoTxnAssumption DEF Elsewhere
<1>8. Held(t)' = {} BY <1>4, NoTxnAssumption DEF Held
<1>9. Idle.pc = "idle" /\ Idle.call = NoCall BY DEF Idle
<1>10. Progress(t)' BY <1>5, <1>6, <1>9 DEF Progress
<1>11. Aware(t)' /\ Ordered(t)' BY <1>5, <1>8, <1>9 DEF Aware, Ordered
<1>12. Admissions' BY <1>5, <1>7, <1>9, SameAdmissions
<1>13. lock' \in [Docs -> Txns \cup {NoTxn}] BY <1>3, <1>4
<1>14. repair.step # "held" BY DEF Inv, Alone
<1>. QED BY <1>4, <1>5, <1>6, <1>7, <1>10, <1>11, <1>12, <1>13, <1>14

\* A rollback drops locks and writes.
LEMMA AbortInv ==
    ASSUME Inv, NEW t \in Txns, Abort(t)
    PROVE  Inv'
<1>1. txn[t].pc # "idle" /\ End(t) /\ UNCHANGED database BY DEF Abort
<1>2. TypeOK' BY <1>1, EndLeavesNothing DEF Inv, TypeOK, database
<1>. QED BY <1>1, <1>2, EndLeavesNothing, LocalStep

\* A commit: others are aware of what it changed, because they wait for its locks or have not read yet.
LEMMA CommitInv ==
    ASSUME Inv, NEW t \in Txns, Commit(t)
    PROVE  Inv'
<1>1. txn[t].pc = "commit" /\ End(t) /\ Effect(t) BY CommitEffect DEF Commit
<1>2. /\ Elsewhere(t) /\ Progress(t)' /\ Aware(t)' /\ Ordered(t)' /\ Admissions'
      /\ UNCHANGED repair /\ repair.step # "held"
  BY <1>1, EndLeavesNothing
<1>3. TypeOK' BY <1>1, EndLeavesNothing DEF Inv, TypeOK, Effect
<1>4. ASSUME NEW u \in Txns \ {t} PROVE Progress(u)' /\ Aware(u)' /\ Ordered(u)'
  <2>1. /\ txn'[u] = txn[u] /\ written'[u] = written[u] /\ \A d \in Docs : lock'[d] = u <=> lock[d] = u
    BY <1>2 DEF Elsewhere
  <2>2. \A d \in Docs : lock[d] = u => Unaffected(d) BY <1>1 DEF Effect
  <2>3. PICK L \in SUBSET (Docs \X Docs) :
           /\ relationships' = relationships \cup L
           /\ \A r \in L : lock[r[1]] = t /\ lock[r[2]] = t
    BY <1>1 DEF Effect, LinksLocked
  <2>4. \A r \in L : \A d \in Docs : lock[d] = u => r[1] # d /\ r[2] # d BY <2>3
  <2>5. txn[u].pc # "idle" /\ txn[u].call.op = "admit" =>
           holds'[txn[u].call.hold] = holds[txn[u].call.hold]
    <3>1. SUFFICES ASSUME txn[u].pc # "idle", txn[u].call.op = "admit"
                   PROVE  holds'[txn[u].call.hold] = holds[txn[u].call.hold]
      OBVIOUS
    <3>2. txn[u].call \in Calls /\ holds[txn[u].call.hold] = "absent" BY <3>1 DEF Inv, Progress
    <3>3. txn[u].call.hold \in HoldIds BY <3>1, <3>2, CallFacts
    <3>4. txn[t].call.op = "admit" => txn[t].call.hold # txn[u].call.hold
      BY <3>1 DEF Inv, Admissions
    <3>. QED BY <1>1, <3>2, <3>3, <3>4 DEF Effect
  <2>6. holds' \in HoldRows BY <1>1 DEF Effect
  <2>7. Progress(u)' BY <2>1, <2>2, <2>3, <2>4, <2>5, <2>6, ProgressLasts
  <2>8. Aware(u)'
    <3>. DEFINE d == txn[u].call.source
    <3>1. SUFFICES ASSUME txn[u].pc = "update", NEW h \in HoldIds, HoldDoc[h] = d, holds'[h] = "active",
                          txn[u].snapshot[h] # "active"
                   PROVE  rows'[d].legal_hold_status = "active"
      BY <2>1 DEF Aware
    <3>2. txn[u].call \in Calls /\ d \in Docs BY <3>1, CallFacts DEF Inv, Progress
    <3>3. SummaryKept(d) BY <1>1, <3>2 DEF Effect
    <3>4. CASE Agrees(rows'[d], HoldsOf(d, holds'))
      <4>1. h \in ActiveHolds(HoldsOf(d, holds')) BY <3>1 DEF ActiveHolds, HoldsOf
      <4>. QED BY <3>4, <4>1 DEF Agrees
    <3>5. CASE /\ rows'[d].legal_hold_status = rows[d].legal_hold_status
               /\ HoldsOf(d, holds') = HoldsOf(d, holds)
      <4>1. HoldsOf(d, holds')[h] = holds'[h] /\ HoldsOf(d, holds)[h] = holds[h] BY <3>1 DEF HoldsOf
      <4>2. holds[h] = "active" BY <3>1, <3>5, <4>1
      <4>. QED BY <3>1, <3>5, <4>2 DEF Inv, Aware
    <3>. QED BY <3>3, <3>4, <3>5 DEF SummaryKept
  <2>9. Ordered(u)' BY <1>2, OthersOrdered DEF Inv
  <2>. QED BY <2>7, <2>8, <2>9
<1>5. RepairHolds'
  <2>1. SUFFICES ASSUME repair.step = "done", NEW d \in Docs
                 PROVE  rows'[d] = Derived(rows'[d], HoldsOf(d, holds'))
    BY <1>2 DEF RepairHolds
  <2>2. rows[d] \in Rows /\ rows'[d] \in Rows BY <1>3 DEF Inv, TypeOK
  <2>3. Agrees(rows[d], HoldsOf(d, holds)) BY <2>1, <2>2, DerivedAgrees DEF Inv, RepairHolds
  <2>4. Agrees(rows'[d], HoldsOf(d, holds')) BY <1>1, <2>3 DEF Effect, SummaryKept, Agrees
  <2>. QED BY <2>2, <2>4, DerivedAgrees
<1>6. Alone' BY <1>2 DEF Inv, Alone
<1>. QED BY <1>2, <1>3, <1>4, <1>5, <1>6 DEF Inv

----------------------------------------------------------------------------
(* The migration. *)

\* A step of the migration that leaves the tables as they are.
LEMMA MigrationStep ==
    ASSUME Inv, UNCHANGED <<database, lock, txn, written>>,
           repair' = [step |-> repair'.step, derived |-> repair'.derived],
           repair'.step \in {"none", "requested", "held"}, Alone'
    PROVE  Inv'
<1>1. TypeOK' BY DEF Inv, TypeOK, database
<1>2. ASSUME NEW t \in Txns PROVE Progress(t)' /\ Aware(t)' /\ Ordered(t)'
  <2>1. Progress(t) /\ Aware(t) /\ Ordered(t) BY DEF Inv
  <2>2. Complete(t)' <=> Complete(t) BY DEF Complete, CanLink, database
  <2>3. Progress(t)' BY <2>1, <2>2 DEF Progress, database
  <2>4. Aware(t)' /\ Ordered(t)' BY <2>1 DEF Aware, Ordered, Held, Wanted, database
  <2>. QED BY <2>3, <2>4
<1>3. Admissions' /\ RepairHolds' BY DEF Inv, Admissions, RepairHolds
<1>. QED BY <1>1, <1>2, <1>3 DEF Inv

\* The request for the table lock changes no row.
LEMMA LockTableInv ==
    ASSUME Inv, LockTable
    PROVE  Inv'
<1>1. /\ repair.step = "none" /\ repair' = [repair EXCEPT !.step = "requested"]
      /\ UNCHANGED <<database, lock, txn, written>>
  BY DEF LockTable
<1>2. /\ repair' = [step |-> "requested", derived |-> repair.derived] /\ repair.derived = <<>>
  BY <1>1 DEF Inv, TypeOK, Alone
<1>3. Alone' BY <1>2 DEF Alone
<1>. QED BY <1>1, <1>2, <1>3, MigrationStep

\* The lock is granted when nobody writes, and the summaries are derived then.
LEMMA DeriveSummariesInv ==
    ASSUME Inv, DeriveSummaries
    PROVE  Inv'
<1>1. /\ \A t \in Txns : txn[t].pc = "idle"
      /\ repair' = [step |-> "held", derived |-> [d \in Docs |-> HoldsOf(d, holds)]]
      /\ UNCHANGED <<database, lock, txn, written>>
  BY DEF DeriveSummaries
<1>2. Alone' BY <1>1 DEF Alone, database
<1>. QED BY <1>1, <1>2, MigrationStep

\* The UPDATE derives from the hold rows as they are: nobody has written since.
LEMMA ReconcileEffect ==
    ASSUME Inv, Reconcile
    PROVE  /\ rows' = [d \in Docs |-> Derived(rows[d], HoldsOf(d, holds))]
           /\ \A t \in Txns : txn[t].pc = "idle"
           /\ repair' = [step |-> "done", derived |-> <<>>]
           /\ UNCHANGED <<holds, superseded_by, origin, relationships, lock, txn, written>>
<1>1. repair.step = "held" BY DEF Reconcile, Inv, Alone
<1>2. \A d \in Docs : repair.derived[d] = HoldsOf(d, holds) BY <1>1 DEF Inv, Alone
<1>. QED BY <1>1, <1>2 DEF Reconcile, Inv, Alone

\* The repair writes what it derived.
LEMMA ReconcileInv ==
    ASSUME Inv, Reconcile
    PROVE  Inv'
<1>1. /\ rows' = [d \in Docs |-> Derived(rows[d], HoldsOf(d, holds))]
      /\ \A t \in Txns : txn[t].pc = "idle"
      /\ repair' = [step |-> "done", derived |-> <<>>]
      /\ UNCHANGED <<holds, superseded_by, origin, relationships, lock, txn, written>>
  BY ReconcileEffect
<1>2. ASSUME NEW d \in Docs
      PROVE  /\ rows'[d] \in Rows
             /\ rows'[d] = Derived(rows'[d], HoldsOf(d, holds))
  <2>1. rows[d] \in Rows BY DEF Inv, TypeOK
  <2>2. rows'[d] = Derived(rows[d], HoldsOf(d, holds)) BY <1>1
  <2>3. rows'[d] \in Rows /\ Agrees(rows'[d], HoldsOf(d, holds)) BY <2>1, <2>2, DerivedAgrees
  <2>. QED BY <2>3, DerivedAgrees
<1>3. rows' \in [Docs -> Rows] BY <1>1, <1>2
<1>4. TypeOK' BY <1>1, <1>3 DEF Inv, TypeOK
<1>5. RepairHolds' BY <1>1, <1>2 DEF RepairHolds
<1>6. ASSUME NEW t \in Txns PROVE Progress(t)' /\ Aware(t)' /\ Ordered(t)'
  <2>1. Progress(t) /\ Ordered(t) /\ txn'[t].pc = "idle" BY <1>1 DEF Inv
  <2>2. Held(t)' = Held(t) BY <1>1 DEF Held
  <2>. QED BY <1>1, <2>1, <2>2 DEF Progress, Aware, Ordered
<1>7. Admissions' BY <1>1 DEF Inv, Admissions
<1>8. Alone' BY <1>1 DEF Alone
<1>. QED BY <1>4, <1>5, <1>6, <1>7, <1>8 DEF Inv

----------------------------------------------------------------------------
(* The invariant. *)

\* A row with another summary is a row.
LEMMA SummaryRow ==
    ASSUME NEW row \in Rows, NEW s \in LegalHoldStatus, NEW n \in Nat
    PROVE  [row EXCEPT !.legal_hold_status = s, !.legal_hold_count = n] \in Rows
BY DEF Rows

\* No transaction runs at first.
LEMMA InvInit == Init => Inv
<1>. SUFFICES ASSUME Init PROVE Inv OBVIOUS
<1>1. ASSUME NEW s \in LegalHoldStatus, NEW n \in {0, 1} PROVE Summary(s, n) \in Rows
  <2>1. PICK a : a = Archived OBVIOUS
  <2>2. a \in Rows
    BY <2>1, MaxDayAssumption DEF Archived, Rows, PurgeStatus, Stamps, Unset, LegalHoldStatus
  <2>3. Summary(s, n) = [a EXCEPT !.legal_hold_status = s, !.legal_hold_count = n]
    BY <2>1, Zenon DEF Summary
  <2>4. [a EXCEPT !.legal_hold_status = s, !.legal_hold_count = n] \in Rows BY <2>2, SummaryRow
  <2>. QED BY <2>3, <2>4
<1>2. rows \in [Docs -> Rows] BY <1>1 DEF Init
<1>3. NoHolds \in HoldRows BY DEF NoHolds, HoldRows
<1>4. Idle \in [pc : Steps, call : Calls \cup {NoCall}, snapshot : HoldRows]
  BY <1>3 DEF Idle, Steps
<1>5. TypeOK
  <2>1. /\ holds \in HoldRows /\ superseded_by = [d \in Docs |-> Unset] /\ origin = [d \in Docs |-> Unset]
        /\ lock = [d \in Docs |-> NoTxn] /\ txn = [t \in Txns |-> Idle]
        /\ written = [t \in Txns |-> NoWrites] /\ repair = [step |-> "none", derived |-> <<>>]
    BY DEF Init
  <2>2. txn \in [Txns -> [pc : Steps, call : Calls \cup {NoCall}, snapshot : HoldRows]]
    BY <1>4, <2>1
  <2>. QED BY <1>2, <2>1, <2>2 DEF TypeOK
<1>6. ASSUME NEW t \in Txns PROVE Progress(t) /\ Aware(t) /\ Ordered(t)
  <2>1. txn[t].pc = "idle" /\ written[t] = NoWrites BY DEF Init, Idle
  <2>2. Held(t) = {} BY NoTxnAssumption DEF Init, Held
  <2>. QED BY <2>1, <2>2 DEF Progress, Aware, Ordered
<1>7. Admissions BY DEF Init, Admissions, Idle, NoCall
<1>8. Alone /\ RepairHolds BY DEF Init, Alone, RepairHolds
<1>. QED BY <1>5, <1>6, <1>7, <1>8 DEF Inv

\* Every step keeps the invariant.
LEMMA InvNext == Inv /\ [Next]_vars => Inv'
<1>. SUFFICES ASSUME Inv, [Next]_vars PROVE Inv' OBVIOUS
<1>1. ASSUME NEW t \in Txns, NEW c \in Calls, Start(t, c) PROVE Inv' BY <1>1, StartInv
<1>2. ASSUME NEW t \in Txns, Statement(t) PROVE Inv'
  BY <1>2, UpdateInv, ForUpdateInv, InsertHoldInv, CountHoldsInv, ClearHoldInv, RecountInv,
     LinkInv, CommitInv DEF Statement
<1>3. ASSUME NEW t \in Txns, Abort(t) PROVE Inv' BY <1>3, AbortInv
<1>4. CASE LockTable BY <1>4, LockTableInv
<1>5. CASE DeriveSummaries BY <1>5, DeriveSummariesInv
<1>6. CASE Reconcile BY <1>6, ReconcileInv
<1>7. CASE UNCHANGED vars
  <2>1. UNCHANGED <<database, lock, txn, written>> /\ repair' = repair BY <1>7 DEF vars
  <2>2. CASE repair.step = "done"
    <3>1. TypeOK' /\ Admissions' /\ Alone' /\ RepairHolds'
      BY <2>1 DEF Inv, TypeOK, Admissions, Alone, RepairHolds, database
    <3>2. ASSUME NEW t \in Txns PROVE Progress(t)' /\ Aware(t)' /\ Ordered(t)'
      <4>1. Complete(t)' <=> Complete(t) BY <2>1 DEF Complete, CanLink, database
      <4>2. Progress(t)' BY <2>1, <4>1 DEF Inv, Progress, database
      <4>3. Aware(t)' /\ Ordered(t)' BY <2>1 DEF Inv, Aware, Ordered, Held, Wanted, database
      <4>. QED BY <4>2, <4>3
    <3>. QED BY <3>1, <3>2 DEF Inv
  <2>3. CASE repair.step # "done"
    <3>1. Alone' BY <2>1 DEF Inv, Alone, database
    <3>. QED BY <2>1, <2>3, <3>1, MigrationStep DEF Inv, TypeOK
  <2>. QED BY <2>2, <2>3
<1>. QED BY <1>1, <1>2, <1>3, <1>4, <1>5, <1>6, <1>7 DEF Next

\* The invariant holds in every reachable state.
THEOREM InvAlways == Spec => []Inv
BY InvInit, InvNext, PTL DEF Spec

----------------------------------------------------------------------------
(* What follows. *)

\* After migration 013 every summary is, and stays, what the hold rows say, whatever
\* transactions were in flight (migrations/013, postgres_repository.py).
THEOREM RepairHoldsAlways == Spec => []RepairHolds
<1>1. Inv => RepairHolds BY DEF Inv
<1>. QED BY <1>1, InvAlways, PTL

\* A step changes the committed rows only as CallsAreAtomic allows.
LEMMA StepIsAtomic == Inv /\ [Next]_vars => [AtomicCall]_database
<1>. SUFFICES ASSUME Inv, [Next]_vars PROVE AtomicCall \/ UNCHANGED database OBVIOUS
<1>1. ASSUME NEW t \in Txns, Commit(t) PROVE AtomicCall \/ UNCHANGED database
  BY <1>1, CommitEffect DEF Effect
<1>2. ASSUME NEW t \in Txns, (\E c \in Calls : Start(t, c)) \/ (Statement(t) /\ ~Commit(t)) \/ Abort(t)
      PROVE  UNCHANGED database
  BY <1>2 DEF Start, Statement, Update, ForUpdate, InsertHold, CountHolds, ClearHold, Recount, Link, Abort
<1>3. CASE Reconcile BY <1>3, ReconcileEffect DEF AtomicCall
<1>4. CASE LockTable \/ DeriveSummaries \/ UNCHANGED vars
  BY <1>4 DEF LockTable, DeriveSummaries, vars
<1>. QED BY <1>1, <1>2, <1>3, <1>4 DEF Next

\* Every change of the database is one call of the port on what was committed when it
\* took effect: the statements of postgres_repository.py are atomic together.
THEOREM CallsAreAtomicAlways == Spec => CallsAreAtomic
<1>. QED BY StepIsAtomic, InvAlways, PTL DEF Spec, CallsAreAtomic

\* Any set of documents has a last one in lock order.
LEMMA LastDocument ==
    ASSUME NEW T, T \subseteq Docs, T # {}
    PROVE  \E x \in T : \A y \in T : ~(x < y)
<1>. DEFINE Above(x) == {e \in Docs : x < e}
            F == {Above(x) : x \in T}
            R == StrictSubsetOrdering(Docs)
<1>1. IsFiniteSet(Docs) /\ Docs \subseteq Nat BY DocsAssumption
<1>2. \A x \in T : Above(x) \in FiniteSubsetsOf(Docs)
  <2>1. ASSUME NEW x \in T PROVE Above(x) \subseteq Docs /\ IsFiniteSet(Above(x))
    BY <1>1, FS_Subset
  <2>. QED BY <2>1 DEF FiniteSubsetsOf
<1>3. F \subseteq FiniteSubsetsOf(Docs) /\ F # {} BY <1>2
<1>4. IsWellFoundedOn(R, FiniteSubsetsOf(Docs)) BY FS_StrictSubsetOrderingWellFounded
<1>. HIDE DEF F, R
<1>5. PICK A \in F : \A B \in F : ~(<<B, A>> \in R) BY <1>3, <1>4, WFMin
<1>6. PICK x \in T : A = Above(x) BY <1>5 DEF F
<1>7. SUFFICES ASSUME NEW y \in T, x < y PROVE FALSE BY <1>6
<1>8. Above(y) \subseteq Above(x) /\ y \in Above(x) /\ y \notin Above(y)
  <2>1. x \in Nat /\ y \in Nat /\ \A e \in Docs : e \in Nat BY <1>1
  <2>2. ~(y < y) /\ \A e \in Docs : y < e => x < e BY <1>7, <2>1
  <2>. QED BY <1>7, <2>2
<1>9. Above(y) \in F BY DEF F
<1>10. <<Above(y), Above(x)>> \in R BY <1>8 DEF R, StrictSubsetOrdering
<1>. QED BY <1>5, <1>6, <1>9, <1>10

\* A transaction that waits for a row waits for a document after every one it holds.
LEMMA WaitsUpward ==
    ASSUME Inv, NEW t \in Txns, Awaited(t) # Unset
    PROVE  Awaited(t) \in Docs /\ \A d \in Held(t) : d < Awaited(t)
<1>1. CASE txn[t].pc = "update"
  <2>1. txn[t].call \in Calls /\ Held(t) = {} BY <1>1 DEF Inv, Progress, Ordered
  <2>2. Awaited(t) = txn[t].call.source BY <1>1 DEF Awaited
  <2>. QED BY <2>1, <2>2, CallFacts
<1>2. CASE txn[t].pc = "lock"
  <2>1. Awaited(t) = NextLock(t) BY <1>2 DEF Awaited
  <2>. QED BY <1>2, <2>1, NextLockLeast
<1>. QED BY <1>1, <1>2 DEF Awaited

\* No transactions wait for each other in a circle: locks are taken in sorted order.
THEOREM NoDeadlockAlways == Spec => []NoDeadlock
<1>1. ASSUME Inv PROVE NoDeadlock
  <2>1. SUFFICES ASSUME NEW S \in (SUBSET Txns) \ {{}},
                        \A t \in S : Awaited(t) # Unset /\ lock[Awaited(t)] \in S
                 PROVE  FALSE
    BY DEF NoDeadlock
  <2>. DEFINE T == {Awaited(t) : t \in S}
  <2>2. T \subseteq Docs /\ T # {} BY <1>1, <2>1, WaitsUpward
  <2>3. PICK x \in T : \A y \in T : ~(x < y)
    <3>. HIDE DEF T
    <3>. QED BY <2>2, LastDocument
  <2>4. PICK t \in S : x = Awaited(t) OBVIOUS
  <2>5. lock[x] \in S BY <2>1, <2>4
  <2>6. x \in Held(lock[x]) BY <2>2 DEF Held
  <2>7. x < Awaited(lock[x]) BY <1>1, <2>1, <2>5, <2>6, WaitsUpward
  <2>. QED BY <2>3, <2>5, <2>7
<1>. QED BY <1>1, InvAlways, PTL
================================================================================
