---------------------------- MODULE Transactions ----------------------------
(***************************************************************************)
(* The PostgreSQL adapter, one SQL statement at a time.  Modules Retention *)
(* and Lifecycle take a call of the repository port as one atomic step;    *)
(* here a call is a transaction of several statements under READ           *)
(* COMMITTED, interleaved with the statements of the others:               *)
(*                                                                         *)
(*  - a statement reads the rows committed when it starts, and its own     *)
(*    transaction's writes;                                                *)
(*  - an UPDATE that finds its row locked waits, and then checks its WHERE *)
(*    clause against the new version of that row only: a subquery keeps    *)
(*    the answer it had when the statement started;                        *)
(*  - row locks are held until the transaction ends.                       *)
(*                                                                         *)
(* The migration that repairs drifted summaries runs beside the workers.   *)
(* A transaction can be cut short after any statement (statement_timeout,  *)
(* a lost connection): its writes and its locks are gone.  What a call     *)
(* answers is in the modules that make it.                                 *)
(***************************************************************************)
EXTENDS RetentionRules

CONSTANTS
    Docs,       \* document ids: integers, so that they can be sorted
    HoldDoc,    \* the document a hold refers to
    Txns,       \* connections of the pool
    NoTxn       \* "not locked"

ASSUME DocsAssumption == Docs \subseteq Nat \ {0} /\ IsFiniteSet(Docs)
ASSUME HoldDocAssumption == HoldDoc \in [HoldIds -> Docs]
ASSUME NoTxnAssumption == NoTxn \notin Txns

VARIABLES
    rows,            \* archive_documents, as committed
    holds,           \* archive_legal_holds, as committed
    superseded_by,   \* the lifecycle columns, as committed (Unset is NULL)
    origin,
    relationships,   \* archive_lifecycle_relationships: <<source, target>> pairs
    lock,            \* lock[d]: the transaction that holds the row lock of d
    txn,             \* txn[t]: the call it serves and how far it got
    written,         \* written[t]: its uncommitted writes
    repair           \* the migration: its step and the summaries it derived

database == <<rows, holds, superseded_by, origin, relationships>>
vars == <<database, lock, txn, written, repair>>

\* A call of the port: its documents (two for a transition) and its hold.
Updates == {"begin_purge", "mark_purge_eligible", "mark_purge_not_eligible", "complete_purge"}
Calls == [op : Updates \cup {"refresh"}, source : Docs, target : {Unset}, hold : {Unset}]
         \cup {[op |-> o, source |-> HoldDoc[h], target |-> Unset, hold |-> h] :
                  o \in {"admit", "release"}, h \in HoldIds}
         \cup [op : {"transition"}, source : Docs, target : Docs, hold : {Unset}]

NoHolds == [h \in HoldIds |-> "absent"]
NoWrites == [rows |-> <<>>, holds |-> <<>>, link |-> {}]
NoCall == [op |-> "none", source |-> Unset, target |-> Unset, hold |-> Unset]
Idle == [pc |-> "idle", call |-> NoCall, snapshot |-> NoHolds]

HoldsOf(d, hs) == [h \in HoldIds |-> IF HoldDoc[h] = d THEN hs[h] ELSE "absent"]

\* The write of one row, and a table with writes over it.
One(id, value) == [i \in {id} |-> value]
Over(new, table) ==
    [i \in DOMAIN new \cup DOMAIN table |-> IF i \in DOMAIN new THEN new[i] ELSE table[i]]

\* What a statement of t that starts now reads.
SeenRow(t, d) == Over(written[t].rows, rows)[d]
SeenHolds(t, d) == HoldsOf(d, Over(written[t].holds, holds))

Archived == [purge_status |-> "not_eligible", purge_eligible_at |-> Unset,
             purge_started_at |-> Unset, purged_at |-> Unset,
             legal_hold_status |-> "clear", legal_hold_count |-> 0,
             retain_until_date |-> Unset]

\* A new document whose hold summary says s and n.
Summary(s, n) == [Archived EXCEPT !.legal_hold_status = s, !.legal_hold_count = n]

\* Any set of documents not yet destroyed, the drifted ones too (see Retention).
Init ==
    /\ holds \in HoldRows
    /\ rows \in [Docs -> {Summary(s, n) : s \in LegalHoldStatus, n \in {0, 1}}]
    /\ \A d \in Docs : rows[d].legal_hold_status = "clear" <=> rows[d].legal_hold_count = 0
    /\ \A d \in Docs : rows[d] # Archived => HoldsOf(d, holds) # NoHolds
    /\ superseded_by = [d \in Docs |-> Unset]
    /\ origin = [d \in Docs |-> Unset]
    /\ relationships = {}
    /\ lock = [d \in Docs |-> NoTxn]
    /\ txn = [t \in Txns |-> Idle]
    /\ written = [t \in Txns |-> NoWrites]
    /\ repair = [step |-> "none", derived |-> <<>>]

----------------------------------------------------------------------------
(* Statements. *)

Now == 1

\* The WHERE clause of the first UPDATE of a call, on a version of the row and
\* with the hold rows its subquery saw.
Where(op, row, seen) ==
    CASE op = "begin_purge" -> CanBegin(row, seen)
      [] op = "mark_purge_eligible" -> CanGrant(row, seen)
      [] op = "mark_purge_not_eligible" -> CanWithdraw(row)
      [] op = "complete_purge" -> CanComplete(row)
      [] op = "admit" -> CanAdmit(row)
      [] OTHER -> TRUE

\* What the statement sets.
Set(op, row, seen) ==
    CASE op = "begin_purge" -> begin_purge(row, seen, Now)
      [] op = "mark_purge_eligible" -> mark_purge_eligible(row, seen, Now)
      [] op = "mark_purge_not_eligible" -> mark_purge_not_eligible(row)
      [] op = "complete_purge" -> complete_purge(row, Now)
      [] op = "admit" -> [row EXCEPT !.legal_hold_status = "active"]
      [] OTHER -> refresh_legal_hold_summary(row, seen)

Goto(t, step) == txn' = [txn EXCEPT ![t].pc = step]
WriteRow(t, d, row) == written' = [written EXCEPT ![t].rows = Over(One(d, row), @)]

\* Mutant: the recount of refresh_legal_hold_summary is its first statement.
FirstStep_NoForUpdate(c) == IF c.op \in Updates \cup {"admit", "refresh"} THEN "update" ELSE "lock"

FirstStep(c) == IF c.op \in Updates \cup {"admit"} THEN "update" ELSE "lock"

\* The first statement starts: it reads the committed rows, and a conditional
\* UPDATE that matches none ends there.  No writer starts while the migration
\* holds, or waits for, its table lock.
Start(t, c) ==
    /\ txn[t].pc = "idle"
    /\ repair.step \in {"none", "done"}
    /\ c.op = "admit" =>
          /\ holds[c.hold] = "absent"
          /\ \A u \in Txns : txn[u].call.hold # c.hold
    /\ LET seen == HoldsOf(c.source, holds)
           none == FirstStep(c) = "update" /\ ~Where(c.op, rows[c.source], seen)
       IN  txn' = [txn EXCEPT ![t] = [pc |-> IF none THEN "commit" ELSE FirstStep(c),
                                      call |-> c,
                                      snapshot |-> IF none THEN NoHolds ELSE seen]]
    /\ UNCHANGED <<database, lock, written, repair>>

\* The UPDATE has the row to itself: it checks the version it finds there.
Update(t) ==
    /\ txn[t].pc = "update"
    /\ LET c == txn[t].call
           d == c.source
           seen == txn[t].snapshot
           step == IF c.op = "admit" THEN "insert" ELSE "commit"
       IN  /\ lock[d] = NoTxn
           /\ IF Where(c.op, rows[d], seen)
              THEN /\ lock' = [lock EXCEPT ![d] = t]
                   /\ WriteRow(t, d, Set(c.op, rows[d], seen))
                   /\ txn' = [txn EXCEPT ![t].pc = step, ![t].snapshot = NoHolds]
              ELSE /\ txn' = [txn EXCEPT ![t].pc = "commit", ![t].snapshot = NoHolds]
                   /\ UNCHANGED <<lock, written>>
    /\ UNCHANGED <<database, repair>>

Wanted(t) == {txn[t].call.source, txn[t].call.target} \ {Unset}
Held(t) == {d \in Docs : lock[d] = t}

\* Mutant: the rows of a transition are locked in the order of the request.
NextLock_Request(t) ==
    IF txn[t].call.source \notin Held(t) THEN txn[t].call.source ELSE txn[t].call.target

\* SELECT ... FOR UPDATE of the rows of the call, in sorted order.
NextLock(t) == CHOOSE d \in Wanted(t) \ Held(t) : \A e \in Wanted(t) \ Held(t) : d =< e

AfterLocks(op) ==
    CASE op = "refresh" -> "recount" [] op = "release" -> "clear" [] op = "transition" -> "link"

ForUpdate(t) ==
    /\ txn[t].pc = "lock"
    /\ LET d == NextLock(t)
       IN  /\ lock[d] = NoTxn
           /\ lock' = [lock EXCEPT ![d] = t]
           /\ txn' = [txn EXCEPT ![t].pc = IF Wanted(t) \ Held(t) = {d}
                                           THEN AfterLocks(txn[t].call.op) ELSE "lock",
                                 ![t].snapshot = NoHolds]
    /\ UNCHANGED <<database, written, repair>>

InsertHold(t) ==
    /\ txn[t].pc = "insert"
    /\ written' = [written EXCEPT ![t].holds = Over(One(txn[t].call.hold, "active"), @)]
    /\ Goto(t, "count")
    /\ UNCHANGED <<database, lock, repair>>

CountHolds(t) ==
    /\ txn[t].pc = "count"
    /\ LET d == txn[t].call.source
       IN  WriteRow(t, d, [SeenRow(t, d) EXCEPT !.legal_hold_count =
                               Cardinality(ActiveHolds(SeenHolds(t, d)))])
    /\ Goto(t, "commit")
    /\ UNCHANGED <<database, lock, repair>>

\* The hold is released if it is active; a call for an unknown one ends there.
ClearHold(t) ==
    /\ txn[t].pc = "clear"
    /\ LET h == txn[t].call.hold
       IN  \/ /\ holds[h] = "absent"
              /\ Goto(t, "commit") /\ UNCHANGED written
           \/ /\ holds[h] # "absent"
              /\ Goto(t, "recount")
              /\ written' = [written EXCEPT ![t].holds = Over(One(h, ReleaseHold(holds, h)[h]), @)]
    /\ UNCHANGED <<database, lock, repair>>

Recount(t) ==
    /\ txn[t].pc = "recount"
    /\ LET d == txn[t].call.source IN WriteRow(t, d, Set("refresh", SeenRow(t, d), SeenHolds(t, d)))
    /\ Goto(t, "commit")
    /\ UNCHANGED <<database, lock, repair>>

\* validate_lifecycle_preconditions, and the unique indexes of the records.
CanLink(s, e) ==
    /\ s # e
    /\ rows[s].purge_status # "purged" /\ rows[e].purge_status # "purged"
    /\ superseded_by[s] = Unset /\ superseded_by[e] = Unset
    /\ origin[e] = Unset
    /\ \A r \in relationships : r[1] # s /\ r[2] # e

\* Both rows are locked: an exact replay or a refusal writes nothing.
Link(t) ==
    /\ txn[t].pc = "link"
    /\ LET s == txn[t].call.source
           e == txn[t].call.target
       IN  written' = [written EXCEPT ![t].link = IF CanLink(s, e) THEN {<<s, e>>} ELSE {}]
    /\ Goto(t, "commit")
    /\ UNCHANGED <<database, lock, repair>>

End(t) ==
    /\ lock' = [d \in Docs |-> IF lock[d] = t THEN NoTxn ELSE lock[d]]
    /\ txn' = [txn EXCEPT ![t] = Idle]
    /\ written' = [written EXCEPT ![t] = NoWrites]
    /\ UNCHANGED repair

Commit(t) ==
    /\ txn[t].pc = "commit"
    /\ rows' = Over(written[t].rows, rows)
    /\ holds' = Over(written[t].holds, holds)
    /\ superseded_by' = [d \in Docs |-> IF \E r \in written[t].link : r[1] = d
                                        THEN txn[t].call.target ELSE superseded_by[d]]
    /\ origin' = [d \in Docs |-> IF \E r \in written[t].link : r[2] = d
                                 THEN txn[t].call.source ELSE origin[d]]
    /\ relationships' = relationships \cup written[t].link
    /\ End(t)

Abort(t) ==
    /\ txn[t].pc # "idle"
    /\ End(t)
    /\ UNCHANGED database

----------------------------------------------------------------------------
(* Migration 013: LOCK TABLE ... IN EXCLUSIVE MODE, then one UPDATE. *)

\* Mutant: the file has no LOCK TABLE.
LockTable_None ==
    /\ repair.step = "none"
    /\ repair' = [step |-> "held", derived |-> [d \in Docs |-> HoldsOf(d, holds)]]
    /\ UNCHANGED <<database, lock, txn, written>>

\* Writers that come later queue behind the request.
LockTable ==
    /\ repair.step = "none"
    /\ repair' = [repair EXCEPT !.step = "requested"]
    /\ UNCHANGED <<database, lock, txn, written>>

\* Granted when no transaction has begun to write: the UPDATE starts and derives
\* its summaries from what is committed.
DeriveSummaries ==
    /\ repair.step = "requested"
    /\ \A t \in Txns : txn[t].pc = "idle"
    /\ repair' = [step |-> "held", derived |-> [d \in Docs |-> HoldsOf(d, holds)]]
    /\ UNCHANGED <<database, lock, txn, written>>

\* Like any UPDATE it waits for the rows; what it derived stays as it was.
Reconcile ==
    /\ repair.derived # <<>>
    /\ \A d \in Docs : lock[d] = NoTxn
    /\ rows' = [d \in Docs |-> Derived(rows[d], repair.derived[d])]
    /\ repair' = [step |-> "done", derived |-> <<>>]
    /\ UNCHANGED <<holds, superseded_by, origin, relationships, lock, txn, written>>

----------------------------------------------------------------------------
Statement(t) ==
    \/ Update(t) \/ ForUpdate(t) \/ InsertHold(t) \/ CountHolds(t) \/ ClearHold(t)
    \/ Recount(t) \/ Link(t) \/ Commit(t)

Next ==
    \/ \E t \in Txns : (\E c \in Calls : Start(t, c)) \/ Statement(t) \/ Abort(t)
    \/ LockTable \/ DeriveSummaries \/ Reconcile

Spec == Init /\ [][Next]_vars

----------------------------------------------------------------------------
(* Properties. *)

\* The calls of the port as Retention and Lifecycle take them: one step on what
\* is committed.
AtomicCall ==
    \/ \E d \in Docs, op \in Updates \cup {"refresh"} :
          /\ rows' = [rows EXCEPT ![d] = Set(op, @, HoldsOf(d, holds))]
          /\ UNCHANGED <<holds, superseded_by, origin, relationships>>
    \/ \E h \in HoldIds : LET d == HoldDoc[h] IN
          /\ holds[h] = "absent" /\ CanAdmit(rows[d])
          /\ rows' = [rows EXCEPT ![d] = admit_and_record_legal_hold(@, HoldsOf(d, holds), h)]
          /\ holds' = AdmitHold(holds, h)
          /\ UNCHANGED <<superseded_by, origin, relationships>>
    \/ \E h \in HoldIds : LET d == HoldDoc[h] IN
          /\ rows' = [rows EXCEPT ![d] = release_and_record_legal_hold(@, HoldsOf(d, holds), h)]
          /\ holds' = ReleaseHold(holds, h)
          /\ UNCHANGED <<superseded_by, origin, relationships>>
    \/ \E s, e \in Docs :
          /\ CanLink(s, e)
          /\ superseded_by' = [superseded_by EXCEPT ![s] = e]
          /\ origin' = [origin EXCEPT ![e] = s]
          /\ relationships' = relationships \cup {<<s, e>>}
          /\ UNCHANGED <<rows, holds>>
    \/ /\ rows' = [d \in Docs |-> Derived(rows[d], HoldsOf(d, holds))]
       /\ UNCHANGED <<holds, superseded_by, origin, relationships>>

\* Every change of the database is one call of the port applied to what was
\* committed at that moment, although its statements read earlier rows, waited
\* for locks and kept the answers of their subqueries: what entitles Retention
\* and Lifecycle to take a call as one step.
CallsAreAtomic == [][AtomicCall]_database

\* Once migration 013 has run, the hold summary of every document is what its
\* hold rows say, whatever was in flight when it ran and whatever came later:
\* begin_purge relies on that column alone when it had to wait.
RepairHolds ==
    repair.step = "done" =>
        \A d \in Docs : rows[d] = Derived(rows[d], HoldsOf(d, holds))

\* The row t waits for, if any.
Awaited(t) ==
    CASE txn[t].pc = "update" -> txn[t].call.source
      [] txn[t].pc = "lock" -> NextLock(t)
      [] OTHER -> Unset

\* Transactions never wait for each other in a circle: transitions lock their
\* documents in sorted order, and every hold writer locks the document first.
NoDeadlock ==
    \A S \in (SUBSET Txns) \ {{}} :
        \E t \in S : Awaited(t) = Unset \/ lock[Awaited(t)] \notin S
=============================================================================
