# A TLA+ model of lotus-archive

lotus-archive keeps the documents a bank has generated for its clients. It must be able to say, years
later, what was produced, who looked at it, whether it was corrected, and whether it may be destroyed.
Several workers serve one PostgreSQL database and one S3-compatible object store; a request is a
sequence of short transactions and storage calls, and nothing but the database holds the parts
together. This project models those sequences, checks them with TLC on small instances, and proves
the safety results for instances of any size with TLAPS.

Paths below are relative to the repository; `archive/` stands for `src/app/archive/`.

## 1. Inventory

### Components, their state and their operations

| component | state | operations | what makes it correct |
|---|---|---|---|
| **retention, holds, purge** (`service.py`, `purge_transitions.py`, both repositories) | retention columns of `archive_documents`, rows of `archive_legal_holds`, the object | purge, evaluate, lifecycle posture, retention read, hold set/release, download | hold and destruction exclude each other; bytes go only after retention and under a recorded intent; a begun destruction is finished; stale readers overwrite nothing |
| **lifecycle relationships** (`service.py`, `lifecycle_transitions.py`, both repositories) | successor and origin pointers, `archive_lifecycle_relationships` | supersede, correct, reissue, resolve current, list source events | chains neither branch nor cycle, both ends agree, history is append-only, a walk sees the stored chain |
| **archiving** (`archive_writer.py`, `storage.py`, `s3_storage.py`) | document rows, objects | create | every row keeps exactly its bytes, one document per request id, no stray objects, retries converge |
| **Idea decisions** (`idea_lifecycle_decisions/`) | a decision ledger per host (a SQLite file, by default in the temp directory), key settings of each process | issue, replay, verify; rotate and revoke keys | one decision per idempotency key within a ledger file, no false claim about the document, verifiable until revoked |
| **authorization and reads** (`authorization.py`, `access_preflight.py`, `service.py`) | documents (read), access events (appended) | preflight, metadata, by request id, download, access events | nothing is answered before it is recorded, foreign ids reveal nothing, a purged document is served to nobody |
| **event lists** (`audit.py`, `source_events.py`, paging in `api.py`) | access events, relationships | record, list, count, page | a page without `next_offset` is the last; replay delivers everything once |
| **PostgreSQL adapter** (`postgres_repository.py`, migration 013) | the same rows, one statement at a time; row locks | the transactions of the port, the repair of drifted summaries | a call is atomic, transactions never wait in a circle, the repair loses no hold |
| **composite contracts** (`models.py`, `composite_*.py`, migrations 014 to 021) | the body of a request, the stored JSON, the CHECK in force | validate, store, read back, compare with a retry, migrate | retained evidence covers its horizon, models and CHECK agree, a retry finds its document, no migration leaves a row unguarded |
| API models, error handlers, settings, runtime, readiness, metrics, correlation | none shared | wiring and reporting | not modelled (§7) |

### How they interact

Everything goes through the document row. A purge claims `purge_started_at`, a hold writes
`legal_hold_status`, both conditionally on the other, so the row is where they exclude each other. A
purge changes what a lifecycle transition, a read, a preflight and an Idea decision may say of the
document; a decision evaluates the posture of the document and by that commits an eligibility change.
Archiving and purging share the object store. Every operation ends with an insert into the access
audit, in a transaction of its own, and reading the access events is one of them.

The route handlers are `async def` and call the synchronous service without awaiting, so the handler
bodies of one process do not interleave; those of different workers and replicas do, at every transaction
and storage call. A worker of the models is such a process. (The dependencies of a route are plain
functions, which the framework runs in threads: they only read headers and compose the service, see §4.)

### What is hard here

- A value read in one transaction decides a write in a later one, everywhere: eligibility, admission of
  holds, validation of transitions, collision and replay checks, the posture of a signed decision.
- Failure between intent, delete and record; between object and row; between state and access event.
- Retries that overlap the request they repeat.
- Rows that earlier releases wrote (migrations 012 and 013).
- Configuration that each process reads once, while keys are rotated and revoked.
- A replay ledger that is local to a host, beside a database and a store that all hosts share.
- Storage reads that fail and look like bytes that are gone.
- Event lists ordered by a time that is taken before the event is stored.
- READ COMMITTED: a statement that waited for a row checks the new version of that row, and nothing else.
- One contract written twice, in Pydantic and in SQL, in eight versions, while migrations replace the
  second and retries compare the two.

`PROJECT.json` lists these as hazards, each at its line with the properties that would show it going
wrong.

## 2. Modules

| module | models | actions correspond to |
|---|---|---|
| `RetentionRules` | the guarded transitions of the repository port as functions of the stored row and hold rows, and `evaluate_purge`'s classification | operators named as the methods: `begin_purge`, `complete_purge`, `mark_purge_eligible`, `mark_purge_not_eligible`, `admit_and_record_legal_hold`, `refresh_legal_hold_summary`, `release_and_record_legal_hold` |
| `Custody` | the promise about one document, every step atomic: retained, condemned, destroyed; holds placed and lifted | `PlaceHold`, `LiftHold`, `Permit`, `Forbid`, `Condemn`, `Destroy`, `Certify`, `NextDay` |
| `Retention` | requests of several workers on one document | `purge_document`, `set_legal_hold`, ... start a request; one action per transaction (`Refresh`, `Grant`, `Withdraw`, `Reread`, `Relist`, `BeginPurge`, `CompletePurge`, `ListHolds`, `Admit`, `Release`, `RecordEvent`), storage call (`DeleteObject`, `Fetch`) or computation between (`Evaluate`); `FetchFails` is a storage read that fails whatever the store holds, `Fail` cuts a request short anywhere, `Tick` turns the day; `Promise` is the `INSTANCE` of `Custody` with its refinement mapping |
| `Lifecycle` | transitions and the walk over several documents | `ReadSource`, `ReadTarget`, `Resolve` (one document per step), `FindApplied` (service, unlocked rows), `Apply` (one transaction, locked rows), `ListEvents` (the relationships of a source-event response), `Record`; `Purge` is the other component |
| `ArchiveWriter` | the create request | `create_document`, `CheckCollision`, `Lookup`, `Put`, `SaveCheck`, `Insert`, `Compensate`, `Record`, with the faults of each, `Crash`, and `Destroy` of the other component |
| `IdeaDecision` | issuing decisions, the ledger file of each host, keys | `issue`, `Lookup`, `ReadPosture`, `Sign`, `Save`, `Audit`; `RotateKey`, `RevokeKey`, `Restart` (a process) and `ReplaceHost` (a host with its file) of the operator; `Verdict` is the verification |
| `Access` | authorization, preflight, reads, access events | `receive`, `authorize`, `Find`, `LookupBatch`, `LookupDocument`, `Fetch`, `Record` (one insert each) |
| `EventFeed` | the two event lists and their reader | `Stamp`, `Store`; `Ask`, `List`, `Count`, `Answer` |
| `Transactions` | the calls of the repository port as SQL statements under READ COMMITTED | `Start` (the first statement takes its snapshot), `Update`, `ForUpdate`, `InsertHold`, `CountHolds`, `ClearHold`, `Recount`, `Link`, `Commit`, `Abort`; `LockTable`, `DeriveSummaries`, `Reconcile` are migration 013 |
| `CompositeIdentity` | the validators of the eight composite contracts | operators named as the validators and classes |
| `CompositeCustody` | a document offered, validated, stored, read back and offered again under a moving CHECK | `Offer`, `Lookup`, `Put`, `Save`, `Compensate`, `Resend`, `Migrate`, with the faults `SaveFails` (before or after the commit) and `CutShort` |
| `Retention_proofs`, `Lifecycle_proofs`, `ArchiveWriter_proofs`, `IdeaDecision_proofs`, `Access_proofs`, `EventFeed_proofs`, `Transactions_proofs`, `CompositeCustody_proofs` | theorems about the module they are named after (§5) | |
| `MC*` | constants and symmetry for TLC | |

State names are the source's: `row` has the columns of the table, `snap[w]` is the `metadata` a worker
carries, `pc[w]` is its place in the method.

**What is abstracted.** Timestamps become the day or the instant they fall on, payloads become model
values, an access event becomes what a property says of it. `Retention` follows one document, because no
transition of it touches two. A transaction is one step in every module but `Transactions`, whose
`CallsAreAtomic` is what entitles the others to that: whatever its statements read and waited for, a
commit applies one operator of `RetentionRules`, or one checked link, to what is committed at that moment. Where a method
reads outside its transaction (`save`, the re-read after a refused grant) there are two steps.

`evaluation_date` of `purge_document` and `evaluate_purge` is passed by tests only; the API never passes
it, and the model uses the server's date.

Notes per module:

- *Retention.* `Init` admits the rows earlier releases may have left: hold summaries that disagree with
  the hold rows, and eligibility granted under them. The `NOT EXISTS` clause in `begin_purge` is kept,
  but no property depends on it alone: a purge always recounts first, so the summary carries the
  exclusion, as the adapter's own comment says.
  `unread` remembers whose storage read failed: such a request records `document_binary_missing` about bytes that are
  there, as `service.py:203` does, and `EventsTellTheTruth` excepts exactly it.
- *Custody.* The mapping of `Retention` reads `custody` off `purge_started_at` and `purge_status`, `holding`
  and `lifted` off the hold rows (never off the summary, which may have drifted), and `permitted` off
  `purge_status`. A step of a worker that changes none of these is a stutter. `Condemn` does not ask for a
  permission, because `begin_purge` does not (§4).
- *Lifecycle.* `LegacyInit` is a recorded transition whose pointers an earlier release may have
  erased; `CorruptInit` is any pointers at all. A replay found by the service has been walked to its end before,
  so the walk after its access event is empty. `EventsExplainCurrent` is about the answer to a
  source-events request, whose walk and list are read at different times.
- *Transactions.* A statement reads the writes of its own transaction over the committed rows (`Over`), and
  keeps what its subquery saw when it started in `snapshot`; `Update` and `ForUpdate` wait while another transaction has the row lock. `Init` has the drifted summaries migration
  013 was written for. The answers of the calls are left to the modules that make them.
- *CompositeIdentity, CompositeCustody.* A contract version is its number, a level `k` the CHECK of migration
  `013 + k`. A request is what is on the wire, so a field left out (`Absent`) is not `Null`; `Parse` and `Dump`
  do what the models do to the two. A field that no validator and no CHECK relates to another is left out,
  and so are patterns and limits on lengths. Bodies have passed the checks of single fields (`RequestsAssumption`):
  objects have their fields, lists are lists, dates are days; the bodies of the run are checked to be such. All
  months have one length and all years one number of months. The list comprehension of `product_scope` is
  `Subvector`, by places rather than by recursion, so that it can be proved about. Every try puts its bytes under
  a key of its own: `object` is about the try in hand or the row, `strays` counts what earlier tries left. A step that
  fails (`SaveFails`, `CutShort`) adds to `faults`, which is what `CustodyIsWhole` compares halves of documents with.
- *ArchiveWriter.* Document ids are fresh uuids: `Lookup` waits while the bound leaves none. The storage
  key ends in the document id, hence is its own. A fault counts in `leaks` when it may leave an object
  behind, which is what `OrphansAreAccounted` compares with.
- *IdeaDecision.* `ledger[h]` is the SQLite file of host `h`: its workers share it, a `Restart` of one keeps it, and
  `ReplaceHost` comes back with an empty one, its requests in flight lost. The default path is the temp directory,
  so this is what replacing a container does. The properties of decisions are about those in a file: one whose file
  was lost is no longer looked at, though nothing that could make it untrue depends on the file. The document is shared by all hosts; it is a proof pack with a retention policy. `ReadPosture` does in one step
  what module `Retention` does in several; the posture it returns is one the document had. `rolling`
  says whether workers are replaced one by one after a key change or all at once. `Verdict` leaves out two refusals, a
  key id published twice and an ephemeral key, which the validation of the settings excludes outside the local profile.
- *Access.* One request at a time is enough: requests only append access events and read none, so they
  cannot influence each other; the documents change meanwhile. Authorization and operation reason of an
  event are one field. The adapter is PostgreSQL's, or one that maps its timeouts as the port allows. `Fetch` may
  refuse a download with `document_binary_missing` whatever the store holds, because a failed read does.
- *EventFeed.* Stamps are distinct and workers' clocks agree, which favours the code. Where
  `overlap` is FALSE a single process serves all requests. A document has at most two relationships, by
  the unique indexes.

## 3. Runs

Passing runs, each with one mutant of the code per property that must be (and is) caught:

| run | instance | shows |
|---|---|---|
| `retention` | 2 workers, 2 holds of one matter, 2 days, 1 failure (of a worker or of a storage read), every legacy summary, fairness | `HoldExcludesDestruction`, `BytesGoneOnlyUnderIntent`, `PurgedMeansDestroyed`, `RetentionHonoured`, `EventsTellTheTruth`, the refinement `ImplementsCustody`, `StartedPurgeCompletes` |
| `lifecycle` | 3 documents, 2 types, 2 workers | `Acyclic`, `HistoryAgrees`, `AnswersHold`, `WalkFollowsHistory`, `PurgedNeverLinked`, `EventsExplainCurrent` |
| `lifecycle_damaged` | 2 documents, half-erased or arbitrary pointers, fairness | `RecordedOnce`, `WalksEnd` |
| `archive_writer` | 2 request ids, 2 references, 3 contents, 3 document ids, 1 fault | `BytesBehindRows`, `OneDocumentPerRequest`, `AnswersAreHeld`, `OrphansAreAccounted` |
| `archive_writer_liveness` | 2 faults, lost acknowledgements included, fairness | `RequestsConverge` |
| `idea_decision` | 2 workers on 1 or 2 hosts, hosts replaced any number of times, 1 idempotency key, 3 inputs (1 foreign), 2 keys, 2 instants, both ways of replacing workers | `AnswersFromLedger`, `DisposalIsReal`, `DecisionsVerify`, `RevokedKeySignsNothing` |
| `access` | 3 documents, 2 scopes, batches of 2, both adapters | `RecordedBeforeAnswer`, `ExistenceHidden`, `EventsAreTrue`, `PurgedStaysRefused` |
| `event_feed` | 2 writers, 4 access events or 2 relationships, pages of 2, fairness | `EndIsTheEnd`, `ReplayComplete` (one process), `PagerEnds` |
| `transactions` | 2 connections, 2 documents, 2 holds of one of them, drifted summaries, migration 013, rollback anywhere | `CallsAreAtomic`, `RepairHolds`, `NoDeadlock` |
| `composite` | 3 months of 2 days, years of 2 months, about 14,000 bodies, 2 offers, 2 faults, every order of migrations 014 to 021 | `HorizonCovered`, `ProductsTellThePrimary`, `ValidatedPassesTheCheck`, `ReplayConverges`, `CustodyIsWhole` |

`retention` also checks `TypeOK`. The type invariants of the other modules are part of the invariants that are
proved (§5); no run spends time on them.

**Why the bounds are enough.** Two workers give every pair of requests in every interleaving, and every
race of this code is between two requests over one row (the proofs of §5 remove the bound for every
safety property of the runs). Two hold ids give a hold to release and one to admit meanwhile, and two requests
for one matter.
Two days give the day before and the day of the end of retention, and a day that turns inside a request.
Three documents give the shortest chain with an inner document, and the shortest indirect cycle. Three
document ids serve two archived requests and one loser; where failures leave objects behind, four. Two
signing keys give one rotation, and two instants one before and one at the changeover, where the half-open windows
meet. Two hosts give workers that share a ledger file, workers that do not, and a file that is lost while the other
host serves. A batch of
two, with repeated ids, shows each item against another one. A failure bound of one or two places the
failure at every step of every request. In `composite` two faults let a first try lose its bytes or its
acknowledgement and the second fail in turn.

Two connections give every pair of transactions, two documents the two directions of a transition, and two
holds one that is being admitted while the other is released or counted. The requests of `composite`
are, per contract, the values its validators tell apart: for windows, every vector of up to two windows over
six days and of three over four days, those that overlap, leave gaps, run backwards or repeat an id included;
for products, every slice of four primary vectors under every name; for months and receipts, every
combination of kind, version, lineage and parent; and each field of the envelope disagreeing in turn. Months of two days keep
the first day, the last day and the boundary between months apart; a third month lies outside the first
year. About two hundred of the bodies are valid.

**Fairness.** A worker that is not cut short takes its next step (`WF` of its steps): no step waits for
anything but the database and the store. A caller whose request was cut short repeats it: strong fairness
of `RetryPurge` (`FairSpec` of `Retention`) and of `Retry`, since a worker is idle again and again but not for ever. Purge retries
are what the code's own comment on interrupted purges counts on, and an operator's retry is the only way
a begun purge is finished: nothing in the service schedules one. `PagerEnds` asks that the reader keeps
asking and that a request that stamped an event goes on to store it. Nothing is assumed of `Fail` and `FetchFails`, of new requests or of the operator.

Deadlock is checked everywhere except in `EventFeed`, whose reader stops asking when it has reached the
end as often as `MaxReplays` says, and whose writers run out of events.

**A limit found by the pager.** With `limit = 1` a reader of access events never reaches the end: each
page adds one event and consumes one. The smallest page for which `PagerEnds` holds is two.

## 4. Where code and documentation disagree

Two runs are expected to be violated; each checks a sentence of the repository, quoted in
`PROJECT.json`, against the code.

| run | what TLC shows |
|---|---|
| `archive_writer_lost_ack` | a commit whose acknowledgement is lost is compensated by deleting the bytes of the committed document (`archive_writer.py:101`) |
| `retention_duplicate_hold` | two overlapping identical hold requests mint two active holds of one matter (`service.py:387`) |

The database and the store are reliable in the last one, and both start from states this release writes.

Other disagreements met while modelling. Each is visible in the models, which follow the code; no run is
spent on them:

- `settings.py:48`, `api.py:97`: the ledger is a SQLite file of the host, in its temp directory by default, so two
  hosts, or a host and its replacement, issue two decisions under one idempotency key (`Save`, `ReplaceHost`).
  `docs/architecture/archive-service-boundaries.md:57` calls the decisions "durable-idempotent", and `README.md:110` and
  `wiki/Document-Lifecycle.md:255` speak of "durable local replay protection"; `wiki/Configuration.md:178` says that
  it is not durable in the runnable configuration, as the code does. So `AnswersFromLedger` promises one decision per
  idempotency key for one ledger file, as long as its host keeps it, and no more.
- `service.py:203`: whatever keeps the store from answering a read (`s3_storage.py:143` and `145`) is recorded
  and answered as `document_binary_missing`, bytes that are there included (`FetchFails`);
  `wiki/API-Surface.md:153` says "metadata exists, the object does not". `EventsTellTheTruth` says what is left.
- `service.py:753`: source and target of a transition are read in two transactions. An identical retry that reads
  the source before and the target after the original's commit is refused as a conflict, although
  `wiki/API-Surface.md:160` says that it "returns the recorded relationship" (`ReadSource`, `ReadTarget`).
- `postgres_repository.py:328`: `begin_purge` does not look at `purge_status`, so an eligibility withdrawn between
  the grant and the claim does not stop the purge. What it rests on still holds then, which is how `Custody`
  states it (`Condemn`).
- `docs/composite-custody-contract.md:234` asks for migration 015 "before enabling v2 admissions", but nothing
  in the service switches admissions: a version ahead of the schema is stored, refused by the INSERT and
  compensated (`Save`, `Compensate`), on every retry until the migration has run. Each such retry whose delete fails
  leaves bytes without a row, and nothing else does (`CustodyIsWhole`).
- `composite_identity.py:62`: `period_end + timedelta(days=1)` raises `OverflowError`, not a validation error, on
  9999-12-31. The calendar of the model ends earlier.
- `api.py:61`: the service is composed on first use, without a lock, by a dependency that runs in a thread. Two
  first requests can compose two, against "One pool per DSN, shared by every repository built on it"
  (`postgres_repository.py:198`); one of the pools is then never closed.
- `purge_transitions.py:112`: a hold released between a refused grant and the re-read leads to
  `purge_state_changed`, which the docstring reserves for a guard without a branch (`Relist`). It is a
  refusal, hence safe.
- `service.py:464`: the release of an unknown hold writes no access event (`Release`), although
  `wiki/Glossary.md:39` says "every archive action, including refusals". The same holds for a preflight
  without tenant or region (`service.py:518`, `authorize`), against `wiki/Security-and-Controls.md:65`.
- `postgres_repository.py:385`: a document purged before migration 012 has a NULL intent and so admits a
  hold, against `wiki/Document-Lifecycle.md:30`. `Init` has no such row.
- `archive_writer.py:57`: two overlapping requests store the same bytes under two references
  (`CheckCollision`, then `Insert`); nothing in the schema backs the check.
- `postgres_repository.py:292`: the slower of two overlapping identical creates is answered 409
  (`Insert`); its next retry gets the document.
- `idea_lifecycle_decisions/service.py:191`: the posture is read before the decision is signed and stored,
  so a LEGAL_HOLD decision can be issued for a document released and destroyed meanwhile.
- `idea_lifecycle_decisions/service.py:201`: a worker not replaced yet signs with the outgoing key after its
  window. `DecisionsVerify` names exactly this exception to `wiki/Configuration.md:142`.
- `postgres_repository.py:251`: a lookup timeout of PostgreSQL is a server error (`LookupBatch`), against
  `wiki/API-Surface.md:130`; and a batch of purged documents has the result `unavailable`
  (`access_preflight.py:86`) although each was evaluated.
- `source_events.py:36`: with several processes, an event stamped first and committed last is skipped by a
  consumer that resumes by offset. `ReplayComplete` is stated for one process for this reason.

## 5. Proofs

A theorem holds for any sets of workers, documents, holds, requests, keys, scopes, writers and connections and
any bounds, from the named assumptions of the modules. Those say what a configuration cannot
get wrong:

- `HoldIds` and the documents of `Transactions` are finite sets, the latter of positive numbers (their ids are
  compared); bounds, limits and dates are natural numbers;
- the values that stand for "nothing" (`NoHold`, `NoDoc`, `NoTxn`, `NoScope`, `None`) are none of the ids, rows
  and decisions they stand beside; a hold id has one matter and one document;
- in `ArchiveWriter` contents with one checksum are one content, and the faults are those the model names;
- in `EventFeed` there are stamps for the two relationships a document can have;
- in `CompositeCustody` a body is an object with the fields of its model, whose lists are lists and whose dates
  and months are integers; `Null` is not a document, and writing a product list out or leaving it out does not
  turn an identity into `Null`; `Absent` is not the empty list; months and years are not empty.

Every invariant below is inductive, and is a strengthening: what a run checks relates two pieces of stored
state, and whether a step keeps it depends on what the worker at that step has seen before. Each
strengthening therefore says what a worker carries at each place in the code, and the proof has one step
(or lemma) per action. The argument is the same everywhere: what a worker relies on later is stable
under the steps of all others.

**`Retention_proofs`.** One lemma per repository transition says which columns it writes and when. `Safe` adds
to the properties `StepsAreJustified`: a worker at `delete` or `complete` finds the intent on
record; one at `complete` finds the bytes gone; one at `begin` or `grant` finds retention over; a
snapshot has the stored retention date, and its facts of destruction are still true. An intent is never
withdrawn, a date never changed and time does not go back. From `Safe`:
`HoldExcludesDestructionAlways`, `BytesGoneOnlyUnderIntentAlways`, `PurgedMeansDestroyedAlways`,
`RetentionHonouredAlways`, and `TypeCorrect`.

`Requested` is what the events and the refinement need on top of that. A worker is only where the
operation it serves can be (`Serves`); an outcome is true once it is final, and an event is the outcome
(`Truthful`): destruction is never undone, so what a snapshot or a reread row said of it still holds, and bytes
are only missing for a destruction or for a request in `unread`; a hold request that has not inserted its hold will insert a new one, and no two mint one
id (`Minting`); a document that is not purged has no `purged_at`. From it `EventsTellTheTruthAlways` and
`CustodyImplemented`: initial states of `Retention` map to those of `Custody`, and each action is shown, on
its own, to be one step of `Custody` or a stutter under the mapping.

**`Lifecycle_proofs`.** `HistoryStep`: a step leaves the pointers alone or adds exactly one link
(`NewLink`) between two documents that are not purged, from one without a successor to one without
successor and origin. `Acyclic` is stated over sets (every nonempty set of documents has a member whose
successor is outside it), which needs no induction over paths: the new link ends at a document with no
successor, so a set that contains both ends has that document as its witness, and any other set keeps its old one.
That a walk never reports a cycle follows from `Acyclic` applied to the set it has visited. Theorems: `TypeCorrect`,
`AcyclicAlways`, `HistoryAgreesAlways`, `AnswersHoldAlways`, `WalkFollowsHistoryAlways`,
`NoCycleReportedAlways`, the action properties `HistoryAppendOnlyAlways` and `PurgedNeverLinkedAlways`, and
`EventsExplainCurrentAlways`, from `Explaining`: a listing comes after the walk, so it finds the
transition the walk followed. `RecordedOnceAlways` is of `FairDamagedSpec`, hence of pointers that were
erased or corrupted, about which only the types (`DamagedType`) are known. No run spends time on
`NoCycleReported` and `HistoryAppendOnly`.

**`ArchiveWriter_proofs`.** A document id in flight belongs to one request (`Apart`); no row has it before
the insert, and from the put on the bytes of that request are under it (`Reserves`); every object without
a row whose request is over has a fault of its own (`Accounted`, over finite sets, one element at a time).
`OneDocumentPerRequestAlways`, `AnswersAreHeldAlways` and `OrphansAreAccountedAlways` hold with every
fault. `BytesBehindRowsAlways` needs that no acknowledgement of a commit is lost
(`"commit_ack" \notin Faults`), because only then does a worker at `compensate` have no row (`Uncommitted`): the
other case is the finding `archive_writer_lost_ack`.

**`IdeaDecision_proofs`.** A decision is `Sound` from the moment it is signed: about a document of the caller's
tenant, true about destruction, and signed with a key whose window had begun and, unless workers are replaced
one by one, not ended. `Windows` and `Deployed` relate the operator's settings to what a worker started with,
`Carries` says what a request holds at each step. `EntryStep` says what a step does to one entry of one ledger file:
nothing, a save that found it unused, or the loss of the file with its host. An entry therefore lasts as long as its
host (`LedgerLasts`), and the loss ends the requests on that host, so an answer under way is still in its file.
A `Sound` decision stays so: destruction is never undone, and rotation closes a window no
earlier than now. Hence, for any number of hosts and replacements, `AnswersFromLedgerAlways`, `DisposalIsRealAlways`, `DecisionsVerifyAlways` and the action
property `RevokedKeySignsNothingAlways`.

**`Access_proofs`.** The invariant is about the `log` of a request, the events recorded and those still to be
written, in one sequence: `Record` moves an event from one part to the other, so the log does not change after the
decision. `True` is what an event says of its document, `Answered` and `Told` relate answer and log item by
item. Scopes do not change and destruction is not undone, so what was true when the batch was
decided still is. Theorems: `RecordedBeforeAnswerAlways`, `ExistenceHiddenAlways`, `EventsAreTrueAlways`,
`PurgedStaysRefusedAlways`.

**`EventFeed_proofs`.** Lemmas about positions come first: the rank of an event is smaller than the length of the
list, ranks are distinct and all taken, so a slice from `offset` has the `Limit` events it should have, and adding a
later event changes no rank. `PageOfList` (the page is cut from the list, which is counted no earlier than it is
listed) gives `EndIsTheEndAlways`; `InOrder` (one process: events are stored in the order of their stamps, and
the reader has exactly what lies before its offset) gives `ReplayCompleteAlways`.

**`Transactions_proofs`.** `Progress` says, per statement, which rows a transaction has locked and what it has
written, as a function of the committed rows; `Complete` is that function for a finished call. A commit changes
rows only under its locks, so it does not disturb the others' `Progress`. A waiting UPDATE has no lock yet:
`Aware` says that a hold committed since its snapshot shows in the summary column it will look at again, which is
why the stale subquery does no harm. `CommitEffect` then gives `CallsAreAtomicAlways`. `Alone` (migration 013 has
the tables to itself between its two statements) and `Progress` give `RepairHoldsAlways`. `NoDeadlockAlways` follows from
`Ordered` (locks are taken in ascending order, and a transaction that waits in an UPDATE has none): in a set of transactions that
all wait for each other, the one that waits for the greatest document waits for one that has it locked and waits
for a greater one.

**`CompositeCustody_proofs`.** `Inv`: there is one request, in one of its spellings; a row is its dump, was validated
before its bytes were put, and satisfies the CHECK in force; bytes are there only while a row, or a worker that is
about to insert one or to delete them, refers to them; and every half of a document has a fault of its own, a row
that is about to lose its bytes to a handler that does not know of it included (`Halved`). It rests on `OneDocument`:
all spellings of a body parse to one model and dump to one JSON. Hence `ReplayConvergesAlways` and `CustodyIsWholeAlways`.

The other three say what the validators imply. They look at neighbours, and facts about a whole list would follow by
induction over it; a least counterexample (`LeastNumber`, from the well-founded order of the natural numbers)
takes its place. `Increasing` and `VectorCovers`: a vector contiguous from `start` to `end` leaves no
day out and counts none twice. `Calendar`, `DayOfMonth` and `WholeMonths` are the arithmetic of months. Together they are
`HorizonCoveredAlways`. `Places` says that numbering a finite set of numbers in order is one to one, `SubvectorWindows` that
`Subvector` has the windows within a selection and no others, and `MonthRun` that complete months that follow
each other are consecutive: `ProductsTellThePrimaryAlways`. `IdentityAgrees`
compares models and CHECK version by version, for `ValidatedPassesTheCheckAlways`. Two of the cases are not
a mere weakening: the CHECK of v7 counts root receipts over all corrections, where the models look at each
lineage (`HistoricalAgrees`, a bijection), and the CHECK of v8 wants the definition hash in the windows of every
product, which follows because they are windows of the primary (`ProductsAgree`).

**Only model-checked.** Liveness (`StartedPurgeCompletes`, `WalksEnd`, `RequestsConverge`, `PagerEnds`), which
needs fairness and `ENABLED`. Every safety property of a passing run is a theorem.

## 6. Running

    tlc -workers 2 -config MCRetention.cfg MCRetention
    tlapm Retention_proofs.tla

`PROJECT.json` lists every run with its module and configuration. A mutant is a definition named
`<definition>_<change>` that stands before the definition it replaces; nothing else uses it. The longest
runs, `retention`, `transactions` and `idea_decision`, take about two and a half minutes with two workers; the longest proof,
`Transactions_proofs`, about three.

## 7. Not modelled

- *Single fields*: patterns, lengths, list limits (8 products, 31 receipts, 120 windows or months) and
  normalisation in `models.py` and `composite_*.py`; request and response shapes in `api_models.py`. They are
  functions of one field, and the repository tests them directly. What relates fields is in `CompositeIdentity`
  and `CompositeCustody`.
- *Error handlers, metrics, correlation, readiness, build metadata*: they report and decide nothing.
- *Runtime composition and settings*: run once at start. Key settings are the exception (`IdeaDecision`).
- *Storage adapters' internals*: temporary files, key quoting, client configuration. The models keep what
  `put`, `get` and `delete` promise and how they fail: a put or a delete may fail before or after its effect, and
  every failure of a get is one `StorageReadFailedError` to the handler, which cannot tell it from absent bytes
  (`FetchFails`, `Access.Fetch`). Errors of the filesystem adapter that are no `StorageReadFailedError` end the request
  as `Fail` does.
- *Cryptography*: a signature is the key id in the decision. An ephemeral key (local profile, no configured key) is not
  modelled.
- *The connection pool*: checkout timeouts are failures of a call, which the models have.
- The preflight documentation speaks of a `missing` state that the code does not have; there is nothing
  to model.

## 8. Plan

Order: the irreversible operations first, then what refers to them.

1. Done: `RetentionRules`, `Retention`, `Lifecycle`; `ArchiveWriter`; `IdeaDecision`; `Access`;
   `EventFeed`; `Custody` and the refinement; `Transactions`; the source events in `Lifecycle`; `CompositeIdentity`
   and `CompositeCustody`.
2. Done: the theorems of §5, the refinement of `Custody` among them.
3. Left out: `Retention` composed with `IdeaDecision`, so that the posture is evaluated in its real steps, would repeat the
   state space of the first for one more reader; `DisposalIsReal` covers what that reader could get wrong.
