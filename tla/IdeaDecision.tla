----------------------------- MODULE IdeaDecision -----------------------------
(***************************************************************************)
(* Signed Idea lifecycle decisions about one proof-pack document: issuing  *)
(* them under an idempotency key, the ledger they are replayed from, the   *)
(* rotation and revocation of signing keys, and the verification of a      *)
(* decision against the published key bundle.                              *)
(*                                                                         *)
(* A worker holds the key configuration it started with; the operator's    *)
(* changes reach it at its next restart.  The ledger is a SQLite file of   *)
(* the host the worker runs on: workers of one host share it, those of     *)
(* another have their own, and it goes with the host (the temp directory   *)
(* of a container is its default place).  The posture of the document is   *)
(* kept as far as _decision_action looks at it; module Retention has the   *)
(* transitions that change it.                                             *)
(***************************************************************************)
EXTENDS Integers, FiniteSets

CONSTANTS
    IdemKeys,   \* Idempotency-Key values
    Inputs,     \* request fingerprints: document, request body and tenant
    Foreign,    \* the fingerprints with a tenant other than the document's
    Workers,
    Hosts,      \* the machines or containers with a ledger file of their own
    None,
    MaxKey,     \* bound: the signing keys are 1..MaxKey, in order of service
    MaxTime,    \* bound: the last instant of the clock
    TTL         \* decision_ttl

ASSUME ForeignAssumption == Foreign \subseteq Inputs
ASSUME NoneAssumption == None \notin IdemKeys \cup Inputs
ASSUME BoundsAssumption == MaxKey \in Nat \ {0} /\ MaxTime \in Nat \ {0} /\ TTL \in Nat \ {0}

Keys == 1..MaxKey
Time == 0..MaxTime
Unset == MaxTime + 1       \* no not_after_utc

\* Settings: the signing key, the window of every published key, the revoked ids.
Config == [signer : Keys, not_before : [Keys -> Time], not_after : [Keys -> Time \cup {Unset}],
           revoked : SUBSET Keys]

Purge == {"retained", "eligible", "started", "purged"}
Actions == {"RETAIN", "LEGAL_HOLD", "DISPOSAL_ELIGIBLE", "DISPOSAL_EXECUTED"}
Decision == [input : Inputs, action : Actions, key : Keys, issued_at : Time]

ASSUME DecisionAssumption == None \notin Decision

VARIABLES
    purge, hold, elapsed,  \* the document: destruction, active hold, retention over
    ledger,                \* host -> idempotency key -> stored decision
    settings,              \* the operator's current configuration
    rolling,               \* TRUE: workers are replaced one by one after a key change
    config,                \* config[w]: the one worker w started with
    host,                  \* host[w]: where it runs
    now,
    pc, req, seen, answer, outcome

document == <<purge, hold, elapsed>>
requests == <<pc, req, seen, answer, outcome>>
deployment == <<settings, rolling, config, host>>
vars == <<document, ledger, deployment, now, requests>>

Steps == {"idle", "lookup", "posture", "sign", "save", "audit", "answer"}
Outcomes == {"none", "signing_key_revoked", "forbidden", "conflict", "replayed", "tenant_forbidden", "issued"}

TypeOK ==
    /\ purge \in Purge /\ hold \in BOOLEAN /\ elapsed \in BOOLEAN
    /\ ledger \in [Hosts -> [IdemKeys -> Decision \cup {None}]]
    /\ settings \in Config /\ rolling \in BOOLEAN
    /\ config \in [Workers -> Config]
    /\ host \in [Workers -> Hosts]
    /\ now \in Time
    /\ pc \in [Workers -> Steps]
    /\ req \in [Workers -> [key : IdemKeys, input : Inputs] \cup {None}]
    /\ seen \in [Workers -> Actions \cup {None}]
    /\ answer \in [Workers -> Decision \cup {None}]
    /\ outcome \in [Workers -> Outcomes]

FirstConfig == [signer |-> 1, not_before |-> [k \in Keys |-> 0],
                not_after |-> [k \in Keys |-> Unset], revoked |-> {}]

NewFile == [k \in IdemKeys |-> None]

Init ==
    /\ purge = "retained" /\ hold = FALSE /\ elapsed \in BOOLEAN
    /\ ledger = [h \in Hosts |-> NewFile]
    /\ settings = FirstConfig /\ rolling \in BOOLEAN
    /\ config = [w \in Workers |-> FirstConfig]
    /\ host \in [Workers -> Hosts]
    /\ now = 0
    /\ pc = [w \in Workers |-> "idle"]
    /\ req = [w \in Workers |-> None]
    /\ seen = [w \in Workers |-> None]
    /\ answer = [w \in Workers |-> None]
    /\ outcome = [w \in Workers |-> "none"]

----------------------------------------------------------------------------
(* The document. *)

\* Mutant: a document that may be disposed of is reported as disposed of.
DecisionAction_Eager(p, h) ==
    CASE p \in {"purged", "started", "eligible"} -> "DISPOSAL_EXECUTED"
      [] p = "retained" /\ h -> "LEGAL_HOLD"
      [] OTHER -> "RETAIN"

\* _decision_action: destruction outranks preservation.
DecisionAction(p, h) ==
    CASE p \in {"purged", "started"} -> "DISPOSAL_EXECUTED"
      [] p \in {"retained", "eligible"} /\ h -> "LEGAL_HOLD"
      [] p = "eligible" /\ ~h -> "DISPOSAL_ELIGIBLE"
      [] p = "retained" /\ ~h -> "RETAIN"

\* What evaluate_purge leaves a document at that is not being destroyed.
Evaluated ==
    CASE purge \in {"started", "purged"} -> purge
      [] purge \notin {"started", "purged"} /\ elapsed /\ ~hold -> "eligible"
      [] OTHER -> "retained"

SetHold == purge \notin {"started", "purged"} /\ hold' = TRUE /\ UNCHANGED <<purge, elapsed>>
ReleaseHold == hold /\ hold' = FALSE /\ UNCHANGED <<purge, elapsed>>
RetentionEnds == ~elapsed /\ elapsed' = TRUE /\ UNCHANGED <<purge, hold>>

\* purge_document has found the retention over; begin_purge looks at the intent
\* and the holds, and not at the status the last evaluation left.
BeginPurge ==
    /\ purge \notin {"started", "purged"} /\ elapsed /\ ~hold
    /\ purge' = "started" /\ UNCHANGED <<hold, elapsed>>

CompletePurge == purge = "started" /\ purge' = "purged" /\ UNCHANGED <<hold, elapsed>>

DocumentChanges ==
    /\ SetHold \/ ReleaseHold \/ RetentionEnds \/ BeginPurge \/ CompletePurge
    /\ UNCHANGED <<ledger, deployment, now, requests>>

----------------------------------------------------------------------------
(* IdeaLifecycleDecisionService.issue *)

Goto(w, step) == pc' = [pc EXCEPT ![w] = step]
Finish(w, o, d) ==
    /\ outcome' = [outcome EXCEPT ![w] = o]
    /\ answer' = [answer EXCEPT ![w] = d]

\* Mutant: the revocation of the signing key is not looked at.
MaySign_Always(c) == TRUE

MaySign(c) == c.signer \notin c.revoked

\* The signing key is looked at first, then the caller: one that is not on the
\* allow-list or names no tenant is refused before the ledger is read.
issue(w, k, f) ==
    /\ pc[w] = "idle"
    /\ req' = [req EXCEPT ![w] = [key |-> k, input |-> f]]
    /\ \/ ~MaySign(config[w]) /\ Finish(w, "signing_key_revoked", None) /\ Goto(w, "answer")
       \/ MaySign(config[w]) /\ Finish(w, "forbidden", None) /\ Goto(w, "answer")
       \/ MaySign(config[w]) /\ Goto(w, "lookup") /\ UNCHANGED <<answer, outcome>>
    /\ UNCHANGED <<document, ledger, deployment, now, seen>>

\* Mutant: a stored decision answers any request with its key.
Lookup_AnyInput(w) ==
    /\ pc[w] = "lookup"
    /\ LET stored == ledger[host[w]][req[w].key]
       IN  \/ stored = None /\ Goto(w, "posture") /\ UNCHANGED <<answer, outcome>>
           \/ stored # None /\ Finish(w, "replayed", stored) /\ Goto(w, "answer")
    /\ UNCHANGED <<document, ledger, deployment, now, req, seen>>

Lookup(w) ==
    /\ pc[w] = "lookup"
    /\ LET stored == ledger[host[w]][req[w].key]
       IN  \/ stored = None /\ Goto(w, "posture") /\ UNCHANGED <<answer, outcome>>
           \/ /\ stored # None /\ stored.input # req[w].input
              /\ Finish(w, "conflict", None) /\ Goto(w, "answer")
           \/ /\ stored # None /\ stored.input = req[w].input
              /\ Finish(w, "replayed", stored) /\ Goto(w, "answer")
    /\ UNCHANGED <<document, ledger, deployment, now, req, seen>>

\* get_lifecycle_posture recounts, evaluates and commits the evaluation, for a
\* caller of another tenant too; the tenant is compared afterwards.
ReadPosture(w) ==
    /\ pc[w] = "posture"
    /\ purge' = Evaluated
    /\ \/ req[w].input \in Foreign /\ Finish(w, "tenant_forbidden", None) /\ Goto(w, "answer")
          /\ UNCHANGED seen
       \/ req[w].input \notin Foreign /\ Goto(w, "sign") /\ UNCHANGED <<answer, outcome>>
          /\ seen' = [seen EXCEPT ![w] = DecisionAction(purge', hold)]
    /\ UNCHANGED <<hold, elapsed, ledger, deployment, now, req>>

Sign(w) ==
    /\ pc[w] = "sign"
    /\ answer' = [answer EXCEPT ![w] = [input |-> req[w].input, action |-> seen[w],
                                        key |-> config[w].signer, issued_at |-> now]]
    /\ Goto(w, "save")
    /\ UNCHANGED <<document, ledger, deployment, now, req, seen, outcome>>

\* INSERT; the primary key turns a lost race into a replay or a conflict.
Save(w) ==
    /\ pc[w] = "save"
    /\ LET k == req[w].key
           stored == ledger[host[w]][k]
       IN  \/ /\ stored = None
              /\ ledger' = [ledger EXCEPT ![host[w]][k] = answer[w]]
              /\ Finish(w, "issued", answer[w]) /\ Goto(w, "audit")
           \/ /\ stored # None /\ stored.input = req[w].input
              /\ Finish(w, "replayed", stored) /\ Goto(w, "audit")
              /\ UNCHANGED ledger
           \/ /\ stored # None /\ stored.input # req[w].input
              /\ Finish(w, "conflict", None) /\ Goto(w, "answer")
              /\ UNCHANGED ledger
    /\ UNCHANGED <<document, deployment, now, req, seen>>

Audit(w) ==
    /\ pc[w] = "audit"
    /\ Goto(w, "answer")
    /\ UNCHANGED <<document, ledger, deployment, now, req, seen, answer, outcome>>

Clear(w) ==
    /\ Goto(w, "idle")
    /\ req' = [req EXCEPT ![w] = None]
    /\ seen' = [seen EXCEPT ![w] = None]
    /\ Finish(w, "none", None)

Answer(w) ==
    /\ pc[w] = "answer"
    /\ Clear(w)
    /\ UNCHANGED <<document, ledger, deployment, now>>

----------------------------------------------------------------------------
(* Hosts and keys. *)

\* The process is replaced by one with the current settings; the file of its
\* host stays.
Restart(w) ==
    /\ Clear(w)
    /\ config' = [config EXCEPT ![w] = settings]
    /\ UNCHANGED <<document, ledger, settings, rolling, host, now>>

\* The host is replaced: its workers come back with the current settings and an
\* empty file, the requests in flight lost.
ReplaceHost(h) ==
    LET kept(w) == host[w] # h
    IN  /\ ledger' = [ledger EXCEPT ![h] = NewFile]
        /\ pc' = [w \in Workers |-> IF kept(w) THEN pc[w] ELSE "idle"]
        /\ req' = [w \in Workers |-> IF kept(w) THEN req[w] ELSE None]
        /\ seen' = [w \in Workers |-> IF kept(w) THEN seen[w] ELSE None]
        /\ answer' = [w \in Workers |-> IF kept(w) THEN answer[w] ELSE None]
        /\ outcome' = [w \in Workers |-> IF kept(w) THEN outcome[w] ELSE "none"]
        /\ config' = [w \in Workers |-> IF kept(w) THEN config[w] ELSE settings]
        /\ UNCHANGED <<document, settings, rolling, host, now>>

\* Every worker is replaced while none serves, the requests in flight lost.
RestartAll ==
    /\ pc' = [w \in Workers |-> "idle"]
    /\ req' = [w \in Workers |-> None]
    /\ seen' = [w \in Workers |-> None]
    /\ answer' = [w \in Workers |-> None]
    /\ outcome' = [w \in Workers |-> "none"]
    /\ config' = [w \in Workers |-> settings']

NewSettings(s) ==
    /\ settings' = s
    /\ IF rolling THEN UNCHANGED <<config, requests>> ELSE RestartAll
    /\ UNCHANGED <<document, ledger, rolling, host>>

\* The procedure of Configuration.md: one changeover instant ends the window of
\* the outgoing key and starts that of the incoming one.
RotateKey ==
    /\ settings.signer < MaxKey /\ now < MaxTime
    /\ now' = now + 1
    /\ NewSettings([settings EXCEPT !.signer = @ + 1,
                                    !.not_after[settings.signer] = now + 1,
                                    !.not_before[settings.signer + 1] = now + 1])

RevokeKey(k) ==
    /\ k =< settings.signer
    /\ k \notin settings.revoked
    /\ NewSettings([settings EXCEPT !.revoked = @ \cup {k}])
    /\ UNCHANGED now

Tick ==
    /\ now < MaxTime
    /\ now' = now + 1
    /\ UNCHANGED <<document, ledger, deployment, requests>>

----------------------------------------------------------------------------
(* refuse_lifecycle_decision_against_bundle, against the keys a worker with    *)
(* configuration c publishes (verification_keys).                              *)

\* Two refusals are left out: a key id published twice and an ephemeral key,
\* which the validation of the settings keeps out outside the local profile.

\* Mutant: the window of a rotated key is closed before its last instant.
InWindow_Short(c, d) ==
    /\ c.not_before[d.key] =< d.issued_at
    /\ d.issued_at + 1 < c.not_after[d.key]

InWindow(c, d) ==
    /\ c.not_before[d.key] =< d.issued_at
    /\ d.issued_at < c.not_after[d.key]

Verdict(c, d, at) ==
    IF d.key > c.signer THEN "key_not_published"
    ELSE IF d.key \in c.revoked THEN "key_revoked"
    ELSE IF ~InWindow(c, d) THEN "key_window"
    ELSE IF at >= d.issued_at + TTL THEN "signature_invalid"
    ELSE "verified"

----------------------------------------------------------------------------
Serve(w) == Lookup(w) \/ ReadPosture(w) \/ Sign(w) \/ Save(w) \/ Audit(w) \/ Answer(w)

Next ==
    \/ DocumentChanges \/ Tick \/ RotateKey
    \/ \E k \in Keys : RevokeKey(k)
    \/ \E h \in Hosts : ReplaceHost(h)
    \/ \E w \in Workers : Serve(w) \/ Restart(w)
    \/ \E w \in Workers, k \in IdemKeys, f \in Inputs : issue(w, k, f)

Spec == Init /\ [][Next]_vars

----------------------------------------------------------------------------
(* Properties. *)

\* The decisions in the ledger files of all hosts; one whose file was lost is no
\* longer looked at.
Issued == {ledger[h][k] : h \in Hosts, k \in IdemKeys} \ {None}

\* One idempotency key has one decision per ledger file, as long as the host
\* keeps the file.  A caller gets the decision that is in the ledger of the
\* host that served it, for the input it sent and its own tenant, although
\* another worker of that host may have signed one for the same key meanwhile.
\* Nothing is promised across hosts and replacements: a retry that another file
\* serves is a new decision, although archive-service-boundaries.md:57 calls the
\* decisions "durable-idempotent".
AnswersFromLedger ==
    \A w \in Workers : outcome[w] \in {"issued", "replayed"} =>
        /\ answer[w] = ledger[host[w]][req[w].key]
        /\ answer[w].input = req[w].input
        /\ answer[w].input \notin Foreign

\* "DISPOSAL_EXECUTED" is only said of a document whose destruction has begun,
\* and stays true: posture is read before the decision is signed and stored.
DisposalIsReal ==
    \A d \in Issued : d.action = "DISPOSAL_EXECUTED" => purge \in {"started", "purged"}

\* While it has not expired, a decision verifies against the published keys,
\* across rotations, unless its key was revoked (Configuration.md:142-145:
\* "decisions on either side of the changeover verify").  Where workers are
\* replaced one by one there is one exception: a worker not replaced yet signs
\* with the outgoing key after its window.
DecisionsVerify ==
    \A d \in Issued :
        LET verdict == Verdict(settings, d, d.issued_at)
        IN  \/ verdict \in {"verified", "key_revoked"}
            \/ rolling /\ verdict = "key_window" /\ d.issued_at >= settings.not_after[d.key]

\* A revoked key signs nothing any more: no decision enters the ledger under a
\* key the operator has revoked by then, not even one whose request was past
\* the check of the signing key when the revocation came.  Where workers are
\* replaced one by one, only one that was not replaced since can still do it.
RevokedKeySignsNothing ==
    [][\A h \in Hosts, k \in IdemKeys : ledger'[h][k] \notin {ledger[h][k], None} =>
          \/ ledger'[h][k].key \notin settings.revoked
          \/ rolling /\ \E w \in Workers : config[w] # settings /\ answer[w] = ledger'[h][k]]_vars
=============================================================================
