--------------------------- MODULE IdeaDecision_proofs ---------------------------
(***************************************************************************)
(* Proofs about IdeaDecision for any number of workers, hosts, idempotency *)
(* keys, inputs and signing keys, however often hosts are replaced.        *)
(***************************************************************************)
EXTENDS IdeaDecision, TLAPS

----------------------------------------------------------------------------
(* The inductive invariant. *)

\* A decision that may be stored: it is about a document of the caller's tenant,
\* it claims no destruction that has not begun, and its key was published and in
\* its window when it signed, unless a worker that was not replaced yet did.
Sound(d) ==
    /\ d \in Decision
    /\ d.input \notin Foreign
    /\ d.action = "DISPOSAL_EXECUTED" => purge \in {"started", "purged"}
    /\ d.key =< settings.signer
    /\ settings.not_before[d.key] =< d.issued_at
    /\ d.issued_at =< now
    /\ rolling \/ d.issued_at < settings.not_after[d.key]

\* The key windows the operator has published: those of the keys in service have
\* begun, and that of the signing key has no end.
Windows ==
    \A k \in Keys : /\ k =< settings.signer => settings.not_before[k] =< now
                    /\ settings.signer =< k => settings.not_after[k] = Unset

\* A worker signs with a key that was in service once, with the current one when
\* all workers are replaced at a time.
Deployed(w) ==
    /\ config[w].signer =< settings.signer
    /\ rolling \/ config[w] = settings

\* What a worker carries, by the step it is at.
Carries(w) ==
    /\ pc[w] = "idle" => outcome[w] = "none"
    /\ pc[w] # "idle" => req[w] \in [key : IdemKeys, input : Inputs]
    /\ outcome[w] \in {"issued", "replayed"} => answer[w] \in Decision
    /\ pc[w] \in {"lookup", "posture", "sign", "save"} => MaySign(config[w]) /\ outcome[w] = "none"
    /\ pc[w] \in {"sign", "save"} =>
          /\ req[w].input \notin Foreign
          /\ seen[w] \in Actions
          /\ seen[w] = "DISPOSAL_EXECUTED" => purge \in {"started", "purged"}
    /\ pc[w] = "save" => /\ Sound(answer[w])
                         /\ answer[w].input = req[w].input
                         /\ answer[w].key = config[w].signer

Inv ==
    /\ TypeOK
    /\ Windows
    /\ \A w \in Workers : Deployed(w) /\ Carries(w)
    /\ \A h \in Hosts, k \in IdemKeys : ledger[h][k] # None => Sound(ledger[h][k])
    /\ AnswersFromLedger

----------------------------------------------------------------------------
(* The document. *)

\* A decision says that a document is destroyed only if its destruction began.
LEMMA DecisionActionValue ==
    ASSUME NEW p \in Purge, NEW h \in BOOLEAN
    PROVE  /\ DecisionAction(p, h) \in Actions
           /\ DecisionAction(p, h) = "DISPOSAL_EXECUTED" => p \in {"started", "purged"}
<1>1. CASE p \in {"purged", "started"} BY <1>1 DEF DecisionAction, Actions
<1>2. CASE p \in {"retained", "eligible"} /\ h BY <1>2 DEF DecisionAction, Actions
<1>3. CASE p = "eligible" /\ ~h BY <1>3 DEF DecisionAction, Actions
<1>4. CASE p = "retained" /\ ~h BY <1>4 DEF DecisionAction, Actions
<1>. QED BY <1>1, <1>2, <1>3, <1>4 DEF Purge

\* An evaluation neither begins a destruction nor undoes one.
LEMMA EvaluatedValue ==
    ASSUME purge \in Purge
    PROVE  /\ Evaluated \in Purge
           /\ purge \in {"started", "purged"} <=> Evaluated \in {"started", "purged"}
<1>1. CASE purge \in {"started", "purged"} BY <1>1 DEF Evaluated
<1>2. CASE purge \notin {"started", "purged"} /\ elapsed /\ ~hold BY <1>2 DEF Evaluated, Purge
<1>3. CASE purge \notin {"started", "purged"} /\ ~(elapsed /\ ~hold) BY <1>3 DEF Evaluated, Purge
<1>. QED BY <1>1, <1>2, <1>3

----------------------------------------------------------------------------
(* Settings and time. *)

\* What no step undoes: time and key service go on, a window that has begun does
\* not move, the end of one is set once and later than now, and destruction is final.
Lasting ==
    /\ now =< now'
    /\ settings.signer =< settings'.signer
    /\ \A k \in Keys : k =< settings.signer =>
          /\ settings'.not_before[k] = settings.not_before[k]
          /\ \/ settings'.not_after[k] = settings.not_after[k]
             \/ settings'.not_after[k] = now + 1
    /\ rolling' = rolling
    /\ purge \in {"started", "purged"} => purge' \in {"started", "purged"}

\* A rotation opens the window of the next key when it closes that of the last.
LEMMA Rotation ==
    ASSUME TypeOK, Windows, RotateKey
    PROVE  /\ now' = now + 1 /\ now' \in Time
           /\ settings' \in Config
           /\ settings'.signer = settings.signer + 1
           /\ settings'.not_before = [settings.not_before EXCEPT ![settings.signer + 1] = now + 1]
           /\ settings'.not_after = [settings.not_after EXCEPT ![settings.signer] = now + 1]
           /\ Windows'
<1>t. /\ settings \in Config /\ now \in Time /\ MaxKey \in Nat /\ MaxTime \in Nat
      /\ settings.signer \in Keys /\ settings.signer < MaxKey /\ now < MaxTime /\ now' = now + 1
      /\ settings.not_before \in [Keys -> Time]
      /\ settings.not_after \in [Keys -> Time \cup {Unset}]
      /\ settings.revoked \in SUBSET Keys
  BY BoundsAssumption DEF TypeOK, RotateKey, Config
<1>1. now + 1 \in Time /\ settings.signer + 1 \in Keys BY <1>t DEF Time, Keys
<1>. DEFINE nb == [settings.not_before EXCEPT ![settings.signer + 1] = now + 1]
            na == [settings.not_after EXCEPT ![settings.signer] = now + 1]
<1>2. nb \in [Keys -> Time] /\ na \in [Keys -> Time \cup {Unset}] BY <1>t, <1>1
<1>3. settings' = [settings EXCEPT !.signer = settings.signer + 1, !.not_after = na, !.not_before = nb]
  BY DEF RotateKey, NewSettings
<1>4. /\ \A k \in Keys : nb[k] = IF k = settings.signer + 1 THEN now + 1 ELSE settings.not_before[k]
      /\ \A k \in Keys : na[k] = IF k = settings.signer THEN now + 1 ELSE settings.not_after[k]
  BY <1>t, <1>1
<1>. HIDE DEF nb, na
<1>5. /\ settings' \in Config /\ settings'.signer = settings.signer + 1
      /\ settings'.not_before = nb /\ settings'.not_after = na
  BY <1>t, <1>1, <1>2, <1>3 DEF Config
<1>6. ASSUME NEW k \in Keys
      PROVE  /\ k =< settings.signer + 1 => nb[k] =< now + 1
             /\ settings.signer + 1 =< k => na[k] = Unset
  <2>1. k \in Int /\ settings.signer \in Int /\ now \in Int /\ settings.not_before[k] \in Int
    BY <1>t DEF Keys, Time
  <2>2. CASE k = settings.signer + 1
    <3>1. nb[k] = now + 1 BY <1>4, <2>2
    <3>2. settings.signer =< k /\ k # settings.signer BY <2>1, <2>2
    <3>3. na[k] = settings.not_after[k] BY <1>4, <3>2
    <3>. QED BY <3>1, <3>2, <3>3, <2>1 DEF Windows
  <2>3. CASE k # settings.signer + 1
    <3>1. k =< settings.signer + 1 => k =< settings.signer BY <2>1, <2>3
    <3>2. settings.signer + 1 =< k => settings.signer =< k /\ k # settings.signer BY <2>1
    <3>3. nb[k] = settings.not_before[k] BY <1>4, <2>3
    <3>4. settings.signer + 1 =< k => na[k] = Unset BY <1>4, <3>2 DEF Windows
    <3>5. k =< settings.signer => settings.not_before[k] =< now BY DEF Windows
    <3>. QED BY <2>1, <3>1, <3>3, <3>4, <3>5
  <2>. QED BY <2>2, <2>3
<1>7. Windows' BY <1>5, <1>6, <1>t DEF Windows, Unset
<1>. QED BY <1>t, <1>1, <1>5, <1>7 DEF nb, na

\* A revocation changes no window.
LEMMA Revocation ==
    ASSUME TypeOK, NEW k \in Keys, RevokeKey(k)
    PROVE  /\ settings' \in Config /\ UNCHANGED now
           /\ settings'.signer = settings.signer
           /\ settings'.not_before = settings.not_before
           /\ settings'.not_after = settings.not_after
BY DEF TypeOK, RevokeKey, NewSettings, Config

\* Nothing but a rotation and a revocation changes the settings.
LEMMA SettingsStep ==
    ASSUME [Next]_vars
    PROVE  UNCHANGED settings \/ RotateKey \/ \E k \in Keys : RevokeKey(k)
BY DEF Next, DocumentChanges, Tick, Serve, Lookup, ReadPosture, Sign, Save, Audit, Answer, Restart,
       ReplaceHost, issue, deployment, vars

\* Time goes on, and the windows stay in order.
LEMMA LastingNext ==
    ASSUME TypeOK, Windows, [Next]_vars
    PROVE  /\ Lasting /\ Windows'
           /\ settings' \in Config /\ now' \in Time /\ rolling' \in BOOLEAN
<1>t. /\ settings \in Config /\ now \in Time /\ now \in Int /\ purge \in Purge
      /\ settings.signer \in Int /\ settings.not_before \in [Keys -> Time]
      /\ settings.not_after \in [Keys -> Time \cup {Unset}] /\ rolling \in BOOLEAN
  BY DEF TypeOK, Config, Time, Keys
<1>r. rolling' = rolling
  BY DEF Next, DocumentChanges, Tick, Serve, Lookup, ReadPosture, Sign, Save, Audit, Answer, Restart,
         ReplaceHost, RotateKey, RevokeKey, NewSettings, issue, deployment, vars
<1>p. purge \in {"started", "purged"} => purge' \in {"started", "purged"}
  <2>1. ASSUME NEW w \in Workers, ReadPosture(w)
        PROVE  purge \in {"started", "purged"} => purge' \in {"started", "purged"}
    BY <2>1, <1>t, EvaluatedValue DEF ReadPosture
  <2>2. CASE DocumentChanges
    BY <2>2 DEF DocumentChanges, SetHold, ReleaseHold, RetentionEnds, BeginPurge, CompletePurge
  <2>3. CASE ~DocumentChanges /\ \A w \in Workers : ~ReadPosture(w)
    BY <2>3 DEF Next, Tick, Serve, Lookup, Sign, Save, Audit, Answer, Restart, ReplaceHost,
                RotateKey, RevokeKey, NewSettings, issue, document, vars
  <2>. QED BY <2>1, <2>2, <2>3
<1>n. now' \in Time /\ now =< now'
  <2>1. now' = now \/ (now < MaxTime /\ now' = now + 1)
    BY DEF Next, DocumentChanges, Tick, Serve, Lookup, ReadPosture, Sign, Save, Audit, Answer,
           Restart, ReplaceHost, RotateKey, RevokeKey, NewSettings, issue, vars
  <2>. QED BY <2>1, <1>t, BoundsAssumption DEF Time
<1>1. CASE UNCHANGED settings
  <2>1. Windows'
    <3>1. ASSUME NEW k \in Keys, k =< settings.signer PROVE settings.not_before[k] =< now'
      <4>1. settings.not_before[k] =< now /\ settings.not_before[k] \in Int BY <3>1, <1>t DEF Windows, Time
      <4>. QED BY <4>1, <1>n, <1>t DEF Time
    <3>. QED BY <1>1, <3>1 DEF Windows, Unset
  <2>. QED BY <1>1, <2>1, <1>n, <1>r, <1>p, <1>t DEF Lasting
<1>2. CASE RotateKey
  <2>. DEFINE s == settings.signer
  <2>0. /\ settings'.signer = s + 1
        /\ settings'.not_before = [settings.not_before EXCEPT ![s + 1] = now + 1]
        /\ settings'.not_after = [settings.not_after EXCEPT ![s] = now + 1]
        /\ Windows' /\ settings' \in Config
    BY <1>2, Rotation
  <2>1. s =< settings'.signer /\ \A k \in Keys : k =< s => k # s + 1 BY <2>0, <1>t DEF Keys
  <2>2. ASSUME NEW k \in Keys, k =< s
        PROVE  /\ settings'.not_before[k] = settings.not_before[k]
               /\ settings'.not_after[k] = settings.not_after[k] \/ settings'.not_after[k] = now + 1
    BY <2>0, <2>1, <2>2, <1>t
  <2>. QED BY <2>0, <2>1, <2>2, <1>n, <1>r, <1>p, <1>t DEF Lasting
<1>3. ASSUME NEW k \in Keys, RevokeKey(k)
      PROVE  Lasting /\ Windows' /\ settings' \in Config
  <2>0. /\ settings' \in Config /\ now' = now
        /\ settings'.signer = settings.signer
        /\ settings'.not_before = settings.not_before
        /\ settings'.not_after = settings.not_after
    BY <1>3, Revocation
  <2>. QED BY <2>0, <1>n, <1>r, <1>p, <1>t DEF Lasting, Windows, Unset
<1>. QED BY <1>1, <1>2, <1>3, <1>n, <1>r, <1>t, SettingsStep

\* A sound decision stays sound: its key was in service when it was signed, and
\* the end of that key's window comes later than any decision in existence.
LEMMA SoundLasts ==
    ASSUME TypeOK, settings' \in Config, now' \in Time, Lasting, NEW d, Sound(d)
    PROVE  Sound(d)'
<1>1. /\ d \in Decision /\ d.key \in Keys /\ d.issued_at \in Int /\ now \in Int
      /\ d.key \in Int /\ settings.signer \in Int
      /\ d.key =< settings.signer
  BY DEF Sound, Decision, TypeOK, Time, Keys, Config
<1>2. settings'.signer \in Int /\ d.key =< settings'.signer
  <2>1. settings'.signer \in Int BY DEF Config, Keys
  <2>. QED BY <2>1, <1>1 DEF Lasting
<1>3. settings'.not_before[d.key] =< d.issued_at BY <1>1 DEF Lasting, Sound
<1>4. d.issued_at =< now'
  <2>1. d.issued_at =< now BY DEF Sound
  <2>2. now' \in Int /\ now =< now' BY DEF Lasting, Time
  <2>. QED BY <1>1, <2>1, <2>2
<1>5. rolling' \/ d.issued_at < settings'.not_after[d.key]
  <2>1. CASE rolling BY <2>1 DEF Lasting
  <2>2. CASE ~rolling
    <3>1. d.issued_at < settings.not_after[d.key] /\ d.issued_at < now + 1 BY <1>1, <2>2 DEF Sound
    <3>. QED BY <1>1, <3>1 DEF Lasting
  <2>. QED BY <2>1, <2>2
<1>. QED BY <1>1, <1>2, <1>3, <1>4, <1>5 DEF Sound, Lasting, Decision, Keys, Time

----------------------------------------------------------------------------
(* Requests and the ledger. *)

\* A worker stays on its host.
LEMMA HostsNext ==
    ASSUME [Next]_vars
    PROVE  host' = host
BY DEF Next, DocumentChanges, Tick, Serve, Lookup, ReadPosture, Sign, Save, Audit, Answer, Restart,
       ReplaceHost, RotateKey, RevokeKey, NewSettings, issue, deployment, vars

\* The step of one worker changes only its own request.
Others(w) ==
    \A v \in Workers \ {w} :
        /\ pc'[v] = pc[v] /\ req'[v] = req[v] /\ seen'[v] = seen[v]
        /\ answer'[v] = answer[v] /\ outcome'[v] = outcome[v]

\* A worker writes no other worker's variables.
LEMMA Isolation ==
    ASSUME TypeOK, NEW w \in Workers,
           Serve(w) \/ Restart(w) \/ \E k \in IdemKeys, f \in Inputs : issue(w, k, f)
    PROVE  /\ Others(w)
           /\ \A v \in Workers \ {w} : config'[v] = config[v]
<1>. USE DEF TypeOK, Others, Goto, Finish, deployment
<1>1. CASE \E k \in IdemKeys, f \in Inputs : issue(w, k, f) BY <1>1 DEF issue
<1>2. CASE Lookup(w) BY <1>2 DEF Lookup
<1>3. CASE ReadPosture(w) \/ Sign(w) BY <1>3 DEF ReadPosture, Sign
<1>4. CASE Save(w) \/ Audit(w) BY <1>4 DEF Save, Audit
<1>5. CASE Answer(w) \/ Restart(w) BY <1>5 DEF Answer, Restart, Clear
<1>. QED BY <1>1, <1>2, <1>3, <1>4, <1>5 DEF Serve

\* A ledger file is written by a save that found its key unused, and goes with
\* its host.
LEMMA LedgerStep ==
    ASSUME [Next]_vars
    PROVE  \/ UNCHANGED ledger
           \/ \E w \in Workers :
                 /\ Save(w) /\ ledger[host[w]][req[w].key] = None
                 /\ ledger' = [ledger EXCEPT ![host[w]][req[w].key] = answer[w]]
           \/ \E h \in Hosts : ReplaceHost(h)
<1>1. ASSUME NEW w \in Workers, Save(w)
      PROVE  \/ UNCHANGED ledger
             \/ /\ ledger[host[w]][req[w].key] = None
                /\ ledger' = [ledger EXCEPT ![host[w]][req[w].key] = answer[w]]
  BY <1>1 DEF Save
<1>. QED BY <1>1
        DEF Next, DocumentChanges, Tick, Serve, Lookup, ReadPosture, Sign, Audit, Answer, Restart,
            RotateKey, RevokeKey, NewSettings, issue, vars

\* What a step does to one entry of one file.
LEMMA EntryStep ==
    ASSUME TypeOK, [Next]_vars, NEW h \in Hosts, NEW k \in IdemKeys
    PROVE  \/ ledger'[h][k] = ledger[h][k]
           \/ \E w \in Workers : /\ Save(w) /\ host[w] = h /\ ledger[h][k] = None
                                 /\ ledger'[h][k] = answer[w]
           \/ ReplaceHost(h) /\ ledger'[h][k] = None
<1>t. ledger \in [Hosts -> [IdemKeys -> Decision \cup {None}]] BY DEF TypeOK
<1>1. CASE UNCHANGED ledger BY <1>1
<1>2. ASSUME NEW w \in Workers, Save(w), ledger[host[w]][req[w].key] = None,
             ledger' = [ledger EXCEPT ![host[w]][req[w].key] = answer[w]]
      PROVE  \/ ledger'[h][k] = ledger[h][k]
             \/ host[w] = h /\ ledger[h][k] = None /\ ledger'[h][k] = answer[w]
  BY <1>t, <1>2
<1>3. ASSUME NEW g \in Hosts, ReplaceHost(g)
      PROVE  ledger'[h][k] = ledger[h][k] \/ (ReplaceHost(h) /\ ledger'[h][k] = None)
  <2>1. ledger' = [ledger EXCEPT ![g] = NewFile] BY <1>3 DEF ReplaceHost
  <2>2. CASE g = h BY <2>1, <2>2, <1>3, <1>t DEF NewFile
  <2>3. CASE g # h BY <2>1, <2>3, <1>t
  <2>. QED BY <2>2, <2>3
<1>. QED BY <1>1, <1>2, <1>3, LedgerStep

\* A stored decision stays as long as its host does.
LEMMA LedgerLasts ==
    ASSUME TypeOK, [Next]_vars, NEW h \in Hosts, NEW k \in IdemKeys, ledger[h][k] # None,
           ~ReplaceHost(h)
    PROVE  ledger'[h][k] = ledger[h][k]
BY EntryStep

\* A decision is signed with the worker's key at the present time.
LEMMA SignedSound ==
    ASSUME Inv, NEW w \in Workers, Sign(w)
    PROVE  /\ Sound(answer'[w]) /\ answer'[w] \in Decision
           /\ answer'[w].input = req[w].input
           /\ answer'[w].key = config[w].signer
<1>t. /\ settings \in Config /\ config[w] \in Config /\ now \in Time
      /\ answer \in [Workers -> Decision \cup {None}]
      /\ Windows /\ Deployed(w) /\ Carries(w) /\ pc[w] = "sign"
  BY DEF Inv, TypeOK, Sign
<1>k. /\ config[w].signer \in Keys /\ settings.signer \in Keys
      /\ req[w] \in [key : IdemKeys, input : Inputs] /\ seen[w] \in Actions
      /\ config[w].signer =< settings.signer
      /\ now < Unset /\ now =< now /\ now \in Int
  BY <1>t, BoundsAssumption DEF Config, Carries, Deployed, Time, Unset
<1>1. answer'[w] = [input |-> req[w].input, action |-> seen[w],
                    key |-> config[w].signer, issued_at |-> now]
  BY <1>t DEF Sign
<1>2. settings.not_before[config[w].signer] =< now BY <1>t, <1>k DEF Windows
<1>3. rolling \/ now < settings.not_after[config[w].signer]
  <2>1. CASE ~rolling
    <3>1. config[w].signer = settings.signer /\ settings.signer =< settings.signer
      BY <2>1, <1>t, <1>k DEF Deployed, Keys
    <3>2. settings.not_after[settings.signer] = Unset BY <3>1, <1>t, <1>k DEF Windows
    <3>. QED BY <3>1, <3>2, <1>k
  <2>. QED BY <2>1
<1>4. answer'[w] \in Decision BY <1>1, <1>k, <1>t DEF Decision
<1>. QED BY <1>1, <1>2, <1>3, <1>4, <1>k, <1>t DEF Sound, Carries

\* A step leaves the state well typed.
LEMMA TypeNext ==
    ASSUME Inv, [Next]_vars
    PROVE  TypeOK'
<1>t. /\ TypeOK /\ Windows /\ purge \in Purge /\ hold \in BOOLEAN /\ elapsed \in BOOLEAN
      /\ ledger \in [Hosts -> [IdemKeys -> Decision \cup {None}]]
      /\ host \in [Workers -> Hosts]
      /\ config \in [Workers -> Config]
      /\ pc \in [Workers -> Steps]
      /\ req \in [Workers -> [key : IdemKeys, input : Inputs] \cup {None}]
      /\ seen \in [Workers -> Actions \cup {None}]
      /\ answer \in [Workers -> Decision \cup {None}]
      /\ outcome \in [Workers -> Outcomes]
      /\ \A w \in Workers : Carries(w)
  BY DEF Inv, TypeOK
<1>s. settings' \in Config /\ now' \in Time /\ rolling' \in BOOLEAN BY <1>t, LastingNext
<1>d. purge' \in Purge /\ hold' \in BOOLEAN /\ elapsed' \in BOOLEAN
  <2>1. CASE DocumentChanges
    BY <2>1, <1>t DEF DocumentChanges, SetHold, ReleaseHold, RetentionEnds, BeginPurge,
                      CompletePurge, Purge
  <2>2. ASSUME NEW w \in Workers, ReadPosture(w)
        PROVE  purge' \in Purge /\ hold' \in BOOLEAN /\ elapsed' \in BOOLEAN
    BY <2>2, <1>t, EvaluatedValue DEF ReadPosture
  <2>3. CASE ~DocumentChanges /\ \A w \in Workers : ~ReadPosture(w)
    BY <2>3, <1>t DEF Next, Tick, Serve, Lookup, Sign, Save, Audit, Answer, Restart, ReplaceHost,
                      RotateKey, RevokeKey, NewSettings, issue, document, vars
  <2>. QED BY <2>1, <2>2, <2>3
<1>h. host' \in [Workers -> Hosts] BY <1>t, HostsNext
<1>l. ledger' \in [Hosts -> [IdemKeys -> Decision \cup {None}]]
  <2>1. CASE UNCHANGED ledger BY <2>1, <1>t
  <2>2. ASSUME NEW w \in Workers, Save(w),
               ledger' = [ledger EXCEPT ![host[w]][req[w].key] = answer[w]]
        PROVE  ledger' \in [Hosts -> [IdemKeys -> Decision \cup {None}]]
    <3>1. answer[w] \in Decision /\ req[w].key \in IdemKeys
      BY <2>2, <1>t DEF Save, Carries, Sound
    <3>2. host[w] \in Hosts /\ ledger[host[w]] \in [IdemKeys -> Decision \cup {None}] BY <1>t
    <3>3. [ledger[host[w]] EXCEPT ![req[w].key] = answer[w]] \in [IdemKeys -> Decision \cup {None}]
      BY <3>1, <3>2
    <3>4. ledger' = [ledger EXCEPT ![host[w]] = [ledger[host[w]] EXCEPT ![req[w].key] = answer[w]]]
      BY <2>2
    <3>. QED BY <3>2, <3>3, <3>4, <1>t
  <2>3. ASSUME NEW h \in Hosts, ReplaceHost(h)
        PROVE  ledger' \in [Hosts -> [IdemKeys -> Decision \cup {None}]]
    <3>1. NewFile \in [IdemKeys -> Decision \cup {None}] BY DEF NewFile
    <3>. QED BY <2>3, <3>1, <1>t DEF ReplaceHost
  <2>. QED BY <2>1, <2>2, <2>3, LedgerStep
<1>. DEFINE RequestsOK ==
       /\ config \in [Workers -> Config]
       /\ pc \in [Workers -> Steps]
       /\ req \in [Workers -> [key : IdemKeys, input : Inputs] \cup {None}]
       /\ seen \in [Workers -> Actions \cup {None}]
       /\ answer \in [Workers -> Decision \cup {None}]
       /\ outcome \in [Workers -> Outcomes]
<1>r. RequestsOK BY <1>t
<1>1. ASSUME NEW w \in Workers,
             Serve(w) \/ Restart(w) \/ \E k \in IdemKeys, f \in Inputs : issue(w, k, f)
      PROVE  RequestsOK'
  <2>. USE <1>r DEF Goto, Finish, deployment, Steps, Outcomes
  <2>1. CASE \E k \in IdemKeys, f \in Inputs : issue(w, k, f) BY <2>1 DEF issue
  <2>2. CASE Lookup(w)
    <3>1. ledger[host[w]][req[w].key] \in Decision \cup {None} BY <2>2, <1>t DEF Lookup, Carries
    <3>. QED BY <2>2, <3>1 DEF Lookup
  <2>3. CASE ReadPosture(w)
    <3>1. DecisionAction(purge', hold) \in Actions BY <1>d, <1>t, DecisionActionValue
    <3>. QED BY <2>3, <3>1 DEF ReadPosture
  <2>4. CASE Sign(w)
    <3>1. answer'[w] \in Decision BY <2>4, SignedSound
    <3>2. answer' \in [Workers -> Decision \cup {None}] BY <2>4, <3>1 DEF Sign
    <3>. QED BY <2>4, <3>2 DEF Sign
  <2>5. CASE Save(w)
    <3>1. ledger[host[w]][req[w].key] \in Decision \cup {None} BY <2>5, <1>t DEF Save, Carries
    <3>. QED BY <2>5, <3>1 DEF Save
  <2>6. CASE Audit(w) BY <2>6 DEF Audit
  <2>7. CASE Answer(w) BY <2>7 DEF Answer, Clear
  <2>8. CASE Restart(w)
    <3>1. settings \in Config BY <1>t DEF TypeOK
    <3>. QED BY <2>8, <3>1 DEF Restart, Clear
  <2>. QED BY <1>1, <2>1, <2>2, <2>3, <2>4, <2>5, <2>6, <2>7, <2>8 DEF Serve
<1>2. ASSUME RotateKey \/ \E k \in Keys : RevokeKey(k)
      PROVE  RequestsOK'
  <2>1. UNCHANGED <<config, requests>> \/ RestartAll
    BY <1>2 DEF RotateKey, RevokeKey, NewSettings
  <2>2. CASE UNCHANGED <<config, requests>> BY <2>2, <1>t DEF requests
  <2>3. CASE RestartAll BY <2>3, <1>s DEF RestartAll, Steps, Outcomes
  <2>. QED BY <2>1, <2>2, <2>3
<1>3. ASSUME DocumentChanges \/ Tick \/ UNCHANGED vars
      PROVE  RequestsOK'
  BY <1>3, <1>t DEF DocumentChanges, Tick, vars, requests, deployment
<1>4. ASSUME NEW h \in Hosts, ReplaceHost(h)
      PROVE  RequestsOK'
  <2>1. settings \in Config BY <1>t DEF TypeOK
  <2>. QED BY <1>4, <2>1, <1>t DEF ReplaceHost, Steps, Outcomes
<1>5. RequestsOK' BY <1>1, <1>2, <1>3, <1>4 DEF Next
<1>. QED BY <1>s, <1>d, <1>h, <1>l, <1>5 DEF TypeOK

----------------------------------------------------------------------------
(* Preservation. *)

\* A sound decision is sound in the next state.
LEMMA SoundNext ==
    ASSUME Inv, [Next]_vars
    PROVE  \A d : Sound(d) => Sound(d)'
BY LastingNext, SoundLasts DEF Inv

\* The requests stay as they are, but for one worker's step, a replacement of all
\* workers and that of a host.
LEMMA StepOfWho ==
    ASSUME [Next]_vars
    PROVE  \/ \E w \in Workers :
                 Serve(w) \/ Restart(w) \/ \E k \in IdemKeys, f \in Inputs : issue(w, k, f)
           \/ UNCHANGED <<config, requests>>
           \/ ~rolling /\ RestartAll
           \/ \E h \in Hosts : ReplaceHost(h)
BY DEF Next, DocumentChanges, Tick, RotateKey, RevokeKey, NewSettings, vars, requests, deployment

\* A worker that takes no step carries what it carried.
LEMMA CarriesLasts ==
    ASSUME Inv, [Next]_vars, NEW v \in Workers,
           pc'[v] = pc[v], req'[v] = req[v], seen'[v] = seen[v], answer'[v] = answer[v],
           outcome'[v] = outcome[v], config'[v] = config[v]
    PROVE  Carries(v)'
<1>1. Carries(v) /\ Lasting BY LastingNext DEF Inv
<1>2. pc[v] = "save" => Sound(answer[v])'
  <2>1. SUFFICES ASSUME pc[v] = "save" PROVE Sound(answer[v])' OBVIOUS
  <2>2. Sound(answer[v]) BY <1>1, <2>1 DEF Carries
  <2>3. PICK d : d = answer[v] OBVIOUS
  <2>4. Sound(d)' BY <2>2, <2>3, SoundNext
  <2>5. answer'[v] = d BY <2>3
  <2>. QED BY <2>4, <2>5 DEF Sound
<1>. QED BY <1>1, <1>2 DEF Carries, Lasting, MaySign

\* The worker that takes a step carries what the next one needs.
LEMMA CarriesStep ==
    ASSUME Inv, [Next]_vars, NEW w \in Workers,
           Serve(w) \/ Restart(w) \/ \E k \in IdemKeys, f \in Inputs : issue(w, k, f)
    PROVE  Carries(w)'
<1>t. /\ purge \in Purge /\ hold \in BOOLEAN
      /\ pc \in [Workers -> Steps]
      /\ req \in [Workers -> [key : IdemKeys, input : Inputs] \cup {None}]
      /\ seen \in [Workers -> Actions \cup {None}]
      /\ answer \in [Workers -> Decision \cup {None}]
      /\ outcome \in [Workers -> Outcomes]
      /\ Carries(w) /\ Lasting /\ purge' \in Purge
  BY LastingNext, TypeNext DEF Inv, TypeOK
<1>. USE <1>t DEF Carries, Goto, Finish, deployment, Lasting, MaySign
<1>1. CASE \E k \in IdemKeys, f \in Inputs : issue(w, k, f)
  <2>1. PICK k \in IdemKeys, f \in Inputs : issue(w, k, f) BY <1>1
  <2>2. /\ pc[w] = "idle" /\ req'[w] = [key |-> k, input |-> f] /\ config' = config
        /\ pc'[w] \in {"answer", "lookup"}
        /\ pc'[w] = "lookup" => outcome'[w] = outcome[w] /\ MaySign(config[w])
        /\ outcome'[w] \notin {"issued", "replayed"}
    BY <2>1 DEF issue
  <2>. QED BY <2>2
<1>2. CASE Lookup(w)
  <2>1. /\ pc[w] = "lookup" /\ UNCHANGED <<req, config>>
        /\ pc'[w] \in {"answer", "posture"}
        /\ pc'[w] = "posture" => outcome'[w] = outcome[w]
        /\ outcome'[w] \in {"issued", "replayed"} =>
              answer'[w] = ledger[host[w]][req[w].key] /\ ledger[host[w]][req[w].key] # None
    BY <1>2 DEF Lookup
  <2>2. ledger[host[w]][req[w].key] \in Decision \cup {None} BY <2>1 DEF Inv, TypeOK
  <2>. QED BY <2>1, <2>2
<1>3. CASE ReadPosture(w)
  <2>1. /\ pc[w] = "posture" /\ UNCHANGED <<req, config, hold>>
        /\ pc'[w] \in {"answer", "sign"}
        /\ pc'[w] = "sign" => /\ outcome'[w] = outcome[w] /\ req[w].input \notin Foreign
                              /\ seen'[w] = DecisionAction(purge', hold)
        /\ outcome'[w] \notin {"issued", "replayed"}
    BY <1>3 DEF ReadPosture
  <2>2. /\ DecisionAction(purge', hold) \in Actions
        /\ DecisionAction(purge', hold) = "DISPOSAL_EXECUTED" => purge' \in {"started", "purged"}
    BY DecisionActionValue
  <2>. QED BY <2>1, <2>2
<1>4. CASE Sign(w)
  <2>1. /\ pc[w] = "sign" /\ pc'[w] = "save"
        /\ UNCHANGED <<req, config, seen, outcome, purge, settings, now, rolling>>
    BY <1>4 DEF Sign, document
  <2>2. /\ Sound(answer'[w])
        /\ answer'[w].input = req[w].input
        /\ answer'[w].key = config[w].signer
    BY <1>4, SignedSound
  <2>3. Sound(answer[w])' BY <2>1, <2>2 DEF Sound
  <2>. QED BY <2>1, <2>2, <2>3
<1>5. CASE Save(w)
  <2>1. /\ pc[w] = "save" /\ pc'[w] \in {"audit", "answer"} /\ UNCHANGED req
        /\ outcome'[w] \in {"issued", "replayed"} =>
              \/ answer'[w] = answer[w]
              \/ /\ answer'[w] = ledger[host[w]][req[w].key]
                 /\ ledger[host[w]][req[w].key] # None
    BY <1>5 DEF Save
  <2>2. ledger[host[w]][req[w].key] \in Decision \cup {None} BY <2>1 DEF Inv, TypeOK
  <2>3. answer[w] \in Decision BY <2>1 DEF Sound
  <2>. QED BY <2>1, <2>2, <2>3
<1>7. CASE Audit(w)
  <2>1. pc[w] = "audit" /\ pc'[w] = "answer" /\ UNCHANGED <<req, answer, outcome>>
    BY <1>7 DEF Audit
  <2>. QED BY <2>1
<1>6. CASE Answer(w) \/ Restart(w)
  <2>1. pc'[w] = "idle" /\ outcome'[w] = "none" BY <1>6 DEF Answer, Restart, Clear
  <2>. QED BY <2>1
<1>. QED BY <1>1, <1>2, <1>3, <1>4, <1>5, <1>6, <1>7 DEF Serve

\* The replacement of a host is a restart to its workers and nothing to the others.
LEMMA HostReplaced ==
    ASSUME TypeOK, NEW h \in Hosts, ReplaceHost(h), NEW v \in Workers
    PROVE  /\ host[v] = h => /\ pc'[v] = "idle" /\ outcome'[v] = "none"
                             /\ config'[v] = settings
           /\ host[v] # h => /\ pc'[v] = pc[v] /\ req'[v] = req[v] /\ seen'[v] = seen[v]
                             /\ answer'[v] = answer[v] /\ outcome'[v] = outcome[v]
                             /\ config'[v] = config[v]
           /\ UNCHANGED settings
BY DEF TypeOK, ReplaceHost

\* Every worker carries what its step needs, and is deployed.
LEMMA WorkersNext ==
    ASSUME Inv, [Next]_vars, NEW v \in Workers
    PROVE  Deployed(v)' /\ Carries(v)'
<1>t. /\ TypeOK /\ settings \in Config /\ config \in [Workers -> Config]
      /\ Deployed(v) /\ Lasting /\ settings' \in Config
  BY LastingNext DEF Inv, TypeOK
<1>k. config[v].signer \in Int /\ settings.signer \in Int /\ settings'.signer \in Int
  BY <1>t DEF Config, Keys
<1>1. ASSUME NEW w \in Workers,
             Serve(w) \/ Restart(w) \/ \E k \in IdemKeys, f \in Inputs : issue(w, k, f)
      PROVE  Deployed(v)' /\ Carries(v)'
  <2>1. UNCHANGED settings /\ config'[v] \in {config[v], settings}
    BY <1>1, <1>t DEF Serve, Lookup, ReadPosture, Sign, Save, Audit, Answer, Restart, issue, deployment
  <2>2. Deployed(v)' BY <2>1, <1>t, <1>k DEF Deployed, Lasting
  <2>3. Carries(v)'
    <3>1. CASE v = w BY <3>1, <1>1, CarriesStep
    <3>2. CASE v # w BY <3>2, <1>1, <1>t, Isolation, CarriesLasts DEF Others
    <3>. QED BY <3>1, <3>2
  <2>. QED BY <2>2, <2>3
<1>2. CASE UNCHANGED <<config, requests>>
  <2>1. Carries(v)' BY <1>2, CarriesLasts DEF requests
  <2>2. config[v].signer =< settings'.signer BY <1>t, <1>k DEF Deployed, Lasting
  <2>3. rolling \/ UNCHANGED settings \/ RestartAll
    BY SettingsStep DEF RotateKey, RevokeKey, NewSettings
  <2>4. RestartAll => config'[v] = settings' BY DEF RestartAll
  <2>. QED BY <1>2, <1>t, <2>1, <2>2, <2>3, <2>4 DEF Deployed, Lasting
<1>3. CASE RestartAll
  <2>1. pc'[v] = "idle" /\ outcome'[v] = "none" /\ config'[v] = settings' BY <1>3 DEF RestartAll
  <2>. QED BY <2>1, <1>k DEF Carries, Deployed
<1>4. ASSUME NEW h \in Hosts, ReplaceHost(h)
      PROVE  Deployed(v)' /\ Carries(v)'
  <2>1. UNCHANGED settings /\ config'[v] \in {config[v], settings} BY <1>4, <1>t, HostReplaced
  <2>2. Deployed(v)' BY <2>1, <1>t, <1>k DEF Deployed, Lasting
  <2>3. CASE host[v] = h
    <3>1. pc'[v] = "idle" /\ outcome'[v] = "none" BY <1>4, <2>3, <1>t, HostReplaced
    <3>. QED BY <3>1, <2>2 DEF Carries
  <2>4. CASE host[v] # h
    <3>1. Carries(v)' BY <1>4, <2>4, <1>t, HostReplaced, CarriesLasts
    <3>. QED BY <3>1, <2>2
  <2>. QED BY <2>3, <2>4
<1>. QED BY <1>1, <1>2, <1>3, <1>4, StepOfWho

\* What is stored was carried by the worker that stored it.
LEMMA LedgerNext ==
    ASSUME Inv, [Next]_vars, NEW h \in Hosts, NEW k \in IdemKeys, ledger'[h][k] # None
    PROVE  Sound(ledger[h][k])'
<1>. PICK d : d = ledger'[h][k] OBVIOUS
<1>1. Sound(d)
  <2>1. CASE ledger'[h][k] = ledger[h][k] BY <2>1 DEF Inv
  <2>2. CASE ledger'[h][k] # ledger[h][k]
    <3>1. PICK w \in Workers : Save(w) /\ ledger'[h][k] = answer[w]
      BY <2>2, EntryStep DEF Inv
    <3>2. Sound(answer[w]) BY <3>1 DEF Inv, Carries, Save
    <3>. QED BY <3>1, <3>2
  <2>. QED BY <2>1, <2>2
<1>2. Sound(d)' BY <1>1, SoundNext
<1>. QED BY <1>2 DEF Sound

\* An answer that was from the ledger stays so: a stored decision is never
\* overwritten, and a host that loses its file loses the requests on it.
LEMMA AnswersNext ==
    ASSUME Inv, [Next]_vars
    PROVE  AnswersFromLedger'
<1>. DEFINE FromLedger(w) == outcome[w] \in {"issued", "replayed"} =>
              /\ answer[w] = ledger[host[w]][req[w].key]
              /\ answer[w].input = req[w].input
              /\ answer[w].input \notin Foreign
<1>t. /\ TypeOK /\ ledger \in [Hosts -> [IdemKeys -> Decision \cup {None}]]
      /\ host \in [Workers -> Hosts] /\ host' = host
      /\ pc \in [Workers -> Steps]
      /\ req \in [Workers -> [key : IdemKeys, input : Inputs] \cup {None}]
      /\ answer \in [Workers -> Decision \cup {None}]
      /\ outcome \in [Workers -> Outcomes]
      /\ \A w \in Workers : Carries(w) /\ FromLedger(w)
  BY HostsNext DEF Inv, TypeOK, AnswersFromLedger
<1>k. ASSUME NEW w \in Workers, outcome[w] # "none" PROVE req[w] \in [key : IdemKeys, input : Inputs]
  BY <1>k, <1>t DEF Carries
<1>1. ASSUME NEW v \in Workers, req'[v] = req[v], answer'[v] = answer[v], outcome'[v] = outcome[v]
      PROVE  FromLedger(v)'
  <2>0. CASE ReplaceHost(host[v])
    <3>1. host[v] \in Hosts /\ outcome'[v] = "none" BY <2>0, <1>t, HostReplaced
    <3>. QED BY <3>1
  <2>1. SUFFICES ASSUME outcome[v] \in {"issued", "replayed"}, ~ReplaceHost(host[v])
                 PROVE  answer[v] = ledger'[host[v]][req[v].key] /\ answer[v].input = req[v].input
                        /\ answer[v].input \notin Foreign
    BY <1>1, <1>t, <2>0
  <2>2. req[v].key \in IdemKeys BY <2>1, <1>k
  <2>3. answer[v] = ledger[host[v]][req[v].key] /\ answer[v].input = req[v].input /\ answer[v].input \notin Foreign
    BY <2>1, <1>t
  <2>4. ledger'[host[v]][req[v].key] = ledger[host[v]][req[v].key] \/ ledger[host[v]][req[v].key] = None
    BY <2>1, <2>2, <1>t, LedgerLasts
  <2>5. ledger[host[v]][req[v].key] # None
    BY <2>1, <2>3, <1>t, DecisionAssumption DEF Carries
  <2>. QED BY <2>3, <2>4, <2>5
<1>2. ASSUME NEW w \in Workers,
             Serve(w) \/ Restart(w) \/ \E k \in IdemKeys, f \in Inputs : issue(w, k, f)
      PROVE  FromLedger(w)'
  <2>. USE <1>t DEF Goto, Finish
  <2>1. CASE \E k \in IdemKeys, f \in Inputs : issue(w, k, f)
    <3>1. pc[w] = "idle" /\ outcome'[w] \in {"signing_key_revoked", "forbidden", outcome[w]}
      BY <2>1 DEF issue
    <3>2. outcome[w] = "none" BY <3>1 DEF Carries
    <3>. QED BY <3>1, <3>2
  <2>2. CASE Lookup(w)
    <3>1. pc[w] = "lookup" /\ outcome[w] = "none" /\ req[w].key \in IdemKeys BY <2>2 DEF Lookup, Carries
    <3>2. /\ UNCHANGED <<req, ledger>>
          /\ \/ outcome'[w] \in {"conflict", outcome[w]}
             \/ /\ answer'[w] = ledger[host[w]][req[w].key] /\ ledger[host[w]][req[w].key] # None
                /\ ledger[host[w]][req[w].key].input = req[w].input
      BY <2>2 DEF Lookup
    <3>3. ledger[host[w]][req[w].key] # None => ledger[host[w]][req[w].key].input \notin Foreign
      BY <3>1 DEF Inv, Sound
    <3>. QED BY <3>1, <3>2, <3>3
  <2>3. CASE ReadPosture(w)
    <3>1. pc[w] = "posture" /\ outcome'[w] \in {"tenant_forbidden", outcome[w]} BY <2>3 DEF ReadPosture
    <3>2. outcome[w] = "none" BY <3>1 DEF Carries
    <3>. QED BY <3>1, <3>2
  <2>4. CASE Sign(w)
    <3>1. pc[w] = "sign" /\ outcome'[w] = outcome[w] BY <2>4 DEF Sign
    <3>2. outcome[w] = "none" BY <3>1 DEF Carries
    <3>. QED BY <3>1, <3>2
  <2>5. CASE Save(w)
    <3>1. pc[w] = "save" BY <2>5 DEF Save
    <3>2. /\ req[w].key \in IdemKeys /\ answer[w].input = req[w].input /\ answer[w].input \notin Foreign
          /\ ledger[host[w]][req[w].key] # None => ledger[host[w]][req[w].key].input \notin Foreign
      BY <3>1 DEF Inv, Carries, Sound
    <3>3. CASE ledger[host[w]][req[w].key] = None
      BY <2>5, <3>2, <3>3 DEF Save
    <3>4. CASE ledger[host[w]][req[w].key] # None
      <4>1. /\ UNCHANGED <<req, ledger>>
            /\ \/ outcome'[w] = "conflict"
               \/ answer'[w] = ledger[host[w]][req[w].key] /\ ledger[host[w]][req[w].key].input = req[w].input
        BY <2>5, <3>4 DEF Save
      <4>. QED BY <4>1, <3>2, <3>4
    <3>. QED BY <3>3, <3>4
  <2>6. CASE Audit(w) BY <2>6, <1>1 DEF Audit
  <2>7. CASE Answer(w) \/ Restart(w)
    <3>1. outcome'[w] = "none" BY <2>7 DEF Answer, Restart, Clear
    <3>. QED BY <3>1
  <2>. QED BY <1>2, <2>1, <2>2, <2>3, <2>4, <2>5, <2>6, <2>7 DEF Serve
<1>3. ASSUME NEW v \in Workers PROVE FromLedger(v)'
  <2>1. ASSUME NEW w \in Workers,
               Serve(w) \/ Restart(w) \/ \E k \in IdemKeys, f \in Inputs : issue(w, k, f)
        PROVE  FromLedger(v)'
    <3>1. CASE v = w BY <3>1, <2>1, <1>2
    <3>2. CASE v # w
      <4>1. req'[v] = req[v] /\ answer'[v] = answer[v] /\ outcome'[v] = outcome[v]
        BY <3>2, <2>1, <1>t, Isolation DEF Others
      <4>. QED BY <4>1, <1>1
    <3>. QED BY <3>1, <3>2
  <2>2. ASSUME UNCHANGED <<config, requests>> PROVE FromLedger(v)'
    <3>1. req'[v] = req[v] /\ answer'[v] = answer[v] /\ outcome'[v] = outcome[v] BY <2>2 DEF requests
    <3>. QED BY <3>1, <1>1
  <2>3. ASSUME RestartAll PROVE FromLedger(v)' BY <2>3 DEF RestartAll
  <2>4. ASSUME NEW h \in Hosts, ReplaceHost(h) PROVE FromLedger(v)'
    <3>1. CASE host[v] = h
      <4>1. outcome'[v] = "none" BY <2>4, <3>1, <1>t, HostReplaced
      <4>. QED BY <4>1
    <3>2. CASE host[v] # h
      <4>1. req'[v] = req[v] /\ answer'[v] = answer[v] /\ outcome'[v] = outcome[v]
        BY <2>4, <3>2, <1>t, HostReplaced
      <4>. QED BY <4>1, <1>1
    <3>. QED BY <3>1, <3>2
  <2>. QED BY <2>1, <2>2, <2>3, <2>4, StepOfWho
<1>. QED BY <1>3 DEF AnswersFromLedger

----------------------------------------------------------------------------
(* The theorems. *)

\* An empty ledger and one key in force.
LEMMA InvInit ==
    ASSUME Init
    PROVE  Inv
<1>k. 1 \in Keys /\ 0 \in Time /\ Unset \in Time \cup {Unset} /\ MaxKey \in Nat
  BY BoundsAssumption DEF Keys, Time
<1>1. FirstConfig \in Config BY <1>k DEF FirstConfig, Config
<1>f. NewFile \in [IdemKeys -> Decision \cup {None}] BY DEF NewFile
<1>2. TypeOK BY <1>1, <1>k, <1>f DEF Init, TypeOK, Purge, Steps, Outcomes
<1>3. Windows BY <1>k DEF Init, Windows, FirstConfig
<1>4. \A w \in Workers : Deployed(w) /\ Carries(w)
  BY <1>k DEF Init, Deployed, Carries, FirstConfig, Keys
<1>5. \A h \in Hosts, k \in IdemKeys : ledger[h][k] = None BY DEF Init, NewFile
<1>6. AnswersFromLedger BY DEF Init, AnswersFromLedger
<1>. QED BY <1>2, <1>3, <1>4, <1>5, <1>6 DEF Inv

\* Every step keeps the invariant.
LEMMA InvNext ==
    ASSUME Inv, [Next]_vars
    PROVE  Inv'
<1>1. Windows' BY LastingNext DEF Inv
<1>2. \A h \in Hosts, k \in IdemKeys : ledger'[h][k] # None => Sound(ledger[h][k])' BY LedgerNext
<1>3. \A w \in Workers : Deployed(w)' /\ Carries(w)' BY WorkersNext
<1>. QED BY <1>1, <1>2, <1>3, TypeNext, AnswersNext DEF Inv

\* Every reachable state satisfies the inductive invariant.
THEOREM InvAlways == Spec => []Inv
<1>1. Init => Inv BY InvInit
<1>2. Inv /\ [Next]_vars => Inv' BY InvNext
<1>. QED BY <1>1, <1>2, PTL DEF Spec

\* Within one ledger file, for as long as its host keeps it, an idempotency key has
\* one decision, and a caller served by that host is answered with it, for the
\* input it sent and its own tenant (issue, replay and the lost insertion race).
THEOREM AnswersFromLedgerAlways == Spec => []AnswersFromLedger
<1>1. Inv => AnswersFromLedger BY DEF Inv
<1>. QED BY <1>1, InvAlways, PTL

\* A stored decision says "DISPOSAL_EXECUTED" only of a document whose destruction
\* has begun (posture read, signed and stored in three steps).
THEOREM DisposalIsRealAlways == Spec => []DisposalIsReal
<1>1. Inv => DisposalIsReal BY DEF Inv, DisposalIsReal, Issued, Sound
<1>. QED BY <1>1, InvAlways, PTL

\* A stored decision verifies against the published keys however often the signing
\* key was rotated, unless its key was revoked or a worker signed that had not been
\* replaced yet.
THEOREM DecisionsVerifyAlways == Spec => []DecisionsVerify
<1>1. ASSUME Inv PROVE DecisionsVerify
  <2>1. SUFFICES ASSUME NEW d, Sound(d)
                 PROVE  LET verdict == Verdict(settings, d, d.issued_at)
                        IN  \/ verdict \in {"verified", "key_revoked"}
                            \/ /\ rolling /\ verdict = "key_window"
                               /\ d.issued_at >= settings.not_after[d.key]
    BY <1>1 DEF Inv, DecisionsVerify, Issued
  <2>2. /\ d.key \in Int /\ settings.signer \in Int /\ d.issued_at \in Int /\ TTL \in Int /\ TTL > 0
        /\ settings.not_after[d.key] \in Int
    BY <1>1, <2>1, BoundsAssumption DEF Inv, TypeOK, Config, Sound, Decision, Keys, Time, Unset
  <2>3. ~(d.key > settings.signer) /\ ~(d.issued_at >= d.issued_at + TTL) BY <2>1, <2>2 DEF Sound
  <2>4. CASE InWindow(settings, d) BY <2>3, <2>4 DEF Verdict
  <2>5. CASE ~InWindow(settings, d)
    <3>1. rolling /\ d.issued_at >= settings.not_after[d.key] BY <2>1, <2>2, <2>5 DEF InWindow, Sound
    <3>. QED BY <3>1, <2>3, <2>5 DEF Verdict
  <2>. QED BY <2>4, <2>5
<1>. QED BY <1>1, InvAlways, PTL

\* No decision enters the ledger under a key the operator has revoked by then, but
\* from a worker that was not replaced since.
THEOREM RevokedKeySignsNothingAlways == Spec => RevokedKeySignsNothing
<1>1. ASSUME Inv, [Next]_vars, NEW h \in Hosts, NEW k \in IdemKeys,
             ledger'[h][k] \notin {ledger[h][k], None}
      PROVE  \/ ledger'[h][k].key \notin settings.revoked
             \/ rolling /\ \E w \in Workers : config[w] # settings /\ answer[w] = ledger'[h][k]
  <2>1. PICK w \in Workers : Save(w) /\ ledger'[h][k] = answer[w]
    BY <1>1, EntryStep DEF Inv
  <2>2. /\ MaySign(config[w]) /\ answer[w].key = config[w].signer
        /\ rolling \/ config[w] = settings
    BY <1>1, <2>1 DEF Inv, Carries, Deployed, Save
  <2>. QED BY <2>1, <2>2 DEF MaySign
<1>2. Inv /\ [Next]_vars =>
        [\A h \in Hosts, k \in IdemKeys : ledger'[h][k] \notin {ledger[h][k], None} =>
            \/ ledger'[h][k].key \notin settings.revoked
            \/ rolling /\ \E w \in Workers : config[w] # settings /\ answer[w] = ledger'[h][k]]_vars
  BY <1>1
<1>. QED BY <1>2, InvAlways, PTL DEF Spec, RevokedKeySignsNothing
====
