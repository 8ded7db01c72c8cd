----------------------------- MODULE PosSession -----------------------------
(***************************************************************************)
(* The session of one POS tab: sign-in, Quick Lock and unlock, the signed  *)
(* offline authorization it caches, the trusted clock that stamps offline  *)
(* facts, the sync loop that sends them, sign-out, and the recovery an     *)
(* Owner approves when the device lost its authority                       *)
(* (apps/pos/src/runtime: PosRuntimeProvider.tsx, storage.ts,              *)
(* trusted-clock.ts, recovery.ts; apps/api/src: auth.ts, sync.ts,          *)
(* index.ts).                                                              *)
(*                                                                         *)
(* Every await of the runtime is a point between two actions: a request    *)
(* under way is a record in connects, syncing or leaving, and what its     *)
(* handler captured before the await is a field of that record.            *)
(*                                                                         *)
(* One device, one terminal, one business.  A session stands for its       *)
(* secret.  A grant is the signed snapshot of a session's authority; its   *)
(* signature always verifies, as does the bootstrap that carries it, and   *)
(* no two grants are issued in the same millisecond.  The device's clock   *)
(* is not a variable: each reading is any member of Readings.  The trusted *)
(* clock uses readings only relative to the one taken with the grant, so   *)
(* that an instance may fix that one (BootReadings).                       *)
(***************************************************************************)
EXTENDS Integers, Sequences, FiniteSets

CONSTANTS Users, None,
          Readings,        \* what the device clock may show
          BootReadings,    \* what it may show when a bootstrap arrives
          Tolerance,       \* CLOCK_ROLLBACK_TOLERANCE_MS
          Lifetime,        \* how long a session lives
          MaxTime, MaxSessions, MaxFacts, MaxLosses   \* bounds of the model

VARIABLES
  now,               \* server time
  sessions,          \* identity.sessions
  device,            \* identity.devices.status of this device
  inactive,          \* users whose membership was deactivated
  bearer,            \* sessionStorage: the session in use, 0 for none
  cache,             \* localStorage: CachedPosSession or None
  facts,             \* the outbox and what the server booked for each row
  status, operational, recoveryRequired,   \* React state of the provider
  runtime,           \* syncRuntimeRef holds a sync runtime
  connects,          \* connect and unlock calls under way
  syncing,           \* the runSync under way, or None
  leaving,           \* signOut past its outbox check: facts seen + 1
  dropped            \* history: the cache was removed in one of two races

server  == <<now, sessions, device, inactive>>
memory  == <<status, operational, recoveryRequired, runtime>>
pending == <<connects, syncing, leaving>>
vars    == <<server, bearer, cache, facts, memory, pending, dropped>>

Statuses == {"INITIALIZING", "SIGNED_OUT", "CONNECTING", "READY", "LOCKED",
             "ERROR"}
Times      == 0..(MaxTime + Lifetime)
Verdicts   == {"PENDING", "ACCEPTED", "AUTHORITY", "UNBOUND", "MISMATCH"}

(* What verifyOfflineOperationalContext takes for a grant: issued before   *)
(* it ends.  That signature and context match is taken for granted.        *)
Grants == {g \in [session : 1..MaxSessions, issued : Times, until : Times] :
             g.issued < g.until}

(* What readCachedSession takes for a cached session, and refuses else.    *)
CachedSession ==
  [access : {"ACTIVE", "RECOVERY_ONLY"},
   cause : {"NONE", "AUTHORITY_REVOKED", "CLOCK_UNTRUSTED"},
   grant : Grants, verifier : 1..MaxSessions,
   refLocal : Readings, lastLocal : Readings, lastEstimate : Times]

(* A connect or unlock call, and a runSync, under way.                     *)
Connect == [step : {"LOGIN", "AUTH", "BOOTSTRAP", "CACHE"}, bearer : 0..MaxSessions,
            cached : CachedSession \cup {None}, grant : Grants \cup {None}]
SyncRun == [step : {"PUSH", "BOOTSTRAP", "CACHE"}, branch : {"NONE", "PROTOCOL", "PROJECTION"},
            grant : Grants \cup {None}, rows : SUBSET Nat]

ASSUME SessionAssumption ==
  /\ BootReadings \subseteq Readings /\ Readings \subseteq Nat
  /\ Tolerance \in Nat /\ Lifetime \in Nat \ {0}
  /\ MaxTime \in Nat /\ MaxSessions \in Nat
  /\ MaxFacts \in Nat /\ MaxLosses \in Nat
  /\ None \notin CachedSession \cup Grants \cup SyncRun

Init ==
  /\ now = 0 /\ sessions = <<>> /\ device = "ACTIVE" /\ inactive = {}
  /\ bearer = 0 /\ cache = None /\ facts = <<>>
  /\ status = "INITIALIZING" /\ operational = None
  /\ recoveryRequired = FALSE /\ runtime = FALSE
  /\ connects = {} /\ syncing = None /\ leaving = 0
  /\ dropped = FALSE

-----------------------------------------------------------------------------
(* The server.                                                             *)

(* The session is known, not over, and of an active member.                *)
Live(s) ==
  /\ ~sessions[s].revoked /\ now < sessions[s].expires
  /\ sessions[s].user \notin inactive

(* authenticateRequest lets a request of the POS in: the session must also *)
(* be bound to the device, and the device not revoked.                     *)
Authenticated(s) == Live(s) /\ sessions[s].bound /\ device = "ACTIVE"

(* The refusal is one the POS takes for a loss of authority.  A live       *)
(* session not yet bound meets DEVICE_BINDING_REQUIRED, which is none.     *)
LostAuthority(s) ==
  ~Live(s) \/ (sessions[s].bound /\ device # "ACTIVE")

(* login: a password accepted creates a session of its own, every time,    *)
(* bound to no device.                                                     *)
LoggedIn(u) ==
  Append(sessions, [user |-> u, expires |-> now + Lifetime,
                    revoked |-> FALSE, bound |-> FALSE])

(* revokeCurrentSession.                                                   *)
Revoked(s) == [sessions EXCEPT ![s] = [@ EXCEPT !.revoked = TRUE]]

(* The authority a session may use offline ends with the session.          *)
OfflineValidUntil(s) == sessions[s].expires

(* issueOfflineAuthorizationGrant for the session of the request.          *)
Issued(s) == [session |-> s, issued |-> now, until |-> OfflineValidUntil(s)]

(* Faulty: the grant of any session of the same user passes.               *)
ContextForOfflineGrantOfUser(grant, s) ==
  sessions[grant.session].user = sessions[s].user

(* contextForOfflineGrant: the grant must belong to the very session that  *)
(* carries the request (session_id, user, device, terminal, expiry).       *)
ContextForOfflineGrant(grant, s) == grant.session = s

(* commandAuthorizationContext: the time of the fact lies in the grant.    *)
InScope(fact) == fact.grant.issued <= fact.at /\ fact.at <= fact.grant.until

(* What push answers to one fact sent with session s, and the session it   *)
(* books the fact under.                                                   *)
Verdict(fact, s) ==
  IF LostAuthority(s) THEN "AUTHORITY"
  ELSE IF ~Authenticated(s) THEN "UNBOUND"
  ELSE IF ContextForOfflineGrant(fact.grant, s) /\ InScope(fact)
       THEN "ACCEPTED" ELSE "MISMATCH"

(* authenticateRecoveryRequest: an approved fact keeps the session of its  *)
(* own grant, even one revoked or over, and is not refused for it.         *)
RecoveryContext(fact) == fact.grant.session

(* routeRecoveryPush of one fact.                                          *)
Recovered(fact) ==
  [fact EXCEPT !.state = "ACCEPTED",
               !.booked = IF @ = 0 THEN RecoveryContext(fact) ELSE @]

Tick ==
  /\ now < MaxTime
  /\ now' = now + 1
  /\ UNCHANGED <<sessions, device, inactive, bearer, cache, facts, memory,
                 pending, dropped>>

(* How often the device or a user has lost its authority so far.           *)
Losses == Cardinality(inactive) + (IF device = "REVOKED" THEN 1 ELSE 0)

RevokeDevice ==
  /\ device = "ACTIVE" /\ Losses < MaxLosses
  /\ device' = "REVOKED"
  /\ UNCHANGED <<now, sessions, inactive, bearer, cache, facts, memory,
                 pending, dropped>>

DeactivateMember(u) ==
  /\ u \notin inactive /\ Losses < MaxLosses
  /\ inactive' = inactive \cup {u}
  /\ UNCHANGED <<now, sessions, device, bearer, cache, facts, memory,
                 pending, dropped>>

-----------------------------------------------------------------------------
(* The cached session and its trusted clock (storage.ts, trusted-clock.ts).*)

Greater(a, b) == IF a >= b THEN a ELSE b

(* cacheOperationalSession: a fresh grant, bound to the bearer at hand,    *)
(* with a clock that starts at the grant and at the reading.               *)
Fresh(grant, secret, local) ==
  [access |-> "ACTIVE", cause |-> "NONE", grant |-> grant,
   verifier |-> secret, refLocal |-> local, lastLocal |-> local,
   lastEstimate |-> grant.issued]

MarkedRecoveryOnly(c, cause) ==
  [c EXCEPT !.access = "RECOVERY_ONLY", !.cause = cause]

(* The clock was set back, against the grant or against the last reading,  *)
(* by more than the tolerance.                                             *)
RolledBack(c, local) ==
  local < c.refLocal - Tolerance \/ local < c.lastLocal - Tolerance

(* Faulty: the last time given out is forgotten.                           *)
EstimateFromReference(c, local) ==
  Greater(c.grant.issued, c.grant.issued + (local - c.refLocal))

(* The server time the device believes in: never before the grant and      *)
(* never before what it gave out last.                                     *)
Estimate(c, local) ==
  Greater(Greater(c.grant.issued, c.lastEstimate),
          c.grant.issued + (local - c.refLocal))

(* advanceTrustedOfflineClock does not throw.                              *)
Advances(c, local) ==
  ~RolledBack(c, local) /\ Estimate(c, local) <= c.grant.until

Advanced(c, local) ==
  [c EXCEPT !.lastLocal = local, !.lastEstimate = Estimate(c, local)]

(* assertCachedCredential: the verifier of the cache was made from the     *)
(* secret of one session.                                                  *)
CredentialMatches(c, secret) == secret = c.verifier

(* validateCachedSession: only an ACTIVE cache whose clock advances.       *)
Valid(c, local) == c.access = "ACTIVE" /\ Advances(c, local)

-----------------------------------------------------------------------------
(* The outbox.                                                             *)

Unresolved(fs) == {i \in DOMAIN fs : fs[i].state # "ACCEPTED"}

(* Faulty: rows under review no longer count.                              *)
CanDiscardReviewed(fs) == \A i \in DOMAIN fs : fs[i].state # "PENDING"

CanDiscardHistoricalCredential(fs) == Unresolved(fs) = {}

(* The rows authorizeRecoveryRetry puts back: authority verdicts only.     *)
Reopened(fs) ==
  [i \in DOMAIN fs |->
     IF fs[i].state = "AUTHORITY" THEN [fs[i] EXCEPT !.state = "PENDING"]
     ELSE fs[i]]

-----------------------------------------------------------------------------
(* Locking: what every lock does to the runtime.                           *)

(* Faulty: the secret of the session stays in the tab.                     *)
LockKeepsBearer ==
  /\ status' = "LOCKED" /\ runtime' = FALSE /\ bearer' = bearer

Lock ==
  /\ status' = "LOCKED" /\ runtime' = FALSE /\ bearer' = 0

QuickLock ==
  /\ status = "READY"
  /\ Lock
  /\ UNCHANGED <<server, cache, facts, operational, recoveryRequired, pending,
                 dropped>>

(* lockWhenExpired: the timer reads the plain device clock.                *)
ExpiryLock ==
  /\ status = "READY" /\ operational # None
  /\ \E local \in Readings : local >= operational.until
  /\ Lock
  /\ UNCHANGED <<server, cache, facts, operational, recoveryRequired, pending,
                 dropped>>

(* The page is loaded again: memory and requests are gone; the secret      *)
(* survives a reload of the tab and not a new tab.                         *)
Reload ==
  /\ bearer' \in {bearer, 0}
  /\ status' = "INITIALIZING" /\ operational' = None
  /\ recoveryRequired' = FALSE /\ runtime' = FALSE
  /\ connects' = {} /\ syncing' = None /\ leaving' = 0
  /\ UNCHANGED <<server, cache, facts, dropped>>

(* connect starts: it keeps the secret in the tab before it is tested, and *)
(* the cache as it was read now.                                           *)
Connecting(s, cached) ==
  /\ status' = "CONNECTING" /\ bearer' = s
  /\ connects' = {[step |-> "AUTH", bearer |-> s, cached |-> cached,
                   grant |-> None]}

(* The startup effect.                                                     *)
Initialize ==
  /\ status = "INITIALIZING" /\ connects = {}
  /\ \/ /\ cache = None
        /\ status' = "SIGNED_OUT"
        /\ UNCHANGED <<bearer, cache, operational, recoveryRequired, connects>>
     \/ /\ cache # None
        /\ \E local \in Readings :
             LET opens == cache.access = "RECOVERY_ONLY" \/ Valid(cache, local)
                 read  == IF cache.access = "ACTIVE"
                            THEN Advanced(cache, local) ELSE cache
             IN  IF opens
                   THEN /\ cache' = read
                        /\ operational' = cache.grant
                        /\ recoveryRequired' = (cache.cause = "AUTHORITY_REVOKED")
                        /\ IF bearer # 0
                             THEN Connecting(bearer, read)
                             ELSE /\ status' = "LOCKED"
                                  /\ UNCHANGED <<bearer, connects>>
                   ELSE /\ status' = "ERROR"
                        /\ UNCHANGED <<bearer, cache, operational,
                                       recoveryRequired, connects>>
  /\ UNCHANGED <<server, facts, runtime, syncing, leaving, dropped>>

-----------------------------------------------------------------------------
(* Sign-in and unlock.  One call at a time: the forms are disabled while a *)
(* call runs.                                                              *)

(* The sign-in page, shown while nothing is loaded: login, then connect.   *)
SignIn(u) ==
  /\ operational = None /\ status \in {"SIGNED_OUT", "ERROR"}
  /\ connects = {}
  /\ Len(sessions) < MaxSessions /\ u \notin inactive
  /\ sessions' = LoggedIn(u)
  /\ Connecting(Len(sessions) + 1, cache)
  /\ UNCHANGED <<now, device, inactive, cache, facts, operational,
                 recoveryRequired, runtime, syncing, leaving, dropped>>

(* The lock screen: unlock keeps the cache it read and asks the server.    *)
Unlock ==
  /\ operational # None /\ status \in {"LOCKED", "ERROR"}
  /\ ~recoveryRequired /\ connects = {}
  /\ status' = "CONNECTING"
  /\ connects' = {[step |-> "LOGIN", bearer |-> 0, cached |-> cache,
                   grant |-> operational]}
  /\ UNCHANGED <<server, bearer, cache, facts, operational, recoveryRequired,
                 runtime, syncing, leaving, dropped>>

(* The password is right: a new session of the same user, then connect.    *)
UnlockLogin(c) ==
  /\ c.step = "LOGIN"
  /\ LET u == sessions[c.grant.session].user
     IN  /\ Len(sessions) < MaxSessions /\ u \notin inactive
         /\ sessions' = LoggedIn(u)
  /\ Connecting(Len(sessions) + 1, cache)
  /\ UNCHANGED <<now, device, inactive, cache, facts, operational,
                 recoveryRequired, runtime, syncing, leaving, dropped>>

(* The server refuses, or it is out of reach and the cache is tried: the   *)
(* clock advances, but the verifier was made from the session secret and   *)
(* no password matches it.                                                 *)
UnlockFails(c) ==
  /\ c.step = "LOGIN"
  /\ \/ cache' = cache
     \/ /\ c.cached # None
        /\ \E local \in Readings :
             /\ Valid(c.cached, local)
             /\ cache' = Advanced(c.cached, local)
  /\ status' = "LOCKED" /\ connects' = {}
  /\ UNCHANGED <<server, bearer, facts, operational, recoveryRequired,
                 runtime, syncing, leaving, dropped>>

-----------------------------------------------------------------------------
(* connect.                                                                *)

(* DEVICE_BINDING_REQUIRED: enrollDevice binds the session to the device,  *)
(* unless the device is revoked, and the context is asked for again.       *)
EnrollDevice(c) ==
  /\ c.step = "AUTH" /\ Live(c.bearer) /\ ~sessions[c.bearer].bound
  /\ device = "ACTIVE"
  /\ sessions' = [sessions EXCEPT ![c.bearer] = [@ EXCEPT !.bound = TRUE]]
  /\ UNCHANGED <<now, device, inactive, bearer, cache, facts, memory, pending,
                 dropped>>

(* fetchAuthContext.                                                       *)
ConnectAuth(c) ==
  /\ c.step = "AUTH" /\ Authenticated(c.bearer)
  /\ connects' = {[c EXCEPT !.step = "BOOTSTRAP"]}
  /\ UNCHANGED <<server, bearer, cache, facts, memory, syncing, leaving,
                 dropped>>

(* The bootstrap request takes the secret the tab holds now.               *)
ConnectBootstrap(c) ==
  /\ c.step = "BOOTSTRAP" /\ bearer # 0
  /\ Authenticated(bearer) /\ now < MaxTime
  /\ connects' = {[c EXCEPT !.step = "CACHE", !.grant = Issued(bearer)]}
  /\ now' = now + 1
  /\ UNCHANGED <<sessions, device, inactive, bearer, cache, facts, memory,
                 syncing, leaving, dropped>>

ConnectReady(c) ==
  /\ c.step = "CACHE"
  /\ \E local \in BootReadings : cache' = Fresh(c.grant, c.bearer, local)
  /\ operational' = c.grant /\ status' = "READY"
  /\ recoveryRequired' = FALSE /\ runtime' = TRUE
  /\ connects' = {}
  /\ UNCHANGED <<server, bearer, facts, syncing, leaving, dropped>>

(* The server refuses the session: with a cache, the device keeps it for   *)
(* recovery only, and forgets it at once when no fact needs it.            *)
ConnectRevoked(c) ==
  /\ c.step = "AUTH" /\ (~Live(c.bearer) \/ device # "ACTIVE")
  /\ bearer' = 0 /\ connects' = {}
  /\ IF c.cached = None
       THEN /\ status' = "ERROR"
            /\ UNCHANGED <<cache, operational, recoveryRequired, runtime>>
       ELSE /\ runtime' = FALSE
            /\ IF /\ CredentialMatches(c.cached, c.bearer)
                  /\ CanDiscardHistoricalCredential(facts)
                 THEN /\ cache' = None /\ operational' = None
                      /\ recoveryRequired' = FALSE
                      /\ status' = "SIGNED_OUT"
                 ELSE /\ cache' = MarkedRecoveryOnly(c.cached,
                                                     "AUTHORITY_REVOKED")
                      /\ recoveryRequired' = TRUE
                      /\ status' = "LOCKED"
                      /\ operational' = IF CredentialMatches(c.cached, c.bearer)
                                          THEN c.cached.grant ELSE operational
  /\ UNCHANGED <<server, facts, syncing, leaving, dropped>>

(* No answer: with a valid cache of the same secret the POS opens offline. *)
ConnectOffline(c) ==
  /\ c.step \in {"AUTH", "BOOTSTRAP"} /\ c.cached # None
  /\ \E local \in Readings :
       /\ Valid(c.cached, local)
       /\ cache' = Advanced(c.cached, local)
  /\ IF CredentialMatches(c.cached, c.bearer)
       THEN /\ operational' = c.cached.grant /\ runtime' = TRUE
            /\ status' = "READY"
            /\ UNCHANGED bearer
       ELSE /\ bearer' = 0 /\ status' = "ERROR"
            /\ UNCHANGED <<operational, runtime>>
  /\ connects' = {}
  /\ UNCHANGED <<server, facts, recoveryRequired, syncing, leaving, dropped>>

(* No answer and no usable cache, or an error of another kind.             *)
ConnectFails(c) ==
  /\ c.step # "LOGIN"
  /\ bearer' = 0 /\ status' = "ERROR" /\ connects' = {}
  /\ UNCHANGED <<server, cache, facts, operational, recoveryRequired,
                 runtime, syncing, leaving, dropped>>

-----------------------------------------------------------------------------
(* An offline fact: getOperationTimestamp reads the clock of the cache,    *)
(* the local command checks the time against the loaded grant and stores   *)
(* that grant with the fact.                                               *)

WithinLoadedGrant(at) == operational.issued <= at /\ at <= operational.until

RecordFact(local) ==
  /\ status = "READY" /\ operational # None /\ Len(facts) < MaxFacts
  /\ cache # None /\ Valid(cache, local)
  /\ cache' = Advanced(cache, local)
  /\ facts' = IF WithinLoadedGrant(Estimate(cache, local))
                THEN Append(facts, [grant |-> operational,
                                    at |-> Estimate(cache, local),
                                    state |-> "PENDING", booked |-> 0])
                ELSE facts
  /\ UNCHANGED <<server, bearer, memory, pending, dropped>>

(* The clock is not trusted or the grant is over: the cache is kept for    *)
(* recovery and the POS locks.                                             *)
RefuseFact(local) ==
  /\ status = "READY" /\ operational # None
  /\ cache = None \/ ~Valid(cache, local)
  /\ cache' = IF cache # None /\ cache.access = "ACTIVE"
                THEN MarkedRecoveryOnly(cache, "CLOCK_UNTRUSTED") ELSE cache
  /\ Lock
  /\ UNCHANGED <<server, facts, operational, recoveryRequired, pending,
                 dropped>>

-----------------------------------------------------------------------------
(* runSync.                                                                *)

(* A run claims the rows that wait and pushes them in order.               *)
RunSync ==
  /\ runtime /\ operational # None /\ status = "READY" /\ syncing = None
  /\ syncing' = [step |-> "PUSH", branch |-> "NONE", grant |-> None,
                 rows |-> {i \in DOMAIN facts : facts[i].state = "PENDING"}]
  /\ UNCHANGED <<server, bearer, cache, facts, memory, connects, leaving,
                 dropped>>

(* One command per request, sent with the secret the tab holds then.  The  *)
(* reply may be lost: the server has booked the fact and the row waits.    *)
(* Without a secret nothing is sent, and a row settled since is left alone.*)
PushFact ==
  /\ syncing # None /\ syncing.step = "PUSH"
  /\ \E i \in syncing.rows :
       /\ \A j \in syncing.rows : i <= j
       /\ IF bearer = 0 \/ facts[i].state # "PENDING" THEN facts' = facts
          ELSE LET v == Verdict(facts[i], bearer)
                   booked == IF v = "ACCEPTED" /\ facts[i].booked = 0
                               THEN bearer ELSE facts[i].booked
               IN  \E heard \in {v, "PENDING"} :
                     facts' = [facts EXCEPT ![i] =
                                 [@ EXCEPT !.booked = booked,
                                           !.state = heard]]
       /\ syncing' = [syncing EXCEPT !.rows = @ \ {i}]
  /\ UNCHANGED <<server, bearer, cache, memory, connects, leaving, dropped>>

(* The pull ends the run, or asks for a bootstrap: its page broke the      *)
(* protocol, or it held a row the device cannot project.                   *)
PullEnds ==
  /\ syncing # None /\ syncing.step = "PUSH" /\ syncing.rows = {}
  /\ syncing' \in {None} \cup
       {[syncing EXCEPT !.step = "BOOTSTRAP", !.branch = b] :
          b \in {"PROTOCOL", "PROJECTION"}}
  /\ UNCHANGED <<server, bearer, cache, facts, memory, connects, leaving,
                 dropped>>

SyncBootstrap ==
  /\ syncing # None /\ syncing.step = "BOOTSTRAP"
  /\ bearer # 0 /\ Authenticated(bearer) /\ now < MaxTime
  /\ syncing' = [syncing EXCEPT !.step = "CACHE", !.grant = Issued(bearer)]
  /\ now' = now + 1
  /\ UNCHANGED <<sessions, device, inactive, bearer, cache, facts, memory,
                 connects, leaving, dropped>>

SyncBootstrapFails ==
  /\ syncing # None /\ syncing.step = "BOOTSTRAP"
  /\ syncing' = None
  /\ UNCHANGED <<server, bearer, cache, facts, memory, connects, leaving,
                 dropped>>

(* The bootstrap is stored and the cache renewed with the secret the tab   *)
(* holds now.  Locked in the meantime, the two branches differ: after a    *)
(* protocol error the cache stays, after a projection error it is removed. *)
SyncReady ==
  /\ syncing # None /\ syncing.step = "CACHE"
  /\ IF bearer # 0
       THEN /\ \E local \in BootReadings :
                 cache' = Fresh(syncing.grant, bearer, local)
            /\ UNCHANGED dropped
       ELSE IF syncing.branch = "PROTOCOL" THEN UNCHANGED <<cache, dropped>>
       ELSE /\ cache' = None /\ dropped' = TRUE
  /\ operational' = syncing.grant /\ syncing' = None
  /\ UNCHANGED <<server, bearer, facts, status, recoveryRequired, runtime,
                 connects, leaving>>

-----------------------------------------------------------------------------
(* Sign-out, offered on the lock screen.                                   *)

SignOutCheck ==
  /\ operational # None /\ status # "READY" /\ leaving = 0
  /\ CanDiscardHistoricalCredential(facts)
  /\ leaving' = Len(facts) + 1
  /\ UNCHANGED <<server, bearer, cache, facts, memory, connects, syncing,
                 dropped>>

(* The session is revoked on the server if the request arrives.            *)
SignOut ==
  /\ leaving # 0
  /\ sessions' \in {sessions} \cup
       (IF bearer = 0 THEN {}
        ELSE {Revoked(bearer)})
  /\ bearer' = 0 /\ cache' = None
  /\ status' = "SIGNED_OUT" /\ operational' = None
  /\ recoveryRequired' = FALSE /\ runtime' = FALSE
  /\ leaving' = 0
  /\ dropped' = (dropped \/ Len(facts) >= leaving)
  /\ UNCHANGED <<now, device, inactive, facts, connects, syncing>>

(* drainRecoveryOutbox: the facts that wait are pushed in order until the  *)
(* connection fails, after row n, or nothing is left.                      *)
Drained(fs, n) ==
  [i \in DOMAIN fs |->
     IF i <= n /\ fs[i].state = "PENDING" /\ InScope(fs[i])
       THEN Recovered(fs[i]) ELSE fs[i]]

(* recoverOutbox with the approval of an Owner: rows refused for lack of   *)
(* authority are reopened and the outbox is drained; the proof is removed  *)
(* once nothing needs it.                                                  *)
RecoverOutbox(n) ==
  /\ recoveryRequired /\ operational # None
  /\ status \in {"LOCKED", "ERROR"}
  /\ cache # None /\ cache.access = "RECOVERY_ONLY"
  /\ cache.cause = "AUTHORITY_REVOKED"
  /\ LET after == Drained(Reopened(facts), n)
     IN  /\ facts' = after
         /\ IF CanDiscardHistoricalCredential(after)
              THEN /\ bearer' = 0 /\ cache' = None /\ operational' = None
                   /\ recoveryRequired' = FALSE /\ runtime' = FALSE
                   /\ status' = "SIGNED_OUT"
              ELSE /\ status' = "LOCKED"
                   /\ UNCHANGED <<bearer, cache, operational,
                                  recoveryRequired, runtime>>
  /\ UNCHANGED <<server, pending, dropped>>

-----------------------------------------------------------------------------
Next ==
  \/ Tick \/ RevokeDevice \/ \E u \in Users : DeactivateMember(u)
  \/ Reload \/ Initialize
  \/ \E u \in Users : SignIn(u)
  \/ Unlock \/ QuickLock \/ ExpiryLock
  \/ \E c \in connects :
       \/ UnlockLogin(c) \/ UnlockFails(c)
       \/ EnrollDevice(c) \/ ConnectAuth(c)
       \/ ConnectBootstrap(c) \/ ConnectReady(c)
       \/ ConnectRevoked(c) \/ ConnectOffline(c) \/ ConnectFails(c)
  \/ \E local \in Readings : RecordFact(local) \/ RefuseFact(local)
  \/ RunSync \/ PushFact \/ PullEnds
  \/ SyncBootstrap \/ SyncBootstrapFails \/ SyncReady
  \/ SignOutCheck \/ SignOut
  \/ \E n \in 0..MaxFacts : RecoverOutbox(n)

Spec == Init /\ [][Next]_vars

-----------------------------------------------------------------------------
Session == [user : Users, expires : Times, revoked : BOOLEAN, bound : BOOLEAN]
Fact == [grant : Grants, at : Times, state : Verdicts, booked : 0..MaxSessions]

TypeOK ==
  /\ now \in 0..MaxTime /\ device \in {"ACTIVE", "REVOKED"}
  /\ inactive \subseteq Users
  /\ sessions \in Seq(Session) /\ Len(sessions) <= MaxSessions
  /\ bearer \in 0..Len(sessions)
  /\ cache \in CachedSession \cup {None}
  /\ facts \in Seq(Fact) /\ Len(facts) <= MaxFacts
  /\ status \in Statuses /\ operational \in Grants \cup {None}
  /\ recoveryRequired \in BOOLEAN /\ runtime \in BOOLEAN
  /\ connects \subseteq Connect /\ \A c, d \in connects : c = d
  /\ syncing \in SyncRun \cup {None}
  /\ leaving \in 0..(MaxFacts + 1) /\ dropped \in BOOLEAN

(* The offline proof of authority, which the recovery of a fact needs, is  *)
(* never removed while a fact is not safe on the server, whatever locks,   *)
(* reloads, revocations, sign-outs and late replies come in between.  Two  *)
(* known races are set apart by dropped: a projection bootstrap that ends  *)
(* after a lock (PosRuntimeProvider.tsx:909), and a fact recorded between  *)
(* the outbox check of signOut and its end.                                *)
FactsKeepCredential == Unresolved(facts) # {} /\ ~dropped => cache # None

(* The times of facts lie inside the grant each carries, where the server  *)
(* will look for them, and facts of one grant are stamped in the order     *)
(* they were recorded, however the device clock is set between them.       *)
StampsInOrder ==
  /\ \A i \in DOMAIN facts : InScope(facts[i])
  /\ \A i, j \in DOMAIN facts :
       i < j /\ facts[i].grant = facts[j].grant => facts[i].at <= facts[j].at

(* The server books a fact under the session it was recorded in, whoever   *)
(* is signed in when it is sent and whoever approves its recovery.         *)
ActorKept ==
  \A i \in DOMAIN facts :
    facts[i].booked # 0 => facts[i].booked = facts[i].grant.session

(* A locked POS holds no session secret, so nothing still running can send *)
(* a request in the name of the cashier.                                   *)
LockedHoldsNoBearer == status = "LOCKED" => bearer = 0

(* What the troubleshooting guide says of a pending fact ("Reconnect and   *)
(* sync") and the sign-out message of Quick Lock: a fact sent by whichever *)
(* session of its cashier reconnects is not refused for good because that  *)
(* session is another one than the session of its grant.                   *)
NoFactStranded == \A i \in DOMAIN facts : facts[i].state # "MISMATCH"
=============================================================================
