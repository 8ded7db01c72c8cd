------------------------------ MODULE SyncPush ------------------------------
(***************************************************************************)
(* How a business command recorded offline on a POS device reaches the     *)
(* server: the outbox table of IndexedDB (packages/local-db/sync-store),   *)
(* the push run of the sync orchestrator (packages/sync-client), executed  *)
(* by every browser tab of the device, an unreliable HTTP channel, and the *)
(* idempotent execution of the command by the API worker in one PostgreSQL *)
(* transaction (apps/api/sync, command-support).                           *)
(*                                                                         *)
(* Time is relative: a lease and a backoff are the number of ticks left.   *)
(***************************************************************************)
EXTENDS Integers, FiniteSets, RetryPolicy

CONSTANTS
  Commands,      \* commands the device may record
  NoCommand,     \* the command of a free request slot
  Tabs,          \* browser tabs, each running a sync orchestrator
  Requests,      \* slots for HTTP requests that exist at the same time
  NoRequest,     \* a tab that awaits no response
  Requires,      \* Requires[c]: commands c depends on (its cash.shift.open)
  Aggregate,     \* Aggregate[c]: the local record that c reports; opening and
                 \* closing a shift report the same one
  Granted,       \* commands that carry a signed offline authorization
  OutOfScope,    \* those whose grant does not cover them (time, location)
  Foreign,       \* commands recorded under another device identity
  ClaimLimit,    \* pushClaimLimit: rows one claim takes
  Lease,         \* claimLeaseMs, in ticks
  AttemptCap,    \* attempt_count saturates here: the delay no longer grows
  BackoffDelay   \* BackoffDelay[n]: ticks to wait after the n-th attempt

ASSUME SyncPushAssumption ==
  /\ IsFiniteSet(Commands)
  /\ NoCommand \notin Commands
  /\ NoRequest \notin Requests
  /\ Requires \in [Commands -> SUBSET Commands]
  /\ Aggregate \in [Commands -> Commands]
  /\ Granted \subseteq Commands
  /\ OutOfScope \subseteq Granted
  /\ Foreign \subseteq Commands
  /\ ClaimLimit \in Nat \ {0}
  /\ Lease \in Nat \ {0}
  /\ AttemptCap \in Nat \ {0}
  /\ BackoffDelay \in [1..AttemptCap -> Nat]

VARIABLES
  outbox,        \* the outbox table, one row per command
  sync_status,   \* sync_status of the local records
  run,           \* the push run of each tab
  access_state,  \* of the cached session: ACTIVE, or RECOVERY_ONLY once an
                 \* owner approved the recovery of this device
  request,       \* HTTP requests, as the server sees them
  session,       \* the server's view of the session: current, stale, revoked
  idem,          \* committed rows of sync.idempotency_records
  applied        \* how many times the effects of a command were committed

client == <<outbox, sync_status, run, access_state>>
server == <<session, idem, applied>>
vars   == <<outbox, sync_status, run, access_state, request, session, idem, applied>>

Statuses == {"ABSENT", "PENDING", "SENDING", "ACCEPTED", "FAILED_RETRYABLE",
             "REQUIRES_REVIEW"}
Phases   == {"FREE", "SENT", "AUTHORIZED", "PROCESSING", "REPLIED"}

Row == [status : Statuses, created_at : Nat, attempt_count : 0..AttemptCap,
        lease : Nat, backoff : Nat, last_error : Codes \cup {"NONE"}]

PushRun == [todo : SUBSET Commands, attempt : [Commands -> 0..AttemptCap],
            awaits : Requests \cup {NoRequest}]

Message == [phase : Phases, cmd : Commands \cup {NoCommand},
            via : {"SESSION", "RECOVERY"}, authority : {"CURRENT", "STALE"},
            reply : Codes \cup {"NONE"}]

TypeOK ==
  /\ outbox \in [Commands -> Row]
  /\ sync_status \in [Commands -> {"PENDING", "SYNCED", "REQUIRES_REVIEW"}]
  /\ run \in [Tabs -> PushRun]
  /\ access_state \in {"ACTIVE", "RECOVERY_ONLY"}
  /\ request \in [Requests -> Message]
  /\ session \in {"CURRENT", "STALE", "REVOKED"}
  /\ idem \in [Commands -> {"NONE", "COMPLETED", "COMPLETED_WARNINGS"}]
  /\ applied \in [Commands -> Nat]

FreeRequest == [phase |-> "FREE", cmd |-> NoCommand, via |-> "SESSION",
                authority |-> "CURRENT", reply |-> "NONE"]

IdleRun == [todo |-> {}, attempt |-> [c \in Commands |-> 0], awaits |-> NoRequest]

Init ==
  /\ outbox = [c \in Commands |->
                 [status |-> "ABSENT", created_at |-> 0, attempt_count |-> 0,
                  lease |-> 0, backoff |-> 0, last_error |-> "NONE"]]
  /\ sync_status = [c \in Commands |-> "PENDING"]
  /\ run = [t \in Tabs |-> IdleRun]
  /\ access_state = "ACTIVE"
  /\ request = [r \in Requests |-> FreeRequest]
  /\ session = "CURRENT"
  /\ idem = [c \in Commands |-> "NONE"]
  /\ applied = [c \in Commands |-> 0]

-----------------------------------------------------------------------------
(* The device: recording commands and claiming them for a push run.        *)

Recorded == {c \in Commands : outbox[c].status # "ABSENT"}

(* A local business operation (open shift, complete sale, cash movement,   *)
(* close shift) adds its outbox row in the transaction that records it; a  *)
(* sale or movement needs the local shift its open command created.  A     *)
(* device under recovery records nothing new.                              *)
Record(c) ==
  /\ access_state = "ACTIVE"
  /\ outbox[c].status = "ABSENT"
  /\ Requires[c] \subseteq Recorded
  /\ outbox' = [outbox EXCEPT ![c].status = "PENDING",
                              ![c].created_at = Cardinality(Recorded) + 1]
  /\ UNCHANGED <<sync_status, run, access_state, request, server>>

(* Faulty: an expired lease is never taken over.                           *)
ClaimableNoTakeover(c) ==
  \/ outbox[c].status = "PENDING"
  \/ outbox[c].status = "FAILED_RETRYABLE" /\ outbox[c].backoff = 0

(* Faulty: everything not accepted is claimed again.                       *)
ClaimableUnresolved(c) ==
  /\ outbox[c].status \notin {"ABSENT", "ACCEPTED"}
  /\ outbox[c].lease = 0 /\ outbox[c].backoff = 0

Claimable(c) ==
  \/ outbox[c].status = "PENDING"
  \/ outbox[c].status = "FAILED_RETRYABLE" /\ outbox[c].backoff = 0
  \/ outbox[c].status = "SENDING" /\ outbox[c].lease = 0

(* The rows claimOutboxBatch may take: the oldest ClaimLimit claimable ones. *)
IsClaim(batch) ==
  LET all == {c \in Commands : Claimable(c)} IN
  /\ batch \subseteq all
  /\ Cardinality(batch) = Smaller(ClaimLimit, Cardinality(all))
  /\ \A c \in batch, d \in all \ batch : outbox[c].created_at <= outbox[d].created_at

(* pushPending: claim a batch in one IndexedDB transaction.                *)
Claim(t) ==
  /\ run[t].todo = {}
  /\ \E batch \in SUBSET Commands :
       LET next(c) == Smaller(outbox[c].attempt_count + 1, AttemptCap) IN
       /\ batch # {} /\ IsClaim(batch)
       /\ outbox' = [c \in Commands |->
            IF c \in batch
              THEN [outbox[c] EXCEPT !.status = "SENDING", !.lease = Lease,
                                     !.attempt_count = next(c)]
              ELSE outbox[c]]
       /\ run' = [run EXCEPT ![t] =
            [todo |-> batch,
             attempt |-> [c \in Commands |-> IF c \in batch THEN next(c) ELSE 0],
             awaits |-> NoRequest]]
  /\ UNCHANGED <<sync_status, access_state, request, server>>

-----------------------------------------------------------------------------
(* The push run: one command at a time, oldest first.                      *)

(* The command the run of tab t works on: the oldest it has not settled.   *)
IsNext(t, c) ==
  /\ c \in run[t].todo
  /\ \A d \in run[t].todo : outbox[c].created_at <= outbox[d].created_at

(* The recovery orchestrator and the ordinary one of another tab use       *)
(* different endpoints and credentials.                                    *)
Send(t, c, r) ==
  /\ run[t].awaits = NoRequest
  /\ IsNext(t, c) /\ c \notin Foreign
  /\ request[r].phase = "FREE"
  /\ \E via \in {"SESSION", "RECOVERY"} :
       /\ via = "RECOVERY" => access_state = "RECOVERY_ONLY"
       /\ request' = [request EXCEPT ![r] =
            [phase |-> "SENT", cmd |-> c, via |-> via, authority |-> "CURRENT",
             reply |-> "NONE"]]
  /\ run' = [run EXCEPT ![t].awaits = r]
  /\ UNCHANGED <<outbox, sync_status, access_state, server>>

(* The row is leased to this device.  The lease owner is                   *)
(* "pos-runtime:<device>", the same string in every tab, so what the       *)
(* comparison with the owner leaves is the status.                         *)
LeaseHeld(t, c) == outbox[c].status = "SENDING"

(* settleOutboxBatch: without the lease it throws, which ends the run and  *)
(* leaves the rest of the batch SENDING until the lease expires.           *)
Settle(t, c, code) ==
  IF LeaseHeld(t, c)
    THEN /\ outbox' = [outbox EXCEPT
              ![c].status = SettledStatus(code),
              ![c].lease = 0,
              ![c].backoff = IF code \in RetryableCodes
                               THEN BackoffDelay[run[t].attempt[c]] ELSE 0,
              ![c].last_error = IF code = "ACCEPTED" THEN "NONE" ELSE code]
         /\ sync_status' = IF code \in RetryableCodes THEN sync_status
                           ELSE [sync_status EXCEPT ![Aggregate[c]] = SettledSyncStatus(code)]
         /\ run' = [run EXCEPT ![t] =
              [todo |-> run[t].todo \ {c},
               attempt |-> [run[t].attempt EXCEPT ![c] = 0],
               awaits |-> NoRequest]]
    ELSE /\ run' = [run EXCEPT ![t] = IdleRun]
         /\ UNCHANGED <<outbox, sync_status>>

(* A command of another device is kept for review and never sent.          *)
KeepForeign(t, c) ==
  /\ run[t].awaits = NoRequest
  /\ IsNext(t, c) /\ c \in Foreign
  /\ Settle(t, c, "OUTBOX_CONTEXT_MISMATCH")
  /\ UNCHANGED <<access_state, request, server>>

(* The response of the awaited request arrives and is settled.             *)
Receive(t, r) ==
  /\ run[t].awaits = r
  /\ request[r].phase = "REPLIED"
  /\ Settle(t, request[r].cmd, request[r].reply)
  /\ request' = [request EXCEPT ![r] = FreeRequest]
  /\ UNCHANGED <<access_state, server>>

(* The gateway throws instead: the network failed (outcome unknown) or the *)
(* response cannot be decoded.  The request itself lives on.               *)
GiveUp(t, r) ==
  /\ run[t].awaits = r
  /\ \E code \in {"NETWORK_UNKNOWN_RESULT", "SYNC_PROTOCOL_ERROR"} :
       /\ code = "SYNC_PROTOCOL_ERROR" => request[r].phase = "REPLIED"
       /\ Settle(t, request[r].cmd, code)
  /\ UNCHANGED <<access_state, request, server>>

(* The tab is closed or reloaded in the middle of its run.                 *)
Crash(t) ==
  /\ run[t].todo # {}
  /\ run' = [run EXCEPT ![t] = IdleRun]
  /\ UNCHANGED <<outbox, sync_status, access_state, request, server>>

(* authorizeRecoveryRetry, for an approved recovery of the device: rows    *)
(* under review for an authority code whose command carries a grant become *)
(* PENDING again, and pushes may use the recovery endpoint.                *)
Recoverable(c) ==
  /\ outbox[c].status = "REQUIRES_REVIEW"
  /\ c \in Granted
  /\ outbox[c].last_error \in AuthorityCodes

AuthorizeRecoveryRetry ==
  /\ session = "REVOKED"
  /\ outbox' = [c \in Commands |->
       IF Recoverable(c)
         THEN [outbox[c] EXCEPT !.status = "PENDING", !.lease = 0,
                                !.backoff = 0, !.last_error = "NONE"]
         ELSE outbox[c]]
  /\ access_state' = "RECOVERY_ONLY"
  /\ UNCHANGED <<sync_status, run, request, server>>

(* What is left of a lease or a delay of n ticks after one of them.        *)
Remaining(n) == IF n > 0 THEN n - 1 ELSE 0

Tick ==
  /\ \E c \in Commands : outbox[c].lease > 0 \/ outbox[c].backoff > 0
  /\ outbox' = [c \in Commands |->
       [outbox[c] EXCEPT !.lease = Remaining(outbox[c].lease),
                         !.backoff = Remaining(outbox[c].backoff)]]
  /\ UNCHANGED <<sync_status, run, access_state, request, server>>

-----------------------------------------------------------------------------
(* The server: one worker per request, one transaction per command.        *)

Reply(r, code) == request' = [request EXCEPT ![r].phase = "REPLIED", ![r].reply = code]

(* routeRecoveryPush, commandAuthorizationContext: the caller must hold a  *)
(* live session, or be an approver with the recovery permission.  Without  *)
(* a grant only the current authorization version will do; a grant must    *)
(* cover the command.                                                      *)
Authorize(r) ==
  LET c == request[r].cmd
      historical == request[r].via = "RECOVERY" \/ session = "STALE"
      covered == IF c \in Granted THEN c \notin OutOfScope ELSE ~historical IN
  /\ request[r].phase = "SENT"
  /\ \/ /\ session = "REVOKED" \/ request[r].via = "RECOVERY"
        /\ Reply(r, "PERMISSION_DENIED")
     \/ /\ session # "REVOKED" \/ request[r].via = "RECOVERY"
        /\ ~covered
        /\ Reply(r, "OFFLINE_RECOVERY_NOT_ALLOWED")
     \/ /\ session # "REVOKED" \/ request[r].via = "RECOVERY"
        /\ covered
        /\ request' = [request EXCEPT ![r].phase = "AUTHORIZED",
                                      ![r].authority = IF historical THEN "STALE"
                                                                       ELSE "CURRENT"]
  /\ UNCHANGED <<client, server>>

(* Faulty: the insert does not wait for a concurrent one.                  *)
KeyNotLocked(c) == FALSE

(* Another transaction has inserted the idempotency row of c and has not   *)
(* ended: the INSERT of this one waits for it.                             *)
KeyLocked(c) == \E q \in Requests : request[q].phase = "PROCESSING" /\ request[q].cmd = c

(* Faulty: the warnings of the stored response are dropped.                *)
AcceptedCodeNoWarnings(r, stored) ==
  IF request[r].authority = "STALE" THEN "ACCEPTED_WITH_REVIEW" ELSE "ACCEPTED"

AcceptedCode(r, stored) ==
  IF stored = "COMPLETED_WARNINGS" \/ request[r].authority = "STALE" THEN "ACCEPTED_WITH_REVIEW" ELSE "ACCEPTED"

(* executeIdempotent, INSERT ... ON CONFLICT DO NOTHING: either the row is *)
(* new and the operation runs, or the stored response is replayed.         *)
InsertKey(r) ==
  LET c == request[r].cmd IN
  /\ request[r].phase = "AUTHORIZED"
  /\ ~KeyLocked(c)
  /\ IF idem[c] = "NONE"
       THEN request' = [request EXCEPT ![r].phase = "PROCESSING"]
       ELSE Reply(r, AcceptedCode(r, idem[c]))
  /\ UNCHANGED <<client, server>>

Prepared(c) == \A d \in Requires[c] : applied[d] > 0

(* The operation succeeds: its effects and the COMPLETED row commit        *)
(* together.                                                               *)
Commit(r) ==
  LET c == request[r].cmd IN
  /\ request[r].phase = "PROCESSING"
  /\ Prepared(c)
  /\ \E stored \in {"COMPLETED", "COMPLETED_WARNINGS"} :
       /\ idem' = [idem EXCEPT ![c] = stored]
       /\ Reply(r, AcceptedCode(r, stored))
  /\ applied' = [applied EXCEPT ![c] = @ + 1]
  /\ UNCHANGED <<client, session>>

(* Faulty: the transaction of a refused command commits what it wrote.     *)
RejectNoRollback(r) ==
  LET c == request[r].cmd IN
  /\ request[r].phase = "PROCESSING"
  /\ Reply(r, IF Prepared(c) THEN "DOMAIN_CONFLICT" ELSE "SHIFT_NOT_OPEN")
  /\ applied' = [applied EXCEPT ![c] = @ + 1]
  /\ UNCHANGED <<client, session, idem>>

(* The operation refuses the command, and the transaction rolls back, the  *)
(* idempotency row with it.                                                *)
Reject(r) ==
  LET c == request[r].cmd IN
  /\ request[r].phase = "PROCESSING"
  /\ Reply(r, IF Prepared(c) THEN "DOMAIN_CONFLICT" ELSE "SHIFT_NOT_OPEN")
  /\ UNCHANGED <<client, server>>

(* A 5xx: a deadlock or serialization failure rolls the transaction back,  *)
(* the database is away, or the cursor query that follows a committed      *)
(* command fails.                                                          *)
Fail(r) ==
  /\ request[r].phase # "FREE"
  /\ Reply(r, "INTERNAL_ERROR")
  /\ UNCHANGED <<client, server>>

(* A request or response nobody waits for is lost on the network.          *)
Drop(r) ==
  /\ request[r].phase \in {"SENT", "REPLIED"}
  /\ \A t \in Tabs : run[t].awaits # r
  /\ request' = [request EXCEPT ![r] = FreeRequest]
  /\ UNCHANGED <<client, server>>

(* Back office: a permission change bumps the authorization version, a     *)
(* revocation of session, device or membership ends it.                    *)
ChangeAuthority ==
  /\ \/ session = "CURRENT" /\ session' = "STALE"
     \/ session # "REVOKED" /\ session' = "REVOKED"
  /\ UNCHANGED <<client, request, idem, applied>>

-----------------------------------------------------------------------------
Device ==
  \/ \E c \in Commands : Record(c)
  \/ \E t \in Tabs : Claim(t) \/ Crash(t)
  \/ \E t \in Tabs, c \in Commands : KeepForeign(t, c)
  \/ \E t \in Tabs, c \in Commands, r \in Requests : Send(t, c, r)
  \/ \E t \in Tabs, r \in Requests : Receive(t, r) \/ GiveUp(t, r)
  \/ AuthorizeRecoveryRetry
  \/ Tick

Server ==
  \/ \E r \in Requests :
       Authorize(r) \/ InsertKey(r) \/ Commit(r) \/ Reject(r) \/ Fail(r) \/ Drop(r)
  \/ ChangeAuthority

Next == Device \/ Server

Spec == Init /\ [][Next]_vars

(***************************************************************************)
(* Fairness.  Every tab synchronises on a 30 s timer, time passes, a fetch *)
(* ends and the server works off its requests.  Tabs, network and server   *)
(* may fail any number of times, but the failures stop one day: no retry   *)
(* policy can deliver through a network that is never up.  Recoveries,     *)
(* each approved by an owner by hand, stop as well.  (A run that ends      *)
(* because its foreign row was settled meanwhile looks like a crash.)      *)
(***************************************************************************)
Fault ==
  \/ \E t \in Tabs : Crash(t) /\ ~ \E c \in Commands : KeepForeign(t, c)
  \/ \E t \in Tabs, r \in Requests : GiveUp(t, r)
  \/ \E r \in Requests : Fail(r)
  \/ AuthorizeRecoveryRetry

Fairness ==
  /\ WF_vars(Tick)
  /\ \A t \in Tabs :
       /\ WF_vars(Claim(t))
       /\ WF_vars(\E c \in Commands : KeepForeign(t, c))
       /\ WF_vars(\E c \in Commands, r \in Requests : Send(t, c, r))
       /\ WF_vars(\E r \in Requests : Receive(t, r))
  /\ \A r \in Requests :
       WF_vars(Authorize(r) \/ InsertKey(r) \/ Commit(r) \/ Reject(r) \/ Drop(r))
  /\ <>[][~Fault]_vars

FairSpec == Spec /\ Fairness

-----------------------------------------------------------------------------
(* Correctness.                                                            *)

(* A command takes effect at most once, however often it is claimed, sent  *)
(* and processed, and a row is ACCEPTED only if it took effect.            *)
ExactlyOnce == \A c \in Commands :
  /\ applied[c] <= 1
  /\ outbox[c].status = "ACCEPTED" => applied[c] = 1

(* A local record shown as SYNCED has a command that was accepted without  *)
(* a warning and whose effects the server holds: a lost response, a crash  *)
(* or a verdict for another attempt never turns it green.                  *)
SyncedIsAccepted == \A a \in Commands :
  sync_status[a] = "SYNCED" =>
    \E c \in Commands : /\ Aggregate[c] = a
                        /\ outbox[c].status = "ACCEPTED"
                        /\ outbox[c].last_error = "NONE"
                        /\ applied[c] = 1

(* A warning the server raised while executing a command reaches the row,  *)
(* even if the first response was lost and a replay confirmed the command. *)
ReviewSurvivesReplay == \A c \in Commands :
  outbox[c].status = "ACCEPTED" /\ idem[c] = "COMPLETED_WARNINGS" =>
    outbox[c].last_error = "ACCEPTED_WITH_REVIEW"

(* A settled verdict is final: an accepted row never changes again, and a  *)
(* row under review only comes back through an approved recovery, if its   *)
(* command carries a grant and the verdict was about authority.            *)
VerdictIsFinal ==
  [][\A c \in Commands :
       /\ outbox[c].status = "ACCEPTED" => outbox'[c] = outbox[c]
       /\ outbox[c].status = "REQUIRES_REVIEW" /\ outbox'[c] # outbox[c] =>
            /\ outbox'[c].status = "PENDING" /\ access_state' = "RECOVERY_ONLY"
            /\ c \in Granted /\ outbox[c].last_error \in AuthorityCodes]_vars

(* The push protocol implements the delivery the business was promised.    *)
Delivery == INSTANCE CommandDelivery WITH
  recorded  <- Recorded,
  executed  <- {c \in Commands : applied[c] > 0},
  confirmed <- {c \in Commands : outbox[c].status = "ACCEPTED"}
DeliverySpec == Delivery!Spec

(* Every recorded command ends with a verdict: crashes, lost responses,    *)
(* expired leases and backoff delay it but never strand it.                *)
EventuallySettled == \A c \in Commands :
  outbox[c].status # "ABSENT" ~>
    outbox[c].status \in {"ACCEPTED", "REQUIRES_REVIEW"}

=============================================================================
