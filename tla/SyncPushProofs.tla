--------------------------- MODULE SyncPushProofs ---------------------------
(***************************************************************************)
(* Proofs about SyncPush, for any number of commands, tabs and requests.   *)
(* The inductive invariant ties the three places that know about a command *)
(* together: the row that waits for it, the request that carries it, and   *)
(* the idempotency record that says whether it took effect.                *)
(***************************************************************************)
EXTENDS SyncPush, FiniteSetTheorems, TLAPS

(* The effects of a command and its idempotency record commit together.    *)
EffectOK == \A c \in Commands : applied[c] = IF idem[c] = "NONE" THEN 0 ELSE 1

(* A verdict in a row is backed by the idempotency record, and a settled   *)
(* row holds neither a lease nor a delay.                                  *)
RowOK == \A c \in Commands :
  /\ outbox[c].status = "ACCEPTED" =>
       /\ idem[c] # "NONE"
       /\ \/ outbox[c].last_error = "ACCEPTED_WITH_REVIEW"
          \/ outbox[c].last_error = "NONE" /\ idem[c] = "COMPLETED"
  /\ outbox[c].status \in {"ACCEPTED", "REQUIRES_REVIEW"} =>
       outbox[c].lease = 0 /\ outbox[c].backoff = 0

(* A tab awaits a response of its own, to a command of its batch.          *)
RunOK == \A t \in Tabs :
  /\ \A c \in run[t].todo : run[t].attempt[c] >= 1 /\ outbox[c].status # "ABSENT"
  /\ run[t].awaits # NoRequest =>
       /\ request[run[t].awaits].phase # "FREE"
       /\ request[run[t].awaits].cmd \in run[t].todo
       /\ \A u \in Tabs : run[u].awaits = run[t].awaits => u = t

(* A request being processed is alone in writing the idempotency record,   *)
(* and an accepting reply says what that record holds.                     *)
RequestOK == \A r \in Requests :
  /\ request[r].phase # "FREE" =>
       request[r].cmd \in Commands /\ outbox[request[r].cmd].status # "ABSENT"
  /\ request[r].phase = "PROCESSING" =>
       /\ idem[request[r].cmd] = "NONE"
       /\ \A q \in Requests : request[q].phase = "PROCESSING"
                              /\ request[q].cmd = request[r].cmd => q = r
  /\ request[r].phase = "REPLIED" =>
       /\ request[r].reply # "NONE"
       /\ request[r].reply \in AcceptedCodes => idem[request[r].cmd] # "NONE"
       /\ request[r].reply = "ACCEPTED" => idem[request[r].cmd] = "COMPLETED"

IInv == TypeOK /\ EffectOK /\ RowOK /\ RunOK /\ RequestOK /\ SyncedIsAccepted

-----------------------------------------------------------------------------
(* The initial state satisfies the invariant: nothing is recorded, sent or *)
(* executed.                                                               *)
LEMMA InitIInv == Init => IInv
<1> SUFFICES ASSUME Init PROVE IInv
  OBVIOUS
<1> USE SyncPushAssumption DEF Init
<1>1. TypeOK
  BY DEF TypeOK, Row, Statuses, Phases, FreeRequest, IdleRun, PushRun, Message
<1>2. EffectOK /\ RowOK /\ SyncedIsAccepted
  BY DEF EffectOK, RowOK, SyncedIsAccepted
<1>3. RunOK /\ RequestOK
  BY DEF RunOK, RequestOK, IdleRun, FreeRequest
<1> QED
  BY <1>1, <1>2, <1>3 DEF IInv

(* The number of commands recorded so far is a number.                     *)
LEMMA RecordedCount == Cardinality(Recorded) \in Nat
<1>1. IsFiniteSet(Recorded)
  BY SyncPushAssumption, FS_Subset DEF Recorded
<1> QED
  BY <1>1, FS_CardinalityType

(* Rows that are accepted and what they stand for do not change: then a    *)
(* record is as much SYNCED as before.                                     *)
LEMMA SyncedKept ==
  ASSUME SyncedIsAccepted, UNCHANGED sync_status,
         \A d \in Commands : outbox[d].status = "ACCEPTED" =>
           outbox'[d] = outbox[d] /\ applied'[d] = applied[d]
  PROVE  SyncedIsAccepted'
<1> SUFFICES ASSUME NEW a \in Commands, sync_status[a] = "SYNCED"
             PROVE  \E d \in Commands : /\ Aggregate[d] = a
                                        /\ outbox'[d].status = "ACCEPTED"
                                        /\ outbox'[d].last_error = "NONE"
                                        /\ applied'[d] = 1
  BY DEF SyncedIsAccepted
<1>1. PICK d \in Commands : /\ Aggregate[d] = a
                            /\ outbox[d].status = "ACCEPTED"
                            /\ outbox[d].last_error = "NONE"
                            /\ applied[d] = 1
  BY DEF SyncedIsAccepted
<1> QED
  BY <1>1

(* Recording a command adds a PENDING row and touches no other.            *)
LEMMA RecordStep ==
  ASSUME IInv, NEW c \in Commands, Record(c)
  PROVE  IInv'
<1> USE SyncPushAssumption DEF IInv, Record, server
<1>1. TypeOK'
  <2> DEFINE n == Cardinality(Recorded) + 1
  <2>1. n \in Nat
    BY RecordedCount
  <2>2. outbox' = [outbox EXCEPT ![c] = [outbox[c] EXCEPT !.status = "PENDING",
                                                          !.created_at = n]]
    BY DEF TypeOK, Row
  <2> HIDE DEF n
  <2>3. outbox' \in [Commands -> Row]
    <3>1. outbox \in [Commands -> Row]
      BY DEF TypeOK
    <3>2. [outbox[c] EXCEPT !.status = "PENDING", !.created_at = n] \in Row
      BY <2>1, <3>1 DEF Row, Statuses
    <3> QED
      BY ONLY <2>2, <3>1, <3>2
  <2> QED
    BY <2>3 DEF TypeOK
<1>2. EffectOK' /\ RowOK'
  BY DEF EffectOK, RowOK, TypeOK, Row
<1>3. RunOK'
  BY DEF RunOK, TypeOK, Row, PushRun
<1>4. RequestOK'
  BY DEF RequestOK, TypeOK, Row
<1>5. SyncedIsAccepted'
  BY SyncedKept DEF TypeOK, Row
<1> QED
  BY <1>1, <1>2, <1>3, <1>4, <1>5

(* Claiming moves claimable rows, none of them settled, to SENDING.        *)
LEMMA ClaimStep ==
  ASSUME IInv, NEW t \in Tabs, Claim(t)
  PROVE  IInv'
<1> DEFINE next(c) == Smaller(outbox[c].attempt_count + 1, AttemptCap)
<1>1. PICK batch \in SUBSET Commands :
        /\ \A c \in batch : Claimable(c)
        /\ outbox' = [c \in Commands |->
             IF c \in batch
               THEN [outbox[c] EXCEPT !.status = "SENDING", !.lease = Lease,
                                      !.attempt_count = next(c)]
               ELSE outbox[c]]
        /\ run' = [run EXCEPT ![t] =
             [todo |-> batch,
              attempt |-> [c \in Commands |-> IF c \in batch THEN next(c) ELSE 0],
              awaits |-> NoRequest]]
  BY DEF Claim, IsClaim
<1>2. /\ run[t].todo = {}
      /\ UNCHANGED <<sync_status, access_state, request, session, idem, applied>>
  BY DEF Claim, server
<1>3. \A c \in Commands : next(c) \in 1..AttemptCap
  BY SyncPushAssumption DEF IInv, TypeOK, Row, Smaller
<1>4. \A c \in batch : outbox[c].status \in {"PENDING", "SENDING", "FAILED_RETRYABLE"}
  BY <1>1 DEF Claimable
<1>5. /\ outbox' \in [Commands -> Row]
      /\ \A c \in Commands \ batch : outbox'[c] = outbox[c]
      /\ \A c \in batch : outbox'[c].status = "SENDING"
  <2> SUFFICES ASSUME NEW c \in Commands
               PROVE  /\ outbox'[c] \in Row
                      /\ c \notin batch => outbox'[c] = outbox[c]
                      /\ c \in batch => outbox'[c].status = "SENDING"
    BY <1>1
  <2>1. outbox[c] \in Row /\ next(c) \in 0..AttemptCap
    BY <1>3, SyncPushAssumption DEF IInv, TypeOK
  <2>2. CASE c \notin batch
    BY <1>1, <2>1, <2>2
  <2>3. CASE c \in batch
    <3> HIDE DEF next
    <3>1. outbox'[c] = [outbox[c] EXCEPT !.status = "SENDING", !.lease = Lease,
                                         !.attempt_count = next(c)]
      BY <1>1, <2>3
    <3> QED
      BY <3>1, <2>1, <2>3, SyncPushAssumption DEF Row, Statuses
  <2> QED
    BY <2>2, <2>3
<1>6. TypeOK'
  <2>1. run' \in [Tabs -> PushRun]
    <3>1. [c \in Commands |-> IF c \in batch THEN next(c) ELSE 0]
             \in [Commands -> 0..AttemptCap]
      BY <1>3, SyncPushAssumption
    <3> HIDE DEF next
    <3> QED
      BY <1>1, <3>1 DEF IInv, TypeOK, PushRun
  <2> QED
    BY <1>2, <1>5, <2>1 DEF IInv, TypeOK
<1>7. EffectOK' /\ RowOK'
  BY <1>2, <1>5 DEF IInv, EffectOK, RowOK
<1>8. RunOK' /\ RequestOK'
  <2>1. \A c \in Commands : outbox'[c].status # "ABSENT" \/ outbox[c].status = "ABSENT"
    BY <1>5
  <2>2. \A u \in Tabs : u # t => run'[u] = run[u]
    BY <1>1 DEF IInv, TypeOK
  <2>3. run'[t].todo = batch /\ run'[t].awaits = NoRequest
    BY <1>1 DEF IInv, TypeOK
  <2>4. \A c \in batch : run'[t].attempt[c] >= 1 /\ outbox'[c].status # "ABSENT"
    <3>1. \A c \in batch : run'[t].attempt[c] = next(c)
      BY <1>1 DEF IInv, TypeOK
    <3> QED
      BY <1>3, <1>5, <3>1, SyncPushAssumption
  <2>5. RunOK'
    <3> SUFFICES ASSUME NEW u \in Tabs
                 PROVE  /\ \A c \in run'[u].todo :
                             run'[u].attempt[c] >= 1 /\ outbox'[c].status # "ABSENT"
                        /\ run'[u].awaits # NoRequest =>
                             /\ request[run'[u].awaits].phase # "FREE"
                             /\ request[run'[u].awaits].cmd \in run'[u].todo
                             /\ \A v \in Tabs : run'[v].awaits = run'[u].awaits => v = u
      BY <1>2 DEF RunOK
    <3>1. CASE u = t
      BY <2>3, <2>4, <3>1
    <3>2. CASE u # t
      <4>1. run[u].todo \subseteq Commands
        BY DEF IInv, TypeOK, PushRun
      <4> QED
        BY <2>1, <2>2, <2>3, <3>2, <4>1 DEF IInv, RunOK
    <3> QED
      BY <3>1, <3>2
  <2>6. RequestOK'
    BY <1>2, <2>1 DEF IInv, RequestOK
  <2> QED
    BY <2>5, <2>6
<1>9. SyncedIsAccepted'
  BY <1>2, <1>4, <1>5, SyncedKept DEF IInv
<1> QED
  BY <1>6, <1>7, <1>8, <1>9 DEF IInv

(* Sending binds a free slot to the tab and to a command of its batch.     *)
LEMMA SendStep ==
  ASSUME IInv, NEW t \in Tabs, NEW c \in Commands, NEW r \in Requests, Send(t, c, r)
  PROVE  IInv'
<1>1. /\ run[t].awaits = NoRequest
      /\ c \in run[t].todo
      /\ request[r].phase = "FREE"
      /\ run' = [run EXCEPT ![t].awaits = r]
      /\ UNCHANGED <<outbox, sync_status, access_state, session, idem, applied>>
  BY DEF Send, IsNext, server
<1>2. PICK via \in {"SESSION", "RECOVERY"} :
        request' = [request EXCEPT ![r] =
          [phase |-> "SENT", cmd |-> c, via |-> via, authority |-> "CURRENT",
           reply |-> "NONE"]]
  BY DEF Send
<1>3. /\ \A q \in Requests : q # r => request'[q] = request[q]
      /\ request'[r].phase = "SENT" /\ request'[r].cmd = c
  BY <1>2 DEF IInv, TypeOK
<1>4. /\ \A u \in Tabs : u # t => run'[u] = run[u]
      /\ run'[t].todo = run[t].todo
      /\ run'[t].attempt = run[t].attempt
      /\ run'[t].awaits = r
  BY <1>1 DEF IInv, TypeOK
<1>5. TypeOK'
  <2>1. request' \in [Requests -> Message]
    <3>1. [phase |-> "SENT", cmd |-> c, via |-> via, authority |-> "CURRENT",
           reply |-> "NONE"] \in Message
      BY DEF Message, Phases
    <3> QED
      BY <1>2, <3>1 DEF IInv, TypeOK
  <2>2. run' \in [Tabs -> PushRun]
    <3>1. run' = [run EXCEPT ![t] = [run[t] EXCEPT !.awaits = r]]
      BY <1>1 DEF IInv, TypeOK
    <3>2. [run[t] EXCEPT !.awaits = r] \in PushRun
      BY DEF IInv, TypeOK, PushRun
    <3> QED
      BY <3>1, <3>2 DEF IInv, TypeOK
  <2> QED
    BY <1>1, <2>1, <2>2 DEF IInv, TypeOK
<1>6. EffectOK' /\ RowOK' /\ SyncedIsAccepted'
  BY <1>1, SyncedKept DEF IInv, EffectOK, RowOK
<1>7. RunOK'
  <2> SUFFICES ASSUME NEW u \in Tabs
               PROVE  /\ \A d \in run'[u].todo :
                           run'[u].attempt[d] >= 1 /\ outbox[d].status # "ABSENT"
                      /\ run'[u].awaits # NoRequest =>
                           /\ request'[run'[u].awaits].phase # "FREE"
                           /\ request'[run'[u].awaits].cmd \in run'[u].todo
                           /\ \A v \in Tabs : run'[v].awaits = run'[u].awaits => v = u
    BY <1>1 DEF RunOK
  <2>1. run[u].awaits \in Requests \cup {NoRequest} /\ run[u].awaits # r
    BY <1>1, SyncPushAssumption DEF IInv, TypeOK, PushRun, RunOK
  <2>2. \A v \in Tabs : run[v].awaits # r
    BY <1>1, SyncPushAssumption DEF IInv, TypeOK, PushRun, RunOK
  <2>3. CASE u = t
    BY <1>1, <1>3, <1>4, <2>2, <2>3 DEF IInv, RunOK
  <2>4. CASE u # t
    BY <1>3, <1>4, <2>1, <2>4 DEF IInv, RunOK
  <2> QED
    BY <2>3, <2>4
<1>8. RequestOK'
  <2>1. outbox[c].status # "ABSENT"
    BY <1>1 DEF IInv, RunOK
  <2> QED
    BY <1>1, <1>3, <2>1 DEF IInv, RequestOK
<1> QED
  BY <1>5, <1>6, <1>7, <1>8 DEF IInv

(* The type of the code a settlement writes makes the new row a row.       *)
LEMMA SettledRow ==
  ASSUME NEW row \in Row, NEW code \in Codes, NEW delay \in Nat
  PROVE  [row EXCEPT !.status = SettledStatus(code), !.lease = 0, !.backoff = delay,
                     !.last_error = IF code = "ACCEPTED" THEN "NONE" ELSE code] \in Row
<1>1. SettledStatus(code) \in Statuses
  BY DEF SettledStatus, Statuses
<1> QED
  BY <1>1 DEF Row

(* Settling writes a verdict backed by the server into a SENDING row, or,  *)
(* when the row is no longer SENDING, ends the run and writes nothing.     *)
LEMMA SettleStep ==
  ASSUME IInv, NEW t \in Tabs, NEW c \in run[t].todo, NEW code \in Codes,
         code \in AcceptedCodes => idem[c] # "NONE",
         code = "ACCEPTED" => idem[c] = "COMPLETED",
         Settle(t, c, code),
         UNCHANGED <<access_state, session, idem, applied>>,
         request' \in [Requests -> Message],
         \A q \in Requests : \/ request'[q] = request[q]
                             \/ request'[q] = FreeRequest /\ run[t].awaits = q
  PROVE  IInv'
<1>0. /\ c \in Commands
      /\ outbox \in [Commands -> Row]
      /\ run \in [Tabs -> PushRun]
      /\ sync_status \in [Commands -> {"PENDING", "SYNCED", "REQUIRES_REVIEW"}]
  BY DEF IInv, TypeOK, PushRun
<1>1. RequestOK'
  <2>1. \A d \in Commands : outbox[d].status # "ABSENT" => outbox'[d].status # "ABSENT"
    BY <1>0 DEF Settle, SettledStatus, Row
  <2>2. \A q \in Requests : request'[q].phase # "FREE" => request'[q] = request[q]
    BY DEF FreeRequest
  <2> QED
    BY <2>1, <2>2 DEF IInv, RequestOK
<1>2. EffectOK'
  BY DEF IInv, EffectOK
<1>3. CASE LeaseHeld(t, c)
  <2> DEFINE delay == IF code \in RetryableCodes THEN BackoffDelay[run[t].attempt[c]] ELSE 0
             row == [outbox[c] EXCEPT !.status = SettledStatus(code), !.lease = 0,
                       !.backoff = delay,
                       !.last_error = IF code = "ACCEPTED" THEN "NONE" ELSE code]
             rest == [todo |-> run[t].todo \ {c},
                      attempt |-> [run[t].attempt EXCEPT ![c] = 0],
                      awaits |-> NoRequest]
  <2>1. outbox' = [outbox EXCEPT ![c] = row]
    BY <1>0, <1>3 DEF Settle, Row
  <2>2. run' = [run EXCEPT ![t] = rest]
    BY <1>0, <1>3 DEF Settle, PushRun
  <2>3. sync_status' = IF code \in RetryableCodes THEN sync_status
                       ELSE [sync_status EXCEPT ![Aggregate[c]] = SettledSyncStatus(code)]
    BY <1>3 DEF Settle
  <2>4. delay \in Nat
    <3>1. run[t].attempt[c] \in 1..AttemptCap
      BY <1>0, SyncPushAssumption DEF IInv, RunOK, PushRun
    <3> QED
      BY <3>1, SyncPushAssumption
  <2>5. row \in Row /\ rest \in PushRun
    <3>1. outbox[c] \in Row /\ run[t] \in PushRun
      BY <1>0
    <3>2. row \in Row
      BY <3>1, <2>4, SettledRow
    <3>3. rest \in PushRun
      BY <3>1, SyncPushAssumption DEF PushRun
    <3> QED
      BY <3>2, <3>3
  <2>6. /\ row.status = SettledStatus(code) /\ row.lease = 0 /\ row.backoff = delay
        /\ row.last_error = IF code = "ACCEPTED" THEN "NONE" ELSE code
    BY <1>0 DEF Row
  <2>7. /\ rest.todo = run[t].todo \ {c} /\ rest.awaits = NoRequest
        /\ \A d \in rest.todo : rest.attempt[d] = run[t].attempt[d]
    BY <1>0 DEF PushRun
  <2>8. outbox[c].status = "SENDING"
    BY <1>3 DEF LeaseHeld
  <2>9. code \in AcceptedCodes <=> row.status = "ACCEPTED"
    BY <2>6 DEF SettledStatus, AcceptedCodes, RetryableCodes
  <2>10. row.status \in {"ACCEPTED", "REQUIRES_REVIEW"} => delay = 0
    BY <2>6 DEF SettledStatus, AcceptedCodes, RetryableCodes
  <2> HIDE DEF delay, row, rest
  <2>11. /\ outbox'[c] = row /\ run'[t] = rest
         /\ \A d \in Commands : d # c => outbox'[d] = outbox[d]
         /\ \A u \in Tabs : u # t => run'[u] = run[u]
    BY <1>0, <2>1, <2>2
  <2>12. TypeOK'
    <3>1. sync_status' \in [Commands -> {"PENDING", "SYNCED", "REQUIRES_REVIEW"}]
      BY <1>0, <2>3, SyncPushAssumption DEF SettledSyncStatus
    <3> QED
      BY <1>0, <2>1, <2>2, <2>5, <3>1 DEF IInv, TypeOK
  <2>13. RowOK'
    BY <2>6, <2>9, <2>10, <2>11 DEF IInv, RowOK, AcceptedCodes
  <2>14. RunOK'
    <3> SUFFICES ASSUME NEW u \in Tabs
                 PROVE  /\ \A d \in run'[u].todo :
                             run'[u].attempt[d] >= 1 /\ outbox'[d].status # "ABSENT"
                        /\ run'[u].awaits # NoRequest =>
                             /\ request'[run'[u].awaits].phase # "FREE"
                             /\ request'[run'[u].awaits].cmd \in run'[u].todo
                             /\ \A v \in Tabs : run'[v].awaits = run'[u].awaits => v = u
      BY DEF RunOK
    <3>1. row.status # "ABSENT"
      BY <2>6 DEF SettledStatus
    <3>2. run[u].todo \subseteq Commands /\ run[u].awaits \in Requests \cup {NoRequest}
      BY <1>0 DEF PushRun
    <3>3. CASE u = t
      BY <2>7, <2>11, <3>1, <3>2, <3>3 DEF IInv, RunOK
    <3>4. CASE u # t
      <4>1. \A d \in run'[u].todo :
              run'[u].attempt[d] >= 1 /\ outbox'[d].status # "ABSENT"
        BY <2>11, <3>1, <3>2, <3>4 DEF IInv, RunOK
      <4>2. ASSUME run'[u].awaits # NoRequest
            PROVE  request'[run[u].awaits] = request[run[u].awaits]
        BY <2>11, <3>2, <3>4, <4>2 DEF IInv, RunOK
      <4> QED
        BY <2>7, <2>11, <3>4, <4>1, <4>2 DEF IInv, RunOK
    <3> QED
      BY <3>3, <3>4
  <2>15. SyncedIsAccepted'
    <3> SUFFICES ASSUME NEW a \in Commands, sync_status'[a] = "SYNCED"
                 PROVE  \E d \in Commands : /\ Aggregate[d] = a
                                            /\ outbox'[d].status = "ACCEPTED"
                                            /\ outbox'[d].last_error = "NONE"
                                            /\ applied'[d] = 1
      BY DEF SyncedIsAccepted
    <3>1. CASE code = "ACCEPTED" /\ a = Aggregate[c]
      <4>1. applied[c] = 1
        BY <1>0, <3>1 DEF IInv, EffectOK
      <4>2. row.status = "ACCEPTED" /\ row.last_error = "NONE"
        BY <2>6, <2>9, <3>1 DEF AcceptedCodes
      <4> QED
        BY <1>0, <2>11, <3>1, <4>1, <4>2
    <3>2. CASE ~(code = "ACCEPTED" /\ a = Aggregate[c])
      <4>1. sync_status[a] = "SYNCED"
        BY <1>0, <2>3, <3>2, SyncPushAssumption DEF SettledSyncStatus
      <4>2. PICK d \in Commands : /\ Aggregate[d] = a
                                  /\ outbox[d].status = "ACCEPTED"
                                  /\ outbox[d].last_error = "NONE"
                                  /\ applied[d] = 1
        BY <4>1 DEF IInv, SyncedIsAccepted
      <4> QED
        BY <2>8, <2>11, <4>2
    <3> QED
      BY <3>1, <3>2
  <2> QED
    BY <1>1, <1>2, <2>12, <2>13, <2>14, <2>15 DEF IInv
<1>4. CASE ~LeaseHeld(t, c)
  <2>1. /\ run' = [run EXCEPT ![t] = IdleRun]
        /\ UNCHANGED <<outbox, sync_status>>
    BY <1>4 DEF Settle
  <2>2. /\ run'[t].todo = {} /\ run'[t].awaits = NoRequest
        /\ \A u \in Tabs : u # t => run'[u] = run[u]
        /\ run' \in [Tabs -> PushRun]
    BY <1>0, <2>1, SyncPushAssumption DEF IdleRun, PushRun
  <2>3. TypeOK' /\ RowOK' /\ SyncedIsAccepted'
    BY <2>1, <2>2, SyncedKept DEF IInv, TypeOK, RowOK
  <2>4. RunOK'
    <3> SUFFICES ASSUME NEW u \in Tabs, u # t, run[u].awaits # NoRequest
                 PROVE  request'[run[u].awaits] = request[run[u].awaits]
      BY <2>1, <2>2 DEF IInv, RunOK
    <3>1. run[u].awaits \in Requests
      BY <1>0 DEF PushRun
    <3> QED
      BY <3>1 DEF IInv, RunOK
  <2> QED
    BY <1>1, <1>2, <2>3, <2>4 DEF IInv
<1> QED
  BY <1>3, <1>4

(* The three ways a push of one command ends on the device.                *)
LEMMA KeepForeignStep ==
  ASSUME IInv, NEW t \in Tabs, NEW c \in Commands, KeepForeign(t, c)
  PROVE  IInv'
<1>1. /\ c \in run[t].todo
      /\ Settle(t, c, "OUTBOX_CONTEXT_MISMATCH")
      /\ UNCHANGED <<access_state, request, session, idem, applied>>
  BY DEF KeepForeign, IsNext, server
<1>2. /\ "OUTBOX_CONTEXT_MISMATCH" \in Codes
      /\ "OUTBOX_CONTEXT_MISMATCH" \notin AcceptedCodes
  BY DEF Codes, ReviewCodes, AcceptedCodes
<1>3. request' \in [Requests -> Message]
  BY <1>1 DEF IInv, TypeOK
<1> QED
  BY <1>1, <1>2, <1>3, SettleStep

LEMMA ReceiveStep ==
  ASSUME IInv, NEW t \in Tabs, NEW r \in Requests, Receive(t, r)
  PROVE  IInv'
<1> DEFINE c == request[r].cmd
           code == request[r].reply
<1>1. /\ run[t].awaits = r /\ request[r].phase = "REPLIED"
      /\ Settle(t, c, code)
      /\ request' = [request EXCEPT ![r] = FreeRequest]
      /\ UNCHANGED <<access_state, session, idem, applied>>
  BY DEF Receive, server
<1>2. c \in run[t].todo
  BY <1>1, SyncPushAssumption DEF IInv, RunOK
<1>3. code \in Codes
  BY <1>1 DEF IInv, TypeOK, Message, RequestOK
<1>4. /\ code \in AcceptedCodes => idem[c] # "NONE"
      /\ code = "ACCEPTED" => idem[c] = "COMPLETED"
  BY <1>1 DEF IInv, RequestOK
<1>5. request' \in [Requests -> Message]
  <2>1. FreeRequest \in Message
    BY DEF FreeRequest, Message, Phases
  <2> QED
    BY <1>1, <2>1 DEF IInv, TypeOK
<1>6. \A q \in Requests : \/ request'[q] = request[q]
                          \/ request'[q] = FreeRequest /\ run[t].awaits = q
  BY <1>1 DEF IInv, TypeOK
<1> HIDE DEF c, code
<1> QED
  BY <1>1, <1>2, <1>3, <1>4, <1>5, <1>6, SettleStep

LEMMA GiveUpStep ==
  ASSUME IInv, NEW t \in Tabs, NEW r \in Requests, GiveUp(t, r)
  PROVE  IInv'
<1> DEFINE c == request[r].cmd
<1>1. /\ run[t].awaits = r
      /\ UNCHANGED <<access_state, request, session, idem, applied>>
  BY DEF GiveUp, server
<1>2. PICK code \in {"NETWORK_UNKNOWN_RESULT", "SYNC_PROTOCOL_ERROR"} : Settle(t, c, code)
  BY DEF GiveUp
<1>3. c \in run[t].todo
  BY <1>1, SyncPushAssumption DEF IInv, RunOK
<1>4. code \in Codes /\ code \notin AcceptedCodes
  BY DEF Codes, ReviewCodes, RetryableCodes, AcceptedCodes
<1>5. request' \in [Requests -> Message]
  BY <1>1 DEF IInv, TypeOK
<1> HIDE DEF c
<1> QED
  BY <1>1, <1>2, <1>3, <1>4, <1>5, SettleStep DEF AcceptedCodes

(* A closed tab forgets its run; everything durable stays.                 *)
LEMMA CrashStep ==
  ASSUME IInv, NEW t \in Tabs, Crash(t)
  PROVE  IInv'
<1>1. /\ run' = [run EXCEPT ![t] = IdleRun]
      /\ UNCHANGED <<outbox, sync_status, access_state, request, session, idem, applied>>
  BY DEF Crash, server
<1>2. run \in [Tabs -> PushRun]
  BY DEF IInv, TypeOK
<1>3. /\ run'[t].todo = {} /\ run'[t].awaits = NoRequest
      /\ \A u \in Tabs : u # t => run'[u] = run[u]
      /\ run' \in [Tabs -> PushRun]
  BY <1>1, <1>2, SyncPushAssumption DEF IdleRun, PushRun
<1>4. TypeOK' /\ EffectOK' /\ RowOK' /\ SyncedIsAccepted'
  BY <1>1, <1>3, SyncedKept DEF IInv, TypeOK, EffectOK, RowOK
<1>5. RunOK' /\ RequestOK'
  BY <1>1, <1>3 DEF IInv, RunOK, RequestOK
<1> QED
  BY <1>4, <1>5 DEF IInv

(* Steps that move rows without settling them: a recovery and the clock.   *)
LEMMA RowsStep ==
  ASSUME IInv,
         access_state' \in {"ACTIVE", "RECOVERY_ONLY"},
         UNCHANGED <<sync_status, run, request, session, idem, applied>>,
         outbox' \in [Commands -> Row],
         \A c \in Commands :
           \/ outbox'[c] = outbox[c]
           \/ /\ outbox[c].status \in {"REQUIRES_REVIEW"}
              /\ outbox'[c].status = "PENDING"
           \/ /\ outbox[c].status \notin {"ACCEPTED", "REQUIRES_REVIEW"}
              /\ outbox'[c].status = outbox[c].status
  PROVE  IInv'
<1>1. TypeOK' /\ EffectOK' /\ RowOK' /\ SyncedIsAccepted'
  BY SyncedKept DEF IInv, TypeOK, EffectOK, RowOK
<1>2. \A c \in Commands : outbox[c].status # "ABSENT" => outbox'[c].status # "ABSENT"
  OBVIOUS
<1>3. \A t \in Tabs : run[t].todo \subseteq Commands
  BY DEF IInv, TypeOK, PushRun
<1>4. RunOK' /\ RequestOK'
  BY <1>2, <1>3 DEF IInv, RunOK, RequestOK
<1> QED
  BY <1>1, <1>4 DEF IInv

(* What a recovery makes of a row.                                         *)
LEMMA ReopenedRow ==
  ASSUME NEW row \in Row, NEW new,
         new = [row EXCEPT !.status = "PENDING", !.lease = 0, !.backoff = 0,
                           !.last_error = "NONE"]
  PROVE  new \in Row /\ new.status = "PENDING"
  BY DEF Row, Statuses

LEMMA AuthorizeRecoveryRetryStep ==
  ASSUME IInv, AuthorizeRecoveryRetry
  PROVE  IInv'
<1>1. /\ access_state' = "RECOVERY_ONLY"
      /\ UNCHANGED <<sync_status, run, request, session, idem, applied>>
  BY DEF AuthorizeRecoveryRetry, server
<1>2. ASSUME NEW c \in Commands
      PROVE  /\ outbox'[c] \in Row
             /\ \/ outbox'[c] = outbox[c]
                \/ /\ outbox[c].status = "REQUIRES_REVIEW"
                   /\ outbox'[c].status = "PENDING"
  <2>1. outbox[c] \in Row
    BY DEF IInv, TypeOK
  <2>2. CASE Recoverable(c)
    <3>1. outbox'[c] = [outbox[c] EXCEPT !.status = "PENDING", !.lease = 0,
                                         !.backoff = 0, !.last_error = "NONE"]
      BY <2>2 DEF AuthorizeRecoveryRetry
    <3>2. outbox[c].status = "REQUIRES_REVIEW"
      BY <2>2 DEF Recoverable
    <3> QED
      BY <2>1, <3>1, <3>2, ReopenedRow
  <2>3. CASE ~Recoverable(c)
    BY <2>1, <2>3 DEF AuthorizeRecoveryRetry
  <2> QED
    BY <2>2, <2>3
<1>3. outbox' \in [Commands -> Row]
  BY <1>2 DEF AuthorizeRecoveryRetry
<1> QED
  BY <1>1, <1>2, <1>3, RowsStep

LEMMA TickStep ==
  ASSUME IInv, Tick
  PROVE  IInv'
<1>1. UNCHANGED <<sync_status, run, access_state, request, session, idem, applied>>
  BY DEF Tick, server
<1>2. ASSUME NEW c \in Commands
      PROVE  /\ outbox'[c] \in Row
             /\ \/ outbox'[c] = outbox[c]
                \/ /\ outbox[c].status \notin {"ACCEPTED", "REQUIRES_REVIEW"}
                   /\ outbox'[c].status = outbox[c].status
  <2>1. outbox[c] \in Row
    BY DEF IInv, TypeOK
  <2> DEFINE l == Remaining(outbox[c].lease)
             b == Remaining(outbox[c].backoff)
  <2>2. outbox'[c] = [outbox[c] EXCEPT !.lease = l, !.backoff = b]
    BY DEF Tick
  <2>3. l \in Nat /\ b \in Nat
    BY <2>1 DEF Row, Remaining
  <2>4. outbox[c].status \in {"ACCEPTED", "REQUIRES_REVIEW"} =>
          l = outbox[c].lease /\ b = outbox[c].backoff
    BY DEF IInv, RowOK, Remaining
  <2> HIDE DEF l, b
  <2> QED
    BY ONLY <2>1, <2>2, <2>3, <2>4 DEF Row
<1>3. outbox' \in [Commands -> Row]
  BY <1>2 DEF Tick
<1> QED
  BY <1>1, <1>2, <1>3, RowsStep DEF IInv, TypeOK

(* Server steps that move one request and write nothing: authorisation, a  *)
(* replay, a refusal, a failure.  The reply says what the record holds.    *)
LEMMA ReplyStep ==
  ASSUME IInv, NEW r \in Requests,
         request[r].phase # "FREE",
         NEW new \in Message, request' = [request EXCEPT ![r] = new],
         UNCHANGED <<client, server>>,
         new.cmd = request[r].cmd,
         new.phase # "FREE",
         new.phase = "PROCESSING" => idem[new.cmd] = "NONE" /\ ~KeyLocked(new.cmd),
         new.phase = "REPLIED" =>
           /\ new.reply # "NONE"
           /\ new.reply \in AcceptedCodes => idem[new.cmd] # "NONE"
           /\ new.reply = "ACCEPTED" => idem[new.cmd] = "COMPLETED"
  PROVE  IInv'
<1> USE DEF client, server
<1>1. /\ request'[r] = new
      /\ \A q \in Requests : q # r => request'[q] = request[q]
  BY DEF IInv, TypeOK
<1>2. TypeOK' /\ EffectOK' /\ RowOK' /\ SyncedIsAccepted'
  BY SyncedKept DEF IInv, TypeOK, EffectOK, RowOK
<1>3. RunOK'
  <2>1. \A t \in Tabs : run[t].awaits \in Requests \cup {NoRequest}
    BY DEF IInv, TypeOK, PushRun
  <2> QED
    BY <1>1, <2>1 DEF IInv, RunOK
<1>4. RequestOK'
  <2>1. ASSUME new.phase = "PROCESSING"
        PROVE  \A q \in Requests : q # r /\ request[q].phase = "PROCESSING" =>
                                     request[q].cmd # new.cmd
    BY <2>1 DEF KeyLocked
  <2> QED
    BY <1>1, <2>1 DEF IInv, RequestOK
<1> QED
  BY <1>2, <1>3, <1>4 DEF IInv

LEMMA RefusalStep ==
  ASSUME IInv, NEW r \in Requests, NEW code \in Codes \ AcceptedCodes,
         request[r].phase # "FREE", Reply(r, code), UNCHANGED <<client, server>>
  PROVE  IInv'
<1> DEFINE new == [request[r] EXCEPT !.phase = "REPLIED", !.reply = code]
<1>1. request[r] \in Message
  BY DEF IInv, TypeOK
<1>2. request' = [request EXCEPT ![r] = new]
  BY <1>1 DEF Reply, Message, IInv, TypeOK
<1>3. new \in Message /\ new.phase = "REPLIED" /\ new.reply = code
      /\ new.cmd = request[r].cmd
  BY <1>1 DEF Message, Phases
<1>4. code # "NONE" /\ code # "ACCEPTED"
  BY DEF Codes, AcceptedCodes, RetryableCodes, ReviewCodes, AuthorityCodes
<1> HIDE DEF new
<1> QED
  BY <1>2, <1>3, <1>4, ReplyStep

LEMMA AuthorizeStep ==
  ASSUME IInv, NEW r \in Requests, Authorize(r)
  PROVE  IInv'
<1>1. request[r].phase = "SENT" /\ UNCHANGED <<client, server>>
  BY DEF Authorize
<1>2. ASSUME NEW code \in {"PERMISSION_DENIED", "OFFLINE_RECOVERY_NOT_ALLOWED"},
             Reply(r, code)
      PROVE  IInv'
  <2>1. code \in Codes \ AcceptedCodes
    BY DEF Codes, ReviewCodes, AuthorityCodes, AcceptedCodes
  <2> QED
    BY <1>1, <1>2, <2>1, RefusalStep
<1>3. ASSUME NEW authority \in {"CURRENT", "STALE"},
             request' = [request EXCEPT ![r].phase = "AUTHORIZED",
                                        ![r].authority = authority]
      PROVE  IInv'
  <2> DEFINE new == [request[r] EXCEPT !.phase = "AUTHORIZED", !.authority = authority]
  <2>1. request[r] \in Message
    BY DEF IInv, TypeOK
  <2>2. request' = [request EXCEPT ![r] = new]
    BY <1>3, <2>1 DEF Message, IInv, TypeOK
  <2>3. new \in Message /\ new.phase = "AUTHORIZED" /\ new.cmd = request[r].cmd
    BY <2>1 DEF Message, Phases
  <2> HIDE DEF new
  <2> QED
    BY <1>1, <2>2, <2>3, ReplyStep
<1> QED
  BY <1>2, <1>3 DEF Authorize

LEMMA InsertKeyStep ==
  ASSUME IInv, NEW r \in Requests, InsertKey(r)
  PROVE  IInv'
<1>1. /\ request[r].phase = "AUTHORIZED" /\ ~KeyLocked(request[r].cmd)
      /\ UNCHANGED <<client, server>>
      /\ request[r] \in Message
      /\ request[r].cmd \in Commands
  BY DEF InsertKey, IInv, TypeOK, RequestOK
<1>2. CASE idem[request[r].cmd] = "NONE"
  <2> DEFINE new == [request[r] EXCEPT !.phase = "PROCESSING"]
  <2>1. request' = [request EXCEPT ![r] = new]
    BY <1>1, <1>2 DEF InsertKey, Message, IInv, TypeOK
  <2>2. new \in Message /\ new.phase = "PROCESSING" /\ new.cmd = request[r].cmd
    BY <1>1 DEF Message, Phases
  <2> HIDE DEF new
  <2> QED
    BY <1>1, <1>2, <2>1, <2>2, ReplyStep
<1>3. CASE idem[request[r].cmd] # "NONE"
  <2> DEFINE code == AcceptedCode(r, idem[request[r].cmd])
             new == [request[r] EXCEPT !.phase = "REPLIED", !.reply = code]
  <2>1. code \in Codes /\ code # "NONE"
    BY DEF AcceptedCode, Codes, AcceptedCodes
  <2>2. code = "ACCEPTED" => idem[request[r].cmd] = "COMPLETED"
    BY <1>1, <1>3 DEF AcceptedCode, IInv, TypeOK
  <2> HIDE DEF code
  <2>3. request' = [request EXCEPT ![r] = new]
    BY <1>1, <1>3 DEF InsertKey, Reply, Message, IInv, TypeOK, code
  <2>4. new \in Message /\ new.phase = "REPLIED" /\ new.reply = code
        /\ new.cmd = request[r].cmd
    BY <1>1, <2>1 DEF Message, Phases
  <2> HIDE DEF new
  <2> QED
    BY <1>1, <1>3, <2>1, <2>2, <2>3, <2>4, ReplyStep
<1> QED
  BY <1>2, <1>3

LEMMA RejectStep ==
  ASSUME IInv, NEW r \in Requests, Reject(r)
  PROVE  IInv'
<1>1. request[r].phase = "PROCESSING" /\ UNCHANGED <<client, server>>
  BY DEF Reject
<1>2. PICK code \in {"DOMAIN_CONFLICT", "SHIFT_NOT_OPEN"} : Reply(r, code)
  BY DEF Reject
<1>3. code \in Codes \ AcceptedCodes
  BY DEF Codes, ReviewCodes, AcceptedCodes
<1> QED
  BY <1>1, <1>2, <1>3, RefusalStep

LEMMA FailStep ==
  ASSUME IInv, NEW r \in Requests, Fail(r)
  PROVE  IInv'
<1>1. "INTERNAL_ERROR" \in Codes \ AcceptedCodes
  BY DEF Codes, RetryableCodes, AcceptedCodes
<1> QED
  BY <1>1, RefusalStep DEF Fail

(* The one step that executes a command: its request alone was processing  *)
(* it, and its record did not exist, so nothing said about the record of   *)
(* this command before can have become wrong.                              *)
LEMMA CommitStep ==
  ASSUME IInv, NEW r \in Requests, Commit(r)
  PROVE  IInv'
<1> DEFINE c == request[r].cmd
<1>1. /\ request[r].phase = "PROCESSING"
      /\ applied' = [applied EXCEPT ![c] = @ + 1]
      /\ UNCHANGED <<outbox, sync_status, run, access_state, session>>
  BY DEF Commit, client
<1>2. /\ c \in Commands
      /\ idem[c] = "NONE" /\ applied[c] = 0
      /\ \A q \in Requests : request[q].phase = "PROCESSING" /\ request[q].cmd = c => q = r
  BY <1>1 DEF IInv, RequestOK, EffectOK
<1>3. PICK stored \in {"COMPLETED", "COMPLETED_WARNINGS"} :
        /\ idem' = [idem EXCEPT ![c] = stored]
        /\ Reply(r, AcceptedCode(r, stored))
  BY DEF Commit
<1> DEFINE code == AcceptedCode(r, stored)
           new == [request[r] EXCEPT !.phase = "REPLIED", !.reply = code]
<1>4. code \in AcceptedCodes /\ (code = "ACCEPTED" => stored = "COMPLETED")
  BY DEF AcceptedCode, AcceptedCodes
<1>5. request[r] \in Message /\ request' = [request EXCEPT ![r] = new]
  BY <1>3 DEF Reply, Message, IInv, TypeOK
<1> HIDE DEF code
<1>6. new \in Message /\ new.phase = "REPLIED" /\ new.reply = code /\ new.cmd = c
  BY <1>4, <1>5 DEF Message, Phases, Codes
<1> HIDE DEF new, c
<1>7. /\ request'[r] = new
      /\ \A q \in Requests : q # r => request'[q] = request[q]
      /\ idem'[c] = stored /\ applied'[c] = 1
      /\ \A d \in Commands : d # c => idem'[d] = idem[d] /\ applied'[d] = applied[d]
  BY <1>1, <1>2, <1>3, <1>5 DEF IInv, TypeOK
<1>8. TypeOK'
  BY <1>1, <1>2, <1>3, <1>5, <1>6 DEF IInv, TypeOK
<1>9. EffectOK' /\ RowOK'
  BY <1>1, <1>2, <1>7 DEF IInv, EffectOK, RowOK
<1>10. SyncedIsAccepted'
  BY <1>1, <1>2, <1>7, SyncedKept DEF IInv, RowOK
<1>11. RunOK'
  <2>1. \A t \in Tabs : run[t].awaits \in Requests \cup {NoRequest}
    BY DEF IInv, TypeOK, PushRun
  <2> QED
    BY <1>1, <1>6, <1>7, <2>1 DEF IInv, RunOK, c
<1>12. RequestOK'
  <2>1. outbox[c].status # "ABSENT"
    BY <1>1 DEF IInv, RequestOK, c
  <2>2. code # "NONE"
    BY <1>4 DEF AcceptedCodes
  <2> QED
    BY <1>1, <1>2, <1>4, <1>6, <1>7, <2>1, <2>2 DEF IInv, RequestOK
<1> QED
  BY <1>8, <1>9, <1>10, <1>11, <1>12 DEF IInv

(* Only requests that no tab awaits are lost for good.                     *)
LEMMA DropStep ==
  ASSUME IInv, NEW r \in Requests, Drop(r)
  PROVE  IInv'
<1> USE DEF client, server
<1>1. /\ request' = [request EXCEPT ![r] = FreeRequest]
      /\ \A t \in Tabs : run[t].awaits # r
      /\ UNCHANGED <<client, server>>
  BY DEF Drop
<1>2. /\ request'[r] = FreeRequest
      /\ \A q \in Requests : q # r => request'[q] = request[q]
      /\ request' \in [Requests -> Message]
  <2>1. FreeRequest \in Message
    BY DEF FreeRequest, Message, Phases
  <2> QED
    BY <1>1, <2>1 DEF IInv, TypeOK
<1>3. TypeOK' /\ EffectOK' /\ RowOK' /\ SyncedIsAccepted'
  BY <1>1, <1>2, SyncedKept DEF IInv, TypeOK, EffectOK, RowOK
<1>4. RunOK'
  <2>1. \A t \in Tabs : run[t].awaits \in Requests \cup {NoRequest}
    BY DEF IInv, TypeOK, PushRun
  <2> QED
    BY <1>1, <1>2, <2>1 DEF IInv, RunOK
<1>5. RequestOK'
  BY <1>1, <1>2 DEF IInv, RequestOK, FreeRequest
<1> QED
  BY <1>3, <1>4, <1>5 DEF IInv

LEMMA UnchangedStep ==
  ASSUME IInv, session' \in {"CURRENT", "STALE", "REVOKED"},
         UNCHANGED <<client, request, idem, applied>>
  PROVE  IInv'
<1> USE DEF client
<1>1. TypeOK' /\ EffectOK' /\ RowOK' /\ SyncedIsAccepted'
  BY SyncedKept DEF IInv, TypeOK, EffectOK, RowOK
<1>2. RunOK' /\ RequestOK'
  BY DEF IInv, RunOK, RequestOK
<1> QED
  BY <1>1, <1>2 DEF IInv

-----------------------------------------------------------------------------
(* Every step preserves the invariant.                                     *)
LEMMA NextIInv == IInv /\ [Next]_vars => IInv'
<1> SUFFICES ASSUME IInv, [Next]_vars PROVE IInv'
  OBVIOUS
<1>1. ASSUME NEW c \in Commands, Record(c) PROVE IInv'
  BY <1>1, RecordStep
<1>2. ASSUME NEW t \in Tabs, Claim(t) \/ Crash(t) PROVE IInv'
  BY <1>2, ClaimStep, CrashStep
<1>3. ASSUME NEW t \in Tabs, NEW c \in Commands, KeepForeign(t, c) PROVE IInv'
  BY <1>3, KeepForeignStep
<1>4. ASSUME NEW t \in Tabs, NEW c \in Commands, NEW r \in Requests, Send(t, c, r)
      PROVE  IInv'
  BY <1>4, SendStep
<1>5. ASSUME NEW t \in Tabs, NEW r \in Requests, Receive(t, r) \/ GiveUp(t, r)
      PROVE  IInv'
  BY <1>5, ReceiveStep, GiveUpStep
<1>6. ASSUME AuthorizeRecoveryRetry \/ Tick PROVE IInv'
  BY <1>6, AuthorizeRecoveryRetryStep, TickStep
<1>7. ASSUME NEW r \in Requests, Authorize(r) \/ InsertKey(r) \/ Commit(r)
      PROVE  IInv'
  BY <1>7, AuthorizeStep, InsertKeyStep, CommitStep
<1>8. ASSUME NEW r \in Requests, Reject(r) \/ Fail(r) \/ Drop(r)
      PROVE  IInv'
  BY <1>8, RejectStep, FailStep, DropStep
<1>9. ASSUME ChangeAuthority PROVE IInv'
  BY <1>9, UnchangedStep DEF ChangeAuthority
<1>10. ASSUME UNCHANGED vars PROVE IInv'
  BY <1>10, UnchangedStep DEF vars, client, IInv, TypeOK
<1> QED
  BY <1>1, <1>2, <1>3, <1>4, <1>5, <1>6, <1>7, <1>8, <1>9, <1>10
     DEF Next, Device, Server

(* The invariant is inductive, hence holds in every reachable state.       *)
THEOREM Invariance == Spec => []IInv
  BY InitIInv, NextIInv, PTL DEF Spec

(* Type correctness, for any number of commands, tabs and requests.        *)
THEOREM TypeCorrect == Spec => []TypeOK
<1>1. IInv => TypeOK
  BY DEF IInv
<1> QED
  BY <1>1, Invariance, PTL

(* However often a command is claimed, sent, replayed or processed twice   *)
(* at the same time, it takes effect at most once, and an ACCEPTED row     *)
(* stands for exactly one execution.                                       *)
THEOREM Delivered == Spec => []ExactlyOnce
<1>1. IInv => ExactlyOnce
  BY DEF IInv, ExactlyOnce, EffectOK, RowOK
<1> QED
  BY <1>1, Invariance, PTL

(* A SYNCED record has an accepted, executed command without warnings.     *)
THEOREM SyncedCorrect == Spec => []SyncedIsAccepted
<1>1. IInv => SyncedIsAccepted
  BY DEF IInv
<1> QED
  BY <1>1, Invariance, PTL

(* Warnings of the execution reach the row, replayed or not.               *)
THEOREM WarningsKept == Spec => []ReviewSurvivesReplay
<1>1. IInv => ReviewSurvivesReplay
  BY DEF IInv, ReviewSurvivesReplay, RowOK
<1> QED
  BY <1>1, Invariance, PTL

-----------------------------------------------------------------------------
(* What each step may do to a row, and to the three sets of CommandDelivery.*)
Executed  == {c \in Commands : applied[c] > 0}
Confirmed == {c \in Commands : outbox[c].status = "ACCEPTED"}

(* The three things a step may do to a row.                                *)
RowMoves(c) ==
  \/ outbox'[c] = outbox[c]
  \/ outbox[c].status \notin {"ACCEPTED", "REQUIRES_REVIEW"}
  \/ Recoverable(c) /\ outbox'[c].status = "PENDING" /\ access_state' = "RECOVERY_ONLY"

Stutter == UNCHANGED <<Recorded, Executed, Confirmed>>

LEMMA SettleMoves ==
  ASSUME IInv, NEW t \in Tabs, NEW c \in run[t].todo, NEW code \in Codes,
         code \in AcceptedCodes => idem[c] # "NONE",
         Settle(t, c, code), UNCHANGED applied
  PROVE  /\ \A d \in Commands : RowMoves(d)
         /\ Stutter \/ Delivery!Confirm(c)
<1>1. c \in Commands /\ outbox \in [Commands -> Row]
  BY DEF IInv, TypeOK, PushRun
<1>2. CASE LeaseHeld(t, c)
  <2>1. /\ outbox[c].status = "SENDING"
        /\ outbox'[c].status = SettledStatus(code)
        /\ \A d \in Commands : d # c => outbox'[d] = outbox[d]
    BY <1>1, <1>2 DEF LeaseHeld, Settle, Row
  <2>2. \A d \in Commands : RowMoves(d)
    BY <1>1, <2>1 DEF RowMoves
  <2>3. SettledStatus(code) # "ABSENT"
    BY DEF SettledStatus
  <2>4. Recorded' = Recorded /\ Executed' = Executed
    BY <1>1, <2>1, <2>3 DEF Recorded, Executed
  <2>5. CASE SettledStatus(code) # "ACCEPTED"
    <3>1. Confirmed' = Confirmed
      BY <1>1, <2>1, <2>5 DEF Confirmed
    <3> QED
      BY <2>2, <2>4, <3>1 DEF Stutter
  <2>6. CASE SettledStatus(code) = "ACCEPTED"
    <3>1. Confirmed' = Confirmed \cup {c} /\ c \notin Confirmed
      BY <1>1, <2>1, <2>6 DEF Confirmed
    <3>2. code \in AcceptedCodes
      BY <2>6 DEF SettledStatus
    <3>3. c \in Executed
      BY <1>1, <3>2 DEF Executed, IInv, EffectOK
    <3>4. Delivery!Confirm(c)
      BY <2>4, <3>1, <3>3 DEF Delivery!Confirm, Executed, Confirmed
    <3> QED
      BY <2>2, <3>4
  <2> QED
    BY <2>5, <2>6
<1>3. CASE ~LeaseHeld(t, c)
  BY <1>3 DEF Settle, RowMoves, Stutter, Recorded, Executed, Confirmed
<1> QED
  BY <1>2, <1>3

LEMMA StepMoves ==
  ASSUME IInv, [Next]_vars
  PROVE  /\ \A d \in Commands : RowMoves(d)
         /\ Stutter \/ \E c \in Commands : \/ Delivery!Record(c)
                                           \/ Delivery!Execute(c)
                                           \/ Delivery!Confirm(c)
<1> DEFINE Goal == /\ \A d \in Commands : RowMoves(d)
                   /\ Stutter \/ \E c \in Commands : \/ Delivery!Record(c)
                                                     \/ Delivery!Execute(c)
                                                     \/ Delivery!Confirm(c)
<1> SUFFICES Goal
  OBVIOUS
<1>0. outbox \in [Commands -> Row]
  BY DEF IInv, TypeOK
<1>1. ASSUME UNCHANGED <<outbox, applied>> PROVE Goal
  BY <1>1 DEF RowMoves, Stutter, Recorded, Executed, Confirmed
<1>2. ASSUME NEW c \in Commands, Record(c) PROVE Goal
  <2>1. /\ outbox[c].status = "ABSENT" /\ outbox'[c].status = "PENDING"
        /\ \A d \in Commands : d # c => outbox'[d] = outbox[d]
        /\ UNCHANGED applied
    BY <1>0, <1>2 DEF Record, server, Row
  <2>2. \A d \in Commands : RowMoves(d)
    BY <2>1 DEF RowMoves
  <2>3. /\ Recorded' = Recorded \cup {c} /\ c \notin Recorded
        /\ Executed' = Executed /\ Confirmed' = Confirmed
    BY <2>1 DEF Recorded, Executed, Confirmed
  <2>4. Delivery!Record(c)
    BY <2>3 DEF Delivery!Record, Executed, Confirmed
  <2> QED
    BY <2>2, <2>4
<1>3. ASSUME NEW t \in Tabs, Claim(t) PROVE Goal
  <2>1. /\ UNCHANGED applied
        /\ \A d \in Commands :
             \/ outbox'[d] = outbox[d]
             \/ Claimable(d) /\ outbox'[d].status = "SENDING"
    <3>1. PICK batch \in SUBSET Commands :
            /\ \A d \in batch : Claimable(d)
            /\ outbox' = [d \in Commands |->
                 IF d \in batch
                   THEN [outbox[d] EXCEPT !.status = "SENDING", !.lease = Lease,
                           !.attempt_count = Smaller(outbox[d].attempt_count + 1,
                                                     AttemptCap)]
                   ELSE outbox[d]]
      BY <1>3 DEF Claim, IsClaim
    <3>2. ASSUME NEW d \in batch PROVE outbox'[d].status = "SENDING"
      <4>1. outbox'[d] = [outbox[d] EXCEPT !.status = "SENDING", !.lease = Lease,
                            !.attempt_count = Smaller(outbox[d].attempt_count + 1,
                                                      AttemptCap)]
        BY <3>1
      <4> QED
        BY ONLY <4>1, <1>0, <3>1, d \in Commands DEF Row
    <3>3. UNCHANGED applied
      BY <1>3 DEF Claim, server
    <3> QED
      BY <3>1, <3>2, <3>3
  <2>2. \A d \in Commands : Claimable(d) =>
          outbox[d].status \in {"PENDING", "SENDING", "FAILED_RETRYABLE"}
    BY DEF Claimable
  <2> QED
    BY <2>1, <2>2 DEF RowMoves, Stutter, Recorded, Executed, Confirmed
<1>4. ASSUME NEW t \in Tabs, NEW c \in Commands, KeepForeign(t, c) PROVE Goal
  <2>1. /\ c \in run[t].todo
        /\ Settle(t, c, "OUTBOX_CONTEXT_MISMATCH") /\ UNCHANGED applied
    BY <1>4 DEF KeepForeign, IsNext, server
  <2>2. /\ "OUTBOX_CONTEXT_MISMATCH" \in Codes
        /\ "OUTBOX_CONTEXT_MISMATCH" \notin AcceptedCodes
    BY DEF Codes, ReviewCodes, AcceptedCodes
  <2> QED
    BY <2>1, <2>2, SettleMoves
<1>5. ASSUME NEW t \in Tabs, NEW r \in Requests, Receive(t, r) \/ GiveUp(t, r)
      PROVE  Goal
  <2> DEFINE c == request[r].cmd
  <2>1. c \in run[t].todo /\ c \in Commands
    BY <1>5, SyncPushAssumption DEF Receive, GiveUp, IInv, RunOK, TypeOK, PushRun
  <2>2. PICK code \in Codes : /\ Settle(t, c, code) /\ UNCHANGED applied
                              /\ code \in AcceptedCodes => idem[c] # "NONE"
    <3>1. CASE Receive(t, r)
      <4>1. request[r].reply \in Codes
        BY <3>1 DEF Receive, IInv, TypeOK, Message, RequestOK
      <4> QED
        BY <3>1, <4>1 DEF Receive, server, IInv, RequestOK
    <3>2. CASE GiveUp(t, r)
      <4>1. PICK code \in {"NETWORK_UNKNOWN_RESULT", "SYNC_PROTOCOL_ERROR"} :
              Settle(t, c, code)
        BY <3>2 DEF GiveUp
      <4>2. code \in Codes /\ code \notin AcceptedCodes
        BY DEF Codes, ReviewCodes, RetryableCodes, AcceptedCodes
      <4> QED
        BY <3>2, <4>1, <4>2 DEF GiveUp, server
    <3> QED
      BY <1>5, <3>1, <3>2
  <2> HIDE DEF c
  <2> QED
    BY <2>1, <2>2, SettleMoves
<1>6. ASSUME AuthorizeRecoveryRetry PROVE Goal
  <2>1. /\ UNCHANGED applied /\ access_state' = "RECOVERY_ONLY"
        /\ \A d \in Commands :
             \/ outbox'[d] = outbox[d]
             \/ Recoverable(d) /\ outbox'[d].status = "PENDING"
    BY <1>0, <1>6, ReopenedRow DEF AuthorizeRecoveryRetry, server
  <2>2. \A d \in Commands : Recoverable(d) => outbox[d].status = "REQUIRES_REVIEW"
    BY DEF Recoverable
  <2> QED
    BY <2>1, <2>2 DEF RowMoves, Stutter, Recorded, Executed, Confirmed
<1>7. ASSUME Tick PROVE Goal
  <2>1. UNCHANGED applied
    BY <1>7 DEF Tick, server
  <2>2. ASSUME NEW d \in Commands
        PROVE  outbox'[d].status = outbox[d].status /\ RowMoves(d)
    <3>1. outbox[d] \in Row
      BY <1>0
    <3> DEFINE l == Remaining(outbox[d].lease)
               b == Remaining(outbox[d].backoff)
    <3>2. outbox'[d] = [outbox[d] EXCEPT !.lease = l, !.backoff = b]
      BY <1>7 DEF Tick
    <3>3. outbox[d].status \in {"ACCEPTED", "REQUIRES_REVIEW"} =>
            l = outbox[d].lease /\ b = outbox[d].backoff
      BY DEF IInv, RowOK, Remaining
    <3> HIDE DEF l, b
    <3>4. /\ outbox'[d].status = outbox[d].status
          /\ \/ outbox'[d] = outbox[d]
             \/ outbox[d].status \notin {"ACCEPTED", "REQUIRES_REVIEW"}
      BY ONLY <3>1, <3>2, <3>3 DEF Row
    <3> QED
      BY <3>4 DEF RowMoves
  <2> QED
    BY <2>1, <2>2 DEF Stutter, Recorded, Executed, Confirmed
<1>8. ASSUME NEW r \in Requests, Commit(r) PROVE Goal
  <2>1. PICK c \in Commands :
           /\ c = request[r].cmd /\ outbox[c].status # "ABSENT" /\ applied[c] = 0
           /\ applied' = [applied EXCEPT ![c] = @ + 1] /\ UNCHANGED outbox
    BY <1>8 DEF Commit, client, IInv, RequestOK, EffectOK
  <2>2. applied'[c] = 1 /\ \A d \in Commands : d # c => applied'[d] = applied[d]
    BY <2>1 DEF IInv, TypeOK
  <2>3. /\ Executed' = Executed \cup {c} /\ c \notin Executed /\ c \in Recorded
        /\ Recorded' = Recorded /\ Confirmed' = Confirmed
    BY <2>1, <2>2 DEF Recorded, Executed, Confirmed
  <2>4. Delivery!Execute(c)
    BY <2>3 DEF Delivery!Execute, Executed, Confirmed
  <2>5. \A d \in Commands : RowMoves(d)
    BY <2>1 DEF RowMoves
  <2> QED
    BY <2>1, <2>4, <2>5
<1> HIDE DEF Goal
<1>9. ASSUME \/ \E t \in Tabs : Crash(t)
             \/ \E t \in Tabs, c \in Commands, r \in Requests : Send(t, c, r)
             \/ \E r \in Requests : \/ Authorize(r) \/ InsertKey(r) \/ Reject(r)
                                    \/ Fail(r) \/ Drop(r)
             \/ ChangeAuthority \/ UNCHANGED vars
      PROVE  Goal
  BY <1>1, <1>9 DEF Send, Crash, ChangeAuthority, vars, Authorize, InsertKey, Reject,
                    Fail, Drop, client, server
<1> QED
  BY <1>2, <1>3, <1>4, <1>5, <1>6, <1>7, <1>8, <1>9 DEF Next, Device, Server

(* Verdicts are final, except that an approved recovery reopens rows under *)
(* review for an authority code.                                           *)
THEOREM FinalVerdicts == Spec => VerdictIsFinal
<1>1. IInv /\ [Next]_vars =>
        [\A c \in Commands :
           /\ outbox[c].status = "ACCEPTED" => outbox'[c] = outbox[c]
           /\ outbox[c].status = "REQUIRES_REVIEW" /\ outbox'[c] # outbox[c] =>
                /\ outbox'[c].status = "PENDING" /\ access_state' = "RECOVERY_ONLY"
                /\ c \in Granted /\ outbox[c].last_error \in AuthorityCodes]_vars
  BY StepMoves DEF RowMoves, Recoverable
<1> QED
  BY <1>1, Invariance, PTL DEF Spec, VerdictIsFinal

(* SyncPush implements CommandDelivery: recording, executing and           *)
(* confirming a command are the only steps the business can see.           *)
THEOREM Implements == Spec => DeliverySpec
<1>1. Init => Delivery!Init
  BY DEF Init, Delivery!Init, Recorded
<1>2. IInv /\ [Next]_vars =>
        [Delivery!Next]_<<Recorded, {c \in Commands : applied[c] > 0},
                          {c \in Commands : outbox[c].status = "ACCEPTED"}>>
  BY StepMoves DEF Delivery!Next, Stutter, Executed, Confirmed
<1> QED
  BY <1>1, <1>2, Invariance, PTL DEF Spec, DeliverySpec, Delivery!Spec
=============================================================================
