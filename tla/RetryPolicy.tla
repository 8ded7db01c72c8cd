---------------------------- MODULE RetryPolicy ----------------------------
(***************************************************************************)
(* The retry policy of the sync client (packages/sync-client/src/retry.ts) *)
(* and the meaning the orchestrator and the server give to result codes.   *)
(* Pure definitions: SyncPush uses the classification, its MC modules use  *)
(* ExponentialBackoff to give SyncPush its delays.                         *)
(***************************************************************************)
EXTENDS Integers

Smaller(a, b) == IF a <= b THEN a ELSE b
Larger(a, b)  == IF a >= b THEN a ELSE b

(***************************************************************************)
(* Result codes a push of one command can end with.  PERMISSION_DENIED     *)
(* stands for the four authority codes (SESSION_INVALID, DEVICE_REVOKED,   *)
(* MEMBERSHIP_INACTIVE, PERMISSION_DENIED); SHIFT_NOT_OPEN for the three   *)
(* codes of a command whose shift the server does not have;                *)
(* DOMAIN_CONFLICT for every other 4xx of a command handler; and           *)
(* INTERNAL_ERROR for every 5xx.                                           *)
(***************************************************************************)
AcceptedCodes  == {"ACCEPTED", "ACCEPTED_WITH_REVIEW"}
AuthorityCodes == {"PERMISSION_DENIED"}
RetryableCodes == {"NETWORK_UNKNOWN_RESULT", "INTERNAL_ERROR"}
ReviewCodes    == AuthorityCodes \cup
                    {"OFFLINE_RECOVERY_NOT_ALLOWED", "SHIFT_NOT_OPEN",
                     "DOMAIN_CONFLICT", "SYNC_PROTOCOL_ERROR",
                     "OUTBOX_CONTEXT_MISMATCH"}
Codes          == AcceptedCodes \cup RetryableCodes \cup ReviewCodes

(* Faulty: an unknown outcome is taken for an acceptance.                  *)
SettledOptimistic(code) ==
  CASE code \in AcceptedCodes \cup {"NETWORK_UNKNOWN_RESULT"} -> "ACCEPTED"
    [] code = "INTERNAL_ERROR" -> "FAILED_RETRYABLE"
    [] OTHER -> "REQUIRES_REVIEW"

(* The outbox status a result code settles a row with.                     *)
SettledStatus(code) ==
  CASE code \in AcceptedCodes  -> "ACCEPTED"
    [] code \in RetryableCodes -> "FAILED_RETRYABLE"
    [] OTHER                   -> "REQUIRES_REVIEW"

(* Faulty: every final verdict turns the record green.                     *)
SettledAlwaysSynced(code) == "SYNCED"

(* The sync_status the settlement leaves on the aggregate of the command.  *)
SettledSyncStatus(code) ==
  IF code = "ACCEPTED" THEN "SYNCED" ELSE "REQUIRES_REVIEW"

(* Delay before attempt n + 1: doubled on each failure, capped, and never  *)
(* below what a Retry-After header asks for.                               *)
ExponentialBackoff(n, base, max, minimum) ==
  Larger(Smaller(max, base * 2 ^ Smaller(30, Larger(1, n) - 1)), minimum)
=============================================================================
