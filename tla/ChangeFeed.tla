----------------------------- MODULE ChangeFeed -----------------------------
(***************************************************************************)
(* How master data comes back to a POS device.  Commands append rows to    *)
(* sync.change_feed inside their transaction (appendChange); a device      *)
(* pulls pages after its cursor, applies each page and its next cursor in  *)
(* one IndexedDB transaction, and acknowledges; a bootstrap replaces the   *)
(* whole local projection.  Every browser tab of the device runs its own   *)
(* orchestrator against the same local tables.                             *)
(*                                                                         *)
(* The projection is abstracted to `known`: the changes whose effect the   *)
(* local tables show.                                                      *)
(***************************************************************************)
EXTENDS Integers, FiniteSets, FiniteSetsExt

CONSTANTS
  Writers,       \* API requests whose transactions may overlap
  Tabs,          \* browser tabs of the device
  MaxSequence,   \* bound: change rows ever appended
  PullLimit,     \* pullLimit: rows of a page
  MaxPullPages   \* maxPullPages: pages of one pull run

ASSUME ChangeFeedAssumption ==
  /\ MaxSequence \in Nat
  /\ PullLimit \in Nat \ {0}
  /\ MaxPullPages \in Nat \ {0}

VARIABLES
  last_value,    \* the BIGSERIAL counter of change_feed.sequence
  kind,          \* kind[s]: what the row with sequence s is about
  writer,        \* rows appended by the open transaction of each request
  change_feed,   \* committed rows, by sequence
  last_ack,      \* device_sync_states.last_ack_sequence
  cursor,        \* sync_state.cursor of the device
  known,         \* changes the local projection shows
  run,           \* the pull or bootstrap of each tab
  exposed        \* history: rows committed out of order, or taken back by a bootstrap

vars == <<last_value, kind, writer, change_feed, last_ack, cursor, known, run, exposed>>
local == <<cursor, known>>
feed == <<last_value, kind, writer, change_feed, exposed>>

Sequences == 1..MaxSequence

(* PROJECTION: a projection the POS can apply; PARTIAL: one whose payload  *)
(* it cannot parse; EVENT: an observed event; HIDDEN: of a type the POS    *)
(* does not take; ELSEWHERE: of another location.                          *)
Kinds == {"PROJECTION", "PARTIAL", "EVENT", "HIDDEN", "ELSEWHERE"}

Run == [phase : {"IDLE", "PULL", "PAGE", "APPLY", "ACK", "BOOTSTRAP", "SNAPSHOT"},
        cursor : 0..MaxSequence,     \* of the run, not of sync_state
        rows : SUBSET Sequences,     \* rows of the response
        next : 0..MaxSequence,       \* its next_cursor or sync_cursor
        more : {"YES", "NO"},        \* its has_more
        expected : 0..MaxSequence,   \* expected_cursor of the apply
        pages : 0..MaxPullPages]

Idle == [phase |-> "IDLE", cursor |-> 0, rows |-> {}, next |-> 0, more |-> "NO",
         expected |-> 0, pages |-> 0]

TypeOK ==
  /\ last_value \in 0..MaxSequence
  /\ kind \in [Sequences -> Kinds]
  /\ writer \in [Writers -> SUBSET Sequences]
  /\ change_feed \subseteq 1..last_value
  /\ last_ack \in 0..MaxSequence
  /\ cursor \in 0..MaxSequence
  /\ known \subseteq Sequences
  /\ run \in [Tabs -> Run]
  /\ exposed \subseteq change_feed

Init ==
  /\ last_value = 0
  /\ kind = [s \in Sequences |-> "HIDDEN"]
  /\ writer = [w \in Writers |-> {}]
  /\ change_feed = {}
  /\ last_ack = 0
  /\ cursor = 0
  /\ known = {}
  /\ run = [t \in Tabs |-> Idle]
  /\ exposed = {}

(* COALESCE(max(sequence), 0)                                              *)
Latest(rows) == Max(rows \cup {0})

Projections(rows) == {s \in rows : kind[s] \in {"PROJECTION", "PARTIAL"}}

-----------------------------------------------------------------------------
(* The server's writers.  A sequence number is taken when the row is       *)
(* inserted, and stays taken whatever becomes of the transaction.          *)

AppendChange(w) ==
  /\ last_value < MaxSequence
  /\ \E k \in Kinds : kind' = [kind EXCEPT ![last_value + 1] = k]
  /\ last_value' = last_value + 1
  /\ writer' = [writer EXCEPT ![w] = @ \cup {last_value + 1}]
  /\ UNCHANGED <<change_feed, last_ack, local, run, exposed>>

CommitTransaction(w) ==
  /\ writer[w] # {}
  /\ change_feed' = change_feed \cup writer[w]
  /\ exposed' = exposed \cup {s \in writer[w] : s < Latest(change_feed)}
  /\ writer' = [writer EXCEPT ![w] = {}]
  /\ UNCHANGED <<last_value, kind, last_ack, local, run>>

AbortTransaction(w) ==
  /\ writer[w] # {}
  /\ writer' = [writer EXCEPT ![w] = {}]
  /\ UNCHANGED <<last_value, kind, change_feed, last_ack, local, run, exposed>>

-----------------------------------------------------------------------------
(* A pull run of a tab.                                                    *)

StartPull(t) ==
  /\ run[t].phase = "IDLE"
  /\ run' = [run EXCEPT ![t] = [Idle EXCEPT !.phase = "PULL", !.cursor = cursor]]
  /\ UNCHANGED <<feed, last_ack, local>>

(* Faulty: the page is cut after the rows the POS does not take have been  *)
(* removed, but the cursor still covers every row read.                    *)
PageNextOvershoots(after) ==
  LET rows == {s \in change_feed : s > after /\ kind[s] # "ELSEWHERE"}
      taken == {s \in rows : Cardinality({r \in rows : r < s}) < PullLimit} IN
  [rows |-> {s \in taken : kind[s] # "HIDDEN"},
   next |-> IF taken = {} THEN after ELSE last_value,
   more |-> IF rows = taken THEN "NO" ELSE "YES"]

(* The response of pull: the first PullLimit rows after the cursor for     *)
(* this location; types the POS does not take are left out afterwards.     *)
Page(after) ==
  LET rows == {s \in change_feed : s > after /\ kind[s] # "ELSEWHERE"}
      taken == {s \in rows : Cardinality({r \in rows : r < s}) < PullLimit} IN
  [rows |-> {s \in taken : kind[s] # "HIDDEN"},
   next |-> IF taken = {} THEN after ELSE Latest(taken),
   more |-> IF rows = taken THEN "NO" ELSE "YES"]

ServePull(t) ==
  LET page == Page(run[t].cursor) IN
  /\ run[t].phase = "PULL"
  /\ run' = [run EXCEPT ![t].phase = "PAGE", ![t].rows = page.rows,
                        ![t].next = page.next, ![t].more = page.more]
  /\ UNCHANGED <<feed, last_ack, local>>

(* The payload of the row has every field its local table needs.           *)
Parses(s) == kind[s] # "PARTIAL"

(* Faulty: a protocol error ends the run, to be tried again.               *)
ReadExpectedNoBootstrap(t) ==
  LET broken == \/ \E s \in run[t].rows : ~Parses(s)
                \/ run[t].more = "YES" /\ run[t].next = run[t].cursor IN
  /\ run[t].phase = "PAGE"
  /\ run' = [run EXCEPT ![t] =
       IF broken THEN Idle
                 ELSE [run[t] EXCEPT !.phase = "APPLY", !.expected = cursor]]
  /\ UNCHANGED <<feed, last_ack, local>>

(* applyPullAtomically: a row that cannot be parsed, or more pages without *)
(* progress, is a protocol error, which runSync answers with a bootstrap.  *)
(* Otherwise the stored cursor is read again as the expected one.          *)
ReadExpected(t) ==
  LET broken == \/ \E s \in run[t].rows : ~Parses(s)
                \/ run[t].more = "YES" /\ run[t].next = run[t].cursor IN
  /\ run[t].phase = "PAGE"
  /\ run' = [run EXCEPT ![t] =
       IF broken THEN [Idle EXCEPT !.phase = "BOOTSTRAP"]
                 ELSE [run[t] EXCEPT !.phase = "APPLY", !.expected = cursor]]
  /\ UNCHANGED <<feed, last_ack, local>>

(* Faulty: next_cursor is not compared with the stored cursor.             *)
PageFitsAnyCursor(r) == \A s \in r.rows : s <= r.next

(* What applyProjectionPage checks in its transaction.                     *)
PageFits(r) ==
  /\ r.next >= r.expected
  /\ cursor = r.expected
  /\ \A s \in r.rows : r.expected < s /\ s <= r.next

(* applyProjectionPage: the rows of the page and next_cursor, in one       *)
(* transaction; anything else ends the run.                                *)
ApplyPage(t) ==
  LET r == run[t] IN
  /\ r.phase = "APPLY"
  /\ IF PageFits(r)
       THEN /\ known' = known \cup r.rows
            /\ cursor' = r.next
            /\ run' = [run EXCEPT ![t] =
                 [Idle EXCEPT
                    !.phase = IF r.more = "YES" /\ r.pages + 1 < MaxPullPages
                                THEN "PULL" ELSE "ACK",
                    !.cursor = r.next, !.pages = r.pages + 1]]
       ELSE /\ run' = [run EXCEPT ![t] = Idle]
            /\ UNCHANGED local
  /\ UNCHANGED <<feed, last_ack>>

(* GREATEST(last_ack_sequence, EXCLUDED.last_ack_sequence)                 *)
AckGreatest(old, new) == IF new > old THEN new ELSE old

(* acknowledge: refused when the cursor is ahead of the feed.              *)
Acknowledge(t) ==
  /\ run[t].phase = "ACK"
  /\ last_ack' = IF run[t].cursor > Latest(change_feed) THEN last_ack
                 ELSE AckGreatest(last_ack, run[t].cursor)
  /\ run' = [run EXCEPT ![t] = Idle]
  /\ UNCHANGED <<feed, local>>

-----------------------------------------------------------------------------
(* A bootstrap: one REPEATABLE READ snapshot of the tables and the feed.   *)

ServeBootstrap(t) ==
  /\ run[t].phase = "BOOTSTRAP"
  /\ run' = [run EXCEPT ![t].phase = "SNAPSHOT", ![t].rows = change_feed,
                        ![t].next = Latest(change_feed)]
  /\ UNCHANGED <<feed, last_ack, local>>

BootstrapCursor(t) == run[t].next

(* applyBootstrapSnapshot: rows of the projection that the snapshot lacks  *)
(* are deleted and its own are put; observed events stay.                  *)
Replaced(rows) == Projections(rows) \cup (known \ Projections(known))

(* applyBootstrapAtomically: projection and cursor are replaced, whatever  *)
(* they are by now.                                                        *)
ApplyBootstrap(t) ==
  /\ run[t].phase = "SNAPSHOT"
  /\ known' = Replaced(run[t].rows)
  /\ cursor' = BootstrapCursor(t)
  /\ exposed' = exposed \cup (Projections(known) \ run[t].rows)
  /\ run' = [run EXCEPT ![t] = Idle]
  /\ UNCHANGED <<last_value, kind, writer, change_feed, last_ack>>

(* The network or the server fails a request of the run.                   *)
FailRequest(t) ==
  /\ run[t].phase \in {"PULL", "ACK", "BOOTSTRAP"}
  /\ run' = [run EXCEPT ![t] = Idle]
  /\ UNCHANGED <<feed, last_ack, local>>

(* The tab is loaded (again): online it begins with a bootstrap, offline   *)
(* with what is stored.                                                    *)
LoadTab(t) ==
  /\ \E phase \in {"IDLE", "BOOTSTRAP"} :
       run' = [run EXCEPT ![t] = [Idle EXCEPT !.phase = phase]]
  /\ run' # run
  /\ UNCHANGED <<feed, last_ack, local>>

-----------------------------------------------------------------------------
(* The regular steps of a tab's run.                                       *)
Synchronise(t) ==
  \/ StartPull(t) \/ ServePull(t) \/ ReadExpected(t) \/ ApplyPage(t)
  \/ Acknowledge(t) \/ ServeBootstrap(t) \/ ApplyBootstrap(t)

Next ==
  \/ \E w \in Writers : AppendChange(w) \/ CommitTransaction(w) \/ AbortTransaction(w)
  \/ \E t \in Tabs : Synchronise(t) \/ FailRequest(t) \/ LoadTab(t)

Spec == Init /\ [][Next]_vars

(* Every tab synchronises on a timer; requests fail and tabs are reloaded, *)
(* but not forever.  (A failed request may look like a regular step, such  *)
(* as an acknowledgement of what is known already; that step is no fault.) *)
Fairness ==
  /\ \A t \in Tabs : WF_vars(Synchronise(t))
  /\ <>[][\A t \in Tabs : FailRequest(t) \/ LoadTab(t) => Synchronise(t)]_vars

FairSpec == Spec /\ Fairness

-----------------------------------------------------------------------------
(* Correctness.                                                            *)

(* The device never skips a change: every committed projection change at   *)
(* or before the stored cursor shows in the local tables (pull only reads  *)
(* after the cursor, so one that is missing there stays missing).          *)
NoLostChange ==
  \A s \in Projections(change_feed) :
    s <= cursor => s \in known

(* The same but for two causes: a row committed after one with a higher    *)
(* sequence, and a row that a bootstrap read before it took back from the  *)
(* local tables while another tab was pulling.  Pages, tabs, protocol      *)
(* errors, failed requests and gaps of aborted transactions lose nothing.  *)
NoOtherLoss ==
  \A s \in Projections(change_feed) \ exposed :
    s <= cursor => s \in known

(* The local tables show committed changes only, the acknowledgements of   *)
(* a device never overtake the feed, so CURSOR_AHEAD_OF_SERVER is never    *)
(* raised by a run of this client, and the server's view of the device     *)
(* never overtakes what some run of it applied.                            *)
NeverAhead ==
  /\ known \subseteq change_feed
  /\ cursor <= Latest(change_feed)
  /\ last_ack <= Latest(change_feed)
  /\ \A t \in Tabs : run[t].phase = "ACK" => run[t].cursor <= Latest(change_feed)

(* The acknowledged cursor never goes back, whatever the order in which    *)
(* the acknowledgements of two tabs arrive, and the stored cursor goes     *)
(* back only when a bootstrap replaces the projection with it.             *)
CursorsAdvance ==
  [][/\ last_ack' >= last_ack
     /\ cursor' < cursor => \E t \in Tabs : ApplyBootstrap(t)]_vars

(* A change committed in order reaches the device: page limits, rows it    *)
(* cannot parse, gaps left by aborted transactions, another tab and failed *)
(* requests delay it but never keep it from the local tables.              *)
EventuallyKnown ==
  \A s \in Sequences :
    (s \in change_feed \ exposed /\ kind[s] \in {"PROJECTION", "PARTIAL"}) ~> s \in known
=============================================================================
