-------------------------- MODULE ChangeFeedProofs --------------------------
(***************************************************************************)
(* Theorems about ChangeFeed: a device loses no change but for the two     *)
(* causes `exposed` records, is never ahead of the feed, and moves its     *)
(* cursors back only with a bootstrap, for any number of tabs, writers and *)
(* changes and any page size.                                              *)
(***************************************************************************)
EXTENDS ChangeFeed, FiniteFacts, TLAPS

(* Committed projection changes outside the two known causes of loss, and  *)
(* those of them the device does not show.                                 *)
Unexposed == Projections(change_feed) \ exposed
Missing == Unexposed \ known

(* An open transaction holds rows of its own that are not committed.       *)
WriterOK ==
  /\ \A w \in Writers : writer[w] \subseteq 1 .. last_value /\ writer[w] \cap change_feed = {}
  /\ \A v, w \in Writers : v # w => writer[v] \cap writer[w] = {}

(* The cursor a run started from, and the answer it holds, miss nothing:   *)
(* what the device does not show lies after the cursor of the run, and is  *)
(* in its page if it lies before the next one; a snapshot holds all.       *)
RunOK(r) ==
  /\ r.phase \in {"PULL", "PAGE", "APPLY", "ACK"} => r.cursor <= Latest(change_feed)
  /\ r.phase \in {"PULL", "PAGE", "APPLY"} =>
       r.pages < MaxPullPages /\ \A s \in Missing : r.cursor < s
  /\ r.phase \in {"PAGE", "APPLY", "SNAPSHOT"} =>
       r.rows \subseteq change_feed /\ r.next <= Latest(change_feed)
  /\ r.phase \in {"PAGE", "APPLY"} => \A s \in Missing : s <= r.next => s \in r.rows
  /\ r.phase = "SNAPSHOT" => \A s \in Unexposed : s <= r.next => s \in r.rows

RunsOK == \A t \in Tabs : RunOK(run[t])

IInv == TypeOK /\ WriterOK /\ RunsOK /\ NeverAhead /\ NoOtherLoss

-----------------------------------------------------------------------------
(* The highest sequence of a set of rows.                                  *)
LEMMA LatestIs ==
  ASSUME NEW R \in SUBSET Sequences
  PROVE  /\ Latest(R) \in R \cup {0} /\ Latest(R) \in 0 .. MaxSequence
         /\ \A s \in R : s <= Latest(R)
<1>1. R \cup {0} \subseteq Int /\ R \cup {0} # {}
  BY ChangeFeedAssumption DEF Sequences
<1>2. IsFiniteSet(R \cup {0})
  <2>1. IsFiniteSet(R)
    <3>1. 1 \in Int /\ MaxSequence \in Int
      BY ChangeFeedAssumption
    <3>2. IsFiniteSet(1 .. MaxSequence)
      BY <3>1, FS_Interval
    <3>3. QED
      BY <3>2, FS_Subset DEF Sequences
  <2>2. QED
    BY <2>1, FS_AddElement
<1>3. Latest(R) \in R \cup {0} /\ \A s \in R \cup {0} : s <= Latest(R)
  BY <1>1, <1>2, MaxIsGreatest DEF Latest
<1>4. R \cup {0} \subseteq 0 .. MaxSequence
  BY ChangeFeedAssumption DEF Sequences
<1>5. QED
  BY <1>3, <1>4

LEMMA LatestGrows ==
  ASSUME NEW R \in SUBSET Sequences, NEW Q \in SUBSET Sequences, R \subseteq Q
  PROVE  Latest(R) <= Latest(Q)
<1>1. Latest(R) \in R \cup {0} /\ Latest(R) \in Int /\ Latest(Q) \in Nat
  BY LatestIs, ChangeFeedAssumption
<1>2. \A s \in Q : s <= Latest(Q)
  BY LatestIs
<1>3. QED
  BY <1>1, <1>2

LEMMA FeedType ==
  ASSUME TypeOK
  PROVE  /\ change_feed \in SUBSET Sequences
         /\ Latest(change_feed) \in change_feed \cup {0}
         /\ Latest(change_feed) \in 0 .. MaxSequence
         /\ \A s \in change_feed : s <= Latest(change_feed)
<1>1. change_feed \in SUBSET Sequences
  BY ChangeFeedAssumption DEF TypeOK, Sequences
<1>2. QED
  BY <1>1, LatestIs

(* A page holds every projection change between its two cursors.           *)
LEMMA PageIsComplete ==
  ASSUME TypeOK, NEW after \in 0 .. MaxSequence, after <= Latest(change_feed)
  PROVE  /\ Page(after).rows \subseteq change_feed
         /\ Page(after).next \in 0 .. MaxSequence
         /\ Page(after).next <= Latest(change_feed)
         /\ Page(after).more \in {"YES", "NO"}
         /\ \A s \in Projections(change_feed) :
              after < s /\ s <= Page(after).next => s \in Page(after).rows
<1> DEFINE rows == {s \in change_feed : s > after /\ kind[s] # "ELSEWHERE"}
           taken == {s \in rows : Cardinality({r \in rows : r < s}) < PullLimit}
<1>1. /\ Page(after).rows = {s \in taken : kind[s] # "HIDDEN"}
      /\ Page(after).next = IF taken = {} THEN after ELSE Latest(taken)
      /\ Page(after).more \in {"YES", "NO"}
  BY DEF Page
<1>2. rows \subseteq change_feed /\ taken \subseteq rows /\ taken \in SUBSET Sequences
  BY FeedType
<1>3. Latest(taken) \in taken \cup {0} /\ Latest(taken) \in 0 .. MaxSequence
  BY <1>2, LatestIs
<1>4. Latest(taken) <= Latest(change_feed)
  BY <1>2, FeedType, LatestGrows
<1>5. ASSUME NEW s \in taken, NEW r \in rows, r <= s
      PROVE  r \in taken
  <2>1. IsFiniteSet(rows)
    <3>1. rows \in SUBSET (1 .. MaxSequence) /\ IsFiniteSet(1 .. MaxSequence)
      BY <1>2, FeedType, FS_Interval, ChangeFeedAssumption DEF Sequences
    <3>2. QED
      BY <3>1, FS_Subset
  <2>2. r \in Int /\ s \in Int
    BY <1>2, FeedType DEF Sequences
  <2>3. {q \in rows : q < r} \in SUBSET {q \in rows : q < s}
    <3>1. \A q \in rows : q \in Int
      BY <1>2, FeedType DEF Sequences
    <3>2. SUFFICES ASSUME NEW q \in rows, q < r PROVE q < s
      OBVIOUS
    <3>3. q \in Int
      BY <3>1
    <3>4. QED
      BY <1>5, <2>2, <3>2, <3>3
  <2>4. IsFiniteSet({q \in rows : q < s}) /\ IsFiniteSet({q \in rows : q < r})
    BY <2>1, FS_Subset
  <2>5. Cardinality({q \in rows : q < r}) <= Cardinality({q \in rows : q < s})
    BY <2>3, <2>4, FS_Subset
  <2>6. Cardinality({q \in rows : q < r}) \in Nat /\ Cardinality({q \in rows : q < s}) \in Nat
    BY <2>4, FS_CardinalityType
  <2>7. QED
    BY <1>5, <2>5, <2>6, ChangeFeedAssumption
<1>6. ASSUME NEW s \in Projections(change_feed), after < s, s <= Page(after).next
      PROVE  s \in Page(after).rows
  <2>1. s \in rows /\ kind[s] # "HIDDEN"
    BY <1>6 DEF Projections
  <2>2. taken # {}
    <3>1. s \in Int
      BY <1>6, FeedType DEF Projections, Sequences
    <3>2. QED
      BY <1>1, <1>6, <3>1
  <2>3. s <= Latest(taken) /\ Latest(taken) # 0
    <3>1. s \in Nat \ {0}
      BY <1>6, FeedType DEF Projections, Sequences
    <3>2. QED
      BY <1>1, <1>6, <2>2, <3>1
  <2>4. Latest(taken) \in taken
    BY <1>3, <2>3
  <2> HIDE DEF rows, taken
  <2>5. s \in taken
    BY <1>5, <2>1, <2>3, <2>4
  <2>6. QED
    BY <1>1, <2>1, <2>5
<1> HIDE DEF rows, taken
<1>7. QED
  BY <1>1, <1>2, <1>3, <1>4, <1>6

-----------------------------------------------------------------------------
LEMMA IdleRun == Idle \in Run /\ Idle.phase = "IDLE" /\ Idle.pages = 0
BY ChangeFeedAssumption DEF Idle, Run

LEMMA StartedRun ==
  ASSUME NEW p \in {"PULL", "ACK"}, NEW c \in 0 .. MaxSequence, NEW n \in 0 .. MaxPullPages
  PROVE  /\ [Idle EXCEPT !.phase = p, !.cursor = c] \in Run
         /\ [Idle EXCEPT !.phase = p, !.cursor = c, !.pages = n] \in Run
BY IdleRun DEF Run

(* Every step keeps the types.                                             *)
LEMMA TypeStep ==
  ASSUME TypeOK, WriterOK, RunsOK, NeverAhead, [Next]_vars
  PROVE  TypeOK'
<1> USE ChangeFeedAssumption
<1>1. ASSUME NEW w \in Writers, AppendChange(w)
      PROVE  TypeOK'
  <2>1. last_value + 1 \in Sequences /\ last_value' = last_value + 1
    BY <1>1 DEF AppendChange, TypeOK, Sequences
  <2>2. PICK k \in Kinds : kind' = [kind EXCEPT ![last_value + 1] = k]
    BY <1>1 DEF AppendChange
  <2>3. kind' \in [Sequences -> Kinds]
    BY <2>2 DEF TypeOK
  <2>4. writer' \in [Writers -> SUBSET Sequences]
    BY <1>1, <2>1 DEF AppendChange, TypeOK
  <2>5. change_feed' \subseteq 1 .. last_value'
    BY <1>1, <2>1 DEF AppendChange, TypeOK
  <2>6. last_value' \in 0 .. MaxSequence
    BY <1>1, <2>1 DEF AppendChange, TypeOK
  <2>7. QED
    BY <1>1, <2>3, <2>4, <2>5, <2>6 DEF AppendChange, TypeOK, local
<1>2. ASSUME NEW w \in Writers, CommitTransaction(w)
      PROVE  TypeOK'
  <2>1. change_feed' \subseteq 1 .. last_value' /\ exposed' \subseteq change_feed'
    BY <1>2 DEF CommitTransaction, TypeOK, WriterOK
  <2>2. writer' \in [Writers -> SUBSET Sequences]
    BY <1>2 DEF CommitTransaction, TypeOK
  <2>3. QED
    BY <1>2, <2>1, <2>2 DEF CommitTransaction, TypeOK, local
<1>3. ASSUME NEW w \in Writers, AbortTransaction(w)
      PROVE  TypeOK'
  BY <1>3 DEF AbortTransaction, TypeOK, local
<1>4. ASSUME NEW t \in Tabs, StartPull(t)
      PROVE  TypeOK'
  <2>1. cursor \in 0 .. MaxSequence /\ 0 \in 0 .. MaxPullPages
    BY DEF TypeOK
  <2>2. [Idle EXCEPT !.phase = "PULL", !.cursor = cursor] \in Run
    BY <2>1, StartedRun
  <2>3. QED
    BY <1>4, <2>2 DEF StartPull, TypeOK, feed, local
<1>5. ASSUME NEW t \in Tabs, ServePull(t)
      PROVE  TypeOK'
  <2>1. run[t] \in Run /\ run[t].cursor \in 0 .. MaxSequence
    BY DEF TypeOK, Run
  <2>2. run[t].cursor <= Latest(change_feed)
    BY <1>5 DEF RunsOK, RunOK, ServePull
  <2>3. /\ Page(run[t].cursor).rows \subseteq Sequences
        /\ Page(run[t].cursor).next \in 0 .. MaxSequence
        /\ Page(run[t].cursor).more \in {"YES", "NO"}
    BY <2>1, <2>2, PageIsComplete, FeedType
  <2>4. [run[t] EXCEPT !.phase = "PAGE", !.rows = Page(run[t].cursor).rows,
           !.next = Page(run[t].cursor).next, !.more = Page(run[t].cursor).more] \in Run
    BY <2>1, <2>3 DEF Run
  <2>5. run' = [run EXCEPT ![t] =
          [run[t] EXCEPT !.phase = "PAGE", !.rows = Page(run[t].cursor).rows,
             !.next = Page(run[t].cursor).next, !.more = Page(run[t].cursor).more]]
    BY <1>5 DEF ServePull, TypeOK
  <2>6. run' \in [Tabs -> Run]
    BY <2>4, <2>5 DEF TypeOK
  <2>7. QED
    BY <1>5, <2>6 DEF ServePull, TypeOK, feed, local
<1>6. ASSUME NEW t \in Tabs, ReadExpected(t)
      PROVE  TypeOK'
  <2>1. run[t] \in Run
    BY DEF TypeOK
  <2>2. [run[t] EXCEPT !.phase = "APPLY", !.expected = cursor] \in Run
    BY <2>1 DEF Run, TypeOK
  <2>3. [Idle EXCEPT !.phase = "BOOTSTRAP"] \in Run
    BY DEF Run, Idle
  <2>4. run' \in [Tabs -> Run]
    BY <1>6, <2>2, <2>3 DEF ReadExpected, TypeOK
  <2>5. QED
    BY <1>6, <2>4 DEF ReadExpected, TypeOK, feed, local
<1>7. ASSUME NEW t \in Tabs, ApplyPage(t)
      PROVE  TypeOK'
  <2>1. run[t] \in Run /\ run[t].pages < MaxPullPages
    BY <1>7 DEF TypeOK, RunsOK, RunOK, ApplyPage
  <2>2. run[t].rows \subseteq Sequences /\ run[t].next \in 0 .. MaxSequence
          /\ run[t].pages + 1 \in 0 .. MaxPullPages
    BY <2>1 DEF Run
  <2>3. \A phase \in {"PULL", "ACK"} :
          [Idle EXCEPT !.phase = phase, !.cursor = run[t].next, !.pages = run[t].pages + 1]
            \in Run
    BY <2>2, StartedRun
  <2>4. CASE PageFits(run[t])
    <3>1. run' \in [Tabs -> Run]
      BY <1>7, <2>3, <2>4 DEF ApplyPage, TypeOK
    <3>2. QED
      BY <1>7, <2>2, <2>4, <3>1 DEF ApplyPage, TypeOK, feed
  <2>5. CASE ~PageFits(run[t])
    BY <1>7, <2>5, IdleRun DEF ApplyPage, TypeOK, feed, local
  <2>6. QED
    BY <2>4, <2>5
<1>8. ASSUME NEW t \in Tabs, Acknowledge(t)
      PROVE  TypeOK'
  <2>1. run[t] \in Run
    BY DEF TypeOK
  <2>2. last_ack' \in 0 .. MaxSequence
    BY <1>8, <2>1 DEF Acknowledge, AckGreatest, TypeOK, Run
  <2>3. QED
    BY <1>8, <2>2, IdleRun DEF Acknowledge, TypeOK, feed, local
<1>9. ASSUME NEW t \in Tabs, ServeBootstrap(t)
      PROVE  TypeOK'
  <2>1. run[t] \in Run
    BY DEF TypeOK
  <2>2. [run[t] EXCEPT !.phase = "SNAPSHOT", !.rows = change_feed,
           !.next = Latest(change_feed)] \in Run
    BY <2>1, FeedType DEF Run
  <2>3. run' = [run EXCEPT ![t] = [run[t] EXCEPT !.phase = "SNAPSHOT", !.rows = change_feed,
                                     !.next = Latest(change_feed)]]
    BY <1>9 DEF ServeBootstrap, TypeOK
  <2>4. run' \in [Tabs -> Run]
    BY <2>2, <2>3 DEF TypeOK
  <2>5. QED
    BY <1>9, <2>4 DEF ServeBootstrap, TypeOK, feed, local
<1>10. ASSUME NEW t \in Tabs, ApplyBootstrap(t)
       PROVE  TypeOK'
  <2>1. run[t] \in Run
    BY DEF TypeOK
  <2>2. cursor' \in 0 .. MaxSequence /\ known' \subseteq Sequences
    BY <1>10, <2>1 DEF ApplyBootstrap, BootstrapCursor, Replaced, Projections, Run, TypeOK
  <2>3. exposed' \subseteq change_feed'
    BY <1>10 DEF ApplyBootstrap, Projections, TypeOK, NeverAhead
  <2>4. run' \in [Tabs -> Run]
    BY <1>10, IdleRun DEF ApplyBootstrap, TypeOK
  <2>5. QED
    BY <1>10, <2>2, <2>3, <2>4 DEF ApplyBootstrap, TypeOK
<1>11. ASSUME NEW t \in Tabs, FailRequest(t) \/ LoadTab(t)
       PROVE  TypeOK'
  <2>1. \A phase \in {"IDLE", "BOOTSTRAP"} : [Idle EXCEPT !.phase = phase] \in Run
    BY DEF Run, Idle
  <2>2. run' \in [Tabs -> Run]
    BY <1>11, <2>1, IdleRun DEF FailRequest, LoadTab, TypeOK
  <2>3. QED
    BY <1>11, <2>2 DEF FailRequest, LoadTab, TypeOK, feed, local
<1>12. CASE UNCHANGED vars
  BY <1>12 DEF vars, TypeOK
<1>13. QED
  BY <1>1, <1>2, <1>3, <1>4, <1>5, <1>6, <1>7, <1>8, <1>9, <1>10, <1>11, <1>12
     DEF Next, Synchronise

-----------------------------------------------------------------------------
(* Reading NoOtherLoss as a bound on what is missing.                      *)
LEMMA MissingAfterCursor ==
  ASSUME TypeOK
  PROVE  NoOtherLoss <=> \A s \in Missing : cursor < s
<1>1. \A s \in Projections(change_feed) : s \in Int
  BY FeedType DEF Projections, Sequences
<1>2. cursor \in Int
  BY DEF TypeOK
<1>3. QED
  BY <1>1, <1>2 DEF NoOtherLoss, Missing, Unexposed

LEMMA MissingType ==
  ASSUME TypeOK
  PROVE  \A s \in Unexposed : s \in change_feed /\ s \in Int
BY FeedType DEF Unexposed, Projections, Sequences

(* The feed only grows, and a change that becomes visible or missing in a  *)
(* step lies after all that was committed: a row committed out of order,   *)
(* or taken back by a bootstrap, is exposed in the same step.              *)
Grows ==
  /\ change_feed \subseteq change_feed'
  /\ Latest(change_feed) <= Latest(change_feed')
  /\ \A s \in Unexposed' : s \in Unexposed \/ Latest(change_feed) < s
  /\ \A s \in Missing' : s \in Missing \/ Latest(change_feed) < s

LEMMA FeedGrows ==
  ASSUME TypeOK, WriterOK, RunsOK, NeverAhead, TypeOK', [Next]_vars
  PROVE  Grows
<1> USE DEF Unexposed, Missing, Projections
<1>1. CASE /\ UNCHANGED <<kind, change_feed, exposed>>
           /\ known \subseteq known'
  <2>1. Latest(change_feed) <= Latest(change_feed')
    BY <1>1, FeedType
  <2>2. QED
    BY <1>1, <2>1 DEF Grows
<1>2. ASSUME NEW w \in Writers, AppendChange(w)
      PROVE  Grows
  <2>1. PICK k \in Kinds : kind' = [kind EXCEPT ![last_value + 1] = k]
    BY <1>2 DEF AppendChange
  <2>2. last_value + 1 \notin change_feed
    BY DEF TypeOK
  <2>3. \A s \in change_feed : kind'[s] = kind[s]
    BY <2>1, <2>2, FeedType DEF TypeOK
  <2>4. UNCHANGED <<change_feed, exposed, known>>
    BY <1>2 DEF AppendChange, local
  <2>5. Latest(change_feed) <= Latest(change_feed')
    BY <2>4, FeedType
  <2>6. QED
    BY <2>3, <2>4, <2>5 DEF Grows
<1>3. ASSUME NEW w \in Writers, CommitTransaction(w)
      PROVE  Grows
  <2>1. /\ change_feed' = change_feed \cup writer[w]
        /\ exposed' = exposed \cup {s \in writer[w] : s < Latest(change_feed)}
        /\ UNCHANGED <<kind, known>>
    BY <1>3 DEF CommitTransaction, local
  <2>2. change_feed' \in SUBSET Sequences
    BY FeedType, ChangeFeedAssumption DEF TypeOK, Sequences
  <2>3. Latest(change_feed) <= Latest(change_feed')
    BY <2>1, <2>2, FeedType, LatestGrows
  <2>4. \A s \in writer[w] : s \in Int /\ s # 0 /\ s \notin change_feed
    BY DEF WriterOK
  <2>5. \A s \in writer[w] : s \notin exposed' => Latest(change_feed) < s
    <3> SUFFICES ASSUME NEW s \in writer[w], s \notin exposed'
                 PROVE  Latest(change_feed) < s
      OBVIOUS
    <3>1. ~(s < Latest(change_feed)) /\ s # Latest(change_feed)
      BY <2>1, <2>4, FeedType
    <3>2. QED
      BY <2>4, <3>1, FeedType
  <2>6. QED
    BY <2>1, <2>3, <2>5 DEF Grows
<1>4. ASSUME NEW w \in Writers, AbortTransaction(w)
      PROVE  Grows
  BY <1>1, <1>4 DEF AbortTransaction, local
<1>5. ASSUME NEW t \in Tabs, ApplyBootstrap(t)
      PROVE  Grows
  <2>1. UNCHANGED <<kind, change_feed>>
    BY <1>5 DEF ApplyBootstrap
  <2>2. exposed \subseteq exposed'
    BY <1>5 DEF ApplyBootstrap
  <2>3. Latest(change_feed) <= Latest(change_feed')
    BY <2>1, FeedType
  <2>4. ASSUME NEW s \in Missing'
        PROVE  s \in Missing
    <3>1. s \notin known' /\ s \notin exposed' /\ s \in Projections(change_feed)
      BY <2>1
    <3>2. s \in known => s \in run[t].rows
      BY <1>5, <3>1 DEF ApplyBootstrap
    <3>3. s \in run[t].rows => s \in known'
      BY <1>5, <3>1 DEF ApplyBootstrap, Replaced
    <3>4. QED
      BY <2>2, <3>1, <3>2, <3>3
  <2>5. QED
    BY <2>1, <2>2, <2>3, <2>4 DEF Grows
<1>6. ASSUME NEW t \in Tabs,
             StartPull(t) \/ ServePull(t) \/ ReadExpected(t) \/ ApplyPage(t) \/ Acknowledge(t)
               \/ ServeBootstrap(t) \/ FailRequest(t) \/ LoadTab(t)
      PROVE  Grows
  <2>1. UNCHANGED <<kind, change_feed, exposed>>
    BY <1>6 DEF StartPull, ServePull, ReadExpected, ApplyPage, Acknowledge, ServeBootstrap,
                FailRequest, LoadTab, feed
  <2>2. known \subseteq known'
    BY <1>6 DEF StartPull, ServePull, ReadExpected, ApplyPage, Acknowledge, ServeBootstrap,
                FailRequest, LoadTab, local
  <2>3. QED
    BY <1>1, <2>1, <2>2
<1>7. CASE UNCHANGED vars
  BY <1>1, <1>7 DEF vars
<1>8. QED
  BY <1>2, <1>3, <1>4, <1>5, <1>6, <1>7 DEF Next, Synchronise

(* Open transactions keep their rows apart.                                *)
LEMMA WriterStep ==
  ASSUME TypeOK, WriterOK, [Next]_vars
  PROVE  WriterOK'
<1>1. CASE UNCHANGED <<last_value, writer, change_feed>>
  BY <1>1 DEF WriterOK
<1>2. ASSUME NEW w \in Writers, AppendChange(w)
      PROVE  WriterOK'
  <2>1. /\ last_value' = last_value + 1 /\ change_feed' = change_feed
        /\ writer' = [writer EXCEPT ![w] = @ \cup {last_value + 1}]
    BY <1>2 DEF AppendChange
  <2>2. last_value + 1 \notin 1 .. last_value /\ last_value + 1 \in 1 .. last_value + 1
          /\ 1 .. last_value \subseteq 1 .. last_value + 1
    BY DEF TypeOK
  <2>3. \A v \in Writers : writer'[v] = IF v = w THEN writer[v] \cup {last_value + 1} ELSE writer[v]
    BY <2>1 DEF TypeOK
  <2>4. \A v \in Writers : writer[v] \subseteq 1 .. last_value
    BY DEF WriterOK
  <2>5. change_feed \subseteq 1 .. last_value
    BY DEF TypeOK
  <2>6. \A v \in Writers : writer'[v] \subseteq 1 .. last_value' /\ writer'[v] \cap change_feed' = {}
    BY <2>1, <2>2, <2>3, <2>5 DEF WriterOK
  <2>7. \A u, v \in Writers : u # v => writer'[u] \cap writer'[v] = {}
    <3> SUFFICES ASSUME NEW u \in Writers, NEW v \in Writers, u # v
                 PROVE  writer'[u] \cap writer'[v] = {}
      OBVIOUS
    <3>1. writer[u] \cap writer[v] = {}
      BY DEF WriterOK
    <3>2. last_value + 1 \notin writer[u] /\ last_value + 1 \notin writer[v]
      BY <2>2, <2>4
    <3>3. CASE u = w
      <4>1. writer'[u] = writer[u] \cup {last_value + 1} /\ writer'[v] = writer[v]
        BY <2>3, <3>3
      <4>2. QED
        BY <3>1, <3>2, <4>1
    <3>4. CASE v = w
      <4>1. writer'[v] = writer[v] \cup {last_value + 1} /\ writer'[u] = writer[u]
        BY <2>3, <3>4
      <4>2. QED
        BY <3>1, <3>2, <4>1
    <3>5. CASE u # w /\ v # w
      <4>1. writer'[v] = writer[v] /\ writer'[u] = writer[u]
        BY <2>3, <3>5
      <4>2. QED
        BY <3>1, <4>1
    <3>6. QED
      BY <3>3, <3>4, <3>5
  <2>8. QED
    BY <2>6, <2>7 DEF WriterOK
<1>3. ASSUME NEW w \in Writers, CommitTransaction(w) \/ AbortTransaction(w)
      PROVE  WriterOK'
  <2>1. /\ last_value' = last_value /\ writer' = [writer EXCEPT ![w] = {}]
        /\ change_feed' \subseteq change_feed \cup writer[w]
    BY <1>3 DEF CommitTransaction, AbortTransaction
  <2>2. \A v \in Writers : writer'[v] = IF v = w THEN {} ELSE writer[v]
    BY <2>1 DEF TypeOK
  <2>3. ASSUME NEW v \in Writers
        PROVE  writer'[v] \subseteq 1 .. last_value' /\ writer'[v] \cap change_feed' = {}
    <3>1. CASE v = w
      <4>1. writer'[v] = {}
        BY <2>2, <3>1
      <4>2. QED
        BY <4>1
    <3>2. CASE v # w
      <4>1. writer[v] \cap writer[w] = {} /\ writer[v] \cap change_feed = {}
              /\ writer[v] \subseteq 1 .. last_value
        BY <3>2 DEF WriterOK
      <4>2. QED
        BY <2>1, <2>2, <3>2, <4>1
    <3>3. QED
      BY <3>1, <3>2
  <2>4. ASSUME NEW u \in Writers, NEW v \in Writers, u # v
        PROVE  writer'[u] \cap writer'[v] = {}
    <3>1. writer[u] \cap writer[v] = {}
      BY <2>4 DEF WriterOK
    <3>2. writer'[u] \in {{}, writer[u]} /\ writer'[v] \in {{}, writer[v]}
      BY <2>2
    <3>3. QED
      BY <3>1, <3>2
  <2>5. QED
    BY <2>3, <2>4 DEF WriterOK
<1>4. ASSUME NEW t \in Tabs, Synchronise(t) \/ FailRequest(t) \/ LoadTab(t)
      PROVE  WriterOK'
  <2>1. UNCHANGED <<last_value, writer, change_feed>>
    BY <1>4 DEF Synchronise, StartPull, ServePull, ReadExpected, ApplyPage, Acknowledge,
                ServeBootstrap, ApplyBootstrap, FailRequest, LoadTab, feed
  <2>2. QED
    BY <1>1, <2>1
<1>5. CASE UNCHANGED vars
  BY <1>1, <1>5 DEF vars
<1>6. QED
  BY <1>2, <1>3, <1>4, <1>5 DEF Next

-----------------------------------------------------------------------------
(* A run that does not move keeps what it holds good, whatever the writers *)
(* and the other tabs do.                                                  *)
LEMMA RunKept ==
  ASSUME TypeOK, TypeOK', Grows, NEW t \in Tabs, RunOK(run[t]), run'[t] = run[t]
  PROVE  RunOK(run[t])'
<1>1. PICK r \in Run : r = run[t]
  BY DEF TypeOK
<1>2. r.cursor \in Int /\ r.next \in Int
  BY DEF Run
<1>3. Latest(change_feed) \in Int /\ Latest(change_feed') \in Int
  <2>1. change_feed' \in SUBSET Sequences
    BY ChangeFeedAssumption DEF TypeOK, Sequences
  <2>2. QED
    BY <2>1, FeedType, LatestIs
<1>4. \A s \in Missing' : s \in Int /\ s \in Unexposed'
  BY ChangeFeedAssumption DEF Missing, Unexposed, Projections, TypeOK
<1>5. \A s \in Unexposed' : s \in Int
  BY ChangeFeedAssumption DEF Unexposed, Projections, TypeOK
<1>6. r.phase \in {"PULL", "PAGE", "APPLY", "ACK"} => r.cursor <= Latest(change_feed')
  BY <1>1, <1>2, <1>3 DEF RunOK, Grows
<1>7. r.phase \in {"PULL", "PAGE", "APPLY"} =>
        r.pages < MaxPullPages /\ \A s \in Missing' : r.cursor < s
  BY <1>1, <1>2, <1>3, <1>4 DEF RunOK, Grows
<1>8. r.phase \in {"PAGE", "APPLY", "SNAPSHOT"} =>
        r.rows \subseteq change_feed' /\ r.next <= Latest(change_feed')
  BY <1>1, <1>2, <1>3 DEF RunOK, Grows
<1>9. r.phase \in {"PAGE", "APPLY"} => \A s \in Missing' : s <= r.next => s \in r.rows
  BY <1>1, <1>2, <1>3, <1>4 DEF RunOK, Grows
<1>10. r.phase = "SNAPSHOT" => \A s \in Unexposed' : s <= r.next => s \in r.rows
  BY <1>1, <1>2, <1>3, <1>5 DEF RunOK, Grows
<1>11. QED
  BY <1>1, <1>6, <1>7, <1>8, <1>9, <1>10 DEF RunOK

(* A run that ends, or asks for a bootstrap, holds nothing.                *)
LEMMA RunEnds ==
  ASSUME NEW t \in Tabs, run'[t].phase \in {"IDLE", "BOOTSTRAP"}
  PROVE  RunOK(run[t])'
BY DEF RunOK

(* The step of the tab itself.                                             *)
LEMMA OwnRunStep ==
  ASSUME TypeOK, RunsOK, NeverAhead, NoOtherLoss, TypeOK', Grows,
         NEW t \in Tabs, Synchronise(t) \/ FailRequest(t) \/ LoadTab(t)
  PROVE  RunOK(run[t])' /\ \A u \in Tabs \ {t} : run'[u] = run[u]
<1>1. run[t] \in Run /\ RunOK(run[t])
  BY DEF TypeOK, RunsOK
<1>2. \A s \in Missing : cursor < s
  BY MissingAfterCursor
<1>3. \A s \in Missing : s \in Projections(change_feed) /\ s \in Int
  BY MissingType DEF Missing, Unexposed
<1>4. Latest(change_feed) \in Int /\ Latest(change_feed) \in 0 .. MaxSequence
  BY FeedType
<1> DEFINE Same == UNCHANGED <<kind, change_feed, exposed, known>>
<1>5. Same => Missing' = Missing /\ Unexposed' = Unexposed
                /\ Latest(change_feed') = Latest(change_feed)
  BY DEF Missing, Unexposed, Projections
<1>6. CASE StartPull(t)
  <2>1. Same /\ run' = [run EXCEPT ![t] = [Idle EXCEPT !.phase = "PULL", !.cursor = cursor]]
    BY <1>6 DEF StartPull, feed, local
  <2>2. run'[t] = [Idle EXCEPT !.phase = "PULL", !.cursor = cursor]
    BY <2>1 DEF TypeOK
  <2>3. run'[t].phase = "PULL" /\ run'[t].cursor = cursor /\ run'[t].pages = 0
    BY <2>2, IdleRun DEF Run, Idle
  <2>4. \A u \in Tabs \ {t} : run'[u] = run[u]
    BY <2>1 DEF TypeOK
  <2>5. cursor <= Latest(change_feed') /\ \A s \in Missing' : cursor < s
    BY <1>2, <1>5, <2>1 DEF NeverAhead
  <2>6. QED
    BY <2>3, <2>4, <2>5, ChangeFeedAssumption DEF RunOK
<1>7. CASE ServePull(t)
  <2> DEFINE page == Page(run[t].cursor)
  <2>1. /\ Same /\ run[t].phase = "PULL"
        /\ run' = [run EXCEPT ![t].phase = "PAGE", ![t].rows = page.rows,
                              ![t].next = page.next, ![t].more = page.more]
    BY <1>7 DEF ServePull, feed, local
  <2> HIDE DEF page
  <2>2. /\ run'[t].phase = "PAGE" /\ run'[t].cursor = run[t].cursor
        /\ run'[t].pages = run[t].pages
        /\ run'[t].rows = page.rows /\ run'[t].next = page.next
    BY <1>1, <2>1 DEF TypeOK, Run
  <2>3. \A u \in Tabs \ {t} : run'[u] = run[u]
    BY <2>1 DEF TypeOK
  <2>4. run[t].cursor \in 0 .. MaxSequence /\ run[t].cursor <= Latest(change_feed)
          /\ run[t].pages < MaxPullPages /\ \A s \in Missing : run[t].cursor < s
    BY <1>1, <2>1 DEF Run, RunOK
  <2>5. /\ page.rows \subseteq change_feed /\ page.next <= Latest(change_feed)
        /\ \A s \in Missing : s <= page.next => s \in page.rows
    BY <1>3, <2>4, PageIsComplete DEF page
  <2>6. QED
    BY <1>5, <2>1, <2>2, <2>3, <2>4, <2>5 DEF RunOK
<1>8. CASE ReadExpected(t)
  <2>1. Same /\ run[t].phase = "PAGE"
    BY <1>8 DEF ReadExpected, feed, local
  <2>2. /\ \A u \in Tabs \ {t} : run'[u] = run[u]
        /\ \/ run'[t] = [Idle EXCEPT !.phase = "BOOTSTRAP"]
           \/ run'[t] = [run[t] EXCEPT !.phase = "APPLY", !.expected = cursor]
    BY <1>8 DEF ReadExpected, TypeOK
  <2>3. CASE run'[t] = [Idle EXCEPT !.phase = "BOOTSTRAP"]
    <3>1. run'[t].phase = "BOOTSTRAP"
      BY <2>3 DEF Idle
    <3>2. QED
      BY <2>2, <3>1, RunEnds
  <2>4. CASE run'[t] = [run[t] EXCEPT !.phase = "APPLY", !.expected = cursor]
    <3>1. /\ run'[t].phase = "APPLY" /\ run'[t].cursor = run[t].cursor
          /\ run'[t].pages = run[t].pages
          /\ run'[t].rows = run[t].rows /\ run'[t].next = run[t].next
      BY <1>1, <2>4 DEF Run
    <3>2. QED
      BY <1>1, <1>5, <2>1, <2>2, <3>1 DEF RunOK
  <2>5. QED
    BY <2>2, <2>3, <2>4
<1>9. CASE ApplyPage(t)
  <2>1. UNCHANGED <<kind, change_feed, exposed>> /\ run[t].phase = "APPLY"
    BY <1>9 DEF ApplyPage, feed
  <2>2. \A u \in Tabs \ {t} : run'[u] = run[u]
    BY <1>9 DEF ApplyPage, TypeOK
  <2>3. CASE PageFits(run[t])
    <3> DEFINE p == IF run[t].more = "YES" /\ run[t].pages + 1 < MaxPullPages
                      THEN "PULL" ELSE "ACK"
    <3>1. run'[t] = [Idle EXCEPT !.phase = p, !.cursor = run[t].next, !.pages = run[t].pages + 1]
            /\ known' = known \cup run[t].rows
      BY <1>9, <2>3 DEF ApplyPage, TypeOK
    <3>2. p \in {"PULL", "ACK"} /\ (p = "PULL" => run[t].pages + 1 < MaxPullPages)
      OBVIOUS
    <3> HIDE DEF p
    <3>3. run'[t].phase = p /\ run'[t].cursor = run[t].next /\ run'[t].pages = run[t].pages + 1
      BY <3>1, IdleRun DEF Run, Idle
    <3>4. run[t].next <= Latest(change_feed')
      BY <1>1, <2>1 DEF RunOK
    <3>5. \A s \in Missing' : run[t].next < s
      <4> SUFFICES ASSUME NEW s \in Missing' PROVE run[t].next < s
        OBVIOUS
      <4>1. s \in Missing /\ s \notin run[t].rows
        BY <2>1, <3>1 DEF Missing, Unexposed, Projections
      <4>2. ~(s <= run[t].next)
        BY <1>1, <2>1, <4>1 DEF RunOK
      <4>3. s \in Int /\ run[t].next \in Int
        BY <1>1, <1>3, <4>1 DEF Run
      <4>4. QED
        BY <4>2, <4>3
    <3>6. QED
      BY <2>2, <3>2, <3>3, <3>4, <3>5 DEF RunOK
  <2>4. CASE ~PageFits(run[t])
    <3>1. run'[t] = Idle
      BY <1>9, <2>4 DEF ApplyPage, TypeOK
    <3>2. QED
      BY <2>2, <3>1, IdleRun, RunEnds
  <2>5. QED
    BY <2>3, <2>4
<1>10. CASE ServeBootstrap(t)
  <2>1. /\ Same
        /\ run' = [run EXCEPT ![t].phase = "SNAPSHOT", ![t].rows = change_feed,
                              ![t].next = Latest(change_feed)]
    BY <1>10 DEF ServeBootstrap, feed, local
  <2>2. /\ run'[t].phase = "SNAPSHOT" /\ run'[t].rows = change_feed
        /\ run'[t].next = Latest(change_feed)
    BY <1>1, <2>1 DEF TypeOK, Run
  <2>3. \A u \in Tabs \ {t} : run'[u] = run[u]
    BY <2>1 DEF TypeOK
  <2>4. Unexposed' \subseteq change_feed /\ change_feed' = change_feed
    BY <1>5, <2>1, MissingType
  <2>5. QED
    BY <1>4, <2>2, <2>3, <2>4 DEF RunOK
<1>11. CASE Acknowledge(t) \/ ApplyBootstrap(t) \/ FailRequest(t) \/ LoadTab(t)
  <2>1. /\ \A u \in Tabs \ {t} : run'[u] = run[u]
        /\ \E phase \in {"IDLE", "BOOTSTRAP"} :
             run'[t] = Idle \/ run'[t] = [Idle EXCEPT !.phase = phase]
    BY <1>11 DEF Acknowledge, ApplyBootstrap, FailRequest, LoadTab, TypeOK
  <2>2. run'[t].phase \in {"IDLE", "BOOTSTRAP"}
    BY <2>1, IdleRun DEF Idle
  <2>3. QED
    BY <2>1, <2>2, RunEnds
<1>12. QED
  BY <1>6, <1>7, <1>8, <1>9, <1>10, <1>11 DEF Synchronise

LEMMA RunsStep ==
  ASSUME TypeOK, WriterOK, RunsOK, NeverAhead, NoOtherLoss, TypeOK', Grows, [Next]_vars
  PROVE  RunsOK'
<1>1. CASE run' = run
  BY <1>1, RunKept DEF RunsOK
<1>2. ASSUME NEW t \in Tabs, Synchronise(t) \/ FailRequest(t) \/ LoadTab(t)
      PROVE  RunsOK'
  <2>1. RunOK(run[t])' /\ \A u \in Tabs \ {t} : run'[u] = run[u]
    BY <1>2, OwnRunStep
  <2>2. \A u \in Tabs \ {t} : RunOK(run[u])'
    BY <2>1, RunKept DEF RunsOK
  <2>3. QED
    BY <2>1, <2>2 DEF RunsOK
<1>3. ASSUME NEW w \in Writers, AppendChange(w) \/ CommitTransaction(w) \/ AbortTransaction(w)
      PROVE  run' = run
  BY <1>3 DEF AppendChange, CommitTransaction, AbortTransaction
<1>4. QED
  BY <1>1, <1>2, <1>3 DEF Next, vars

-----------------------------------------------------------------------------
(* The device is never ahead of the feed.                                  *)
LEMMA NeverAheadStep ==
  ASSUME TypeOK, WriterOK, RunsOK, NeverAhead, TypeOK', Grows, RunsOK', [Next]_vars
  PROVE  NeverAhead'
<1>1. \A t \in Tabs : run'[t].phase = "ACK" => run'[t].cursor <= Latest(change_feed')
  BY DEF RunsOK, RunOK
<1>2. /\ Latest(change_feed) \in Int /\ Latest(change_feed') \in Int
      /\ Latest(change_feed) <= Latest(change_feed') /\ change_feed \subseteq change_feed'
  <2>1. change_feed' \in SUBSET Sequences
    BY ChangeFeedAssumption DEF TypeOK, Sequences
  <2>2. QED
    BY <2>1, FeedType, LatestIs DEF Grows
<1>3. cursor \in Int /\ last_ack \in Int
  BY DEF TypeOK
<1>4. CASE UNCHANGED <<cursor, known, last_ack>>
  <2>1. known' \subseteq change_feed'
    BY <1>2, <1>4 DEF NeverAhead
  <2>2. cursor' <= Latest(change_feed') /\ last_ack' <= Latest(change_feed')
    BY <1>2, <1>3, <1>4 DEF NeverAhead
  <2>3. QED
    BY <1>1, <2>1, <2>2 DEF NeverAhead
<1>5. ASSUME NEW t \in Tabs, ApplyPage(t), PageFits(run[t])
      PROVE  NeverAhead'
  <2>1. run[t].next <= Latest(change_feed) /\ run[t].rows \subseteq change_feed
          /\ run[t].next \in Int
    BY <1>5 DEF ApplyPage, RunsOK, RunOK, TypeOK, Run
  <2>2. known' = known \cup run[t].rows /\ cursor' = run[t].next /\ last_ack' = last_ack
          /\ change_feed' = change_feed
    BY <1>5 DEF ApplyPage, feed
  <2>3. QED
    BY <1>1, <2>1, <2>2 DEF NeverAhead
<1>6. ASSUME NEW t \in Tabs, Acknowledge(t)
      PROVE  NeverAhead'
  <2>1. run[t].cursor <= Latest(change_feed)
    BY <1>6 DEF Acknowledge, NeverAhead
  <2>2. UNCHANGED <<cursor, known, change_feed>>
    BY <1>6 DEF Acknowledge, feed, local
  <2>3. last_ack' <= Latest(change_feed')
    BY <1>6, <2>1, <2>2 DEF Acknowledge, AckGreatest, NeverAhead
  <2>4. QED
    BY <1>1, <2>2, <2>3 DEF NeverAhead
<1>7. ASSUME NEW t \in Tabs, ApplyBootstrap(t)
      PROVE  NeverAhead'
  <2>1. run[t].next <= Latest(change_feed) /\ run[t].rows \subseteq change_feed
    BY <1>7 DEF ApplyBootstrap, RunsOK, RunOK
  <2>2. cursor' = run[t].next /\ last_ack' = last_ack /\ change_feed' = change_feed
          /\ known' \subseteq known \cup run[t].rows
    BY <1>7 DEF ApplyBootstrap, BootstrapCursor, Replaced, Projections
  <2>3. QED
    BY <1>1, <2>1, <2>2 DEF NeverAhead
<1>8. ASSUME NEW t \in Tabs, StartPull(t) \/ ServePull(t) \/ ReadExpected(t)
               \/ (ApplyPage(t) /\ ~PageFits(run[t])) \/ ServeBootstrap(t)
               \/ FailRequest(t) \/ LoadTab(t)
      PROVE  NeverAhead'
  BY <1>4, <1>8 DEF StartPull, ServePull, ReadExpected, ApplyPage, ServeBootstrap, FailRequest,
                    LoadTab, local
<1>9. ASSUME NEW w \in Writers, AppendChange(w) \/ CommitTransaction(w) \/ AbortTransaction(w)
      PROVE  NeverAhead'
  BY <1>4, <1>9 DEF AppendChange, CommitTransaction, AbortTransaction, local
<1>10. CASE UNCHANGED vars
  BY <1>4, <1>10 DEF vars
<1>11. QED
  BY <1>5, <1>6, <1>7, <1>8, <1>9, <1>10 DEF Next, Synchronise

(* No step loses a change but by exposing it.                              *)
LEMMA NoOtherLossStep ==
  ASSUME TypeOK, WriterOK, RunsOK, NeverAhead, NoOtherLoss, TypeOK', Grows, [Next]_vars
  PROVE  NoOtherLoss'
<1>1. \A s \in Missing : cursor < s
  BY MissingAfterCursor
<1>2. \A s \in Unexposed' : s \in Int
  BY ChangeFeedAssumption DEF Unexposed, Projections, TypeOK
<1>3. cursor \in Int /\ cursor' \in Int /\ cursor <= Latest(change_feed)
        /\ Latest(change_feed) \in Int
  BY FeedType DEF TypeOK, NeverAhead
<1>4. SUFFICES \A s \in Unexposed' : s <= cursor' => s \in known'
  BY DEF NoOtherLoss, Unexposed
<1>5. CASE UNCHANGED <<cursor, known>>
  <2> SUFFICES ASSUME NEW s \in Unexposed', s \notin known' PROVE ~(s <= cursor')
    OBVIOUS
  <2>1. s \in Missing'
    BY DEF Missing
  <2>2. cursor < s
    BY <1>1, <1>2, <1>3, <2>1 DEF Grows
  <2>3. QED
    BY <1>2, <1>3, <1>5, <2>2
<1>6. ASSUME NEW t \in Tabs, ApplyPage(t), PageFits(run[t])
      PROVE  \A s \in Unexposed' : s <= cursor' => s \in known'
  <2>1. known' = known \cup run[t].rows /\ cursor' = run[t].next
          /\ UNCHANGED <<kind, change_feed, exposed>>
    BY <1>6 DEF ApplyPage, feed
  <2>2. \A s \in Missing : s <= run[t].next => s \in run[t].rows
    BY <1>6 DEF ApplyPage, RunsOK, RunOK
  <2>3. Unexposed' = Unexposed
    BY <2>1 DEF Unexposed, Projections
  <2>4. QED
    BY <2>1, <2>2, <2>3 DEF Missing
<1>7. ASSUME NEW t \in Tabs, ApplyBootstrap(t)
      PROVE  \A s \in Unexposed' : s <= cursor' => s \in known'
  <2> SUFFICES ASSUME NEW s \in Unexposed', s <= cursor' PROVE s \in known'
    OBVIOUS
  <2>1. s \in Unexposed /\ kind[s] \in {"PROJECTION", "PARTIAL"}
    BY <1>7 DEF ApplyBootstrap, Unexposed, Projections
  <2>2. cursor' = run[t].next
    BY <1>7 DEF ApplyBootstrap, BootstrapCursor
  <2>3. s \in run[t].rows
    BY <1>7, <2>1, <2>2 DEF ApplyBootstrap, RunsOK, RunOK
  <2>4. QED
    BY <1>7, <2>1, <2>3 DEF ApplyBootstrap, Replaced, Projections
<1>8. ASSUME NEW t \in Tabs, StartPull(t) \/ ServePull(t) \/ ReadExpected(t)
               \/ (ApplyPage(t) /\ ~PageFits(run[t])) \/ Acknowledge(t) \/ ServeBootstrap(t)
               \/ FailRequest(t) \/ LoadTab(t)
      PROVE  UNCHANGED <<cursor, known>>
  BY <1>8 DEF StartPull, ServePull, ReadExpected, ApplyPage, Acknowledge, ServeBootstrap,
              FailRequest, LoadTab, local
<1>9. ASSUME NEW w \in Writers, AppendChange(w) \/ CommitTransaction(w) \/ AbortTransaction(w)
      PROVE  UNCHANGED <<cursor, known>>
  BY <1>9 DEF AppendChange, CommitTransaction, AbortTransaction, local
<1>10. QED
  BY <1>5, <1>6, <1>7, <1>8, <1>9 DEF Next, Synchronise, vars

-----------------------------------------------------------------------------
LEMMA InitIInv == Init => IInv
<1> SUFFICES ASSUME Init PROVE IInv
  OBVIOUS
<1>1. TypeOK
  BY ChangeFeedAssumption, IdleRun DEF Init, TypeOK, Kinds
<1>2. WriterOK
  BY DEF Init, WriterOK
<1>3. \A t \in Tabs : run[t].phase = "IDLE"
  BY IdleRun DEF Init
<1>4. RunsOK
  BY <1>3 DEF RunsOK, RunOK
<1>5. NeverAhead
  <2>1. cursor = 0 /\ last_ack = 0 /\ known = {} /\ Latest(change_feed) \in 0 .. MaxSequence
    BY <1>1, FeedType DEF Init
  <2>2. QED
    BY <1>3, <2>1 DEF NeverAhead
<1>6. NoOtherLoss
  BY DEF Init, NoOtherLoss, Projections
<1>7. QED
  BY <1>1, <1>2, <1>4, <1>5, <1>6 DEF IInv

LEMMA IInvStep == IInv /\ [Next]_vars => IInv'
<1> SUFFICES ASSUME IInv, [Next]_vars PROVE IInv'
  OBVIOUS
<1>1. TypeOK /\ WriterOK /\ RunsOK /\ NeverAhead /\ NoOtherLoss
  BY DEF IInv
<1>2. TypeOK' /\ WriterOK'
  BY <1>1, TypeStep, WriterStep
<1>3. Grows
  BY <1>1, <1>2, FeedGrows
<1>4. RunsOK'
  BY <1>1, <1>2, <1>3, RunsStep
<1>5. NeverAhead' /\ NoOtherLoss'
  BY <1>1, <1>2, <1>3, <1>4, NeverAheadStep, NoOtherLossStep
<1>6. QED
  BY <1>2, <1>4, <1>5 DEF IInv

THEOREM ChangeFeedInvariant == Spec => []IInv
BY InitIInv, IInvStep, PTL DEF Spec

(* A device loses no committed projection change but by the two causes     *)
(* that `exposed` records (a commit out of sequence order, and a stale     *)
(* bootstrap): page cuts, protocol errors, gaps and any number of tabs     *)
(* between pull and apply lose nothing.                                    *)
THEOREM OnlyExposedRowsAreLost == Spec => []NoOtherLoss
<1>1. IInv => NoOtherLoss
  BY DEF IInv
<1>2. QED
  BY <1>1, ChangeFeedInvariant, PTL

(* The projection, the stored cursor and every acknowledgement stay within *)
(* the committed feed, so the server never refuses an acknowledgement of   *)
(* this client with CURSOR_AHEAD_OF_SERVER.                                *)
THEOREM DeviceNeverAhead == Spec => []NeverAhead
<1>1. IInv => NeverAhead
  BY DEF IInv
<1>2. QED
  BY <1>1, ChangeFeedInvariant, PTL

(* The acknowledged cursor never goes back, and the stored one only with   *)
(* the bootstrap that replaces the projection.                             *)
THEOREM CursorsOnlyAdvance == Spec => CursorsAdvance
<1> DEFINE Advance == /\ last_ack' >= last_ack
                      /\ cursor' < cursor => \E t \in Tabs : ApplyBootstrap(t)
<1>1. IInv /\ [Next]_vars => [Advance]_vars
  <2> SUFFICES ASSUME IInv, [Next]_vars PROVE Advance
    OBVIOUS
  <2>1. TypeOK
    BY DEF IInv
  <2>2. cursor \in Int /\ last_ack \in Int /\ \A t \in Tabs : run[t] \in Run
    BY <2>1 DEF TypeOK
  <2>3. CASE UNCHANGED <<cursor, last_ack>>
    BY <2>2, <2>3
  <2>4. ASSUME NEW t \in Tabs, ApplyPage(t), PageFits(run[t])
        PROVE  Advance
    <3>1. cursor' = run[t].next /\ run[t].next >= cursor /\ last_ack' = last_ack
      BY <2>4 DEF ApplyPage, PageFits
    <3>2. run[t].next \in Int
      BY <2>2 DEF Run
    <3>3. QED
      BY <2>2, <3>1, <3>2
  <2>5. ASSUME NEW t \in Tabs, Acknowledge(t)
        PROVE  Advance
    <3>1. run[t].cursor \in Int
      BY <2>2 DEF Run
    <3>2. cursor' = cursor /\ last_ack' >= last_ack
      BY <2>2, <2>5, <3>1 DEF Acknowledge, AckGreatest, local
    <3>3. QED
      BY <2>2, <3>2
  <2>6. ASSUME NEW t \in Tabs, ApplyBootstrap(t)
        PROVE  Advance
    <3>1. last_ack' = last_ack
      BY <2>6 DEF ApplyBootstrap
    <3>2. QED
      BY <2>2, <2>6, <3>1
  <2>7. ASSUME NEW t \in Tabs, StartPull(t) \/ ServePull(t) \/ ReadExpected(t)
                 \/ (ApplyPage(t) /\ ~PageFits(run[t])) \/ ServeBootstrap(t)
                 \/ FailRequest(t) \/ LoadTab(t)
        PROVE  UNCHANGED <<cursor, last_ack>>
    BY <2>7 DEF StartPull, ServePull, ReadExpected, ApplyPage, ServeBootstrap,
                FailRequest, LoadTab, local
  <2>8. ASSUME NEW w \in Writers, AppendChange(w) \/ CommitTransaction(w) \/ AbortTransaction(w)
        PROVE  UNCHANGED <<cursor, last_ack>>
    BY <2>8 DEF AppendChange, CommitTransaction, AbortTransaction, local
  <2> HIDE DEF Advance
  <2>9. QED
    BY <2>3, <2>4, <2>5, <2>6, <2>7, <2>8 DEF Next, Synchronise, vars
<1>2. QED
  BY <1>1, ChangeFeedInvariant, PTL DEF Spec, CursorsAdvance
=============================================================================
