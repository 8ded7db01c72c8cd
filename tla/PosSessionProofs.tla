-------------------------- MODULE PosSessionProofs --------------------------
(***************************************************************************)
(* Theorems about PosSession, for any users, clock readings, tolerance and *)
(* bounds: a locked POS holds no secret, a fact is booked under the        *)
(* session it was recorded in, stamps stay inside their grant and in       *)
(* order, and facts that are not safe keep the proof they need.            *)
(***************************************************************************)
EXTENDS PosSession, TLAPS

(* A grant was issued before now, for a session that exists.               *)
GrantOK(g) == g.issued < now /\ g.session <= Len(sessions)

(* A cached session has a clock inside its grant, past every fact stamped  *)
(* in that grant.                                                          *)
ClockOK(k) ==
  /\ GrantOK(k.grant)
  /\ k.grant.issued <= k.lastEstimate /\ k.lastEstimate <= k.grant.until
  /\ \A i \in DOMAIN facts : facts[i].grant = k.grant => facts[i].at <= k.lastEstimate

(* A grant that has arrived and is not yet in use anywhere.                *)
Unused(g) ==
  /\ g # None /\ GrantOK(g) /\ operational # g
  /\ \A i \in DOMAIN facts : facts[i].grant # g
  /\ cache # None => cache.grant # g
  /\ \A c \in connects : c.cached # None => c.cached.grant # g

(* What a call under way holds.                                            *)
ConnectOK(c) ==
  /\ c.bearer <= Len(sessions)
  /\ c.step # "LOGIN" => c.bearer # 0
  /\ c.cached # None => ClockOK(c.cached)
  /\ c.step = "LOGIN" => c.grant # None /\ GrantOK(c.grant)
  /\ c.step = "CACHE" => Unused(c.grant)

PendingOK ==
  /\ \A c \in connects : ConnectOK(c)
  /\ syncing # None /\ syncing.step = "CACHE" =>
       Unused(syncing.grant) /\ \A c \in connects : c.step = "CACHE" => c.grant # syncing.grant

(* The clock in use is past every fact of the grant in use.                *)
StampsOK ==
  /\ \A i \in DOMAIN facts : InScope(facts[i]) /\ GrantOK(facts[i].grant)
  /\ \A i, j \in DOMAIN facts :
       i < j /\ facts[i].grant = facts[j].grant => facts[i].at <= facts[j].at
  /\ cache # None => ClockOK(cache)
  /\ operational # None => GrantOK(operational)
  /\ status = "READY" /\ cache # None =>
       \A i \in DOMAIN facts : facts[i].grant = operational => facts[i].at <= cache.lastEstimate

(* While a call runs the POS is not ready, and while a password is         *)
(* checked, and on a lock screen, there is no secret.                      *)
StatusOK ==
  /\ connects # {} => status # "READY" /\ status # "INITIALIZING"
  /\ \A c \in connects : c.step = "LOGIN" => bearer = 0
  /\ status = "LOCKED" => bearer = 0
  /\ status = "INITIALIZING" => operational = None /\ syncing = None /\ leaving = 0
  /\ status = "ERROR" /\ bearer # 0 => operational = None /\ syncing = None

(* What signOut found settled stays settled.                               *)
LeavingOK ==
  /\ leaving # 0 => leaving - 1 <= Len(facts)
  /\ leaving # 0 => \A i \in 1..(leaving - 1) : facts[i].state = "ACCEPTED"

IInv == /\ TypeOK /\ PendingOK /\ StampsOK /\ StatusOK /\ LeavingOK
        /\ FactsKeepCredential /\ ActorKept

-----------------------------------------------------------------------------
(* Grants, cached sessions and facts.                                      *)

LEMMA GrantsAre ==
  \A g \in Grants :
    /\ g.session \in 1..MaxSessions /\ g.issued \in Times /\ g.until \in Times
    /\ g.issued \in Nat /\ g.until \in Nat /\ g.issued < g.until /\ g # None
BY SessionAssumption DEF Grants, Times

LEMMA CachedAre ==
  \A k \in CachedSession :
    /\ k.grant \in Grants /\ k.verifier \in 1..MaxSessions
    /\ k.refLocal \in Nat /\ k.lastLocal \in Nat /\ k.lastEstimate \in Nat /\ k # None
BY SessionAssumption DEF CachedSession, Times

(* The trusted clock moves forward inside its grant.                       *)
LEMMA AdvancedIs ==
  ASSUME NEW k \in CachedSession, NEW local \in Readings, Advances(k, local)
  PROVE  /\ Advanced(k, local) \in CachedSession /\ Advanced(k, local).grant = k.grant
         /\ Advanced(k, local).lastEstimate = Estimate(k, local)
         /\ Advanced(k, local).access = k.access /\ Advanced(k, local).cause = k.cause
         /\ Advanced(k, local).verifier = k.verifier
         /\ Estimate(k, local) \in Nat /\ k.lastEstimate <= Estimate(k, local)
         /\ Estimate(k, local) <= k.grant.until
<1>1. /\ k.grant \in Grants /\ k.refLocal \in Nat /\ k.lastEstimate \in Nat /\ local \in Nat
      /\ k.grant.issued \in Nat /\ k.grant.until \in Times
  BY CachedAre, GrantsAre, SessionAssumption
<1>2. Estimate(k, local) \in Nat /\ k.lastEstimate <= Estimate(k, local)
  BY <1>1 DEF Estimate, Greater
<1>3. Estimate(k, local) <= k.grant.until
  BY DEF Advances
<1>4. Estimate(k, local) \in Times
  BY <1>1, <1>2, <1>3, SessionAssumption DEF Times
<1>5. QED
  BY <1>1, <1>2, <1>3, <1>4 DEF Advanced, CachedSession

LEMMA MarkedIs ==
  ASSUME NEW k \in CachedSession, NEW cause \in {"AUTHORITY_REVOKED", "CLOCK_UNTRUSTED"}
  PROVE  /\ MarkedRecoveryOnly(k, cause) \in CachedSession
         /\ MarkedRecoveryOnly(k, cause).grant = k.grant
         /\ MarkedRecoveryOnly(k, cause).lastEstimate = k.lastEstimate
BY DEF MarkedRecoveryOnly, CachedSession

LEMMA FreshIs ==
  ASSUME NEW g \in Grants, NEW s \in 1..MaxSessions, NEW local \in BootReadings
  PROVE  /\ Fresh(g, s, local) \in CachedSession /\ Fresh(g, s, local).grant = g
         /\ Fresh(g, s, local).lastEstimate = g.issued
<1>1. g.issued \in Times /\ local \in Readings
  BY GrantsAre, SessionAssumption
<1>2. QED
  BY <1>1 DEF Fresh, CachedSession

LEMMA FactsAre ==
  ASSUME TypeOK
  PROVE  /\ Len(facts) \in Nat /\ DOMAIN facts = 1..Len(facts)
         /\ \A i \in DOMAIN facts : facts[i] \in Fact
         /\ \A i \in DOMAIN facts : facts[i].grant \in Grants /\ facts[i].at \in Nat
<1>1. Len(facts) \in Nat /\ DOMAIN facts = 1..Len(facts) /\ \A i \in DOMAIN facts : facts[i] \in Fact
  BY DEF TypeOK
<1>2. \A f \in Fact : f.grant \in Grants /\ f.at \in Nat
  BY SessionAssumption DEF Fact, Times
<1>3. QED
  BY <1>1, <1>2

LEMMA SessionsAre ==
  ASSUME TypeOK
  PROVE  /\ Len(sessions) \in Nat /\ Len(sessions) <= MaxSessions
         /\ \A s \in 1..Len(sessions) : sessions[s] \in Session
BY DEF TypeOK

LEMMA IssuedIs ==
  ASSUME TypeOK, NEW s \in 1..Len(sessions), Authenticated(s)
  PROVE  Issued(s) \in Grants /\ Issued(s).issued = now /\ Issued(s).session = s
<1>1. sessions[s].expires \in Times /\ now \in Times /\ s \in 1..MaxSessions
  BY SessionsAre, SessionAssumption DEF Session, TypeOK, Times
<1>2. now < sessions[s].expires
  BY DEF Authenticated, Live
<1>3. QED
  BY <1>1, <1>2 DEF Issued, OfflineValidUntil, Grants

LEMMA LoggedInIs ==
  ASSUME TypeOK, NEW u \in Users, Len(sessions) < MaxSessions
  PROVE  /\ LoggedIn(u) \in Seq(Session) /\ Len(LoggedIn(u)) = Len(sessions) + 1
<1>1. now + Lifetime \in Times
  BY SessionAssumption DEF TypeOK, Times
<1>2. [user |-> u, expires |-> now + Lifetime, revoked |-> FALSE, bound |-> FALSE] \in Session
  BY <1>1 DEF Session
<1>3. QED
  BY <1>2 DEF LoggedIn, TypeOK

-----------------------------------------------------------------------------
(* A step that records no fact settles facts and keeps their stamps.       *)
Settles ==
  /\ Len(facts') = Len(facts)
  /\ \A i \in 1..Len(facts) :
       /\ facts'[i].grant = facts[i].grant /\ facts'[i].at = facts[i].at
       /\ facts[i].state = "ACCEPTED" => facts'[i].state = "ACCEPTED"

Caches == {k \in CachedSession : k = cache \/ \E c \in connects : c.cached = k}

(* m is k, perhaps with its clock further on.                              *)
Descends(m, k) ==
  /\ m \in CachedSession /\ m.grant = k.grant
  /\ k.lastEstimate <= m.lastEstimate /\ m.lastEstimate <= m.grant.until

(* A step that neither records a fact nor takes up a new grant: what it    *)
(* puts into the cache or hands to a call comes from what was there.       *)
Continues ==
  /\ now <= now' /\ Len(sessions) <= Len(sessions')
  /\ Settles
  /\ cache' # None => \E k \in Caches : Descends(cache', k)
  /\ \A c \in connects' :
       /\ c.cached # None => \E k \in Caches : Descends(c.cached, k)
       /\ c.bearer <= Len(sessions') /\ (c.step # "LOGIN" => c.bearer # 0)
       /\ c.step = "LOGIN" => c \in connects \/ (c.grant = operational /\ c.grant # None)
       /\ c.step = "CACHE" => c \in connects
  /\ operational' # None => operational' = operational \/ \E k \in Caches : operational' = k.grant
  /\ syncing' # None /\ syncing'.step = "CACHE" => syncing' = syncing
  /\ status' = "READY" /\ cache' # None =>
       \/ status = "READY" /\ operational' = operational /\ cache # None /\ Descends(cache', cache)
       \/ operational' = cache'.grant

LEMMA CachesOK ==
  ASSUME IInv
  PROVE  /\ \A k \in Caches : k \in CachedSession /\ ClockOK(k)
         /\ cache # None => cache \in Caches
         /\ \A c \in connects : c.cached # None => c.cached \in Caches
<1>1. TypeOK /\ PendingOK /\ StampsOK
  BY DEF IInv
<1>2. \A k \in Caches : k \in CachedSession /\ k # None
  BY CachedAre DEF Caches
<1>3. \A k \in Caches : ClockOK(k)
  BY <1>1, <1>2 DEF Caches, PendingOK, StampsOK, ConnectOK
<1>4. \A c \in connects : c.cached \in CachedSession \cup {None}
  BY <1>1 DEF TypeOK, Connect
<1>5. QED
  BY <1>1, <1>2, <1>3, <1>4 DEF Caches, TypeOK

(* The stamps of a step that continues.                                    *)
LEMMA StampsContinue ==
  ASSUME IInv, TypeOK', Continues
  PROVE  PendingOK' /\ StampsOK'
<1>1. TypeOK /\ PendingOK /\ StampsOK
  BY DEF IInv
<1>2. /\ now \in Nat /\ now' \in Nat /\ now <= now'
      /\ Len(sessions) \in Nat /\ Len(sessions') \in Nat /\ Len(sessions) <= Len(sessions')
  BY <1>1, SessionAssumption DEF TypeOK, Continues
<1>3. \A g \in Grants : GrantOK(g) => GrantOK(g)'
  BY <1>2, GrantsAre DEF GrantOK
<1>4. /\ DOMAIN facts' = DOMAIN facts
      /\ \A i \in DOMAIN facts : facts'[i].grant = facts[i].grant /\ facts'[i].at = facts[i].at
      /\ \A i \in DOMAIN facts : facts[i].at \in Nat
  BY <1>1, FactsAre DEF Continues, Settles, TypeOK
<1>5. ASSUME NEW k \in Caches, NEW m, Descends(m, k)
      PROVE  ClockOK(m)' /\ m.grant \in Grants /\ m.grant = k.grant
  <2>1. /\ k \in CachedSession /\ ClockOK(k) /\ m \in CachedSession /\ m.grant = k.grant
        /\ k.lastEstimate <= m.lastEstimate /\ m.lastEstimate <= m.grant.until
    BY <1>5, CachesOK DEF Descends
  <2>2. /\ k.lastEstimate \in Nat /\ m.lastEstimate \in Nat /\ k.grant \in Grants
        /\ k.grant.issued \in Nat
    BY <2>1, CachedAre, GrantsAre
  <2>3. GrantOK(m.grant)'
    BY <1>3, <2>1, <2>2 DEF ClockOK
  <2>4. m.grant.issued <= m.lastEstimate
    BY <2>1, <2>2 DEF ClockOK
  <2>5. \A i \in DOMAIN facts' : facts'[i].grant = m.grant => facts'[i].at <= m.lastEstimate
    BY <1>4, <2>1, <2>2 DEF ClockOK
  <2>6. QED
    BY <2>1, <2>2, <2>3, <2>4, <2>5 DEF ClockOK
<1>6. ASSUME NEW g \in Grants, Unused(g)
      PROVE  Unused(g)'
  <2>1. \A k \in Caches : k.grant # g
    BY <1>6, CachedAre DEF Unused, Caches
  <2>2. operational' # g
    BY <1>6, <2>1, GrantsAre DEF Continues, Unused
  <2>3. cache' # None => cache'.grant # g
    BY <1>5, <2>1 DEF Continues
  <2>4. \A c \in connects' : c.cached # None => c.cached.grant # g
    BY <1>5, <2>1 DEF Continues
  <2>5. \A i \in DOMAIN facts' : facts'[i].grant # g
    BY <1>4, <1>6 DEF Unused
  <2>6. GrantOK(g)' /\ g # None
    BY <1>3, <1>6 DEF Unused
  <2>7. QED
    BY <2>2, <2>3, <2>4, <2>5, <2>6 DEF Unused
<1>7. PendingOK'
  <2>1. ASSUME NEW c \in connects'
        PROVE  ConnectOK(c)'
    <3>1. c.cached # None => ClockOK(c.cached)'
      BY <1>5 DEF Continues
    <3>2. c.step = "CACHE" => Unused(c.grant)'
      <4> SUFFICES ASSUME c.step = "CACHE" PROVE Unused(c.grant)'
        OBVIOUS
      <4>1. c \in connects
        BY DEF Continues
      <4>2. Unused(c.grant) /\ c.grant \in Grants
        BY <1>1, <4>1 DEF PendingOK, ConnectOK, Unused, TypeOK, Connect
      <4>3. QED
        BY <1>6, <4>2
    <3>3. c.step = "LOGIN" => c.grant # None /\ GrantOK(c.grant)'
      <4> SUFFICES ASSUME c.step = "LOGIN" PROVE c.grant # None /\ GrantOK(c.grant)'
        OBVIOUS
      <4>1. c.grant # None /\ GrantOK(c.grant) /\ c.grant \in Grants
        BY <1>1 DEF Continues, PendingOK, ConnectOK, StampsOK, TypeOK, Connect
      <4>2. QED
        BY <1>3, <4>1
    <3>4. c.bearer <= Len(sessions') /\ (c.step # "LOGIN" => c.bearer # 0)
      BY DEF Continues
    <3>5. QED
      BY <3>1, <3>2, <3>3, <3>4 DEF ConnectOK
  <2>2. ASSUME syncing' # None, syncing'.step = "CACHE"
        PROVE  /\ Unused(syncing.grant)'
               /\ \A c \in connects' : c.step = "CACHE" => c.grant # syncing'.grant
    <3>1. syncing' = syncing /\ \A c \in connects' : c.step = "CACHE" => c \in connects
      BY <2>2 DEF Continues
    <3>2. PICK g : g = syncing.grant
      OBVIOUS
    <3>3. Unused(g) /\ \A c \in connects : c.step = "CACHE" => c.grant # g
      BY <1>1, <2>2, <3>1, <3>2 DEF PendingOK
    <3>4. g \in Grants
      BY <1>1, <2>2, <3>1, <3>2, <3>3 DEF TypeOK, SyncRun, Unused
    <3>5. Unused(g)'
      BY <1>6, <3>3, <3>4
    <3>6. QED
      BY <3>1, <3>2, <3>3, <3>5
  <2>3. QED
    BY <2>1, <2>2 DEF PendingOK
<1>8. StampsOK'
  <2>1. \A i \in DOMAIN facts' : InScope(facts[i])' /\ GrantOK(facts[i].grant)'
    <3> SUFFICES ASSUME NEW i \in DOMAIN facts' PROVE InScope(facts[i])' /\ GrantOK(facts[i].grant)'
      OBVIOUS
    <3>1. PICK g : g = facts[i].grant
      OBVIOUS
    <3>2. g \in Grants /\ GrantOK(g) /\ facts'[i].grant = g
      BY <1>1, <1>4, <3>1, FactsAre DEF StampsOK
    <3>3. GrantOK(g)'
      BY <1>3, <3>2
    <3>4. InScope(facts[i])'
      BY <1>1, <1>4 DEF StampsOK, InScope
    <3>5. QED
      BY <3>2, <3>3, <3>4
  <2>2. \A i, j \in DOMAIN facts' :
          i < j /\ facts'[i].grant = facts'[j].grant => facts'[i].at <= facts'[j].at
    BY <1>1, <1>4 DEF StampsOK
  <2>3. cache' # None => ClockOK(cache)'
    <3> SUFFICES ASSUME cache' # None PROVE ClockOK(cache)'
      OBVIOUS
    <3>1. PICK m : m = cache'
      OBVIOUS
    <3>2. ClockOK(m)'
      BY <1>5, <3>1 DEF Continues
    <3>3. QED
      BY <3>1, <3>2
  <2>4. operational' # None => GrantOK(operational)'
    <3> SUFFICES ASSUME operational' # None PROVE GrantOK(operational)'
      OBVIOUS
    <3>1. PICK g : g = operational'
      OBVIOUS
    <3>2. g \in Grants
      BY <3>1 DEF TypeOK
    <3>3. GrantOK(g)
      BY <1>1, <3>1, CachesOK DEF Continues, StampsOK, ClockOK
    <3>4. GrantOK(g)'
      BY <1>3, <3>2, <3>3
    <3>5. QED
      BY <3>1, <3>4
  <2>5. ASSUME status' = "READY", cache' # None, NEW i \in DOMAIN facts',
               facts'[i].grant = operational'
        PROVE  facts'[i].at <= cache'.lastEstimate
    <3>1. CASE operational' = cache'.grant
      BY <2>3, <2>5, <3>1 DEF ClockOK
    <3>2. CASE status = "READY" /\ operational' = operational /\ cache # None /\ Descends(cache', cache)
      <4>1. facts[i].at <= cache.lastEstimate /\ cache \in CachedSession
        BY <1>1, <1>4, <2>5, <3>2 DEF StampsOK, TypeOK
      <4>2. cache.lastEstimate \in Nat /\ cache'.lastEstimate \in Nat
              /\ cache.lastEstimate <= cache'.lastEstimate
        BY <3>2, <4>1, CachedAre DEF Descends
      <4>3. QED
        BY <1>4, <2>5, <4>1, <4>2
    <3>3. QED
      BY <2>5, <3>1, <3>2 DEF Continues
  <2>6. QED
    BY <2>1, <2>2, <2>3, <2>4, <2>5 DEF StampsOK
<1>9. QED
  BY <1>7, <1>8

-----------------------------------------------------------------------------
(* The outbox under a push and under a recovery.                           *)

(* Facts rewritten row by row, each row keeping its stamp, its verdict     *)
(* once accepted, and the session of its grant.                            *)
Rewrites(fs) ==
  /\ fs \in Seq(Fact) /\ Len(fs) = Len(facts)
  /\ \A i \in 1..Len(facts) :
       /\ fs[i].grant = facts[i].grant /\ fs[i].at = facts[i].at
       /\ facts[i].state = "ACCEPTED" => fs[i].state = "ACCEPTED"
       /\ fs[i].booked = facts[i].booked \/ fs[i].booked = facts[i].grant.session

LEMMA ReopenedIs ==
  ASSUME TypeOK
  PROVE  Rewrites(Reopened(facts))
<1>1. Len(facts) \in Nat /\ DOMAIN facts = 1..Len(facts) /\ \A i \in 1..Len(facts) : facts[i] \in Fact
  BY FactsAre
<1>2. PICK fs : fs = Reopened(facts)
  OBVIOUS
<1>3. /\ DOMAIN fs = 1..Len(facts)
      /\ \A i \in 1..Len(facts) :
           fs[i] = IF facts[i].state = "AUTHORITY" THEN [facts[i] EXCEPT !.state = "PENDING"]
                   ELSE facts[i]
      /\ fs = [i \in 1..Len(facts) |-> fs[i]]
  BY <1>1, <1>2 DEF Reopened
<1>4. \A i \in 1..Len(facts) :
        /\ fs[i] \in Fact /\ fs[i].grant = facts[i].grant /\ fs[i].at = facts[i].at
        /\ facts[i].state = "ACCEPTED" => fs[i].state = "ACCEPTED"
        /\ fs[i].booked = facts[i].booked
  BY <1>1, <1>3 DEF Fact, Verdicts
<1>5. fs \in Seq(Fact) /\ Len(fs) = Len(facts)
  BY <1>1, <1>3, <1>4
<1>6. QED
  BY <1>2, <1>4, <1>5 DEF Rewrites

LEMMA DrainedIs ==
  ASSUME TypeOK, NEW n \in Nat, NEW gs, Rewrites(gs)
  PROVE  Rewrites(Drained(gs, n))
<1>1. /\ Len(facts) \in Nat /\ DOMAIN gs = 1..Len(facts)
      /\ \A i \in 1..Len(facts) : gs[i] \in Fact /\ facts[i] \in Fact
  BY FactsAre DEF Rewrites
<1>2. PICK fs : fs = Drained(gs, n)
  OBVIOUS
<1>3. /\ DOMAIN fs = 1..Len(facts)
      /\ \A i \in 1..Len(facts) :
           fs[i] = IF i <= n /\ gs[i].state = "PENDING" /\ InScope(gs[i])
                   THEN Recovered(gs[i]) ELSE gs[i]
      /\ fs = [i \in 1..Len(facts) |-> fs[i]]
  BY <1>1, <1>2 DEF Drained
<1>4. \A f \in Fact : /\ Recovered(f) \in Fact /\ Recovered(f).grant = f.grant /\ Recovered(f).at = f.at
                      /\ Recovered(f).state = "ACCEPTED"
                      /\ Recovered(f).booked = f.booked \/ Recovered(f).booked = f.grant.session
  <2> SUFFICES ASSUME NEW f \in Fact
               PROVE  /\ Recovered(f) \in Fact /\ Recovered(f).grant = f.grant /\ Recovered(f).at = f.at
                      /\ Recovered(f).state = "ACCEPTED"
                      /\ Recovered(f).booked = f.booked \/ Recovered(f).booked = f.grant.session
    OBVIOUS
  <2>1. f.grant.session \in 0..MaxSessions
    BY GrantsAre, SessionAssumption DEF Fact
  <2>2. QED
    BY <2>1 DEF Recovered, RecoveryContext, Fact, Verdicts
<1>5. \A i \in 1..Len(facts) :
        /\ fs[i] \in Fact /\ fs[i].grant = facts[i].grant /\ fs[i].at = facts[i].at
        /\ facts[i].state = "ACCEPTED" => fs[i].state = "ACCEPTED"
        /\ fs[i].booked = facts[i].booked \/ fs[i].booked = facts[i].grant.session
  BY <1>1, <1>3, <1>4 DEF Rewrites
<1>6. fs \in Seq(Fact) /\ Len(fs) = Len(facts)
  BY <1>1, <1>3, <1>5
<1>7. QED
  BY <1>2, <1>5, <1>6 DEF Rewrites

(* A fact is accepted only from the session of its own grant.              *)
LEMMA PushedIs ==
  ASSUME TypeOK, PushFact
  PROVE  Rewrites(facts') /\ syncing' \in SyncRun /\ syncing'.step # "CACHE"
<1>1. /\ Len(facts) \in Nat /\ DOMAIN facts = 1..Len(facts)
      /\ \A i \in 1..Len(facts) : facts[i] \in Fact
      /\ facts \in Seq(Fact) /\ bearer \in 0..MaxSessions
  BY FactsAre, SessionsAre, SessionAssumption DEF TypeOK
<1>2. Rewrites(facts)
  BY <1>1 DEF Rewrites
<1>3. PICK i \in syncing.rows :
        /\ IF bearer = 0 \/ facts[i].state # "PENDING" THEN facts' = facts
           ELSE LET v == Verdict(facts[i], bearer)
                    booked == IF v = "ACCEPTED" /\ facts[i].booked = 0
                                THEN bearer ELSE facts[i].booked
                IN  \E heard \in {v, "PENDING"} :
                      facts' = [facts EXCEPT ![i] =
                                  [@ EXCEPT !.booked = booked, !.state = heard]]
        /\ syncing' = [syncing EXCEPT !.rows = @ \ {i}]
  BY DEF PushFact
<1>4. syncing' \in SyncRun /\ syncing'.step # "CACHE"
  BY <1>3 DEF PushFact, TypeOK, SyncRun
<1>5. CASE facts' = facts
  BY <1>2, <1>4, <1>5
<1>6. CASE ~(bearer = 0 \/ facts[i].state # "PENDING") /\ i \in 1..Len(facts)
  <2> DEFINE v == Verdict(facts[i], bearer)
             booked == IF v = "ACCEPTED" /\ facts[i].booked = 0 THEN bearer ELSE facts[i].booked
  <2>1. PICK heard \in {v, "PENDING"} :
          facts' = [facts EXCEPT ![i] = [facts[i] EXCEPT !.booked = booked, !.state = heard]]
    BY <1>3, <1>6, Zenon
  <2>2. v \in Verdicts /\ (v = "ACCEPTED" => facts[i].grant.session = bearer)
    BY <2>1 DEF Verdict, Verdicts, ContextForOfflineGrant
  <2>3. /\ booked \in 0..MaxSessions /\ heard \in Verdicts
        /\ booked = facts[i].booked \/ booked = facts[i].grant.session
    BY <1>1, <1>6, <2>1, <2>2 DEF Fact, Verdicts
  <2>4. PICK f : f = [facts[i] EXCEPT !.booked = booked, !.state = heard]
    OBVIOUS
  <2>5. f \in Fact /\ f.grant = facts[i].grant /\ f.at = facts[i].at /\ f.booked = booked
    BY <1>1, <1>6, <2>3, <2>4 DEF Fact
  <2>6. facts' = [facts EXCEPT ![i] = f]
    BY <2>1, <2>4
  <2>7. facts' \in Seq(Fact) /\ Len(facts') = Len(facts)
    BY <1>1, <1>6, <2>5, <2>6
  <2>8. \A j \in 1..Len(facts) : facts'[j] = IF j = i THEN f ELSE facts[j]
    BY <1>1, <2>6
  <2>9. QED
    BY <1>4, <1>6, <2>3, <2>5, <2>7, <2>8 DEF Rewrites
<1>7. CASE ~(bearer = 0 \/ facts[i].state # "PENDING") /\ i \notin 1..Len(facts)
  <2>1. \E x : facts' = [facts EXCEPT ![i] = x]
    BY <1>3, <1>7, Zenon
  <2>2. facts' = facts
    BY <1>1, <1>7, <2>1
  <2>3. QED
    BY <1>2, <1>4, <2>2
<1>8. QED
  BY <1>3, <1>5, <1>6, <1>7

LEMMA RecoveredIs ==
  ASSUME TypeOK, NEW n \in 0..MaxFacts, RecoverOutbox(n)
  PROVE  Rewrites(facts')
<1>1. facts' = Drained(Reopened(facts), n) /\ n \in Nat
  BY SessionAssumption DEF RecoverOutbox
<1>2. QED
  BY <1>1, ReopenedIs, DrainedIs

-----------------------------------------------------------------------------
(* Types.                                                                  *)

(* Connecting keeps a call of the right shape.                             *)
LEMMA ConnectingIs ==
  ASSUME NEW s \in 1..MaxSessions, NEW k \in CachedSession \cup {None}, Connecting(s, k)
  PROVE  /\ connects' \subseteq Connect /\ \A c, d \in connects' : c = d
         /\ \A c \in connects' : /\ c.step = "AUTH" /\ c.bearer = s /\ c.cached = k
         /\ bearer' = s /\ status' = "CONNECTING"
BY DEF Connecting, Connect

LEMMA TypeStep ==
  ASSUME IInv, Next
  PROVE  TypeOK'
<1>1. TypeOK /\ PendingOK /\ LeavingOK
  BY DEF IInv
<1> USE <1>1, SessionAssumption
<1>2. \A c \in connects : c \in Connect /\ ConnectOK(c) /\ c.cached \in CachedSession \cup {None}
  BY DEF TypeOK, PendingOK, Connect
<1>3. 0 \in 0..Len(sessions) /\ 0 \in 0..(MaxFacts + 1)
  BY SessionsAre
<1> USE <1>3
<1>a. CASE Tick
  BY <1>a DEF Tick, TypeOK, memory, pending
<1>b. CASE RevokeDevice
  BY <1>b DEF RevokeDevice, TypeOK, memory, pending
<1>c. ASSUME NEW u \in Users, DeactivateMember(u) PROVE TypeOK'
  BY <1>c DEF DeactivateMember, TypeOK, memory, pending
<1>d. CASE Reload
  BY <1>d DEF Reload, TypeOK, server, Statuses
<1>e. CASE Initialize
  <2>1. CASE cache = None
    BY <1>e, <2>1 DEF Initialize, TypeOK, server, Statuses
  <2>2. CASE cache # None
    <3>1. PICK local \in Readings :
            LET opens == cache.access = "RECOVERY_ONLY" \/ Valid(cache, local)
                read  == IF cache.access = "ACTIVE" THEN Advanced(cache, local) ELSE cache
            IN  IF opens
                  THEN /\ cache' = read
                       /\ operational' = cache.grant
                       /\ recoveryRequired' = (cache.cause = "AUTHORITY_REVOKED")
                       /\ IF bearer # 0 THEN Connecting(bearer, read)
                          ELSE status' = "LOCKED" /\ UNCHANGED <<bearer, connects>>
                  ELSE /\ status' = "ERROR"
                       /\ UNCHANGED <<bearer, cache, operational, recoveryRequired, connects>>
      BY <1>e, <2>2 DEF Initialize
    <3>2. UNCHANGED <<server, facts, runtime, syncing, leaving, dropped>>
      BY <1>e DEF Initialize
    <3>3. CASE ~(cache.access = "RECOVERY_ONLY" \/ Valid(cache, local))
      BY <3>1, <3>2, <3>3 DEF TypeOK, server, Statuses
    <3>4. CASE cache.access = "RECOVERY_ONLY" \/ Valid(cache, local)
      <4>1. cache \in CachedSession
        BY <2>2 DEF TypeOK
      <4>2. PICK read : read = IF cache.access = "ACTIVE" THEN Advanced(cache, local) ELSE cache
        OBVIOUS
      <4>3. read \in CachedSession
        BY <3>4, <4>1, <4>2, AdvancedIs DEF Valid
      <4>4. /\ cache' = read /\ operational' = cache.grant
            /\ recoveryRequired' = (cache.cause = "AUTHORITY_REVOKED")
            /\ IF bearer # 0 THEN Connecting(bearer, read)
               ELSE status' = "LOCKED" /\ UNCHANGED <<bearer, connects>>
        BY <3>1, <3>4, <4>2
      <4>5. cache.grant \in Grants
        BY <4>1, CachedAre
      <4>6. bearer # 0 => bearer \in 1..MaxSessions
        BY DEF TypeOK
      <4>7. /\ connects' \subseteq Connect /\ \A c, d \in connects' : c = d
            /\ bearer' = bearer /\ status' \in Statuses
        BY <4>3, <4>4, <4>6, ConnectingIs DEF TypeOK, Statuses
      <4>8. QED
        BY <3>2, <4>3, <4>4, <4>5, <4>7 DEF TypeOK, server
    <3>5. QED
      BY <3>3, <3>4
  <2>3. QED
    BY <2>1, <2>2
<1>f. ASSUME NEW u \in Users, SignIn(u) PROVE TypeOK'
  <2>1. LoggedIn(u) \in Seq(Session) /\ Len(LoggedIn(u)) = Len(sessions) + 1
    BY <1>f, LoggedInIs DEF SignIn
  <2>2. Len(sessions) + 1 \in 1..MaxSessions
    BY <1>f, SessionsAre DEF SignIn
  <2>3. /\ connects' \subseteq Connect /\ \A c, d \in connects' : c = d
        /\ bearer' = Len(sessions) + 1 /\ status' = "CONNECTING"
    BY <1>f, <2>2, ConnectingIs DEF SignIn, TypeOK
  <2>4. QED
    BY <1>f, <2>1, <2>2, <2>3 DEF SignIn, TypeOK, Statuses
<1>g. CASE Unlock
  <2>1. [step |-> "LOGIN", bearer |-> 0, cached |-> cache, grant |-> operational] \in Connect
    BY DEF TypeOK, Connect
  <2>2. QED
    BY <1>g, <2>1 DEF Unlock, TypeOK, server, Statuses
<1>h. CASE QuickLock
  BY <1>h DEF QuickLock, Lock, TypeOK, server, pending, Statuses
<1>i. CASE ExpiryLock
  <2>1. Lock /\ UNCHANGED <<server, cache, facts, operational, recoveryRequired, pending, dropped>>
    BY <1>i DEF ExpiryLock
  <2>2. QED
    BY <2>1 DEF Lock, TypeOK, server, pending, Statuses
<1>j. ASSUME NEW c \in connects, UnlockLogin(c) PROVE TypeOK'
  <2>1. c.step = "LOGIN" /\ c.grant # None /\ GrantOK(c.grant) /\ c.grant \in Grants
    BY <1>2, <1>j DEF UnlockLogin, ConnectOK, Connect
  <2>2. c.grant.session \in 1..Len(sessions)
    BY <2>1, GrantsAre, SessionsAre DEF GrantOK
  <2>3. PICK u : u = sessions[c.grant.session].user
    OBVIOUS
  <2>4. u \in Users
    BY <2>2, <2>3, SessionsAre DEF Session
  <2>5. /\ Len(sessions) < MaxSessions /\ sessions' = LoggedIn(u)
        /\ Connecting(Len(sessions) + 1, cache)
        /\ UNCHANGED <<now, device, inactive, cache, facts, operational,
                       recoveryRequired, runtime, syncing, leaving, dropped>>
    BY <1>j, <2>3 DEF UnlockLogin
  <2>6. LoggedIn(u) \in Seq(Session) /\ Len(LoggedIn(u)) = Len(sessions) + 1
    BY <2>4, <2>5, LoggedInIs
  <2>7. Len(sessions) + 1 \in 1..MaxSessions
    BY <2>5, SessionsAre
  <2>8. /\ connects' \subseteq Connect /\ \A d, e \in connects' : d = e
        /\ bearer' = Len(sessions) + 1 /\ status' = "CONNECTING"
    BY <2>5, <2>7, ConnectingIs DEF TypeOK
  <2>9. QED
    BY <2>5, <2>6, <2>7, <2>8 DEF TypeOK, Statuses
<1>k. ASSUME NEW c \in connects, UnlockFails(c) PROVE TypeOK'
  <2>1. cache' \in CachedSession \cup {None}
    BY <1>2, <1>k, AdvancedIs DEF UnlockFails, Valid, TypeOK
  <2>2. QED
    BY <1>k, <2>1 DEF UnlockFails, TypeOK, server, Statuses
<1>l. ASSUME NEW c \in connects, EnrollDevice(c) PROVE TypeOK'
  <2>1. /\ sessions' = [sessions EXCEPT ![c.bearer] = [@ EXCEPT !.bound = TRUE]]
        /\ UNCHANGED <<now, device, inactive, bearer, cache, facts, memory, pending, dropped>>
    BY <1>l DEF EnrollDevice
  <2>2. c.bearer \in 1..Len(sessions)
    BY <1>2, <1>l, SessionsAre DEF EnrollDevice, ConnectOK, Connect
  <2>3. [sessions[c.bearer] EXCEPT !.bound = TRUE] \in Session
    BY <2>2, SessionsAre DEF Session
  <2>4. sessions' \in Seq(Session) /\ Len(sessions') = Len(sessions)
    BY <2>1, <2>2, <2>3 DEF TypeOK
  <2>5. QED
    BY <2>1, <2>4 DEF TypeOK, memory, pending
<1>m. ASSUME NEW c \in connects, ConnectAuth(c) PROVE TypeOK'
  <2>1. [c EXCEPT !.step = "BOOTSTRAP"] \in Connect
    BY <1>2 DEF Connect
  <2>2. QED
    BY <1>m, <2>1 DEF ConnectAuth, TypeOK, server, memory
<1>n. ASSUME NEW c \in connects, ConnectBootstrap(c) PROVE TypeOK'
  <2>1. Issued(bearer) \in Grants
    BY <1>n, IssuedIs DEF ConnectBootstrap, TypeOK
  <2>2. [c EXCEPT !.step = "CACHE", !.grant = Issued(bearer)] \in Connect
    BY <1>2, <2>1 DEF Connect
  <2>3. QED
    BY <1>n, <2>2 DEF ConnectBootstrap, TypeOK, memory
<1>o. ASSUME NEW c \in connects, ConnectReady(c) PROVE TypeOK'
  <2>1. c.step = "CACHE" /\ c.grant \in Grants /\ c.bearer \in 1..MaxSessions
    BY <1>2, <1>o DEF ConnectReady, ConnectOK, Unused, Connect
  <2>2. cache' \in CachedSession
    BY <1>o, <2>1, FreshIs DEF ConnectReady
  <2>3. QED
    BY <1>o, <2>1, <2>2 DEF ConnectReady, TypeOK, server, Statuses
<1>p. ASSUME NEW c \in connects, ConnectRevoked(c) PROVE TypeOK'
  <2>1. CASE c.cached = None
    BY <1>p, <2>1 DEF ConnectRevoked, TypeOK, server, Statuses
  <2>2. CASE c.cached # None
    <3>1. c.cached \in CachedSession /\ c.cached.grant \in Grants
      BY <1>2, <2>2, CachedAre
    <3>2. MarkedRecoveryOnly(c.cached, "AUTHORITY_REVOKED") \in CachedSession
      BY <3>1, MarkedIs
    <3>3. QED
      BY <1>p, <2>2, <3>1, <3>2 DEF ConnectRevoked, TypeOK, server, Statuses
  <2>3. QED
    BY <2>1, <2>2
<1>q. ASSUME NEW c \in connects, ConnectOffline(c) PROVE TypeOK'
  <2>1. c.cached \in CachedSession /\ c.cached.grant \in Grants
    BY <1>2, <1>q, CachedAre DEF ConnectOffline
  <2>2. cache' \in CachedSession
    BY <1>q, <2>1, AdvancedIs DEF ConnectOffline, Valid
  <2>3. /\ operational' \in Grants \cup {None} /\ runtime' \in BOOLEAN /\ status' \in Statuses
        /\ bearer' \in 0..Len(sessions)
    BY <1>q, <2>1 DEF ConnectOffline, TypeOK, Statuses
  <2>4. connects' = {} /\ UNCHANGED <<server, facts, recoveryRequired, syncing, leaving, dropped>>
    BY <1>q DEF ConnectOffline
  <2>5. QED
    BY <2>2, <2>3, <2>4 DEF TypeOK, server
<1>r. ASSUME NEW c \in connects, ConnectFails(c) PROVE TypeOK'
  BY <1>r DEF ConnectFails, TypeOK, server, Statuses
<1>s. ASSUME NEW local \in Readings, RecordFact(local) PROVE TypeOK'
  <2>1. /\ cache \in CachedSession /\ operational \in Grants /\ Advances(cache, local)
        /\ Len(facts) < MaxFacts
    BY <1>s DEF RecordFact, TypeOK, Valid
  <2>2. Advanced(cache, local) \in CachedSession
    BY <2>1, AdvancedIs
  <2>3. Estimate(cache, local) \in Times
    BY <2>1, <2>2, AdvancedIs DEF CachedSession
  <2>4. PICK f : f = [grant |-> operational, at |-> Estimate(cache, local),
                      state |-> "PENDING", booked |-> 0]
    OBVIOUS
  <2>5. f \in Fact
    BY <2>1, <2>3, <2>4 DEF Fact, Verdicts
  <2>6. facts' = Append(facts, f) \/ facts' = facts
    BY <1>s, <2>4 DEF RecordFact
  <2>7. facts' \in Seq(Fact) /\ Len(facts') <= MaxFacts
    BY <2>1, <2>5, <2>6 DEF TypeOK
  <2>8. cache' \in CachedSession /\ UNCHANGED <<server, bearer, memory, pending, dropped>>
    BY <1>s, <2>2 DEF RecordFact
  <2>9. QED
    BY <2>7, <2>8 DEF TypeOK, server, memory, pending
<1>t. ASSUME NEW local \in Readings, RefuseFact(local) PROVE TypeOK'
  <2>1. cache' \in CachedSession \cup {None}
    BY <1>t, MarkedIs DEF RefuseFact, TypeOK
  <2>2. Lock /\ UNCHANGED <<server, facts, operational, recoveryRequired, pending, dropped>>
    BY <1>t DEF RefuseFact
  <2>3. QED
    BY <2>1, <2>2 DEF Lock, TypeOK, server, pending, Statuses
<1>u. CASE RunSync
  <2>1. DOMAIN facts = 1..Len(facts)
    BY FactsAre
  <2>2. [step |-> "PUSH", branch |-> "NONE", grant |-> None,
         rows |-> {i \in DOMAIN facts : facts[i].state = "PENDING"}] \in SyncRun
    BY <2>1 DEF SyncRun
  <2>3. QED
    BY <1>u, <2>2 DEF RunSync, TypeOK, server, memory
<1>v. CASE PushFact
  <2>1. Rewrites(facts') /\ syncing' \in SyncRun
    BY <1>v, PushedIs
  <2>2. UNCHANGED <<server, bearer, cache, memory, connects, leaving, dropped>>
    BY <1>v DEF PushFact
  <2>3. QED
    BY <2>1, <2>2 DEF Rewrites, TypeOK, server, memory
<1>w. CASE PullEnds
  <2>1. PICK b \in {"PROTOCOL", "PROJECTION"} :
          syncing' = None \/ syncing' = [syncing EXCEPT !.step = "BOOTSTRAP", !.branch = b]
    BY <1>w DEF PullEnds
  <2>2. [syncing EXCEPT !.step = "BOOTSTRAP", !.branch = b] \in SyncRun
    BY <1>w DEF PullEnds, TypeOK, SyncRun
  <2>3. QED
    BY <1>w, <2>1, <2>2 DEF PullEnds, TypeOK, server, memory
<1>x. CASE SyncBootstrap
  <2>1. Issued(bearer) \in Grants
    BY <1>x, IssuedIs DEF SyncBootstrap, TypeOK
  <2>2. syncing' \in SyncRun
    BY <1>x, <2>1 DEF SyncBootstrap, TypeOK, SyncRun
  <2>3. QED
    BY <1>x, <2>2 DEF SyncBootstrap, TypeOK, memory
<1>y. CASE SyncBootstrapFails
  BY <1>y DEF SyncBootstrapFails, TypeOK, server, memory
<1>z. CASE SyncReady
  <2>1. syncing \in SyncRun /\ Unused(syncing.grant)
    BY <1>z DEF SyncReady, PendingOK, TypeOK
  <2>2. syncing.grant \in Grants
    BY <2>1 DEF SyncRun, Unused
  <2>3. bearer # 0 => bearer \in 1..MaxSessions
    BY DEF TypeOK
  <2>4. cache' \in CachedSession \cup {None} /\ dropped' \in BOOLEAN
    <3>1. \A local \in BootReadings : bearer # 0 => Fresh(syncing.grant, bearer, local) \in CachedSession
      BY <2>2, <2>3, FreshIs
    <3>2. cache' \in CachedSession \cup {None}
      BY <1>z, <3>1 DEF SyncReady, TypeOK
    <3>3. dropped' \in BOOLEAN
      BY <1>z, Zenon DEF SyncReady, TypeOK
    <3>4. QED
      BY <3>2, <3>3
  <2>5. /\ operational' = syncing.grant /\ syncing' = None
        /\ UNCHANGED <<server, bearer, facts, status, recoveryRequired, runtime, connects, leaving>>
    BY <1>z DEF SyncReady
  <2>6. QED
    BY <2>2, <2>4, <2>5 DEF TypeOK, server
<1>aa. CASE SignOutCheck
  <2>1. leaving' \in 0..(MaxFacts + 1)
    BY <1>aa, FactsAre DEF SignOutCheck, TypeOK
  <2>2. QED
    BY <1>aa, <2>1 DEF SignOutCheck, TypeOK, server, memory
<1>bb. CASE SignOut
  <2>1. sessions' \in Seq(Session) /\ Len(sessions') = Len(sessions)
    <3>1. CASE sessions' = sessions
      BY <3>1 DEF TypeOK
    <3>2. CASE bearer # 0 /\ sessions' = Revoked(bearer)
      <4>1. bearer \in 1..Len(sessions)
        BY <3>2 DEF TypeOK
      <4>2. [sessions[bearer] EXCEPT !.revoked = TRUE] \in Session
        BY <4>1, SessionsAre DEF Session
      <4>3. QED
        BY <3>2, <4>1, <4>2 DEF Revoked, TypeOK
    <3>3. QED
      BY <1>bb, <3>1, <3>2 DEF SignOut
  <2>2. dropped' \in BOOLEAN
    BY <1>bb DEF SignOut, TypeOK
  <2>3. QED
    BY <1>bb, <2>1, <2>2 DEF SignOut, TypeOK, Statuses
<1>cc. ASSUME NEW n \in 0..MaxFacts, RecoverOutbox(n) PROVE TypeOK'
  <2>1. facts' \in Seq(Fact) /\ Len(facts') = Len(facts)
    BY <1>cc, RecoveredIs DEF Rewrites
  <2>2. UNCHANGED <<server, pending, dropped>>
    BY <1>cc DEF RecoverOutbox
  <2>3. /\ bearer' \in 0..Len(sessions) /\ cache' \in CachedSession \cup {None}
        /\ operational' \in Grants \cup {None} /\ status' \in Statuses
    BY <1>cc DEF RecoverOutbox, TypeOK, Statuses
  <2>4. recoveryRequired' \in BOOLEAN /\ runtime' \in BOOLEAN
    BY <1>cc DEF RecoverOutbox, TypeOK
  <2>5. QED
    BY <2>1, <2>2, <2>3, <2>4 DEF TypeOK, server, pending
<1>dd. QED
  BY <1>a, <1>b, <1>c, <1>d, <1>e, <1>f, <1>g, <1>h, <1>i, <1>j, <1>k, <1>l, <1>m, <1>n, <1>o,
     <1>p, <1>q, <1>r, <1>s, <1>t, <1>u, <1>v, <1>w, <1>x, <1>y, <1>z, <1>aa, <1>bb, <1>cc
     DEF Next

-----------------------------------------------------------------------------
(* The steps that continue: all but a bootstrap, its arrival, and a fact.  *)
LEMMA QuietContinues ==
  ASSUME IInv, TypeOK',
         \/ Tick \/ RevokeDevice \/ \E u \in Users : DeactivateMember(u)
         \/ Reload \/ Initialize
         \/ \E u \in Users : SignIn(u)
         \/ Unlock \/ QuickLock \/ ExpiryLock
         \/ \E c \in connects :
              \/ UnlockLogin(c) \/ UnlockFails(c) \/ EnrollDevice(c) \/ ConnectAuth(c)
              \/ ConnectRevoked(c) \/ ConnectOffline(c) \/ ConnectFails(c)
         \/ \E local \in Readings : RefuseFact(local)
         \/ RunSync \/ PushFact \/ PullEnds \/ SyncBootstrapFails
         \/ SignOutCheck \/ SignOut
         \/ \E n \in 0..MaxFacts : RecoverOutbox(n)
         \/ UNCHANGED vars
  PROVE  Continues
<1> DEFINE
  Grows == now <= now' /\ Len(sessions) <= Len(sessions')
  CacheKept == cache' # None => \E k \in Caches : Descends(cache', k)
  CallsKept ==
    \A c \in connects' :
       /\ c.cached # None => \E k \in Caches : Descends(c.cached, k)
       /\ c.bearer <= Len(sessions') /\ (c.step # "LOGIN" => c.bearer # 0)
       /\ c.step = "LOGIN" => c \in connects \/ (c.grant = operational /\ c.grant # None)
       /\ c.step = "CACHE" => c \in connects
  GrantKept ==
    operational' # None => operational' = operational \/ \E k \in Caches : operational' = k.grant
  RunKept == syncing' # None /\ syncing'.step = "CACHE" => syncing' = syncing
  ReadyKept ==
    status' = "READY" /\ cache' # None =>
       \/ status = "READY" /\ operational' = operational /\ cache # None /\ Descends(cache', cache)
       \/ operational' = cache'.grant
<1>1. /\ TypeOK /\ PendingOK /\ StampsOK /\ StatusOK
      /\ now \in Nat /\ Len(sessions) \in Nat /\ Len(sessions) <= MaxSessions
  BY SessionsAre, SessionAssumption DEF IInv, TypeOK
<1>2. \A k \in Caches : k \in CachedSession /\ k.grant \in Grants /\ k # None /\ Descends(k, k)
  BY CachesOK, CachedAre DEF Descends, ClockOK
<1>3. /\ cache # None => cache \in Caches
      /\ \A c \in connects : c.cached # None => c.cached \in Caches
      /\ \A c \in connects : c \in Connect /\ ConnectOK(c)
  BY <1>1, CachesOK DEF TypeOK, PendingOK
<1>4. facts' = facts => Settles
  BY DEF Settles
<1>5. now' = now \/ now' = now + 1 => now <= now'
  BY <1>1
<1>6. sessions' = sessions => Len(sessions) <= Len(sessions')
  BY <1>1
<1>7. cache' = cache => CacheKept
  BY <1>2, <1>3
<1>8. connects' = {} => CallsKept
  OBVIOUS
<1>9. ASSUME connects' = connects, Len(sessions) <= Len(sessions')
      PROVE  CallsKept
  <2>1. Len(sessions') \in Nat /\ \A c \in connects : c.bearer \in Nat
    BY <1>3, SessionAssumption DEF Connect, TypeOK
  <2>2. \A c \in connects : c.bearer <= Len(sessions) /\ (c.step # "LOGIN" => c.bearer # 0)
    BY <1>3 DEF ConnectOK
  <2>3. \A c \in connects : c.bearer <= Len(sessions')
    BY <1>1, <1>9, <2>1, <2>2
  <2>4. \A c \in connects : c.cached # None => \E k \in Caches : Descends(c.cached, k)
    BY <1>2, <1>3
  <2>5. QED
    BY <1>9, <2>2, <2>3, <2>4
<1>10. status' = status /\ operational' = operational /\ cache' = cache => ReadyKept
  BY <1>2, <1>3
<1>11. Grows /\ Settles /\ CacheKept /\ CallsKept /\ GrantKept /\ RunKept /\ ReadyKept => Continues
  BY DEF Continues
<1>12. ASSUME NEW s \in 1..MaxSessions, NEW k \in CachedSession \cup {None}, Connecting(s, k),
              s <= Len(sessions'), k # None => \E m \in Caches : Descends(k, m)
       PROVE  CallsKept /\ status' = "CONNECTING"
  BY <1>12, ConnectingIs, SessionAssumption
<1> HIDE DEF Grows, CacheKept, CallsKept, GrantKept, RunKept, ReadyKept
<1>a. CASE Tick
  BY <1>a, <1>4, <1>5, <1>6, <1>7, <1>9, <1>10, <1>11
     DEF Tick, memory, pending, Grows, GrantKept, RunKept
<1>b. CASE RevokeDevice
  BY <1>b, <1>4, <1>5, <1>6, <1>7, <1>9, <1>10, <1>11
     DEF RevokeDevice, memory, pending, Grows, GrantKept, RunKept
<1>c. ASSUME NEW u \in Users, DeactivateMember(u) PROVE Continues
  BY <1>c, <1>4, <1>5, <1>6, <1>7, <1>9, <1>10, <1>11
     DEF DeactivateMember, memory, pending, Grows, GrantKept, RunKept
<1>d. CASE Reload
  BY <1>d, <1>4, <1>5, <1>6, <1>7, <1>8, <1>11
     DEF Reload, server, Grows, GrantKept, RunKept, ReadyKept
<1>e. CASE Initialize
  <2>1. UNCHANGED <<server, facts, runtime, syncing, leaving, dropped>>
    BY <1>e DEF Initialize
  <2>2. Grows /\ Settles /\ RunKept
    BY <1>4, <1>5, <1>6, <2>1 DEF server, Grows, RunKept
  <2>3. CASE UNCHANGED <<bearer, cache, operational, recoveryRequired, connects>>
             /\ status' \in {"SIGNED_OUT", "ERROR"}
    BY <1>6, <1>7, <1>9, <1>11, <2>1, <2>2, <2>3 DEF server, GrantKept, ReadyKept, Grows
  <2>4. ASSUME cache # None, NEW local \in Readings,
               cache.access = "RECOVERY_ONLY" \/ Valid(cache, local), NEW read,
               read = (IF cache.access = "ACTIVE" THEN Advanced(cache, local) ELSE cache),
               cache' = read, operational' = cache.grant,
               IF bearer # 0 THEN Connecting(bearer, read)
               ELSE status' = "LOCKED" /\ UNCHANGED <<bearer, connects>>
        PROVE  Continues
    <3>1. cache \in CachedSession
      BY <1>1, <2>4 DEF TypeOK
    <3>2. read \in CachedSession /\ Descends(read, cache) /\ cache \in Caches
      BY <1>2, <1>3, <2>4, <3>1, AdvancedIs DEF Valid, Descends
    <3>3. CacheKept /\ GrantKept
      BY <2>4, <3>2 DEF CacheKept, GrantKept
    <3>4. CallsKept /\ status' # "READY"
      <4>1. CASE bearer = 0
        BY <1>9, <2>2, <2>4, <4>1 DEF Grows
      <4>2. CASE bearer # 0
        <5>1. bearer \in 1..MaxSessions /\ bearer <= Len(sessions')
          BY <1>1, <2>1, <4>2, SessionAssumption DEF TypeOK, server
        <5>2. Connecting(bearer, read) /\ read \in CachedSession \cup {None}
          BY <2>4, <3>2, <4>2
        <5>3. read # None => \E m \in Caches : Descends(read, m)
          BY <3>2
        <5>4. QED
          BY <1>12, <5>1, <5>2, <5>3
      <4>3. QED
        BY <4>1, <4>2
    <3>5. ReadyKept
      BY <3>4 DEF ReadyKept
    <3>6. QED
      BY <1>11, <2>2, <3>3, <3>4, <3>5
  <2>5. QED
    BY <1>e, <2>3, <2>4 DEF Initialize
<1>f. ASSUME NEW u \in Users, SignIn(u) PROVE Continues
  <2>1. Len(sessions') = Len(sessions) + 1 /\ Len(sessions) < MaxSessions
    BY <1>1, <1>f, LoggedInIs DEF SignIn
  <2>2. CallsKept /\ status' = "CONNECTING"
    <3>1. Connecting(Len(sessions) + 1, cache) /\ Len(sessions) + 1 \in 1..MaxSessions
      BY <1>1, <1>f, <2>1, SessionAssumption DEF SignIn
    <3>2. cache \in CachedSession \cup {None} /\ Len(sessions) + 1 <= Len(sessions')
      BY <1>1, <2>1 DEF TypeOK
    <3>3. cache # None => \E m \in Caches : Descends(cache, m)
      BY <1>2, <1>3
    <3>4. QED
      BY <1>12, <3>1, <3>2, <3>3
  <2>3. QED
    BY <1>1, <1>f, <1>4, <1>5, <1>7, <1>11, <2>1, <2>2
       DEF SignIn, Grows, GrantKept, RunKept, ReadyKept
<1>g. CASE Unlock
  <2>1. CallsKept
    <3>1. PICK d : d = [step |-> "LOGIN", bearer |-> 0, cached |-> cache, grant |-> operational]
      OBVIOUS
    <3>2. connects' = {d} /\ operational # None
      BY <1>g, <3>1 DEF Unlock
    <3>3. /\ d.cached = cache /\ d.bearer = 0 /\ d.step = "LOGIN" /\ d.grant = operational
      BY <3>1
    <3>4. 0 <= Len(sessions')
      BY DEF TypeOK
    <3>5. QED
      BY <1>2, <1>3, <3>2, <3>3, <3>4 DEF CallsKept
  <2>2. QED
    BY <1>g, <1>4, <1>5, <1>6, <1>7, <1>11, <2>1
       DEF Unlock, server, Grows, GrantKept, RunKept, ReadyKept
<1>h. CASE QuickLock
  BY <1>h, <1>4, <1>5, <1>6, <1>7, <1>9, <1>11
     DEF QuickLock, Lock, server, pending, Grows, GrantKept, RunKept, ReadyKept
<1>i. CASE ExpiryLock
  <2>1. Lock /\ UNCHANGED <<server, cache, facts, operational, pending>>
    BY <1>i DEF ExpiryLock
  <2>2. QED
    BY <2>1, <1>4, <1>5, <1>6, <1>7, <1>9, <1>11
       DEF Lock, server, pending, Grows, GrantKept, RunKept, ReadyKept
<1>j. ASSUME NEW c \in connects, UnlockLogin(c) PROVE Continues
  <2>1. /\ c.step = "LOGIN" /\ Len(sessions) < MaxSessions
        /\ sessions' = LoggedIn(sessions[c.grant.session].user)
        /\ Connecting(Len(sessions) + 1, cache)
        /\ UNCHANGED <<now, cache, facts, operational, syncing>>
    BY <1>j DEF UnlockLogin
  <2>2. Len(sessions') = Len(sessions) + 1
    BY <1>1, <2>1 DEF LoggedIn, TypeOK
  <2>3. CallsKept /\ status' = "CONNECTING"
    <3>1. Len(sessions) + 1 \in 1..MaxSessions
      BY <1>1, <2>1, SessionAssumption
    <3>2. cache \in CachedSession \cup {None} /\ Len(sessions) + 1 <= Len(sessions')
      BY <1>1, <2>2 DEF TypeOK
    <3>3. cache # None => \E m \in Caches : Descends(cache, m)
      BY <1>2, <1>3
    <3>4. QED
      BY <1>12, <2>1, <3>1, <3>2, <3>3
  <2>4. QED
    BY <1>1, <2>1, <1>4, <1>5, <1>7, <1>11, <2>2, <2>3
       DEF Grows, GrantKept, RunKept, ReadyKept
<1>13. ASSUME NEW c \in connects, c.cached # None, NEW local \in Readings, Valid(c.cached, local),
              cache' = Advanced(c.cached, local)
       PROVE  CacheKept /\ cache'.grant = c.cached.grant
  <2>1. c.cached \in Caches /\ c.cached \in CachedSession
    BY <1>2, <1>3, <1>13
  <2>2. Descends(cache', c.cached) /\ cache'.grant = c.cached.grant
    BY <1>13, <2>1, AdvancedIs DEF Valid, Descends
  <2>3. QED
    BY <2>1, <2>2 DEF CacheKept
<1>k. ASSUME NEW c \in connects, UnlockFails(c) PROVE Continues
  <2>1. CacheKept
    BY <1>k, <1>7, <1>13 DEF UnlockFails
  <2>2. /\ status' = "LOCKED" /\ connects' = {}
        /\ UNCHANGED <<server, bearer, facts, operational, syncing>>
    BY <1>k DEF UnlockFails
  <2>3. QED
    BY <1>4, <1>5, <1>6, <1>8, <1>11, <2>1, <2>2 DEF server, Grows, GrantKept, RunKept, ReadyKept
<1>l. ASSUME NEW c \in connects, EnrollDevice(c) PROVE Continues
  <2>1. Len(sessions') = Len(sessions)
    BY <1>1, <1>l DEF EnrollDevice, TypeOK
  <2>2. UNCHANGED <<now, cache, facts, status, operational, connects, syncing>>
    BY <1>l DEF EnrollDevice, memory, pending
  <2>3. Grows /\ CallsKept
    BY <1>1, <1>5, <1>9, <2>1, <2>2 DEF Grows
  <2>4. QED
    BY <1>4, <1>7, <1>10, <1>11, <2>2, <2>3 DEF GrantKept, RunKept
<1>m. ASSUME NEW c \in connects, ConnectAuth(c) PROVE Continues
  <2>1. /\ c.step = "AUTH" /\ connects' = {[c EXCEPT !.step = "BOOTSTRAP"]}
        /\ UNCHANGED <<now, sessions, cache, facts, status, operational, syncing>>
    BY <1>m DEF ConnectAuth, server, memory
  <2>2. PICK d : d = [c EXCEPT !.step = "BOOTSTRAP"]
    OBVIOUS
  <2>3. d.step = "BOOTSTRAP" /\ d.bearer = c.bearer /\ d.cached = c.cached
    BY <1>3, <2>2 DEF Connect
  <2>4. c.bearer <= Len(sessions) /\ c.bearer # 0
    BY <1>3, <2>1 DEF ConnectOK
  <2>5. c.cached # None => \E k \in Caches : Descends(c.cached, k)
    BY <1>2, <1>3
  <2>6. CallsKept
    BY <2>1, <2>2, <2>3, <2>4, <2>5 DEF CallsKept
  <2>7. QED
    BY <1>4, <1>5, <1>6, <1>7, <1>10, <1>11, <2>1, <2>6 DEF Grows, GrantKept, RunKept
<1>p. ASSUME NEW c \in connects, ConnectRevoked(c) PROVE Continues
  <2>1. connects' = {} /\ UNCHANGED <<server, facts, syncing>> /\ status' # "READY"
    BY <1>p DEF ConnectRevoked
  <2>2. CASE c.cached = None
    <3>1. UNCHANGED <<cache, operational>>
      BY <1>p, <2>2 DEF ConnectRevoked
    <3>2. QED
      BY <1>4, <1>5, <1>6, <1>7, <1>8, <1>11, <2>1, <3>1
         DEF server, Grows, GrantKept, RunKept, ReadyKept
  <2>3. CASE c.cached # None
    <3>1. c.cached \in Caches /\ c.cached \in CachedSession /\ Descends(c.cached, c.cached)
      BY <1>2, <1>3, <2>3
    <3>2. Descends(MarkedRecoveryOnly(c.cached, "AUTHORITY_REVOKED"), c.cached)
      BY <3>1, MarkedIs DEF Descends
    <3>3. CacheKept
      BY <1>p, <2>3, <3>1, <3>2 DEF ConnectRevoked, CacheKept
    <3>4. GrantKept
      BY <1>p, <2>3, <3>1 DEF ConnectRevoked, GrantKept
    <3>5. QED
      BY <1>4, <1>5, <1>6, <1>8, <1>11, <2>1, <3>3, <3>4 DEF server, Grows, RunKept, ReadyKept
  <2>4. QED
    BY <2>2, <2>3
<1>q. ASSUME NEW c \in connects, ConnectOffline(c) PROVE Continues
  <2>1. PICK local \in Readings : Valid(c.cached, local) /\ cache' = Advanced(c.cached, local)
    BY <1>q DEF ConnectOffline
  <2>2. c.cached # None /\ connects' = {} /\ UNCHANGED <<server, facts, syncing>>
    BY <1>q DEF ConnectOffline
  <2>3. CacheKept /\ cache'.grant = c.cached.grant /\ c.cached \in Caches
    BY <1>3, <1>13, <2>1, <2>2
  <2>4. \/ status' = "READY" /\ operational' = c.cached.grant
        \/ status' = "ERROR" /\ operational' = operational
    BY <1>q DEF ConnectOffline
  <2>5. GrantKept /\ ReadyKept
    BY <2>3, <2>4 DEF GrantKept, ReadyKept
  <2>6. QED
    BY <1>4, <1>5, <1>6, <1>8, <1>11, <2>2, <2>3, <2>5 DEF server, Grows, RunKept
<1>r. ASSUME NEW c \in connects, ConnectFails(c) PROVE Continues
  BY <1>r, <1>4, <1>5, <1>6, <1>7, <1>8, <1>11
     DEF ConnectFails, server, Grows, GrantKept, RunKept, ReadyKept
<1>t. ASSUME NEW local \in Readings, RefuseFact(local) PROVE Continues
  <2>1. Lock /\ UNCHANGED <<server, facts, operational, pending>>
    BY <1>t DEF RefuseFact
  <2>2. cache # None => cache \in Caches /\ cache \in CachedSession /\ Descends(cache, cache)
    BY <1>2, <1>3
  <2>3. cache # None => Descends(MarkedRecoveryOnly(cache, "CLOCK_UNTRUSTED"), cache)
    BY <2>2, MarkedIs DEF Descends
  <2>4. CacheKept
    BY <1>t, <2>2, <2>3 DEF RefuseFact, CacheKept
  <2>5. QED
    BY <2>1, <2>4, <1>4, <1>5, <1>6, <1>9, <1>11
       DEF Lock, server, pending, Grows, GrantKept, RunKept, ReadyKept
<1>u. CASE RunSync
  BY <1>u, <1>4, <1>5, <1>6, <1>7, <1>9, <1>10, <1>11
     DEF RunSync, server, memory, Grows, GrantKept, RunKept
<1>v. CASE PushFact
  <2>1. Rewrites(facts') /\ syncing'.step # "CACHE"
    BY <1>1, <1>v, PushedIs
  <2>2. Settles
    BY <2>1 DEF Rewrites, Settles
  <2>3. QED
    BY <1>v, <1>5, <1>6, <1>7, <1>9, <1>10, <1>11, <2>1, <2>2
       DEF PushFact, server, memory, Grows, GrantKept, RunKept
<1>w. CASE PullEnds
  <2>1. syncing' # None => syncing'.step = "BOOTSTRAP"
    <3>1. syncing \in SyncRun
      BY <1>1, <1>w DEF PullEnds, TypeOK
    <3>2. QED
      BY <1>w, <3>1 DEF PullEnds, SyncRun
  <2>2. QED
    BY <1>w, <1>4, <1>5, <1>6, <1>7, <1>9, <1>10, <1>11, <2>1
       DEF PullEnds, server, memory, Grows, GrantKept, RunKept
<1>y. CASE SyncBootstrapFails
  BY <1>y, <1>4, <1>5, <1>6, <1>7, <1>9, <1>10, <1>11
     DEF SyncBootstrapFails, server, memory, Grows, GrantKept, RunKept
<1>aa. CASE SignOutCheck
  BY <1>aa, <1>4, <1>5, <1>6, <1>7, <1>9, <1>10, <1>11
     DEF SignOutCheck, server, memory, Grows, GrantKept, RunKept
<1>bb. CASE SignOut
  <2>1. Len(sessions') = Len(sessions)
    <3>1. Len(Revoked(bearer)) = Len(sessions)
      BY <1>1 DEF Revoked, TypeOK
    <3>2. QED
      BY <1>bb, <3>1 DEF SignOut
  <2>2. /\ cache' = None /\ status' = "SIGNED_OUT" /\ operational' = None
        /\ UNCHANGED <<now, facts, connects, syncing>>
    BY <1>bb DEF SignOut
  <2>3. Grows /\ CallsKept
    BY <1>1, <1>5, <1>9, <2>1, <2>2 DEF Grows
  <2>4. QED
    BY <1>4, <1>11, <2>2, <2>3 DEF CacheKept, GrantKept, RunKept, ReadyKept
<1>cc. ASSUME NEW n \in 0..MaxFacts, RecoverOutbox(n) PROVE Continues
  <2>1. Settles
    BY <1>1, <1>cc, RecoveredIs DEF Rewrites, Settles
  <2>2. UNCHANGED <<server, pending>> /\ status' # "READY"
    BY <1>cc DEF RecoverOutbox
  <2>3. CacheKept /\ GrantKept
    BY <1>cc, <1>7 DEF RecoverOutbox, CacheKept, GrantKept
  <2>4. QED
    BY <1>5, <1>6, <1>9, <1>11, <2>1, <2>2, <2>3 DEF server, pending, Grows, RunKept, ReadyKept
<1>dd. CASE UNCHANGED vars
  BY <1>dd, <1>4, <1>5, <1>6, <1>7, <1>9, <1>10, <1>11
     DEF vars, server, memory, pending, Grows, GrantKept, RunKept
<1>ee. QED
  BY <1>a, <1>b, <1>c, <1>d, <1>e, <1>f, <1>g, <1>h, <1>i, <1>j, <1>k, <1>l, <1>m, <1>p, <1>q,
     <1>r, <1>t, <1>u, <1>v, <1>w, <1>y, <1>aa, <1>bb, <1>cc, <1>dd

-----------------------------------------------------------------------------
(* A bootstrap: the grant it brings is later than every other.             *)
LEMMA IssuedIsUnused ==
  ASSUME IInv, bearer # 0, Authenticated(bearer), NEW g, g = Issued(bearer), now' = now + 1,
         UNCHANGED <<sessions, facts, cache, operational, status>>,
         \A d \in connects' : \E c \in connects : d.cached = c.cached
  PROVE  /\ g \in Grants /\ ~GrantOK(g) /\ Unused(g)'
         /\ \A h \in Grants : (GrantOK(h) => GrantOK(h)') /\ (Unused(h) => Unused(h)')
         /\ \A k \in CachedSession : ClockOK(k) => ClockOK(k)'
         /\ StampsOK'
<1>1. TypeOK /\ PendingOK /\ StampsOK /\ now \in Nat /\ bearer \in 1..Len(sessions)
  BY SessionAssumption DEF IInv, TypeOK
<1>3. g \in Grants /\ g.issued = now /\ g.session = bearer /\ g # None
  BY <1>1, IssuedIs, GrantsAre
<1>4. ~GrantOK(g)
  BY <1>1, <1>3 DEF GrantOK
<1>5. \A h \in Grants : GrantOK(h) => GrantOK(h)'
  BY <1>1, GrantsAre DEF GrantOK
<1>6. \A k \in CachedSession : ClockOK(k) => ClockOK(k)'
  BY <1>5, CachedAre DEF ClockOK
<1>7. \A h \in Grants : Unused(h) => Unused(h)'
  BY <1>5 DEF Unused
<1>8. Unused(g)'
  <2>1. GrantOK(g)'
    BY <1>1, <1>3 DEF GrantOK
  <2>2. operational # g /\ (cache # None => cache.grant # g)
    BY <1>1, <1>3, <1>4 DEF StampsOK, ClockOK
  <2>3. \A c \in connects : c.cached # None => c.cached.grant # g
    BY <1>1, <1>4 DEF PendingOK, ConnectOK, ClockOK
  <2>4. \A i \in DOMAIN facts : facts[i].grant # g
    BY <1>1, <1>4 DEF StampsOK
  <2>5. QED
    BY <1>3, <2>1, <2>2, <2>3, <2>4 DEF Unused
<1>9. StampsOK'
  <2>1. cache # None => ClockOK(cache)'
    BY <1>1, <1>6 DEF StampsOK, TypeOK
  <2>2. operational # None => GrantOK(operational)'
    BY <1>1, <1>5 DEF StampsOK, TypeOK
  <2>3. \A i \in DOMAIN facts : GrantOK(facts[i].grant)'
    <3> SUFFICES ASSUME NEW i \in DOMAIN facts PROVE GrantOK(facts[i].grant)'
      OBVIOUS
    <3>1. PICK h : h = facts[i].grant
      OBVIOUS
    <3>2. h \in Grants /\ GrantOK(h)
      BY <1>1, <3>1, FactsAre DEF StampsOK
    <3>3. QED
      BY <1>5, <3>1, <3>2
  <2>4. QED
    BY <1>1, <2>1, <2>2, <2>3 DEF StampsOK, InScope
<1>10. QED
  BY <1>3, <1>4, <1>5, <1>6, <1>7, <1>8, <1>9

LEMMA ConnectBootstrapStamps ==
  ASSUME IInv, TypeOK', NEW c \in connects, ConnectBootstrap(c)
  PROVE  PendingOK' /\ StampsOK'
<1>1. /\ TypeOK /\ PendingOK /\ c \in Connect /\ ConnectOK(c)
      /\ \A e \in connects : e = c
  BY DEF IInv, TypeOK, PendingOK
<1>2. PICK g : g = Issued(bearer)
  OBVIOUS
<1>3. PICK d : d = [c EXCEPT !.step = "CACHE", !.grant = g]
  OBVIOUS
<1>4. d.step = "CACHE" /\ d.grant = g /\ d.bearer = c.bearer /\ d.cached = c.cached
  BY <1>1, <1>3 DEF Connect
<1>5. /\ c.step = "BOOTSTRAP" /\ bearer # 0 /\ Authenticated(bearer) /\ connects' = {d}
      /\ now' = now + 1 /\ UNCHANGED <<sessions, facts, cache, operational, status, syncing>>
  BY <1>2, <1>3 DEF ConnectBootstrap, memory
<1>6. \A e \in connects' : e.cached = c.cached
  BY <1>4, <1>5
<1>7. /\ g \in Grants /\ ~GrantOK(g) /\ Unused(g)'
      /\ \A h \in Grants : Unused(h) => Unused(h)'
      /\ \A k \in CachedSession : ClockOK(k) => ClockOK(k)'
      /\ StampsOK'
  BY <1>2, <1>5, <1>6, IssuedIsUnused
<1>8. ConnectOK(d)'
  <2>1. c.bearer <= Len(sessions') /\ c.bearer # 0
    BY <1>1, <1>5 DEF ConnectOK
  <2>2. c.cached # None => ClockOK(c.cached)'
    BY <1>1, <1>7 DEF ConnectOK, Connect
  <2>3. QED
    BY <1>4, <1>7, <2>1, <2>2 DEF ConnectOK
<1>9. ASSUME syncing # None, syncing.step = "CACHE"
      PROVE  Unused(syncing.grant)' /\ d.grant # syncing.grant
  <2>1. PICK h : h = syncing.grant
    OBVIOUS
  <2>2. Unused(h) /\ h \in Grants /\ GrantOK(h)
    BY <1>1, <1>9, <2>1 DEF PendingOK, TypeOK, SyncRun, Unused
  <2>3. QED
    BY <1>4, <1>5, <1>7, <2>1, <2>2
<1>10. QED
  BY <1>5, <1>7, <1>8, <1>9 DEF PendingOK

LEMMA SyncBootstrapStamps ==
  ASSUME IInv, TypeOK', SyncBootstrap
  PROVE  PendingOK' /\ StampsOK'
<1>1. TypeOK /\ PendingOK /\ syncing \in SyncRun
  BY DEF IInv, TypeOK, SyncBootstrap
<1>2. PICK g : g = Issued(bearer)
  OBVIOUS
<1>3. /\ bearer # 0 /\ Authenticated(bearer) /\ now' = now + 1
      /\ syncing' = [syncing EXCEPT !.step = "CACHE", !.grant = g]
      /\ UNCHANGED <<sessions, facts, cache, operational, status, connects>>
  BY <1>2 DEF SyncBootstrap, memory
<1>4. syncing'.grant = g
  BY <1>1, <1>3 DEF SyncRun
<1>5. /\ g \in Grants /\ ~GrantOK(g) /\ Unused(g)'
      /\ \A h \in Grants : (GrantOK(h) => GrantOK(h)') /\ (Unused(h) => Unused(h)')
      /\ \A k \in CachedSession : ClockOK(k) => ClockOK(k)'
      /\ StampsOK'
  BY <1>2, <1>3, IssuedIsUnused
<1>6. ASSUME NEW c \in connects
      PROVE  ConnectOK(c)' /\ (c.step = "CACHE" => c.grant # g)
  <2>1. ConnectOK(c) /\ c \in Connect
    BY <1>1 DEF PendingOK, TypeOK
  <2>2. c.cached # None => ClockOK(c.cached)'
    BY <1>5, <2>1 DEF ConnectOK, Connect
  <2>3. c.step = "LOGIN" => c.grant # None /\ GrantOK(c.grant)'
    BY <1>5, <2>1 DEF ConnectOK, Connect
  <2>4. c.step = "CACHE" => c.grant \in Grants /\ Unused(c.grant) /\ GrantOK(c.grant)
    BY <2>1 DEF ConnectOK, Connect, Unused
  <2>5. QED
    BY <1>3, <1>5, <2>1, <2>2, <2>3, <2>4 DEF ConnectOK
<1>7. Unused(syncing.grant)'
  BY <1>4, <1>5
<1>8. QED
  BY <1>3, <1>4, <1>5, <1>6, <1>7 DEF PendingOK

-----------------------------------------------------------------------------
(* The grant of a bootstrap comes into use with its own clock.             *)
LEMMA FreshClock ==
  ASSUME IInv, NEW g \in Grants, Unused(g), NEW s \in 1..MaxSessions, NEW local \in BootReadings,
         NEW k, k = Fresh(g, s, local), UNCHANGED <<now, sessions, facts>>
  PROVE  ClockOK(k)' /\ GrantOK(g)' /\ k.grant = g
<1>1. k.grant = g /\ k.lastEstimate = g.issued
  BY FreshIs
<1>2. g.issued \in Nat /\ g.until \in Nat /\ g.issued < g.until
  BY GrantsAre
<1>3. QED
  BY <1>1, <1>2 DEF ClockOK, GrantOK, Unused

LEMMA ConnectReadyStamps ==
  ASSUME IInv, TypeOK', NEW c \in connects, ConnectReady(c)
  PROVE  PendingOK' /\ StampsOK'
<1>1. /\ TypeOK /\ PendingOK /\ StampsOK /\ c \in Connect /\ ConnectOK(c)
  BY DEF IInv, TypeOK, PendingOK
<1>2. PICK g : g = c.grant
  OBVIOUS
<1>3. /\ c.step = "CACHE" /\ operational' = g /\ connects' = {}
      /\ UNCHANGED <<now, sessions, facts, syncing>>
  BY <1>2 DEF ConnectReady, server
<1>4. g \in Grants /\ Unused(g) /\ c.bearer \in 1..MaxSessions
  BY <1>1, <1>2, <1>3 DEF ConnectOK, Unused, Connect
<1>5. PICK local \in BootReadings : cache' = Fresh(g, c.bearer, local)
  BY <1>2 DEF ConnectReady
<1>6. PICK k : k = cache'
  OBVIOUS
<1>7. ClockOK(k)' /\ GrantOK(g)' /\ k.grant = g
  BY <1>3, <1>4, <1>5, <1>6, FreshClock
<1>8. StampsOK'
  <2>1. \A i \in DOMAIN facts : InScope(facts[i])' /\ GrantOK(facts[i].grant)'
    BY <1>1, <1>3 DEF StampsOK, InScope, GrantOK
  <2>2. \A i \in DOMAIN facts : facts[i].grant # g
    BY <1>4 DEF Unused
  <2>3. QED
    BY <1>1, <1>3, <1>6, <1>7, <2>1, <2>2 DEF StampsOK
<1>9. ASSUME syncing # None, syncing.step = "CACHE"
      PROVE  Unused(syncing.grant)'
  <2>1. Unused(syncing.grant) /\ syncing.grant # g
    BY <1>1, <1>2, <1>3, <1>9 DEF PendingOK
  <2>2. QED
    BY <1>3, <1>6, <1>7, <2>1 DEF Unused, GrantOK
<1>10. QED
  BY <1>3, <1>8, <1>9 DEF PendingOK

LEMMA SyncReadyStamps ==
  ASSUME IInv, TypeOK', SyncReady
  PROVE  PendingOK' /\ StampsOK'
<1>1. TypeOK /\ PendingOK /\ StampsOK /\ syncing \in SyncRun
  BY DEF IInv, TypeOK, SyncReady
<1>2. PICK g : g = syncing.grant
  OBVIOUS
<1>3. /\ operational' = g /\ syncing' = None
      /\ UNCHANGED <<now, sessions, facts, status, connects>>
  BY <1>2 DEF SyncReady, server
<1>4. /\ Unused(g) /\ g \in Grants
      /\ \A c \in connects : c.step = "CACHE" => c.grant # g
  BY <1>1, <1>2 DEF SyncReady, PendingOK, Unused, SyncRun
<1>5. \/ cache' = cache \/ cache' = None
      \/ cache' # None /\ ClockOK(cache)' /\ cache'.grant = g
  <2>1. CASE bearer # 0
    <3>1. PICK local \in BootReadings : cache' = Fresh(g, bearer, local)
      BY <1>2, <2>1 DEF SyncReady
    <3>2. bearer \in 1..MaxSessions
      BY <1>1, <2>1, SessionAssumption DEF TypeOK
    <3>3. PICK k : k = cache'
      OBVIOUS
    <3>4. ClockOK(k)' /\ k.grant = g /\ k # None
      BY <1>3, <1>4, <3>1, <3>2, <3>3, FreshClock, FreshIs, CachedAre
    <3>5. QED
      BY <3>3, <3>4
  <2>2. CASE bearer = 0
    BY <2>2 DEF SyncReady
  <2>3. QED
    BY <1>1, <2>1, <2>2 DEF TypeOK
<1>6. StampsOK'
  <2>1. \A i \in DOMAIN facts : InScope(facts[i])' /\ GrantOK(facts[i].grant)'
    BY <1>1, <1>3 DEF StampsOK, InScope, GrantOK
  <2>2. \A i \in DOMAIN facts : facts[i].grant # g
    BY <1>4 DEF Unused
  <2>3. GrantOK(operational)'
    BY <1>3, <1>4 DEF Unused, GrantOK
  <2>4. cache' # None => ClockOK(cache)'
    BY <1>1, <1>3, <1>5 DEF StampsOK, ClockOK, GrantOK
  <2>5. QED
    BY <1>1, <1>3, <2>1, <2>2, <2>3, <2>4 DEF StampsOK
<1>7. ASSUME NEW c \in connects
      PROVE  ConnectOK(c)'
  <2>1. ConnectOK(c)
    BY <1>1 DEF PendingOK
  <2>2. c.cached # None => ClockOK(c.cached)'
    BY <1>3, <2>1 DEF ConnectOK, ClockOK, GrantOK
  <2>3. c.step = "CACHE" => Unused(c.grant)'
    BY <1>3, <1>4, <1>5, <2>1 DEF ConnectOK, Unused, GrantOK
  <2>4. QED
    BY <1>3, <2>1, <2>2, <2>3 DEF ConnectOK, GrantOK
<1>8. QED
  BY <1>3, <1>6, <1>7 DEF PendingOK

-----------------------------------------------------------------------------
(* A fact: no call is under way, and the clock is past every fact of the   *)
(* grant in use and of the grant in the cache.                             *)
LEMMA RecordFactStamps ==
  ASSUME IInv, TypeOK', NEW local \in Readings, RecordFact(local)
  PROVE  PendingOK' /\ StampsOK'
<1>1. /\ TypeOK /\ PendingOK /\ StampsOK /\ StatusOK
      /\ cache \in CachedSession /\ operational \in Grants /\ Advances(cache, local)
  BY DEF IInv, RecordFact, TypeOK, Valid
<1>2. PICK at : at = Estimate(cache, local)
  OBVIOUS
<1>3. PICK k : k = Advanced(cache, local)
  OBVIOUS
<1>4. /\ k \in CachedSession /\ k.grant = cache.grant /\ k.lastEstimate = at /\ at \in Nat
      /\ cache.lastEstimate <= at /\ at <= k.grant.until /\ cache.lastEstimate \in Nat /\ k # None
      /\ cache.grant \in Grants
  BY <1>1, <1>2, <1>3, AdvancedIs, CachedAre
<1>5. PICK f : f = [grant |-> operational, at |-> at, state |-> "PENDING", booked |-> 0]
  OBVIOUS
<1>6. /\ cache' = k /\ status = "READY" /\ cache # None
      /\ facts' = facts \/ (WithinLoadedGrant(at) /\ facts' = Append(facts, f))
      /\ UNCHANGED <<now, sessions, operational, status, connects, syncing>>
  BY <1>2, <1>3, <1>5 DEF RecordFact, server, memory, pending
<1>7. connects = {}
  BY <1>1, <1>6 DEF StatusOK
<1>8. f.grant = operational /\ f.at = at
  BY <1>5
<1>9. /\ Len(facts) \in Nat /\ DOMAIN facts = 1..Len(facts)
      /\ \A i \in DOMAIN facts : facts[i].at \in Nat
  BY <1>1, FactsAre
<1>10. /\ DOMAIN facts' \in {1..Len(facts), 1..(Len(facts) + 1)}
       /\ \A i \in DOMAIN facts' : \/ i \in DOMAIN facts /\ facts'[i] = facts[i]
                                   \/ i = Len(facts) + 1 /\ facts'[i] = f /\ WithinLoadedGrant(at)
  BY <1>1, <1>6, <1>9 DEF TypeOK
<1>11. \A i \in DOMAIN facts : facts[i].grant = cache.grant => facts[i].at <= at
  BY <1>1, <1>4, <1>6, <1>9 DEF StampsOK, ClockOK
<1>12. \A i \in DOMAIN facts : facts[i].grant = operational => facts[i].at <= at
  BY <1>1, <1>4, <1>6, <1>9 DEF StampsOK
<1>13. \A g \in Grants : GrantOK(g) => GrantOK(g)'
  BY <1>6 DEF GrantOK
<1>14. GrantOK(operational) /\ GrantOK(cache.grant) /\ cache.grant.issued <= cache.lastEstimate
  BY <1>1, <1>4, <1>6, GrantsAre DEF StampsOK, ClockOK
<1>15. ClockOK(k)'
  <2>1. k.grant.issued <= at
    BY <1>4, <1>14, GrantsAre
  <2>2. \A i \in DOMAIN facts' : facts'[i].grant = k.grant => facts'[i].at <= at
    BY <1>4, <1>8, <1>10, <1>11
  <2>3. QED
    BY <1>4, <1>13, <1>14, <2>1, <2>2 DEF ClockOK
<1>16. StampsOK'
  <2>1. \A i \in DOMAIN facts' : InScope(facts[i])' /\ GrantOK(facts[i].grant)'
    <3> SUFFICES ASSUME NEW i \in DOMAIN facts' PROVE InScope(facts[i])' /\ GrantOK(facts[i].grant)'
      OBVIOUS
    <3>1. CASE i \in DOMAIN facts /\ facts'[i] = facts[i]
      BY <1>1, <1>6, <3>1 DEF StampsOK, InScope, GrantOK
    <3>2. CASE facts'[i] = f /\ WithinLoadedGrant(at)
      BY <1>6, <1>8, <1>14, <3>2 DEF InScope, GrantOK, WithinLoadedGrant
    <3>3. QED
      BY <1>10, <3>1, <3>2
  <2>2. ASSUME NEW i \in DOMAIN facts', NEW j \in DOMAIN facts', i < j,
               facts'[i].grant = facts'[j].grant
        PROVE  facts'[i].at <= facts'[j].at
    <3>1. i \in DOMAIN facts /\ facts'[i] = facts[i]
      BY <1>9, <1>10, <2>2
    <3>2. CASE j \in DOMAIN facts /\ facts'[j] = facts[j]
      BY <1>1, <2>2, <3>1, <3>2 DEF StampsOK
    <3>3. CASE facts'[j] = f
      BY <1>8, <1>12, <2>2, <3>1, <3>3
    <3>4. QED
      BY <1>10, <3>2, <3>3
  <2>3. \A i \in DOMAIN facts' : facts'[i].grant = operational => facts'[i].at <= at
    BY <1>4, <1>8, <1>10, <1>12
  <2>4. ClockOK(cache)'
    BY <1>6, <1>15
  <2>5. GrantOK(operational)'
    BY <1>6, <1>14 DEF GrantOK
  <2>6. QED
    BY <1>4, <1>6, <2>1, <2>2, <2>3, <2>4, <2>5 DEF StampsOK
<1>17. ASSUME syncing # None, syncing.step = "CACHE"
       PROVE  Unused(syncing.grant)'
  <2>1. PICK h : h = syncing.grant
    OBVIOUS
  <2>2. Unused(h)
    BY <1>1, <1>17, <2>1 DEF PendingOK
  <2>3. \A i \in DOMAIN facts' : facts'[i].grant # h
    BY <1>8, <1>10, <2>2 DEF Unused
  <2>4. QED
    BY <1>4, <1>6, <1>7, <2>1, <2>2, <2>3 DEF Unused, GrantOK
<1>18. QED
  BY <1>6, <1>7, <1>16, <1>17 DEF PendingOK

-----------------------------------------------------------------------------
(* No secret on a lock screen.                                             *)
LEMMA StatusStep ==
  ASSUME IInv, Next
  PROVE  StatusOK'
<1>1. StatusOK /\ TypeOK
  BY DEF IInv
<1>2. \A c \in connects : c \in Connect /\ \A d \in connects : c = d
  BY <1>1 DEF TypeOK
<1>3. ASSUME NEW s, NEW k, Connecting(s, k)
      PROVE  StatusOK'
  BY <1>3 DEF Connecting, StatusOK
<1>4. UNCHANGED <<status, operational, bearer, connects, syncing, leaving>> => StatusOK'
  BY <1>1 DEF StatusOK
<1>a. CASE Tick
  BY <1>a, <1>4 DEF Tick, memory, pending
<1>b. CASE RevokeDevice
  BY <1>b, <1>4 DEF RevokeDevice, memory, pending
<1>c. ASSUME NEW u \in Users, DeactivateMember(u) PROVE StatusOK'
  BY <1>c, <1>4 DEF DeactivateMember, memory, pending
<1>d. CASE Reload
  BY <1>d DEF Reload, StatusOK
<1>e. CASE Initialize
  <2>1. status = "INITIALIZING" /\ connects = {} /\ UNCHANGED <<syncing, leaving>>
    BY <1>e DEF Initialize
  <2>2. CASE UNCHANGED <<bearer, operational, connects>> /\ status' \in {"SIGNED_OUT", "ERROR"}
    BY <1>1, <2>1, <2>2 DEF StatusOK
  <2>3. CASE bearer = 0 /\ status' = "LOCKED" /\ UNCHANGED <<bearer, connects>>
    BY <2>1, <2>3 DEF StatusOK
  <2>4. QED
    BY <1>e, <1>3, <2>2, <2>3 DEF Initialize
<1>f. ASSUME NEW u \in Users, SignIn(u) PROVE StatusOK'
  BY <1>f, <1>3 DEF SignIn
<1>g. CASE Unlock
  <2>1. bearer = 0
    BY <1>1, <1>g DEF Unlock, StatusOK
  <2>2. QED
    BY <1>g, <2>1 DEF Unlock, StatusOK
<1>h. CASE QuickLock
  <2>1. status = "READY" /\ Lock /\ UNCHANGED pending
    BY <1>h DEF QuickLock
  <2>2. QED
    BY <1>1, <2>1 DEF Lock, pending, StatusOK
<1>i. CASE ExpiryLock
  <2>1. status = "READY" /\ Lock /\ UNCHANGED pending
    BY <1>i DEF ExpiryLock
  <2>2. QED
    BY <1>1, <2>1 DEF Lock, pending, StatusOK
<1>j. ASSUME NEW c \in connects, UnlockLogin(c) PROVE StatusOK'
  BY <1>j, <1>3 DEF UnlockLogin
<1>k. ASSUME NEW c \in connects, UnlockFails(c) PROVE StatusOK'
  BY <1>1, <1>k DEF UnlockFails, StatusOK
<1>l. ASSUME NEW c \in connects, EnrollDevice(c) PROVE StatusOK'
  BY <1>l, <1>4 DEF EnrollDevice, memory, pending
<1>m. ASSUME NEW c \in connects, ConnectAuth(c) PROVE StatusOK'
  <2>1. PICK d : d = [c EXCEPT !.step = "BOOTSTRAP"]
    OBVIOUS
  <2>2. d.step = "BOOTSTRAP"
    BY <1>2, <2>1 DEF Connect
  <2>3. connects' = {d} /\ UNCHANGED <<status, operational, bearer, syncing, leaving>>
    BY <1>m, <2>1 DEF ConnectAuth, memory
  <2>4. QED
    BY <1>1, <2>2, <2>3 DEF StatusOK
<1>n. ASSUME NEW c \in connects, ConnectBootstrap(c) PROVE StatusOK'
  <2>1. PICK d : d = [c EXCEPT !.step = "CACHE", !.grant = Issued(bearer)]
    OBVIOUS
  <2>2. d.step = "CACHE"
    BY <1>2, <2>1 DEF Connect
  <2>3. connects' = {d} /\ UNCHANGED <<status, operational, bearer, syncing, leaving>>
    BY <1>n, <2>1 DEF ConnectBootstrap, memory
  <2>4. QED
    BY <1>1, <2>2, <2>3 DEF StatusOK
<1>o. ASSUME NEW c \in connects, ConnectReady(c) PROVE StatusOK'
  BY <1>o DEF ConnectReady, StatusOK
<1>p. ASSUME NEW c \in connects, ConnectRevoked(c) PROVE StatusOK'
  <2>1. bearer' = 0 /\ connects' = {} /\ status' \in {"ERROR", "SIGNED_OUT", "LOCKED"}
    BY <1>p DEF ConnectRevoked
  <2>2. QED
    BY <2>1 DEF StatusOK
<1>q. ASSUME NEW c \in connects, ConnectOffline(c) PROVE StatusOK'
  <2>1. connects' = {} /\ (status' = "READY" \/ (status' = "ERROR" /\ bearer' = 0))
    BY <1>q DEF ConnectOffline
  <2>2. QED
    BY <2>1 DEF StatusOK
<1>r. ASSUME NEW c \in connects, ConnectFails(c) PROVE StatusOK'
  BY <1>r DEF ConnectFails, StatusOK
<1>s. ASSUME NEW local \in Readings, RecordFact(local) PROVE StatusOK'
  BY <1>s, <1>4 DEF RecordFact, memory, pending
<1>t. ASSUME NEW local \in Readings, RefuseFact(local) PROVE StatusOK'
  <2>1. status = "READY" /\ Lock /\ UNCHANGED pending
    BY <1>t DEF RefuseFact
  <2>2. QED
    BY <1>1, <2>1 DEF Lock, pending, StatusOK
<1>5. ASSUME status = "READY" \/ syncing # None,
             UNCHANGED <<status, operational, bearer, connects, leaving>>
      PROVE  StatusOK'
  BY <1>1, <1>5 DEF StatusOK
<1>u. CASE RunSync
  BY <1>u, <1>5 DEF RunSync, memory
<1>v. CASE PushFact
  BY <1>v, <1>5 DEF PushFact, memory
<1>w. CASE PullEnds
  BY <1>w, <1>5 DEF PullEnds, memory
<1>x. CASE SyncBootstrap
  BY <1>x, <1>5 DEF SyncBootstrap, memory
<1>y. CASE SyncBootstrapFails
  BY <1>y, <1>5 DEF SyncBootstrapFails, memory
<1>z. CASE SyncReady
  <2>1. /\ syncing # None /\ syncing' = None
        /\ UNCHANGED <<status, bearer, connects, leaving>>
    BY <1>z DEF SyncReady
  <2>2. QED
    BY <1>1, <2>1 DEF StatusOK
<1>aa. CASE SignOutCheck
  <2>1. operational # None /\ UNCHANGED <<status, operational, bearer, connects, syncing>>
    BY <1>aa DEF SignOutCheck, memory
  <2>2. QED
    BY <1>1, <2>1 DEF StatusOK
<1>bb. CASE SignOut
  BY <1>1, <1>bb DEF SignOut, StatusOK
<1>cc. ASSUME NEW n \in 0..MaxFacts, RecoverOutbox(n) PROVE StatusOK'
  <2>1. /\ operational # None /\ status \in {"LOCKED", "ERROR"}
        /\ \/ status' = "SIGNED_OUT" /\ bearer' = 0
           \/ status' = "LOCKED" /\ bearer' = bearer
        /\ UNCHANGED pending
    BY <1>cc DEF RecoverOutbox
  <2>2. bearer = 0
    BY <1>1, <2>1 DEF StatusOK
  <2>3. QED
    BY <1>1, <2>1, <2>2 DEF StatusOK, pending
<1>dd. QED
  BY <1>a, <1>b, <1>c, <1>d, <1>e, <1>f, <1>g, <1>h, <1>i, <1>j, <1>k, <1>l, <1>m, <1>n, <1>o,
     <1>p, <1>q, <1>r, <1>s, <1>t, <1>u, <1>v, <1>w, <1>x, <1>y, <1>z, <1>aa, <1>bb, <1>cc
     DEF Next

-----------------------------------------------------------------------------
(* The outbox: a step rewrites it row by row or records one fact.          *)
LEMMA FactsStep ==
  ASSUME IInv, Next, ~(\E local \in Readings : RecordFact(local))
  PROVE  Rewrites(facts')
<1>1. TypeOK /\ Rewrites(facts)
  BY DEF IInv, TypeOK, Rewrites
<1>2. CASE PushFact
  BY <1>1, <1>2, PushedIs
<1>3. CASE \E n \in 0..MaxFacts : RecoverOutbox(n)
  BY <1>1, <1>3, RecoveredIs
<1>4. CASE facts' = facts
  BY <1>1, <1>4
<1>5. ASSUME NEW c \in connects,
             \/ UnlockLogin(c) \/ UnlockFails(c) \/ EnrollDevice(c) \/ ConnectAuth(c)
             \/ ConnectBootstrap(c) \/ ConnectReady(c)
             \/ ConnectRevoked(c) \/ ConnectOffline(c) \/ ConnectFails(c)
      PROVE  facts' = facts
  BY <1>5 DEF UnlockLogin, UnlockFails, EnrollDevice, ConnectAuth, ConnectBootstrap, ConnectReady,
              ConnectRevoked, ConnectOffline, ConnectFails
<1>6. Tick \/ RevokeDevice \/ (\E u \in Users : DeactivateMember(u)) => facts' = facts
  BY DEF Tick, RevokeDevice, DeactivateMember
<1>7. Reload \/ Initialize \/ (\E u \in Users : SignIn(u)) => facts' = facts
  BY DEF Reload, Initialize, SignIn
<1>8. Unlock \/ QuickLock \/ ExpiryLock \/ (\E local \in Readings : RefuseFact(local)) => facts' = facts
  BY DEF Unlock, QuickLock, ExpiryLock, RefuseFact
<1>9. RunSync \/ PullEnds \/ SyncBootstrap \/ SyncBootstrapFails => facts' = facts
  BY DEF RunSync, PullEnds, SyncBootstrap, SyncBootstrapFails
<1>10. SyncReady \/ SignOutCheck \/ SignOut => facts' = facts
  BY DEF SyncReady, SignOutCheck, SignOut
<1>11. QED
  BY <1>2, <1>3, <1>4, <1>5, <1>6, <1>7, <1>8, <1>9, <1>10 DEF Next

LEMMA RecordedIs ==
  ASSUME TypeOK, NEW local \in Readings, RecordFact(local)
  PROVE  /\ cache' # None /\ leaving' = leaving /\ Len(facts) <= Len(facts')
         /\ \A i \in DOMAIN facts' : \/ i \in DOMAIN facts /\ facts'[i] = facts[i]
                                     \/ i = Len(facts) + 1 /\ facts'[i].booked = 0
<1>1. cache \in CachedSession /\ Advances(cache, local) /\ cache' = Advanced(cache, local)
  BY DEF RecordFact, TypeOK, Valid
<1>2. cache' # None
  BY <1>1, AdvancedIs, CachedAre
<1>3. PICK f : f = [grant |-> operational, at |-> Estimate(cache, local),
                    state |-> "PENDING", booked |-> 0]
  OBVIOUS
<1>4. (facts' = facts \/ facts' = Append(facts, f)) /\ leaving' = leaving /\ f.booked = 0
  BY <1>3 DEF RecordFact, pending
<1>5. QED
  BY <1>2, <1>4 DEF TypeOK

LEMMA ActorStep ==
  ASSUME IInv, Next
  PROVE  ActorKept'
<1>1. TypeOK /\ ActorKept /\ DOMAIN facts = 1..Len(facts)
  BY FactsAre DEF IInv
<1>2. ASSUME NEW local \in Readings, RecordFact(local) PROVE ActorKept'
  BY <1>1, <1>2, RecordedIs DEF ActorKept
<1>3. CASE ~(\E local \in Readings : RecordFact(local))
  <2>1. Rewrites(facts')
    BY <1>3, FactsStep
  <2>2. DOMAIN facts' = 1..Len(facts)
    BY <2>1 DEF Rewrites
  <2>3. QED
    BY <1>1, <2>1, <2>2 DEF Rewrites, ActorKept
<1>4. QED
  BY <1>2, <1>3

(* The number of rows signOut found settled changes only when it looks or  *)
(* is done.                                                                *)
LEMMA LeavingKept ==
  ASSUME Next, ~SignOutCheck
  PROVE  leaving' = leaving \/ leaving' = 0
<1>1. ASSUME NEW c \in connects,
             \/ UnlockLogin(c) \/ UnlockFails(c) \/ EnrollDevice(c) \/ ConnectAuth(c)
             \/ ConnectBootstrap(c) \/ ConnectReady(c)
             \/ ConnectRevoked(c) \/ ConnectOffline(c) \/ ConnectFails(c)
      PROVE  leaving' = leaving
  BY <1>1 DEF UnlockLogin, UnlockFails, EnrollDevice, ConnectAuth, ConnectBootstrap, ConnectReady,
              ConnectRevoked, ConnectOffline, ConnectFails, pending
<1>2. Tick \/ RevokeDevice \/ (\E u \in Users : DeactivateMember(u)) => leaving' = leaving
  BY DEF Tick, RevokeDevice, DeactivateMember, pending
<1>3. Initialize \/ (\E u \in Users : SignIn(u)) => leaving' = leaving
  BY DEF Initialize, SignIn
<1>4. Unlock \/ QuickLock \/ ExpiryLock \/ (\E local \in Readings : RefuseFact(local)) => leaving' = leaving
  BY DEF Unlock, QuickLock, ExpiryLock, RefuseFact, pending
<1>5. RunSync \/ PushFact \/ PullEnds \/ SyncBootstrap \/ SyncBootstrapFails => leaving' = leaving
  BY DEF RunSync, PushFact, PullEnds, SyncBootstrap, SyncBootstrapFails
<1>6. SyncReady \/ (\E local \in Readings : RecordFact(local)) => leaving' = leaving
  BY DEF SyncReady, RecordFact, pending
<1>7. (\E n \in 0..MaxFacts : RecoverOutbox(n)) => leaving' = leaving
  BY DEF RecoverOutbox, pending
<1>8. Reload \/ SignOut => leaving' = 0
  BY DEF Reload, SignOut
<1>9. QED
  BY <1>1, <1>2, <1>3, <1>4, <1>5, <1>6, <1>7, <1>8 DEF Next

LEMMA LeavingStep ==
  ASSUME IInv, TypeOK', Next
  PROVE  LeavingOK'
<1>1. /\ TypeOK /\ LeavingOK /\ DOMAIN facts = 1..Len(facts) /\ Len(facts) \in Nat
      /\ leaving \in Nat /\ Len(facts') \in Nat /\ DOMAIN facts' = 1..Len(facts')
  BY FactsAre, SessionAssumption DEF IInv, TypeOK
<1>2. CASE SignOutCheck
  <2>1. leaving' = Len(facts) + 1 /\ facts' = facts /\ Unresolved(facts) = {}
    BY <1>2 DEF SignOutCheck, CanDiscardHistoricalCredential
  <2>2. QED
    BY <1>1, <2>1 DEF LeavingOK, Unresolved
<1>3. CASE leaving' = 0
  BY <1>3 DEF LeavingOK
<1>4. CASE leaving' = leaving /\ leaving # 0
  <2>1. Len(facts) <= Len(facts')
    <3>1. CASE \E local \in Readings : RecordFact(local)
      BY <1>1, <3>1, RecordedIs
    <3>2. CASE ~(\E local \in Readings : RecordFact(local))
      <4>1. Rewrites(facts')
        BY <3>2, FactsStep
      <4>2. QED
        BY <1>1, <4>1 DEF Rewrites
    <3>3. QED
      BY <3>1, <3>2
  <2>2. leaving - 1 <= Len(facts) /\ \A i \in 1..(leaving - 1) : facts[i].state = "ACCEPTED"
    BY <1>1, <1>4 DEF LeavingOK
  <2>3. \A i \in 1..(leaving - 1) : facts'[i].state = "ACCEPTED"
    <3> SUFFICES ASSUME NEW i \in 1..(leaving - 1) PROVE facts'[i].state = "ACCEPTED"
      OBVIOUS
    <3>1. i \in 1..Len(facts) /\ i \in DOMAIN facts' /\ i # Len(facts) + 1
      BY <1>1, <2>1, <2>2
    <3>2. QED
      BY <1>1, <2>2, <3>1, FactsStep, RecordedIs DEF Rewrites
  <2>4. leaving - 1 <= Len(facts')
    BY <1>1, <2>1, <2>2
  <2>5. QED
    BY <1>4, <2>3, <2>4 DEF LeavingOK
<1>5. QED
  BY <1>2, <1>3, <1>4, LeavingKept

-----------------------------------------------------------------------------
(* The proof of authority goes only when no fact needs it.                 *)
LEMMA CredentialStep ==
  ASSUME IInv, TypeOK', Next
  PROVE  FactsKeepCredential'
<1>1. /\ TypeOK /\ PendingOK /\ LeavingOK /\ FactsKeepCredential
      /\ DOMAIN facts = 1..Len(facts) /\ Len(facts) \in Nat
  BY FactsAre DEF IInv
<1>2. ASSUME cache' # None \/ dropped' \/ Unresolved(facts') = {}
      PROVE  FactsKeepCredential'
  BY <1>2 DEF FactsKeepCredential
<1>3. ASSUME cache' = cache \/ cache' # None, dropped' = dropped, Rewrites(facts')
      PROVE  FactsKeepCredential'
  <2>1. DOMAIN facts' = 1..Len(facts)
    BY <1>3 DEF Rewrites
  <2>2. Unresolved(facts') # {} => Unresolved(facts) # {}
    BY <1>1, <1>3, <2>1 DEF Unresolved, Rewrites
  <2>3. QED
    BY <1>1, <1>3, <2>2 DEF FactsKeepCredential
<1>4. ASSUME NEW local \in Readings, RecordFact(local) PROVE FactsKeepCredential'
  BY <1>1, <1>2, <1>4, RecordedIs
<1>5. CASE ~(\E local \in Readings : RecordFact(local))
  <2>1. Rewrites(facts')
    BY <1>5, FactsStep
  <2> USE <2>1
  <2>2. \A c \in connects : c \in Connect /\ ConnectOK(c) /\ c.cached \in CachedSession \cup {None}
    BY <1>1 DEF TypeOK, PendingOK, Connect
  <2>a. Tick \/ RevokeDevice \/ (\E u \in Users : DeactivateMember(u)) => FactsKeepCredential'
    BY <1>3 DEF Tick, RevokeDevice, DeactivateMember
  <2>b. Reload \/ (\E u \in Users : SignIn(u)) => FactsKeepCredential'
    BY <1>3 DEF Reload, SignIn
  <2>c. CASE Initialize
    <3>1. cache' = cache \/ cache' # None
      <4>1. CASE cache = None
        BY <2>c, <4>1 DEF Initialize
      <4>2. CASE cache # None
        BY <1>1, <2>c, <4>2, AdvancedIs, CachedAre DEF Initialize, Valid, TypeOK
      <4>3. QED
        BY <4>1, <4>2
    <3>2. dropped' = dropped
      BY <2>c DEF Initialize
    <3>3. QED
      BY <1>3, <3>1, <3>2
  <2>d. Unlock \/ QuickLock \/ ExpiryLock => FactsKeepCredential'
    BY <1>3 DEF Unlock, QuickLock, ExpiryLock
  <2>e. ASSUME NEW c \in connects, UnlockLogin(c) \/ EnrollDevice(c) \/ ConnectAuth(c)
                                     \/ ConnectBootstrap(c) \/ ConnectFails(c)
        PROVE  FactsKeepCredential'
    BY <1>3, <2>e DEF UnlockLogin, EnrollDevice, ConnectAuth, ConnectBootstrap, ConnectFails
  <2>f. ASSUME NEW c \in connects, UnlockFails(c) PROVE FactsKeepCredential'
    <3>1. cache' = cache \/ cache' # None
      BY <2>2, <2>f, AdvancedIs, CachedAre DEF UnlockFails, Valid
    <3>2. QED
      BY <1>3, <2>f, <3>1 DEF UnlockFails
  <2>g. ASSUME NEW c \in connects, ConnectReady(c) PROVE FactsKeepCredential'
    <3>1. c.step = "CACHE" /\ c.grant \in Grants /\ c.bearer \in 1..MaxSessions
      BY <2>2, <2>g DEF ConnectReady, ConnectOK, Unused, Connect
    <3>2. cache' # None
      BY <2>g, <3>1, FreshIs, CachedAre DEF ConnectReady
    <3>3. QED
      BY <1>2, <3>2
  <2>h. ASSUME NEW c \in connects, ConnectRevoked(c) PROVE FactsKeepCredential'
    <3>1. facts' = facts /\ dropped' = dropped
      BY <2>h DEF ConnectRevoked
    <3>2. CASE c.cached = None
      BY <1>3, <2>h, <3>1, <3>2 DEF ConnectRevoked
    <3>3. CASE c.cached # None
      <4>1. MarkedRecoveryOnly(c.cached, "AUTHORITY_REVOKED") # None
        BY <2>2, <3>3, MarkedIs, CachedAre
      <4>2. CanDiscardHistoricalCredential(facts) \/ cache' # None
        BY <2>h, <3>3, <4>1 DEF ConnectRevoked
      <4>3. QED
        BY <1>2, <3>1, <4>2 DEF CanDiscardHistoricalCredential
    <3>4. QED
      BY <3>2, <3>3
  <2>i. ASSUME NEW c \in connects, ConnectOffline(c) PROVE FactsKeepCredential'
    <3>1. cache' # None
      BY <2>2, <2>i, AdvancedIs, CachedAre DEF ConnectOffline, Valid
    <3>2. QED
      BY <1>2, <3>1
  <2>j. ASSUME NEW local \in Readings, RefuseFact(local) PROVE FactsKeepCredential'
    <3>1. cache' = cache \/ cache' # None
      BY <1>1, <2>j, MarkedIs, CachedAre DEF RefuseFact, TypeOK
    <3>2. QED
      BY <1>3, <2>j, <3>1 DEF RefuseFact
  <2>k. RunSync \/ PushFact \/ PullEnds \/ SyncBootstrap \/ SyncBootstrapFails => FactsKeepCredential'
    BY <1>3 DEF RunSync, PushFact, PullEnds, SyncBootstrap, SyncBootstrapFails
  <2>l. CASE SyncReady
    <3>1. CASE bearer # 0
      <4>1. syncing.grant \in Grants /\ bearer \in 1..MaxSessions
        BY <1>1, <2>l, <3>1, SessionAssumption DEF SyncReady, PendingOK, Unused, TypeOK, SyncRun
      <4>2. cache' # None
        BY <2>l, <3>1, <4>1, FreshIs, CachedAre DEF SyncReady
      <4>3. QED
        BY <1>2, <4>2
    <3>2. CASE bearer = 0
      BY <1>2, <1>3, <2>l, <3>2 DEF SyncReady
    <3>3. QED
      BY <3>1, <3>2
  <2>m. CASE SignOutCheck
    BY <1>3, <2>m DEF SignOutCheck
  <2>n. CASE SignOut
    <3>1. CASE Len(facts) >= leaving
      BY <1>2, <2>n, <3>1 DEF SignOut
    <3>2. CASE ~(Len(facts) >= leaving)
      <4>1. leaving \in Nat /\ leaving # 0 /\ facts' = facts
        BY <1>1, <2>n, SessionAssumption DEF SignOut, TypeOK
      <4>2. \A i \in 1..Len(facts) : i \in 1..(leaving - 1)
        BY <1>1, <3>2, <4>1
      <4>3. Unresolved(facts) = {}
        BY <1>1, <4>1, <4>2 DEF LeavingOK, Unresolved
      <4>4. QED
        BY <1>2, <4>1, <4>3
    <3>3. QED
      BY <3>1, <3>2
  <2>o. ASSUME NEW n \in 0..MaxFacts, RecoverOutbox(n) PROVE FactsKeepCredential'
    <3>1. Unresolved(facts') = {} \/ cache' = cache
      BY <2>o DEF RecoverOutbox, CanDiscardHistoricalCredential
    <3>2. dropped' = dropped
      BY <2>o DEF RecoverOutbox
    <3>3. QED
      BY <1>2, <1>3, <3>1, <3>2
  <2>p. QED
    BY <1>5, <2>a, <2>b, <2>c, <2>d, <2>e, <2>f, <2>g, <2>h, <2>i, <2>j, <2>k, <2>l, <2>m, <2>n, <2>o
       DEF Next
<1>6. QED
  BY <1>4, <1>5

-----------------------------------------------------------------------------
LEMMA InitIInv ==
  ASSUME Init
  PROVE  IInv
<1>1. TypeOK
  <2>1. /\ sessions \in Seq(Session) /\ Len(sessions) = 0
        /\ facts \in Seq(Fact) /\ Len(facts) = 0
    BY DEF Init
  <2>2. /\ connects \subseteq Connect /\ \A c, d \in connects : c = d
    BY DEF Init
  <2>3. /\ now \in 0..MaxTime /\ bearer \in 0..Len(sessions) /\ leaving \in 0..(MaxFacts + 1)
        /\ Len(sessions) <= MaxSessions /\ Len(facts) <= MaxFacts
    BY <2>1, SessionAssumption DEF Init
  <2>4. /\ device \in {"ACTIVE", "REVOKED"} /\ inactive \subseteq Users /\ status \in Statuses
        /\ recoveryRequired \in BOOLEAN /\ runtime \in BOOLEAN /\ dropped \in BOOLEAN
    BY DEF Init, Statuses
  <2>5. cache = None /\ operational = None /\ syncing = None
    BY DEF Init
  <2>6. QED
    BY <2>1, <2>2, <2>3, <2>4, <2>5 DEF TypeOK
<1>2. PendingOK /\ StatusOK /\ LeavingOK
  BY DEF Init, PendingOK, StatusOK, LeavingOK
<1>3. facts = <<>> /\ DOMAIN facts = {}
  BY DEF Init
<1>4. StampsOK /\ FactsKeepCredential /\ ActorKept
  BY <1>3 DEF Init, StampsOK, FactsKeepCredential, ActorKept, Unresolved
<1>5. QED
  BY <1>1, <1>2, <1>4 DEF IInv

LEMMA StampsStep ==
  ASSUME IInv, TypeOK', Next
  PROVE  PendingOK' /\ StampsOK'
BY QuietContinues, StampsContinue, ConnectBootstrapStamps, SyncBootstrapStamps,
   ConnectReadyStamps, SyncReadyStamps, RecordFactStamps DEF Next

LEMMA StutterIInv ==
  ASSUME IInv, UNCHANGED vars
  PROVE  IInv'
<1>1. TypeOK'
  BY DEF IInv, TypeOK, vars, server, memory, pending
<1>2. PendingOK' /\ StampsOK'
  BY <1>1, QuietContinues, StampsContinue
<1>3. StatusOK' /\ LeavingOK' /\ FactsKeepCredential' /\ ActorKept'
  BY DEF IInv, StatusOK, LeavingOK, FactsKeepCredential, Unresolved, ActorKept,
         vars, server, memory, pending
<1>4. QED
  BY <1>1, <1>2, <1>3 DEF IInv

(* The inductive invariant: types, what every call under way holds, the    *)
(* clocks, the screens, sign-out, and the two facts about the outbox.      *)
THEOREM PosSessionInvariant == Spec => []IInv
<1>1. Init => IInv
  BY InitIInv
<1>2. ASSUME IInv, [Next]_vars PROVE IInv'
  <2>1. CASE UNCHANGED vars
    BY <1>2, <2>1, StutterIInv
  <2>2. CASE Next
    <3>1. TypeOK'
      BY <1>2, <2>2, TypeStep
    <3>2. QED
      BY <1>2, <2>2, <3>1, StampsStep, StatusStep, LeavingStep, CredentialStep, ActorStep DEF IInv
  <2>3. QED
    BY <1>2, <2>1, <2>2
<1>3. QED
  BY <1>1, <1>2, PTL DEF Spec

(* The offline proof of authority stays while a fact is not safe on the    *)
(* server, the two races apart: what connect discards after a refusal,     *)
(* what sign-out discards and what recovery discards is needed by no fact. *)
THEOREM ProofOutlivesFacts == Spec => []FactsKeepCredential
<1>1. IInv => FactsKeepCredential
  BY DEF IInv
<1>2. QED
  BY <1>1, PosSessionInvariant, PTL

(* A fact is stamped inside the grant it carries and after every earlier   *)
(* fact of that grant, whatever the device clock shows, and whichever      *)
(* cached session the runtime reads while the loaded grant is another.     *)
THEOREM FactsStampedInOrder == Spec => []StampsInOrder
<1>1. IInv => StampsInOrder
  BY DEF IInv, StampsOK, StampsInOrder
<1>2. QED
  BY <1>1, PosSessionInvariant, PTL

(* The server books a fact under the session of its own grant, pushed or   *)
(* recovered, however often it is sent.                                    *)
THEOREM FactsKeepTheirActor == Spec => []ActorKept
<1>1. IInv => ActorKept
  BY DEF IInv
<1>2. QED
  BY <1>1, PosSessionInvariant, PTL

(* On the lock screen the tab holds no secret, also when the lock falls    *)
(* into a call under way, a recovery or a reload.                          *)
THEOREM LockDropsTheSecret == Spec => []LockedHoldsNoBearer
<1>1. IInv => LockedHoldsNoBearer
  BY DEF IInv, StatusOK, LockedHoldsNoBearer
<1>2. QED
  BY <1>1, PosSessionInvariant, PTL
=============================================================================
