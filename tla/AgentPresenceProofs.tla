------------------------ MODULE AgentPresenceProofs ------------------------
(***************************************************************************)
(* The safety properties of AgentPresence for any number of threads and    *)
(* agents, any two time limits and any bound on the clock.                 *)
(***************************************************************************)
EXTENDS AgentPresence, WellFoundedInduction, TLAPS

-----------------------------------------------------------------------------
(***************************************************************************)
(* A non-empty set of times has a newest one, so Newest is one of the sets *)
(* that were given.                                                        *)
(***************************************************************************)
LEMMA NewestExists ==
  ASSUME NEW S \in SUBSET (Time \cup {Never}), S # {}
  PROVE  \E n \in S : \A m \in S : m <= n
<1> DEFINE ages == {MaxClock - m : m \in S}
           less == OpToRel(<, Nat)
<1>1. ages \subseteq Nat /\ ages # {}
  <2>1. \A m \in S : m \in Int /\ m <= MaxClock
    BY TimesAssumption DEF Time, Never
  <2>2. \A m \in S : MaxClock - m \in Nat
    BY <2>1, TimesAssumption
  <2> QED
    BY <2>2
<1>2. PICK x \in ages : \A y \in ages : <<y, x>> \notin less
  <2> HIDE DEF ages
  <2> QED
    BY <1>1, NatLessThanWellFounded, WFMin
<1>3. \A y \in ages : ~ (y < x)
  BY <1>1, <1>2 DEF OpToRel
<1>4. PICK n \in S : x = MaxClock - n
  BY <1>2
<1>5. ASSUME NEW m \in S PROVE m <= n
  <2>1. MaxClock - m \in ages
    OBVIOUS
  <2>2. ~ (MaxClock - m < MaxClock - n)
    BY <2>1, <1>3, <1>4
  <2> QED
    BY <2>2, TimesAssumption DEF Time, Never
<1> QED
  BY <1>5

Given == {answer[t].taken : t \in {u \in Thread : pc[u] = "done"}}
           \cup {floor[t] : t \in Thread}

LEMMA NewestIsGiven ==
  ASSUME TypeOK, Thread # {}
  PROVE  Newest \in Given
<1>1. Given \in SUBSET (Time \cup {Never}) /\ Given # {}
  <2>1. \A t \in Thread : answer[t].taken \in Time \cup {Never}
    BY DEF TypeOK, Snapshot
  <2>2. \A t \in Thread : floor[t] \in Time \cup {Never}
    BY DEF TypeOK
  <2> QED
    BY <2>1, <2>2 DEF Given
<1>2. \E n \in Given : \A m \in Given : m <= n
  BY <1>1, NewestExists
<1> QED
  BY <1>2 DEF Newest, Given

-----------------------------------------------------------------------------
(***************************************************************************)
(* Type correctness of the clock, the cache and the calls.                 *)
(***************************************************************************)
THEOREM PresenceTypes == Spec => []TypeOK
<1>1. Init => TypeOK
  BY TimesAssumption DEF Init, TypeOK, Time, Snapshot, NoOne, Place
<1>2. TypeOK /\ [Next]_vars => TypeOK'
  <2> SUFFICES ASSUME TypeOK, [Next]_vars PROVE TypeOK'
    OBVIOUS
  <2> USE DEF TypeOK
  <2>0. NoOne \in Snapshot
    BY DEF NoOne, Snapshot
  <2>1. CASE Tick
    BY <2>1, TimesAssumption DEF Tick, ejabberd, cache, calls, Time
  <2>2. ASSUME NEW a \in Agent, Connect(a) \/ Disconnect(a) PROVE TypeOK'
    BY <2>2 DEF Connect, Disconnect, cache, calls
  <2>3. ASSUME NEW t \in Thread, Step(t) PROVE TypeOK'
    <3>1. CASE Call(t)
      <4>1. Newest \in Time \cup {Never}
        BY NewestIsGiven DEF Given, Snapshot
      <4>2. pc' \in [Thread -> Place] /\ answer' \in [Thread -> Snapshot]
        BY <3>1, <2>0 DEF Call, Place
      <4>3. /\ now' \in [Thread -> Time] /\ started' \in [Thread -> Time]
            /\ floor' \in [Thread -> Time \cup {Never}]
        BY <3>1, <4>1 DEF Call
      <4> QED
        BY <3>1, <4>2, <4>3 DEF Call, ejabberd, cache
    <3>2. CASE CheckAge(t) \/ ReadCache(t)
      BY <3>2 DEF CheckAge, ReadCache, Goto, Place, ejabberd, cache
    <3>3. CASE EnterLock(t)
      BY <3>3 DEF EnterLock, Place, ejabberd, cache
    <3>4. CASE FetchSucceeds(t)
      <4>1. [users |-> sessions, taken |-> clock] \in Snapshot
        BY DEF Snapshot
      <4> QED
        BY <3>4, <4>1 DEF FetchSucceeds, Goto, Place, ejabberd, cache
    <3>5. CASE FetchGarbled(t) \/ FetchFails(t)
      BY <3>5, <2>0 DEF FetchGarbled, FetchFails, Goto, Place, ejabberd, cache
    <3>6. CASE Install(t) \/ Stamp(t)
      BY <3>6 DEF Install, Stamp, Goto, Place, ejabberd, cache
    <3> QED
      BY <2>3, <3>1, <3>2, <3>3, <3>4, <3>5, <3>6 DEF Step
  <2>4. CASE UNCHANGED vars
    BY <2>4 DEF vars, ejabberd, cache, calls
  <2> QED
    BY <2>1, <2>2, <2>3, <2>4 DEF Next
<1> QED
  BY <1>1, <1>2, PTL DEF Spec

-----------------------------------------------------------------------------
(***************************************************************************)
(* What a set says is true of the moment ejabberd took it: who is on it    *)
(* and has no session lost it since, and who has one and is not on it      *)
(* began it since.                                                         *)
(***************************************************************************)
TrueSince(set) ==
  /\ set.taken <= clock
  /\ set.taken = Never => set.users = {}
  /\ \A a \in Agent :
       /\ a \in set.users \ sessions => since[a] >= set.taken
       /\ a \in sessions \ set.users => set.taken = Never \/ since[a] >= set.taken

SetsAreTrue == TrueSince(recipients) /\ \A t \in Thread : TrueSince(answer[t])

Refreshing(t) == pc[t] \in {"fetch", "install", "stamp"}

(***************************************************************************)
(* One thread refreshes at a time, and the cache is dated in the past.     *)
(***************************************************************************)
RefreshesAreAlone ==
  /\ cachedAt <= clock
  /\ \A t \in Thread :
       /\ started[t] <= now[t] /\ now[t] <= clock
       /\ Refreshing(t) => lock = t /\ cachedAt <= now[t]

(***************************************************************************)
(* The cached set is never older than its date says, also between the two  *)
(* writes; so a set found young enough is, when it is read, young enough.  *)
(***************************************************************************)
NotOlderThan(set, time) == set.taken = Never \/ set.taken >= time

CacheIsFresh ==
  /\ NotOlderThan(recipients, cachedAt)
  /\ \A t \in Thread :
       /\ pc[t] = "read" => now[t] - cachedAt <= Ttl
       /\ pc[t] \in {"install", "stamp"} => NotOlderThan(answer[t], now[t])
       /\ pc[t] = "stamp" => recipients = answer[t]
       /\ pc[t] = "done" => NotOlderThan(answer[t], started[t] - Stale)

CacheInv == RefreshesAreAlone /\ CacheIsFresh

\* A set stays true while the clock runs and sessions come and go.
LEMMA TruthLasts ==
  ASSUME TypeOK, NEW set \in Snapshot, TrueSince(set),
         \/ Tick
         \/ \E a \in Agent : Connect(a) \/ Disconnect(a)
         \/ UNCHANGED <<clock, ejabberd>>
  PROVE  TrueSince(set)'
<1> USE DEF TypeOK, Snapshot, TrueSince, Time, Never
<1>1. CASE Tick
  BY <1>1 DEF Tick, ejabberd
<1>2. CASE \E a \in Agent : Connect(a) \/ Disconnect(a)
  BY <1>2 DEF Connect, Disconnect
<1>3. CASE UNCHANGED <<clock, ejabberd>>
  BY <1>3 DEF ejabberd
<1> QED
  BY <1>1, <1>2, <1>3

LEMMA SetsAreTrueHolds == Spec => []SetsAreTrue
<1>1. Init => SetsAreTrue
  BY TimesAssumption DEF Init, SetsAreTrue, TrueSince, NoOne, Never
<1>2. TypeOK /\ SetsAreTrue /\ [Next]_vars => SetsAreTrue'
  <2> SUFFICES ASSUME TypeOK, SetsAreTrue, [Next]_vars PROVE SetsAreTrue'
    OBVIOUS
  <2>1. CASE Tick \/ \E a \in Agent : Connect(a) \/ Disconnect(a)
    <3>1. UNCHANGED <<recipients, answer>>
      BY <2>1 DEF Tick, Connect, Disconnect, cache, calls
    <3>2. TrueSince(recipients)'
      BY <2>1, <3>1, TruthLasts DEF SetsAreTrue, TypeOK, TrueSince
    <3>3. ASSUME NEW t \in Thread PROVE TrueSince(answer[t])'
      <4>1. answer[t] \in Snapshot /\ TrueSince(answer[t])
        BY DEF SetsAreTrue, TypeOK
      <4> QED
        BY <2>1, <3>1, <4>1, TruthLasts DEF TrueSince
    <3> QED
      BY <3>2, <3>3 DEF SetsAreTrue
  <2>2. ASSUME NEW t \in Thread, Step(t) PROVE SetsAreTrue'
    <3> DEFINE fetched == [users |-> sessions, taken |-> clock]
    <3>1. UNCHANGED <<clock, ejabberd>>
      BY <2>2 DEF Step, Call, CheckAge, ReadCache, EnterLock, FetchSucceeds,
                  FetchGarbled, FetchFails, Install, Stamp, cache, calls
    <3>2. TrueSince(NoOne) /\ TrueSince(fetched)
      BY DEF TrueSince, NoOne, Never, TypeOK, Time
    <3>3. recipients' \in {recipients, answer[t]}
      BY <2>2 DEF Step, Call, CheckAge, ReadCache, EnterLock, FetchSucceeds,
                  FetchGarbled, FetchFails, Install, Stamp, cache, calls
    <3>4. \E set \in {answer[t], recipients, NoOne, fetched} :
            answer' = [answer EXCEPT ![t] = set]
      BY <2>2 DEF Step, Call, CheckAge, ReadCache, EnterLock, FetchSucceeds,
                  FetchGarbled, FetchFails, Install, Stamp, cache, calls, TypeOK
    <3> HIDE DEF fetched
    <3>5. TrueSince(recipients')
      BY <3>3 DEF SetsAreTrue
    <3>6. \A u \in Thread : TrueSince(answer'[u])
      BY <3>2, <3>4 DEF SetsAreTrue, TypeOK
    <3> QED
      BY <3>1, <3>5, <3>6 DEF SetsAreTrue, TrueSince, ejabberd
  <2>3. CASE UNCHANGED vars
    BY <2>3 DEF vars, ejabberd, cache, calls, SetsAreTrue, TrueSince
  <2> QED
    BY <2>1, <2>2, <2>3 DEF Next
<1> QED
  BY <1>1, <1>2, PresenceTypes, PTL DEF Spec
LEMMA CacheInvHolds == Spec => []CacheInv
<1>1. Init => CacheInv
  BY TimesAssumption, NoThreadAssumption
     DEF Init, CacheInv, RefreshesAreAlone, CacheIsFresh, Refreshing, NotOlderThan,
         NoOne, Never
<1>2. TypeOK /\ SetsAreTrue /\ CacheInv /\ [Next]_vars => CacheInv'
  <2> SUFFICES ASSUME TypeOK, SetsAreTrue, CacheInv, [Next]_vars PROVE CacheInv'
    OBVIOUS
  <2> USE TimesAssumption
      DEF CacheInv, RefreshesAreAlone, CacheIsFresh, Refreshing, NotOlderThan,
          TypeOK, Time, Never, Snapshot
  <2>1. CASE Tick
    BY <2>1 DEF Tick, ejabberd, cache, calls
  <2>2. CASE \E a \in Agent : Connect(a) \/ Disconnect(a)
    BY <2>2 DEF Connect, Disconnect, cache, calls
  <2>3. ASSUME NEW t \in Thread, Step(t) PROVE CacheInv'
    <3>1. CASE Call(t)
      BY <3>1 DEF Call, ejabberd, cache
    <3>2. CASE CheckAge(t)
      BY <3>2 DEF CheckAge, Goto, ejabberd, cache
    <3>3. CASE ReadCache(t)
      BY <3>3 DEF ReadCache, Goto, ejabberd, cache
    <3>4. CASE EnterLock(t)
      BY <3>4, NoThreadAssumption DEF EnterLock, ejabberd, cache
    <3>5. CASE FetchSucceeds(t)
      BY <3>5 DEF FetchSucceeds, Goto, ejabberd, cache
    <3>6. CASE FetchGarbled(t)
      BY <3>6 DEF FetchGarbled, Goto, NoOne, ejabberd, cache
    <3>7. CASE FetchFails(t)
      <4>1. CASE now[t] - cachedAt <= Stale /\ recipients.users # {}
        BY <3>7, <4>1 DEF FetchFails, Goto, ejabberd, cache
      <4>2. CASE ~ (now[t] - cachedAt <= Stale /\ recipients.users # {})
        BY <3>7, <4>2 DEF FetchFails, Goto, NoOne, ejabberd, cache
      <4> QED
        BY <4>1, <4>2
    <3>8. CASE Install(t)
      BY <3>8 DEF Install, Goto, ejabberd
    <3>9. CASE Stamp(t)
      BY <3>9 DEF Stamp, Goto, ejabberd
    <3> QED
      BY <2>3, <3>1, <3>2, <3>3, <3>4, <3>5, <3>6, <3>7, <3>8, <3>9 DEF Step
  <2>4. CASE UNCHANGED vars
    BY <2>4 DEF vars, ejabberd, cache, calls
  <2> QED
    BY <2>1, <2>2, <2>3, <2>4 DEF Next
<1> QED
  BY <1>1, <1>2, PresenceTypes, SetsAreTrueHolds, PTL DEF Spec

(***************************************************************************)
(* Nobody is reported online whose session ended longer than Stale before  *)
(* the call, whatever fetches failed, overlapped or were overtaken.        *)
(***************************************************************************)
THEOREM NoGhostsAfterStale == Spec => []DisconnectedAgentsExpire
<1>1. TypeOK /\ SetsAreTrue /\ CacheInv => DisconnectedAgentsExpire
  <2> SUFFICES ASSUME TypeOK, SetsAreTrue, CacheInv,
                      NEW t \in Thread, pc[t] = "done",
                      NEW a \in answer[t].users, a \notin sessions
               PROVE  since[a] >= started[t] - Stale
    BY DEF DisconnectedAgentsExpire
  <2>1. a \in Agent /\ answer[t].taken \in Time \cup {Never}
    BY DEF TypeOK, Snapshot
  <2>2. answer[t].taken # Never /\ since[a] >= answer[t].taken
    BY <2>1 DEF SetsAreTrue, TrueSince
  <2>3. answer[t].taken >= started[t] - Stale
    BY <2>2 DEF CacheInv, CacheIsFresh, NotOlderThan
  <2> QED
    BY <2>1, <2>2, <2>3, TimesAssumption DEF TypeOK, Time
<1> QED
  BY <1>1, PresenceTypes, SetsAreTrueHolds, CacheInvHolds, PTL

(***************************************************************************)
(* A session that has lasted since Stale before the call is reported,      *)
(* unless the answer is the empty set that a failed fetch left behind.     *)
(***************************************************************************)
THEOREM NoLastingSessionIsMissed == Spec => []LastingSessionsAreSeen
<1>1. TypeOK /\ SetsAreTrue /\ CacheInv => LastingSessionsAreSeen
  <2> SUFFICES ASSUME TypeOK, SetsAreTrue, CacheInv,
                      NEW t \in Thread, pc[t] = "done", answer[t].taken # Never,
                      NEW a \in sessions, since[a] < started[t] - Stale,
                      a \notin answer[t].users
               PROVE  FALSE
    BY DEF LastingSessionsAreSeen
  <2>1. a \in Agent /\ answer[t].taken \in Time
    BY DEF TypeOK, Snapshot
  <2>2. since[a] >= answer[t].taken
    BY <2>1 DEF SetsAreTrue, TrueSince
  <2>3. answer[t].taken >= started[t] - Stale
    BY DEF CacheInv, CacheIsFresh, NotOlderThan
  <2> QED
    BY <2>1, <2>2, <2>3, TimesAssumption DEF TypeOK, Time
<1> QED
  BY <1>1, PresenceTypes, SetsAreTrueHolds, CacheInvHolds, PTL

-----------------------------------------------------------------------------
(***************************************************************************)
(* Nothing handed out is newer than the cached set, unless a failure has   *)
(* emptied it; and nothing handed out is newer than the set a refresh is   *)
(* about to install.                                                       *)
(***************************************************************************)
GivenBefore(set) ==
  set.taken = Never \/
    \A t \in Thread :
      /\ floor[t] <= set.taken
      /\ pc[t] = "done" => answer[t].taken <= set.taken

CacheIsNewest ==
  /\ GivenBefore(recipients)
  /\ \A t \in Thread :
       /\ floor[t] <= clock
       /\ pc[t] \in {"install", "stamp"} =>
            /\ GivenBefore(answer[t])
            /\ NotOlderThan(answer[t], recipients.taken)
       /\ pc[t] = "done" => NotOlderThan(answer[t], floor[t])

\* A call that is answered from the cache.
LEMMA CachedAnswerIsNewest ==
  ASSUME TypeOK, CacheIsNewest, NEW t \in Thread,
         pc' = [pc EXCEPT ![t] = "done"], answer' = [answer EXCEPT ![t] = recipients],
         UNCHANGED <<clock, recipients, floor>>
  PROVE  CacheIsNewest'
<1> USE DEF TypeOK, Snapshot, Time, Never
<1>1. /\ pc'[t] = "done" /\ answer'[t] = recipients
      /\ \A u \in Thread \ {t} : pc'[u] = pc[u] /\ answer'[u] = answer[u]
  OBVIOUS
<1>2. GivenBefore(recipients)'
  BY <1>1 DEF CacheIsNewest, GivenBefore
<1>3. NotOlderThan(recipients, floor[t])
  BY DEF CacheIsNewest, GivenBefore, NotOlderThan
<1>4. ASSUME NEW u \in Thread \ {t}, pc[u] \in {"install", "stamp"}
      PROVE  GivenBefore(answer[u])'
  BY <1>1, <1>4 DEF CacheIsNewest, GivenBefore, NotOlderThan
<1> HIDE DEF TypeOK, Snapshot, Time, Never
<1> QED
  BY <1>1, <1>2, <1>3, <1>4 DEF CacheIsNewest, NotOlderThan

LEMMA CacheIsNewestHolds == Spec => []CacheIsNewest
<1>1. Init => CacheIsNewest
  BY TimesAssumption
     DEF Init, CacheIsNewest, GivenBefore, NotOlderThan, NoOne, Never
<1>2. /\ TypeOK /\ SetsAreTrue /\ CacheInv /\ CacheIsNewest /\ [Next]_vars
      => CacheIsNewest'
  <2> SUFFICES ASSUME TypeOK, SetsAreTrue, CacheInv, CacheIsNewest, [Next]_vars
               PROVE  CacheIsNewest'
    OBVIOUS
  <2>0. /\ recipients.taken <= clock
        /\ \A t \in Thread : /\ answer[t].taken <= clock
                             /\ Refreshing(t) => lock = t
    BY DEF SetsAreTrue, TrueSince, CacheInv, RefreshesAreAlone
  <2> USE <2>0
      DEF CacheIsNewest, GivenBefore, NotOlderThan, Refreshing, TypeOK, Time, Never,
          Snapshot
  <2>1. CASE Tick
    BY <2>1 DEF Tick, ejabberd, cache, calls
  <2>2. CASE \E a \in Agent : Connect(a) \/ Disconnect(a)
    BY <2>2 DEF Connect, Disconnect, cache, calls
  <2>3. ASSUME NEW t \in Thread, Step(t) PROVE CacheIsNewest'
    <3>1. CASE Call(t)
      <4>1. \/ \E u \in Thread : pc[u] = "done" /\ Newest = answer[u].taken
            \/ \E u \in Thread : Newest = floor[u]
        BY NewestIsGiven DEF Given
      <4>2. /\ Newest \in Time \cup {Never} /\ Newest <= clock
            /\ recipients.taken = Never \/ Newest <= recipients.taken
            /\ \A u \in Thread : pc[u] \in {"install", "stamp"} =>
                 answer[u].taken = Never \/ Newest <= answer[u].taken
        BY <4>1
      <4> QED
        BY <3>1, <4>2 DEF Call, ejabberd, cache
    <3>2. CASE CheckAge(t)
      BY <3>2 DEF CheckAge, Goto, ejabberd, cache
    <3>3. CASE ReadCache(t)
      BY <3>3, CachedAnswerIsNewest DEF ReadCache, Goto, ejabberd, cache
    <3>4. CASE EnterLock(t)
      <4>1. CASE clock - cachedAt <= Ttl
        BY <3>4, <4>1, CachedAnswerIsNewest DEF EnterLock, ejabberd, cache
      <4>2. CASE ~ (clock - cachedAt <= Ttl)
        BY <3>4, <4>2 DEF EnterLock, ejabberd, cache
      <4> QED
        BY <4>1, <4>2
    <3>5. CASE FetchSucceeds(t)
      BY <3>5 DEF FetchSucceeds, Goto, ejabberd, cache
    <3>6. CASE FetchGarbled(t)
      BY <3>6 DEF FetchGarbled, Goto, NoOne, ejabberd, cache
    <3>7. CASE FetchFails(t)
      <4>1. CASE now[t] - cachedAt <= Stale /\ recipients.users # {}
        BY <3>7, <4>1, CachedAnswerIsNewest DEF FetchFails, Goto, ejabberd, cache
      <4>2. CASE ~ (now[t] - cachedAt <= Stale /\ recipients.users # {})
        BY <3>7, <4>2 DEF FetchFails, Goto, NoOne, ejabberd, cache
      <4> QED
        BY <4>1, <4>2
    <3>8. CASE Install(t)
      BY <3>8 DEF Install, Goto, ejabberd
    <3>9. CASE Stamp(t)
      <4>1. recipients = answer[t]
        BY <3>9 DEF Stamp, Goto, CacheInv, CacheIsFresh
      <4> QED
        BY <3>9, <4>1 DEF Stamp, Goto, ejabberd
    <3> QED
      BY <2>3, <3>1, <3>2, <3>3, <3>4, <3>5, <3>6, <3>7, <3>8, <3>9 DEF Step
  <2>4. CASE UNCHANGED vars
    BY <2>4 DEF vars, ejabberd, cache, calls
  <2> QED
    BY <2>1, <2>2, <2>3, <2>4 DEF Next
<1> QED
  BY <1>1, <1>2, PresenceTypes, SetsAreTrueHolds, CacheInvHolds, PTL DEF Spec

(***************************************************************************)
(* The online list does not go back in time: a call that begins after      *)
(* another has returned is never given an older set than that one was.     *)
(***************************************************************************)
THEOREM OnlineListMovesForward == Spec => []AnswersDoNotGoBack
<1>1. CacheIsNewest => AnswersDoNotGoBack
  BY DEF CacheIsNewest, AnswersDoNotGoBack, NotOlderThan
<1> QED
  BY <1>1, CacheIsNewestHolds, PTL
=============================================================================
