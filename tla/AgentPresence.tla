--------------------------- MODULE AgentPresence ---------------------------
(***************************************************************************)
(* EjabberdAgentPresenceProvider.getOnlineRecipients: request threads of   *)
(* liderapi ask which agents are online.  Answers come from a cache that   *)
(* is at most TTL old; an older one is refetched from ejabberd under a     *)
(* lock, and when fetching fails a cache at most Stale old still answers.  *)
(* The age of the cache is tested outside the lock as well, and the two    *)
(* volatile fields (the set, the time) are written and read one by one.    *)
(*                                                                         *)
(* Every set carries, as a history, the moment ejabberd took it.           *)
(***************************************************************************)
EXTENDS Integers, FiniteSets

CONSTANTS
  Thread,     \* request threads of liderapi
  Agent,      \* agents with an ejabberd account
  Ttl,        \* CACHE_TTL
  Stale,      \* STALE_CACHE_TTL
  MaxClock,   \* bound: the last reading of the clock
  NoThread    \* the lock is free

ASSUME TimesAssumption ==
  Ttl \in Nat /\ Stale \in Nat /\ MaxClock \in Nat /\ Ttl <= Stale /\ Stale < MaxClock
ASSUME NoThreadAssumption == NoThread \notin Thread

VARIABLES
  clock,        \* System.currentTimeMillis, far from the epoch when it starts
  sessions,     \* agents with a session in ejabberd
  since,        \* history: when each agent's session last began or ended
  recipients,   \* cachedRecipients
  cachedAt,     \* cachedAt
  lock,         \* refreshLock
  pc,           \* where each thread is in getOnlineRecipients
  now,          \* its local variable `now'
  started,      \* history: when its call began
  floor,        \* history: the newest set anyone had been given by then
  answer        \* the set it got from ejabberd, and then the one it returns

ejabberd == <<sessions, since>>
cache    == <<recipients, cachedAt>>
calls    == <<pc, now, started, floor, answer>>
vars     == <<clock, ejabberd, cache, lock, calls>>

(***************************************************************************)
(* The empty set a failure leaves behind was not taken at any moment.      *)
(***************************************************************************)
Never     == -1
Time      == 0 .. MaxClock
Snapshot  == [users : SUBSET Agent, taken : Time \cup {Never}]
NoOne     == [users |-> {}, taken |-> Never]

Place == {"idle", "age", "read", "enter", "fetch", "install", "stamp", "done"}

TypeOK ==
  /\ clock \in Time
  /\ sessions \in SUBSET Agent /\ since \in [Agent -> Time]
  /\ recipients \in Snapshot /\ cachedAt \in Time
  /\ lock \in Thread \cup {NoThread}
  /\ pc \in [Thread -> Place]
  /\ now \in [Thread -> Time] /\ started \in [Thread -> Time]
  /\ floor \in [Thread -> Time \cup {Never}]
  /\ answer \in [Thread -> Snapshot]

Init ==
  /\ clock = Stale + 1
  /\ sessions = {} /\ since = [a \in Agent |-> 0]
  /\ recipients = NoOne /\ cachedAt = 0
  /\ lock = NoThread
  /\ pc = [t \in Thread |-> "idle"]
  /\ now = [t \in Thread |-> 0] /\ started = [t \in Thread |-> 0]
  /\ floor = [t \in Thread |-> Never]
  /\ answer = [t \in Thread |-> NoOne]

-----------------------------------------------------------------------------
Tick ==
  /\ clock < MaxClock
  /\ clock' = clock + 1
  /\ UNCHANGED <<ejabberd, cache, lock, calls>>

Connect(a) ==
  /\ a \notin sessions
  /\ sessions' = sessions \cup {a}
  /\ since' = [since EXCEPT ![a] = clock]
  /\ UNCHANGED <<clock, cache, lock, calls>>

Disconnect(a) ==
  /\ a \in sessions
  /\ sessions' = sessions \ {a}
  /\ since' = [since EXCEPT ![a] = clock]
  /\ UNCHANGED <<clock, cache, lock, calls>>

-----------------------------------------------------------------------------
Goto(t, from, to) == pc[t] = from /\ pc' = [pc EXCEPT ![t] = to]

\* The newest set any finished or finishing call has been given.
Newest == LET given == {answer[t].taken : t \in {u \in Thread : pc[u] = "done"}}
                       \cup {floor[t] : t \in Thread}
          IN  CHOOSE n \in given : \A m \in given : m <= n

\* A thread that has returned calls again.
Call(t) ==
  /\ pc[t] \in {"idle", "done"}
  /\ pc' = [pc EXCEPT ![t] = "age"]
  /\ now' = [now EXCEPT ![t] = clock]
  /\ started' = [started EXCEPT ![t] = clock]
  /\ floor' = [floor EXCEPT ![t] = Newest]
  /\ answer' = [answer EXCEPT ![t] = NoOne]
  /\ UNCHANGED <<clock, ejabberd, cache, lock>>

\* The test outside the lock ...
CheckAge(t) ==
  /\ Goto(t, "age", IF now[t] - cachedAt <= Ttl THEN "read" ELSE "enter")
  /\ UNCHANGED <<clock, ejabberd, cache, lock, now, started, floor, answer>>

\* ... and the read of the other field after it.
ReadCache(t) ==
  /\ Goto(t, "read", "done")
  /\ answer' = [answer EXCEPT ![t] = recipients]
  /\ UNCHANGED <<clock, ejabberd, cache, lock, now, started, floor>>

\* Mutant: refreshes are not serialised.
EnterLock_NoLock(t) ==
  /\ pc[t] = "enter"
  /\ now' = [now EXCEPT ![t] = clock]
  /\ IF clock - cachedAt <= Ttl
     THEN /\ pc' = [pc EXCEPT ![t] = "done"]
          /\ answer' = [answer EXCEPT ![t] = recipients]
     ELSE /\ pc' = [pc EXCEPT ![t] = "fetch"]
          /\ UNCHANGED answer
  /\ UNCHANGED <<clock, ejabberd, cache, lock, started, floor>>

(***************************************************************************)
(* Inside the lock the clock and the cache are looked at again; only the   *)
(* holder of the lock writes the cache.                                    *)
(***************************************************************************)
EnterLock(t) ==
  /\ pc[t] = "enter" /\ lock = NoThread
  /\ now' = [now EXCEPT ![t] = clock]
  /\ IF clock - cachedAt <= Ttl
     THEN /\ pc' = [pc EXCEPT ![t] = "done"]
          /\ answer' = [answer EXCEPT ![t] = recipients]
          /\ UNCHANGED lock
     ELSE /\ pc' = [pc EXCEPT ![t] = "fetch"]
          /\ lock' = t
          /\ UNCHANGED answer
  /\ UNCHANGED <<clock, ejabberd, cache, started, floor>>

\* ejabberd takes the list; the reply may arrive any time later.
FetchSucceeds(t) ==
  /\ Goto(t, "fetch", "install")
  /\ answer' = [answer EXCEPT ![t] = [users |-> sessions, taken |-> clock]]
  /\ UNCHANGED <<clock, ejabberd, cache, lock, now, started, floor>>

\* Mutant: a reply that is no array also makes the cache undated.
FetchGarbled_Undated(t) ==
  /\ Goto(t, "fetch", "install")
  /\ answer' = [answer EXCEPT ![t] = NoOne]
  /\ cachedAt' = Never
  /\ UNCHANGED <<clock, ejabberd, recipients, lock, now, started, floor>>

\* A reply that is no array counts as a list of no one.
FetchGarbled(t) ==
  /\ Goto(t, "fetch", "install")
  /\ answer' = [answer EXCEPT ![t] = NoOne]
  /\ UNCHANGED <<clock, ejabberd, cache, lock, now, started, floor>>

\* Mutant: any cached set that is not empty answers, however old.
FetchFails_NoLimit(t) ==
  /\ IF recipients.users # {}
     THEN /\ Goto(t, "fetch", "done")
          /\ answer' = [answer EXCEPT ![t] = recipients]
          /\ lock' = NoThread
     ELSE /\ Goto(t, "fetch", "install")
          /\ answer' = [answer EXCEPT ![t] = NoOne]
          /\ UNCHANGED lock
  /\ UNCHANGED <<clock, ejabberd, cache, now, started, floor>>

(***************************************************************************)
(* The stale cache answers and stays as it is; when it is too old, or      *)
(* empty, the failure itself is cached as an empty set.                    *)
(***************************************************************************)
FetchFails(t) ==
  /\ IF now[t] - cachedAt <= Stale /\ recipients.users # {}
     THEN /\ Goto(t, "fetch", "done")
          /\ answer' = [answer EXCEPT ![t] = recipients]
          /\ lock' = NoThread
     ELSE /\ Goto(t, "fetch", "install")
          /\ answer' = [answer EXCEPT ![t] = NoOne]
          /\ UNCHANGED lock
  /\ UNCHANGED <<clock, ejabberd, cache, now, started, floor>>

\* The set is written first ...
Install(t) ==
  /\ Goto(t, "install", "stamp")
  /\ recipients' = answer[t]
  /\ UNCHANGED <<clock, ejabberd, cachedAt, lock, now, started, floor, answer>>

\* Mutant: the set is dated by the end of the fetch.
Stamp_Late(t) ==
  /\ Goto(t, "stamp", "done")
  /\ cachedAt' = clock
  /\ lock' = NoThread
  /\ UNCHANGED <<clock, ejabberd, recipients, now, started, floor, answer>>

\* ... and dated, by the time the fetch began, after that.
Stamp(t) ==
  /\ Goto(t, "stamp", "done")
  /\ cachedAt' = now[t]
  /\ lock' = NoThread
  /\ UNCHANGED <<clock, ejabberd, recipients, now, started, floor, answer>>

-----------------------------------------------------------------------------
Step(t) ==
  \/ Call(t) \/ CheckAge(t) \/ ReadCache(t) \/ EnterLock(t)
  \/ FetchSucceeds(t) \/ FetchGarbled(t) \/ FetchFails(t)
  \/ Install(t) \/ Stamp(t)

Next ==
  \/ Tick
  \/ \E a \in Agent : Connect(a) \/ Disconnect(a)
  \/ \E t \in Thread : Step(t)

Spec == Init /\ [][Next]_vars

-----------------------------------------------------------------------------
(***************************************************************************)
(* An agent reported online had a session no longer than Stale before the  *)
(* call, whatever fetches failed or overlapped in between.                 *)
(***************************************************************************)
DisconnectedAgentsExpire ==
  \A t \in Thread : pc[t] = "done" =>
    \A a \in answer[t].users :
      a \in sessions \/ since[a] >= started[t] - Stale

(***************************************************************************)
(* An agent whose session has lasted since Stale before the call is in the *)
(* answer, unless the answer is the empty set a failure left behind.       *)
(***************************************************************************)
LastingSessionsAreSeen ==
  \A t \in Thread : (pc[t] = "done" /\ answer[t].taken # Never) =>
    \A a \in sessions : since[a] < started[t] - Stale => a \in answer[t].users

(***************************************************************************)
(* A call never sees an older state of ejabberd than a call that returned  *)
(* before it began: the online list does not go back in time.              *)
(***************************************************************************)
AnswersDoNotGoBack ==
  \A t \in Thread : pc[t] = "done" =>
    answer[t].taken = Never \/ answer[t].taken >= floor[t]
=============================================================================
