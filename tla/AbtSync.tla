------------------------------- MODULE AbtSync -------------------------------
(***************************************************************************)
(* The blocking objects of Argobots, which mylib's pthread shim puts under *)
(* every pthread_mutex_t, pthread_cond_t and pthread_rwlock_t: the waiter  *)
(* list (src/argobots/src/include/abti_waitlist.h) with its futex, and the *)
(* mutex, condition variable, reader-writer lock, barrier, eventual and    *)
(* future that are built on it.                                            *)
(*                                                                         *)
(* The list is kept as the code keeps it, p_head, p_tail, p_next and       *)
(* p_prev, because a timed wait unlinks a node that lives on the waiter's  *)
(* own stack.  In an untimed wait of a ULT the node is its descriptor,     *)
(* named like the ULT; otherwise it is a dummy on t's stack, named <<t>>.  *)
(*                                                                         *)
(* A behaviour exercises one kind of object, picked initially.  Each agent *)
(* runs on an execution stream or a POSIX thread of its own, so any two of *)
(* them interleave; ctl[t].st is t's stack of return points.  One step is  *)
(* one access to a word that other agents touch without the object's lock, *)
(* together with what t does before it under a lock it holds or takes.     *)
(***************************************************************************)
EXTENDS Naturals, Sequences, FiniteSets

CONSTANTS ULT,       \* yieldable work units
          Ext,       \* external threads and tasklets, which cannot yield
          Team,      \* the objects to exercise, each with the agents that use it
          Roles,     \* who may play the setter and the hasty waiter
          Rounds,    \* how often each agent uses the object of that kind
          None       \* the NULL pointer

Agent == ULT \cup Ext

AllKinds == {"list", "mutex", "recursive", "cond", "assoc", "rwlock", "barrier",
             "eventual", "future"}

ASSUME SyncAssumption ==
  /\ ULT \cap Ext = {} /\ IsFiniteSet(Agent) /\ Agent # {} /\ None \notin Agent
  /\ DOMAIN Team \subseteq AllKinds /\ Rounds \in [DOMAIN Team -> Nat \ {0}]
  /\ \A k \in DOMAIN Team : Team[k] \subseteq Agent /\ Team[k] # {}
                            /\ Roles[k] \subseteq Team[k] \X Team[k]

(***************************************************************************)
(* The objects of a behaviour: two mutexes and the object under test.      *)
(* Every object has a waiter list and a spinlock that guards it.           *)
(***************************************************************************)
Mutex == {"m", "n"}
Object == Mutex \cup {"o"}

VARIABLES kind,     \* the kind of object under test
          ctl,      \* per agent: pc, return stack, arguments, results
          lk,       \* the spinlock of each object: its holder, or None
          mtx,      \* ABTI_mutex.lock: its holder, or None
          head, tail,          \* ABTI_waitlist.p_head, p_tail
          futex,    \* the agents asleep on ABTI_waitlist.futex
          next, prev, tstate,  \* p_next, p_prev, state of each node
          ob,       \* the other fields of the object under test
          woke      \* history: agents woken by the wait they are in or left

lists == <<head, tail, futex>>
nodes == <<next, prev, tstate>>
vars == <<kind, ctl, lk, mtx, lists, nodes, ob, woke>>

N == Cardinality(Team[kind])

Stack(t) == <<t>>
Node == ULT \cup {Stack(t) : t \in Agent}

Init ==
  /\ kind \in DOMAIN Team
  /\ ctl = [t \in Agent |-> [pc |-> "idle", st |-> <<>>, on |-> "o", mx |-> "m",
                             cur |-> None, wake |-> FALSE, timed |-> FALSE,
                             ret |-> "ok", holds |-> 0, n |-> 0, left |-> 0,
                             node |-> None]]
  /\ lk = [o \in Object |-> None] /\ mtx = [m \in Mutex |-> None]
  /\ head = [o \in Object |-> None] /\ tail = [o \in Object |-> None]
  /\ futex = [o \in Object |-> {}]
  /\ next = [a \in Node |-> None] /\ prev = [a \in Node |-> None]
  /\ tstate = [a \in Node |-> "RUNNING"]
  /\ \E r \in Roles[kind], w \in {"cond signal", "cond broadcast"} :
       /\ kind \notin {"cond", "list"} => w = "cond signal"
       /\ ob = [owner |-> None, nesting_cnt |-> 0, p_waiter_mutex |-> None,
                reader_count |-> 0, write_flag |-> FALSE, counter |-> 0,
                ready |-> FALSE, tokens |-> 0, setter |-> r[1],
                hasty |-> r[2], wakeup |-> w]
  /\ woke = {}

At(t, l) == ctl[t].pc = l

Goto(t, l) == ctl' = [ctl EXCEPT ![t].pc = l]

\* Call routine l and continue at r.
Call(t, l, r) == ctl' = [ctl EXCEPT ![t].pc = l, ![t].st = <<r>> \o @]

Return(t, res) ==
  ctl' = [ctl EXCEPT ![t].pc = Head(ctl[t].st), ![t].st = Tail(@), ![t].ret = res]

\* Leave a wait: a wait for the condition variable reports how it ended, a wait
\* for the mutex inside it leaves that report alone.
Woken(t) == Return(t, IF ctl[t].on = "o" THEN "ok" ELSE ctl[t].ret)

Acquire(t, o) == lk[o] = None /\ lk' = [lk EXCEPT ![o] = t]

Release(o) == lk' = [lk EXCEPT ![o] = None]

-------------------------------------------------------------------------------
(***************************************************************************)
(* The waiter list.  The caller holds the spinlock of ctl[t].on.           *)
(***************************************************************************)
\* Append node a to the list of o.
Link(a, o) ==
  /\ head' = [head EXCEPT ![o] = IF @ = None THEN a ELSE @]
  /\ tail' = [tail EXCEPT ![o] = a]
  /\ next' = [b \in Node |-> IF b = a THEN None
                             ELSE IF head[o] # None /\ b = tail[o] THEN a ELSE next[b]]

\* ABTI_waitlist_wait_and_unlock, first half: link the node.  A node on the
\* stack is BLOCKED from the start; a ULT's own state changes on suspension.
WaitlistAdd(t) ==
  LET o == IF At(t, "mutex wait") THEN ctl[t].mx ELSE "o"
      a == IF t \in ULT THEN t ELSE Stack(t)
  IN  /\ ctl[t].pc \in {"wait", "mutex wait"}
      /\ Link(a, o)
      /\ tstate' = [tstate EXCEPT ![a] = IF t \in ULT THEN @ ELSE "BLOCKED"]
      /\ woke' = IF o = "o" THEN woke \ {t} ELSE woke
      /\ ctl' = [ctl EXCEPT ![t].pc = IF t \in ULT THEN "suspend" ELSE "check",
                            ![t].node = a, ![t].on = o]
      /\ UNCHANGED <<kind, lk, mtx, futex, prev, ob>>

\* ABTI_ythread_suspend_unlock: the callback that runs after the switch away
\* from the ULT marks it BLOCKED and only then releases the lock.
SuspendUnlock(t) ==
  /\ At(t, "suspend")
  /\ tstate' = [tstate EXCEPT ![ctl[t].node] = "BLOCKED"]
  /\ Release(ctl[t].on)
  /\ Goto(t, "blocked")
  /\ UNCHANGED <<kind, mtx, lists, next, prev, ob, woke>>

\* A scheduler takes the resumed ULT from its pool and switches to it.
Scheduled(t) ==
  /\ At(t, "blocked") /\ tstate[ctl[t].node] = "READY"
  /\ tstate' = [tstate EXCEPT ![ctl[t].node] = "RUNNING"]
  /\ Woken(t)
  /\ UNCHANGED <<kind, lk, mtx, lists, next, prev, ob, woke>>

\* The loop of an external thread: look at the state under the lock, then
\* read the futex word and let go of the lock.
ExtCheck(t) ==
  /\ At(t, "check")
  /\ Release(ctl[t].on)
  /\ IF tstate[ctl[t].node] = "READY"
       THEN Woken(t) /\ UNCHANGED futex
       ELSE Goto(t, "asleep") /\ futex' = [futex EXCEPT ![ctl[t].on] = @ \cup {t}]
  /\ UNCHANGED <<kind, mtx, head, tail, nodes, ob, woke>>

\* ABTD_futex_wait_and_unlock returns once the word has changed.  The state is
\* then looked at without the lock, which is taken again if it is still BLOCKED.
ExtQuickCheck(t) ==
  /\ At(t, "asleep") /\ t \notin futex[ctl[t].on]
  /\ IF tstate[ctl[t].node] = "READY" THEN Woken(t) ELSE Goto(t, "lock check")
  /\ UNCHANGED <<kind, lk, mtx, lists, nodes, ob, woke>>

\* A waiter spins for the list's lock and goes on at the label that needs it.
LockAgain(t) ==
  /\ \E l \in {"check", "tcheck", "timeout"} :
       /\ At(t, CASE l = "check" -> "lock check" [] l = "tcheck" -> "lock tcheck"
                  [] l = "timeout" -> "lock timeout")
       /\ Goto(t, l)
  /\ Acquire(t, ctl[t].on)
  /\ UNCHANGED <<kind, mtx, lists, nodes, ob, woke>>

\* ABTI_waitlist_wait_timedout_and_unlock: always a node on the stack, which
\* also records its predecessor.
TimedAdd(t) ==
  LET o == "o"
      a == Stack(t)
  IN  /\ At(t, "timedwait")
      /\ Link(a, o)
      /\ prev' = [prev EXCEPT ![a] = IF head[o] = None THEN None ELSE tail[o]]
      /\ tstate' = [tstate EXCEPT ![a] = "BLOCKED"]
      /\ woke' = woke \ {t}
      /\ ctl' = [ctl EXCEPT ![t].pc = IF t \in ULT THEN "poll" ELSE "tcheck",
                            ![t].node = a, ![t].on = o]
      /\ IF t \in ULT THEN Release(o) ELSE UNCHANGED lk
      /\ UNCHANGED <<kind, mtx, futex, ob>>

\* A ULT polls its node between yields; when its time is over it takes the lock.
TimedPoll(t) ==
  /\ At(t, "poll")
  /\ IF tstate[ctl[t].node] = "READY" THEN Woken(t) ELSE Goto(t, "lock timeout")
  /\ UNCHANGED <<kind, lk, mtx, lists, nodes, ob, woke>>

\* An external thread looks at the clock first ...
TimedExpired(t) ==
  /\ At(t, "tcheck")
  /\ Goto(t, "timeout")
  /\ UNCHANGED <<kind, lk, mtx, lists, nodes, ob, woke>>

\* ... and, with time left, at its node.
TimedCheck(t) ==
  /\ At(t, "tcheck")
  /\ Release(ctl[t].on)
  /\ IF tstate[ctl[t].node] = "READY"
       THEN Woken(t) /\ UNCHANGED futex
       ELSE /\ Goto(t, "tasleep")
            /\ futex' = [futex EXCEPT ![ctl[t].on] = @ \cup {t}]
  /\ UNCHANGED <<kind, mtx, head, tail, nodes, ob, woke>>

\* ABTD_futex_timedwait_and_unlock may return for any reason: a wakeup, the
\* timeout, or neither; the quick check follows.
TimedQuickCheck(t) ==
  /\ At(t, "tasleep")
  /\ futex' = [futex EXCEPT ![ctl[t].on] = @ \ {t}]
  /\ IF tstate[ctl[t].node] = "READY" THEN Woken(t) ELSE Goto(t, "lock tcheck")
  /\ UNCHANGED <<kind, lk, mtx, head, tail, nodes, ob, woke>>

\* Mutation of Unlink: the last node does not hand over p_tail.
MutUnlink(a, o) ==
  IF head[o] = a
    THEN /\ head' = [head EXCEPT ![o] = next[a]]
         /\ tail' = [tail EXCEPT ![o] = IF next[a] = None THEN None ELSE @]
         /\ UNCHANGED <<next, prev>>
    ELSE /\ next' = [next EXCEPT ![prev[a]] = next[a]]
         /\ IF next[a] # None
              THEN prev' = [prev EXCEPT ![next[a]] = prev[a]] ELSE UNCHANGED prev
         /\ UNCHANGED <<head, tail>>

\* Unlink a: at the head p_prev may be stale and is not looked at; further
\* down the successor inherits it, and the last node hands over p_tail.
Unlink(a, o) ==
  IF head[o] = a
    THEN /\ head' = [head EXCEPT ![o] = next[a]]
         /\ tail' = [tail EXCEPT ![o] = IF next[a] = None THEN None ELSE @]
         /\ UNCHANGED <<next, prev>>
    ELSE /\ next' = [next EXCEPT ![prev[a]] = next[a]]
         /\ IF next[a] # None
              THEN prev' = [prev EXCEPT ![next[a]] = prev[a]] /\ UNCHANGED tail
              ELSE tail' = [tail EXCEPT ![o] = prev[a]] /\ UNCHANGED prev
         /\ UNCHANGED head

\* Mutation of TimedOut: a signal that came before the lock is overlooked.
MutTimedOut(t) ==
  LET o == ctl[t].on
      a == ctl[t].node
  IN  /\ At(t, "timeout")
      /\ IF tstate[a] # "READY"
           THEN Unlink(a, o) /\ Return(t, "timedout")
           ELSE Return(t, "timedout") /\ UNCHANGED <<head, tail, next, prev>>
      /\ Release(o)
      /\ UNCHANGED <<kind, mtx, futex, tstate, ob, woke>>

\* The timeout label: a node that was signalled meanwhile has not timed out.
TimedOut(t) ==
  LET o == ctl[t].on
      a == ctl[t].node
  IN  /\ At(t, "timeout")
      /\ IF tstate[a] # "READY"
           THEN Unlink(a, o) /\ Return(t, "timedout")
           ELSE Woken(t) /\ UNCHANGED <<head, tail, next, prev>>
      /\ Release(o)
      /\ UNCHANGED <<kind, mtx, futex, tstate, ob, woke>>

\* Wake node a of the list of o: a ULT goes back to its pool, a dummy only
\* changes its state, and from then on its owner may leave and the node is gone.
Wake(a, o) ==
  /\ next' = [next EXCEPT ![a] = None]
  /\ tstate' = [tstate EXCEPT ![a] = "READY"]
  /\ woke' = IF o = "o" THEN woke \cup {t \in Agent : a \in {t, Stack(t)}} ELSE woke
  /\ UNCHANGED prev

\* ABTI_waitlist_broadcast, one iteration: p_next is read before the wakeup.
BroadcastOne(t) ==
  LET a == ctl[t].cur
  IN  /\ At(t, "broadcast") /\ a # None
      /\ Wake(a, ctl[t].on)
      /\ ctl' = [ctl EXCEPT ![t].cur = next[a], ![t].wake = @ \/ a \notin ULT]
      /\ UNCHANGED <<kind, lk, mtx, lists, ob>>

\* The list is emptied and the futex, if needed, woken; the caller's next act
\* is to release the lock (a barrier also resets its counter).
BroadcastEnd(t) ==
  LET o == ctl[t].on
  IN  /\ At(t, "broadcast") /\ ctl[t].cur = None
      /\ head' = [head EXCEPT ![o] = None] /\ tail' = [tail EXCEPT ![o] = None]
      /\ futex' = [futex EXCEPT ![o] = IF ctl[t].wake THEN {} ELSE @]
      /\ ob' = IF kind = "barrier" THEN [ob EXCEPT !.counter = 0] ELSE ob
      /\ ctl' = [ctl EXCEPT ![t].pc = Head(ctl[t].st), ![t].st = Tail(@),
                            ![t].wake = FALSE]
      /\ Release(o)
      /\ UNCHANGED <<kind, mtx, nodes, woke>>

WakeAll(t, o) ==
  ctl' = [ctl EXCEPT ![t].pc = "broadcast", ![t].on = o, ![t].cur = head[o]]

\* ABTI_waitlist_signal: the head is woken, then unlinked.
Signal(t) ==
  LET a == head["o"]
  IN  /\ At(t, "signal")
      /\ IF a = None
           THEN Return(t, "ok") /\ Release("o") /\ UNCHANGED <<futex, nodes, woke>>
           ELSE /\ Wake(a, "o")
                /\ futex' = [futex EXCEPT !["o"] = IF a \notin ULT THEN {} ELSE @]
                /\ ctl' = [ctl EXCEPT ![t].pc = "signal2", ![t].on = "o",
                                      ![t].cur = next[a]]
                /\ UNCHANGED lk
      /\ UNCHANGED <<kind, mtx, head, tail, ob>>

SignalEnd(t) ==
  /\ At(t, "signal2")
  /\ head' = [head EXCEPT !["o"] = ctl[t].cur]
  /\ tail' = [tail EXCEPT !["o"] = IF ctl[t].cur = None THEN None ELSE @]
  /\ ctl' = [ctl EXCEPT ![t].pc = Head(ctl[t].st), ![t].st = Tail(@), ![t].cur = None]
  /\ Release("o")
  /\ UNCHANGED <<kind, mtx, futex, nodes, ob, woke>>

-------------------------------------------------------------------------------
(***************************************************************************)
(* The mutex, ctl[t].mx.                                                   *)
(***************************************************************************)
Take(t, m) ==
  /\ mtx' = [mtx EXCEPT ![m] = t]
  /\ ob' = [ob EXCEPT !.owner = IF kind = "recursive" THEN t ELSE @]

Nest(t) == ob' = [ob EXCEPT !.nesting_cnt = @ + 1] /\ UNCHANGED mtx

\* ABTI_mutex_lock: nest if t owns the recursive mutex, else try the lock word.
MutexLock(t) ==
  /\ At(t, "lock")
  /\ \/ ob.owner = t /\ Nest(t) /\ Return(t, ctl[t].ret)
     \/ mtx[ctl[t].mx] = None /\ Take(t, ctl[t].mx) /\ Return(t, ctl[t].ret)
     \/ /\ ob.owner # t /\ mtx[ctl[t].mx] # None
        /\ Goto(t, "lock retry") /\ UNCHANGED <<mtx, ob>>
  /\ UNCHANGED <<kind, lk, lists, nodes, woke>>

\* Mutation of MutexLockRetry: the lock word is not tried again.
MutMutexLockRetry(t) ==
  /\ At(t, "lock retry") /\ Acquire(t, ctl[t].mx)
  /\ Call(t, "mutex wait", "lock")
  /\ UNCHANGED <<kind, mtx, lists, nodes, ob, woke>>

\* With waiter_lock held the lock word is tried again before t joins the list.
MutexLockRetry(t) ==
  LET m == ctl[t].mx
  IN  /\ At(t, "lock retry") /\ lk[m] = None
      /\ IF mtx[m] = None
           THEN Take(t, m) /\ Return(t, ctl[t].ret) /\ UNCHANGED lk
           ELSE Acquire(t, m) /\ Call(t, "mutex wait", "lock") /\ UNCHANGED <<mtx, ob>>
      /\ UNCHANGED <<kind, lists, nodes, woke>>

\* ABTI_mutex_trylock
MutexTrylock(t) ==
  /\ At(t, "trylock")
  /\ \/ ob.owner = t /\ Nest(t) /\ Return(t, "ok")
     \/ mtx[ctl[t].mx] = None /\ Take(t, ctl[t].mx) /\ Return(t, "ok")
     \/ /\ ob.owner # t /\ mtx[ctl[t].mx] # None
        /\ Return(t, "locked") /\ UNCHANGED <<mtx, ob>>
  /\ UNCHANGED <<kind, lk, lists, nodes, woke>>

\* ABTI_mutex_spinlock never joins the list.
MutexSpinlock(t) ==
  /\ At(t, "spinlock")
  /\ \/ ob.owner = t /\ Nest(t)
     \/ mtx[ctl[t].mx] = None /\ Take(t, ctl[t].mx)
  /\ Return(t, "ok")
  /\ UNCHANGED <<kind, lk, lists, nodes, woke>>

\* ABTI_mutex_unlock: an inner unlock only counts down; the outermost one gives
\* up ownership, takes waiter_lock, releases the lock word and wakes all waiters.
MutexUnlock(t) ==
  LET m == ctl[t].mx
  IN  /\ At(t, "unlock")
      /\ IF kind = "recursive" /\ ob.nesting_cnt > 0
           THEN /\ ob' = [ob EXCEPT !.nesting_cnt = @ - 1]
                /\ Return(t, ctl[t].ret) /\ UNCHANGED <<lk, mtx>>
           ELSE /\ ob' = [ob EXCEPT !.owner = None]
                /\ mtx' = [mtx EXCEPT ![m] = None]
                /\ Acquire(t, m) /\ WakeAll(t, m)
      /\ UNCHANGED <<kind, lists, nodes, woke>>

(***************************************************************************)
(* The condition variable: the object "o" with mutex ctl[t].mx.            *)
(***************************************************************************)
\* ABTI_cond_wait and ABT_cond_timedwait: the first mutex a condition variable
\* is used with stays its mutex; another one is refused with the mutex held.
\* Otherwise unlock, wait, lock again.
CondWait(t) ==
  LET m == ctl[t].mx
      wait == IF ctl[t].timed THEN "timedwait" ELSE "wait"
  IN  /\ At(t, "cond wait") /\ lk["o"] = None
      /\ IF ob.p_waiter_mutex \in {None, m}
           THEN /\ ob' = [ob EXCEPT !.p_waiter_mutex = m]
                /\ lk' = [lk EXCEPT !["o"] = t]
                /\ ctl' = [ctl EXCEPT ![t].pc = "unlock",
                                      ![t].st = <<wait, "lock">> \o @]
           ELSE Return(t, "inv_mutex") /\ UNCHANGED <<ob, lk>>
      /\ UNCHANGED <<kind, mtx, lists, nodes, woke>>

\* ABT_cond_signal
CondSignal(t) ==
  /\ At(t, "cond signal") /\ Acquire(t, "o")
  /\ Goto(t, "signal")
  /\ UNCHANGED <<kind, mtx, lists, nodes, ob, woke>>

\* ABTI_cond_broadcast
CondBroadcast(t) ==
  /\ At(t, "cond broadcast") /\ Acquire(t, "o")
  /\ WakeAll(t, "o")
  /\ UNCHANGED <<kind, mtx, lists, nodes, ob, woke>>

(***************************************************************************)
(* The reader-writer lock: its mutex is "m", its condition variable "o".   *)
(* Each routine begins by locking the mutex and then goes on here.         *)
(***************************************************************************)
\* ABT_rwlock_rdlock
Rdlock(t) ==
  /\ At(t, "rdlock")
  /\ IF ob.write_flag
       THEN Call(t, "cond wait", "rdlock") /\ UNCHANGED ob
       ELSE Goto(t, "unlock") /\ ob' = [ob EXCEPT !.reader_count = @ + 1]
  /\ UNCHANGED <<kind, lk, mtx, lists, nodes, woke>>

\* ABT_rwlock_wrlock
Wrlock(t) ==
  /\ At(t, "wrlock")
  /\ IF ob.write_flag \/ ob.reader_count > 0
       THEN Call(t, "cond wait", "wrlock") /\ UNCHANGED ob
       ELSE Goto(t, "unlock") /\ ob' = [ob EXCEPT !.write_flag = TRUE]
  /\ UNCHANGED <<kind, lk, mtx, lists, nodes, woke>>

\* ABT_rwlock_unlock: whoever holds it, then everybody is woken.
RwUnlock(t) ==
  /\ At(t, "rwunlock")
  /\ ob' = IF ob.write_flag THEN [ob EXCEPT !.write_flag = FALSE]
                            ELSE [ob EXCEPT !.reader_count = @ - 1]
  /\ Call(t, "cond broadcast", "unlock")
  /\ UNCHANGED <<kind, lk, mtx, lists, nodes, woke>>

(***************************************************************************)
(* Barrier, eventual and future.                                           *)
(***************************************************************************)
\* Mutation of BarrierWait: the last but one releases the barrier.
MutBarrierWait(t) ==
  /\ At(t, "barrier wait") /\ Acquire(t, "o")
  /\ ob' = [ob EXCEPT !.counter = @ + 1]
  /\ IF ob.counter + 2 < N THEN Goto(t, "wait") ELSE WakeAll(t, "o")
  /\ UNCHANGED <<kind, mtx, lists, nodes, woke>>

\* ABT_barrier_wait: the last to arrive wakes the others and resets the counter.
BarrierWait(t) ==
  /\ At(t, "barrier wait") /\ Acquire(t, "o")
  /\ ob' = [ob EXCEPT !.counter = @ + 1]
  /\ IF ob.counter + 1 < N THEN Goto(t, "wait") ELSE WakeAll(t, "o")
  /\ UNCHANGED <<kind, mtx, lists, nodes, woke>>

\* ABT_eventual_wait
EventualWait(t) ==
  /\ At(t, "eventual wait") /\ lk["o"] = None
  /\ IF ob.ready THEN Return(t, "ok") /\ UNCHANGED lk
                 ELSE Goto(t, "wait") /\ Acquire(t, "o")
  /\ UNCHANGED <<kind, mtx, lists, nodes, ob, woke>>

\* ABT_eventual_set: a second set is an error.
EventualSet(t) ==
  /\ At(t, "eventual set") /\ lk["o"] = None
  /\ IF ob.ready
       THEN Return(t, "err") /\ UNCHANGED <<ob, lk>>
       ELSE ob' = [ob EXCEPT !.ready = TRUE] /\ Acquire(t, "o") /\ WakeAll(t, "o")
  /\ UNCHANGED <<kind, mtx, lists, nodes, woke>>

\* ABT_future_wait
FutureWait(t) ==
  /\ At(t, "future wait") /\ lk["o"] = None
  /\ IF ob.counter >= N THEN Return(t, "ok") /\ UNCHANGED lk
                        ELSE Goto(t, "wait") /\ Acquire(t, "o")
  /\ UNCHANGED <<kind, mtx, lists, nodes, ob, woke>>

\* ABT_future_set: the last compartment wakes the waiters, one more is an error.
FutureSet(t) ==
  /\ At(t, "future set") /\ lk["o"] = None
  /\ ob' = [ob EXCEPT !.counter = IF @ < N THEN @ + 1 ELSE @]
  /\ IF ob.counter + 1 = N
       THEN Acquire(t, "o") /\ WakeAll(t, "o")
       ELSE UNCHANGED lk /\ Return(t, IF ob.counter < N THEN "ok" ELSE "err")
  /\ UNCHANGED <<kind, mtx, lists, nodes, woke>>

-------------------------------------------------------------------------------
(***************************************************************************)
(* The programs that use the objects.                                      *)
(***************************************************************************)
\* Enter routine l with mutex m, with the return points rs.
Enter(t, l, m, rs) ==
  ctl' = [ctl EXCEPT ![t].pc = l, ![t].mx = m, ![t].st = rs, ![t].ret = "ok",
                     ![t].n = IF ctl[t].pc \in {"idle", "inside"} THEN @ + 1 ELSE @]

\* A setter that signals does so once for each wait of the others.
Quota(t) == IF kind \in {"cond", "list"} /\ t = ob.setter /\ ob.wakeup = "cond signal"
              THEN Rounds[kind] * (N - 1) ELSE Rounds[kind]

Idle(t) == t \in Team[kind] /\ At(t, "idle") /\ ctl[t].n < Quota(t)

\* Timed waits on a bare list, and somebody who wakes one or all.
UseList(t) ==
  /\ kind = "list" /\ Idle(t) /\ lk["o"] = None
  /\ lk' = [lk EXCEPT !["o"] = t]
  /\ IF t = ob.setter
       THEN IF ob.wakeup = "cond signal"
              THEN Enter(t, "signal", "m", <<"idle">>)
              ELSE ctl' = [ctl EXCEPT ![t].pc = "broadcast", ![t].on = "o",
                     ![t].cur = head["o"], ![t].st = <<"idle">>, ![t].n = @ + 1]
       ELSE Enter(t, "timedwait", "m", <<"idle">>)
  /\ UNCHANGED <<kind, mtx, lists, nodes, ob, woke>>

\* Lock, perhaps lock again if the mutex is recursive, and unlock as often.
UseMutex(t) ==
  /\ kind \in {"mutex", "recursive"}
  /\ \/ /\ \/ Idle(t)
           \/ At(t, "inside") /\ kind = "recursive" /\ ctl[t].n < Quota(t)
        /\ \E l \in {"lock", "trylock", "spinlock"} : Enter(t, l, "m", <<"locked">>)
     \/ /\ At(t, "locked")
        /\ ctl' = [ctl EXCEPT ![t].pc = IF ctl[t].ret = "ok" \/ ctl[t].holds > 0
                                          THEN "inside" ELSE "idle",
                              ![t].holds = IF ctl[t].ret = "ok" THEN @ + 1 ELSE @]
     \/ /\ At(t, "inside")
        /\ ctl' = [ctl EXCEPT ![t].pc = "unlock", ![t].holds = @ - 1,
                     ![t].st = <<IF ctl[t].holds = 1 THEN "idle" ELSE "inside">>]
  /\ UNCHANGED <<kind, lk, mtx, lists, nodes, ob, woke>>

\* Waiters consume the tokens that the setter posts, in a predicate loop; one
\* of them waits with a deadline and gives up when it passes.  The setter posts
\* one token and signals, or a token for everybody and broadcasts: an external
\* setter after it has unlocked, a ULT before.
UseCond(t) ==
  /\ kind = "cond"
  /\ \/ /\ t # ob.setter /\ Idle(t)
        /\ ctl' = [ctl EXCEPT ![t].pc = "lock", ![t].st = <<"want">>, ![t].ret = "ok",
                              ![t].timed = t = ob.hasty, ![t].n = @ + 1]
        /\ UNCHANGED ob
     \/ /\ At(t, "want")
        /\ IF ob.tokens > 0 \/ ctl[t].ret = "timedout"
             THEN /\ ob' = [ob EXCEPT !.tokens = IF @ > 0 THEN @ - 1 ELSE @]
                  /\ Call(t, "unlock", "idle")
             ELSE Call(t, "cond wait", "want") /\ UNCHANGED ob
     \/ /\ t = ob.setter /\ Idle(t)
        /\ Enter(t, "lock", "m", <<"post">>)
        /\ UNCHANGED ob
     \/ /\ At(t, "post")
        /\ ob' = [ob EXCEPT !.tokens = @ + IF ob.wakeup = "cond signal"
                                            THEN 1 ELSE N - 1]
        /\ IF t \in Ext THEN Enter(t, "unlock", "m", <<ob.wakeup, "idle">>)
                      ELSE Enter(t, ob.wakeup, "m", <<"unlock", "idle">>)
  /\ UNCHANGED <<kind, lk, mtx, lists, nodes, woke>>

\* Timed waits on one condition variable with either mutex.
UseAssoc(t) ==
  /\ kind = "assoc" /\ Idle(t)
  /\ \E m \in Mutex : ctl' = [ctl EXCEPT ![t].pc = "lock", ![t].mx = m,
       ![t].st = <<"cond wait", "unlock", "idle">>, ![t].timed = TRUE,
       ![t].ret = "ok", ![t].n = @ + 1]
  /\ UNCHANGED <<kind, lk, mtx, lists, nodes, ob, woke>>

\* Take the lock for writing (the hasty agent does not) or for reading (the
\* setter does not), and give it back.
UseRwlock(t) ==
  /\ kind = "rwlock"
  /\ \/ /\ Idle(t)
        /\ \/ t # ob.setter /\ Enter(t, "lock", "m", <<"rdlock", "reading">>)
           \/ t # ob.hasty /\ Enter(t, "lock", "m", <<"wrlock", "writing">>)
     \/ /\ ctl[t].pc \in {"reading", "writing"}
        /\ Enter(t, "lock", "m", <<"rwunlock", "idle">>)
  /\ UNCHANGED <<kind, lk, mtx, lists, nodes, ob, woke>>

\* Pass the barrier, or set and wait for the eventual or the future.
UseRendezvous(t) ==
  /\ \/ /\ Idle(t)
        /\ \/ kind = "barrier" /\ Enter(t, "barrier wait", "m", <<"passed">>)
           \/ kind = "eventual" /\ Enter(t, "eventual set", "m", <<"passed">>)
           \/ /\ kind = "eventual" /\ t # ob.setter
              /\ Enter(t, "eventual wait", "m", <<"passed">>)
           \/ kind = "future" /\ Enter(t, "future set", "m", <<"future wait", "passed">>)
     \/ At(t, "passed") /\ ctl' = [ctl EXCEPT ![t].pc = "idle", ![t].left = @ + 1]
  /\ UNCHANGED <<kind, lk, mtx, lists, nodes, ob, woke>>

Waitlist(t) ==
  \/ WaitlistAdd(t) \/ SuspendUnlock(t) \/ Scheduled(t) \/ ExtCheck(t)
  \/ ExtQuickCheck(t) \/ LockAgain(t) \/ TimedAdd(t)
  \/ TimedPoll(t) \/ TimedExpired(t) \/ TimedCheck(t)
  \/ TimedQuickCheck(t) \/ TimedOut(t) \/ BroadcastOne(t) \/ BroadcastEnd(t) \/ Signal(t) \/ SignalEnd(t)

MutexStep(t) ==
  \/ MutexLock(t) \/ MutexLockRetry(t) \/ MutexTrylock(t) \/ MutexSpinlock(t)
  \/ MutexUnlock(t)

ObjectStep(t) ==
  \/ CondWait(t) \/ CondSignal(t) \/ CondBroadcast(t)
  \/ Rdlock(t) \/ Wrlock(t) \/ RwUnlock(t) \/ BarrierWait(t)
  \/ EventualWait(t) \/ EventualSet(t) \/ FutureWait(t) \/ FutureSet(t)

Client(t) ==
  \/ UseList(t) \/ UseMutex(t) \/ UseCond(t) \/ UseAssoc(t) \/ UseRwlock(t)
  \/ UseRendezvous(t)

Step(t) == Waitlist(t) \/ MutexStep(t) \/ ObjectStep(t) \/ Client(t)

\* Every program has run to its end.
Done == \A t \in Agent : At(t, "idle") /\ ~ Idle(t)

Next == \E t \in Agent : Step(t)

\* Every agent has an execution stream or a POSIX thread that keeps running it,
\* and a deadline that a waiter keeps looking at passes.
Spec ==
  /\ Init /\ [][Next]_vars
  /\ \A t \in Agent : WF_vars(Step(t)) /\ SF_vars(TimedExpired(t))

-------------------------------------------------------------------------------
(***************************************************************************)
(* Properties                                                              *)
(***************************************************************************)
\* The waits of the list of o that nobody has woken: what the list must hold.
WaitLabels == {"suspend", "blocked", "check", "asleep", "lock check", "poll",
               "tcheck", "tasleep", "lock tcheck", "lock timeout", "timeout"}

Waiting(o) ==
  {ctl[t].node : t \in {u \in Agent : /\ ctl[u].pc \in WaitLabels /\ ctl[u].on = o
                                      /\ tstate[ctl[u].node] # "READY"}}

\* The nodes met by following p_next from p_head, at most N of them.
Chain(o) ==
  LET c[i \in 0 .. N] == IF i = 0 THEN head[o]
                         ELSE IF c[i - 1] = None THEN None ELSE next[c[i - 1]]
  IN  c

\* Nobody is in the middle of waking the waiters of o.
Settled(o) == \A t \in Agent :
  ~ (ctl[t].pc \in {"broadcast", "signal2"} /\ ctl[t].on = o)

\* The waiter list is exactly the waits that have not been woken: no wait is
\* lost, none is left behind by a timeout (abti_waitlist.h:174-213), p_tail is
\* the last node, and no pointer leads to a node whose owner has returned.
ListIsWaiters ==
  \A o \in Object : Settled(o) =>
    LET c == Chain(o)
    IN  /\ {c[i] : i \in 0 .. N} \ {None} = Waiting(o)
        /\ c[N] = None
        /\ tail[o] = IF head[o] = None THEN None
                     ELSE CHOOSE a \in Waiting(o) : next[a] = None

\* While the waiters are being woken, the cursor is a node whose owner is still
\* in its wait: the successor was read before the wakeup that frees the node.
CursorIsLive ==
  \A t \in Agent : ctl[t].pc \in {"broadcast", "signal2"} /\ ctl[t].cur # None =>
    ctl[t].cur \in Waiting(ctl[t].on)

\* A wait on a condition variable ends with success exactly if a signal or a
\* broadcast chose it: there are no spurious wakeups (cond.c:159-160), and a
\* signal that raced the timeout is not lost (abti_waitlist.h:175-180).
WakeupsAreReal ==
  [][\A t \in Agent :
       /\ ctl[t].pc \in WaitLabels /\ ctl[t].on = "o"
       /\ ctl'[t].pc \notin WaitLabels
       => (ctl'[t].ret = "ok" <=> t \in woke)]_vars

\* Two agents hold the mutex, or the reader-writer lock, at once only if both
\* hold it for reading, whoever was woken in which order.
Exclusion ==
  \A t, u \in Agent : t # u =>
    /\ ctl[t].holds = 0 \/ ctl[u].holds = 0
    /\ ~ (At(t, "writing") /\ ctl[u].pc \in {"reading", "writing"})
    /\ ~ (ctl[t].pc \in {"want", "post"} /\ ctl[u].pc \in {"want", "post"})

\* Nobody leaves a barrier round before everybody has come to it, a future
\* before every compartment is being set, an eventual before it is being set.
NoEarlyRelease ==
  \A t, u \in Team[kind] :
    /\ kind = "barrier" => ctl[t].left <= ctl[u].n
    /\ kind = "future" /\ ctl[t].left > 0 => ctl[u].n > 0
    /\ kind = "eventual" /\ ctl[t].left > 0 => \E w \in Agent : ctl[w].n > 0 /\ ob.ready

\* Every program finishes: no wakeup is lost between the check under the lock
\* and the sleep, by a futex, a ULT that is not suspended yet, or a timeout.
Terminates == <>Done
=============================================================================
