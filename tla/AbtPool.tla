------------------------------ MODULE AbtPool ------------------------------
(***************************************************************************)
(* The pools of Argobots (src/argobots/src/pool, unit.c, abti_unit.h): the *)
(* intrusive ring of work units of a built-in pool with its lock and its   *)
(* lock-free emptiness flag, the three built-in kinds, pools defined by    *)
(* the user, and the hash table that finds the work unit behind a handle   *)
(* that a user-defined pool created.                                       *)
(*                                                                         *)
(* A worker that is not inside a call starts one on the work units that it *)
(* holds; a call becomes a list of steps (todo), one per access to shared  *)
(* memory, and the steps of different workers interleave.                  *)
(***************************************************************************)
EXTENDS Naturals, Sequences, FiniteSets, SequencesExt

CONSTANTS Workers, Threads, Handles, Null,
          Owner,      \* the worker of the pools with private access
          Setups      \* records [kind, calls, left]: the pools of a run, the
                      \* calls that workers may make on each of them, and the
                      \* bound on the calls of each worker

VARIABLES kind,    \* pool -> its kind
          calls,   \* pool -> the calls made on it
          que,     \* built-in pool -> [num, head, tail, empty, lock]
          thr,     \* work unit -> [prev, next, in, unit, pool]
          outside, \* user-defined pool -> the handles in it
          table,   \* the elements of a hash bucket, oldest first
          bucket,  \* the worker inside the bucket's lock, or Null
          spare,   \* handles that a user-defined pool may create
          asleep,  \* the workers blocked in a waiting pop
          todo,    \* worker -> the steps left of its call
          held,    \* worker -> the work units that it holds
          left     \* worker -> how many calls it may still make

vars == <<kind, calls, que, thr, outside, table, bucket, spare, asleep, todo,
          held, left>>
callVars == <<kind, calls, left>>
unitVars == <<outside, table, bucket, spare>>

Pools == DOMAIN kind
Builtin == {p \in Pools : kind[p] # "user"}
Private == {p \in Pools : kind[p] \in {"fifo_private", "randws_private"}}
Randws == {p \in Pools : kind[p] \in {"randws", "randws_private"}}

PoolInit == [num |-> 0, head |-> Null, tail |-> Null, empty |-> TRUE,
             lock |-> Null]

NoThread == [prev |-> Null, next |-> Null, in |-> FALSE, unit |-> Null,
             pool |-> Null]

Init == /\ \E s \in Setups : kind = s.kind /\ calls = s.calls /\ left = s.left
        /\ que = [p \in Builtin |-> PoolInit]
        /\ thr = [t \in Threads |-> NoThread]
        /\ outside = [p \in Pools \ Builtin |-> <<>>]
        /\ table = <<>> /\ bucket = Null /\ spare = Handles
        /\ asleep = {}
        /\ todo = [w \in Workers |-> <<>>]
        /\ held = [w \in Workers |-> {}]

-----------------------------------------------------------------------------
(* The ring of work units of a built-in pool (thread_queue.h).  Each         *)
(* operator gives the new <<queue, work units>>.                             *)

Ring(q, h, th, t) ==
  IF q.num = 0
  THEN <<[q EXCEPT !.head = t, !.tail = t, !.num = 1, !.empty = FALSE],
         [th EXCEPT ![t] = [@ EXCEPT !.prev = t, !.next = t, !.in = TRUE]]>>
  ELSE LET linked == [th EXCEPT ![q.tail].next = t]
           closed == [linked EXCEPT ![q.head].prev = t]
       IN <<[q EXCEPT ![h] = t, !.num = @ + 1],
            [closed EXCEPT ![t] = [@ EXCEPT !.prev = q.tail, !.next = q.head,
                                            !.in = TRUE]]>>

Emptied(q) == [q EXCEPT !.head = Null, !.tail = Null, !.num = 0, !.empty = TRUE]

PushHead(q, th, t) == Ring(q, "head", th, t)

PushTail(q, th, t) == Ring(q, "tail", th, t)

Unlinked(th, t) ==
  LET skipped == [th EXCEPT ![th[t].prev].next = th[t].next]
      joined == [skipped EXCEPT ![th[t].next].prev = th[t].prev]
  IN [joined EXCEPT ![t] = [@ EXCEPT !.prev = Null, !.next = Null,
                                     !.in = FALSE]]

PopHead(q, th) ==
  LET t == q.head
  IN <<IF q.num = 1 THEN Emptied(q)
       ELSE [q EXCEPT !.head = th[t].next, !.num = @ - 1], Unlinked(th, t)>>

PopTail(q, th) ==
  LET t == q.tail
  IN <<IF q.num = 1 THEN Emptied(q)
       ELSE [q EXCEPT !.tail = th[t].prev, !.num = @ - 1], Unlinked(th, t)>>

\* Mutant: removing the tail leaves p_tail on it.
MutQueueRemove(q, th, t) ==
  <<IF q.num = 1 THEN Emptied(q)
    ELSE IF t = q.head THEN [q EXCEPT !.head = th[t].next, !.num = @ - 1]
    ELSE [q EXCEPT !.num = @ - 1], Unlinked(th, t)>>

\* A queue of one element is emptied whatever element was asked for.
QueueRemove(q, th, t) ==
  <<IF q.num = 1 THEN Emptied(q)
    ELSE IF t = q.head THEN [q EXCEPT !.head = th[t].next, !.num = @ - 1]
    ELSE IF t = q.tail THEN [q EXCEPT !.tail = th[t].prev, !.num = @ - 1]
    ELSE [q EXCEPT !.num = @ - 1],
    Unlinked(th, t)>>
-----------------------------------------------------------------------------
(* The calls, as lists of steps.                                             *)

Locked(p, steps) == <<<<"lock", p>>>> \o steps \o <<<<"unlock", p>>>>

Pushes(p, ts, end) == [i \in 1..Len(ts) |-> <<"push", p, ts[i], end>>]

FifoPush(p, ts) == IF p \in Private THEN Pushes(p, ts, "tail")
                   ELSE Locked(p, Pushes(p, ts, "tail"))

\* A work unit that is created or revived goes to the head of a RANDWS pool.
RandwsPush(p, ts, new) ==
  LET end == IF new THEN "head" ELSE "tail"
  IN IF p \in Private THEN Pushes(p, ts, end)
     ELSE Locked(p, Pushes(p, ts, end))

\* One unit wakes one waiter, several units wake them all.
FifoWaitPush(p, ts) ==
  Locked(p, Append(Pushes(p, ts, "tail"),
                   IF Len(ts) = 1 THEN <<"signal", p>> ELSE <<"broadcast", p>>))

\* pool_push_many_wrapper() calls the user's push for one unit at a time.
UserPush(p, ts) == [i \in 1..Len(ts) |-> <<"push_user", p, ts[i]>>]

PoolPush(p, ts, new) == CASE kind[p] = "user"      -> UserPush(p, ts)
                          [] kind[p] = "fifo_wait" -> FifoWaitPush(p, ts)
                          [] p \in Randws          -> RandwsPush(p, ts, new)
                          [] OTHER                 -> FifoPush(p, ts)

FifoPop(p, n) ==
  IF p \in Private THEN <<<<"pop", p, n, "head">>>>
  ELSE <<<<"lock_if_not_empty", p>>, <<"pop", p, n, "head">>, <<"unlock", p>>>>

\* A scheduler for which the pool is not the first takes from the tail.
RandwsPop(p, n, thief) ==
  LET end == IF thief THEN "tail" ELSE "head"
  IN IF p \in Private THEN <<<<"pop", p, n, end>>>>
     ELSE <<<<"lock_if_not_empty", p>>, <<"pop", p, n, end>>, <<"unlock", p>>>>

FifoWaitPop(p, n) == <<<<"not_empty", p>>>> \o Locked(p, <<<<"pop", p, n, "head">>>>)

\* pool_pop_many_wrapper() stops at the first pop that finds nothing.
UserPop(p, n) == <<<<"pop_user", p, n>>>>

PoolPop(p, n, thief) == CASE kind[p] = "user"      -> UserPop(p, n)
                          [] kind[p] = "fifo_wait" -> FifoWaitPop(p, n)
                          [] p \in Randws          -> RandwsPop(p, n, thief)
                          [] OTHER                 -> FifoPop(p, n)

\* A waiting pop polls a FIFO or a RANDWS pool; pop_timedwait() looks at the
\* clock after its first try already, pop_wait() after its second.
Polling(p, end, first) ==
  <<<<"lock_if_not_empty", p>>, <<"pop", p, 1, end>>, <<"unlock", p>>,
    <<"nap", p, end, first>>>>

FifoWaitPopWait(p) ==
  <<<<"lock", p>>, <<"if_empty_wait", p>>, <<"pop", p, 1, "head">>, <<"unlock", p>>>>

PopWait(p, thief, first) ==
  IF kind[p] = "fifo_wait" THEN FifoWaitPopWait(p)
  ELSE Polling(p, IF p \in Randws /\ thief THEN "tail" ELSE "head", first)

FifoRemove(p, t) == IF p \in Private THEN <<<<"remove", p, t>>>>
                    ELSE Locked(p, <<<<"remove", p, t>>>>)

FifoWaitRemove(p, t) == <<<<"in_pool", p, t>>>> \o Locked(p, <<<<"remove", p, t>>>>)

PoolRemove(p, t) == IF kind[p] = "fifo_wait" THEN FifoWaitRemove(p, t)
                    ELSE FifoRemove(p, t)

\* Mutant: the handle is given back before its mapping is removed.
MutLeave(u) == <<<<"free_unit", u>>, <<"unmap", u>>>>

\* The work unit leaves a user-defined pool.
Leave(u) == <<<<"unmap", u>>, <<"free_unit", u>>>>

\* ABTI_thread_set_associated_pool().
Associate(t, p) ==
  LET u == thr[t].unit
  IN CASE u = "builtin" /\ p \in Builtin -> <<<<"set_pool", t, "builtin", p>>>>
       [] u = "builtin" -> <<<<"create_unit", t, p, <<>>>>>>
       [] p \in Builtin -> Leave(u) \o <<<<"set_pool", t, "builtin", p>>>>
       [] thr[t].pool = p -> <<>>
       [] OTHER -> <<<<"create_unit", t, p, Leave(u)>>>>

\* ABTI_thread_init_pool().
InitPool(t, p) == IF p \in Builtin THEN <<<<"set_pool", t, "builtin", p>>>>
                  ELSE <<<<"create_unit", t, p, <<>>>>>>

\* ABTI_thread_unset_associated_pool().
UnsetPool(t) == (IF thr[t].unit = "builtin" THEN <<>> ELSE Leave(thr[t].unit))
                  \o <<<<"destroy", t>>>>
-----------------------------------------------------------------------------
(* The steps.  Doing(w, op) holds of a worker whose next step is op, and     *)
(* Arg(w, i) is an argument of the step.                                     *)

Doing(w, op) == todo[w] # <<>> /\ Head(todo[w])[1] = op
Arg(w, i) == Head(todo[w])[i]
Then(w, steps) == todo' = [todo EXCEPT ![w] = steps]
Done(w) == Then(w, Tail(todo[w]))
LockTo(p, w) == que' = [que EXCEPT ![p].lock = w]
Take(w, ts) == held' = [held EXCEPT ![w] = @ \cup ts]
Give(w, ts) == held' = [held EXCEPT ![w] = @ \ ts]

Lock(w) == LET p == Arg(w, 2)
           IN /\ que[p].lock = Null
              /\ LockTo(p, w) /\ Done(w)
              /\ UNCHANGED <<thr, unitVars, asleep, held>>

Unlock(w) == /\ LockTo(Arg(w, 2), Null) /\ Done(w)
             /\ UNCHANGED <<thr, unitVars, asleep, held>>

\* thread_queue_acquire_spinlock_if_not_empty(): no lock is taken of a pool
\* that looks empty, and the pop and the unlock after it are skipped.
LockIfNotEmpty(w) ==
  LET p == Arg(w, 2)
  IN /\ IF que[p].empty THEN Then(w, SubSeq(todo[w], 4, Len(todo[w])))
        ELSE Then(w, <<<<"try_lock", p>>>> \o Tail(todo[w]))
     /\ UNCHANGED <<que, thr, unitVars, asleep, held>>

\* A taken lock sends the worker back to the flag.
TryLock(w) ==
  LET p == Arg(w, 2)
  IN /\ \/ que[p].lock = Null /\ LockTo(p, w) /\ Done(w)
        \/ /\ que[p].lock # Null
           /\ Then(w, <<<<"lock_if_not_empty", p>>>> \o Tail(todo[w]))
           /\ UNCHANGED que
     /\ UNCHANGED <<thr, unitVars, asleep, held>>

NotEmpty(w) == /\ Then(w, IF que[Arg(w, 2)].empty THEN <<>> ELSE Tail(todo[w]))
               /\ UNCHANGED <<que, thr, unitVars, asleep, held>>

InPool(w) == /\ Then(w, IF que[Arg(w, 2)].empty \/ ~thr[Arg(w, 3)].in THEN <<>>
                        ELSE Tail(todo[w]))
             /\ UNCHANGED <<que, thr, unitVars, asleep, held>>

Push(w) ==
  LET p == Arg(w, 2) t == Arg(w, 3)
      new == IF Arg(w, 4) = "head" THEN PushHead(que[p], thr, t)
             ELSE PushTail(que[p], thr, t)
  IN /\ que' = [que EXCEPT ![p] = new[1]] /\ thr' = new[2]
     /\ Give(w, {t}) /\ Done(w)
     /\ UNCHANGED <<unitVars, asleep>>

\* A pop that succeeds ends the polling around it.
Pop(w) ==
  LET p == Arg(w, 2) n == Arg(w, 3) end == Arg(w, 4)
      t == IF end = "head" THEN que[p].head ELSE que[p].tail
      new == IF end = "head" THEN PopHead(que[p], thr) ELSE PopTail(que[p], thr)
  IN /\ IF n = 0 \/ que[p].num = 0
        THEN Done(w) /\ UNCHANGED <<que, thr, held>>
        ELSE /\ que' = [que EXCEPT ![p] = new[1]] /\ thr' = new[2]
             /\ Take(w, {t})
             /\ Then(w, <<<<"pop", p, n - 1, end>>>>
                          \o SelectSeq(Tail(todo[w]), LAMBDA s : s[1] # "nap"))
     /\ UNCHANGED <<unitVars, asleep>>

\* pool_pop_wait() of a polled pool: look at the clock, sleep, try again.
Nap(w) ==
  /\ \/ Then(w, Polling(Arg(w, 2), Arg(w, 3), FALSE))
     \/ ~Arg(w, 4) /\ Then(w, <<>>)
  /\ UNCHANGED <<que, thr, unitVars, asleep, held>>

RemoveUnit(w) ==
  LET p == Arg(w, 2) t == Arg(w, 3) new == QueueRemove(que[p], thr, t)
  IN /\ IF que[p].num = 0 \/ ~thr[t].in THEN UNCHANGED <<que, thr, held>>
        ELSE que' = [que EXCEPT ![p] = new[1]] /\ thr' = new[2] /\ Take(w, {t})
     /\ Done(w)
     /\ UNCHANGED <<unitVars, asleep>>

\* pthread_cond_timedwait() of a FIFO_WAIT pool that is empty.
IfEmptyWait(w) ==
  LET p == Arg(w, 2)
  IN /\ IF que[p].empty
        THEN /\ asleep' = asleep \cup {w} /\ LockTo(p, Null)
             /\ Then(w, <<<<"relock", p>>>> \o Tail(todo[w]))
        ELSE Done(w) /\ UNCHANGED <<asleep, que>>
     /\ UNCHANGED <<thr, unitVars, held>>

\* A worker that was signalled, or whose time is over, takes the mutex again.
Relock(w) == LET p == Arg(w, 2)
             IN /\ que[p].lock = Null
                /\ LockTo(p, w) /\ asleep' = asleep \ {w} /\ Done(w)
                /\ UNCHANGED <<thr, unitVars, held>>

Signal(w) ==
  /\ \/ asleep = {} /\ UNCHANGED asleep
     \/ \E v \in asleep : asleep' = asleep \ {v}
  /\ Done(w)
  /\ UNCHANGED <<que, thr, unitVars, held>>

Broadcast(w) == /\ asleep' = {} /\ Done(w)
                /\ UNCHANGED <<que, thr, unitVars, held>>
-----------------------------------------------------------------------------
(* Handles of user-defined pools.                                            *)

PushUser(w) ==
  LET p == Arg(w, 2) t == Arg(w, 3)
  IN /\ outside' = [outside EXCEPT ![p] = Append(@, thr[t].unit)]
     /\ Give(w, {t}) /\ Done(w)
     /\ UNCHANGED <<que, thr, table, bucket, spare, asleep>>

PopUser(w) ==
  LET p == Arg(w, 2) n == Arg(w, 3)
  IN /\ IF n = 0 \/ outside[p] = <<>> THEN Done(w) /\ UNCHANGED outside
        ELSE /\ outside' = [outside EXCEPT ![p] = Tail(@)]
             /\ Then(w, <<<<"find", Head(outside[p]), Null, Null>>,
                          <<"pop_user", p, n - 1>>>> \o Tail(todo[w]))
     /\ UNCHANGED <<que, thr, table, bucket, spare, asleep, held>>

\* The handle of a thread: walk from the element that was the newest when the
\* walk began.  A pop takes the thread; a push of a handle goes on to push it.
Find(w) ==
  LET u == Arg(w, 2) i == Arg(w, 3) p == Arg(w, 4)
      At(j) == Then(w, <<<<"find", u, j, p>>>> \o Tail(todo[w]))
  IN /\ CASE i = Null -> At(Len(table)) /\ UNCHANGED held
          [] i # Null /\ i > 0 /\ table[i].unit # u -> At(i - 1) /\ UNCHANGED held
          [] i # Null /\ i > 0 /\ table[i].unit = u ->
               IF p = Null THEN Take(w, {table[i].thread}) /\ Done(w)
               ELSE /\ Then(w, Associate(table[i].thread, p)
                                 \o PoolPush(p, <<table[i].thread>>, FALSE))
                    /\ UNCHANGED held
          [] OTHER -> FALSE
     /\ UNCHANGED <<que, thr, unitVars, asleep>>

\* Without a handle or an element the call fails; a thread that was being
\* created is gone.
Fail(w, t) == /\ Then(w, <<>>)
              /\ IF thr[t].unit = Null THEN Give(w, {t}) ELSE UNCHANGED held

CreateUnit(w) ==
  LET t == Arg(w, 2) p == Arg(w, 3)
  IN /\ \/ \E u \in spare :
             /\ spare' = spare \ {u}
             /\ Then(w, <<<<"map", u, t>>>> \o Arg(w, 4)
                          \o <<<<"set_pool", t, u, p>>>> \o Tail(todo[w]))
             /\ UNCHANGED held
        \/ Fail(w, t) /\ UNCHANGED spare
     /\ UNCHANGED <<que, thr, outside, table, bucket, asleep>>

Holes == {i \in DOMAIN table : table[i].unit = Null}

\* unit_map_thread(): reuse the first element without a handle, and only then
\* its thread, or put a new element at the head of the list.
Map(w) ==
  LET u == Arg(w, 2) t == Arg(w, 3)
  IN /\ bucket = Null
     /\ \/ \E i \in Holes :
             /\ \A j \in Holes : j <= i
             /\ table' = [table EXCEPT ![i].unit = u]
             /\ bucket' = w
             /\ Then(w, <<<<"map_thread", i, t>>>> \o Tail(todo[w]))
             /\ UNCHANGED <<held, spare>>
        \/ /\ Holes = {}
           /\ table' = Append(table, [unit |-> u, thread |-> t])
           /\ Done(w)
           /\ UNCHANGED <<held, spare, bucket>>
        \/ /\ Holes = {}
           /\ spare' = spare \cup {u}
           /\ Fail(w, t)
           /\ UNCHANGED <<table, bucket>>
     /\ UNCHANGED <<que, thr, outside, asleep>>

MapThread(w) == /\ table' = [table EXCEPT ![Arg(w, 2)].thread = Arg(w, 3)]
                /\ bucket' = Null /\ Done(w)
                /\ UNCHANGED <<que, thr, outside, spare, asleep, held>>

Unmap(w) ==
  LET Is == {i \in DOMAIN table : table[i].unit = Arg(w, 2)}
  IN /\ bucket = Null
     /\ \E i \in Is : /\ \A j \in Is : j <= i
                      /\ table' = [table EXCEPT ![i].unit = Null]
     /\ Done(w)
     /\ UNCHANGED <<que, thr, outside, bucket, spare, asleep, held>>

FreeUnit(w) == /\ spare' = spare \cup {Arg(w, 2)} /\ Done(w)
               /\ UNCHANGED <<que, thr, outside, table, bucket, asleep, held>>

SetPool(w) ==
  /\ thr' = [thr EXCEPT ![Arg(w, 2)].unit = Arg(w, 3), ![Arg(w, 2)].pool = Arg(w, 4)]
  /\ Done(w)
  /\ UNCHANGED <<que, unitVars, asleep, held>>

Destroy(w) == /\ thr' = [thr EXCEPT ![Arg(w, 2)] = NoThread]
              /\ Give(w, {Arg(w, 2)}) /\ Done(w)
              /\ UNCHANGED <<que, unitVars, asleep>>
-----------------------------------------------------------------------------
(* The calls of the workers.                                                 *)

Start(w, p, call, steps) == /\ todo[w] = <<>> /\ left[w] > 0
                            /\ call \in calls[p]
                            /\ p \in Private => w = Owner
                            /\ Then(w, steps)
                            /\ left' = [left EXCEPT ![w] = @ - 1]
                            /\ UNCHANGED <<kind, calls, que, thr, unitVars, asleep>>

Alive == {t \in Threads : thr[t].unit # Null} \cup UNION {held[v] : v \in Workers}

CreateThread(w, p, t) ==
  /\ t \notin Alive
  /\ Start(w, p, "create", InitPool(t, p) \o PoolPush(p, <<t>>, TRUE))
  /\ Take(w, {t})

FreeThread(w, p, t) == /\ t \in held[w] /\ thr[t].pool = p
                       /\ Start(w, p, "free", UnsetPool(t))
                       /\ UNCHANGED held

PushThread(w, p, t) ==
  /\ t \in held[w]
  /\ Start(w, p, "push", Associate(t, p) \o PoolPush(p, <<t>>, FALSE))
  /\ UNCHANGED held

PushThreads(w, p, t, u) ==
  /\ {t, u} \subseteq held[w] /\ t # u
  /\ Start(w, p, "push_many",
           Associate(t, p) \o Associate(u, p) \o PoolPush(p, <<t, u>>, FALSE))
  /\ UNCHANGED held

\* ABT_pool_push() is given the handle, and finds the thread first.
PushHandle(w, p, t) ==
  /\ t \in held[w] /\ thr[t].unit # "builtin"
  /\ Start(w, p, "push", <<<<"find", thr[t].unit, Null, p>>>>)
  /\ UNCHANGED held

PopThread(w, p, thief) == /\ Start(w, p, "pop", PoolPop(p, 1, thief))
                          /\ UNCHANGED held

PopThreads(w, p, thief) == /\ Start(w, p, "pop_many", PoolPop(p, 2, thief))
                           /\ UNCHANGED held

PopWaitThread(w, p, thief, first) ==
  /\ Start(w, p, "pop_wait", PopWait(p, thief, first))
  /\ UNCHANGED held

RemoveThread(w, p, t) == /\ thr[t].in /\ thr[t].pool = p
                         /\ Start(w, p, "remove", PoolRemove(p, t))
                         /\ UNCHANGED held

Call(w) == \E p \in Pools :
             \/ \E t \in Threads :
                  \/ CreateThread(w, p, t)
                  \/ FreeThread(w, p, t)
                  \/ PushThread(w, p, t)
                  \/ PushHandle(w, p, t)
                  \/ RemoveThread(w, p, t)
                  \/ \E u \in Threads : PushThreads(w, p, t, u)
             \/ \E thief \in BOOLEAN :
                  \/ PopThread(w, p, thief)
                  \/ PopThreads(w, p, thief)
                  \/ \E first \in BOOLEAN : PopWaitThread(w, p, thief, first)

Step(w) == /\ \/ Doing(w, "lock") /\ Lock(w)
              \/ Doing(w, "unlock") /\ Unlock(w)
              \/ Doing(w, "lock_if_not_empty") /\ LockIfNotEmpty(w)
              \/ Doing(w, "try_lock") /\ TryLock(w)
              \/ Doing(w, "not_empty") /\ NotEmpty(w)
              \/ Doing(w, "in_pool") /\ InPool(w)
              \/ Doing(w, "push") /\ Push(w)
              \/ Doing(w, "pop") /\ Pop(w)
              \/ Doing(w, "nap") /\ Nap(w)
              \/ Doing(w, "remove") /\ RemoveUnit(w)
              \/ Doing(w, "if_empty_wait") /\ IfEmptyWait(w)
              \/ Doing(w, "relock") /\ Relock(w)
              \/ Doing(w, "signal") /\ Signal(w)
              \/ Doing(w, "broadcast") /\ Broadcast(w)
              \/ Doing(w, "push_user") /\ PushUser(w)
              \/ Doing(w, "pop_user") /\ PopUser(w)
              \/ Doing(w, "find") /\ Find(w)
              \/ Doing(w, "create_unit") /\ CreateUnit(w)
              \/ Doing(w, "map") /\ Map(w)
              \/ Doing(w, "map_thread") /\ MapThread(w)
              \/ Doing(w, "unmap") /\ Unmap(w)
              \/ Doing(w, "free_unit") /\ FreeUnit(w)
              \/ Doing(w, "set_pool") /\ SetPool(w)
              \/ Doing(w, "destroy") /\ Destroy(w)
           /\ UNCHANGED callVars

Next == \E w \in Workers : Call(w) \/ Step(w)

Spec == Init /\ [][Next]_vars

-----------------------------------------------------------------------------
(* Properties.                                                               *)

Holding == UNION {held[w] : w \in Workers}

\* The thread behind a handle that is in a pool, or was just popped from one:
\* a thread that is still held may keep a handle that it has given back.
Behind(u) == CHOOSE t \in Threads : thr[t].unit = u /\ t \notin Holding

Walk(p) == LET At[i \in 1..que[p].num] ==
                 IF i = 1 THEN que[p].head ELSE thr[At[i - 1]].next
           IN At

Content == [p \in Pools |->
              IF p \in Builtin THEN Walk(p)
              ELSE [i \in DOMAIN outside[p] |-> Behind(outside[p][i])]]

Popped(w) == IF Doing(w, "find") /\ Arg(w, 4) = Null THEN {Behind(Arg(w, 2))} ELSE {}

Abstract == INSTANCE AbtPoolSpec
              WITH order <- [p \in Pools |-> IF p \in Randws THEN "deque" ELSE "fifo"],
                   content <- Content,
                   held <- [w \in Workers |-> held[w] \cup Popped(w)]

\* Whatever the interleaving, the pools behave as queues: a unit that is
\* pushed is handed out once, in the order of its pool, whether it is reached
\* by the links of the ring or by the handle of a user-defined pool.
ImplementsPool == Abstract!Spec

\* A pool whose lock is free is a closed ring both ways, which ends at p_head
\* and p_tail, and the flag that pop() reads without the lock is exact.
RingClosed ==
  \A p \in Builtin :
    LET q == que[p] s == Walk(p)
    IN /\ q.empty <=> q.num = 0
       /\ q.num > 0 => /\ q.head = s[1] /\ q.tail = s[q.num]
                       /\ thr[q.tail].next = q.head
                       /\ \A i \in 1..q.num : thr[thr[s[i]].next].prev = s[i]
       /\ {t \in Threads : thr[t].in /\ thr[t].pool = p} = ToSet(s)

\* A unit never lies in a FIFO_WAIT pool behind the back of a sleeping
\* worker: when the mutex is free and somebody sleeps, workers that were woken
\* and have not looked yet are as many as the units.
NoLostWakeup ==
  \A p \in Builtin :
    asleep # {} /\ que[p].lock = Null =>
      que[p].num <= Cardinality({w \in Workers \ asleep : Doing(w, "relock")})

\* A handle in a pool has one element in the hash table, and it is its own:
\* the lock-free walk and unmap() find it, whoever reuses handles and elements.
HandlesResolve ==
  /\ \A w \in Workers : /\ Doing(w, "find") => Arg(w, 3) # 0
                        /\ Doing(w, "unmap") => \E i \in DOMAIN table :
                                                  table[i].unit = Arg(w, 2)
  /\ \A p \in Pools \ Builtin : \A u \in ToSet(outside[p]) :
       {table[i].thread : i \in {j \in DOMAIN table : table[j].unit = u}} = {Behind(u)}
=============================================================================
