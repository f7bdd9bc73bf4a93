------------------------------ MODULE AbtAtomic -------------------------------
(***************************************************************************)
(* The atomic operations of Argobots (include/abtd_atomic.h) under the     *)
(* C11 memory model, and the protocols that Argobots builds from them:     *)
(* the spinlock (abtd_spinlock.h), publication of a table and its entries  *)
(* (abti_key.h), the join handshake (thread.c, abti_ythread.h), requests   *)
(* (abti_thread.h), reference counts (abti_pool.h), the waitlist's futex   *)
(* and the check of a queue without its lock (thread_queue.h).  The other  *)
(* modules take these operations as sequentially consistent; here it is    *)
(* shown why that is allowed.                                              *)
(*                                                                         *)
(* A location has a history of messages; a thread has a view, the oldest   *)
(* message of every location that it may still read.  Release attaches the *)
(* view of the writer to the message, acquire takes it over.  A plain      *)
(* access must see the last write, and a plain write every access before,  *)
(* or it is a race, which C leaves undefined.  A location is written by    *)
(* one thread at a time in these protocols, so a store goes to the end of  *)
(* the history.                                                            *)
(*                                                                         *)
(* A protocol is a program for each thread: a sequence of instructions     *)
(* that jump on the value they return.                                     *)
(***************************************************************************)
EXTENDS Integers, Sequences, TLC

CONSTANTS t1, t2, t3,   \* the threads
          Protocols     \* names of the protocols to run

VARIABLES code,   \* thread -> its program
          pc,     \* thread -> position
          mem,    \* location -> history of [val, view]
          view,   \* thread -> location -> index of a message
          wrong   \* a race, use of freed memory, or a value that must not be

vars == <<code, pc, mem, view, wrong>>

Thread == {t1, t2, t3}
NULL == "NULL"
Start == [lock |-> FALSE, empty |-> TRUE, ptr |-> NULL, next |-> NULL, link |-> NULL,
          req |-> {}, pool |-> NULL, state |-> "BLOCKED", futex |-> 0, num |-> 1]
Plain == {"data", "item", "other"}
Atomic == DOMAIN Start
Run(a, b, c) == (t1 :> a) @@ (t2 :> b) @@ (t3 :> c)
\* The reads of a plain location by each thread, as locations.
Reads == [data |-> Run("data1", "data2", "data3"), item |-> Run("item1", "item2", "item3"),
          other |-> Run("other1", "other2", "other3")]
ReadsOf(l) == {Reads[l][t] : t \in Thread}
Location == Atomic \cup Plain \cup UNION {ReadsOf(l) : l \in Plain}

-----------------------------------------------------------------------------
(* Operations: the set of their outcomes.                                    *)

Ret(m, v, r) == [mem |-> m, view |-> v, ret |-> r, wrong |-> FALSE]

Later(a, b) == [l \in Location |-> IF a[l] > b[l] THEN a[l] ELSE b[l]]
Last(l) == Len(mem[l])
Visible(t, l) == view[t][l] .. Last(l)
\* The view of t when it has read message i of l.
See(t, l, i, acquire) ==
  LET v == [view[t] EXCEPT ![l] = i] IN IF acquire THEN Later(v, mem[l][i].view) ELSE v
None == [l \in Location |-> 1]

\* v is the view of t, which writes x to l; a read-modify-write hands on the
\* views of the message it replaces.
Put(t, l, x, v, release, r) ==
  LET w == [v EXCEPT ![l] = Last(l) + 1]
  IN Ret([mem EXCEPT ![l] = Append(@, [val |-> x, view |-> IF release THEN w ELSE None])],
         [view EXCEPT ![t] = w], r)

relaxed_load(t, l) ==
  {Ret(mem, [view EXCEPT ![t] = See(t, l, i, FALSE)], mem[l][i].val) : i \in Visible(t, l)}
\* Mutant: without ordering.
MutAcquireLoad(t, l) ==
  {Ret(mem, [view EXCEPT ![t] = See(t, l, i, FALSE)], mem[l][i].val) : i \in Visible(t, l)}

acquire_load(t, l) ==
  {Ret(mem, [view EXCEPT ![t] = See(t, l, i, TRUE)], mem[l][i].val) : i \in Visible(t, l)}
relaxed_store(t, l, x) == {Put(t, l, x, view[t], FALSE, x)}
release_store(t, l, x) == {Put(t, l, x, view[t], TRUE, x)}

\* ACQ_REL: the last message is replaced.
Update(t, l, x) == {Put(t, l, x, See(t, l, Last(l), TRUE), TRUE, mem[l][Last(l)].val)}
fetch_add(t, l, x) == Update(t, l, mem[l][Last(l)].val + x)
fetch_sub(t, l, x) == Update(t, l, mem[l][Last(l)].val - x)
fetch_or(t, l, x) == Update(t, l, mem[l][Last(l)].val \cup x)
fetch_and(t, l, x) == Update(t, l, mem[l][Last(l)].val \cap x)

\* ACQUIRE only, but the value it replaces may have been released.  Setting what
\* is set changes nothing.
test_and_set(t, l) ==
  LET m == mem[l][Last(l)] v == See(t, l, Last(l), TRUE)
  IN {IF m.val THEN Ret(mem, [view EXCEPT ![t] = v], TRUE)
      ELSE Ret([mem EXCEPT ![l] = Append(@, [val |-> TRUE, view |-> m.view])],
               [view EXCEPT ![t] = [v EXCEPT ![l] = Last(l) + 1]], FALSE)}
relaxed_clear(t, l) == relaxed_store(t, l, FALSE)
release_clear(t, l) == release_store(t, l, FALSE)

\* x = <<old, new>>.  A failure is an acquire load; only the weak form may fail
\* with the old value.
Cas(t, l, x, weak) ==
  LET seen(i) == mem[l][i].val
  IN {[Put(t, l, x[2], See(t, l, Last(l), TRUE), TRUE, x[1]) EXCEPT !.ret = <<TRUE, x[1]>>]
        : i \in {j \in {Last(l)} : seen(j) = x[1]}}
     \cup {Ret(mem, [view EXCEPT ![t] = See(t, l, i, TRUE)], <<FALSE, seen(i)>>)
             : i \in {j \in Visible(t, l) : weak \/ seen(j) # x[1]}}
bool_cas_weak(t, l, x) == {[o EXCEPT !.ret = @[1]] : o \in Cas(t, l, x, TRUE)}
bool_cas_strong(t, l, x) == {[o EXCEPT !.ret = @[1]] : o \in Cas(t, l, x, FALSE)}
val_cas_strong(t, l, x) == {[o EXCEPT !.ret = @[2]] : o \in Cas(t, l, x, FALSE)}

\* Plain accesses.  Memory that is freed or was never written may not be read.
read(t, l) ==
  LET r == Reads[l][t] x == mem[l][Last(l)].val
  IN {[Ret([mem EXCEPT ![r] = Append(@, [val |-> 0, view |-> None])],
           [view EXCEPT ![t][r] = Last(r) + 1], x)
         EXCEPT !.wrong = view[t][l] < Last(l) \/ x \in {"garbage", "freed"}]}
write(t, l, x) ==
  {[Put(t, l, x, view[t], FALSE, x) EXCEPT
      !.wrong = \/ mem[l][Last(l)].val = "freed"
                \/ \E k \in {l} \cup ReadsOf(l) : view[t][k] < Last(k)]}

-----------------------------------------------------------------------------
(* Programs.                                                                 *)

I(op, l, x) == [op |-> op, loc |-> l, arg |-> x, on |-> <<>>]
\* Jump by d when the instruction returns r.
On(i, r, d) == [i EXCEPT !.on = (r :> d) @@ @]
Load(l) == I("acquire_load", l, 0)
Store(l, x) == I("release_store", l, x)
Read(l) == I("read", l, 0)
Write(l, x) == I("write", l, x)
Never == I("never", NULL, 0)   \* a failing assertion, or NULL is followed

Outcomes(t, i) ==
  CASE i.op = "relaxed_load" -> relaxed_load(t, i.loc)
    [] i.op = "acquire_load" -> acquire_load(t, i.loc)
    [] i.op = "relaxed_store" -> relaxed_store(t, i.loc, i.arg)
    [] i.op = "release_store" -> release_store(t, i.loc, i.arg)
    [] i.op = "test_and_set" -> test_and_set(t, i.loc)
    [] i.op = "relaxed_clear" -> relaxed_clear(t, i.loc)
    [] i.op = "release_clear" -> release_clear(t, i.loc)
    [] i.op = "fetch_add" -> fetch_add(t, i.loc, i.arg)
    [] i.op = "fetch_sub" -> fetch_sub(t, i.loc, i.arg)
    [] i.op = "fetch_or" -> fetch_or(t, i.loc, i.arg)
    [] i.op = "fetch_and" -> fetch_and(t, i.loc, i.arg)
    [] i.op = "bool_cas_weak" -> bool_cas_weak(t, i.loc, i.arg)
    [] i.op = "bool_cas_strong" -> bool_cas_strong(t, i.loc, i.arg)
    [] i.op = "val_cas_strong" -> val_cas_strong(t, i.loc, i.arg)
    [] i.op = "read" -> read(t, i.loc)
    [] i.op = "write" -> write(t, i.loc, i.arg)
    [] i.op = "never" -> {[Ret(mem, view, 0) EXCEPT !.wrong = TRUE]}

\* abtd_spinlock.h
spinlock_acquire == <<On(I("test_and_set", "lock", 0), FALSE, 2),
                      On(On(Load("lock"), TRUE, 0), FALSE, -1)>>
\* On failure the next n instructions are skipped.
spinlock_try_acquire(n) == <<On(I("test_and_set", "lock", 0), TRUE, n + 1)>>
spinlock_release == <<I("release_clear", "lock", 0)>>
spinlock_clear == I("relaxed_clear", "lock", 0)

Critical == <<Read("data"), Write("data", "new")>>

\* ABTI_ktable_set() of a key whose list is empty: the table is "data", its
\* entry "item" or "other", the head of its list head.
ktable_set(head, item) ==
  <<On(Load("ptr"), "table", 9),
    On(I("bool_cas_weak", "ptr", <<NULL, "LOCKED">>), FALSE, 6),
    \* ABTI_ktable_create()
    Write("data", "table"), spinlock_clear,
    I("relaxed_store", "next", NULL), I("relaxed_store", "link", NULL),
    On(Store("ptr", "table"), "table", 3),
    On(On(Load("ptr"), NULL, -6), "table", 2), On(Load("ptr"), "LOCKED", 0),
    Read("data"), Load(head)>>
  \o spinlock_acquire
  \o <<Load(head), Write(item, "entry"), Store(head, item)>>
  \o spinlock_release

\* ABTI_ktable_get()
ktable_get(head, item) ==
  <<On(On(Load("ptr"), NULL, 4), "LOCKED", 4), Read("data"), On(Load(head), NULL, 2), Read(item)>>

\* thread_join_futexwait(): "item" is dummy_ythread, in a frame that ends, "data"
\* the work unit, freed after the join.
join_futexwait ==
  <<On(I("fetch_or", "req", {"JOIN"}), {"JOIN"}, 5),
    Write("item", "dummy"), Store("link", "joiner"),
    On(Load("futex"), 0, 0),   \* ABTD_futex_suspend()
    Write("item", "freed"),
    On(Load("state"), "BLOCKED", 0), Write("data", "freed")>>

\* ABTI_ythread_resume_joiner() and the end of the work unit.
terminate ==
  <<Write("data", "used"),
    On(Load("link"), "joiner", 3),
    On(I("fetch_or", "req", {"JOIN"}), {}, 6),
    On(Load("link"), NULL, 0),
    Read("item"),
    On(I("relaxed_load", "futex", 0), 0, 2), Never, Store("futex", 1),   \* ABTD_futex_resume()
    Write("data", "ended"), Store("state", "TERMINATED")>>

\* thread_migrate_to_pool() and the handling of requests, which must not change
\* to the NULL pool.  A cancelled unit does not migrate.
migrate_to_pool == <<I("relaxed_store", "pool", "p1"), I("fetch_or", "req", {"MIGRATE"})>>
set_request_cancel == <<I("fetch_or", "req", {"CANCEL"})>>
handle_request ==
  <<On(On(On(Load("req"), {}, 4), {"CANCEL"}, 8), {"CANCEL", "MIGRATE"}, 8),
    On(I("relaxed_load", "pool", 0), "p1", 2), Never,
    I("fetch_and", "req", {"CANCEL", "JOIN"})>>

\* ABTI_sched_free(): ABTI_pool_release(), then p_pool->automatic is looked at
\* and the pool ("data") freed by the one that released it last.
sched_free ==
  <<On(Load("num"), 0, 2), On(On(I("fetch_sub", "num", 1), 2, 4), 3, 4), Never,
    Read("data"), On(Write("data", "freed"), "freed", 2),
    Read("data")>>

\* A blocked ULT is pushed, and then not counted any more;
\* ABTI_sched_has_unit(), called twice by ABTI_sched_has_to_stop(), must not miss
\* it.  ABT_thread_yield_to() counts its caller as blocked until it is pushed.
resume_and_push == <<Store("empty", FALSE), I("fetch_sub", "num", 1)>>
yield_to == <<I("fetch_add", "num", 1)>> \o resume_and_push
has_to_stop ==
  <<On(Load("empty"), FALSE, 5), On(On(Load("num"), 1, 4), 2, 4),
    On(Load("empty"), FALSE, 3), On(On(Load("num"), 1, 2), 2, 2), Never>>

\* ABT_eventual_wait() of an external thread and ABT_eventual_set(): "data" is
\* the eventual, "item" the value.
eventual_wait ==
  spinlock_acquire
  \o <<On(Read("data"), "ready", 11), Write("data", "waiter"),
       \* ABTI_waitlist_wait_and_unlock(); a later value of the futex would be
       \* waited on for ever
       On(I("relaxed_load", "state", 0), "READY", 9), On(I("relaxed_load", "futex", 0), 1, 7),
       I("release_clear", "lock", 0), On(I("relaxed_load", "futex", 0), 0, 0),
       On(Load("state"), "READY", 6)>>
  \o spinlock_acquire
  \o <<On(On(I("relaxed_load", "state", 0), "READY", 2), "BLOCKED", -6), Never>>
  \o spinlock_release \o <<Read("item")>>
eventual_set ==
  spinlock_acquire
  \o <<Write("item", "value"), On(Read("data"), "init", 4),
       \* ABTI_waitlist_broadcast(): the state first, then ABTD_futex_broadcast()
       Store("state", "READY"), I("relaxed_load", "futex", 0), I("relaxed_store", "futex", 1),
       Write("data", "ready")>>
  \o spinlock_release

\* thread_queue_acquire_spinlock_if_not_empty(), then a push or a pop.
queue_push ==
  spinlock_acquire \o <<Read("data"), Write("data", "full"), Store("empty", FALSE)>>
  \o spinlock_release
queue_pop ==
  <<On(Load("empty"), TRUE, 8), On(I("test_and_set", "lock", 0), FALSE, 3),
    On(Load("empty"), TRUE, 6), On(On(Load("lock"), TRUE, -1), FALSE, -2),
    On(Read("data"), "init", 3), Write("data", "init"), Store("empty", TRUE)>>
  \o spinlock_release

\* ABTD_futex_suspend() and ABTD_futex_resume() on a condition variable; "item"
\* is sync_obj, in a frame that ends, and "lock" its mutex.
futex_suspend ==
  <<On(Load("ptr"), "done", 13), Write("item", "sync_obj")>>
  \o spinlock_acquire
  \o <<On(I("bool_cas_strong", "ptr", <<NULL, "sync_obj">>), FALSE, 7),
       On(I("relaxed_load", "state", 0), "READY", 6),
       \* pthread_cond_wait() until the signal
       I("release_clear", "lock", 0), On(I("relaxed_load", "futex", 0), 0, 0)>>
  \o spinlock_acquire
  \o <<On(On(I("relaxed_load", "state", 0), "READY", 1), "BLOCKED", -4)>>
  \o spinlock_release \o <<Write("item", "freed"), Read("data")>>
futex_resume ==
  <<Write("data", "result"),
    On(Load("ptr"), "sync_obj", 2),
    On(I("val_cas_strong", "ptr", <<NULL, "done">>), NULL, 7)>>
  \o spinlock_acquire
  \o <<Read("item"), I("relaxed_store", "state", "READY"),
       I("relaxed_store", "futex", 1), I("release_clear", "lock", 0)>>

Locked(p) == p \o Critical \o spinlock_release
\* The programs of a protocol, and the plain locations that are not initialised.
Programs(p) ==
  CASE p = "lock" -> <<Run(Locked(spinlock_acquire), Locked(spinlock_try_acquire(3)),
                           Locked(spinlock_acquire)), {}>>
    [] p = "table" -> <<Run(ktable_set("next", "item"), ktable_set("link", "other"),
                            ktable_get("next", "item")), Plain>>
    [] p = "join" -> <<Run(join_futexwait, terminate, <<>>), {"item"}>>
    [] p = "migrate" -> <<Run(migrate_to_pool, handle_request \o handle_request,
                              set_request_cancel), {}>>
    [] p = "blocked" -> <<Run(resume_and_push, has_to_stop, yield_to), {}>>
    [] p = "wait" -> <<Run(eventual_wait, eventual_set, <<>>), {"item"}>>
    [] p = "queue" -> <<Run(queue_push, queue_pop, queue_pop), {}>>
    [] p = "suspend" -> <<Run(futex_suspend, futex_resume, <<>>), {"item"}>>
    [] p = "free" -> <<Run(sched_free, sched_free, sched_free), {}>>

-----------------------------------------------------------------------------

Init == \E p \in Protocols :
  /\ code = Programs(p)[1] /\ pc = [t \in Thread |-> 1]
  /\ view = [t \in Thread |-> [l \in Location |-> 1]]
  /\ mem = [l \in Location |->
              <<[val |-> IF l \in Atomic THEN IF l = "num" /\ p = "free" THEN 3 ELSE Start[l]
                         ELSE IF l \in Programs(p)[2] THEN "garbage" ELSE "init",
                 view |-> None]>>]
  /\ wrong = FALSE

Step(t) ==
  /\ ~wrong /\ pc[t] <= Len(code[t])
  /\ LET i == code[t][pc[t]] IN \E o \in Outcomes(t, i) :
       /\ mem' = o.mem /\ view' = o.view /\ wrong' = o.wrong
       /\ pc' = [pc EXCEPT ![t] = @ + IF o.ret \in DOMAIN i.on THEN i.on[o.ret] ELSE 1]
  /\ UNCHANGED code

Next == \E t \in Thread : Step(t)

Spec == Init /\ [][Next]_vars

-----------------------------------------------------------------------------
(* Properties.                                                               *)

\* The orders of the atomic operations are enough for the protocols of the
\* source: whatever old values the loads return, no plain access races with
\* another, nothing is used after it is freed or before it is written (a key
\* table and its entries, the frame of a joiner, the value of an eventual), no
\* assertion fails and no ULT is missed.
WellOrdered == ~wrong
=============================================================================
