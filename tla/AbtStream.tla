------------------------------ MODULE AbtStream ------------------------------
(***************************************************************************)
(* Execution streams of Argobots: the OS thread of a stream, its root ULT, *)
(* its main scheduler, and the calls that create, join, cancel, revive and *)
(* free a stream or replace its scheduler while it runs (stream.c,         *)
(* arch/abtd_stream.c, sched/, the root and main-scheduler functions of    *)
(* thread.c, and the end of global.c).                                     *)
(*                                                                         *)
(* at[s] is where the OS thread of stream s stands, a tuple whose first    *)
(* element names the place.  Work units run one call of their program at a *)
(* time; how they switch contexts is the subject of AbtThread.             *)
(***************************************************************************)
EXTENDS Integers, Sequences, SequencesExt, FiniteSets

CONSTANTS
    Xstream,    \* execution streams
    Primary,    \* the stream ABT_init() makes of its caller
    Sched,      \* schedulers
    Kind,       \* Kind[x]: "basic", "basic_wait", "prio" or "randws"
    Pools,      \* Pools[x]: the pools of scheduler x, in scan order
    Automatic,  \* schedulers and pools freed by the runtime
    Pool,       \* pools
    Unit,       \* work units
    Ext,        \* external threads
    EventFreq,  \* sched_event_freq
    Scenarios,  \* records [prog, main, pools]: see Init
    None

Agent == Unit \union Ext

StreamAssumption ==
    /\ Primary \in Xstream
    /\ Pools \in [Sched -> Seq(Pool) \ {<<>>}]
    /\ EventFreq \in Nat \ {0}
    /\ \A c \in Scenarios : DOMAIN c.prog \subseteq Agent

VARIABLES
    prog,    \* the calls an agent still has to make
    call,    \* how far the call an external thread is making has come
    unit,    \* [state, pool] of a work unit
    pool,    \* [queue, num_scheds, num_blocked, live] of a pool
    sched,   \* [used, request, rep, waiter, live] of a scheduler
    xs,      \* [state, main, ctx] of a stream
    main,    \* [state, request] of the ULT of a stream's main scheduler
    at,      \* where the OS thread of a stream is
    count,   \* pop_count or work_count of the scheduler's loop
    due,     \* units a join of the stream must not leave behind
    failed   \* an ABTI_ASSERT that failed, or a freed object in use

vars == <<prog, call, unit, pool, sched, xs, main, at, count, due, failed>>

----------------------------------------------------------------------------
(* Pools and schedulers as values, so that a handler can chain them.       *)

Served(x) == {Pools[x][i] : i \in DOMAIN Pools[x]}

\* ABTI_pool_push(): the unit goes to the end of its pool's queue.
Push(P, u, p) == [P EXCEPT ![p].queue = Append(@, u)]

\* ABTI_ythread_resume_and_push() of a blocked unit, by the stream itself.
ResumeAndPush(P, u, p) == [Push(P, u, p) EXCEPT ![p].num_blocked = @ - 1]

\* Mutant: an automatic pool goes with the first scheduler that is freed.
MutRelease(P, x, force) ==
    [p \in Pool |->
        IF p \notin Served(x) THEN P[p]
        ELSE [P[p] EXCEPT !.num_scheds = @ - 1,
                          !.live = @ /\ ~(force \/ p \in Automatic)]]

\* ABTI_sched_free() releases them; the last one out frees an automatic pool.
Release(P, x, force) ==
    [p \in Pool |->
        IF p \notin Served(x) THEN P[p]
        ELSE [P[p] EXCEPT
                 !.num_scheds = @ - 1,
                 !.live = @ /\ ~(force \/ (p \in Automatic
                                           /\ P[p].num_scheds = 1))]]

Discards(x, force) == x \in Automatic \/ force

\* ABTI_sched_discard_and_free(): the scheduler is free for other uses, and
\* freed with its pools if the runtime owns it.
DiscardSched(S, x, force) ==
    [S EXCEPT ![x].used = "NOT_USED", ![x].live = ~Discards(x, force)]

DiscardPools(P, x, force) ==
    IF Discards(x, force) THEN Release(P, x, force) ELSE P

Init ==
    \E c \in Scenarios :
        /\ prog = [a \in Agent |-> IF a \in DOMAIN c.prog THEN c.prog[a]
                                   ELSE <<>>]
        /\ call = [a \in Ext |-> <<"idle">>]
        /\ pool = [p \in Pool |->
               [queue |-> IF p \in DOMAIN c.pools THEN c.pools[p] ELSE <<>>,
                num_scheds |-> Cardinality({x \in Sched : p \in Served(x)}),
                num_blocked |-> 0, live |-> TRUE]]
        /\ unit = [u \in Unit |->
               LET home == {p \in DOMAIN c.pools : Contains(c.pools[p], u)}
               IN  IF home = {} THEN [state |-> "UNUSED", pool |-> None]
                   ELSE [state |-> "READY",
                         pool |-> CHOOSE p \in home : TRUE]]
        /\ sched = [x \in Sched |->
               [used |-> IF \E s \in DOMAIN c.main : c.main[s] = x
                         THEN "MAIN" ELSE "NOT_USED",
                request |-> {}, rep |-> None, waiter |-> None, live |-> TRUE]]
        /\ xs = [s \in Xstream |->
               IF s \in DOMAIN c.main
               THEN [state |-> "RUNNING", main |-> c.main[s], ctx |-> "RUNNING"]
               ELSE [state |-> "UNUSED", main |-> None, ctx |-> "UNINIT"]]
        /\ main = [s \in Xstream |->
               [state |-> IF s \in DOMAIN c.main THEN "READY" ELSE "UNUSED",
                request |-> {}]]
        /\ at = [s \in Xstream |-> IF s \in DOMAIN c.main THEN <<"root">>
                                   ELSE <<"none">>]
        /\ count = [s \in Xstream |-> 0]
        /\ due = [s \in Xstream |-> {}]
        /\ failed = {}

----------------------------------------------------------------------------
(* The OS thread of a stream.                                              *)

Goto(s, l) == at' = [at EXCEPT ![s] = l]

Sch(s) == sched[xs[s].main]

Req(s, r) == r \in Sch(s).request

PoolAt(s, i) == Pools[xs[s].main][i]

LastPool(s) == Len(Pools[xs[s].main])

SchedKind(s) == Kind[xs[s].main]

\* thread_root_func() pops the root pool, where only the main scheduler's
\* ULT ever is, and runs it unless it was cancelled before.
RootPop(s) ==
    /\ at[s][1] = "root"
    /\ IF main[s].state # "READY" THEN Goto(s, <<"rootcheck">>) /\ UNCHANGED main
       ELSE IF "CANCEL" \in main[s].request
       THEN /\ main' = [main EXCEPT ![s].state = "TERMINATED"]
            /\ Goto(s, <<"rootcheck">>)
       ELSE /\ main' = [main EXCEPT ![s].state = "RUNNING"]
            /\ Goto(s, <<"run">>)
    /\ UNCHANGED <<prog, call, unit, pool, sched, xs, count, due, failed>>

\* ... until that ULT has terminated; then the stream has, too.
RootCheck(s) ==
    /\ at[s][1] = "rootcheck"
    /\ IF main[s].state # "TERMINATED" THEN Goto(s, <<"root">>) /\ UNCHANGED xs
       ELSE /\ xs' = [xs EXCEPT ![s].state = "TERMINATED"]
            /\ Goto(s, IF s = Primary THEN <<"primary">> ELSE <<"ended">>)
    /\ UNCHANGED <<prog, call, unit, pool, sched, main, count, due, failed>>

\* xstream_context_thread_func(): wake a joiner up and sleep.
ContextWait(s) ==
    /\ at[s][1] = "ended"
    /\ xs' = [xs EXCEPT ![s].ctx = "WAITING"]
    /\ Goto(s, <<"asleep">>)
    /\ UNCHANGED <<prog, call, unit, pool, sched, main, count, due, failed>>

\* ... until the context is freed or revived.
ContextWake(s) ==
    /\ at[s][1] = "asleep" /\ xs[s].ctx # "WAITING"
    /\ Goto(s, IF xs[s].ctx = "REQ_TERMINATE" THEN <<"none">> ELSE <<"root">>)
    /\ UNCHANGED <<prog, call, unit, pool, sched, xs, main, count, due, failed>>

\* thread_main_sched_func() enters the scheduler's run function.
RunSched(s) ==
    /\ at[s][1] = "run"
    /\ count' = [count EXCEPT ![s] = 0]
    /\ Goto(s, <<"pop", 1>>)
    /\ UNCHANGED <<prog, call, unit, pool, sched, xs, main, due, failed>>

\* The scheduler takes the unit at the head of pool p and runs it.
Take(s, p, how) ==
    LET u == Head(pool[p].queue)
    IN  /\ pool' = [pool EXCEPT ![p].queue = Tail(@)]
        /\ unit' = [unit EXCEPT ![u].state = "RUNNING"]
        /\ Goto(s, <<"unit", u, how>>)

\* Where the scan goes after an empty pool: the next one, or, in randws, one
\* of the others to steal from.
NextPool(s, i) ==
    IF SchedKind(s) = "randws" THEN IF i = 1 THEN 2..LastPool(s) ELSE {}
    ELSE {i + 1} \intersect DOMAIN Pools[xs[s].main]

\* One ABTI_pool_pop() of the run functions' scan.
Pop(s) ==
    /\ at[s][1] = "pop"
    /\ LET i == at[s][2]
           p == PoolAt(s, i)
       IN  /\ count' = [count EXCEPT ![s] =
                            IF SchedKind(s) = "basic" THEN @ + 1 ELSE @]
           /\ IF pool[p].queue # <<>> THEN Take(s, p, "scan")
              ELSE /\ IF NextPool(s, i) # {}
                      THEN \E j \in NextPool(s, i) : Goto(s, <<"pop", j>>)
                      ELSE Goto(s, IF SchedKind(s) = "basic_wait"
                                   THEN <<"wait">> ELSE <<"round">>)
                   /\ UNCHANGED <<pool, unit>>
    /\ UNCHANGED <<prog, call, sched, xs, main, due, failed>>

\* basic_wait.c: nothing was found, so wait in the first pool; after 0.1 s
\* events are checked whatever the count.
PopWait(s) ==
    /\ at[s][1] = "wait"
    /\ LET p == PoolAt(s, 1)
       IN  IF pool[p].queue # <<>> THEN Take(s, p, "wait")
           ELSE Goto(s, <<"events">>) /\ UNCHANGED <<pool, unit>>
    /\ UNCHANGED <<prog, call, sched, xs, main, count, due, failed>>

\* The end of a round: events are checked every EventFreq of them.
Round(s) ==
    /\ at[s][1] = "round"
    /\ LET n == IF SchedKind(s) = "basic" THEN count[s] ELSE count[s] + 1
       IN  /\ count' = [count EXCEPT ![s] = IF n >= EventFreq THEN 0 ELSE n]
           /\ Goto(s, IF n >= EventFreq THEN <<"events">> ELSE <<"pop", 1>>)
    /\ UNCHANGED <<prog, call, unit, pool, sched, xs, main, due, failed>>

\* ABTI_xstream_check_events(), then the exit test of has_to_stop().
CheckEvents(s) ==
    /\ at[s][1] = "events"
    /\ LET req == Sch(s).request
                  \union (IF "JOIN" \in main[s].request THEN {"FINISH"} ELSE {})
                  \union (IF "CANCEL" \in main[s].request THEN {"EXIT"} ELSE {})
       IN  /\ sched' = [sched EXCEPT ![xs[s].main].request = req]
           /\ Goto(s, IF "EXIT" \in req THEN <<"after">>
                      ELSE <<"scan", 1, 1, "queue">>)
    /\ UNCHANGED <<prog, call, unit, pool, xs, main, count, due, failed>>

\* ABTI_sched_has_unit() found a unit, in has_to_stop() or, as its third
\* caller, in thread_main_sched_func().
HasUnit(s, pass) == Goto(s, IF pass = 3 THEN <<"run">> ELSE <<"pop", 1>>)

\* It found none.  has_to_stop() reads the request and looks again.
HasNoUnit(s, pass) ==
    Goto(s, CASE pass = 1 -> IF Req(s, "FINISH") \/ Req(s, "REPLACE")
                             THEN <<"scan", 2, 1, "queue">>
                             ELSE IF Sch(s).used = "IN_POOL" THEN <<"after">>
                             ELSE <<"pop", 1>>
              [] pass = 2 -> <<"after">>
              [] pass = 3 -> <<"end">>)

\* ABTI_sched_has_unit() asks pool after pool whether it is empty ...
ScanQueue(s) ==
    /\ at[s][1] = "scan" /\ at[s][4] = "queue"
    /\ IF pool[PoolAt(s, at[s][3])].queue # <<>> THEN HasUnit(s, at[s][2])
       ELSE Goto(s, [at[s] EXCEPT ![4] = "blocked"])
    /\ UNCHANGED <<prog, call, unit, pool, sched, xs, main, count, due, failed>>

\* Mutant: blocked units are not counted.
MutScanBlocked(s) ==
    /\ at[s][1] = "scan" /\ at[s][4] = "blocked"
    /\ IF at[s][3] < LastPool(s)
       THEN Goto(s, <<"scan", at[s][2], at[s][3] + 1, "queue">>)
       ELSE HasNoUnit(s, at[s][2])
    /\ UNCHANGED <<prog, call, unit, pool, sched, xs, main, count, due, failed>>

\* ... and, if this scheduler is the pool's only one, how many units will
\* come back to it.
ScanBlocked(s) ==
    /\ at[s][1] = "scan" /\ at[s][4] = "blocked"
    /\ LET i == at[s][3]
           p == pool[PoolAt(s, i)]
       IN  IF p.num_scheds = 1 /\ p.num_blocked # 0 THEN HasUnit(s, at[s][2])
           ELSE IF i < LastPool(s)
           THEN Goto(s, <<"scan", at[s][2], i + 1, "queue">>)
           ELSE HasNoUnit(s, at[s][2])
    /\ UNCHANGED <<prog, call, unit, pool, sched, xs, main, count, due, failed>>

\* thread_main_sched_func() after the run function: a requested replacement
\* happens, the waiter is pushed and the old scheduler discarded.
AfterRun(s) ==
    /\ at[s][1] = "after"
    /\ LET x == xs[s].main
           y == sched[x].rep
           w == sched[x].waiter
       IN  IF ~Req(s, "REPLACE")
           THEN UNCHANGED <<sched, pool, unit, xs, failed>>
           ELSE /\ sched' = DiscardSched([sched EXCEPT ![y].used = "MAIN"],
                                         x, FALSE)
                /\ xs' = [xs EXCEPT ![s].main = y]
                /\ pool' = ResumeAndPush(DiscardPools(pool, x, FALSE), w,
                                         unit[w].pool)
                /\ unit' = [unit EXCEPT ![w].state = "READY"]
                /\ failed' = IF pool'[unit[w].pool].live THEN failed
                             ELSE failed \union {"push to a freed pool"}
    /\ Goto(s, <<"requests">>)
    /\ UNCHANGED <<prog, call, main, count, due>>

\* ... and the ULT ends when it is cancelled, or asked to finish with no
\* unit left.
MainRequests(s) ==
    /\ at[s][1] = "requests"
    /\ Goto(s, IF "CANCEL" \in main[s].request THEN <<"end">>
               ELSE IF Req(s, "FINISH") THEN <<"scan", 3, 1, "queue">>
               ELSE <<"run">>)
    /\ UNCHANGED <<prog, call, unit, pool, sched, xs, main, count, due, failed>>

MainEnd(s) ==
    /\ at[s][1] = "end"
    /\ main' = [main EXCEPT ![s].state = "TERMINATED"]
    /\ Goto(s, <<"rootcheck">>)
    /\ UNCHANGED <<prog, call, unit, pool, sched, xs, count, due, failed>>

----------------------------------------------------------------------------
(* What a work unit does on stream s.                                      *)

Running(s, u) == at[s][1] = "unit" /\ at[s][2] = u

Does(s, u, op) == Running(s, u) /\ prog[u] # <<>> /\ Head(prog[u])[1] = op

Arg(a, i) == Head(prog[a])[i]

Return(a) == prog' = [prog EXCEPT ![a] = Tail(@)]

\* ABTI_ythread_schedule() returns to the run function; the one of
\* basic_wait.c returns when the unit came from the waiting pop.
Back(s) == Goto(s, IF at[s][3] = "wait" THEN <<"after">> ELSE <<"round">>)

\* A unit is pushed to p, which must not have been freed.
PushFailures(P, p) == IF P[p].live THEN {} ELSE {"push to a freed pool"}

UnitYield(s, u) ==
    /\ Does(s, u, "yield")
    /\ unit' = [unit EXCEPT ![u].state = "READY"]
    /\ pool' = Push(pool, u, unit[u].pool)
    /\ failed' = failed \union PushFailures(pool, unit[u].pool)
    /\ Return(u) /\ Back(s)
    /\ UNCHANGED <<call, sched, xs, main, count, due>>

UnitBlock(s, u) ==
    /\ Does(s, u, "suspend")
    /\ unit' = [unit EXCEPT ![u].state = "BLOCKED"]
    /\ pool' = [pool EXCEPT ![unit[u].pool].num_blocked = @ + 1]
    /\ Return(u) /\ Back(s)
    /\ UNCHANGED <<call, sched, xs, main, count, due, failed>>

UnitEnd(s, u) ==
    /\ Running(s, u) /\ prog[u] = <<>>
    /\ unit' = [unit EXCEPT ![u].state = "TERMINATED"]
    /\ Back(s)
    /\ UNCHANGED <<prog, call, pool, sched, xs, main, count, due, failed>>

\* ABT_xstream_exit(): the main scheduler is cancelled, the caller ends.
XstreamExit(s, u) ==
    /\ Does(s, u, "xstream_exit")
    /\ IF s = Primary THEN Return(u) /\ UNCHANGED <<main, unit, at>>
       ELSE /\ main' = [main EXCEPT ![s].request = @ \union {"CANCEL"}]
            /\ unit' = [unit EXCEPT ![u].state = "TERMINATED"]
            /\ Back(s) /\ prog' = [prog EXCEPT ![u] = <<>>]
    /\ UNCHANGED <<call, pool, sched, xs, count, due, failed>>

\* The error returns of ABT_xstream_set_main_sched(): the stream runs
\* elsewhere, or the scheduler is in use.
SetRefused(s, t, y) ==
    (xs[t].state = "RUNNING" /\ s # t) \/ sched[y].used # "NOT_USED"

XstreamSetRefused(s, u) ==
    /\ Does(s, u, "set_sched") /\ SetRefused(s, Arg(u, 2), Arg(u, 3))
    /\ Return(u)
    /\ UNCHANGED <<call, unit, pool, sched, xs, main, at, count, due, failed>>

\* The pool a caller that belongs to scheduler x has under scheduler y.
HomeAfter(u, x, y) ==
    IF unit[u].pool \in Served(x) THEN Pools[y][1] ELSE unit[u].pool

\* xstream_update_main_sched() on the caller's own stream.  A replacement
\* still pending is discarded and its waiter resumed; the caller blocks
\* until the scheduler it asked for has taken over.
XstreamSetMainSched(s, u) ==
    /\ Does(s, u, "set_sched") /\ Arg(u, 2) = s
    /\ LET x == xs[s].main
           y == Arg(u, 3)
           z == sched[x].rep
           w == sched[x].waiter
           p == HomeAfter(u, x, y)
           S == IF z = None THEN sched ELSE DiscardSched(sched, z, FALSE)
           D == IF z = None THEN pool ELSE DiscardPools(pool, z, FALSE)
           P == IF z = None THEN D ELSE ResumeAndPush(D, w, unit[w].pool)
           U == IF z = None THEN unit ELSE [unit EXCEPT ![w].state = "READY"]
       IN  /\ ~SetRefused(s, s, y)
           /\ sched' = [S EXCEPT ![x].rep = y, ![x].waiter = u,
                                 ![x].request = @ \union {"REPLACE"}]
           /\ unit' = [U EXCEPT ![u] = [state |-> "BLOCKED", pool |-> p]]
           /\ pool' = [P EXCEPT ![p].num_blocked = @ + 1]
           /\ failed' = failed \union
                  (IF z = None THEN {} ELSE PushFailures(D, unit[w].pool))
    /\ Return(u) /\ Back(s)
    /\ UNCHANGED <<call, xs, main, count, due>>

\* xstream_update_main_sched() on a stream that sleeps.
XstreamSetOther(s, u) ==
    /\ Does(s, u, "set_sched") /\ Arg(u, 2) # s
    /\ LET t == Arg(u, 2)
           y == Arg(u, 3)
           x == xs[t].main
       IN  /\ ~SetRefused(s, t, y)
           /\ failed' = IF xs[t].ctx = "WAITING" THEN failed
                        ELSE failed \union {"ctx.state"}
           /\ sched' = DiscardSched([sched EXCEPT ![y].used = "MAIN"], x, FALSE)
           /\ pool' = DiscardPools(pool, x, FALSE)
           /\ xs' = [xs EXCEPT ![t].main = y]
    /\ Return(u)
    /\ UNCHANGED <<call, unit, main, at, count, due>>

\* Units a stream's scheduler alone can run, and still has to.
Outstanding(s) ==
    {u \in Unit : /\ unit[u].pool \in Served(xs[s].main)
                  /\ pool[unit[u].pool].num_scheds = 1
                  /\ unit[u].state \notin {"UNUSED", "TERMINATED"}}

\* ABT_finalize() by the primary ULT: the main scheduler is to finish, and
\* the caller leaves its pool to come back when the root ULT is done.
Finalize(s, u) ==
    /\ Does(s, u, "finalize") /\ s = Primary
    /\ sched' = [sched EXCEPT ![xs[s].main].request = @ \union {"FINISH"}]
    /\ unit' = [unit EXCEPT ![u] = [state |-> "ORPHAN", pool |-> None]]
    /\ due' = [due EXCEPT ![s] = Outstanding(s) \ {u}]
    /\ Return(u) /\ Back(s)
    /\ UNCHANGED <<call, pool, xs, main, count, failed>>

\* ABTI_ythread_exit_to_primary() and the rest of finailze_library(): the
\* primary stream is freed together with its scheduler and all its pools.
FinalizeDone(s) ==
    /\ at[s][1] = "primary"
    /\ sched' = DiscardSched(sched, xs[s].main, TRUE)
    /\ pool' = Release(pool, xs[s].main, TRUE)
    /\ xs' = [xs EXCEPT ![s].state = "FREED"]
    /\ main' = [main EXCEPT ![s].state = "UNUSED"]
    /\ unit' = [u \in Unit |-> IF unit[u].state = "ORPHAN"
                               THEN [unit[u] EXCEPT !.state = "TERMINATED"]
                               ELSE unit[u]]
    /\ Goto(s, <<"none">>)
    /\ UNCHANGED <<prog, call, count, due, failed>>

----------------------------------------------------------------------------
(* Calls of external threads.                                              *)

Calls(a, op) == prog[a] # <<>> /\ Head(prog[a])[1] = op /\ call[a] = <<"idle">>

\* Step l of the call a is making.
In(a, l) == prog[a] # <<>> /\ call[a] = <<l>>

Step(a, l) == call' = [call EXCEPT ![a] = <<l>>] /\ UNCHANGED prog

Done(a) == call' = [call EXCEPT ![a] = <<"idle">>] /\ Return(a)

\* ABT_thread_create().
Spawn(a) ==
    /\ Calls(a, "create")
    /\ LET u == Arg(a, 2)
           p == Arg(a, 3)
       IN  /\ unit' = [unit EXCEPT ![u] = [state |-> "READY", pool |-> p]]
           /\ pool' = Push(pool, u, p)
           /\ failed' = failed \union PushFailures(pool, p)
    /\ Done(a)
    /\ UNCHANGED <<sched, xs, main, at, count, due>>

\* ABT_thread_resume(): the unit is pushed first and uncounted second.
Resume(a) ==
    /\ Calls(a, "resume") /\ unit[Arg(a, 2)].state = "BLOCKED"
    /\ LET u == Arg(a, 2)
       IN  /\ unit' = [unit EXCEPT ![u].state = "READY"]
           /\ pool' = Push(pool, u, unit[u].pool)
           /\ failed' = failed \union PushFailures(pool, unit[u].pool)
           /\ call' = [call EXCEPT ![a] = <<"uncount", unit[u].pool>>]
    /\ UNCHANGED <<prog, sched, xs, main, at, count, due>>

Uncount(a) ==
    /\ call[a][1] = "uncount"
    /\ pool' = [pool EXCEPT ![call[a][2]].num_blocked = @ - 1]
    /\ Done(a)
    /\ UNCHANGED <<unit, sched, xs, main, at, count, due, failed>>

\* ABT_thread_join() of a unit.
Await(a) ==
    /\ Calls(a, "await") /\ unit[Arg(a, 2)].state = "TERMINATED"
    /\ Done(a)
    /\ UNCHANGED <<unit, pool, sched, xs, main, at, count, due, failed>>

\* ABT_xstream_create() of a stream with scheduler x.
XstreamCreate(a) ==
    /\ Calls(a, "xstream_create")
    /\ LET s == Arg(a, 2)
           x == Arg(a, 3)
       IN  IF sched[x].used # "NOT_USED" THEN UNCHANGED <<sched, xs, main, at>>
           ELSE /\ sched' = [sched EXCEPT ![x].used = "MAIN"]
                /\ xs' = [xs EXCEPT ![s] = [state |-> "RUNNING", main |-> x,
                                            ctx |-> "RUNNING"]]
                /\ main' = [main EXCEPT ![s] = [state |-> "READY",
                                                request |-> {}]]
                /\ at' = [at EXCEPT ![s] = <<"root">>]
    /\ Done(a)
    /\ UNCHANGED <<unit, pool, count, due, failed>>

XstreamCancel(a) ==
    /\ Calls(a, "cancel")
    /\ main' = [main EXCEPT ![Arg(a, 2)].request = @ \union {"CANCEL"}]
    /\ Done(a)
    /\ UNCHANGED <<unit, pool, sched, xs, at, count, due, failed>>

Joins(a) == Calls(a, "join") \/ Calls(a, "free")

\* xstream_join(), first the main scheduler is asked to finish ...
JoinFinish(a) ==
    /\ Joins(a)
    /\ LET s == Arg(a, 2)
       IN  /\ sched' = [sched EXCEPT ![xs[s].main].request = @ \union {"FINISH"}]
           /\ due' = [due EXCEPT ![s] = Outstanding(s)]
    /\ Step(a, "thread")
    /\ UNCHANGED <<unit, pool, xs, main, at, count, failed>>

\* ... then its ULT is joined: thread_join() leaves a request ...
JoinRequest(a) ==
    /\ In(a, "thread")
    /\ main' = [main EXCEPT ![Arg(a, 2)].request = @ \union {"JOIN"}]
    /\ Step(a, "ended")
    /\ UNCHANGED <<unit, pool, sched, xs, at, count, due, failed>>

\* ... and waits; then ABTD_xstream_context_join() waits for the OS thread
\* unless that sleeps already.
JoinContext(a) ==
    /\ In(a, "ended") /\ main[Arg(a, 2)].state = "TERMINATED"
    /\ LET s == Arg(a, 2)
       IN  IF xs[s].ctx = "WAITING" THEN UNCHANGED <<xs, failed>>
           ELSE /\ failed' = IF xs[s].ctx = "RUNNING" THEN failed
                             ELSE failed \union {"ctx.state"}
                /\ xs' = [xs EXCEPT ![s].ctx = "REQ_JOIN"]
    /\ Step(a, "context")
    /\ UNCHANGED <<unit, pool, sched, main, at, count, due>>

JoinReturn(a) ==
    /\ In(a, "context") /\ xs[Arg(a, 2)].ctx # "REQ_JOIN"
    /\ failed' = failed \union
           (IF xs[Arg(a, 2)].ctx = "WAITING" THEN {} ELSE {"ctx.state"})
           \union (IF xs[Arg(a, 2)].state = "TERMINATED" THEN {} ELSE {"state"})
    /\ IF Head(prog[a])[1] = "join" THEN Done(a) ELSE Step(a, "free")
    /\ UNCHANGED <<unit, pool, sched, xs, main, at, count, due>>

\* ABTI_xstream_free() after the join: the scheduler and its ULT go, and the
\* OS thread is told to end ...
XstreamFree(a) ==
    /\ In(a, "free")
    /\ LET s == Arg(a, 2)
       IN  /\ sched' = DiscardSched(sched, xs[s].main, FALSE)
           /\ pool' = DiscardPools(pool, xs[s].main, FALSE)
           /\ main' = [main EXCEPT ![s].state = "UNUSED"]
           /\ failed' = IF xs[s].ctx = "WAITING" THEN failed
                        ELSE failed \union {"ctx.state"}
           /\ xs' = [xs EXCEPT ![s].state = "FREED",
                               ![s].ctx = "REQ_TERMINATE"]
    /\ Step(a, "pthread_join")
    /\ UNCHANGED <<unit, at, count, due>>

\* ... which it has when the call returns.
XstreamFreed(a) ==
    /\ In(a, "pthread_join") /\ at[Arg(a, 2)][1] = "none"
    /\ Done(a)
    /\ UNCHANGED <<unit, pool, sched, xs, main, at, count, due, failed>>

\* ABT_xstream_revive(): the scheduler's ULT starts anew, then the OS thread.
XstreamRevive(a) ==
    /\ Calls(a, "revive")
    /\ LET s == Arg(a, 2)
       IN  IF main[s].state # "TERMINATED"
           THEN UNCHANGED <<sched, xs, main, due, failed>>
           ELSE /\ sched' = [sched EXCEPT ![xs[s].main].request = {}]
                /\ main' = [main EXCEPT ![s] = [state |-> "READY",
                                                request |-> {}]]
                /\ failed' = IF xs[s].ctx = "WAITING" THEN failed
                             ELSE failed \union {"ctx.state"}
                /\ xs' = [xs EXCEPT ![s].state = "RUNNING",
                                    ![s].ctx = "RUNNING"]
                /\ due' = [due EXCEPT ![s] = {}]
    /\ Done(a)
    /\ UNCHANGED <<unit, pool, at, count>>

----------------------------------------------------------------------------
StreamStep(s) ==
    \/ RootPop(s) \/ RootCheck(s) \/ ContextWait(s) \/ ContextWake(s)
    \/ RunSched(s) \/ Pop(s) \/ PopWait(s) \/ Round(s) \/ CheckEvents(s)
    \/ ScanQueue(s) \/ ScanBlocked(s)
    \/ AfterRun(s) \/ MainRequests(s) \/ MainEnd(s) \/ FinalizeDone(s)
    \/ \E u \in Unit :
           \/ UnitYield(s, u) \/ UnitBlock(s, u) \/ UnitEnd(s, u)
           \/ XstreamExit(s, u) \/ XstreamSetRefused(s, u)
           \/ XstreamSetMainSched(s, u) \/ XstreamSetOther(s, u)
           \/ Finalize(s, u)

ExtStep(a) ==
    \/ Spawn(a) \/ Resume(a) \/ Uncount(a) \/ Await(a) \/ XstreamCreate(a)
    \/ XstreamCancel(a) \/ XstreamRevive(a)
    \/ JoinFinish(a) \/ JoinRequest(a) \/ JoinContext(a) \/ JoinReturn(a)
    \/ XstreamFree(a) \/ XstreamFreed(a)

Next == (\E s \in Xstream : StreamStep(s)) \/ (\E a \in Ext : ExtStep(a))

Spec ==
    /\ Init /\ [][Next]_vars
    /\ \A s \in Xstream : WF_vars(StreamStep(s))
    /\ \A a \in Ext : WF_vars(ExtStep(a))

----------------------------------------------------------------------------
(* Properties.                                                             *)

\* A stream that ended because it was joined (or, the primary one, because
\* of ABT_finalize()), not cancelled, left no unit behind that only it could
\* run: neither in a pool nor blocked nor on its way from the one to the
\* other while ABTI_sched_has_unit() looked.
JoinDrains ==
    \A s \in Xstream :
        xs[s].state \in {"TERMINATED", "FREED"}
            /\ "CANCEL" \notin main[s].request
        => \A u \in due[s] : unit[u].state \in {"TERMINATED", "ORPHAN"}

\* No assertion of stream.c and abtd_stream.c on the state of a stream or of
\* its OS thread fails, and no unit is pushed to a pool that was freed.
NoFailure == failed = {}

\* The main scheduler of a stream that runs is alive, in use as a main
\* scheduler by that stream only, and so are its pools, each counting the
\* schedulers that still serve it.
SchedulerOwned ==
    /\ \A s \in Xstream : xs[s].state = "RUNNING" =>
           /\ Sch(s).live /\ Sch(s).used = "MAIN"
           /\ \A p \in Served(xs[s].main) : pool[p].live
           /\ \A t \in Xstream \ {s} : xs[t].state \in {"RUNNING", "TERMINATED"}
                                       => xs[t].main # xs[s].main
    /\ \A p \in Pool : pool[p].num_scheds =
           Cardinality({x \in Sched : sched[x].live /\ p \in Served(x)})

AllEnded ==
    /\ \A a \in Ext : prog[a] = <<>>
    /\ \/ \E s \in Xstream : "CANCEL" \in main[s].request
       \/ \A u \in Unit : unit[u].state \in {"UNUSED", "TERMINATED"}

\* Every call returns: a join, whatever replaces the scheduler meanwhile, a
\* free, and ABT_finalize(); and every unit that no cancelled stream was to
\* run is done.
EverythingEnds == <>[]AllEnded
=============================================================================
