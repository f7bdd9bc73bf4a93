------------------------------ MODULE AbtThread ------------------------------
(***************************************************************************)
(* Work units of Argobots: user-level threads (ULTs) and tasklets, the     *)
(* execution streams that run them and the external threads that create,   *)
(* join and resume them (thread.c, ythread.c, self.c, task.c and the       *)
(* headers abti_ythread.h, abti_thread.h).                                 *)
(*                                                                         *)
(* An execution stream either runs its scheduler or a work unit: cur[w] is *)
(* w itself or the unit.  A context switch in Argobots hands a callback to *)
(* the context it switches to, which runs it on its own stack before it    *)
(* continues; only then is the previous ULT pushed, blocked or freed.      *)
(* todo[w] is the rest of that callback, a sequence of atomic steps        *)
(* <<step, unit, ...>> still to be taken on w.  Between two of them every  *)
(* other stream and external thread may move.                              *)
(*                                                                         *)
(* What a unit's function calls is its program, prog[t], one of Scenarios: *)
(* a sequence of calls <<name, argument, ...>>.                            *)
(***************************************************************************)
EXTENDS Integers, Sequences, SequencesExt, FiniteSets

CONSTANTS
    ULT,        \* yieldable work units
    Tasklet,    \* work units that only run to completion
    Ext,        \* external threads (an OS thread without a stream)
    Xstream,    \* execution streams
    Pool,       \* pools
    Pools,      \* the pools of a stream's main scheduler, in scan order
    Unnamed,    \* units created without asking for a handle
    Scenarios,  \* records [prog |-> ..., pools |-> initial pool contents]
    None

Unit == ULT \union Tasklet

Agent == Unit \union Ext

Exec == Xstream \union Ext

ThreadAssumption ==
    /\ ULT \intersect Tasklet = {} /\ Unit \intersect Exec = {}
    /\ Ext \intersect Xstream = {} /\ Unnamed \subseteq Unit
    /\ Pools \in [Xstream -> Seq(Pool)]
    /\ \A s \in Scenarios : DOMAIN s.prog \subseteq Agent

VARIABLES
    prog,         \* the calls every agent still has to make
    state,        \* ABT_thread_state, or UNUSED, or FREED
    request,      \* the REQ_JOIN, REQ_CANCEL and REQ_MIGRATE bits
    pool,         \* p_pool
    mig,          \* p_migration_pool
    last,         \* p_last_xstream
    link,         \* ctx.p_link: who waits for this ULT to finish
    wait,         \* the unit an agent is joining, and whether it frees it
    queue,        \* the units in a pool
    num_blocked,  \* the pool's count of blocked units
    cur,          \* p_local_xstream->p_thread
    todo          \* what is left of the callback of a context switch

unitVars == <<state, request, pool, mig, last, link>>

vars == <<prog, unitVars, wait, queue, num_blocked, cur, todo>>

Init ==
    \E s \in Scenarios :
        /\ prog = [a \in Agent |-> IF a \in DOMAIN s.prog THEN s.prog[a]
                                   ELSE <<>>]
        /\ queue = [p \in Pool |-> s.pools[p]]
        /\ pool = [t \in Unit |-> IF \E p \in Pool : Contains(s.pools[p], t)
                                  THEN CHOOSE p \in Pool : Contains(s.pools[p], t)
                                  ELSE None]
        /\ state = [t \in Unit |-> IF \E p \in Pool : Contains(s.pools[p], t)
                                   THEN "READY" ELSE "UNUSED"]
        /\ request = [t \in Unit |-> {}]
        /\ mig = [t \in Unit |-> None]
        /\ last = [t \in Unit |-> None]
        /\ link = [t \in Unit |-> None]
        /\ wait = [a \in Agent |-> None]
        /\ num_blocked = [p \in Pool |-> 0]
        /\ cur = [w \in Exec |-> w]
        /\ todo = [w \in Exec |-> <<>>]

----------------------------------------------------------------------------
(* The callbacks of ythread.c and the body of ABTI_ythread_schedule(), as  *)
(* the steps they take.  <<"request", t, mayEnd, onNone, onMigrated>> is   *)
(* ABTI_thread_handle_request().                                           *)

\* Push the unit back unless a cancellation request terminates it.
CallbackYield(t) ==
    <<<<"request", t, TRUE, <<<<"push", t>>>>, <<<<"push", t>>>>>>>>

\* The pool is loaded before the unit can be popped and moved by others.
CallbackThreadYieldTo(t) == Append(CallbackYield(t), <<"dec", pool[t]>>)

CallbackResumeYieldTo(t, v) == Append(CallbackYield(t), <<"decof", v>>)

\* Count the unit as blocked, handle its requests, then mark it BLOCKED.
CallbackSuspend(t) ==
    <<<<"inc", t>>, <<"request", t, FALSE, <<>>, <<>>>>, <<"block", t>>>>

CallbackSuspendJoin(t, v) == Append(CallbackSuspend(t), <<"link", v, t>>)

\* The two pools' counts only change when the pools differ.
CallbackResumeSuspendTo(t, v) ==
    IF pool[t] = pool[v] THEN Tail(CallbackSuspend(t))
    ELSE <<<<"inc", t>>, <<"decof", v>>>> \o Tail(CallbackSuspend(t))

CallbackExit(t) == <<<<"terminate", t>>>>

\* Mutant: the resumed unit stays counted as blocked.
MutCallbackResumeExitTo(t, v) == <<<<"terminate", t>>>>

CallbackResumeExitTo(t, v) == <<<<"terminate", t>>, <<"decof", v>>>>

Schedule(t) ==
    <<<<"request", t, TRUE, <<<<"run", t>>>>, <<<<"push", t>>>>>>>>

----------------------------------------------------------------------------
(* Steps of todo[w].                                                       *)

\* w's next step is of kind k, about unit t.
Step(w, k, t) ==
    /\ todo[w] # <<>>
    /\ Head(todo[w])[1] = k /\ Head(todo[w])[2] = t

\* The step is over; ops come before what was left.
Then(w, ops) == todo' = [todo EXCEPT ![w] = ops \o Tail(@)]

\* ABTI_pool_inc_num_blocked().
IncNumBlocked(w, t) ==
    /\ Step(w, "inc", t)
    /\ num_blocked' = [num_blocked EXCEPT ![pool[t]] = @ + 1]
    /\ Then(w, <<>>)
    /\ UNCHANGED <<prog, unitVars, wait, queue, cur>>

\* ABTI_pool_dec_num_blocked() of a pool loaded earlier, or of a unit's pool.
DecNumBlocked(w) ==
    \/ \E p \in Pool :
           /\ Step(w, "dec", p)
           /\ num_blocked' = [num_blocked EXCEPT ![p] = @ - 1]
           /\ Then(w, <<>>)
           /\ UNCHANGED <<prog, unitVars, wait, queue, cur>>
    \/ \E t \in Unit :
           /\ Step(w, "decof", t)
           /\ num_blocked' = [num_blocked EXCEPT ![pool[t]] = @ - 1]
           /\ Then(w, <<>>)
           /\ UNCHANGED <<prog, unitVars, wait, queue, cur>>

\* ABTI_thread_handle_request(): one load of the request bits decides.
HandleRequest(w, t) ==
    /\ Step(w, "request", t)
    /\ LET op == Head(todo[w])
       IN  CASE op[3] /\ "CANCEL" \in request[t] ->
                  Then(w, (IF t \in ULT THEN <<<<"joiner", t, "cancel">>>>
                           ELSE <<>>) \o CallbackExit(t))
             [] "MIGRATE" \in request[t] /\ ~(op[3] /\ "CANCEL" \in request[t]) ->
                  Then(w, <<<<"migrate", t>>, <<"unset", t>>>> \o op[5])
             [] OTHER -> Then(w, op[4])
    /\ UNCHANGED <<prog, unitVars, wait, queue, num_blocked, cur>>

\* ABTI_thread_handle_request_migrate(): take the requested pool ...
HandleMigrate(w, t) ==
    /\ Step(w, "migrate", t)
    /\ pool' = [pool EXCEPT ![t] = mig[t]]
    /\ Then(w, <<>>)
    /\ UNCHANGED <<prog, state, request, mig, last, link, wait, queue,
                   num_blocked, cur>>

\* ... and drop the request.
UnsetRequest(w, t) ==
    /\ Step(w, "unset", t)
    /\ request' = [request EXCEPT ![t] = @ \ {"MIGRATE"}]
    /\ Then(w, <<>>)
    /\ UNCHANGED <<prog, state, pool, mig, last, link, wait, queue,
                   num_blocked, cur>>

\* The unit is marked blocked.
SetBlocked(w, t) ==
    /\ Step(w, "block", t)
    /\ state' = [state EXCEPT ![t] = "BLOCKED"]
    /\ Then(w, <<>>)
    /\ UNCHANGED <<prog, request, pool, mig, last, link, wait, queue,
                   num_blocked, cur>>

\* The joiner a becomes visible to the unit it joins.
SetLink(w, v) ==
    /\ Step(w, "link", v)
    /\ link' = [link EXCEPT ![v] = Head(todo[w])[3]]
    /\ Then(w, <<>>)
    /\ UNCHANGED <<prog, state, request, pool, mig, last, wait, queue,
                   num_blocked, cur>>

\* ABTI_pool_add_thread(): READY, then into the pool.
PoolAddThread(w, t) ==
    /\ Step(w, "push", t)
    /\ state' = [state EXCEPT ![t] = "READY"]
    /\ queue' = [queue EXCEPT ![pool[t]] = Append(@, t)]
    /\ Then(w, <<>>)
    /\ UNCHANGED <<prog, request, pool, mig, last, link, wait, num_blocked, cur>>

\* ABTI_ythread_resume_and_push(): the pool is loaded before the push.
ResumeAndPush(w, t) ==
    /\ Step(w, "resume", t)
    /\ Then(w, <<<<"push", t>>, <<"dec", pool[t]>>>>)
    /\ UNCHANGED <<prog, unitVars, wait, queue, num_blocked, cur>>

\* ABTI_thread_terminate(): a unit without a handle is freed at once.
Terminate(w, t) ==
    /\ Step(w, "terminate", t)
    /\ state' = [state EXCEPT ![t] = IF t \in Unnamed THEN "FREED"
                                     ELSE "TERMINATED"]
    /\ Then(w, <<>>)
    /\ UNCHANGED <<prog, request, pool, mig, last, link, wait, queue,
                   num_blocked, cur>>

\* Context switch of stream w to t, which runs callback cb first.
SwitchTo(w, t, cb) ==
    /\ cur' = [cur EXCEPT ![w] = t]
    /\ todo' = [todo EXCEPT ![w] = cb]
    /\ last' = IF t \in Unit THEN [last EXCEPT ![t] = w] ELSE last

\* ABTI_ythread_run_child(), or the start of a tasklet.
RunChild(w, t) ==
    /\ Step(w, "run", t)
    /\ SwitchTo(w, t, Tail(todo[w]))
    /\ state' = [state EXCEPT ![t] = "RUNNING"]
    /\ UNCHANGED <<prog, request, pool, mig, link, wait, queue, num_blocked>>

\* The last switch of a ULT: to a sibling or to the scheduler.
Jump(w, v) ==
    /\ Step(w, "jump", v)
    /\ SwitchTo(w, v, Head(todo[w])[3])
    /\ state' = IF v \in Unit THEN [state EXCEPT ![v] = "RUNNING"] ELSE state
    /\ UNCHANGED <<prog, request, pool, mig, link, wait, queue, num_blocked>>

----------------------------------------------------------------------------
(* The end of a ULT and its joiner.                                        *)

\* Mutant: a ULT that finds no joiner does not announce that it ends.
MutGetJoiner(t, j) == j = link[t] /\ UNCHANGED request

\* ABTI_ythread_atomic_get_joiner(): no joiner, or the one in p_link; a
\* joiner that has announced itself but not yet stored p_link is waited for.
GetJoiner(t, j) ==
    \/ j = link[t] /\ j # None /\ UNCHANGED request
    \/ /\ j = None /\ link[t] = None /\ "JOIN" \notin request[t]
       /\ request' = [request EXCEPT ![t] = @ \union {"JOIN"}]

\* ABTI_ythread_resume_joiner(): for a cancelled unit, and on the way to
\* the target of ABT_self_exit_to().
ResumeJoiner(w, t) ==
    /\ Step(w, "joiner", t)
    /\ Head(todo[w])[3] = "cancel"
    /\ \E j \in Agent \union {None} :
           /\ GetJoiner(t, j)
           /\ Then(w, IF j \in ULT THEN <<<<"resume", j>>>>
                      ELSE IF j = None THEN <<>> ELSE <<<<"futex", j>>>>)
    /\ UNCHANGED <<prog, state, pool, mig, last, link, wait, queue,
                   num_blocked, cur>>

\* ABTI_ythread_exit(): a joiner that last ran on this stream is jumped to,
\* another one is pushed to its pool.
ExitJoiner(w, t) ==
    /\ Step(w, "joiner", t)
    /\ Head(todo[w])[3] = "exit"
    /\ \E j \in Agent \union {None} :
           /\ GetJoiner(t, j)
           /\ Then(w, CASE j \in ULT /\ last[j] = last[t] ->
                              <<<<"decof", j>>, <<"jump", j, CallbackExit(t)>>>>
                        [] j \in ULT /\ last[j] # last[t] ->
                              <<<<"resume", j>>, <<"jump", w, CallbackExit(t)>>>>
                        [] j = None -> <<<<"jump", w, CallbackExit(t)>>>>
                        [] OTHER ->
                              <<<<"futex", j>>, <<"jump", w, CallbackExit(t)>>>>)
    /\ UNCHANGED <<prog, state, pool, mig, last, link, wait, queue,
                   num_blocked, cur>>

\* ABTD_futex_resume(): the sleeping joiner goes on to its busy wait.
FutexResume(w, j) ==
    /\ Step(w, "futex", j)
    /\ \E e \in Exec :
           /\ Step(e, "sleep", j)
           /\ todo' = [todo EXCEPT ![w] = Tail(@), ![e] = <<>>]
    /\ UNCHANGED <<prog, unitVars, wait, queue, num_blocked, cur>>

----------------------------------------------------------------------------
(* The scheduler's loop, and the calls of a program.                       *)

\* The main scheduler pops from the first pool that has a unit.
Pop(w) ==
    /\ w \in Xstream /\ cur[w] = w /\ todo[w] = <<>>
    /\ \E i \in DOMAIN Pools[w] :
           LET p == Pools[w][i]
           IN  /\ queue[p] # <<>>
               /\ \A k \in 1..(i - 1) : queue[Pools[w][k]] = <<>>
               /\ todo' = [todo EXCEPT ![w] = Schedule(Head(queue[p]))]
               /\ queue' = [queue EXCEPT ![p] = Tail(@)]
    /\ UNCHANGED <<prog, unitVars, wait, num_blocked, cur>>

\* Agent a runs its own code on w and calls f next.
At(w, a, f) ==
    /\ cur[w] = a
    /\ todo[w] = <<>> /\ wait[a] = None
    /\ prog[a] # <<>> /\ Head(prog[a])[1] = f

Arg(a) == Head(prog[a])[2]

Arg2(a) == Head(prog[a])[3]

Return(a) == prog' = [prog EXCEPT ![a] = Tail(@)]

\* ythread_create() and task_create(): a fresh descriptor for pool p, or
\* thread_revive(): the old one made new.
Fresh(v, p, st) ==
    /\ state' = [state EXCEPT ![v] = st]
    /\ request' = [request EXCEPT ![v] = {}]
    /\ link' = [link EXCEPT ![v] = None]
    /\ pool' = [pool EXCEPT ![v] = p]
    /\ UNCHANGED mig

\* ABT_thread_create() and its variants: the unit is pushed.
ThreadCreate(w, a) ==
    /\ At(w, a, "create")
    /\ state[Arg(a)] = "UNUSED"
    /\ Fresh(Arg(a), Arg2(a), "READY")
    /\ last' = [last EXCEPT ![Arg(a)] = None]
    /\ queue' = [queue EXCEPT ![Arg2(a)] = Append(@, Arg(a))]
    /\ Return(a)
    /\ UNCHANGED <<wait, num_blocked, cur, todo>>

\* ABT_thread_create_to(): run the new ULT at once, the caller is pushed.
ThreadCreateTo(w, a) ==
    /\ At(w, a, "create_to")
    /\ state[Arg(a)] = "UNUSED"
    /\ Fresh(Arg(a), Arg2(a), "RUNNING")
    /\ SwitchTo(w, Arg(a), CallbackYield(a))
    /\ Return(a)
    /\ UNCHANGED <<wait, queue, num_blocked>>

\* ABT_thread_revive(): only a terminated unit, else an error.
ThreadRevive(w, a) ==
    /\ At(w, a, "revive")
    /\ \/ /\ state[Arg(a)] = "TERMINATED"
          /\ Fresh(Arg(a), Arg2(a), "READY")
          /\ last' = [last EXCEPT ![Arg(a)] = None]
          /\ queue' = [queue EXCEPT ![Arg2(a)] = Append(@, Arg(a))]
       \/ state[Arg(a)] # "TERMINATED" /\ UNCHANGED <<unitVars, queue>>
    /\ Return(a)
    /\ UNCHANGED <<wait, num_blocked, cur, todo>>

\* ABT_thread_revive_to().
ThreadReviveTo(w, a) ==
    /\ At(w, a, "revive_to")
    /\ state[Arg(a)] = "TERMINATED"
    /\ Fresh(Arg(a), Arg2(a), "RUNNING")
    /\ SwitchTo(w, Arg(a), CallbackYield(a))
    /\ Return(a)
    /\ UNCHANGED <<wait, queue, num_blocked>>

\* ABT_thread_yield() and ABT_self_yield().
ThreadYield(w, a) ==
    /\ At(w, a, "yield")
    /\ SwitchTo(w, w, CallbackYield(a))
    /\ Return(a)
    /\ UNCHANGED <<state, request, pool, mig, link, wait, queue, num_blocked>>

\* ABT_self_suspend().
SelfSuspend(w, a) ==
    /\ At(w, a, "suspend")
    /\ SwitchTo(w, w, CallbackSuspend(a))
    /\ Return(a)
    /\ UNCHANGED <<state, request, pool, mig, link, wait, queue, num_blocked>>

\* The caller of a ..._to() call has popped the target from its pool.
PopUnit(v) ==
    /\ \E p \in Pool : Contains(queue[p], v)
    /\ queue' = [p \in Pool |-> SelectSeq(queue[p], LAMBDA u : u # v)]

\* A scheduler popped it first: there is nothing to switch to.
PopNothing(w, a) ==
    /\ \E f \in {"yield_to", "suspend_to", "exit_to"} : At(w, a, f)
    /\ \A p \in Pool : ~Contains(queue[p], Arg(a))
    /\ Return(a)
    /\ UNCHANGED <<unitVars, wait, queue, num_blocked, cur, todo>>

\* ABT_self_yield_to().
SelfYieldTo(w, a) ==
    /\ At(w, a, "yield_to")
    /\ PopUnit(Arg(a))
    /\ state' = [state EXCEPT ![Arg(a)] = "RUNNING"]
    /\ SwitchTo(w, Arg(a), CallbackYield(a))
    /\ Return(a)
    /\ UNCHANGED <<request, pool, mig, link, wait, num_blocked>>

\* ABT_self_suspend_to(): the target's state is not updated.
SelfSuspendTo(w, a) ==
    /\ At(w, a, "suspend_to")
    /\ PopUnit(Arg(a))
    /\ SwitchTo(w, Arg(a), CallbackSuspend(a))
    /\ Return(a)
    /\ UNCHANGED <<state, request, pool, mig, link, wait, num_blocked>>

\* ABT_self_exit_to(): wake the joiner, then jump.
SelfExitTo(w, a) ==
    /\ At(w, a, "exit_to")
    /\ PopUnit(Arg(a))
    /\ todo' = [todo EXCEPT ![w] = <<<<"joiner", a, "cancel">>,
                                    <<"jump", Arg(a), CallbackExit(a)>>>>]
    /\ Return(a)
    /\ UNCHANGED <<unitVars, wait, num_blocked, cur>>

\* The callers of the resuming calls know that their target is suspended:
\* they look at its state, and try again later when it is not.
Suspended(v) == state[v] = "BLOCKED" /\ wait[v] = None

\* ABT_thread_resume(): refused unless the target is BLOCKED.
ThreadResume(w, a) ==
    /\ At(w, a, "resume")
    /\ Suspended(Arg(a))
    /\ todo' = [todo EXCEPT ![w] = <<<<"resume", Arg(a)>>>>]
    /\ Return(a)
    /\ UNCHANGED <<unitVars, wait, queue, num_blocked, cur>>

\* ABT_self_resume_yield_to().
SelfResumeYieldTo(w, a) ==
    /\ At(w, a, "resume_yield_to")
    /\ Suspended(Arg(a))
    /\ state' = [state EXCEPT ![Arg(a)] = "RUNNING"]
    /\ SwitchTo(w, Arg(a), CallbackResumeYieldTo(a, Arg(a)))
    /\ Return(a)
    /\ UNCHANGED <<request, pool, mig, link, wait, queue, num_blocked>>

\* ABT_self_resume_suspend_to().
SelfResumeSuspendTo(w, a) ==
    /\ At(w, a, "resume_suspend_to")
    /\ Suspended(Arg(a))
    /\ state' = [state EXCEPT ![Arg(a)] = "RUNNING"]
    /\ SwitchTo(w, Arg(a), CallbackResumeSuspendTo(a, Arg(a)))
    /\ Return(a)
    /\ UNCHANGED <<request, pool, mig, link, wait, queue, num_blocked>>

\* ABT_self_resume_exit_to().
SelfResumeExitTo(w, a) ==
    /\ At(w, a, "resume_exit_to")
    /\ Suspended(Arg(a))
    /\ todo' = [todo EXCEPT ![w] =
                    <<<<"joiner", a, "cancel">>,
                      <<"jump", Arg(a), CallbackResumeExitTo(a, Arg(a))>>>>]
    /\ Return(a)
    /\ UNCHANGED <<unitVars, wait, queue, num_blocked, cur>>

\* A ULT whose target is not suspended yet yields and tries again.
TryLater(w, a) ==
    /\ \E f \in {"resume", "resume_yield_to", "resume_suspend_to",
                  "resume_exit_to"} : At(w, a, f)
    /\ a \in ULT /\ ~Suspended(Arg(a))
    /\ SwitchTo(w, w, CallbackYield(a))
    /\ UNCHANGED <<prog, state, request, pool, mig, link, wait, queue,
                   num_blocked>>

\* ABT_thread_yield_to(): a target that is not in its pool is left alone;
\* the caller counts as blocked so that its pool does not look empty.
ThreadYieldTo(w, a) ==
    /\ At(w, a, "thread_yield_to")
    /\ todo' = IF /\ Contains(queue[pool[Arg(a)]], Arg(a))
                  /\ state[Arg(a)] = "READY"
               THEN [todo EXCEPT ![w] = <<<<"inc", a>>, <<"remove", Arg(a), a>>>>]
               ELSE todo
    /\ Return(a)
    /\ UNCHANGED <<unitVars, wait, queue, num_blocked, cur>>

\* Mutant: the result of the removal is ignored.
MutPoolRemove(w, v) ==
    /\ Step(w, "remove", v)
    /\ queue' = [p \in Pool |-> SelectSeq(queue[p], LAMBDA u : u # v)]
    /\ state' = [state EXCEPT ![v] = "RUNNING"]
    /\ SwitchTo(w, v, CallbackThreadYieldTo(Head(todo[w])[3]))
    /\ UNCHANGED <<prog, request, pool, mig, link, wait, num_blocked>>

\* The removal fails when a scheduler was faster.
PoolRemove(w, v) ==
    /\ Step(w, "remove", v)
    /\ LET a == Head(todo[w])[3]
       IN  \/ /\ PopUnit(v)
              /\ state' = [state EXCEPT ![v] = "RUNNING"]
              /\ SwitchTo(w, v, CallbackThreadYieldTo(a))
              /\ UNCHANGED num_blocked
           \/ /\ \A p \in Pool : ~Contains(queue[p], v)
              /\ num_blocked' = [num_blocked EXCEPT ![pool[a]] = @ - 1]
              /\ Then(w, <<>>)
              /\ UNCHANGED <<queue, state, last, cur>>
    /\ UNCHANGED <<prog, request, pool, mig, link, wait>>

\* ABT_thread_cancel(): only a request.
ThreadCancel(w, a) ==
    /\ At(w, a, "cancel")
    /\ request' = [request EXCEPT ![Arg(a)] = @ \union {"CANCEL"}]
    /\ Return(a)
    /\ UNCHANGED <<state, pool, mig, last, link, wait, queue, num_blocked, cur,
                   todo>>

\* ABT_thread_migrate_to_pool(): the pool is stored before the request bit;
\* refused when the unit belongs to that pool already.
ThreadMigrateToPool(w, a) ==
    /\ At(w, a, "migrate")
    /\ IF pool[Arg(a)] = Arg2(a) THEN UNCHANGED <<mig, todo>>
       ELSE /\ mig' = [mig EXCEPT ![Arg(a)] = Arg2(a)]
            /\ todo' = [todo EXCEPT ![w] = <<<<"set", Arg(a)>>>>]
    /\ Return(a)
    /\ UNCHANGED <<state, request, pool, last, link, wait, queue, num_blocked,
                   cur>>

\* ABTI_thread_set_request().
SetRequest(w, t) ==
    /\ Step(w, "set", t)
    /\ request' = [request EXCEPT ![t] = @ \union {"MIGRATE"}]
    /\ Then(w, <<>>)
    /\ UNCHANGED <<prog, state, pool, mig, last, link, wait, queue,
                   num_blocked, cur>>

\* ABT_self_set_associated_pool().
SelfSetAssociatedPool(w, a) ==
    /\ At(w, a, "set_pool")
    /\ pool' = [pool EXCEPT ![a] = Arg(a)]
    /\ Return(a)
    /\ UNCHANGED <<state, request, mig, last, link, wait, queue, num_blocked,
                   cur, todo>>

\* thread_join(): a terminated unit is not waited for.  The first to set the
\* JOIN bit of a ULT (its joiner, or the ULT itself when it ends) decides
\* whether the joiner sleeps; else it polls the state.
ThreadJoin(w, a) ==
    \E f \in {"join", "free"} :
        /\ At(w, a, f)
        /\ LET v == Arg(a)
           IN  IF state[v] # "TERMINATED" /\ v \in ULT /\ "JOIN" \notin request[v]
               THEN /\ request' = [request EXCEPT ![v] = @ \union {"JOIN"}]
                    /\ IF a \in ULT
                       THEN SwitchTo(w, w, CallbackSuspendJoin(a, v))
                       ELSE /\ todo' = [todo EXCEPT ![w] =
                                           <<<<"link", v, a>>, <<"sleep", a>>>>]
                            /\ UNCHANGED <<cur, last>>
               ELSE UNCHANGED <<request, cur, todo, last>>
        /\ wait' = [wait EXCEPT ![a] = <<Arg(a), f>>]
        /\ Return(a)
        /\ UNCHANGED <<state, pool, mig, link, queue, num_blocked>>

\* Agent a is in the polling loop of thread_join() for v.
Polling(w, a, v) ==
    /\ cur[w] = a
    /\ todo[w] = <<>> /\ wait[a] # None /\ wait[a][1] = v

\* thread_join_yield_thread(): yield until the unit is terminated.
JoinYield(w, a) ==
    /\ \E v \in Unit : Polling(w, a, v) /\ state[v] # "TERMINATED"
    /\ a \in ULT
    /\ SwitchTo(w, w, CallbackYield(a))
    /\ UNCHANGED <<prog, state, request, pool, mig, link, wait, queue,
                   num_blocked>>

\* The end of the loop, and of thread_join_busywait(); ABT_thread_free()
\* then frees the unit.
JoinDone(w, a) ==
    /\ \E v \in Unit :
           /\ Polling(w, a, v) /\ state[v] = "TERMINATED"
           /\ state' = IF wait[a][2] = "free" THEN [state EXCEPT ![v] = "FREED"]
                       ELSE state
    /\ wait' = [wait EXCEPT ![a] = None]
    /\ UNCHANGED <<prog, request, pool, mig, last, link, queue, num_blocked,
                   cur, todo>>

\* A unit's function returns, or ABT_thread_exit(), ABT_self_exit().
Exit(w, a) ==
    /\ a \in Unit /\ cur[w] = a /\ todo[w] = <<>> /\ wait[a] = None
    /\ prog[a] # <<>> => Head(prog[a])[1] = "exit"
    /\ IF a \in ULT
       THEN todo' = [todo EXCEPT ![w] = <<<<"joiner", a, "exit">>>>]
            /\ UNCHANGED cur
       ELSE todo' = [todo EXCEPT ![w] = CallbackExit(a)]
            /\ cur' = [cur EXCEPT ![w] = w]
    /\ prog' = [prog EXCEPT ![a] = IF @ = <<>> THEN @ ELSE Tail(@)]
    /\ UNCHANGED <<unitVars, wait, queue, num_blocked>>

----------------------------------------------------------------------------

Callback(w) ==
    \/ DecNumBlocked(w)
    \/ \E t \in Unit :
           \/ IncNumBlocked(w, t) \/ HandleRequest(w, t) \/ HandleMigrate(w, t)
           \/ UnsetRequest(w, t) \/ SetRequest(w, t) \/ SetBlocked(w, t)
           \/ SetLink(w, t) \/ PoolAddThread(w, t) \/ ResumeAndPush(w, t)
           \/ Terminate(w, t) \/ RunChild(w, t) \/ PoolRemove(w, t)
           \/ ResumeJoiner(w, t) \/ ExitJoiner(w, t)
    \/ \E v \in Unit \union {w} : Jump(w, v)
    \/ \E j \in Agent : FutexResume(w, j)

UserCall(w, a) ==
    \/ ThreadCreate(w, a) \/ ThreadRevive(w, a) \/ ThreadCancel(w, a)
    \/ ThreadMigrateToPool(w, a) \/ ThreadResume(w, a)
    \/ ThreadJoin(w, a) \/ JoinYield(w, a) \/ JoinDone(w, a) \/ Exit(w, a)

ULTCall(w, a) ==
    \/ ThreadCreateTo(w, a) \/ ThreadReviveTo(w, a) \/ ThreadYield(w, a)
    \/ SelfSuspend(w, a) \/ SelfYieldTo(w, a) \/ SelfSuspendTo(w, a)
    \/ SelfExitTo(w, a) \/ SelfResumeYieldTo(w, a) \/ SelfResumeSuspendTo(w, a)
    \/ SelfResumeExitTo(w, a) \/ TryLater(w, a) \/ ThreadYieldTo(w, a)
    \/ SelfSetAssociatedPool(w, a) \/ PopNothing(w, a)

ExecStep(w) ==
    \/ Callback(w) \/ Pop(w)
    \/ \E a \in Agent : UserCall(w, a)
    \/ \E a \in ULT : ULTCall(w, a)

Next == \E w \in Exec : ExecStep(w)

\* Every stream and external thread is an OS thread that keeps running.
Spec == Init /\ [][Next]_vars /\ \A w \in Exec : WF_vars(ExecStep(w))

----------------------------------------------------------------------------
(* Properties.                                                             *)

\* The steps of callbacks that hold on to unit t.
Carried(t) == {w \in Exec : \E i \in DOMAIN todo[w] :
                  todo[w][i][1] \in {"request", "push", "run"} /\ todo[w][i][2] = t}

\* A unit is in at most one place: in one pool once, on one stream, or in
\* the hands of one callback.  A ULT that two streams could run at once
\* would run twice on one stack.
OnePlace ==
    \A t \in Unit :
        /\ Cardinality({w \in Exec : cur[w] = t}
              \union {<<p, i>> \in Pool \X (1..Cardinality(Unit)) :
                        i \in DOMAIN queue[p] /\ queue[p][i] = t}) =< 1
        /\ (\E w \in Exec : cur[w] = t) =>
              \A w \in Carried(t) : cur[w] = t
        /\ (\E p \in Pool : Contains(queue[p], t)) => Carried(t) = {}
        /\ Cardinality(Carried(t)) =< 1

\* Nothing is left that refers to a unit that was freed: no stream runs it
\* or runs a callback for it, no pool holds it.
NoUseAfterFree ==
    \A t \in Unit :
        state[t] = "FREED" =>
            /\ \A p \in Pool : ~Contains(queue[p], t)
            /\ \A w \in Exec :
                  /\ cur[w] # t
                  /\ \A i \in DOMAIN todo[w] : todo[w][i][2] # t

\* The assertion of ABTI_ythread_resume_and_push(): who is resumed is
\* blocked, whoever resumes it.
ResumesBlocked ==
    \A t \in Unit, w \in Exec : Step(w, "resume", t) => state[t] = "BLOCKED"

\* When no callback is under way a pool's num_blocked is the number of its
\* blocked units: what the schedulers rely on to know when to stop.
BlockedBalance ==
    (\A w \in Exec : todo[w] = <<>> \/ Head(todo[w])[1] = "sleep") =>
        \A p \in Pool :
            num_blocked[p] = Cardinality({t \in Unit : state[t] = "BLOCKED"
                                                         /\ pool[t] = p})

\* A pool that a blocked unit belongs to never looks empty to a scheduler.
BlockedKeepsPool ==
    \A t \in Unit : state[t] = "BLOCKED" =>
        \/ Len(queue[pool[t]]) + num_blocked[pool[t]] > 0
        \/ \E w \in Exec : Step(w, "jump", t)

\* Everything that was started ends, and every join returns.
AllDone ==
    /\ \A a \in Agent : wait[a] = None
    /\ \A t \in Unit : state[t] \in {"UNUSED", "TERMINATED", "FREED"}
    /\ \A e \in Ext : prog[e] = <<>>

EventuallyAllDone == <>[]AllDone
====
