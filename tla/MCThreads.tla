------------------------------ MODULE MCThreads ------------------------------
(***************************************************************************)
(* Threads for TLC: small programs for the work units and streams of       *)
(* Argobots (AbtThread, AbtStream), for the list of streams and the dump   *)
(* of stacks (AbtInfo) and for the pthread calls on top of them            *)
(* (PthreadShim).  A behaviour is one of the Parts; the variables of the   *)
(* others are "off".                                                       *)
(***************************************************************************)
EXTENDS Integers, Sequences, TLC

CONSTANTS Parts,         \* of "thread", "stream", "info", "shim"
          StreamPrograms,
          None, Null, u0, u1, u2, u3, k1, x1, s0, s1, s2, p1, p2, e1, e2,
          y0, y1, y2, y3, q0, q1, q2, q3, q4, t1, t2, mtx, cnd, onc

-----------------------------------------------------------------------------
(* AbtThread: three ULTs, a tasklet, an external thread and two streams with *)
(* a pool each.                                                              *)

ThreadPool == {p1, p2}
ThreadPools == (s1 :> <<p1, p2>>) @@ (s2 :> <<p2, p1>>)
NoUnits == [p \in ThreadPool |-> <<>>]

\* Joins and frees from a ULT and from an external thread, of ULTs that
\* yield, of a tasklet, and on the joiner's stream or the other.
Joins == {
    [pools |-> NoUnits,
     prog |-> (x1 :> <<<<"create", u2, q>>, <<"create", u1, p1>>,
                       <<"free", u1>>>>)
              @@ (u1 :> <<<<"free", u2>>>>) @@ (u2 :> <<<<"yield">>>>)]
        : q \in ThreadPool}
    \union {
    [pools |-> NoUnits,
     prog |-> (x1 :> <<<<"create", k1, p1>>, <<"create", u1, q>>, <<"join", k1>>,
                       <<"join", u1>>, <<"revive", u1, p1>>, <<"free", u1>>>>)
              @@ (u1 :> <<<<"create_to", u3, p2>>, <<"yield">>>>)
              @@ (k1 :> <<>>)]
        : q \in ThreadPool}

\* Cancellation racing the unit's own end and its joiner.
Cancels == {
    [pools |-> NoUnits,
     prog |-> (x1 :> <<<<"create", u2, q>>, <<"create", u1, p1>>,
                       <<"cancel", u2>>, <<"join", u1>>>>)
              @@ (u1 :> <<<<"join", u2>>, <<"revive_to", u2, p1>>>>)
              @@ (u2 :> <<<<"yield">>, <<"exit">>>>)]
        : q \in ThreadPool}

\* Suspension, and every call that resumes or switches directly.
Switches == {
    [pools |-> [NoUnits EXCEPT ![p1] = <<u1, u2>>, ![p2] = <<u3>>],
     prog |-> (x1 :> <<>>)
              @@ (u1 :> <<f, <<"yield">>>>)
              @@ (u2 :> <<g>>)
              @@ (u3 :> <<<<"resume", u1>>>>)]
        : f \in {<<"suspend_to", u2>>, <<"suspend">>},
          g \in {<<"yield">>}}
    \union {
    [pools |-> [NoUnits EXCEPT ![p1] = <<u1>>, ![q] = Append(@, u2)],
     prog |-> (x1 :> <<<<"join", u2>>>>)
              @@ (u1 :> <<<<"suspend">>>>)
              @@ (u2 :> <<f, <<"yield">>>>)]
        : q \in ThreadPool,
          f \in {<<"resume_yield_to", u1>>, <<"resume_exit_to", u1>>}}
    \union {
    [pools |-> [NoUnits EXCEPT ![p1] = <<u1>>, ![q] = Append(@, u2)],
     prog |-> (x1 :> <<<<"resume", u2>>>>)
              @@ (u1 :> <<<<"suspend">>>>)
              @@ (u2 :> <<<<"resume_suspend_to", u1>>>>)]
        : q \in ThreadPool}
    \union {
    [pools |-> [NoUnits EXCEPT ![p1] = <<u1, u2>>],
     prog |-> (x1 :> <<<<"join", u1>>>>)
              @@ (u1 :> <<f>>)
              @@ (u2 :> <<<<"set_pool", p2>>, <<"yield">>>>)]
        : f \in {<<"yield_to", u2>>, <<"exit_to", u2>>, <<"thread_yield_to", u2>>}}

\* Migration of a unit that yields.
Migrations == {
    [pools |-> [NoUnits EXCEPT ![p1] = <<u1>>],
     prog |-> (x1 :> <<<<"migrate", u1, p2>>, <<"migrate", u1, p1>>,
                       <<"free", u1>>>>)
              @@ (u1 :> <<<<"yield">>, <<"yield">>>>)]}

ThreadPrograms == Joins \union Cancels \union Switches \union Migrations

-----------------------------------------------------------------------------
(* AbtStream: a primary and a secondary stream, and three units.             *)

StreamScheds == {y0, y1, y2, y3}
StreamPool == {q0, q1, q2, q3, q4}
\* y1 steals from q0, which it shares with y0.
StreamPools == (y0 :> <<q0>>) @@ (y1 :> <<q1, q0>>) @@ (y2 :> <<q2>>)
               @@ (y3 :> <<q3, q4>>)
StreamKind == (y0 :> "basic") @@ (y1 :> "randws") @@ (y2 :> "basic_wait")
              @@ (y3 :> "prio")

\* Units that block and are resumed while their stream is freed.
Resumed(x, k) ==
    [main |-> s1 :> x,
     pools |-> IF k = 1 THEN StreamPools[x][1] :> <<u1, u2>>
               ELSE (StreamPools[x][1] :> <<u1>>) @@ (StreamPools[x][2] :> <<u2>>),
     prog |-> (u1 :> <<<<"suspend">>>>) @@ (u2 :> <<<<"suspend">>, <<"yield">>>>)
              @@ (e1 :> <<<<"free", s1>>>>)
              @@ (e2 :> <<<<"resume", u1>>, <<"resume", u2>>>>)]

\* The scheduler is replaced while the stream is joined.
Replaced ==
    [main |-> s1 :> y3, pools |-> (q3 :> <<u1>>) @@ (q4 :> <<u2>>),
     prog |-> (u1 :> <<<<"set_sched", s1, y3>>, <<"set_sched", s1, y2>>,
                       <<"yield">>>>)
              @@ (u2 :> <<<<"yield">>>>)
              @@ (e1 :> <<<<"join", s1>>>>)]

\* Cancelled from outside or by a unit while it is joined; and cancelled,
\* joined and run again.
Cancelled == {
    [main |-> s1 :> y3, pools |-> q3 :> <<u1, u2>>,
     prog |-> (u1 :> <<<<"yield">>, <<"xstream_exit">>>>)
              @@ (u2 :> <<<<"yield">>>>)
              @@ (e1 :> <<<<"join", s1>>>>)
              @@ (e2 :> <<<<"cancel", s1>>>>)],
    [main |-> s1 :> y3, pools |-> q3 :> <<u1>>,
     prog |-> (u1 :> <<<<"yield">>>>)
              @@ (e1 :> <<<<"cancel", s1>>, <<"join", s1>>, <<"revive", s1>>,
                          <<"create", u2, q3>>, <<"free", s1>>>>)]}

\* The primary stream ends with ABT_finalize(), next to a stream that steals.
Finalized ==
    [main |-> (s0 :> y3) @@ (s1 :> y1),
     pools |-> (q3 :> <<u0, u2>>) @@ (q0 :> <<u1>>),
     prog |-> (u0 :> <<<<"xstream_exit">>, <<"suspend">>, <<"finalize">>>>)
              @@ (u1 :> <<<<"yield">>>>)
              @@ (u2 :> <<<<"yield">>>>)
              @@ (e1 :> <<<<"free", s1>>, <<"resume", u0>>>>)]

\* A stream that shares an automatic pool is freed.
Shared ==
    [main |-> (s0 :> y0) @@ (s1 :> y1), pools |-> q0 :> <<u1, u2>>,
     prog |-> (u1 :> <<<<"yield">>, <<"suspend">>>>)
              @@ (u2 :> <<<<"yield">>>>)
              @@ (e1 :> <<<<"free", s1>>, <<"resume", u1>>>>)]

\* A scheduler is set for a stream that was joined, which is then revived.
SetWhileAsleep ==
    [main |-> s0 :> y0, pools |-> q0 :> <<u0>>,
     prog |-> (u0 :> <<<<"suspend">>, <<"set_sched", s1, y2>>>>)
              @@ (e1 :> <<<<"xstream_create", s1, y0>>,
                          <<"xstream_create", s1, y3>>, <<"join", s1>>,
                          <<"resume", u0>>, <<"await", u0>>, <<"revive", s1>>,
                          <<"create", u1, q2>>, <<"free", s1>>>>)]

Streams == {Resumed(y3, 2), Resumed(y3, 1), Replaced, Finalized, Shared,
            SetWhileAsleep} \union Cancelled

\* The scheduler waits in pop_wait.
WithWaitingPop == {Resumed(y2, 1)}

-----------------------------------------------------------------------------
(* AbtInfo: three streams, two triggers.                                     *)

InfoPrograms ==
  LET P(a, b, d) == s0 :> a @@ s1 :> b @@ s2 :> d
      any(x) == <<"create", x, -1>>
  IN {[prog |-> P(<<any(s1), <<"create", s2, 3>>, <<"rank", s1, 3>>, <<"rank", s1, 5>>>>,
                  <<<<"rank", s2, 1>>>>, <<<<"rank", s2, 2>>>>), timeout |-> {}],
      [prog |-> P(<<<<"create", s1, 2>>, any(s2), <<"free", s1>>, any(s1)>>,
                  <<<<"exit">>>>, <<<<"rank", s2, 4>>>>), timeout |-> {}],
      [prog |-> P(<<any(s1), any(s2)>>, <<>>, <<>>), timeout |-> {t1}]}

-----------------------------------------------------------------------------
(* PthreadShim: three threads on two cores, a mutex, a condition variable    *)
(* and a once control.                                                       *)

Main(a, b, d, e) == u1 :> <<<<"create", u2>>, <<"create", u3>>>> \o a \o <<<<"join", u2>>, <<"join", u3>>>> \o e
              @@ u2 :> b @@ u3 :> d
Crit == <<<<"lock", mtx>>, <<"unlock", mtx>>>>
ShimPrograms ==
  {[first |-> u1, slow |-> {}, prog |-> p] : p \in
     {Main(Crit, Crit, <<<<"trylock", mtx>>, <<"unlock", mtx>>>>,
        <<<<"destroy", mtx>>>>),
      Main(<<<<"lock", mtx>>, <<"wait", cnd, mtx>>, <<"unlock", mtx>>>>, <<<<"signal", cnd>>>>,
        <<<<"lock", mtx>>, <<"set">>, <<"unlock", mtx>>, <<"signal", cnd>>>>, <<>>),
      Main(<<<<"lock", mtx>>, <<"wait", cnd, mtx>>, <<"unlock", mtx>>>>,
        <<<<"lock", mtx>>, <<"wait", cnd, mtx>>, <<"unlock", mtx>>>>,
        <<<<"lock", mtx>>, <<"set">>, <<"broadcast", cnd>>, <<"unlock", mtx>>>>, <<>>),
      Main(<<<<"key_create">>, <<"key_delete">>, <<"key_create">>>>,
        <<<<"key_create">>, <<"key_delete">>>>, <<<<"key_create">>>>, <<>>)}}
  \cup {[first |-> u1, slow |-> s, prog |->
           Main(<<<<"once", onc>>>> \o Crit, <<<<"once", onc>>>> \o Crit, <<<<"once", onc>>>>, <<>>)] : s \in {{}, {onc}}}

-----------------------------------------------------------------------------
VARIABLES part, prog, pool, cur, pc, flag,
          state, request, mig, last, link, wait, queue, num_blocked, todo,
          call, unit, sched, xs, main, at, count, due, failed,
          timeouts, life, rank, prev, next, head, num, max, lock, barrier, param, forced, calls,
          slow, core, gtid, word, abt, mine, inside, keys, key, runner

Work == INSTANCE AbtThread WITH
  ULT <- {u1, u2, u3}, Tasklet <- {k1}, Ext <- {x1}, Xstream <- {s1, s2},
  Pool <- ThreadPool, Pools <- ThreadPools, Unnamed <- {u3},
  Scenarios <- ThreadPrograms
Es == INSTANCE AbtStream WITH
  Xstream <- {s0, s1}, Primary <- s0, Sched <- StreamScheds, Kind <- StreamKind,
  Pools <- StreamPools, Pool <- StreamPool, Automatic <- StreamScheds \union StreamPool,
  Unit <- {u0, u1, u2}, Ext <- {e1, e2}, EventFreq <- 2, Scenarios <- StreamPrograms
Dump == INSTANCE AbtInfo WITH
  Stream <- {s0, s1, s2}, Primary <- s0, Trigger <- {t1, t2}, Setups <- InfoPrograms
Shim == INSTANCE PthreadShim WITH
  Ult <- {u1, u2, u3}, Object <- {mtx, cnd, onc}, N_CORE <- 2, N_KEY <- 2, MaxWraps <- 4,
  Setups <- ShimPrograms

ASSUME /\ Work!ThreadAssumption /\ Es!StreamAssumption
       /\ Dump!InfoAssumption /\ Shim!ShimAssumption

threadOnly == <<state, request, mig, last, link, wait, queue, num_blocked, todo>>
threadVars == Work!vars
threadOff == /\ state = "off" /\ request = "off" /\ mig = "off" /\ last = "off"
             /\ link = "off" /\ wait = "off" /\ queue = "off"
             /\ num_blocked = "off" /\ todo = "off"
streamOnly == <<call, unit, sched, xs, main, at, count, due, failed>>
streamVars == Es!vars
streamOff == /\ call = "off" /\ unit = "off" /\ sched = "off" /\ xs = "off"
             /\ main = "off" /\ at = "off" /\ count = "off" /\ due = "off"
             /\ failed = "off"
infoOnly == <<timeouts, life, rank, prev, next, head, num, max, lock, barrier, param, forced, calls>>
infoVars == Dump!vars
infoOff == /\ timeouts = "off" /\ life = "off" /\ rank = "off"
           /\ prev = "off" /\ next = "off" /\ head = "off" /\ num = "off"
           /\ max = "off" /\ lock = "off" /\ barrier = "off" /\ param = "off"
           /\ forced = "off" /\ calls = "off"
shimOnly == <<slow, core, gtid, word, abt, mine, inside, keys, key, runner>>
shimVars == Shim!vars
shimOff == /\ slow = "off" /\ core = "off" /\ gtid = "off" /\ word = "off"
           /\ abt = "off" /\ mine = "off" /\ inside = "off" /\ keys = "off"
           /\ key = "off" /\ runner = "off"

Init ==
  /\ part \in Parts
  /\ \/ /\ part = "thread" /\ Work!Init
        /\ streamOff /\ infoOff /\ shimOff
        /\ pc = "off" /\ flag = "off"
     \/ /\ part = "stream" /\ Es!Init
        /\ threadOff /\ infoOff /\ shimOff
        /\ cur = "off" /\ pc = "off" /\ flag = "off"
     \/ /\ part = "info" /\ Dump!Init
        /\ threadOff /\ streamOff /\ shimOff
        /\ pool = "off" /\ cur = "off"
     \/ /\ part = "shim" /\ Shim!Init
        /\ threadOff /\ streamOff /\ infoOff

Next ==
  /\ UNCHANGED part
  /\ \/ /\ part = "thread" /\ Work!Next
        /\ UNCHANGED <<streamOnly, infoOnly, shimOnly, pc, flag>>
     \/ /\ part = "stream" /\ Es!Next
        /\ UNCHANGED <<threadOnly, infoOnly, shimOnly, cur, pc, flag>>
     \/ /\ part = "info" /\ Dump!Next
        /\ UNCHANGED <<threadOnly, streamOnly, shimOnly, pool, cur>>
     \/ /\ part = "shim" /\ Shim!Next
        /\ UNCHANGED <<threadOnly, streamOnly, infoOnly>>

vars == <<part, prog, pool, cur, pc, flag, threadOnly, streamOnly, infoOnly, shimOnly>>

\* The fairness of each module, while its part moves.
Spec ==
  /\ Init /\ [][Next]_vars
  /\ \A w \in {s1, s2, x1} : WF_threadVars(part = "thread" /\ Work!ExecStep(w))
  /\ \A s \in {s0, s1} : WF_streamVars(part = "stream" /\ Es!StreamStep(s))
  /\ \A a \in {e1, e2} : WF_streamVars(part = "stream" /\ Es!ExtStep(a))
  /\ \A s \in {s0, s1, s2} : WF_infoVars(part = "info" /\ (Dump!DumpStep(s) \/ Dump!ChangeRank(s) \/ Dump!Start(s)))
  /\ \A t \in {t1, t2} : WF_infoVars(part = "info" /\ (Dump!TriggerSet(t) \/ Dump!TriggerWait(t)))
  /\ \A d \in 0 .. 1 : WF_shimVars(part = "shim" /\ Shim!CoreStep(d))

-----------------------------------------------------------------------------
(* The properties of the modules.                                            *)

\* A unit is in at most one place (a pool, a stream or a callback), and one that
\* was freed is in none.
OnePlace == part = "thread" => Work!OnePlace /\ Work!NoUseAfterFree

\* Whoever is resumed is blocked, a pool with a blocked unit never looks empty,
\* and between callbacks num_blocked of a pool counts its blocked units.
BlockedBalance == part = "thread" =>
  Work!ResumesBlocked /\ Work!BlockedKeepsPool /\ Work!BlockedBalance

\* A stream that was joined, not cancelled, left no unit behind that only it
\* could run.
JoinDrains == part = "stream" => Es!JoinDrains

\* The scheduler and the pools of a stream that runs exist and are its own, and
\* no assertion on the state of a stream fails.
SchedulerOwned == part = "stream" => Es!SchedulerOwned /\ Es!NoFailure

\* The list of streams is sorted, complete and consistent; nobody moves while the
\* stacks are printed, unless a timeout forced it, and every dump makes the one
\* callback of its trigger.
DumpSound == part = "info" => Dump!ListSorted /\ Dump!QuietPrint /\ Dump!OneCallback

\* A statically initialised pthread mutex is one mutex, and two keys that exist
\* have two slots.
OneMutex == part = "shim" => Shim!OneMutex /\ Shim!KeySlots

\* Every unit that was started ends and every ABT_thread_join() returns; so do join
\* and free of a stream and ABT_finalize(), and the units of streams that are not
\* cancelled end; a triggered dump of the stacks is answered and its flag comes down
\* again; every POSIX thread ends, unless a ULT that spins in pthread_once() keeps
\* the ULT it waits for from running.
EverythingEnds ==
  /\ <>[](part = "thread" => Work!AllDone)
  /\ <>[](part = "stream" => Es!AllEnded)
  /\ (part = "info" /\ flag = "WAIT") ~> (part = "info" => Dump!Answered)
  /\ <>(part = "shim" => Shim!AllEnded)
=============================================================================
