------------------------------ MODULE MCShared ------------------------------
(***************************************************************************)
(* The structures of Argobots that streams share with few locks or none,   *)
(* for TLC: the callbacks of the tool interface (AbtTool, with the         *)
(* constants of the .cfg), the pools of work units (AbtPool), the profiler *)
(* (AbtProf) and the protocols of atomic operations (AbtAtomic).  In a     *)
(* behaviour one of the Parts moves; AbtTool stays in its first state      *)
(* while another one does, and the variables of the others are "off".      *)
(***************************************************************************)
EXTENDS AbtTool, TLC

CONSTANTS Parts,       \* of "tool", "pool", "prof", "atomic"
          wr1, wr2, fn1, fn2, arg1, arg2, ev1, ev2,
          w1, w2, w3, t1, t2, t3, h1, h2, pA, pB,
          u1, u2, x1, a1, a2, a3

-----------------------------------------------------------------------------
(* AbtTool: two threads register, one after the other and at once, what has  *)
(* the callback, the argument or the events in common.                       *)

Reg(f, m, a) == [cb_f |-> f, mask |-> m, user_arg |-> a]
Registrations ==
  (wr1 :> <<Reg(fn1, {ev1}, arg1), Reg(fn1, {ev1}, arg2), Reg(Null, {ev1, ev2}, Null)>>)
  @@ (wr2 :> <<Reg(fn2, {ev1, ev2}, arg2), Reg(fn1, {ev2}, arg1)>>)

-----------------------------------------------------------------------------
(* AbtPool: one pool of every built-in kind, a FIFO pool beside a            *)
(* user-defined one, and two user-defined pools.                             *)

Calls(i, j, k) == w1 :> i @@ w2 :> j @@ w3 :> k
One(k, c, n) == [kind |-> pA :> k, calls |-> pA :> c, left |-> n]
Two(k, c, d) == [kind |-> (pA :> k @@ pB :> "user"), calls |-> (pA :> c @@ pB :> d),
                 left |-> Calls(3, 3, 0)]
Queueing == {"create", "push", "push_many", "pop", "pop_many", "remove"}

PoolSetups ==
  {One(k, Queueing \cup {"pop_wait"}, Calls(3, 3, 0))
     : k \in {"fifo", "randws", "fifo_wait"}}
    \cup {One(k, Queueing, Calls(4, 0, 0)) : k \in {"fifo_private", "randws_private"}}
    \cup {One("fifo_wait", {"create", "pop_many", "push_many", "pop_wait"},
              Calls(4, 1, 1)),
          Two("fifo", {"push", "pop"}, {"create", "push", "pop", "free"}),
          Two("user", {"push", "push_many", "pop_many"},
                      {"create", "push", "pop", "free"})}

\* Work units of a pool are interchangeable, and so are the handles.
Perms == Permutations({t1, t2, t3}) \cup Permutations({h1, h2})

-----------------------------------------------------------------------------
(* AbtProf: streams 0 to 2 and an external thread, two units.                *)

Units(a, b) == (u1 :> [st |-> a, on |-> Null]) @@ (u2 :> [st |-> b, on |-> Null])
Plan(actors, calls_, events, n, w, time) ==
  [actors |-> actors, calls |-> calls_, events |-> events, n |-> n, work |-> w, time |-> time]

ProfPlans ==
  { \* a print races with units that move between streams,
   Plan({0, 1}, <<"detailed", "stop", "print">>, {"RUN", "YIELD"}, 3, Units("ready", "ready"), 1),
    \* or are freed by a stream that did not create them,
   Plan({0, 1}, <<"detailed", "stop", "print">>, {"FREE", "REVIVE", "CANCEL"}, 3,
        Units("terminated", "terminated"), 1),
    \* and with streams that are new;
   Plan({0, 1, 2, x1}, <<"basic", "stop", "print">>, {"JOIN"}, 3,
        Units("terminated", "terminated"), 1),
    \* units live through several periods,
   Plan({0}, <<"detailed", "stop", "detailed", "stop", "clean", "detailed", "stop", "finalize">>,
        {"RUN", "YIELD", "FREE", "CREATE"}, 4, Units("ready", "terminated"), 1),
   Plan({0, 1}, <<"detailed", "stop", "detailed">>, {"FREE", "CREATE"}, 3,
        Units("terminated", "none"), 1),
    \* and time passes.
   Plan({0}, <<"basic", "stop", "detailed", "stop">>,
        {"RUN", "YIELD", "SUSPEND", "RESUME", "FINISH"}, 4, Units("ready", "none"), 3)}

-----------------------------------------------------------------------------
VARIABLES
  part,
  kind, calls, que, thr, outside, table, bucket, spare, asleep, todo, held, left,
  plan, work, now, tool, g, xlock, arr, xs, own, th, spec, cb, print, raced,
  code, pc, mem, view, wrong

Queue == INSTANCE AbtPool WITH
  Workers <- {w1, w2, w3}, Threads <- {t1, t2, t3}, Handles <- {h1, h2}, Owner <- w1,
  Setups <- PoolSetups
Prof == INSTANCE AbtProf WITH
  Rank <- {0, 1, 2}, External <- {x1}, Unit <- {u1, u2}, DEFAULT_NUM_XSTREAMS <- 1,
  BlockInfos <- 1, Plans <- ProfPlans, lock <- xlock
Atomics == INSTANCE AbtAtomic WITH
  t1 <- a1, t2 <- a2, t3 <- a3,
  Protocols <- {"lock", "table", "join", "migrate", "blocked", "wait", "queue", "suspend"}

ASSUME ToolAssumption

poolVars == <<kind, calls, que, thr, outside, table, bucket, spare, asleep, todo, held, left>>
poolOff == /\ kind = "off" /\ calls = "off" /\ que = "off" /\ thr = "off"
           /\ outside = "off" /\ table = "off" /\ bucket = "off" /\ spare = "off"
           /\ asleep = "off" /\ todo = "off" /\ held = "off" /\ left = "off"
profVars == <<plan, work, now, tool, g, xlock, arr, xs, own, th, spec, cb, print, raced>>
profOff == /\ plan = "off" /\ work = "off" /\ now = "off" /\ tool = "off" /\ g = "off"
           /\ xlock = "off" /\ arr = "off" /\ xs = "off" /\ own = "off" /\ th = "off"
           /\ spec = "off" /\ cb = "off" /\ print = "off" /\ raced = "off"
atomicVars == <<code, pc, mem, view, wrong>>
atomicOff == /\ code = "off" /\ pc = "off" /\ mem = "off" /\ view = "off" /\ wrong = "off"

MCInit ==
  /\ part \in Parts /\ Init
  /\ IF part = "pool" THEN Queue!Init ELSE poolOff
  /\ IF part = "prof" THEN Prof!Init ELSE profOff
  /\ IF part = "atomic" THEN Atomics!Init ELSE atomicOff

MCNext ==
  /\ UNCHANGED part
  /\ \/ part = "tool" /\ Next /\ UNCHANGED <<poolVars, profVars, atomicVars>>
     \/ part = "pool" /\ Queue!Next /\ UNCHANGED <<vars, profVars, atomicVars>>
     \/ part = "prof" /\ Prof!Next /\ UNCHANGED <<vars, poolVars, atomicVars>>
     \/ part = "atomic" /\ Atomics!Next /\ UNCHANGED <<vars, poolVars, profVars>>

mcVars == <<part, vars, poolVars, profVars, atomicVars>>

MCSpec == MCInit /\ [][MCNext]_mcVars

-----------------------------------------------------------------------------
(* The properties of the other modules.                                      *)

\* No unit lies in a FIFO_WAIT pool behind the back of a sleeping worker, and the
\* hash table of handles resolves every handle of a user-defined pool to its unit.
PoolSound == part = "pool" => Queue!NoLostWakeup /\ Queue!HandlesResolve

\* Whatever the interleaving, the pools behave as queues (AbtPoolSpec).
ImplementsPool ==
  /\ part = "pool" => Queue!Abstract!Init
  /\ [][part = "pool" => Queue!Abstract!Next \/ UNCHANGED Queue!Abstract!vars]_poolVars

\* What a print of the profiler shows is a state that it was in; a thread_info
\* belongs to one unit or lies in one pool of unused ones, a stream has one
\* xstream_info, and no more time is accounted than has passed.
ProfilerSound == part = "prof" => Prof!ProfilerSound

\* The memory orders of the atomic operations are enough for the protocols.
WellOrdered == part = "atomic" => Atomics!WellOrdered
=============================================================================
