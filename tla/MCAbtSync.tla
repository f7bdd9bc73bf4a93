------------------------------ MODULE MCAbtSync ------------------------------
(***************************************************************************)
(* Programs that wait for each other, for TLC: agents at each blocking     *)
(* object (AbtSync, with the constants of the .cfg), the stencil programs  *)
(* (Stencil), the other examples (Programs) and the pool that one of them  *)
(* defines (UserPool).  In a behaviour one of the Parts moves; AbtSync     *)
(* stays in its first state while another one does, and the variables of   *)
(* the others are "off".                                                   *)
(***************************************************************************)
EXTENDS AbtSync

CONSTANTS Parts,   \* of "sync", "stencil", "programs", "deque"
          u1, u2, x1, x2, c1, c2, c3, Null

-----------------------------------------------------------------------------
(* AbtSync: three or four agents for each object but the recursive mutex;    *)
(* two ULTs are interchangeable, so only one of them plays a special role.   *)

MCULT == {u1, u2}
MCExt == {x1, x2}

MCTeam == [k \in AllKinds |->
             CASE k = "list" -> {u1, u2, x1, x2}
               [] k \in {"recursive", "assoc"} -> {u1, x1}
               [] OTHER -> {u1, u2, x1}]

MCRoles == [k \in DOMAIN MCTeam |->
              CASE k = "list" -> {<<x2, x2>>}
                [] k = "cond" -> {<<u1, x1>>}
                [] k = "rwlock" -> {<<u1, x1>>}
                [] k = "eventual" -> {<<u1, u1>>, <<x1, x1>>}
                [] OTHER -> {<<u1, u1>>}]

MCRounds == [k \in DOMAIN MCTeam |-> IF k \in {"barrier", "recursive"} THEN 2 ELSE 1]

-----------------------------------------------------------------------------
(* Stencil: every program on two streams, with two blocks in a row and, but  *)
(* for those with the most interleavings, with four in a square; three       *)
(* iterations.                                                               *)

StencilPrograms ==
  {"barrier", "future", "cond", "yield", "forkjoin", "task", "revive", "task_revive",
   "ws", "divconq", "rws", "rws_cf", "hrws", "seq", "naive"}
StencilSetups ==
  {[prog |-> p, w |-> 2, h |-> h, iters |-> 3, n |-> 2, lifo |-> FALSE]
     : <<p, h>> \in (StencilPrograms \X {1}) \cup ((StencilPrograms \ {"cond", "yield", "rws_cf", "hrws"}) \X {2})}

-----------------------------------------------------------------------------
(* Programs: two or three streams and units, fibonacci(4), a vector of 4.    *)

Example(p, k, size) ==
  [prog |-> p, n |-> 2, pools |-> 2, lifo |-> FALSE, thief |-> FALSE, k |-> k, size |-> size]
Stealing(e) == [e EXCEPT !.lifo = TRUE, !.thief = TRUE]

ProgramSetups ==
  {Example(p, 3, 0) : p \in {"hello", "hello_ws"}}
    \cup {Example("stack", 2, 0), Example("user", 1, 0),
          [Example("shared", 3, 0) EXCEPT !.pools = 1],
          [Example("pool_user", 2, 0) EXCEPT !.lifo = TRUE],
          [Example("predef", 0, 0) EXCEPT !.pools = 6],
          [Example("async", 3, 0) EXCEPT !.n = 3],
          Example("daxpy", 0, 4)}
    \cup {Example(p, 0, 4) : p \in {"fib_pf", "fib_cf"}}
    \cup {Stealing(Example(p, 0, 4)) : p \in {"fib_pf", "fib_cf"}}

-----------------------------------------------------------------------------
VARIABLES
  part,
  setup, ult, pool, running, stop,
  mem, sync, wl,
  val, arg, y, clock,
  p_head, p_tail, p_prev, p_next, where, deque

St == INSTANCE Stencil WITH Setups <- StencilSetups
Pr == INSTANCE Programs WITH Setups <- ProgramSetups, Repeats <- 2, Slots <- 2
Dq == INSTANCE UserPool WITH Cell <- {c1, c2, c3}

appVars == <<setup, ult, pool, running, stop>>
appOff == /\ setup = "off" /\ ult = "off" /\ pool = "off" /\ running = "off" /\ stop = "off"
stencilOnly == <<mem, sync, wl>>
stencilOff == mem = "off" /\ sync = "off" /\ wl = "off"
programOnly == <<val, arg, y, clock>>
programOff == val = "off" /\ arg = "off" /\ y = "off" /\ clock = "off"
dequeVars == <<p_head, p_tail, p_prev, p_next, where, deque>>
dequeOff == /\ p_head = "off" /\ p_tail = "off" /\ p_prev = "off" /\ p_next = "off"
            /\ where = "off" /\ deque = "off"

MCInit ==
  /\ part \in Parts /\ Init /\ (part # "sync" => kind = "barrier")
  /\ \/ part = "sync" /\ appOff /\ stencilOff /\ programOff /\ dequeOff
     \/ part = "stencil" /\ St!Init /\ programOff /\ dequeOff
     \/ part = "programs" /\ Pr!Init /\ stencilOff /\ dequeOff
     \/ part = "deque" /\ Dq!PoolInit /\ appOff /\ stencilOff /\ programOff

MCNext ==
  /\ UNCHANGED part
  /\ \/ part = "sync" /\ Next /\ UNCHANGED <<appVars, stencilOnly, programOnly, dequeVars>>
     \/ part = "stencil" /\ St!Next /\ UNCHANGED <<vars, programOnly, dequeVars>>
     \/ part = "programs" /\ Pr!Next /\ UNCHANGED <<vars, stencilOnly, dequeVars>>
     \/ part = "deque" /\ Dq!PoolNext /\ UNCHANGED <<vars, appVars, stencilOnly, programOnly>>

mcVars == <<part, vars, appVars, stencilOnly, programOnly, dequeVars>>

\* The fairness of each module, while its part moves.
MCSpec ==
  /\ MCInit /\ [][MCNext]_mcVars
  /\ \A t \in Agent : /\ WF_vars(part = "sync" /\ Step(t))
                      /\ SF_vars(part = "sync" /\ TimedExpired(t))
  /\ \A s \in 0 .. 2 :
       WF_<<appVars, stencilOnly, programOnly>>(
         \/ part = "stencil" /\ s \in St!Streams /\ St!Stream(s) /\ UNCHANGED programOnly
         \/ part = "programs" /\ s \in Pr!Streams /\ Pr!Stream(s) /\ UNCHANGED stencilOnly)
  /\ WF_<<appVars, programOnly>>(part = "programs" /\ Pr!Clock)

-----------------------------------------------------------------------------
(* The properties of the modules.                                            *)

\* The waiter list is exactly the waits that nobody has woken, and the cursor of
\* a broadcast is on the node of a wait that is not over (abti_waitlist.h); mutexes
\* and reader-writer locks exclude, and barriers, futures and eventuals release
\* nobody before their condition holds.
PromisesKept == ListIsWaiters /\ CursorIsLive /\ Exclusion /\ NoEarlyRelease

\* What a stencil kernel reads is what the iteration before left there, while it
\* computes.  When the example programs return, or validate, every unit has run
\* once and the result is that of the sequential program; a unit is in one place,
\* and the list of the user-defined pool is the deque of its comment.
ProgramsComplete ==
  /\ part = "stencil" => St!HaloStable /\ St!Validated
  /\ part = "programs" => Pr!Complete /\ Pr!OncePlaced
  /\ part = "deque" => Dq!IsDeque

\* Every program ends: no wakeup of an object is lost, every stencil program gets to
\* its validation with its streams joined, and every other example returns.
EverythingEnds ==
  <>(/\ part = "sync" => Done
     /\ part = "stencil" => St!AllValidated
     /\ part = "programs" => Pr!Returned)
=============================================================================
