------------------------------- MODULE AbtApp -------------------------------
(***************************************************************************)
(* What the example programs of Argobots stand on: execution streams that  *)
(* pop work units from pools, run each until it yields, blocks or ends,    *)
(* and work units that create, join and free one another.  The functions   *)
(* of the library are modelled in detail elsewhere (AbtThread, AbtPool,    *)
(* AbtStream, AbtSync); here each call is one step.                        *)
(***************************************************************************)
EXTENDS Integers, Sequences

VARIABLES setup,    \* the program and its arguments
          ult,      \* work unit -> [pc, t, i, on, pool]
          pool,     \* the contents of the pools
          running,  \* stream -> the work unit on it
          stop      \* stream -> "up", "finish" (asked to stop) or "down"

Nobody == <<>>
Main == <<0, 0, 0, 0>>
Streams == 0 .. setup.n - 1

\* A work unit: its step, two loop counters, what it waits for and its pool.
Unit(pc, t, p) == [pc |-> pc, t |-> t, i |-> 1, on |-> Nobody, pool |-> p]

Up(s, u) == running[s] = u
At(s, u, pc) == Up(s, u) /\ ult[u].pc = pc

\* The pools once the units us, as N has them, are pushed: at the tail, but a unit
\* that is created at the head where the pool works as a deque.
Push(N, us) ==
  LET of(p) == SelectSeq(us, LAMBDA u : N[u].pool = p)
      front(q) == SelectSeq(q, LAMBDA u : setup.lifo /\ N[u].pc = "begin")
      back(q) == SelectSeq(q, LAMBDA u : ~(setup.lifo /\ N[u].pc = "begin"))
  IN [p \in DOMAIN pool |-> front(of(p)) \o pool[p] \o back(of(p))]

\* The unit on s goes on ...
Go(N, us) == /\ ult' = N /\ pool' = Push(N, us)
             /\ UNCHANGED <<setup, running, stop>>

\* ... or gives its stream back to the scheduler.
Leave(s, N, us) == /\ ult' = N /\ pool' = Push(N, us)
                   /\ running' = [running EXCEPT ![s] = Nobody]
                   /\ UNCHANGED <<setup, stop>>

To(u, pc) == [ult EXCEPT ![u].pc = pc]

\* ABT_thread_yield(), and a unit that suspends itself until it is pushed.
Yield(s, u, N) == Leave(s, N, <<u>>)
Block(s, u, N) == Leave(s, N, <<>>)

\* The function of u returns: whoever joins it is pushed.
Finish(s, u) ==
  LET waits == {v \in DOMAIN ult : ult[v].pc = "joining" /\ ult[v].on = u}
  IN Leave(s, To(u, "done"), IF waits = {} THEN <<>> ELSE <<CHOOSE v \in waits : TRUE>>)

\* ABT_thread_create() and ABT_thread_revive(): the unit v starts in pool p; a
\* unit that has not terminated is not revived.
Created(N, v, t, p) == [N EXCEPT ![v] = Unit("begin", t, p)]

\* ABT_thread_join() and ABT_thread_free() of v by u: a caller that has to wait is
\* suspended, or yields when v is a tasklet, and then does the call again.
JoinOr(s, u, v, tasklet, done) ==
  IF ult[v].pc # "done"
  THEN IF tasklet THEN Yield(s, u, ult)
       ELSE Block(s, u, [ult EXCEPT ![u].pc = "joining", ![u].on = v])
  ELSE done

\* The joined unit has ended: the caller, scheduled again, makes its call again.
Joined(s, u) == /\ At(s, u, "joining")
                /\ Go([ult EXCEPT ![u].pc = "join", ![u].on = Nobody], <<>>)

-----------------------------------------------------------------------------
(* Schedulers.                                                               *)

\* The first pool of the list q that has a unit.
First(q) == {q[j] : j \in {j \in DOMAIN q : /\ pool[q[j]] # <<>>
                                            /\ \A k \in 1 .. j - 1 : pool[q[k]] = <<>>}}
\* The pools of all the streams, from that of s on.
Ring(s) == [j \in 1 .. setup.n |-> (s + j - 1) % setup.n]
\* A random scheduler looks at its own pool, then at one of the others.
Random(s) == IF pool[s] # <<>> THEN {s} ELSE {p \in DOMAIN pool : pool[p] # <<>>}

\* ABT_self_schedule() associates the unit with the pool it is given.
Take(u, s) == [ult EXCEPT ![u].pool = s]

\* A scheduler that is idle pops a unit of one of the pools ps; a thief takes the
\* other end of a pool that works as a deque.  It may adopt the unit.
Pop(s, ps, adopt) ==
  /\ running[s] = Nobody /\ stop[s] # "down"
  /\ \E p \in ps :
       LET q == pool[p] tail == setup.lifo /\ setup.thief /\ p # s
           u == IF tail THEN q[Len(q)] ELSE q[1]
       IN /\ running' = [running EXCEPT ![s] = u]
          /\ pool' = [pool EXCEPT ![p] = IF tail THEN SubSeq(@, 1, Len(@) - 1) ELSE Tail(@)]
          /\ ult' = IF adopt THEN Take(u, s) ELSE ult
  /\ UNCHANGED <<setup, stop>>

\* ABT_xstream_join() of the secondary streams, one after the other, and in the end
\* ABT_finalize() for the primary one: each is asked to finish and is waited for.
JoinStreams(s, u, end) ==
  LET k == ult[u].i % setup.n
  IN \/ /\ At(s, u, "streams") /\ ult[u].i <= setup.n /\ stop[k] = "up"
        /\ ult' = To(u, "stopping") /\ UNCHANGED <<setup, pool>>
        /\ running' = [running EXCEPT ![s] = Nobody]
        /\ stop' = [stop EXCEPT ![k] = "finish"]
     \/ /\ At(s, u, "stopping")
        /\ Go([ult EXCEPT ![u].pc = "streams", ![u].i = @ + 1], <<>>)
     \/ /\ At(s, u, "streams") /\ ult[u].i > setup.n
        /\ Go(To(u, end), <<>>)

\* A stream that was asked to finish ends once the pools ps of its scheduler are
\* empty: its joiner is pushed, or goes on with the primary stream.
Stop(s, ps) ==
  /\ running[s] = Nobody /\ stop[s] = "finish" /\ \A p \in ps : pool[p] = <<>>
  /\ stop' = [stop EXCEPT ![s] = "down"]
  /\ IF s = 0 THEN running' = [running EXCEPT ![0] = Main] /\ UNCHANGED pool
     ELSE pool' = Push(ult, <<Main>>) /\ UNCHANGED running
  /\ UNCHANGED <<setup, ult>>
=============================================================================
