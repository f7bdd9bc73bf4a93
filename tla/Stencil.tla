------------------------------- MODULE Stencil -------------------------------
(***************************************************************************)
(* The stencil programs of Argobots (examples/stencil): one computation,   *)
(* synchronised in fourteen ways.  The grid is cut into blocks and kept in *)
(* two arrays; iteration t reads a block and its four neighbours in one    *)
(* array and writes the block in the other, so a block must not run ahead  *)
(* of a neighbour, nor overwrite what a neighbour still reads.             *)
(*                                                                         *)
(* The value of a block is the number of iterations it has been through:   *)
(* what the sequential computation of validate_values() makes of it after  *)
(* as many.  A kernel takes two steps; between them its block is Torn.     *)
(***************************************************************************)
EXTENDS AbtApp, FiniteSets

CONSTANT Setups   \* records [prog, w, h, iters, n, lifo], as read_args() returns them

VARIABLES mem,    \* array -> block -> iterations done, Torn or Bad
          sync,   \* [flag, fut, bar, held]: progress flags, compartments of the
                  \* futures that are set, waiters at the barrier, mutex owners
          wl      \* waitlists of the barrier, futures, mutexes and conds

vars == <<setup, ult, pool, running, stop, mem, sync, wl>>

Torn == -1
Bad == -2

Is(ps) == setup.prog \in ps
Blocks(c) == (0 .. c.w - 1) \X (0 .. c.h - 1)
Bs == Blocks(setup)

\* A unit is named after the blocks <<x_from, y_from, x_to, y_to>> it computes.
Of(b) == <<b[1], b[2], b[1] + 1, b[2] + 1>>
Blk(u) == <<u[1], u[2]>>
Region(u) == IF u = Main THEN <<0, 0, setup.w, setup.h>> ELSE u
Units(c) == {Main} \cup {r \in (0 .. c.w) \X (0 .. c.h) \X (0 .. c.w) \X (0 .. c.h) :
                           r[1] < r[3] /\ r[2] < r[4]}

\* "for blockX ... for blockY": the order in which main() visits the blocks.
Order == [k \in 1 .. setup.w * setup.h |-> <<(k - 1) \div setup.h, (k - 1) % setup.h>>]
pool_id(b) == (b[1] + b[2] * setup.w) % setup.n

Dir == <<<<-1, 0>>, <<1, 0>>, <<0, -1>>, <<0, 1>>>>
Nbr(b, i) == <<b[1] + Dir[i][1], b[2] + Dir[i][2]>>
Nbrs(b) == {Nbr(b, i) : i \in 1 .. 4} \cap Bs

Flat == {"barrier", "future", "cond", "yield"}
Fork == {"forkjoin", "task", "revive", "task_revive", "ws"}
Conq == {"divconq", "rws", "rws_cf", "hrws"}
Seq1 == {"seq", "naive"}
Shared == {"ws", "rws", "rws_cf", "hrws"}
Tasklets == {"task", "task_revive"}

\* init_values() gives both arrays the same contents.
init_values(c) == [a \in 0 .. 1 |-> [b \in Blocks(c) |-> 0]]

\* Every point of values_old is what the sequential computation makes of it.
validate_values == \A b \in Bs : mem[setup.iters % 2][b] = setup.iters

Waitlists(c) ==
  {<<"bar">>} \cup {<<k, b>> : k \in {"mtx", "cond"}, b \in Blocks(c)}
              \cup {<<"fut", a, b>> : a \in 0 .. 1, b \in Blocks(c)}

Init == \E c \in Setups :
          /\ setup = c
          /\ ult = [u \in Units(c) |-> Unit(IF u = Main THEN "create" ELSE "none", 0, 0)]
          /\ pool = [s \in 0 .. c.n - 1 |-> <<>>]
          /\ running = [s \in 0 .. c.n - 1 |-> IF s = 0 THEN Main ELSE Nobody]
          /\ stop = [s \in 0 .. c.n - 1 |-> "up"]
          /\ mem = init_values(c)
          /\ sync = [flag |-> [b \in Blocks(c) |-> 0],
                     fut |-> [a \in 0 .. 1 |-> [b \in Blocks(c) |-> 0]],
                     bar |-> 0, held |-> [b \in Blocks(c) |-> Nobody]]
          /\ wl = [o \in Waitlists(c) |-> <<>>]

T(u) == ult[u].t
I(u) == ult[u].i
NextIter(u) == [ult EXCEPT ![u].pc = "begin", ![u].t = @ + 1, ![u].i = 1]

-----------------------------------------------------------------------------
(* The kernels.                                                              *)

\* The loop over the points of block b in iteration t, begun ...
Begin(b, t) == mem' = [mem EXCEPT ![(t + 1) % 2][b] = Torn]
\* ... and ended.
End(b, t) == mem' = [mem EXCEPT ![(t + 1) % 2][b] =
                       IF \A c \in Nbrs(b) \cup {b} : mem[t % 2][c] = t THEN t + 1 ELSE Bad]

\* The iterations of a kernel: the last is followed by the return.
Loop(s, u, body) ==
  /\ At(s, u, "begin")
  /\ IF T(u) = setup.iters THEN Finish(s, u) /\ UNCHANGED <<mem, sync, wl>> ELSE body

Enter(u) == Begin(Blk(u), T(u)) /\ Go(To(u, "compute"), <<>>) /\ UNCHANGED <<sync, wl>>
Exit(s, u, pc) == /\ At(s, u, "compute") /\ End(Blk(u), T(u))
                  /\ Go([ult EXCEPT ![u].pc = pc, ![u].i = 1], <<>>)
                  /\ UNCHANGED <<sync, wl>>

\* One iteration by one unit.
once(s, u) ==
  \/ At(s, u, "begin") /\ Enter(u)
  \/ At(s, u, "compute") /\ End(Blk(u), T(u)) /\ Finish(s, u) /\ UNCHANGED <<sync, wl>>

kernel_forkjoin(s, u) == Is({"forkjoin"}) /\ once(s, u)
kernel_task(s, u) == Is({"task"}) /\ once(s, u)
kernel_revive(s, u) == Is({"revive"}) /\ once(s, u)
kernel_task_revive(s, u) == Is({"task_revive"}) /\ once(s, u)
kernel_ws(s, u) == Is({"ws"}) /\ once(s, u)

\* ABT_barrier_wait(): the last of the units wakes the others.
barrier_wait(s, u) ==
  /\ At(s, u, "barrier")
  /\ IF sync.bar + 1 < Cardinality(Bs)
     THEN /\ Block(s, u, NextIter(u))
          /\ sync' = [sync EXCEPT !.bar = @ + 1]
          /\ wl' = [wl EXCEPT ![<<"bar">>] = Append(@, u)]
     ELSE /\ Go(NextIter(u), wl[<<"bar">>])
          /\ sync' = [sync EXCEPT !.bar = 0]
          /\ wl' = [wl EXCEPT ![<<"bar">>] = <<>>]
  /\ UNCHANGED mem

\* Mutant: no barrier.
MutBarrier(s, u) ==
  /\ Is({"barrier"})
  /\ \/ Loop(s, u, Enter(u))
     \/ Exit(s, u, "barrier")
     \/ At(s, u, "barrier") /\ Go(NextIter(u), <<>>) /\ UNCHANGED <<mem, sync, wl>>

kernel_barrier(s, u) ==
  /\ Is({"barrier"})
  /\ \/ Loop(s, u, Enter(u))
     \/ Exit(s, u, "barrier")
     \/ barrier_wait(s, u)

Peer(u) == Nbr(Blk(u), I(u))

\* The neighbours are looked at one after the other; look does it for Peer(u).
Check(s, u, look) ==
  /\ At(s, u, "check")
  /\ IF I(u) > 4 THEN Enter(u)
     ELSE IF Peer(u) \notin Bs
     THEN Go([ult EXCEPT ![u].i = @ + 1], <<>>) /\ UNCHANGED <<mem, sync, wl>>
     ELSE look

ToCheck(u) == Go(To(u, "check"), <<>>) /\ UNCHANGED <<mem, sync, wl>>

kernel_yield(s, u) ==
  /\ Is({"yield"})
  /\ \/ Loop(s, u, ToCheck(u))
     \/ Check(s, u,
          /\ IF sync.flag[Peer(u)] >= T(u) THEN Go([ult EXCEPT ![u].i = @ + 1], <<>>)
             ELSE Yield(s, u, ult)
          /\ UNCHANGED <<mem, sync, wl>>)
     \/ Exit(s, u, "publish")
     \/ /\ At(s, u, "publish")
        /\ sync' = [sync EXCEPT !.flag[Blk(u)] = T(u) + 1]
        /\ Go(NextIter(u), <<>>) /\ UNCHANGED <<mem, wl>>

\* ABT_mutex_lock(): a unit that finds the mutex of b held is suspended until it is
\* released, and tries again.  ABT_mutex_unlock() wakes all of them.
Lock(s, u, b, pc) ==
  /\ IF sync.held[b] = Nobody
     THEN /\ sync' = [sync EXCEPT !.held[b] = u] /\ Go(To(u, pc), <<>>) /\ UNCHANGED wl
     ELSE /\ wl' = [wl EXCEPT ![<<"mtx", b>>] = Append(@, u)]
          /\ Block(s, u, ult) /\ UNCHANGED sync
  /\ UNCHANGED mem

\* With the mutex held: the flag is set, the waiters are woken, the mutex released.
Update(s, u) ==
  LET b == Blk(u)
  IN /\ At(s, u, "update")
     /\ sync' = [sync EXCEPT !.flag[b] = T(u) + 1, !.held[b] = Nobody]
     /\ wl' = [wl EXCEPT ![<<"mtx", b>>] = <<>>, ![<<"cond", b>>] = <<>>]
     /\ Go(NextIter(u), wl[<<"cond", b>>] \o wl[<<"mtx", b>>])
     /\ UNCHANGED mem

\* With the mutex of neighbour b held: the flag is far enough, or ABT_cond_wait()
\* releases the mutex, suspends the unit and, woken, locks the mutex again.
Test(s, u) ==
  LET b == Nbr(Blk(u), I(u))
  IN /\ At(s, u, "test")
     /\ sync' = [sync EXCEPT !.held[b] = Nobody]
     /\ IF sync.flag[b] >= T(u)
        THEN /\ wl' = [wl EXCEPT ![<<"mtx", b>>] = <<>>]
             /\ Go([ult EXCEPT ![u].pc = "check", ![u].i = @ + 1], wl[<<"mtx", b>>])
        ELSE /\ wl' = [wl EXCEPT ![<<"mtx", b>>] = <<>>, ![<<"cond", b>>] = Append(@, u)]
             /\ Leave(s, To(u, "check"), wl[<<"mtx", b>>])
     /\ UNCHANGED mem

kernel_cond(s, u) ==
  /\ Is({"cond"})
  /\ \/ Loop(s, u, ToCheck(u))
     \/ Check(s, u, Lock(s, u, Peer(u), "test"))
     \/ Test(s, u)
     \/ Exit(s, u, "publish")
     \/ At(s, u, "publish") /\ Lock(s, u, Blk(u), "update")
     \/ Update(s, u)

\* ABT_future_set(): the set that fills the compartments wakes the waiter.
future_set(u, a, b) ==
  LET full == sync.fut[a][b] + 1 = Cardinality(Nbrs(b))
      f == <<"fut", a, b>>
  IN /\ sync' = [sync EXCEPT !.fut[a][b] = @ + 1]
     /\ wl' = [wl EXCEPT ![f] = IF full THEN <<>> ELSE @]
     /\ Go([ult EXCEPT ![u].i = @ + 1], IF full THEN wl[f] ELSE <<>>)
     /\ UNCHANGED mem

\* The futures of iteration t are those of array t % 2.
kernel_future(s, u) ==
  LET b == Blk(u) old == T(u) % 2 f == <<"fut", old, b>>
  IN /\ Is({"future"})
     /\ \/ Loop(s, u, IF T(u) = 0 THEN Enter(u)
                      ELSE IF sync.fut[old][b] < Cardinality(Nbrs(b))
                      THEN /\ wl' = [wl EXCEPT ![f] = Append(@, u)]
                           /\ Block(s, u, ult) /\ UNCHANGED <<mem, sync>>
                      ELSE /\ sync' = [sync EXCEPT !.fut[old][b] = 0]
                           /\ Begin(b, T(u)) /\ Go(To(u, "compute"), <<>>) /\ UNCHANGED wl)
        \/ Exit(s, u, "set")
        \/ /\ At(s, u, "set") /\ I(u) <= 4
           /\ IF Nbr(b, I(u)) \in Bs THEN future_set(u, 1 - old, Nbr(b, I(u)))
              ELSE Go([ult EXCEPT ![u].i = @ + 1], <<>>) /\ UNCHANGED <<mem, sync, wl>>
        \/ /\ At(s, u, "set") /\ I(u) > 4
           /\ Go(NextIter(u), <<>>) /\ UNCHANGED <<mem, sync, wl>>

-----------------------------------------------------------------------------
(* The divide-and-conquer kernels: a region of more than a block is cut in   *)
(* four; the parts that are not empty become units, which are joined.        *)

Parts4(r) ==
  LET mx == r[1] + (r[3] - r[1]) \div 2
      my == r[2] + (r[4] - r[2]) \div 2
  IN SelectSeq(<<<<r[1], r[2], mx, my>>, <<mx, r[2], r[3], my>>,
                 <<r[1], my, mx, r[4]>>, <<mx, my, r[3], r[4]>>>>,
               LAMBDA q : q[3] # q[1] /\ q[4] # q[2])

One(r) == r[3] - r[1] = 1 /\ r[4] - r[2] = 1

\* The pool of a part: by its place in the grid, or the stream's own.
pid(q, s, hashed) == IF hashed THEN (q[1] * setup.h + q[2]) % setup.n ELSE s

\* back is the return of thread().
Divide(s, u, hashed, back) ==
  LET r == Region(u) q == Parts4(r) k == I(u)
  IN \/ At(s, u, "begin") /\ One(r) /\ Begin(<<r[1], r[2]>>, T(u)) /\ Go(To(u, "compute"), <<>>)
     \/ At(s, u, "compute") /\ End(<<r[1], r[2]>>, T(u)) /\ back
     \/ /\ At(s, u, "begin") /\ ~One(r) /\ UNCHANGED mem
        /\ IF k <= Len(q)
           THEN Go([Created(ult, q[k], T(u), pid(q[k], s, hashed)) EXCEPT ![u].i = k + 1], <<q[k]>>)
           ELSE Go([ult EXCEPT ![u].pc = "join", ![u].i = 1], <<>>)
     \/ Joined(s, u) /\ UNCHANGED mem
     \/ /\ At(s, u, "join") /\ UNCHANGED mem
        /\ IF k > Len(q) THEN back
           ELSE JoinOr(s, u, q[k], FALSE,
                  Go([ult EXCEPT ![u].i = k + 1, ![q[k]].pc = "none"], <<>>))

\* thread() is a unit's function and is called by main() for the whole grid.
Back(s, u) == IF u = Main THEN Go([To(Main, "swap") EXCEPT ![Main].i = 1], <<>>) ELSE Finish(s, u)

thread_divconq(s, u) == Is({"divconq"}) /\ Divide(s, u, TRUE, Back(s, u)) /\ UNCHANGED <<sync, wl>>
thread_rws(s, u) == Is({"rws"}) /\ Divide(s, u, FALSE, Back(s, u)) /\ UNCHANGED <<sync, wl>>
\* ABT_thread_create_to() pushes the caller and runs the new unit at once.
thread_rws_cf(s, u) ==
  LET r == Region(u) q == Parts4(r) k == I(u)
  IN /\ Is({"rws_cf"}) /\ UNCHANGED <<sync, wl>>
     /\ IF At(s, u, "begin") /\ ~One(r) /\ k <= Len(q)
        THEN LET N == [Created(ult, q[k], T(u), s) EXCEPT ![u].i = k + 1]
             IN /\ ult' = N /\ pool' = Push(N, <<u>>)
                /\ running' = [running EXCEPT ![s] = q[k]]
                /\ UNCHANGED <<setup, stop, mem>>
        ELSE Divide(s, u, FALSE, Back(s, u))
thread_hrws(s, u) == Is({"hrws"}) /\ Divide(s, u, FALSE, Back(s, u)) /\ UNCHANGED <<sync, wl>>

-----------------------------------------------------------------------------
(* main().                                                                   *)

Last == setup.w * setup.h

\* A unit is created for each block, in its pool, to begin in iteration t.
Create(s, t) ==
  LET k == I(Main) b == Order[k]
  IN /\ At(s, Main, "create") /\ k <= Last
     /\ Go([Created(ult, Of(b), t, pool_id(b)) EXCEPT ![Main].i = k + 1], <<Of(b)>>)

\* Once all are created they are joined in the same order, and freed unless keep.
Join(s, keep, next) ==
  LET k == I(Main) v == Of(Order[k])
  IN \/ /\ At(s, Main, "create") /\ k > Last
        /\ Go([ult EXCEPT ![Main].pc = "join", ![Main].i = 1], <<>>)
     \/ /\ At(s, Main, "join") /\ k <= Last
        /\ JoinOr(s, Main, v, Is(Tasklets),
             Go([ult EXCEPT ![Main].i = k + 1, ![v].pc = IF keep THEN "done" ELSE "none"], <<>>))
     \/ /\ At(s, Main, "join") /\ k > Last
        /\ Go([ult EXCEPT ![Main].pc = next, ![Main].i = 1], <<>>)
     \/ Joined(s, Main)

\* The streams are joined, Argobots is finalized, the result is validated.
Close(s) == JoinStreams(s, Main, "validate")

ToClose(s) == Go([ult EXCEPT ![Main].pc = "streams", ![Main].i = 1], <<>>)
Still == UNCHANGED <<mem, sync, wl>>

\* The units live for all the iterations.
AllIterations(s) == (Create(s, 0) \/ Join(s, FALSE, "streams") \/ Close(s)) /\ Still

main_barrier(s) == Is({"barrier"}) /\ AllIterations(s)
main_future(s) == Is({"future"}) /\ AllIterations(s)
main_cond(s) == Is({"cond"}) /\ AllIterations(s)
main_yield(s) == Is({"yield"}) /\ AllIterations(s)

\* The units live for an iteration each, and so are joined before the swap.
EachIteration(s, keep) ==
  /\ \/ T(Main) < setup.iters /\ (Create(s, T(Main)) \/ Join(s, keep, "swap"))
     \/ /\ At(s, Main, "swap")
        /\ Go([ult EXCEPT ![Main].pc = "create", ![Main].t = @ + 1, ![Main].i = 1], <<>>)
     \/ At(s, Main, "create") /\ T(Main) = setup.iters /\ ToClose(s)
     \/ Close(s)
  /\ Still

main_forkjoin(s) == Is({"forkjoin"}) /\ EachIteration(s, FALSE)
main_task(s) == Is({"task"}) /\ EachIteration(s, FALSE)
main_ws(s) == Is({"ws"}) /\ EachIteration(s, FALSE)
\* Units that are revived are freed in the last iteration only.
main_revive(s) == Is({"revive"}) /\ EachIteration(s, T(Main) < setup.iters - 1)
main_task_revive(s) == Is({"task_revive"}) /\ EachIteration(s, T(Main) < setup.iters - 1)

\* main() calls thread() for the whole grid, once in an iteration.
Conquer(s) ==
  /\ \/ /\ At(s, Main, "create") /\ T(Main) < setup.iters
        /\ Go([ult EXCEPT ![Main].pc = "begin", ![Main].i = 1], <<>>)
     \/ At(s, Main, "create") /\ T(Main) = setup.iters /\ ToClose(s)
     \/ /\ At(s, Main, "swap")
        /\ Go([ult EXCEPT ![Main].pc = "create", ![Main].t = @ + 1], <<>>)
     \/ Close(s)
  /\ Still

main_divconq(s) == Is({"divconq"}) /\ Conquer(s)
main_rws(s) == Is({"rws"}) /\ Conquer(s)
main_rws_cf(s) == Is({"rws_cf"}) /\ Conquer(s)
main_hrws(s) == Is({"hrws"}) /\ Conquer(s)

\* Without Argobots: block after block, iteration after iteration.
Alone(s, b) ==
  /\ \/ /\ At(s, Main, "create") /\ T(Main) < setup.iters /\ I(Main) <= Last
        /\ Begin(b, T(Main)) /\ Go(To(Main, "compute"), <<>>)
     \/ /\ At(s, Main, "compute") /\ End(b, T(Main))
        /\ Go([ult EXCEPT ![Main].pc = "create", ![Main].i = @ + 1], <<>>)
     \/ /\ At(s, Main, "create") /\ T(Main) < setup.iters /\ I(Main) > Last
        /\ Go([ult EXCEPT ![Main].t = @ + 1, ![Main].i = 1], <<>>) /\ UNCHANGED mem
     \/ /\ At(s, Main, "create") /\ T(Main) = setup.iters
        /\ Go(To(Main, "validate"), <<>>) /\ UNCHANGED mem
  /\ UNCHANGED <<sync, wl>>

AloneBlock == IF Is({"seq"}) THEN Order[I(Main)]
              ELSE <<(I(Main) - 1) % setup.w, (I(Main) - 1) \div setup.w>>
main_seq(s) == Is({"seq"}) /\ Alone(s, AloneBlock)
main_naive(s) == Is({"naive"}) /\ Alone(s, AloneBlock)

-----------------------------------------------------------------------------
(* Streams.  Their schedulers serve one pool each, or steal.                 *)

\* stencil_forkjoin_divconq_hrws: its own pool, a pool of its level twice, any pool.
\* A draw may miss, its own empty pool being of its level.
sched_run(s) == Is({"hrws"}) /\ Pop(s, Random(s), TRUE)

Sched(s) == \/ /\ Is(Fork \cup Flat \cup {"divconq"})
               /\ Pop(s, First(IF Is({"ws"}) THEN Ring(s) ELSE <<s>>), FALSE)
            \/ Is({"rws", "rws_cf"}) /\ Pop(s, Random(s), FALSE)
            \/ sched_run(s)

Terminate(s) == Stop(s, IF Is(Shared) THEN Streams ELSE {s})

Stream(s) ==
  \/ (Sched(s) \/ Terminate(s)) /\ Still
  \/ \E u \in {running[s]} \ {Nobody} :
       IF u = Main
       THEN \/ main_barrier(s) \/ main_future(s) \/ main_cond(s) \/ main_yield(s)
            \/ main_forkjoin(s) \/ main_task(s) \/ main_revive(s) \/ main_task_revive(s)
            \/ main_ws(s) \/ main_divconq(s) \/ main_rws(s) \/ main_rws_cf(s) \/ main_hrws(s)
            \/ main_seq(s) \/ main_naive(s)
            \/ thread_divconq(s, u) \/ thread_rws(s, u) \/ thread_rws_cf(s, u) \/ thread_hrws(s, u)
       ELSE \/ kernel_barrier(s, u) \/ kernel_future(s, u) \/ kernel_cond(s, u) \/ kernel_yield(s, u)
            \/ kernel_forkjoin(s, u) \/ kernel_task(s, u) \/ kernel_revive(s, u)
            \/ kernel_task_revive(s, u) \/ kernel_ws(s, u)
            \/ thread_divconq(s, u) \/ thread_rws(s, u) \/ thread_rws_cf(s, u) \/ thread_hrws(s, u)

Next == \E s \in Streams : Stream(s)

\* A stream is a thread of the kernel; a pool is a FIFO that its stream serves.
Fairness == \A s \in UNION {0 .. c.n - 1 : c \in Setups} : WF_vars(s \in Streams /\ Stream(s))

Spec == Init /\ [][Next]_vars /\ Fairness

-----------------------------------------------------------------------------
(* Properties.                                                               *)

\* The block that u computes: the kernel has it in its arguments.
Computed(u) == IF u = Main /\ Is(Seq1) THEN AloneBlock ELSE <<Region(u)[1], Region(u)[2]>>

\* While a kernel computes a block, what it reads, the block and its neighbours in
\* values_old, is what the iteration before left there, from the first point to
\* the last: no neighbour is behind, and none overwrites what is still read.
HaloStable ==
  \A u \in DOMAIN ult : ult[u].pc = "compute" =>
    \A c \in Nbrs(Computed(u)) \cup {Computed(u)} : mem[T(u) % 2][c] = T(u)

\* When main() validates, values_old, after the swap of an odd number of
\* iterations, is the result of the sequential computation everywhere.
Validated == ult[Main].pc = "validate" => validate_values

\* The program has come to its validation, and the streams that it joined are down.
AllValidated == ult[Main].pc = "validate" /\ \A s \in Streams : Is(Seq1) \/ stop[s] = "down"
=============================================================================
