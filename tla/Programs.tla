------------------------------ MODULE Programs ------------------------------
(***************************************************************************)
(* The other example programs of Argobots: hello_world, fibonacci, the     *)
(* scheduling examples, and daxpy and async_engine of the profiling ones.  *)
(* Each creates work units on several streams, with its own schedulers and *)
(* pools, and ends when what they compute is complete.                     *)
(*                                                                         *)
(* A unit is named by the path that leads to it from main(): <<2, 1, 0, 0>>*)
(* is the first unit that the second unit of main() created.               *)
(***************************************************************************)
EXTENDS AbtApp, FiniteSets

CONSTANTS Setups,    \* records [prog, n, pools, lifo, thief, k, size]
          Repeats,   \* times that main() repeats the computation
          Slots      \* THREAD_POOL_SIZE of async_engine

VARIABLES val,     \* unit -> what it returned, or how often it printed
          arg,     \* unit -> <<from, to>>: the argument n is to - from
          y,       \* the vector of daxpy: additions to each element
          clock    \* async_engine: the operations whose time has come

vars == <<setup, ult, pool, running, stop, val, arg, y, clock>>

Is(ps) == setup.prog \in ps
Hello == {"hello", "hello_ws", "shared"}
Fib == {"fib_pf", "fib_cf"}
User == {"user", "pool_user"}

Kid(u, k) == [u EXCEPT ![CHOOSE j \in 1 .. 4 : u[j] = 0 /\ \A i \in 1 .. j - 1 : u[i] # 0] = k]
Units == {u \in (0 .. 3) \X (0 .. 3) \X (0 .. 2) \X (0 .. 1) :
            \A j \in 1 .. 3 : u[j] = 0 => u[j + 1] = 0}

Init == \E c \in Setups :
          /\ setup = c
          /\ ult = [u \in Units |-> Unit(IF u = Main THEN "create" ELSE "none", 0, 0)]
          /\ pool = [p \in 0 .. c.pools - 1 |-> <<>>]
          /\ running = [s \in 0 .. c.n - 1 |-> IF s = 0 THEN Main ELSE Nobody]
          /\ stop = [s \in 0 .. c.n - 1 |-> "up"]
          /\ val = [u \in Units |-> 0]
          /\ arg = [u \in Units |-> <<0, IF u = Main THEN c.size ELSE 0>>]
          /\ y = [i \in 0 .. c.size - 1 |-> 0]
          /\ clock = 0

I(u) == ult[u].i
T(u) == ult[u].t
Set(u, pc, i) == [ult EXCEPT ![u].pc = pc, ![u].i = i]
Count(u) == val' = [val EXCEPT ![u] = @ + 1]

-----------------------------------------------------------------------------
(* The functions of the units.                                               *)

\* One line is printed.
hello_world(s, u) ==
  /\ Is(Hello \cup {"predef"}) /\ At(s, u, "begin")
  /\ Count(u) /\ Finish(s, u) /\ UNCHANGED <<arg, y, clock>>

\* sched_user.c: three lines, with a yield after the first two.
thread_hello(s, u) ==
  /\ Is(User) /\ u[2] # 0 /\ ult[u].pc \in {"begin", "again"} /\ Up(s, u)
  /\ Count(u)
  /\ IF T(u) < 2 THEN Yield(s, u, [ult EXCEPT ![u].t = @ + 1, ![u].pc = "again"])
     ELSE Finish(s, u)
  /\ UNCHANGED <<arg, y, clock>>

\* u creates its units 1..setup.k in the pool p of its first step, and frees them.
Brood(s, u, p) ==
  /\ UNCHANGED <<arg, y, clock>>
  /\ \/ /\ At(s, u, "begin")
        /\ Go([ult EXCEPT ![u].pc = "create", ![u].t = p], <<>>) /\ UNCHANGED val
     \/ /\ At(s, u, "create") /\ I(u) <= setup.k
        /\ Go([Created(ult, Kid(u, I(u)), 0, T(u)) EXCEPT ![u].i = @ + 1], <<Kid(u, I(u))>>)
        /\ UNCHANGED val
     \/ /\ At(s, u, "create") /\ I(u) > setup.k
        /\ Go(Set(u, "join", 1), <<>>) /\ UNCHANGED val
     \/ /\ At(s, u, "join") /\ I(u) <= setup.k /\ UNCHANGED val
        /\ JoinOr(s, u, Kid(u, I(u)), FALSE,
             Go([ult EXCEPT ![u].i = @ + 1, ![Kid(u, I(u))].pc = "none"], <<>>))
     \/ At(s, u, "join") /\ I(u) > setup.k /\ Count(u) /\ Finish(s, u)
     \/ Joined(s, u) /\ UNCHANGED val

create_threads(s, u) == Is(User) /\ u[2] = 0 /\ Brood(s, u, s)

\* sched_stack.c: a scheduler with its own pool of setup.k tasklets is pushed, as a
\* unit, to the pool of the unit that made it ...
add_sched(s, u) ==
  /\ Is({"stack"}) /\ u[2] = 0
  /\ At(s, u, "begin")
  /\ LET M == Created(To(u, "adding"), Kid(u, 1), 0, ult[u].pool)
     IN Go(M, <<Kid(u, 1)>>)
  /\ Count(u) /\ UNCHANGED <<arg, y, clock>>

Added(s, u) == Is({"stack"}) /\ At(s, u, "adding") /\ Finish(s, u) /\ UNCHANGED <<val, arg, y, clock>>

\* ... and runs its tasklets until there are none.
task_hello(s, u) ==
  /\ Is({"stack"}) /\ u[2] = 1 /\ At(s, u, "begin")
  /\ IF T(u) < setup.k THEN Count(u) /\ Go([ult EXCEPT ![u].t = @ + 1], <<>>)
     ELSE Finish(s, u) /\ UNCHANGED val
  /\ UNCHANGED <<arg, y, clock>>

N(u) == arg[u][2] - arg[u][1]

\* A child is created for a part of the work and the function calls itself for the
\* rest; to tells whether the child runs at once.
Spawn(s, u, mine, rest, to) ==
  LET c == Kid(u, I(u)) M == [Created(ult, c, 0, s) EXCEPT ![u].i = @ + 1]
  IN /\ At(s, u, "begin") /\ UNCHANGED <<val, y, clock>>
     /\ arg' = [arg EXCEPT ![c] = mine, ![u] = rest]
     /\ IF to THEN /\ ult' = M /\ pool' = Push(M, <<u>>)
                   /\ running' = [running EXCEPT ![s] = c]
                   /\ UNCHANGED <<setup, stop>>
        ELSE Go(M, <<c>>)

\* The calls return, the last first, each after it has joined its child.
Unwind(s, u, back) ==
  LET c == Kid(u, I(u) - 1)
  IN /\ UNCHANGED <<arg, y, clock>>
     /\ \/ Joined(s, u) /\ UNCHANGED val
        \/ At(s, u, "join") /\ I(u) = 1 /\ back /\ UNCHANGED val
        \/ /\ At(s, u, "join") /\ I(u) > 1
           /\ JoinOr(s, u, c, FALSE, Go([ult EXCEPT ![u].i = @ - 1, ![c].pc = "none"], <<>>))
           /\ val' = IF ult[c].pc = "done" THEN [val EXCEPT ![u] = @ + val[c]] ELSE val

\* A unit ends; main() begins the next repetition.
Back(s, u) == IF u = Main THEN Go([ult EXCEPT ![Main].pc = "repeat", ![Main].t = @ + 1], <<>>)
              ELSE Finish(s, u)

fibonacci(s, u, to) ==
  \/ /\ At(s, u, "begin") /\ N(u) <= 1
     /\ val' = [val EXCEPT ![u] = 1] /\ Go(To(u, "join"), <<>>) /\ UNCHANGED <<arg, y, clock>>
  \/ N(u) > 1 /\ Spawn(s, u, <<0, N(u) - 1>>, <<0, N(u) - 2>>, to)
  \/ Unwind(s, u, Back(s, u))

fibonacci_pf(s, u) == Is({"fib_pf"}) /\ fibonacci(s, u, FALSE)
fibonacci_cf(s, u) == Is({"fib_cf"}) /\ fibonacci(s, u, TRUE)

\* The values of fib(i - 1) and fib(i - 2) after the loop up to n.
fibonacci_seq(n) ==
  IF n <= 1 THEN 1
  ELSE LET f[i \in 2 .. n] == IF i = 2 THEN <<1, 1>> ELSE <<f[i - 1][1] + f[i - 1][2], f[i - 1][1]>>
       IN f[n][1] + f[n][2]

Cutoff == 1

daxpy(s, u) ==
  LET from == arg[u][1] mid == from + N(u) \div 2
  IN /\ Is({"daxpy"})
     /\ \/ /\ At(s, u, "begin") /\ N(u) <= Cutoff
           /\ y' = [i \in DOMAIN y |-> IF i \in from .. from + N(u) - 1 THEN y[i] + 1 ELSE y[i]]
           /\ Go(To(u, "join"), <<>>) /\ UNCHANGED <<val, arg, clock>>
        \/ N(u) > Cutoff /\ Spawn(s, u, <<from, mid>>, <<mid, arg[u][2]>>, FALSE)
        \/ Unwind(s, u, Back(s, u))

\* async_engine: compute() of the size in the argument.
operation(s, u) ==
  /\ Is({"async"}) /\ At(s, u, "begin")
  /\ Count(u) /\ Finish(s, u) /\ UNCHANGED <<arg, y, clock>>

-----------------------------------------------------------------------------
(* main().                                                                   *)

\* The units of main(), in the order of their creation, with their pools.
Made == CASE Is({"hello", "hello_ws"}) -> [i \in 1 .. setup.k |-> (i - 1) % setup.n]
          [] Is({"shared"}) -> [i \in 1 .. setup.k |-> 0]
          [] OTHER -> [i \in 1 .. setup.n |-> i - 1]

\* All are created, then joined and freed.
CreateAll(s) ==
  LET k == I(Main) u == Kid(Main, k)
  IN /\ UNCHANGED <<val, arg, y, clock>>
     /\ \/ /\ At(s, Main, "create") /\ k <= Len(Made)
           /\ Go([Created(ult, u, 0, Made[k]) EXCEPT ![Main].i = k + 1], <<u>>)
        \/ At(s, Main, "create") /\ k > Len(Made) /\ Go(Set(Main, "join", 1), <<>>)
        \/ /\ At(s, Main, "join") /\ k <= Len(Made)
           /\ JoinOr(s, Main, u, FALSE, Go([ult EXCEPT ![Main].i = k + 1, ![u].pc = "none"], <<>>))
        \/ At(s, Main, "join") /\ k > Len(Made) /\ Go(Set(Main, "streams", 1), <<>>)
        \/ Joined(s, Main)
        \/ JoinStreams(s, Main, "returned")

main_hello(s) == Is({"hello"}) /\ CreateAll(s)
main_hello_ws(s) == Is({"hello_ws"}) /\ CreateAll(s)
main_shared(s) == Is({"shared"}) /\ CreateAll(s)
main_stack(s) == Is({"stack"}) /\ CreateAll(s)
main_user(s) == Is({"user"}) /\ CreateAll(s)
main_pool_user(s) == Is({"pool_user"}) /\ CreateAll(s)

\* sched_predef.c: an unnamed unit for every pool of every stream, the last pool
\* first; they end because the streams are joined.
Prio(s) == IF s % 2 = 0 THEN 3 ELSE 1
Unnamed == [k \in 1 .. 3 * setup.n |-> <<(k - 1) \div 3, 2 - ((k - 1) % 3)>>]
main_predef(s) ==
  LET k == I(Main) w == Unnamed[k] u == <<w[1] + 1, w[2] + 1, 0, 0>>
  IN /\ Is({"predef"}) /\ UNCHANGED <<val, arg, y, clock>>
     /\ \/ /\ At(s, Main, "create") /\ k <= Len(Unnamed)
           /\ IF w[2] < Prio(w[1])
              THEN Go([Created(ult, u, 0, w[1] + setup.n * w[2]) EXCEPT ![Main].i = k + 1], <<u>>)
              ELSE Go([ult EXCEPT ![Main].i = k + 1], <<>>)
        \/ At(s, Main, "create") /\ k > Len(Unnamed) /\ Go(Set(Main, "streams", 1), <<>>)
        \/ JoinStreams(s, Main, "returned")

\* fibonacci and daxpy: the function is called a number of times.
Repeated(s, again) ==
  \/ /\ (At(s, Main, "create") \/ (At(s, Main, "repeat") /\ T(Main) < Repeats))
     /\ again /\ arg' = [arg EXCEPT ![Main] = <<0, setup.size>>]
     /\ Go(Set(Main, "begin", 1), <<>>) /\ UNCHANGED <<y, clock>>
  \/ /\ At(s, Main, "repeat") /\ T(Main) = Repeats
     /\ Go(Set(Main, "streams", 1), <<>>) /\ UNCHANGED <<val, arg, y, clock>>
  \/ JoinStreams(s, Main, "returned") /\ UNCHANGED <<val, arg, y, clock>>

main_fibonacci(s) == Is(Fib) /\ Repeated(s, val' = [val EXCEPT ![Main] = 0])
main_daxpy(s) == Is({"daxpy"}) /\ Repeated(s, UNCHANGED val)

\* async_engine: main() goes round the slots, frees the operations that have
\* terminated and creates those whose time has come; T counts the operations
\* created, and val of main() the ones completed.
Due == clock > T(Main)
Busy(k) == ult[Kid(Main, k)].pc # "none"
Clock == /\ Is({"async"}) /\ ult[Main].pc = "create" /\ clock < setup.k
         /\ clock' = clock + 1
         /\ UNCHANGED <<setup, ult, pool, running, stop, val, arg, y>>

main_async(s) ==
  LET k == I(Main) u == Kid(Main, k) ended == ult[u].pc = "done"
      freed == IF ended THEN [ult EXCEPT ![u].pc = "none"] ELSE ult
      more == IF k = Slots THEN 1 ELSE k + 1
  IN /\ Is({"async"}) /\ UNCHANGED <<arg, y, clock>>
     /\ \/ /\ At(s, Main, "create") /\ val[Main] < setup.k
           /\ val' = [val EXCEPT ![Main] = IF ended THEN @ + 1 ELSE @]
           /\ IF Due /\ freed[u].pc = "none"
              THEN Go([Created(freed, u, 0, 1) EXCEPT ![Main].t = @ + 1, ![Main].i = more], <<u>>)
              ELSE Go([freed EXCEPT ![Main].i = more], <<>>)
        \/ /\ At(s, Main, "create") /\ val[Main] = setup.k
           /\ Go(Set(Main, "streams", 1), <<>>) /\ UNCHANGED val
        \/ JoinStreams(s, Main, "returned") /\ UNCHANGED val

-----------------------------------------------------------------------------
(* Schedulers and streams.                                                   *)

\* The pools that the scheduler of s looks at, in this order.
Served(s) == CASE Is({"hello_ws", "daxpy"} \cup Fib \cup User) -> Ring(s)
               [] Is({"shared"}) -> <<0>>
               [] Is({"predef"}) -> [j \in 1 .. Prio(s) |-> s + setup.n * (j - 1)]
               [] Is({"async"}) -> <<IF s = 0 THEN 0 ELSE 1>>
               [] OTHER -> <<s>>

\* sched_user.c and sched_and_pool_user.c: a stolen unit stays with its pool.
sched_run(s) == Is(User) /\ Pop(s, Random(s), FALSE)
\* async_engine: the secondary streams share one pool.
engine_run(s) == Is({"async"}) /\ s # 0 /\ Pop(s, First(<<1>>), FALSE)
Sched(s) == \/ ~Is(Fib \cup User) /\ (Is({"async"}) => s = 0) /\ Pop(s, First(Served(s)), FALSE)
            \/ Is(Fib) /\ Pop(s, Random(s), FALSE)
            \/ sched_run(s) \/ engine_run(s)

Terminate(s) == Stop(s, {Served(s)[j] : j \in DOMAIN Served(s)})

Body(s, u) ==
  \/ u = Main /\ (\/ main_hello(s) \/ main_hello_ws(s) \/ main_shared(s) \/ main_stack(s)
                  \/ main_user(s) \/ main_pool_user(s) \/ main_predef(s) \/ main_fibonacci(s)
                  \/ main_daxpy(s) \/ main_async(s))
  \/ u # Main /\ (\/ hello_world(s, u) \/ thread_hello(s, u) \/ create_threads(s, u)
                  \/ add_sched(s, u) \/ Added(s, u) \/ task_hello(s, u) \/ operation(s, u))
  \/ fibonacci_pf(s, u) \/ fibonacci_cf(s, u) \/ daxpy(s, u)

Stream(s) == \/ (Sched(s) \/ Terminate(s)) /\ UNCHANGED <<val, arg, y, clock>>
             \/ \E u \in {running[s]} \ {Nobody} : Body(s, u)

Next == Clock \/ \E s \in Streams : Stream(s)

\* Streams are threads of the kernel, and time passes.
Fairness == /\ WF_vars(Clock)
            /\ \A s \in UNION {0 .. c.n - 1 : c \in Setups} : WF_vars(s \in Streams /\ Stream(s))

Spec == Init /\ [][Next]_vars /\ Fairness

-----------------------------------------------------------------------------
(* Properties.                                                               *)

Kids == {u \in Units : u # Main /\ u[2] = 0}

\* When main() returns the computation is complete and done once: every hello and
\* operation was run, unnamed units and the tasklets of stacked schedulers
\* included, fibonacci() is what fibonacci_seq() is, and each element of the
\* vector has got one addition in each repetition.
Complete ==
  ult[Main].pc = "returned" =>
    CASE Is(Hello) -> \A i \in 1 .. setup.k : val[Kid(Main, i)] = 1
      [] Is({"predef"}) -> \A s \in Streams : \A j \in 1 .. Prio(s) : val[<<s + 1, j, 0, 0>>] = 1
      [] Is(User) -> \A i \in 1 .. setup.n : \A j \in 1 .. setup.k : val[<<i, j, 0, 0>>] = 3
      [] Is({"stack"}) -> \A i \in 1 .. setup.n : val[<<i, 1, 0, 0>>] = setup.k
      [] Is(Fib) -> val[Main] = fibonacci_seq(setup.size)
      [] Is({"daxpy"}) -> \A i \in DOMAIN y : y[i] = Repeats
      [] Is({"async"}) -> val[<<1, 0, 0, 0>>] + val[<<2, 0, 0, 0>>] + val[<<3, 0, 0, 0>>] = setup.k

\* A unit is in one place: on a stream, in a pool once, or neither, and then it
\* waits, has ended or has been freed.
OncePlaced ==
  \A u \in Units :
    LET places == Cardinality({s \in Streams : running[s] = u})
                  + Cardinality({<<p, i>> \in {<<p, i>> : p \in DOMAIN pool, i \in 1 .. 6} :
                                   i <= Len(pool[p]) /\ pool[p][i] = u})
    IN places = IF ult[u].pc \in {"none", "done"} THEN 0
                ELSE IF ult[u].pc \in {"joining", "stopping"} THEN places ELSE 1

\* The program has returned.
Returned == ult[Main].pc = "returned"
=============================================================================
