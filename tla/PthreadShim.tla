----------------------------- MODULE PthreadShim -----------------------------
(***************************************************************************)
(* The pthread functions of mylib.c, which run the threads of a program as *)
(* ULTs of Argobots.  Created thread i lives on core i % N_CORE.  A core    *)
(* runs one ULT until it yields, blocks or ends; the others of the core    *)
(* wait in its FIFO pool.                                                  *)
(*                                                                         *)
(* A mutex or condition variable is a word of the program's memory: zero   *)
(* (static initializer), a mark while it is being initialised, or a        *)
(* wrapper with the Argobots object.  What the Argobots calls do is        *)
(* modelled in AbtSync; here an Argobots mutex is its holder and waiters.  *)
(***************************************************************************)
EXTENDS Integers, Sequences, SequencesExt, FiniteSets, FiniteSetsExt

CONSTANTS Ult, Object, Null, N_CORE, N_KEY,
          MaxWraps,  \* bound on the wrappers allocated
          Setups     \* records [first, prog, slow]: the first thread, the calls
                     \* of each, and the init routines that yield

ShimAssumption == N_CORE \in Nat \ {0} /\ N_KEY \in Nat \ {0}

VARIABLES prog, slow,
          core,     \* ULT -> the core of its pool, or Null before pthread_create()
          gtid,     \* global_my_tid
          pool,     \* core -> its ready ULTs
          cur,      \* core -> the ULT it runs, or Null
          pc,       \* ULT -> the step of its call
          word,     \* object -> Zero, Busy or a wrapper; of once: Zero, Running, Done
          abt,      \* wrapper -> [holder, waiters] of the Argobots object
          mine,     \* ULT -> the wrapper get_abt_mutex() found
          inside,   \* ULT -> mutexes it has locked (as words of the program)
          keys,     \* abt_keys: slot -> the ULT whose key it is, or Null
          key,      \* ULT -> the slot of its key, or Null
          flag,     \* the program's condition, for which it waits
          runner    \* once object -> the ULT that runs it

callVars == <<word, abt, mine, inside, keys, key, flag, runner>>
vars == <<prog, slow, core, gtid, pool, cur, pc, callVars>>

Cores == 0 .. N_CORE - 1
Wraps == 1 .. MaxWraps
Zero == 0
Busy == -1      \* 0xffffffff
Running == 1    \* run_val and end_val of pthread_once()
Done == 2

Init == /\ \E s \in Setups :
             /\ prog = s.prog /\ slow = s.slow
             /\ core = [u \in Ult |-> IF u = s.first THEN 0 ELSE Null]
             /\ cur = [c \in Cores |-> IF c = 0 THEN s.first ELSE Null]
        /\ gtid = 0 /\ pool = [c \in Cores |-> <<>>]
        /\ pc = [u \in Ult |-> "call"]
        /\ word = [o \in Object |-> Zero]
        /\ abt = <<>>
        /\ mine = [u \in Ult |-> Null] /\ inside = [u \in Ult |-> {}]
        /\ keys = [k \in 0 .. N_KEY - 1 |-> Null] /\ key = [u \in Ult |-> Null]
        /\ flag = FALSE /\ runner = [o \in Object |-> Null]

On(u) == core[u] # Null /\ cur[core[u]] = u
At(u, l) == On(u) /\ pc[u] = l
Op(u) == Head(prog[u])
Name(u) == Op(u)[1]
Obj(u) == Op(u)[2]
Call(u, name) == At(u, "call") /\ prog[u] # <<>> /\ Name(u) = name
Goto(u, l) == pc' = [pc EXCEPT ![u] = l]
Same == UNCHANGED <<slow, core, gtid>>
Stay == UNCHANGED <<pool, cur>>

Return(u) == prog' = [prog EXCEPT ![u] = Tail(@)] /\ Goto(u, "call")

\* The core takes another ULT; ULTs ws become ready on their own cores.
Ready(ws) == [c \in Cores |-> pool[c] \o SelectSeq(ws, LAMBDA w : core[w] = c)]
Block(u) == cur' = [cur EXCEPT ![core[u]] = Null] /\ UNCHANGED pool
Yield(u) == cur' = [cur EXCEPT ![core[u]] = Null] /\ pool' = Ready(<<u>>)

Dispatch(c) ==
  /\ cur[c] = Null /\ pool[c] # <<>>
  /\ cur' = [cur EXCEPT ![c] = Head(pool[c])]
  /\ pool' = [pool EXCEPT ![c] = Tail(@)]
  /\ UNCHANGED <<prog, slow, core, gtid, pc, callVars>>

-----------------------------------------------------------------------------
(* Threads.                                                                  *)

PthreadCreate(u) ==
  /\ Call(u, "create") /\ core[Obj(u)] = Null
  /\ core' = [core EXCEPT ![Obj(u)] = gtid % N_CORE] /\ gtid' = gtid + 1
  /\ pool' = [pool EXCEPT ![gtid % N_CORE] = Append(@, Obj(u))]
  /\ Return(u)
  /\ UNCHANGED <<slow, cur, callVars>>

Ended(u) == core[u] # Null /\ prog[u] = <<>> /\ pc[u] = "end"

\* ABT_thread_join() lets other ULTs run until the thread has ended.
PthreadJoin(u) ==
  /\ Call(u, "join")
  /\ IF Ended(Obj(u)) THEN Return(u) /\ Stay ELSE Yield(u) /\ UNCHANGED <<prog, pc>>
  /\ Same /\ UNCHANGED callVars

End(u) ==
  /\ At(u, "call") /\ prog[u] = <<>>
  /\ Goto(u, "end") /\ Block(u)
  /\ Same /\ UNCHANGED <<prog, callVars>>

-----------------------------------------------------------------------------
(* get_abt_mutex() and get_abt_cond(): the first user of a static object     *)
(* initialises it; the others yield until the mark is gone.                  *)

Uses == {"lock", "trylock", "unlock", "wait", "signal", "broadcast", "destroy"}
Use(u) == \E n \in Uses : Call(u, n) /\ (n = "wait" => ~flag)

\* Mutant: the word is tested and then set, without compare-and-swap.
MutGet(u) ==
  /\ \/ /\ Use(u)
        /\ Goto(u, IF word[Obj(u)] = Zero THEN "mark" ELSE "got") /\ UNCHANGED word
     \/ /\ At(u, "mark")
        /\ word' = [word EXCEPT ![Obj(u)] = Busy] /\ Goto(u, "init")
  /\ Stay /\ Same /\ UNCHANGED <<prog, abt, mine, inside, keys, key, flag, runner>>

Get(u) ==
  /\ Use(u)
  /\ IF word[Obj(u)] = Zero
     THEN word' = [word EXCEPT ![Obj(u)] = Busy] /\ Goto(u, "init")
     ELSE UNCHANGED word /\ Goto(u, "got")
  /\ Stay /\ Same /\ UNCHANGED <<prog, abt, mine, inside, keys, key, flag, runner>>

\* pthread_mutex_init(), pthread_cond_init(): a new wrapper.
MutexInit(u) ==
  /\ At(u, "init") /\ Len(abt) < MaxWraps
  /\ abt' = Append(abt, [holder |-> Null, waiters |-> <<>>])
  /\ word' = [word EXCEPT ![Obj(u)] = Len(abt) + 1]
  /\ Goto(u, "got")
  /\ Stay /\ Same /\ UNCHANGED <<prog, mine, inside, keys, key, flag, runner>>

Got(u) ==
  /\ At(u, "got")
  /\ IF word[Obj(u)] = Busy THEN Yield(u) /\ UNCHANGED <<pc, mine>>
     ELSE /\ mine' = [mine EXCEPT ![u] = word[Obj(u)]]
          /\ Goto(u, Name(u)) /\ Stay
  /\ Same /\ UNCHANGED <<prog, word, abt, inside, keys, key, flag, runner>>

-----------------------------------------------------------------------------
(* Mutexes and condition variables, once their wrapper is known.  A wait is  *)
(* <<"wait", cond, mutex>>; the program waits in a loop until its flag is     *)
(* set, so a woken thread locks the mutex and looks again.                   *)

Held(u) == inside' = [inside EXCEPT ![u] = @ \cup {Obj(u)}]

MutexLock(u) ==
  /\ At(u, "lock")
  /\ IF abt[mine[u]].holder = Null
     THEN /\ abt' = [abt EXCEPT ![mine[u]].holder = u]
          /\ Held(u) /\ Return(u) /\ Stay
     ELSE /\ abt' = [abt EXCEPT ![mine[u]].waiters = Append(@, u)]
          /\ Block(u) /\ UNCHANGED <<prog, pc, inside>>
  /\ Same /\ UNCHANGED <<word, mine, keys, key, flag, runner>>

MutexTrylock(u) ==
  /\ At(u, "trylock")
  /\ IF abt[mine[u]].holder = Null
     THEN abt' = [abt EXCEPT ![mine[u]].holder = u] /\ Held(u)
          /\ prog' = [prog EXCEPT ![u] = Tail(@)]
     ELSE \* refused: the program goes on without the calls of the critical section
          prog' = [prog EXCEPT ![u] = Tail(Tail(@))] /\ UNCHANGED <<abt, inside>>
  /\ Goto(u, "call") /\ Stay
  /\ Same /\ UNCHANGED <<word, mine, keys, key, flag, runner>>

\* The unlock of Argobots wakes every waiter; each tries again.
Unlocked(w) == [abt EXCEPT ![w] = [holder |-> Null, waiters |-> <<>>]]

MutexUnlock(u) ==
  /\ At(u, "unlock")
  /\ abt' = Unlocked(mine[u]) /\ pool' = Ready(abt[mine[u]].waiters)
  /\ inside' = [inside EXCEPT ![u] = @ \ {Obj(u)}]
  /\ Return(u)
  /\ Same /\ UNCHANGED <<cur, word, mine, keys, key, flag, runner>>

\* The mutex of a wait was locked, so its word is a wrapper.  The waiter joins
\* the condition variable before it releases the mutex.
CondWait(u) ==
  LET m == Op(u)[3] w == word[m]
  IN /\ At(u, "wait")
     /\ abt' = [Unlocked(w) EXCEPT ![mine[u]].waiters = Append(@, u)]
     /\ cur' = [cur EXCEPT ![core[u]] = Null] /\ pool' = Ready(abt[w].waiters)
     /\ inside' = [inside EXCEPT ![u] = @ \ {m}]
     /\ prog' = [prog EXCEPT ![u] = <<<<"lock", m>>>> \o @]
     /\ Goto(u, "call")
     /\ Same /\ UNCHANGED <<word, mine, keys, key, flag, runner>>

CondSignal(u) ==
  LET ws == abt[mine[u]].waiters
      n == IF At(u, "signal") /\ ws # <<>> THEN 1 ELSE Len(ws)
  IN /\ At(u, "signal") \/ At(u, "broadcast")
     /\ pool' = Ready(SubSeq(ws, 1, n))
     /\ abt' = [abt EXCEPT ![mine[u]].waiters = SubSeq(ws, n + 1, Len(ws))]
     /\ Return(u)
     /\ Same /\ UNCHANGED <<cur, word, mine, inside, keys, key, flag, runner>>

\* pthread_mutex_destroy(): the wrapper is freed; the word keeps its address.
MutexDestroy(u) ==
  /\ At(u, "destroy")
  /\ abt' = [abt EXCEPT ![mine[u]] = [holder |-> "freed", waiters |-> <<>>]]
  /\ Return(u) /\ Stay
  /\ Same /\ UNCHANGED <<word, mine, inside, keys, key, flag, runner>>

\* The program sets its flag, or finds it set when it would wait.
Flag(u) ==
  /\ \/ Call(u, "set") /\ flag' = TRUE
     \/ Call(u, "wait") /\ flag /\ UNCHANGED flag
  /\ Return(u) /\ Stay
  /\ Same /\ UNCHANGED <<word, abt, mine, inside, keys, key, runner>>

-----------------------------------------------------------------------------
(* Keys: the slot table is locked by create, not by delete.                  *)

Free == {k \in DOMAIN keys : keys[k] = Null}

KeyCreate(u) ==
  /\ Call(u, "key_create")
  /\ IF Free = {} THEN UNCHANGED <<keys, key>>
     ELSE /\ keys' = [keys EXCEPT ![Min(Free)] = u]
          /\ key' = [key EXCEPT ![u] = Min(Free)]
  /\ Return(u) /\ Stay
  /\ Same /\ UNCHANGED <<word, abt, mine, inside, flag, runner>>

\* ABT_key_free(), free(), then the slot is cleared.
KeyDelete(u) ==
  /\ Call(u, "key_delete")
  /\ IF key[u] # Null
     THEN key' = [key EXCEPT ![u] = Null] /\ UNCHANGED <<keys, prog, pc>>
     ELSE keys' = [k \in DOMAIN keys |-> IF keys[k] = u THEN Null ELSE keys[k]]
          /\ Return(u) /\ UNCHANGED key
  /\ Stay /\ Same /\ UNCHANGED <<word, abt, mine, inside, flag, runner>>

-----------------------------------------------------------------------------
(* pthread_once(): a loser spins on the processor, it does not yield.        *)

PthreadOnce(u) ==
  /\ Call(u, "once")
  /\ IF word[Obj(u)] = Zero
     THEN /\ word' = [word EXCEPT ![Obj(u)] = Running]
          /\ runner' = [runner EXCEPT ![Obj(u)] = u]
          /\ Goto(u, "routine")
     ELSE UNCHANGED <<word, runner>> /\ Goto(u, "spin")
  /\ Stay /\ Same /\ UNCHANGED <<prog, abt, mine, inside, keys, key, flag>>

\* The init routine of the program, which may yield.
Routine(u) ==
  /\ At(u, "routine")
  /\ Goto(u, "once_end")
  /\ IF Obj(u) \in slow THEN Yield(u) ELSE Stay
  /\ Same /\ UNCHANGED <<prog, word, abt, mine, inside, keys, key, flag, runner>>

OnceEnd(u) ==
  /\ \/ At(u, "once_end") /\ word' = [word EXCEPT ![Obj(u)] = Done]
     \/ At(u, "spin") /\ word[Obj(u)] = Done /\ UNCHANGED word
  /\ Return(u) /\ Stay
  /\ Same /\ UNCHANGED <<abt, mine, inside, keys, key, flag, runner>>

-----------------------------------------------------------------------------
Step(u) == \/ PthreadCreate(u) \/ PthreadJoin(u) \/ End(u)
           \/ Get(u) \/ MutexInit(u) \/ Got(u)
           \/ MutexLock(u) \/ MutexTrylock(u) \/ MutexUnlock(u)
           \/ CondWait(u) \/ CondSignal(u) \/ MutexDestroy(u) \/ Flag(u)
           \/ KeyCreate(u) \/ KeyDelete(u)
           \/ PthreadOnce(u) \/ Routine(u) \/ OnceEnd(u)

CoreStep(c) == Dispatch(c) \/ \E u \in Ult : On(u) /\ core[u] = c /\ Step(u)

Next == \E c \in Cores : CoreStep(c)

\* A core never stops; its pool is a queue.
Spec == Init /\ [][Next]_vars /\ \A c \in Cores : WF_vars(CoreStep(c))

-----------------------------------------------------------------------------
(* Properties.                                                               *)

\* A statically initialised mutex is one mutex, however many threads use it
\* first at the same time: two threads are never inside it.
OneMutex == \A u, v \in Ult : u # v => inside[u] \cap inside[v] = {}

\* Two keys that exist have different slots of abt_keys, although delete does
\* not take the lock that create takes.
KeySlots == \A u, v \in Ult : u # v /\ key[u] # Null => key[u] # key[v] /\ keys[key[u]] = u

\* A thread spins in pthread_once() on the core of the thread that runs the
\* init routine, which waits for that core.
Inversion == \E u \in Ult : /\ pc[u] = "spin" /\ word[Obj(u)] = Running
                            /\ core[runner[Obj(u)]] = core[u]

AllEnded == (\A u \in Ult : Ended(u)) \/ Inversion

\* Every thread ends: no wakeup is lost between two objects that stand for one
\* word, and the only wait that never ends is the spin of pthread_once() on the
\* core of a thread that yielded inside its init routine.
ThreadsEnd == <>AllEnded
=============================================================================
