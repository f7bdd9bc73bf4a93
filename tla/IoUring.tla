------------------------------- MODULE IoUring -------------------------------
(***************************************************************************)
(* The io_uring backend: iouringlib.c and its callers __io_uring_read(),   *)
(* __io_uring_write() and __io_uring_bottom() in hook.c, on one core.      *)
(*                                                                         *)
(* The ULTs of the core share one ring and run one at a time: a ULT keeps  *)
(* the core until ult_yield(), and a system call that waits stops the      *)
(* whole core.  A request is the slot of its entry (user_data); its        *)
(* completion sets the slot's done_flag.  The kernel completes requests in *)
(* any order, may fail one, may refuse a submission, and a signal may      *)
(* interrupt a wait.                                                       *)
(***************************************************************************)
EXTENDS Integers, Sequences, FiniteSets

CONSTANTS Ult, Null,
          IOURING_DEPTH,
          Calls,         \* bound on the reads and writes of a ULT
          MaxFaults,     \* bound on the faults of a behaviour
          Faults         \* of "fail", "refuse", "signal": what may go wrong

RingAssumption == IOURING_DEPTH \in Nat \ {0} /\ Null \notin Ult

VARIABLES sqHead, sqTail,  \* free-running counters of the submission ring
          sqe,             \* slot -> the ULT whose request is in it
          done_flag,       \* slot -> 0 or 1
          flying,          \* the requests [slot, ult] the kernel works on
          cq,              \* completions [slot, ult, ok] from the head on
          pool, cur,       \* the ready ULTs of the core and the one that runs
          pc, slot,        \* ULT -> the step of its call, and its sqe_id
          calls,           \* ULT -> calls it has still to make
          completed,       \* the ULTs whose present request the kernel ended
          lapped,          \* a slot was given away while its request was unfinished
          faults           \* the faults so far

ring == <<sqHead, sqTail, sqe, done_flag, cq>>
kernel == <<flying, completed, lapped, faults>>
ults == <<pool, cur, pc, slot, calls>>
vars == <<ring, kernel, ults>>

Slots == 0 .. IOURING_DEPTH - 1

\* iouring_setup(): an empty ring, every done_flag set.
Init == /\ sqHead = 0 /\ sqTail = 0
        /\ sqe = [i \in Slots |-> Null] /\ done_flag = [i \in Slots |-> 1]
        /\ flying = {} /\ cq = <<>> /\ completed = {} /\ lapped = FALSE /\ faults = <<>>
        /\ pool = CHOOSE q \in [1 .. Cardinality(Ult) -> Ult] :  \* the ULTs are alike
                     \A i, j \in DOMAIN q : i # j => q[i] # q[j]
        /\ cur = Null
        /\ pc = [u \in Ult |-> "op"] /\ slot = [u \in Ult |-> Null]
        /\ calls = [u \in Ult |-> Calls]

At(u, l) == cur = u /\ pc[u] = l
Goto(u, l) == pc' = [pc EXCEPT ![u] = l]
Fault(f) == f \in Faults /\ Len(faults) < MaxFaults /\ faults' = Append(faults, f)
Happened(f) == \E i \in DOMAIN faults : faults[i] = f

Dispatch == /\ cur = Null /\ pool # <<>>
            /\ cur' = Head(pool) /\ pool' = Tail(pool)
            /\ UNCHANGED <<ring, kernel, pc, slot, calls>>

\* The slots of the entries the kernel has not taken.
Entries == {n % IOURING_DEPTH : n \in sqHead .. sqTail - 1}

\* Lap(i): slot i is used again; was its last request unfinished or not taken?
Lap(i) == lapped' = \/ lapped \/ i \in Entries
                    \/ \E r \in flying : r.slot = i
                    \/ \E k \in DOMAIN cq : cq[k].slot = i

\* Mutant: the flag of the slot is left as the last request set it.
MutOp(u) ==
  LET next == sqTail + 1 index == sqTail % IOURING_DEPTH
  IN /\ At(u, "op") /\ calls[u] > 0 /\ next # sqHead
     /\ sqTail' = next
     /\ sqe' = [sqe EXCEPT ![index] = u]
     /\ slot' = [slot EXCEPT ![u] = index]
     /\ completed' = completed \ {u} /\ Lap(index) /\ Goto(u, "submit")
     /\ UNCHANGED <<sqHead, done_flag, flying, cq, pool, cur, calls, faults>>

\* iouring_get_sqe() and iouring_op().  The ring is full when the next tail is
\* the head, which counters that are never reduced do not reach: then the entry
\* of the oldest request would be overwritten.
Op(u) ==
  LET next == sqTail + 1 index == sqTail % IOURING_DEPTH
  IN /\ At(u, "op") /\ calls[u] > 0 /\ next # sqHead
     /\ sqTail' = next
     /\ sqe' = [sqe EXCEPT ![index] = u]
     /\ done_flag' = [done_flag EXCEPT ![index] = 0]
     /\ slot' = [slot EXCEPT ![u] = index]
     /\ completed' = completed \ {u} /\ Lap(index) /\ Goto(u, "submit")
     /\ UNCHANGED <<sqHead, flying, cq, pool, cur, calls, faults>>

\* iouring_submit(s, 1): the kernel takes the oldest entry, or none.
Submit(u) ==
  /\ At(u, "submit") /\ Goto(u, "wait")
  /\ \/ /\ sqHead' = sqHead + 1
        /\ LET i == sqHead % IOURING_DEPTH IN flying' = flying \cup {[slot |-> i, ult |-> sqe[i]]}
        /\ UNCHANGED faults
     \/ Fault("refuse") /\ UNCHANGED <<sqHead, flying>>
  /\ UNCHANGED <<sqTail, sqe, done_flag, cq, completed, lapped, pool, cur, slot, calls>>

\* iouring_getevents() returns when there is a completion, or on a signal.
GetEvents(u) ==
  /\ At(u, "wait") /\ Goto(u, "check")
  /\ \/ cq # <<>> /\ UNCHANGED faults
     \/ cq = <<>> /\ Fault("signal")
  /\ UNCHANGED <<ring, flying, completed, lapped, pool, cur, slot, calls>>

\* The kernel ends a request while a ULT of the core runs or waits.
Complete ==
  \E r \in flying, ok \in BOOLEAN :
    /\ flying' = flying \ {r}
    /\ cq' = Append(cq, [slot |-> r.slot, ult |-> r.ult, ok |-> ok])
    /\ completed' = IF ok THEN completed \cup {r.ult} ELSE completed
    /\ IF ok THEN UNCHANGED faults ELSE Fault("fail")
    /\ UNCHANGED <<sqHead, sqTail, sqe, done_flag, lapped, ults>>

-----------------------------------------------------------------------------
\* The completions before the first failed one.
Good == {k \in DOMAIN cq : \A m \in 1 .. k : cq[m].ok}

\* Mutant: the last completion is passed over.
MutCheck(u) ==
  /\ At(u, "check") /\ Goto(u, "look")
  /\ done_flag' = [i \in Slots |-> IF \E k \in Good \ {Len(cq)} : cq[k].slot = i THEN 1 ELSE done_flag[i]]
  /\ cq' = IF Good = DOMAIN cq THEN <<>> ELSE cq
  /\ UNCHANGED <<sqHead, sqTail, sqe, kernel, pool, cur, slot, calls>>

\* iouring_check(): at a failed completion it returns without storing the
\* head, so the completions before it are taken again by the next check.
Check(u) ==
  /\ At(u, "check") /\ Goto(u, "look")
  /\ done_flag' = [i \in Slots |-> IF \E k \in Good : cq[k].slot = i THEN 1 ELSE done_flag[i]]
  /\ cq' = IF Good = DOMAIN cq THEN <<>> ELSE cq
  /\ UNCHANGED <<sqHead, sqTail, sqe, kernel, pool, cur, slot, calls>>

\* __io_uring_bottom(): the call returns when the flag is set, or yields.
Look(u) ==
  /\ At(u, "look")
  /\ IF done_flag[slot[u]] = 1
     THEN /\ calls' = [calls EXCEPT ![u] = @ - 1]
          /\ Goto(u, "op") /\ UNCHANGED <<pool, cur>>
     ELSE /\ Goto(u, "wait")
          /\ pool' = Append(pool, u) /\ cur' = Null /\ UNCHANGED calls
  /\ UNCHANGED <<ring, kernel, slot>>

\* Between two calls the program may yield, or end.
Leave(u) ==
  /\ At(u, "op") /\ cur' = Null
  /\ IF calls[u] = 0 THEN Goto(u, "end") /\ UNCHANGED pool
     ELSE pool # <<>> /\ pool' = Append(pool, u) /\ UNCHANGED pc
  /\ UNCHANGED <<ring, kernel, slot, calls>>

Step(u) == Op(u) \/ Submit(u) \/ GetEvents(u) \/ Check(u) \/ Look(u) \/ Leave(u)

Next == Dispatch \/ Complete \/ \E u \in Ult : Step(u)

\* A core runs on, a program does not only yield, and the kernel ends requests.
Spec == /\ Init /\ [][Next]_vars
        /\ WF_vars(Dispatch) /\ WF_vars(Complete)
        /\ \A u \in Ult : /\ WF_vars(Submit(u) \/ GetEvents(u) \/ Check(u) \/ Look(u))
                          /\ SF_vars(Op(u)) /\ WF_vars(Leave(u) /\ calls[u] = 0)

-----------------------------------------------------------------------------
(* Properties.                                                               *)

\* A read or write returns only after the kernel has ended its own request,
\* also when a check is broken off at a failed completion and the completions
\* before it are taken twice.  The one exception is a ring lapped by faster
\* requests: a slot used again before its request is finished.
OwnCompletion == \A u \in Ult :
  pc[u] = "look" /\ done_flag[slot[u]] = 1 => u \in completed \/ lapped

\* The core waits in iouring_getevents() and the kernel has nothing to end.
Stuck == cur # Null /\ pc[cur] = "wait" /\ cq = <<>> /\ flying = {}

Settled == \/ \A u \in Ult : calls[u] = 0
           \/ Happened("fail") \/ Happened("refuse")
           \/ Happened("signal") /\ Stuck /\ done_flag[slot[cur]] = 1

\* Every call returns, or the kernel failed a request or refused one, or the
\* core is stuck because a ULT waits although its own request was completed
\* and taken from the ring by another one after a signal.
CallsReturn == <>Settled
=============================================================================
