---------------------------- MODULE IoUringProofs ----------------------------
(***************************************************************************)
(* Proof that a read or write through io_uring returns only after its own  *)
(* request (IoUring!OwnCompletion), for every depth of the ring, number of *)
(* ULTs, calls and faults.                                                 *)
(***************************************************************************)
EXTENDS IoUring, SequenceTheorems, TLAPS

USE ZenonT(60)

Someone == Ult \cup {Null}
Request == [slot : Slots, ult : Someone]
Completion == [slot : Slots, ult : Someone, ok : BOOLEAN]

TypeOK ==
  /\ sqHead \in Nat /\ sqTail \in Nat
  /\ sqe \in [Slots -> Someone] /\ done_flag \in [Slots -> {0, 1}]
  /\ flying \in SUBSET Request /\ cq \in Seq(Completion)
  /\ pc \in [Ult -> {"op", "submit", "wait", "check", "look", "end"}]
  /\ slot \in [Ult -> Slots \cup {Null}]
  /\ completed \in SUBSET Someone /\ lapped \in BOOLEAN

\* A ULT gives up the core only between iouring_submit() and its return, so
\* the one that is about to submit runs, and its entry is in the ring.
SubmitInv ==
  /\ sqHead <= sqTail
  /\ \A u \in Ult : pc[u] = "submit" => cur = u /\ sqHead < sqTail

Waiting(u) == pc[u] \in {"submit", "wait", "check", "look"}

\* The request in slot i is somewhere between iouring_op() and iouring_check().
Somewhere(i) ==
  \/ i \in Entries
  \/ \E r \in flying : r.slot = i
  \/ \E k \in DOMAIN cq : cq[k].slot = i

\* Whatever is in the slot of a request that is not over belongs to it.
Mine(u) ==
  /\ done_flag[slot[u]] = 0
  /\ Somewhere(slot[u])
  /\ slot[u] \in Entries => sqe[slot[u]] = u
  /\ \A r \in flying : r.slot = slot[u] => r.ult = u
  /\ \A k \in DOMAIN cq : cq[k].slot = slot[u] => cq[k].ult = u /\ ~cq[k].ok

SlotInv ==
  \A u \in Ult : Waiting(u) => slot[u] \in Slots /\ (u \in completed \/ Mine(u))

IInv == TypeOK /\ SubmitInv /\ (lapped \/ SlotInv)


-----------------------------------------------------------------------------
\* Taking the slot of a free-running counter is defined.
LEMMA SlotOf == ASSUME RingAssumption, NEW n \in Nat PROVE n % IOURING_DEPTH \in Slots
BY SMTT(60) DEF RingAssumption, Slots

\* iouring_setup() establishes the invariant.
LEMMA InitInv == ASSUME RingAssumption PROVE Init => IInv
<1> SUFFICES ASSUME Init PROVE IInv
  OBVIOUS
<1>1. TypeOK
  <2>1. cq \in Seq(Completion)
    BY EmptySeq DEF Init
  <2>2. flying \in SUBSET Request /\ completed \in SUBSET Someone /\ lapped \in BOOLEAN
    BY DEF Init
  <2> QED BY <2>1, <2>2 DEF Init, TypeOK, Someone
<1>2. SubmitInv /\ SlotInv
  BY SMTT(60) DEF Init, SubmitInv, SlotInv, Waiting
<1> QED BY <1>1, <1>2 DEF IInv

\* iouring_op() in slot i: unless the slot is still in use, the requests of
\* others that are not over are in other slots.
LEMMA OpInv == ASSUME RingAssumption, IInv, NEW u \in Ult, Op(u) PROVE IInv'
<1> DEFINE i == sqTail % IOURING_DEPTH
<1>1. i \in Slots
  BY SlotOf DEF IInv, TypeOK
<1>2. TypeOK'
  BY <1>1, SMTT(60) DEF IInv, TypeOK, Op, At, Goto, Lap, Someone
<1>3. SubmitInv'
  BY SMTT(60) DEF IInv, TypeOK, SubmitInv, Op, At, Goto
<1>4. ASSUME ~lapped' PROVE SlotInv'
  <2>1. ~lapped /\ SlotInv /\ ~Somewhere(i)
    BY <1>4 DEF IInv, Op, Lap, Somewhere
  <2>2. Entries' = Entries \cup {i}
    BY SMTT(60) DEF IInv, TypeOK, SubmitInv, Op, Entries
  <2>3. SUFFICES ASSUME NEW v \in Ult, Waiting(v)'
                 PROVE  slot'[v] \in Slots /\ (v \in completed' \/ Mine(v)')
    BY DEF SlotInv
  <2>4. CASE v = u
    <3>1. slot'[v] = i /\ done_flag'[i] = 0 /\ sqe'[i] = u
      BY <1>1, <2>4 DEF IInv, TypeOK, Op
    <3>2. Mine(v)'
      BY <2>1, <2>2, <2>4, <3>1, SMTT(60) DEF Op, Mine, Somewhere
    <3> QED BY <1>1, <3>1, <3>2
  <2>5. CASE v # u
    <3>1. Waiting(v) /\ slot'[v] = slot[v] /\ (v \in completed => v \in completed')
      BY <2>3, <2>5 DEF IInv, TypeOK, Op, Goto, Waiting
    <3>2. slot[v] \in Slots /\ (v \in completed \/ Mine(v))
      BY <2>1, <3>1 DEF SlotInv
    <3>3. ASSUME Mine(v) PROVE Mine(v)'
      <4>1. slot[v] # i
        BY <2>1, <3>3 DEF Mine
      <4>2. done_flag'[slot[v]] = done_flag[slot[v]] /\ sqe'[slot[v]] = sqe[slot[v]]
        BY <3>2, <4>1 DEF IInv, TypeOK, Op
      <4> QED BY <2>2, <3>1, <3>3, <4>1, <4>2, SMTT(60) DEF Op, Mine, Somewhere
    <3> QED BY <3>1, <3>2, <3>3
  <2> QED BY <2>4, <2>5
<1> QED BY <1>2, <1>3, <1>4 DEF IInv

\* iouring_submit(): the oldest entry moves from the ring to the kernel, with
\* the request it holds.
LEMMA SubmitPreserves == ASSUME RingAssumption, IInv, NEW u \in Ult, Submit(u) PROVE IInv'
<1> DEFINE i == sqHead % IOURING_DEPTH
<1>1. i \in Slots /\ sqHead < sqTail /\ i \in Entries
  BY SlotOf, SMTT(60) DEF IInv, TypeOK, SubmitInv, Submit, At, Entries
<1>2. TypeOK'
  BY <1>1, SMTT(60) DEF IInv, TypeOK, Submit, At, Goto, Request
<1>3. SubmitInv'
  BY <1>1, SMTT(60) DEF IInv, TypeOK, SubmitInv, Submit, At, Goto
<1>4. ASSUME ~lapped' PROVE SlotInv'
  <2>1. ~lapped /\ SlotInv
    BY <1>4 DEF IInv, Submit
  <2>2. SUFFICES ASSUME NEW v \in Ult, Waiting(v)'
                 PROVE  slot'[v] \in Slots /\ (v \in completed' \/ Mine(v)')
    BY DEF SlotInv
  <2>3. Waiting(v) /\ slot' = slot /\ completed' = completed
    BY <2>2 DEF IInv, TypeOK, Submit, At, Goto, Waiting
  <2>4. slot[v] \in Slots /\ (v \in completed \/ Mine(v))
    BY <2>1, <2>3 DEF SlotInv
  <2>5. ASSUME Mine(v), sqHead' = sqHead + 1,
               flying' = flying \cup {[slot |-> i, ult |-> sqe[i]]}
        PROVE  Mine(v)'
    <3>1. Entries' \subseteq Entries /\ Entries \subseteq Entries' \cup {i}
      BY <2>5, SMTT(60) DEF IInv, TypeOK, SubmitInv, Submit, Entries
    <3>2. Somewhere(slot[v])'
      <4>1. [slot |-> i, ult |-> sqe[i]] \in flying' /\ flying \subseteq flying'
        BY <2>5
      <4>2. CASE slot[v] = i
        BY <2>3, <4>1, <4>2 DEF Somewhere
      <4>3. CASE slot[v] # i
        BY <2>3, <2>5, <3>1, <4>1, <4>3 DEF Submit, Mine, Somewhere
      <4> QED BY <4>2, <4>3
    <3>3. \A r \in flying' : r.slot = slot[v] => r.ult = v
      BY <1>1, <2>5, SMTT(60) DEF Mine
    <3> QED BY <2>3, <2>5, <3>1, <3>2, <3>3 DEF Submit, Mine
  <2>6. ASSUME Mine(v), UNCHANGED <<sqHead, flying>> PROVE Mine(v)'
    BY <2>3, <2>6 DEF Submit, Mine, Somewhere, Entries
  <2> QED BY <2>3, <2>4, <2>5, <2>6 DEF Submit
<1> QED BY <1>2, <1>3, <1>4 DEF IInv

\* The kernel ends a request: it is completed, or its completion is a failed
\* one, which never leaves the queue.
LEMMA CompletePreserves == ASSUME RingAssumption, IInv, Complete PROVE IInv'
<1>1. PICK r \in flying, ok \in BOOLEAN :
        /\ flying' = flying \ {r}
        /\ cq' = Append(cq, [slot |-> r.slot, ult |-> r.ult, ok |-> ok])
        /\ completed' = IF ok THEN completed \cup {r.ult} ELSE completed
        /\ UNCHANGED <<sqHead, sqTail, sqe, done_flag, lapped, ults>>
  BY DEF Complete
<1> DEFINE c == [slot |-> r.slot, ult |-> r.ult, ok |-> ok]
<1>2. r \in Request /\ c \in Completion /\ cq \in Seq(Completion)
  BY DEF IInv, TypeOK, Request, Completion
<1>3. /\ cq' \in Seq(Completion)
      /\ DOMAIN cq' = DOMAIN cq \cup {Len(cq) + 1}
      /\ \A k \in DOMAIN cq : cq'[k] = cq[k]
      /\ cq'[Len(cq) + 1] = c
  BY <1>1, <1>2, AppendProperties, LenProperties, SMTT(60)
<1>4. TypeOK'
  BY <1>1, <1>2, <1>3 DEF IInv, TypeOK, Request, ults
<1>5. SubmitInv'
  BY <1>1 DEF IInv, SubmitInv, ults
<1>6. ASSUME ~lapped' PROVE SlotInv'
  <2>1. ~lapped /\ SlotInv
    BY <1>1, <1>6 DEF IInv
  <2>2. SUFFICES ASSUME NEW v \in Ult, Waiting(v)'
                 PROVE  slot'[v] \in Slots /\ (v \in completed' \/ Mine(v)')
    BY DEF SlotInv
  <2>3. Waiting(v) /\ slot' = slot /\ completed \subseteq completed'
    BY <1>1, <2>2 DEF Waiting, ults
  <2>4. slot[v] \in Slots /\ (v \in completed \/ Mine(v))
    BY <2>1, <2>3 DEF SlotInv
  <2>5. ASSUME Mine(v), v \notin completed' PROVE Mine(v)'
    <3>1. r.slot = slot[v] => r.ult = v /\ ~ok
      BY <1>1, <2>5 DEF Mine
    <3>2. \A k \in DOMAIN cq' : cq'[k].slot = slot[v] => cq'[k].ult = v /\ ~cq'[k].ok
      BY <1>3, <2>5, <3>1, SMTT(60) DEF Mine
    <3>3. Somewhere(slot[v])'
      <4>1. Entries' = Entries
        BY <1>1 DEF Entries
      <4>2. Somewhere(slot[v])
        BY <2>5 DEF Mine
      <4> QED BY <1>1, <1>3, <2>3, <4>1, <4>2, SMTT(60) DEF Somewhere
    <3>4. Entries' = Entries
      BY <1>1 DEF Entries
    <3> QED BY <1>1, <2>3, <2>5, <3>2, <3>3, <3>4 DEF Mine
  <2> QED BY <2>3, <2>4, <2>5
<1> QED BY <1>4, <1>5, <1>6 DEF IInv

\* iouring_check() sets the flags of completed requests only, and it empties
\* the queue only when no completion in it failed.
LEMMA CheckPreserves == ASSUME RingAssumption, IInv, NEW u \in Ult, Check(u) PROVE IInv'
<1>1. cq \in Seq(Completion) /\ DOMAIN cq = 1 .. Len(cq) /\ Len(cq) \in Nat
  BY LenProperties DEF IInv, TypeOK
<1>2. \A k \in Good : k \in DOMAIN cq /\ cq[k].ok
  BY <1>1, SMTT(60) DEF Good
<1>3. TypeOK'
  BY EmptySeq DEF IInv, TypeOK, Check, At, Goto, kernel
<1>4. SubmitInv'
  BY DEF IInv, TypeOK, SubmitInv, Check, At, Goto
<1>5. ASSUME ~lapped' PROVE SlotInv'
  <2>1. ~lapped /\ SlotInv
    BY <1>5 DEF IInv, Check, kernel
  <2>2. SUFFICES ASSUME NEW v \in Ult, Waiting(v)'
                 PROVE  slot'[v] \in Slots /\ (v \in completed' \/ Mine(v)')
    BY DEF SlotInv
  <2>3. Waiting(v) /\ slot' = slot /\ completed' = completed /\ flying' = flying
    BY <2>2 DEF IInv, TypeOK, Check, At, Goto, Waiting, kernel
  <2>4. slot[v] \in Slots /\ (v \in completed \/ Mine(v))
    BY <2>1, <2>3 DEF SlotInv
  <2>5. ASSUME Mine(v) PROVE Mine(v)'
    <3>1. done_flag'[slot[v]] = 0
      BY <1>2, <2>4, <2>5 DEF Check, Mine
    <3>2. Entries' = Entries /\ sqe' = sqe
      BY DEF Check, Entries
    <3>3. cq' = cq \/ (cq' = <<>> /\ \A k \in DOMAIN cq : cq[k].ok)
      BY <1>2 DEF Check
    <3>4. Somewhere(slot[v])' /\ \A k \in DOMAIN cq' : cq'[k].slot = slot[v] => cq'[k].ult = v /\ ~cq'[k].ok
      BY <2>3, <2>5, <3>2, <3>3, SMTT(60) DEF Mine, Somewhere
    <3> QED BY <2>3, <2>5, <3>1, <3>2, <3>4 DEF Mine
  <2> QED BY <2>3, <2>4, <2>5
<1> QED BY <1>3, <1>4, <1>5 DEF IInv

\* The other steps move the core and the position of a ULT in its call.
LEMMA MovePreserves ==
  ASSUME RingAssumption, IInv,
         UNCHANGED <<sqHead, sqTail, sqe, done_flag, cq, flying, completed, lapped, slot>>,
         pc' \in [Ult -> {"op", "submit", "wait", "check", "look", "end"}],
         \A v \in Ult : pc'[v] = "submit" => pc[v] = "submit" /\ cur' = cur,
         \A v \in Ult : Waiting(v)' => Waiting(v)
  PROVE  IInv'
<1>1. TypeOK'
  BY DEF IInv, TypeOK
<1>2. SubmitInv'
  BY DEF IInv, SubmitInv
<1>3. SlotInv => SlotInv'
  BY SMTT(60) DEF SlotInv, Mine, Somewhere, Entries
<1> QED BY <1>1, <1>2, <1>3 DEF IInv

\* Every step preserves the invariant.
LEMMA NextInv == ASSUME RingAssumption PROVE IInv /\ [Next]_vars => IInv'
<1> SUFFICES ASSUME IInv, [Next]_vars PROVE IInv'
  OBVIOUS
<1>1. CASE Dispatch
  <2>1. \A v \in Ult : pc[v] # "submit"
    BY <1>1 DEF RingAssumption, IInv, SubmitInv, Dispatch
  <2> QED BY <1>1, <2>1, MovePreserves DEF IInv, TypeOK, Dispatch, ring, kernel, Waiting
<1>2. CASE Complete
  BY <1>2, CompletePreserves
<1>3. ASSUME NEW u \in Ult, Step(u) PROVE IInv'
  <2>1. CASE Op(u)
    BY <2>1, OpInv
  <2>2. CASE Submit(u)
    BY <2>2, SubmitPreserves
  <2>3. CASE GetEvents(u)
    <3>1. \A v \in Ult : pc'[v] = "submit" => pc[v] = "submit"
      BY <2>3 DEF IInv, TypeOK, GetEvents, Goto
    <3>2. \A v \in Ult : Waiting(v)' => Waiting(v)
      BY <2>3 DEF IInv, TypeOK, GetEvents, Goto, At, Waiting
    <3> QED BY <2>3, <3>1, <3>2, MovePreserves DEF IInv, TypeOK, GetEvents, Goto, ring
  <2>4. CASE Check(u)
    BY <2>4, CheckPreserves
  <2>5. CASE Look(u) \/ Leave(u)
    <3>1. \A v \in Ult : pc[v] # "submit"
      BY <2>5 DEF IInv, SubmitInv, Look, Leave, At
    <3>2. \A v \in Ult : pc'[v] # "submit"
      BY <2>5, <3>1 DEF IInv, TypeOK, Look, Leave, Goto
    <3>3. \A v \in Ult : Waiting(v)' => Waiting(v)
      BY <2>5 DEF IInv, TypeOK, Look, Leave, Goto, At, Waiting
    <3> QED BY <2>5, <3>2, <3>3, MovePreserves DEF IInv, TypeOK, Look, Leave, Goto, ring, kernel
  <2> QED BY <1>3, <2>1, <2>2, <2>3, <2>4, <2>5 DEF Step
<1>4. CASE UNCHANGED vars
  BY <1>4, MovePreserves DEF IInv, TypeOK, vars, ring, kernel, ults, Waiting
<1> QED BY <1>1, <1>2, <1>3, <1>4 DEF Next

\* A read or write through io_uring returns only after the kernel has ended
\* its own request, unless a slot was given away too early: iouring_check()
\* that stops at a failed completion and takes the ones before it again does
\* not finish anybody else's call.
THEOREM OwnCompletionCorrect == ASSUME RingAssumption PROVE Spec => []OwnCompletion
<1>1. Init => IInv
  BY InitInv
<1>2. IInv /\ [Next]_vars => IInv'
  BY NextInv
<1>3. IInv => OwnCompletion
  BY SMTT(60) DEF IInv, TypeOK, SlotInv, Waiting, Mine, OwnCompletion
<1> QED BY <1>1, <1>2, <1>3, PTL DEF Spec
=============================================================================
