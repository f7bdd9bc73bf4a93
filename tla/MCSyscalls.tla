----------------------------- MODULE MCSyscalls -----------------------------
(***************************************************************************)
(* System calls for TLC, from the rewritten instruction to the answer: the *)
(* trampoline (Trampoline), reads and writes through io_uring (IoUring,    *)
(* with the constants of the .cfg) and on the NVMe drives (HookIO; two     *)
(* ULTs that share fewer requests than they may ask for).  In a behaviour  *)
(* one of the Parts moves; IoUring stays in its first state while another  *)
(* one does, and the variables of the others are "off".                    *)
(***************************************************************************)
EXTENDS IoUring

CONSTANTS Parts,   \* of "tramp", "hook", "ring"
          Nr, NoFd, NoData, r1, r2, d0

\* Numbers that the sled and asm_syscall_hook treat alike.
PatternNr == {n \in 0 .. 511 : n <= 405 \/ n % 3 # 1}
\* Numbers Linux 6.5 defines.
AllNr == 0 .. 451

VARIABLES
  part,
  nr, vm, rax, ip, stack, at, args, child,
  req, out, drive, h_pc, call, j, rq_k, k, rid, buf, cur_pos, alloc, seen

Tramp == INSTANCE Trampoline
Hook == INSTANCE HookIO WITH
  Fd <- {}, Req <- {r1, r2}, Lba <- 0 .. 1, Data <- {d0},
  READ_DEG <- 1, WRITE_DEG <- 1, MaxLen <- 2, Sparse <- FALSE, pc <- h_pc

ASSUME RingAssumption /\ Tramp!NrAssumption /\ Hook!HookAssumption

trampVars == <<nr, vm, rax, ip, stack, at, args, child>>
trampOff == /\ nr = "off" /\ vm = "off" /\ rax = "off" /\ ip = "off"
            /\ stack = "off" /\ at = "off" /\ args = "off" /\ child = "off"
hookVars == <<req, out, drive, h_pc, call, j, rq_k, k, rid, buf, cur_pos, alloc, seen>>
hookOff == /\ req = "off" /\ out = "off" /\ drive = "off" /\ h_pc = "off" /\ call = "off"
           /\ j = "off" /\ rq_k = "off" /\ k = "off" /\ rid = "off"
           /\ buf = "off" /\ cur_pos = "off" /\ alloc = "off" /\ seen = "off"

MCInit ==
  /\ part \in Parts /\ Init
  /\ IF part = "tramp" THEN Tramp!Init ELSE trampOff
  /\ IF part = "hook" THEN Hook!Init ELSE hookOff

MCNext ==
  /\ UNCHANGED part
  /\ \/ part = "ring" /\ Next /\ UNCHANGED <<trampVars, hookVars>>
     \/ part = "tramp" /\ Tramp!Next /\ UNCHANGED <<vars, hookVars>>
     \/ part = "hook" /\ Hook!Next /\ UNCHANGED <<vars, trampVars>>

Hooks(u) == Hook!Poll(u) \/ Hook!BatchEnd(u) \/ Hook!Return(u)
Rings(u) == Submit(u) \/ GetEvents(u) \/ Check(u) \/ Look(u)

\* The fairness of each module, while its part moves.
MCSpec ==
  /\ MCInit /\ [][MCNext]_<<part, vars, trampVars, hookVars>>
  /\ WF_trampVars(part = "tramp" /\ Tramp!Next)
  /\ \A u \in Ult :
       /\ SF_hookVars(part = "hook" /\ (Hook!IssueRead(u) \/ Hook!IssueWrite(u)) /\ Hook!Watch)
       /\ WF_hookVars(part = "hook" /\ Hooks(u) /\ Hook!Watch)
  /\ \A r \in {r1, r2} : WF_hookVars(part = "hook" /\ Hook!Serve(r) /\ Hook!Watch)
  /\ WF_vars(part = "ring" /\ Dispatch) /\ WF_vars(part = "ring" /\ Complete)
  /\ \A u \in Ult :
       /\ WF_vars(part = "ring" /\ Rings(u)) /\ SF_vars(part = "ring" /\ Op(u))
       /\ WF_vars(part = "ring" /\ Leave(u) /\ calls[u] = 0)

-----------------------------------------------------------------------------
(* The properties of the other modules.                                      *)

\* syscall_hook gets the caller's system call number and return address, and the
\* call comes back to its site with the stack as it was.
CallIntact == part = "tramp" => Tramp!HookSeesCall /\ Tramp!Balanced

\* What asm_syscall_hook discards is the 0x90 that the sled pushed.
DiscardsPushed == part = "tramp" => Tramp!DiscardsPushed

\* Every system call number slides to the end of the sled and is handled, and
\* every read and write system call returns: on a myfs file always, through
\* io_uring except after the failures that IoUring names.
SystemCallsReturn ==
  /\ <>(part = "tramp" => at \in {"back", "sig"})
  /\ \A u \in Ult : (part = "hook" /\ h_pc[u] # "idle") ~> (part = "hook" => h_pc[u] = "idle")
  /\ <>(part = "ring" => Settled)
=============================================================================
