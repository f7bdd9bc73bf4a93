------------------------------ MODULE Trampoline ----------------------------
(***************************************************************************)
(* The path of one system call through mylib/zpoline.c: callq *%rax at a   *)
(* rewritten site lands at address rax of the sled at virtual address 0,   *)
(* slides to its end, jumps to asm_syscall_hook, which calls syscall_hook  *)
(* and returns to the site.                                                *)
(*                                                                         *)
(* The stack is a sequence, top first, of what was pushed.  Registers are  *)
(* 16 bits wide instead of 64: 43691 is the inverse of 3 modulo 2^16 as    *)
(* 0xaaaaaaaaaaaaaaab is modulo 2^64.                                      *)
(***************************************************************************)
EXTENDS Naturals, Sequences

CONSTANT Nr           \* system call numbers in use
NR_syscalls == 512
rt_sigreturn == 15
clone == 56
clone3 == 435
Word == 65536
Inv3 == 43691

\* What can be on the stack besides %rax: the return address of callq, 0x90
\* sign-extended, and what lies above the caller's frame.
Site == 4096
Imm == 65424
Other == 4097
None == 0        \* no thread created

NrAssumption == Nr \subseteq 0 .. NR_syscalls - 1

VARIABLES
  nr, vm,     \* the system call, and whether CLONE_VM is set in its flags
  rax, ip, stack,
  at,         \* "sled", "asm" (asm_syscall_hook), "frame", "C", "out", "trap",
              \* "sig" (rt_sigreturn enters the kernel), "back" (at the site)
  args,       \* rax_on_stack and retptr as syscall_hook receives them
  child       \* top of a CLONE_VM child's stack, where its ret goes
vars == <<nr, vm, rax, ip, stack, at, args, child>>

\* The sled: repeats of 0xeb 0x6a 0x90, then nops.
Sled_Short(i) ==     \* mutant: the nops begin too late for the last jump
  IF NR_syscalls - 106 < i THEN 144
  ELSE CASE i % 3 = 0 -> 235 [] i % 3 = 1 -> 106 [] OTHER -> 144
Sled(i) ==
  IF (NR_syscalls - 106) - 2 < i THEN 144
  ELSE CASE i % 3 = 0 -> 235 [] i % 3 = 1 -> 106 [] OTHER -> 144

Init ==
  /\ nr \in Nr /\ vm \in BOOLEAN
  /\ rax = nr /\ ip = nr /\ stack = <<Site>>
  /\ at = "sled" /\ args = <<>> /\ child = None

-----------------------------------------------------------------------------
InSled == at = "sled" /\ ip < NR_syscalls

jmp == /\ InSled /\ Sled(ip) = 235
       /\ ip' = ip + 2 + Sled(ip + 1)
       /\ UNCHANGED <<nr, vm, rax, stack, at, args, child>>

push == /\ InSled /\ Sled(ip) = 106
        /\ stack' = <<Imm>> \o stack
        /\ ip' = ip + 2
        /\ UNCHANGED <<nr, vm, rax, at, args, child>>

nop == /\ InSled /\ Sled(ip) = 144
       /\ ip' = ip + 1
       /\ UNCHANGED <<nr, vm, rax, stack, at, args, child>>

\* push %rax; movabs asm_syscall_hook, %rax; jmpq *%rax (which is restored).
enter == /\ at = "sled" /\ ip = NR_syscalls
         /\ stack' = <<rax>> \o stack
         /\ at' = "asm"
         /\ UNCHANGED <<nr, vm, rax, ip, args, child>>

\* Whether the immediate is discarded: imul, cmp, jb.
Discards_All(n) == TRUE      \* mutant: jb dropped
Discards(n) == (n * Inv3) % Word >= Inv3

\* asm_syscall_hook up to its frame; rt_sigreturn goes to the kernel.
asm_syscall_hook ==
  LET n == Head(stack)
      s == IF Discards(n) THEN Tail(Tail(stack)) ELSE Tail(stack)
  IN
  /\ at = "asm"
  /\ rax' = n
  /\ IF n = rt_sigreturn THEN at' = "sig" /\ stack' = Tail(s)
                         ELSE at' = "frame" /\ stack' = s
  /\ UNCHANGED <<nr, vm, ip, args, child>>

\* The arguments of syscall_hook; the return address is at 8(%rbp).
callq ==
  /\ at = "frame"
  /\ args' = <<rax, IF stack = <<>> THEN Other ELSE Head(stack)>>
  /\ at' = "C"
  /\ UNCHANGED <<nr, vm, rax, ip, stack, child>>

\* The return address on the stack of the thread a call creates: clone3 is
\* refused, so the C library falls back to clone, whose thread is given one.
NewThread(n, retptr) ==
  IF n = clone /\ vm THEN retptr ELSE None

\* syscall_hook traps when it was not reached from a rewritten instruction.
syscall_hook ==
  /\ at = "C"
  /\ at' = IF args[2] = Site THEN "out" ELSE "trap"
  /\ child' = IF args[2] = Site THEN NewThread(args[1], args[2]) ELSE child
  /\ UNCHANGED <<nr, vm, rax, ip, stack, args>>

\* leaveq; retq
retq ==
  /\ at = "out"
  /\ at' = "back" /\ ip' = Head(stack) /\ stack' = Tail(stack)
  /\ UNCHANGED <<nr, vm, rax, args, child>>

Next == jmp \/ push \/ nop \/ enter \/ asm_syscall_hook \/ callq \/ syscall_hook \/ retq
Spec == Init /\ [][Next]_vars
FairSpec == Spec /\ WF_vars(Next)

-----------------------------------------------------------------------------
(* Properties *)

\* syscall_hook gets the caller's system call number and the address after
\* the rewritten instruction, whatever the sled pushed on the way.
HookSeesCall == at = "C" => args = <<nr, Site>>

\* The call comes back to its site with the stack as it was before it;
\* rt_sigreturn reaches the kernel with the return address dropped; a new
\* thread returns to the site of its creator's clone.
Balanced ==
  /\ at = "back" => ip = Site /\ stack = <<>>
  /\ at = "sig" => stack = <<>>
  /\ child # None => child = Site

\* Every system call number slides to the end of the sled and is handled.
Handled == <>(at \in {"back", "sig"})

\* What asm_syscall_hook discards is the 0x90 that the sled pushed.
DiscardsPushed ==
  at = "asm" => (Discards(stack[1]) <=> Len(stack) > 1 /\ stack[2] = Imm)
=============================================================================
