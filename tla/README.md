# A verification project for staut

staut runs unmodified pthread programs (RocksDB, WiredTiger) as user-level
threads (ULTs) on Argobots. `mylib/` is preloaded: it rewrites the program's
system call instructions (zpoline), replaces the pthread functions, and serves
the program's data files from NVMe drives through a user-space driver and a
small file system. This directory holds TLA+ models of `mylib/`, the TLC runs
that check them, and TLAPS proofs about the queue pair of the driver.

All paths below are relative to the repository; line numbers are those of
`src/mylib/`. The build modelled is the default one (`USE_IO_URING = 0`).

## 1. Inventory

### Parts, state, operations

| Part | State | Operations | Module |
|---|---|---|---|
| Trampoline, `zpoline.c` | code at address 0, the stack | `setup_trampoline`, `asm_syscall_hook`, `syscall_hook` | `Trampoline` |
| Code rewriting, `zpoline.c` | program text, bitmap of rewritten addresses | `rewrite_code`, `disassemble_and_rewrite` | not modelled |
| File I/O calls, `hook.c` | `hookfds`, `cur_pos`, `rid[]`, loop counters | `SYS_read`, `pread64`, `SYS_write`, `pwrite64`, `read_impl`, `write_impl` | `HookIO`, `IoSplit` |
| Other calls, `hook.c` | descriptor table | `openat`, `close`, `unlink`, `futex`, sleeps, polls | effect on the file system in `MyFS`; the rest is not modelled |
| File system, `myfs.c` | superblock (files, block tables, ring of free blocks), flags, reference counts, mutexes | `myfs_open`, `_close`, `_unlink`, `_unlink_fd`, `_get_lba`, `_increment_ref`, `_decrement_ref`, `_mount` | `MyFS` |
| Queue pair, `nvme.cc` | rings, head, tail, phase, `done_flag`, `rbuf`, DMA pages | `new_sqe`, `sq_doorbell`, `check_cq`, `nvme_read_req`, `nvme_write_req`, `nvme_check` | `NvmeQP`, abstractly `BlockService` |
| Bring-up, `nvme.cc` | device registers, admin queue | `nvme_init`, `create_qp` | not modelled |
| io_uring backend, `iouringlib.c` | rings shared with the kernel, `done_flag` | `iouring_op`, `iouring_check` | not modelled |
| pthread shim, `mylib.c` | lazily created mutexes and conditions, keys, once | the pthread functions | not modelled |
| `MyFIFO`, `myfifo.hpp` | ring of pointers | `push`, `pop` | not modelled (compiled out) |
| Argobots fork | pools, streams, wait lists | scheduling, mutex, condition, read-write lock | used through its contract |

`PROJECT.json` lists every part, with the reason where one is left out, and the
hazards of the code at their lines.

### How they interact

A rewritten `syscall` becomes `callq *%rax`; the trampoline brings it to
`syscall_hook` and, for a ULT, to `hook_function`. For a file of the data
directory, `read_impl` and `write_impl` cut the range into requests
(`IoSplit`), find each request's block (`MyFS`), submit it to the queue pair of
the ULT's core and poll for it, yielding between polls (`HookIO`). Requests of
all the ULTs of a core meet in one queue pair (`NvmeQP`).

### What is hard here

- The controller completes in any order, a command slot is reused as soon as
  its completion has been consumed, and `done_flag` belongs to the slot, not to
  the request: a caller that polls late looks at a slot that others have used.
- The only sign of a completion is one phase bit, whose meaning changes at
  every wrap of the ring.
- `write_impl` returns with one request outstanding.
- The free ring of `myfs` is shared by cores without a lock; the index moves
  before the slot is read or written. The superblock outlives the process.
- Whether the trampoline has to discard a word is recomputed from the system
  call number.

## 2. Modules

`NvmeQP` (with `MCNvmeQP`). One I/O queue pair and the controller. State: the
fields of `class QP`, the two doorbells, the critical section (`pc`, `cur`), the
request handles of the callers and the controller's own positions. Actions, in
the code's names: `nvme_read_req` and `nvme_write_req` take the lock;
`new_sqe_block` and `new_sqe` are the two sides of the test in `new_sqe`, the
second together with filling the entry, the doorbell and the unlock (nothing
outside sees the steps between); `nvme_check_done`, `nvme_check_poll`;
`check_cq_entry` is one turn of the loop in `check_cq`, so that the controller
may post in between; `check_cq_exit` rings the doorbell; `leave` is `write_impl`
not polling its last request. `dev_fetch` and `dev_complete` are the controller
(external): it fetches in order and executes in any order. The fields `val` and
`served` of a handle and `req` of an entry are history: no guard reads them.

`BlockService`. What the three functions of `nvme.h` promise: a request is
issued, takes effect at one moment, is marked done with its data delivered, and
is reported; or its caller walks away.

`HookIO` (with `MCHookIO`). `read_impl` and `write_impl` under the four system
calls, on top of `BlockService`, for one file, in units of one request. The
break that leaves the last request of a write uncounted is `IssueWrite`. The
constant `Sparse` says whether writes may start past the end of the file; it is
FALSE in the runs. With TRUE, `NoAssertFailure` fails: the size is the number of
blocks, and a read inside it meets a hole.

`IoSplit` (with `MCIoSplit`). The arithmetic, in bytes with the code's sizes:
request size, block address, drive and drive address, DMA page, request id.
The constants are the offsets and lengths used, the file's block table, the
numbers of drives, cores and slots.

`MyFS` (with `MCMyFS`). The file system under several ULTs. Each
compare-and-swap, store and counter update of `__myfs_unlink` and
`myfs_get_lba` is a step, because the two run concurrently; `open`, which runs
under `myfs_mutex`, is one step. The constant `Breaks` names the clauses of the
callers' contract that do not hold in a run (section 4).

`Trampoline` (with `MCTrampoline`). One system call through the sled, byte by
byte, with the words on the stack. Registers have 16 bits: the argument about
the multiplication by the inverse of 3 is the same for 64.

`NvmeQPDriver`, `NvmeQPProofs`. The proofs about `NvmeQP`: ring arithmetic and
the driver's steps; the controller's steps and the theorems.

Definitions whose name has a suffix such as `_NoFlip` or `_Keep` are wrong
variants of the definition that follows them. They are not used by the
specifications; each is there to show that a property fails when the code is
changed that way (`mutants` in `PROJECT.json`).

## 3. Runs

| Run | Configuration | Shows | States |
|---|---|---|---|
| `qp` | 2 slots, 2 requests, 2 contents | `PhaseTag`, `OnePlace`, `DoneMeansMine`, `NoLateCopy`, `WriteIntegrity`, the inductive invariant `IInv`, and that `NvmeQP` implements `BlockService`, with the submission ring wrapping onto itself | 211,054 |
| `qp_live` | 3 slots, 2 requests, one content | `SqNeverWraps`, `CqHasRoom`, `EventuallyDone` | 204,517 |
| `hook` | 2 ULTs, batches of 2, calls of up to 3 requests | `OnlyLastUnpolled`, `OwnRequests`, `NoAssertFailure`, batches within their arrays | 379,793 |
| `hook_data` | 1 ULT, 2 contents, a descriptor | `ReadDelivers` | 157,304 |
| `hook_live` | 2 ULTs, 2 requests, batches of 1 | `CallReturns` | 41,079 |
| `split` | offsets and lengths around every boundary, 3 drives, 2 cores | `Contiguous`, `FitsPage`, `OneStripeUnit`, `RightBytes`, `RidDecodes` | 6,232 |
| `tramp` | numbers on which sled and discard test agree | `HookSeesCall`, `Balanced`, `Handled` | 57,944 |
| `myfs` | 2 ULTs, 2 files of 2 blocks, 3 blocks | `NoSharedBlock`, `BlocksConserved`, `IOOnOwnBlock`, `RefCounted`, `NoAssertFailure` | 368,172 |
| `myfs_crash` | as `myfs` with files of 1 block; the process may die | `NoSharedBlock` | 857,322 |
| `myfs_busy` | 1 file, 2 ULTs, unlinked while in use | `LocksNeverDeadlock` | 7,590 |

Two runs end in a counterexample; each is a finding in `PROJECT.json`:

- `hook_write_done`: `write_impl` ends with its last request outstanding. The
  loop breaks before `rq_k` counts it (`hook.c` 247-260). The data may reach the
  drive after the call has returned, after a later write of the same block on
  another core's queue, or after the file was unlinked and its block given to
  another file. That at most this one request is left is `OnlyLastUnpolled`.
- `tramp_all`: from number 406 on, the sled pushes nothing, but
  `asm_syscall_hook` discards a word for every number of the form 3n+1.

### Bounds, and why they are enough

- Queue pair: with 2 slots and 2 requests every slot is reused, both rings wrap
  and the phase changes at every second command; a request may be polled after
  its slot has been reused. Fewer requests than slots (`qp_live`), or as many
  (`qp`), are the two cases that differ (section 5). The theorems lift the
  bound. `Lba` has one element: requests to different blocks do not meet.
- `HookIO`: calls of 3 requests in batches of 2 have a full and a partial batch,
  and a partial batch of one request, the case of the break. There must be more
  than |Ult| (DEG-1) handles, or the model stops where the code would reuse a
  slot whose completion nobody has looked at; this is an artefact of handles
  standing for both.
- `IoSplit`: offsets and lengths one below, at and one above a sector, a 4 KB
  unit and a 2 MB block.
- `MyFS`: a ring of 4 entries for 3 blocks goes round many times; two files, one
  name a prefix of the other; the counter range `RefMod` is larger than the
  number of ULTs, except in `myfs_busy`, where it is small so that it wraps.
- `Trampoline`: all the numbers; nothing is bounded but the register width.

### Fairness

- `NvmeQP`: whoever holds the queue pair runs on (in the cooperative build it
  does not yield there; in the preemptive one it is scheduled again); a ULT that
  waits calls `nvme_check` again and again (the loops in `read_impl` and
  `write_impl`, and Argobots running every ready ULT); the controller fetches
  and executes. All weak.
- `HookIO`: weak for polling and returning and for the drive. Strong for making a
  request: `new_sqe` waits for a slot while it holds the queue pair, so nobody
  takes the slot it waits for; with handles in place of slots this is strong
  fairness.
- `Trampoline`: the processor goes on.

`CHECK_DEADLOCK FALSE` is used where the system may stop: when every request has
been left by `write_impl` nobody polls; a trampoline or split behaviour is one
call; a failed assert ends the process.

## 4. The contract of myfs

`myfs` is correct only for callers that keep to some rules, which the engines do
most of the time. `MyFS` states them as guards that `Breaks` switches off:

| Clause | Meaning | Without it |
|---|---|---|
| `busy` | a file is not open when it is unlinked | `RefCounted`, `IOOnOwnBlock`, `BlocksConserved`, `NoAssertFailure` fail: an open file with no call under way is freed at once; a call that starts on an unlinked file is not counted but decrements |
| `hole` | a file grows at its end | `NoAssertFailure` fails: a read inside the size meets a hole, and unlink, which releases the first `n_block` entries, puts the mark of a hole into the ring |
| `full` | an allocation finds a free block | `NoSharedBlock`, `BlocksConserved` fail: the read index overtakes the write index |
| `lap` | a slot that was taken is read before the ring has gone round | `NoSharedBlock`, `BlocksConserved` fail: the slot is overwritten in between |
| `crash` | the process does not die | `BlocksConserved` fails: a block taken and not entered is lost. `NoSharedBlock` holds (`myfs_crash`) |
| `midfree` | it does not die inside `__myfs_unlink` | `NoAssertFailure` fails: entries are cleared before name and size, so the next mount finds a file without its blocks |

The failures in the table were found by running `myfs` (for `midfree`,
`myfs_crash`) with that clause added. A file is opened by one descriptor at a
time and an entry of the file table is free when one is needed, in all runs.

`increment_ref` tests the flags and adds in one step, the code in two. The
difference needs an unlink of an open file, so it is outside the runs that
state `RefCounted`.

## 5. Proofs

For every `QD >= 2`, every finite set of requests and every drive and data
(`QDAssumption`, `ReqAssumption`, `DataAssumption`), TLAPS checks:

- `Invariance`: `Spec => []IInv`;
- `TypeCorrect`, `PhaseTagCorrect`, `OnePlaceCorrect`, `DoneMeansMineCorrect`,
  `NoLateCopyCorrect`, `WriteIntegrityCorrect`: the invariants of run `qp`;
- `SqNeverWrapsCorrect`, `CqHasRoomCorrect`: with fewer requests than slots,
  neither ring overflows (run `qp_live`).

The inductive invariant `IInv` has six parts beside the type invariant.
`PhaseTag` alone is not inductive: one must know which phase every entry of the
ring carries and on which pass the driver is (`PhaseInv`). `OnePlace` says where
a command is; it needs `LinkInv`, that an outstanding slot, its entry and the
controller's copy name the same waiting handle, so that a completion sets the
right flag. `DoneMeansMine` is about a flag that others may have reset, and
follows from `WaitInv`: a waiting request is outstanding under its CID, or was
executed and delivered, whatever its flag says now. `SectionInv` says that the
doorbells are up to date outside the critical section. `AckInv` is about the
entries consumed and not yet acknowledged; with it the positions in use inject
into the requests, and the two counting theorems follow by the pigeonhole
principle.

`IInv` holds with `SqWrapped` as an exception in `OnePlace`: when there are as
many requests as slots (`qp`), the submission ring can be full in a way the
controller takes for empty. `QD` is twice the number of ULTs of a core, but a
read may have `READ_DEG` requests under way, so the number of requests is not
bounded by the code; this is why the last two theorems have a premise.

`NvmeQPDriver` proves the ring lemmas (`RingPush`, `RingPop`, `RingEnds`,
`RingFull`, `RingSplit`), who owns an outstanding command (`Owner`), which steps
keep that (`LinkFrame`), and one lemma per driver action, `NvmeQPProofs` one per
controller action, their combination `NextInv`, and the theorems.

Only model-checked: `EventuallyDone`, `CallReturns` and `Handled` (liveness is
out of the prover's reach), the refinement of `BlockService`, and everything
about `HookIO`, `IoSplit`, `MyFS` and `Trampoline`.

## 6. Not modelled

- The `pth` build, where `lock()` is empty: it races on the queue pair.
- Error status of completions; `check_cq` does not look at it.
- The unused rest of a sector in the last request of an unaligned write.
- The descriptor table (`hookfds`), waiting system calls, bring-up, rewriting.
- The io_uring backend, the pthread shim, Argobots: see the plan.

## 7. Plan

Done: `NvmeQP`, `BlockService`, `HookIO`, `IoSplit`, `MyFS`, `Trampoline`, the
invariance proof of `NvmeQP`.

Next, most important first:

1. `IoUring`: the backend's rings, `iouring_check`'s error path, the full test,
   the blocking wait for events; refinement of `BlockService`.
2. `PthreadShim`: lazy initialisation of mutexes and conditions by
   compare-and-swap, `pthread_once` under cooperative scheduling, keys.
3. Argobots: wait list with timed waits, mutex, condition, read-write lock, and
   the shim's mutex and condition as their composition.
4. `HookIO` over `MyFS`: the late write against unlink and reallocation.
5. `HookWait`: futex, sleeps, polls; `MyFIFO`; `NvmeInit`; `Backup`.
6. Proofs: `NvmeQP` implements `BlockService`; `OneStripeUnit` and `RidDecodes`
   for all sizes, injectivity of the striping; `NoSharedBlock` of `MyFS`; the
   invariants of `HookIO`.
