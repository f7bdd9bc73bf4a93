-------------------------------- MODULE MyFS --------------------------------
(***************************************************************************)
(* mylib/myfs.c: the file table, the block tables, the ring of free blocks *)
(* and the reference counts, used by ULTs on several cores.                *)
(*                                                                         *)
(* myfs_mutex serialises open and unlink; a file's mutex serialises the    *)
(* allocation in myfs_get_lba.  The two do not exclude each other, and the *)
(* ring is only protected by the compare-and-swap on its two indices: the  *)
(* slot is read or written after the index has moved.                      *)
(*                                                                         *)
(* The callers keep a contract, as the storage engines do: a file is       *)
(* opened once at a time and unlinked when closed ("busy" in Breaks: or    *)
(* open), it grows at its end ("hole": or past it), the drive is never     *)
(* full ("full": or is).  A slot of the ring that has been taken is read   *)
(* before the ring has gone round ("lap": or after).  "crash": the process *)
(* may die and mount again, "midfree": also in the middle of               *)
(* __myfs_unlink, which leaves the ring inconsistent.                      *)
(***************************************************************************)
EXTENDS Naturals, FiniteSets

CONSTANTS Ult, NoUlt,
          Name, NoName,
          PrefixOf,      \* pairs of names, the first a prefix of the second
          NUM_BLOCKS, MYFS_MAX_FILES, MYFS_MAX_BLOCKS_PER_FILE,
          RefMod,        \* 2^16, the range of ref_count
          Breaks         \* clauses that do not hold

MyFSAssumption ==
  /\ NUM_BLOCKS \in Nat \ {0, 1} /\ MYFS_MAX_FILES \in Nat \ {0}
  /\ MYFS_MAX_BLOCKS_PER_FILE \in Nat \ {0} /\ RefMod \in Nat \ {0}
  /\ NoUlt \notin Ult /\ NoName \notin Name
  /\ PrefixOf \subseteq Name \X Name /\ \A n \in Name: <<n, n>> \in PrefixOf
  /\ Breaks \subseteq {"crash", "midfree", "hole", "full", "busy", "lap"}

VARIABLES
  name, block, n_block,                         \* superblock->file[]
  free_blocks, free_blocks_rp, free_blocks_wp,  \* superblock, persistent
  flags, ref_count,                             \* myfs_file_states[]
  myfs_mutex, file_mutex,                       \* holders
  fds,       \* descriptors the application holds on a file
  pc, ctx    \* where each ULT is, and its locals

super == <<name, block, n_block, free_blocks, free_blocks_rp, free_blocks_wp>>
state == <<flags, ref_count>>
locks == <<myfs_mutex, file_mutex>>
vars == <<super, state, locks, fds, pc, ctx>>

File == 0 .. MYFS_MAX_FILES - 1
Idx == 0 .. MYFS_MAX_BLOCKS_PER_FILE - 1
Slot == 0 .. NUM_BLOCKS - 1
Blk == 0 .. NUM_BLOCKS - 2
INACTIVE == NUM_BLOCKS          \* INACTIVE_BLOCK, -1 in the code
OPENED == "opened"
UNLINKED == "unlinked"

NoCtx == [f |-> 0, i |-> 0, slot |-> 0, todo |-> {}, lba |-> INACTIVE]

\* myfs_superblock_init; the last slot keeps the zero of a fresh file.
Init ==
  /\ name = [f \in File |-> NoName]
  /\ block = [f \in File |-> [b \in Idx |-> INACTIVE]]
  /\ n_block = [f \in File |-> 0]
  /\ free_blocks = [s \in Slot |-> IF s < NUM_BLOCKS - 1 THEN s ELSE 0]
  /\ free_blocks_rp = 0 /\ free_blocks_wp = NUM_BLOCKS - 1
  /\ flags = [f \in File |-> {}] /\ ref_count = [f \in File |-> 0]
  /\ myfs_mutex = NoUlt /\ file_mutex = [f \in File |-> NoUlt]
  /\ fds = [f \in File |-> 0]
  /\ pc = [u \in Ult |-> "idle"] /\ ctx = [u \in Ult |-> NoCtx]

Goto(u, where) == pc' = [pc EXCEPT ![u] = where]
Locals(u, c) == ctx' = [ctx EXCEPT ![u] = c]

\* strncmp(filename, name, strlen(filename)) == 0
Found(n) == {f \in File: name[f] # NoName /\ <<n, name[f]>> \in PrefixOf}
Empty == {f \in File: name[f] = NoName}
\* A loop over the table stops at the first match.
First(S) == {f \in S: \A g \in S: f <= g}

InIO(f) == {u \in Ult: pc[u] \in {"get_lba", "fill", "count", "check", "io"}
                       /\ ctx[u].f = f}
Used == {x \in File \X Idx: block[x[1]][x[2]] # INACTIVE}

\* The slots of the ring that hold a free block: from the read to the write
\* index, without a slot whose block has not been stored yet.
Filling == {ctx[u].slot: u \in {v \in Ult: pc[v] = "store"}}
Ring(rp, wp) == {s \in Slot: IF rp <= wp THEN rp <= s /\ s < wp
                                        ELSE rp <= s \/ s < wp}
Free == Ring(free_blocks_rp, free_blocks_wp) \ Filling

\* The next index of the ring.
NextSlot(i) == (i + 1) % NUM_BLOCKS

-----------------------------------------------------------------------------
(* open, close *)

\* The first match wins; a file that is not found takes the first empty
\* entry (there is one: bound).
myfs_open(u, n) ==
  /\ pc[u] = "idle" /\ myfs_mutex = NoUlt
  /\ IF Found(n) # {}
       THEN \E f \in First(Found(n)):
              /\ fds[f] = 0
              /\ flags' = [flags EXCEPT ![f] = {OPENED}]
              /\ fds' = [fds EXCEPT ![f] = @ + 1]
              /\ UNCHANGED <<name, n_block>>
       ELSE \E f \in First(Empty):
              /\ name' = [name EXCEPT ![f] = n]
              /\ n_block' = [n_block EXCEPT ![f] = 0]
              /\ flags' = [flags EXCEPT ![f] = {OPENED}]
              /\ fds' = [fds EXCEPT ![f] = 1]
  /\ UNCHANGED <<block, free_blocks, free_blocks_rp, free_blocks_wp,
                 ref_count, locks, pc, ctx>>

\* The flag is inverted.  No call on the descriptor is under way.
myfs_close(u, f) ==
  /\ pc[u] = "idle" /\ fds[f] > 0 /\ InIO(f) = {}
  /\ flags' = [flags EXCEPT ![f] = (@ \ {OPENED}) \cup ({OPENED} \ @)]
  /\ fds' = [fds EXCEPT ![f] = @ - 1]
  /\ UNCHANGED <<super, ref_count, locks, pc, ctx>>

-----------------------------------------------------------------------------
(* unlink *)

\* Take myfs_mutex and find the files; the contract: none of them is open.
myfs_unlink(u, n) ==
  /\ pc[u] = "idle" /\ myfs_mutex = NoUlt
  /\ "busy" \in Breaks \/ \A f \in Found(n): fds[f] = 0
  /\ myfs_mutex' = u
  /\ Goto(u, "try") /\ Locals(u, [NoCtx EXCEPT !.todo = Found(n)])
  /\ UNCHANGED <<super, state, file_mutex, fds>>

\* __myfs_try_unlink on the next file: freed now, or left to the last user.
try_unlink(u) ==
  /\ pc[u] = "try"
  /\ \E f \in First(ctx[u].todo):
       /\ flags' = [flags EXCEPT ![f] = @ \cup {UNLINKED}]
       /\ Locals(u, [ctx[u] EXCEPT !.f = f, !.i = 0, !.todo = @ \ {f}])
       /\ Goto(u, IF ref_count[f] = 0 THEN "free" ELSE "try")
  /\ UNCHANGED <<super, ref_count, locks, fds>>

unlink_end(u) ==
  /\ pc[u] = "try" /\ ctx[u].todo = {}
  /\ myfs_mutex' = NoUlt
  /\ Goto(u, "idle") /\ Locals(u, NoCtx)
  /\ UNCHANGED <<super, state, file_mutex, fds>>

\* Slots myfs_get_lba has taken and not read yet.
Taken == {ctx[u].slot: u \in {v \in Ult: pc[v] = "fill"}}

\* __myfs_unlink has a block left to free.  Bound: the loop stays within the
\* table, which n_block can only exceed with "busy".
MoreToFree(u) == ctx[u].i < n_block[ctx[u].f] /\ ctx[u].i \in Idx

\* __myfs_unlink: move the write index, then store the block in the slot it
\* left, then clear the file's entry.
free_cas(u) ==
  /\ pc[u] = "free" /\ MoreToFree(u)
  /\ "lap" \in Breaks \/ free_blocks_wp \notin Taken
  /\ free_blocks_wp' = NextSlot(free_blocks_wp)
  /\ Locals(u, [ctx[u] EXCEPT !.slot = free_blocks_wp])
  /\ Goto(u, "store")
  /\ UNCHANGED <<name, block, n_block, free_blocks, free_blocks_rp, state,
                 locks, fds>>

free_store(u) ==
  /\ pc[u] = "store"
  /\ free_blocks' = [free_blocks EXCEPT ![ctx[u].slot] = block[ctx[u].f][ctx[u].i]]
  /\ Goto(u, "clear")
  /\ UNCHANGED <<name, block, n_block, free_blocks_rp, free_blocks_wp, state,
                 locks, fds, ctx>>

ClearTo(u, b) ==
  /\ pc[u] = "clear"
  /\ block' = [block EXCEPT ![ctx[u].f][ctx[u].i] = b]
  /\ Locals(u, [ctx[u] EXCEPT !.i = @ + 1])
  /\ Goto(u, "free")
  /\ UNCHANGED <<name, n_block, free_blocks, free_blocks_rp, free_blocks_wp,
                 state, locks, fds>>
free_clear_Keep(u) == ClearTo(u, block[ctx[u].f][ctx[u].i])    \* mutant: kept
free_clear(u) == ClearTo(u, INACTIVE)

free_end(u) ==
  LET f == ctx[u].f IN
  /\ pc[u] = "free" /\ ~MoreToFree(u)
  /\ name' = [name EXCEPT ![f] = NoName]
  /\ n_block' = [n_block EXCEPT ![f] = 0]
  /\ flags' = [flags EXCEPT ![f] = {}] /\ ref_count' = [ref_count EXCEPT ![f] = 0]
  /\ Goto(u, "try")
  /\ UNCHANGED <<block, free_blocks, free_blocks_rp, free_blocks_wp, locks, fds, ctx>>

-----------------------------------------------------------------------------
(* One request of read_impl or write_impl on block i of an open file. *)

\* myfs_increment_ref, whose result nobody looks at.
increment_ref(f) ==
  IF flags[f] = {OPENED}
    THEN ref_count' = [ref_count EXCEPT ![f] = (@ + 1) % RefMod]
    ELSE ref_count' = ref_count

\* A write extends the file by at most one block, and one is left for it.
\* Bound: n_block stays within the file's table.
Allocating == {u \in Ult: pc[u] \in {"get_lba", "fill", "count"}}
write_begin(u, f, i) ==
  /\ pc[u] = "idle" /\ fds[f] > 0
  /\ "hole" \in Breaks \/ i <= n_block[f]
  /\ "full" \in Breaks \/ Cardinality(Free) > Cardinality(Allocating)
  /\ n_block[f] + Cardinality(Allocating) < MYFS_MAX_BLOCKS_PER_FILE
       \/ block[f][i] # INACTIVE
  /\ increment_ref(f)
  /\ Goto(u, "get_lba") /\ Locals(u, [NoCtx EXCEPT !.f = f, !.i = i])
  /\ UNCHANGED <<super, flags, locks, fds>>

\* A read is cut at the size; the mutant cuts one block later.
WithinSize_Past(f, i) == i <= n_block[f]
WithinSize(f, i) == i < n_block[f]

read_begin(u, f, i) ==
  /\ pc[u] = "idle" /\ fds[f] > 0
  /\ WithinSize(f, i)
  /\ increment_ref(f)
  /\ Goto(u, "check") /\ Locals(u, [NoCtx EXCEPT !.f = f, !.i = i])
  /\ UNCHANGED <<super, flags, locks, fds>>

\* ult_mutex_lock on a file's mutex can return; the mutant does not wait.
FileUnlocked_Any(f) == TRUE
FileUnlocked(f) == file_mutex[f] = NoUlt

\* myfs_get_lba for a write takes the file's mutex and, when there is no
\* block, moves the read index.
alloc_cas(u) ==
  LET f == ctx[u].f IN
  /\ pc[u] = "get_lba" /\ FileUnlocked(f)
  /\ IF block[f][ctx[u].i] = INACTIVE
       THEN /\ file_mutex' = [file_mutex EXCEPT ![f] = u]
            /\ free_blocks_rp' = NextSlot(free_blocks_rp)
            /\ Locals(u, [ctx[u] EXCEPT !.slot = free_blocks_rp])
            /\ Goto(u, "fill")
       ELSE /\ Goto(u, "check")
            /\ UNCHANGED <<file_mutex, free_blocks_rp, ctx>>
  /\ UNCHANGED <<name, block, n_block, free_blocks, free_blocks_wp, state,
                 myfs_mutex, fds>>

alloc_fill(u) ==
  /\ pc[u] = "fill"
  /\ block' = [block EXCEPT ![ctx[u].f][ctx[u].i] = free_blocks[ctx[u].slot]]
  /\ Goto(u, "count")
  /\ UNCHANGED <<name, n_block, free_blocks, free_blocks_rp, free_blocks_wp,
                 state, locks, fds, ctx>>

CountThen(u, holder) ==
  /\ pc[u] = "count"
  /\ n_block' = [n_block EXCEPT ![ctx[u].f] = @ + 1]
  /\ file_mutex' = [file_mutex EXCEPT ![ctx[u].f] = holder]
  /\ Goto(u, "check")
  /\ UNCHANGED <<name, block, free_blocks, free_blocks_rp, free_blocks_wp,
                 state, myfs_mutex, fds, ctx>>
alloc_count_Locked(u) == CountThen(u, u)    \* mutant: the mutex is kept
alloc_count(u) == CountThen(u, NoUlt)

\* The assert of myfs_get_lba, and the request on the block it returns.
get_lba(u) ==
  LET b == block[ctx[u].f][ctx[u].i] IN
  /\ pc[u] = "check"
  /\ Goto(u, IF b = INACTIVE THEN "abort" ELSE "io")
  /\ Locals(u, [ctx[u] EXCEPT !.lba = b])
  /\ UNCHANGED <<super, state, locks, fds>>

Minus1_Not(n) == n    \* mutant: not decremented
Minus1(n) == (n + RefMod - 1) % RefMod

\* myfs_decrement_ref: what it compares with 0 is the count before.
decrement_ref(u) ==
  LET f == ctx[u].f IN
  /\ pc[u] = "io"
  /\ ref_count' = [ref_count EXCEPT ![f] = Minus1(@)]
  /\ Locals(u, [NoCtx EXCEPT !.f = f])
  /\ Goto(u, IF ref_count[f] = 0 /\ UNLINKED \in flags[f] THEN "unlink_fd" ELSE "idle")
  /\ UNCHANGED <<super, flags, locks, fds>>

myfs_unlink_fd(u) ==
  /\ pc[u] = "unlink_fd" /\ myfs_mutex = NoUlt
  /\ myfs_mutex' = u
  /\ Goto(u, "try") /\ Locals(u, [NoCtx EXCEPT !.todo = {ctx[u].f}])
  /\ UNCHANGED <<super, state, file_mutex, fds>>

\* The process dies and the next one mounts: the superblock is a shared file
\* mapping and keeps every store; the rest starts afresh.
crash_mount ==
  /\ "crash" \in Breaks
  /\ "midfree" \in Breaks \/ \A u \in Ult: pc[u] \notin {"free", "store", "clear"}
  /\ flags' = [f \in File |-> {}] /\ ref_count' = [f \in File |-> 0]
  /\ myfs_mutex' = NoUlt /\ file_mutex' = [f \in File |-> NoUlt]
  /\ fds' = [f \in File |-> 0]
  /\ pc' = [u \in Ult |-> "idle"] /\ ctx' = [u \in Ult |-> NoCtx]
  /\ UNCHANGED super

Step(u) ==
  \/ try_unlink(u) \/ unlink_end(u)
  \/ free_cas(u) \/ free_store(u) \/ free_clear(u) \/ free_end(u)
  \/ alloc_cas(u) \/ alloc_fill(u) \/ alloc_count(u)
  \/ get_lba(u) \/ decrement_ref(u) \/ myfs_unlink_fd(u)

Call(u) ==
  \/ \E n \in Name: myfs_open(u, n) \/ myfs_unlink(u, n)
  \/ \E f \in File: myfs_close(u, f)
  \/ \E f \in File, i \in Idx: write_begin(u, f, i) \/ read_begin(u, f, i)

Next ==
  /\ \A u \in Ult: pc[u] # "abort"
  /\ \/ \E u \in Ult: Call(u) \/ Step(u)
     \/ crash_mount

Spec == Init /\ [][Next]_vars

-----------------------------------------------------------------------------
(* Properties *)

\* A file's entry that is being cleared: its block is in the ring already.
Clearing == {<<ctx[u].f, ctx[u].i>>: u \in {v \in Ult: pc[v] = "clear"}}
Owned == Used \ Clearing

\* No block belongs to two file positions: data written to one file never
\* appears in another, although blocks are freed and allocated concurrently.
NoSharedBlock ==
  \A x, y \in Owned: block[x[1]][x[2]] = block[y[1]][y[2]] => x = y

\* Every block is in exactly one place: a file, a slot of the free ring, or a
\* slot myfs_get_lba has taken and not read yet.  None is lost.
BlocksConserved ==
  \A b \in Blk:
    Cardinality({x \in Owned: block[x[1]][x[2]] = b})
      + Cardinality({s \in Free \cup Taken: free_blocks[s] = b}) = 1

\* A request goes to the block its file position owns: it is not freed, and
\* given to another file, before the request is over.
IOOnOwnBlock ==
  \A u \in Ult: pc[u] = "io" => block[ctx[u].f][ctx[u].i] = ctx[u].lba

\* The count is the number of calls under way, so unlink can rely on it.
RefCounted == \A f \in File: ref_count[f] = Cardinality(InIO(f))

\* myfs_mutex and the files' mutexes never block everyone, also when the end
\* of a call unlinks its file: some ULT in a call can always go on.
LocksNeverDeadlock ==
  (\E u \in Ult: pc[u] # "idle") => \E u \in Ult: pc[u] = "abort" \/ ENABLED Step(u)

\* The assert of myfs_get_lba never fails.
NoAssertFailure == \A u \in Ult: pc[u] # "abort"
=============================================================================
