----------------------------- MODULE MyFSProofs -----------------------------
(***************************************************************************)
(* Proofs about mylib/myfs.c as modelled in MyFS, for any number of ULTs,  *)
(* files, blocks and names, when the callers keep the contract; the        *)
(* process may die and mount again ("crash" in Breaks).                    *)
(*                                                                         *)
(* The argument: myfs_mutex admits one ULT to the unlink path, a file's    *)
(* mutex one to its allocation path, and the two are kept apart by the     *)
(* contract: a file that is freed has no descriptor, a call has one.  So   *)
(* at most one slot of the ring is being filled, it is the newest one, and *)
(* the blocks of the ring, of the slots that are taken and of the files    *)
(* are distinct.  That bounds the ring (pigeonhole): the write index never *)
(* catches up with the read index, and a reader never gets the slot that   *)
(* is being filled because a free block is set aside for every call that   *)
(* may take one.                                                           *)
(***************************************************************************)
EXTENDS MyFS, Integers, TLAPS

USE ZenonT(60)

\* ref_count does not wrap: fewer calls are under way than its 16 bits count.
FewerCalls == IsFiniteSet(Ult) /\ Cardinality(Ult) < RefMod

Contract == MyFSAssumption /\ FewerCalls /\ Breaks \subseteq {"crash"}

\* What the proofs need to know of the sizes of sets; CardFactsHold, near the
\* end, shows it.
SizeFacts ==
  /\ \A S: IsFiniteSet(S) =>
       /\ Cardinality(S) \in Nat
       /\ Cardinality(S) = 0 <=> S = {}
       /\ \A T \in SUBSET S: IsFiniteSet(T) /\ Cardinality(T) <= Cardinality(S)
       /\ \A x: /\ IsFiniteSet(S \cup {x}) /\ IsFiniteSet(S \ {x})
                /\ x \notin S => Cardinality(S \cup {x}) = Cardinality(S) + 1
                /\ x \in S => Cardinality(S \ {x}) = Cardinality(S) - 1
  /\ IsFiniteSet({}) /\ \A x: Cardinality({x}) = 1
  /\ \A n \in Nat: IsFiniteSet(0 .. n) /\ Cardinality(0 .. n) = n + 1

PigeonholeFact ==
  \A S, T: IsFiniteSet(S) /\ IsFiniteSet(T) /\ Cardinality(T) < Cardinality(S) =>
    \A f \in [S -> T]: \E x, y \in S: x # y /\ f[x] = f[y]

CardFacts == SizeFacts /\ PigeonholeFact

LEMMA CardType ==
  ASSUME CardFacts, NEW S, IsFiniteSet(S)
  PROVE  Cardinality(S) \in Nat
  BY DEF CardFacts, SizeFacts

LEMMA CardEmpty ==
  ASSUME CardFacts
  PROVE  /\ IsFiniteSet({}) /\ Cardinality({}) = 0
         /\ \A S: IsFiniteSet(S) => (Cardinality(S) = 0 <=> S = {})
  BY DEF CardFacts, SizeFacts

LEMMA CardSubset ==
  ASSUME CardFacts, NEW S, IsFiniteSet(S), NEW T \in SUBSET S
  PROVE  IsFiniteSet(T) /\ Cardinality(T) <= Cardinality(S)
  BY DEF CardFacts, SizeFacts

LEMMA CardAdd ==
  ASSUME CardFacts, NEW S, IsFiniteSet(S), NEW x, x \notin S
  PROVE  IsFiniteSet(S \cup {x}) /\ Cardinality(S \cup {x}) = Cardinality(S) + 1
  BY DEF CardFacts, SizeFacts

LEMMA CardRemove ==
  ASSUME CardFacts, NEW S, IsFiniteSet(S), NEW x
  PROVE  /\ IsFiniteSet(S \ {x})
         /\ x \in S => Cardinality(S \ {x}) = Cardinality(S) - 1
  BY DEF CardFacts, SizeFacts

LEMMA CardInterval ==
  ASSUME CardFacts, NEW n \in Nat
  PROVE  IsFiniteSet(0 .. n) /\ Cardinality(0 .. n) = n + 1
  BY DEF CardFacts, SizeFacts

LEMMA CardPigeonhole ==
  ASSUME CardFacts, NEW S, NEW T, IsFiniteSet(S), IsFiniteSet(T),
         Cardinality(T) < Cardinality(S), NEW f \in [S -> T]
  PROVE  \E x, y \in S: x # y /\ f[x] = f[y]
  BY DEF CardFacts, PigeonholeFact

\* A set with one element has cardinality 1.
LEMMA OnePlace ==
  ASSUME CardFacts, NEW S, NEW x \in S, \A y \in S: y = x
  PROVE  Cardinality(S) = 1
  <1>1. S = {x}
    OBVIOUS
  <1> QED BY <1>1 DEF CardFacts, SizeFacts

-----------------------------------------------------------------------------
(* The inductive invariant *)

Locked == {"try", "free", "store", "clear"}
Freeing == {"free", "store", "clear"}
Ops == {"get_lba", "fill", "count", "check", "io"}
PC == {"idle"} \cup Locked \cup Ops
Block == Blk \cup {INACTIVE}
Holder == Ult \cup {NoUlt}
Ctx == [f: File, i: 0 .. MYFS_MAX_BLOCKS_PER_FILE, slot: Slot,
        todo: SUBSET File, lba: Block]

\* Neither "abort" nor "unlink_fd" is reached.
TypeInv ==
  /\ name \in [File -> Name \cup {NoName}]
  /\ block \in [File -> [Idx -> Block]]
  /\ n_block \in [File -> 0 .. MYFS_MAX_BLOCKS_PER_FILE]
  /\ free_blocks \in [Slot -> Blk]
  /\ free_blocks_rp \in Slot /\ free_blocks_wp \in Slot
  /\ flags \in [File -> SUBSET {OPENED, UNLINKED}]
  /\ ref_count \in [File -> Nat]
  /\ myfs_mutex \in Holder /\ file_mutex \in [File -> Holder]
  /\ fds \in [File -> {0, 1}]
  /\ pc \in [Ult -> PC] /\ ctx \in [Ult -> Ctx]

\* Who holds which mutex.
LockInv ==
  /\ \A u \in Ult: pc[u] \in Locked <=> myfs_mutex = u
  /\ \A u \in Ult: pc[u] \in {"fill", "count"} => file_mutex[ctx[u].f] = u

\* A file that is used has a descriptor, one that is unlinked has none.
UseInv ==
  /\ \A f \in File: name[f] = NoName => fds[f] = 0
  /\ \A f \in File: fds[f] = 1 => flags[f] = {OPENED}
  /\ \A u \in Ult: pc[u] \in Ops => fds[ctx[u].f] = 1
  /\ \A u \in Ult: pc[u] \in Locked => \A f \in ctx[u].todo: fds[f] = 0
  /\ \A u \in Ult: pc[u] \in Freeing => fds[ctx[u].f] = 0

\* What a ULT in a call knows of its block.
Knows(where, c, b, n) ==
  /\ where \in Ops \cup {"store", "clear"} => c.i \in Idx
  /\ where = "get_lba" => c.i <= n
  /\ where = "fill" => c.i = n /\ b = INACTIVE
  /\ where = "count" => c.i = n
  /\ where \in {"count", "check", "io"} => b # INACTIVE
  /\ where = "io" => b = c.lba
  /\ where \in {"store", "clear"} => c.i < n /\ b # INACTIVE

KnowsInv ==
  \A u \in Ult: Knows(pc[u], ctx[u], block[ctx[u].f][ctx[u].i], n_block[ctx[u].f])

\* A file has the blocks that it counts, but for those freed already.
DenseInv ==
  \A f \in File, b \in Idx:
    b < n_block[f] =>
      \/ block[f][b] # INACTIVE
      \/ \E u \in Ult: pc[u] \in Freeing /\ ctx[u].f = f /\ b < ctx[u].i

\* The slot being filled is the newest; taken slots are outside the ring.
RingInv ==
  /\ \A u \in Ult: pc[u] = "store" =>
       NextSlot(ctx[u].slot) = free_blocks_wp /\ free_blocks_rp # free_blocks_wp
  /\ \A u \in Ult: pc[u] = "fill" =>
       ctx[u].slot \notin Ring(free_blocks_rp, free_blocks_wp)
  /\ \A u, v \in Ult: pc[u] = "fill" /\ pc[v] = "fill" /\ ctx[u].slot = ctx[v].slot
                      => u = v

\* The ULTs that may take a slot, and a free block for each.
Waiting == {u \in Ult: pc[u] = "get_lba"}
RoomInv == Cardinality(Waiting) <= Cardinality(Free)

\* The block of a file position, of a slot.
At(x) == block[x[1]][x[2]]
Avail == Free \cup Taken

PlaceInv ==
  /\ \A x, y \in Owned: At(x) = At(y) => x = y
  /\ \A s, t \in Avail: free_blocks[s] = free_blocks[t] => s = t
  /\ \A x \in Owned, s \in Avail: At(x) # free_blocks[s]
  /\ "crash" \notin Breaks =>
       \A b \in Blk: \/ \E x \in Owned: At(x) = b
                     \/ \E s \in Avail: free_blocks[s] = b

IInv ==
  /\ TypeInv /\ LockInv /\ UseInv /\ RefCounted /\ KnowsInv /\ DenseInv
  /\ RingInv /\ RoomInv /\ PlaceInv

-----------------------------------------------------------------------------
(* The ring *)

LEMMA ContractFacts ==
  ASSUME Contract, CardFacts
  PROVE  /\ NUM_BLOCKS \in Nat /\ NUM_BLOCKS > 1
         /\ MYFS_MAX_FILES \in Nat /\ MYFS_MAX_FILES > 0
         /\ MYFS_MAX_BLOCKS_PER_FILE \in Nat /\ MYFS_MAX_BLOCKS_PER_FILE > 0
         /\ RefMod \in Nat /\ RefMod > 0
         /\ NoUlt \notin Ult /\ NoName \notin Name
         /\ IsFiniteSet(Ult) /\ Cardinality(Ult) < RefMod
         /\ \A x \in {"midfree", "hole", "full", "busy", "lap"}: x \notin Breaks
  BY SMTT(60) DEF Contract, MyFSAssumption, FewerCalls

\* The next index is the successor, or 0 after the last.
LEMMA NextSlotIs ==
  ASSUME Contract, CardFacts, NEW i \in Slot
  PROVE  /\ NextSlot(i) \in Slot
         /\ NextSlot(i) = IF i = NUM_BLOCKS - 1 THEN 0 ELSE i + 1
  <1>1. NUM_BLOCKS \in Nat /\ NUM_BLOCKS > 1 /\ i \in Nat /\ i <= NUM_BLOCKS - 1
    BY ContractFacts, SMTT(60) DEF Slot
  <1>2. CASE i = NUM_BLOCKS - 1
    <2>1. (i + 1) % NUM_BLOCKS = 0
      BY <1>1, <1>2, SMT
    <2> QED BY <1>1, <1>2, <2>1, SMTT(60) DEF NextSlot, Slot
  <1>3. CASE i # NUM_BLOCKS - 1
    <2>1. (i + 1) % NUM_BLOCKS = i + 1
      BY <1>1, <1>3, SMT
    <2> QED BY <1>1, <1>3, <2>1, SMTT(60) DEF NextSlot, Slot
  <1> QED BY <1>2, <1>3

\* Moving the write index adds its slot, while it does not catch up.
LEMMA RingPush ==
  ASSUME Contract, CardFacts, NEW rp \in Slot, NEW wp \in Slot, NextSlot(wp) # rp
  PROVE  /\ Ring(rp, NextSlot(wp)) = Ring(rp, wp) \cup {wp}
         /\ wp \notin Ring(rp, wp)
         /\ NextSlot(wp) \in Slot
  <1>1. NUM_BLOCKS \in Nat /\ NUM_BLOCKS > 1
    BY ContractFacts
  <1>2. NextSlot(wp) = IF wp = NUM_BLOCKS - 1 THEN 0 ELSE wp + 1
    BY NextSlotIs
  <1> QED BY <1>1, <1>2, SMTT(60) DEF Ring, Slot

\* Moving the read index removes its slot, while the ring is not empty.
LEMMA RingPop ==
  ASSUME Contract, CardFacts, NEW rp \in Slot, NEW wp \in Slot, rp # wp
  PROVE  /\ Ring(NextSlot(rp), wp) = Ring(rp, wp) \ {rp}
         /\ rp \in Ring(rp, wp)
         /\ NextSlot(rp) \in Slot
  <1>1. NUM_BLOCKS \in Nat /\ NUM_BLOCKS > 1
    BY ContractFacts
  <1>2. NextSlot(rp) = IF rp = NUM_BLOCKS - 1 THEN 0 ELSE rp + 1
    BY NextSlotIs
  <1> QED BY <1>1, <1>2, SMTT(60) DEF Ring, Slot

\* A ring whose write index is just before the read index is full.
LEMMA RingFull ==
  ASSUME Contract, CardFacts, NEW rp \in Slot, NEW wp \in Slot, NextSlot(wp) = rp
  PROVE  Ring(rp, wp) = Slot \ {wp}
  <1>1. NUM_BLOCKS \in Nat /\ NUM_BLOCKS > 1
    BY ContractFacts
  <1>2. rp = IF wp = NUM_BLOCKS - 1 THEN 0 ELSE wp + 1
    BY NextSlotIs
  <1> QED BY <1>1, <1>2, SMTT(60) DEF Ring, Slot

\* The newest slot is in the ring, and is not the one read next when there is
\* another one.
LEMMA RingNewest ==
  ASSUME Contract, CardFacts, NEW rp \in Slot, NEW wp \in Slot, rp # wp,
         NEW s \in Slot, NextSlot(s) = wp
  PROVE  /\ s \in Ring(rp, wp)
         /\ \A t \in Ring(rp, wp): t # s => rp # s
  <1>1. NUM_BLOCKS \in Nat /\ NUM_BLOCKS > 1
    BY ContractFacts
  <1>2. wp = IF s = NUM_BLOCKS - 1 THEN 0 ELSE s + 1
    BY NextSlotIs
  <1> QED BY <1>1, <1>2, SMTT(60) DEF Ring, Slot

LEMMA RingEmpty ==
  ASSUME Contract, CardFacts, NEW rp \in Slot
  PROVE  Ring(rp, rp) = {}
  BY ContractFacts, SMTT(60) DEF Ring, Slot

\* Distinct blocks in the slots of a set, one block outside: the set is
\* smaller than a full ring.
LEMMA Pigeonhole ==
  ASSUME Contract, CardFacts, NEW S \in SUBSET Slot, NEW g \in [Slot -> Blk], NEW b \in Blk,
         \A s, t \in S: g[s] = g[t] => s = t,
         \A s \in S: g[s] # b,
         NEW w \in Slot
  PROVE  S # Slot \ {w}
  <1> SUFFICES ASSUME S = Slot \ {w} PROVE FALSE
    OBVIOUS
  <1>1. NUM_BLOCKS \in Nat /\ NUM_BLOCKS > 1
    BY ContractFacts
  <1>2. IsFiniteSet(Slot) /\ Cardinality(Slot) = NUM_BLOCKS
    <2>1. NUM_BLOCKS - 1 \in Nat
      BY <1>1, SMTT(60)
    <2>2. /\ IsFiniteSet(0 .. NUM_BLOCKS - 1)
          /\ Cardinality(0 .. NUM_BLOCKS - 1) = (NUM_BLOCKS - 1) + 1
      BY <2>1, CardInterval
    <2> QED BY <1>1, <2>2, SMTT(60) DEF Slot
  <1>3. IsFiniteSet(Blk) /\ Cardinality(Blk) = NUM_BLOCKS - 1
    <2>1. NUM_BLOCKS - 2 \in Nat
      BY <1>1, SMTT(60)
    <2>2. /\ IsFiniteSet(0 .. NUM_BLOCKS - 2)
          /\ Cardinality(0 .. NUM_BLOCKS - 2) = (NUM_BLOCKS - 2) + 1
      BY <2>1, CardInterval
    <2> QED BY <1>1, <2>2, SMTT(60) DEF Blk
  <1>4. IsFiniteSet(S) /\ Cardinality(S) = NUM_BLOCKS - 1
    BY <1>1, <1>2, CardRemove
  <1>5. IsFiniteSet(Blk \ {b}) /\ Cardinality(Blk \ {b}) = NUM_BLOCKS - 2
    BY <1>1, <1>3, CardRemove, SMTT(60)
  <1> DEFINE h == [s \in S |-> g[s]]
  <1>6. h \in [S -> Blk \ {b}]
    OBVIOUS
  <1>7. Cardinality(Blk \ {b}) < Cardinality(S)
    BY <1>1, <1>4, <1>5, SMTT(60)
  <1>8. \E x, y \in S: x # y /\ h[x] = h[y]
    <2> HIDE DEF h
    <2> QED BY <1>4, <1>5, <1>6, <1>7, CardPigeonhole, SMTT(60)
  <1> QED BY <1>8

-----------------------------------------------------------------------------
(* The steps of one ULT *)

Others(u) == \A v \in Ult \ {u}: pc'[v] = pc[v] /\ ctx'[v] = ctx[v]

\* The locals of a call that starts.
LEMMA NoCtxType ==
  ASSUME Contract, CardFacts
  PROVE  /\ NoCtx \in Ctx
         /\ \A f \in File:
              LET c == [NoCtx EXCEPT !.f = f] IN c \in Ctx /\ c.f = f /\ c.todo = {}
         /\ \A t \in SUBSET File:
              LET c == [NoCtx EXCEPT !.todo = t] IN c \in Ctx /\ c.todo = t
  <1>1. 0 \in File /\ 0 \in 0 .. MYFS_MAX_BLOCKS_PER_FILE /\ 0 \in Slot
    BY ContractFacts, SMTT(60) DEF File, Slot
  <1>2. {} \in SUBSET File /\ INACTIVE \in Block
    BY DEF Block
  <1> QED BY <1>1, <1>2 DEF NoCtx, Ctx

\* The changes a step makes to the locals.
LEMMA CtxUpdates ==
  ASSUME Contract, CardFacts, NEW c \in Ctx
  PROVE  /\ \A s \in Slot:
              LET d == [c EXCEPT !.slot = s] IN
              /\ d \in Ctx /\ d.slot = s /\ d.f = c.f /\ d.i = c.i
              /\ d.todo = c.todo /\ d.lba = c.lba
         /\ \A b \in Block:
              LET d == [c EXCEPT !.lba = b] IN
              /\ d \in Ctx /\ d.lba = b /\ d.f = c.f /\ d.i = c.i
              /\ d.todo = c.todo /\ d.slot = c.slot
         /\ c.i \in Idx =>
              LET d == [c EXCEPT !.i = @ + 1] IN
              /\ d \in Ctx /\ d.i = c.i + 1 /\ d.f = c.f
              /\ d.todo = c.todo /\ d.lba = c.lba /\ d.slot = c.slot
  <1>1. \A i \in Idx: i + 1 \in 0 .. MYFS_MAX_BLOCKS_PER_FILE
    BY ContractFacts, SMTT(60) DEF Idx
  <1> QED BY <1>1 DEF Ctx

\* Another ULT is where it was.
LEMMA Moved ==
  ASSUME TypeInv, NEW u \in Ult, NEW w \in PC, NEW c \in Ctx,
         Goto(u, w), Locals(u, c) \/ (UNCHANGED ctx /\ c = ctx[u])
  PROVE  /\ pc' \in [Ult -> PC] /\ ctx' \in [Ult -> Ctx]
         /\ pc'[u] = w /\ ctx'[u] = c
         /\ Others(u)
  BY DEF TypeInv, Goto, Locals, Others, PC

\* Steps that are not about slots and blocks leave these in place.
LEMMA PlacesSame ==
  ASSUME NEW u \in Ult, Others(u),
         pc[u] \notin {"fill", "store", "clear"}, pc'[u] \notin {"fill", "store", "clear"},
         UNCHANGED <<block, free_blocks, free_blocks_rp, free_blocks_wp>>
  PROVE  /\ Free' = Free /\ Taken' = Taken /\ Owned' = Owned
         /\ RingInv => RingInv'
         /\ PlaceInv => PlaceInv'
  <1>1. Filling' = Filling /\ Taken' = Taken /\ Clearing' = Clearing
    BY DEF Filling, Taken, Clearing, Others
  <1>2. Free' = Free
    BY <1>1 DEF Free
  <1>3. Owned' = Owned
    BY <1>1 DEF Owned, Used
  <1>4. RingInv => RingInv'
    BY DEF RingInv, Others
  <1>5. PlaceInv => PlaceInv'
    BY <1>1, <1>2, <1>3 DEF PlaceInv, Avail, At
  <1> QED BY <1>1, <1>2, <1>3, <1>4, <1>5

LEMMA RoomSame ==
  ASSUME NEW u \in Ult, Others(u), RoomInv, Free' = Free,
         pc[u] # "get_lba", pc'[u] # "get_lba"
  PROVE  RoomInv'
  <1>1. Waiting' = Waiting
    BY DEF Waiting, Others
  <1> QED BY <1>1 DEF RoomInv

LEMMA DenseSame ==
  ASSUME NEW u \in Ult, Others(u), DenseInv, UNCHANGED <<block, n_block>>,
         \/ pc[u] \notin Freeing
         \/ pc'[u] \in Freeing /\ ctx'[u].f = ctx[u].f /\ ctx'[u].i = ctx[u].i
  PROVE  DenseInv'
  BY SMTT(60) DEF DenseInv, Others

LEMMA RefSame ==
  ASSUME NEW u \in Ult, Others(u), RefCounted, UNCHANGED ref_count,
         \/ pc[u] \notin Ops /\ pc'[u] \notin Ops
         \/ pc[u] \in Ops /\ pc'[u] \in Ops /\ ctx'[u].f = ctx[u].f
  PROVE  RefCounted'
  <1>1. ASSUME NEW f \in File PROVE InIO(f)' = InIO(f)
    BY DEF InIO, Others, Ops
  <1> QED BY <1>1 DEF RefCounted

\* A step that changes no descriptor, by a ULT that keeps its files.
LEMMA UseSame ==
  ASSUME NEW u \in Ult, Others(u), UseInv, UNCHANGED <<name, flags, fds>>,
         pc'[u] \in Ops => fds[ctx'[u].f] = 1,
         pc'[u] \in Locked => \A f \in ctx'[u].todo: fds[f] = 0,
         pc'[u] \in Freeing => fds[ctx'[u].f] = 0
  PROVE  UseInv'
  BY DEF UseInv, Others

LEMMA UseMoved ==
  ASSUME NEW u \in Ult, Others(u), UseInv, UNCHANGED <<name, flags, fds>>,
         ctx'[u].f = ctx[u].f,
         \/ pc[u] \in Ops /\ pc'[u] \in Ops
         \/ pc[u] \in Freeing /\ pc'[u] \in Freeing /\ ctx'[u].todo = ctx[u].todo
  PROVE  UseInv'
  <1>1. /\ pc'[u] \in Ops => fds[ctx'[u].f] = 1
        /\ pc'[u] \in Locked => \A f \in ctx'[u].todo: fds[f] = 0
        /\ pc'[u] \in Freeing => fds[ctx'[u].f] = 0
    BY DEF UseInv, Ops, Locked, Freeing
  <1> QED BY <1>1, UseSame

\* What a ULT has to know where a step takes it.
LEMMA KnowsMeans ==
  ASSUME NEW c, NEW b, NEW n
  PROVE  /\ \A w \in {"idle", "try", "free"}: Knows(w, c, b, n)
         /\ c.i \in Idx /\ c.i <= n => Knows("get_lba", c, b, n)
         /\ c.i \in Idx /\ c.i = n /\ b = INACTIVE => Knows("fill", c, b, n)
         /\ c.i \in Idx /\ b # INACTIVE => Knows("check", c, b, n)
         /\ c.i \in Idx /\ b # INACTIVE /\ b = c.lba => Knows("io", c, b, n)
         /\ c.i \in Idx /\ c.i < n /\ b # INACTIVE => Knows("store", c, b, n)
  BY DEF Knows, Ops

\* The others know what they knew.
LEMMA KnowsSame ==
  ASSUME NEW u \in Ult, Others(u), KnowsInv, UNCHANGED <<block, n_block>>,
         Knows(pc'[u], ctx'[u], block[ctx'[u].f][ctx'[u].i], n_block[ctx'[u].f])
  PROVE  KnowsInv'
  BY DEF KnowsInv, Others

LEMMA KnowsNothing ==
  ASSUME NEW u \in Ult, Others(u), KnowsInv, UNCHANGED <<block, n_block>>,
         pc'[u] \in {"idle", "try", "free"}
  PROVE  KnowsInv'
  BY KnowsMeans, KnowsSame

\* A ULT that stays where it is, when its file's block and count do too or
\* matter to none of its promises.
LEMMA KnowsOther ==
  ASSUME KnowsInv, NEW v \in Ult, pc[v] \in PC, pc'[v] = pc[v], ctx'[v] = ctx[v],
         \/ pc[v] \notin Ops \cup {"store", "clear"}
         \/ /\ block'[ctx[v].f][ctx[v].i] = block[ctx[v].f][ctx[v].i]
            /\ n_block'[ctx[v].f] = n_block[ctx[v].f]
  PROVE  Knows(pc'[v], ctx'[v], block'[ctx'[v].f][ctx'[v].i], n_block'[ctx'[v].f])
  <1>1. CASE pc[v] \notin Ops \cup {"store", "clear"}
    <2>1. pc'[v] \in {"idle", "try", "free"}
      BY <1>1 DEF PC, Locked
    <2> QED BY <2>1, KnowsMeans
  <1>2. CASE /\ block'[ctx[v].f][ctx[v].i] = block[ctx[v].f][ctx[v].i]
             /\ n_block'[ctx[v].f] = n_block[ctx[v].f]
    BY <1>2 DEF KnowsInv
  <1> QED BY <1>1, <1>2

\* A file that is opened is not in use; a new one has no call on it.
LEMMA OpenKeeps ==
  ASSUME Contract, CardFacts, IInv, NEW u \in Ult, NEW n \in Name, myfs_open(u, n)
  PROVE  IInv'
  <1> USE DEF IInv
  <1>0. UNCHANGED <<block, free_blocks, free_blocks_rp, free_blocks_wp, ref_count,
                    myfs_mutex, file_mutex, pc, ctx>>
    BY DEF myfs_open, locks
  <1>1. Others(u)
    BY <1>0 DEF Others
  <1>2. \A v \in Ult: pc[v] \notin Locked
    BY ContractFacts DEF myfs_open, LockInv
  <1>3. PICK f \in File:
          /\ fds[f] = 0
          /\ flags' = [flags EXCEPT ![f] = {OPENED}]
          /\ fds' = [fds EXCEPT ![f] = 1]
          /\ \/ UNCHANGED <<name, n_block>> /\ name[f] # NoName
             \/ /\ name' = [name EXCEPT ![f] = n]
                /\ n_block' = [n_block EXCEPT ![f] = 0]
    <2>1. CASE Found(n) # {}
      <3>1. PICK f \in First(Found(n)):
              /\ fds[f] = 0
              /\ flags' = [flags EXCEPT ![f] = {OPENED}]
              /\ fds' = [fds EXCEPT ![f] = @ + 1]
              /\ UNCHANGED <<name, n_block>>
        BY <2>1 DEF myfs_open
      <3>2. f \in File /\ name[f] # NoName
        BY <3>1 DEF First, Found
      <3>3. fds' = [fds EXCEPT ![f] = 1]
        BY <3>1, <3>2, SMTT(60) DEF TypeInv
      <3> QED BY <3>1, <3>2, <3>3
    <2>2. CASE Found(n) = {}
      <3>1. PICK f \in First(Empty):
              /\ name' = [name EXCEPT ![f] = n]
              /\ n_block' = [n_block EXCEPT ![f] = 0]
              /\ flags' = [flags EXCEPT ![f] = {OPENED}]
              /\ fds' = [fds EXCEPT ![f] = 1]
        BY <2>2 DEF myfs_open
      <3>2. f \in File /\ name[f] = NoName
        BY <3>1 DEF First, Empty
      <3> QED BY <3>1, <3>2 DEF UseInv
    <2> QED BY <2>1, <2>2
  <1>4. TypeInv'
    <2>1. 0 \in 0 .. MYFS_MAX_BLOCKS_PER_FILE
      BY ContractFacts, SMTT(60)
    <2>2. n_block' \in [File -> 0 .. MYFS_MAX_BLOCKS_PER_FILE]
      BY <1>3, <2>1 DEF TypeInv
    <2>3. name' \in [File -> Name \cup {NoName}]
      BY <1>3 DEF TypeInv
    <2>4. flags' \in [File -> SUBSET {OPENED, UNLINKED}] /\ fds' \in [File -> {0, 1}]
      BY <1>3 DEF TypeInv
    <2> QED BY <1>0, <2>2, <2>3, <2>4 DEF TypeInv
  <1>5. \A g \in File: g # f => n_block'[g] = n_block[g] /\ fds'[g] = fds[g]
                               /\ flags'[g] = flags[g] /\ name'[g] = name[g]
    BY <1>3 DEF TypeInv
  <1>6. LockInv'
    BY <1>0 DEF LockInv
  <1>7. \A v \in Ult: pc[v] \in Ops => ctx[v].f \in File /\ ctx[v].f # f
    BY <1>3, SMTT(60) DEF UseInv, TypeInv, Ctx
  <1>8. UseInv'
    <2>1. name'[f] # NoName /\ fds'[f] = 1 /\ flags'[f] = {OPENED}
      BY <1>3, ContractFacts DEF TypeInv
    <2>2. \A v \in Ult: pc'[v] \in Ops => fds'[ctx'[v].f] = 1
      BY <1>0, <1>5, <1>7 DEF UseInv
    <2>3. \A g \in File: /\ name'[g] = NoName => fds'[g] = 0
                         /\ fds'[g] = 1 => flags'[g] = {OPENED}
      BY <1>5, <2>1 DEF UseInv
    <2>4. \A v \in Ult: pc'[v] \notin Locked /\ pc'[v] \notin Freeing
      BY <1>0, <1>2 DEF Locked, Freeing
    <2> QED BY <2>2, <2>3, <2>4 DEF UseInv
  <1>9. KnowsInv'
    <2> SUFFICES ASSUME NEW v \in Ult
                 PROVE  Knows(pc'[v], ctx'[v], block'[ctx'[v].f][ctx'[v].i],
                              n_block'[ctx'[v].f])
      BY DEF KnowsInv
    <2>1. pc'[v] = pc[v] /\ ctx'[v] = ctx[v] /\ pc[v] \in PC /\ block' = block
      BY <1>0 DEF TypeInv
    <2>2. pc[v] \in Ops => n_block'[ctx[v].f] = n_block[ctx[v].f]
      BY <1>5, <1>7
    <2>3. pc[v] \notin {"store", "clear"}
      BY <1>2 DEF Locked
    <2> QED BY <2>1, <2>2, <2>3, KnowsOther
  <1>10. DenseInv'
    <2>1. n_block'[f] = n_block[f] \/ n_block'[f] = 0
      BY <1>3 DEF TypeInv
    <2> QED BY <1>0, <1>5, <2>1, ContractFacts, SMTT(60) DEF DenseInv, Idx
  <1>11. RefCounted'
    BY <1>0 DEF RefCounted, InIO
  <1>12. RingInv' /\ RoomInv' /\ PlaceInv'
    <2>1. Free' = Free /\ Taken' = Taken /\ Owned' = Owned /\ Waiting' = Waiting
      BY <1>0 DEF Free, Filling, Taken, Owned, Used, Clearing, Waiting
    <2>2. RingInv' /\ RoomInv'
      BY <1>0, <2>1 DEF RingInv, RoomInv
    <2>3. PlaceInv'
      BY <1>0, <2>1, SMTT(60) DEF PlaceInv, Avail, At
    <2> QED BY <2>2, <2>3
  <1> QED BY <1>4, <1>6, <1>8, <1>9, <1>10, <1>11, <1>12

LEMMA CloseKeeps ==
  ASSUME Contract, CardFacts, IInv, NEW u \in Ult, NEW f \in File, myfs_close(u, f)
  PROVE  IInv'
  <1> USE DEF IInv
  <1>0. UNCHANGED <<name, block, n_block, free_blocks, free_blocks_rp,
                    free_blocks_wp, ref_count, myfs_mutex, file_mutex, pc, ctx>>
    BY DEF myfs_close, super, locks
  <1>1. fds[f] = 1 /\ fds' = [fds EXCEPT ![f] = 0]
    <2>1. fds \in [File -> {0, 1}] /\ fds[f] > 0 /\ fds' = [fds EXCEPT ![f] = @ - 1]
      BY DEF myfs_close, TypeInv
    <2>2. fds[f] = 1
      BY <2>1, SMTT(60)
    <2> QED BY <2>1, <2>2, SMTT(60)
  <1>2. \A v \in Ult: pc[v] \in Ops => ctx[v].f # f
    BY DEF myfs_close, InIO, Ops
  <1>3. TypeInv'
    BY <1>0, <1>1 DEF TypeInv, myfs_close
  <1>4. LockInv'
    BY <1>0 DEF LockInv
  <1>5. UseInv'
    <2>1. \A g \in File: g # f => fds'[g] = fds[g] /\ flags'[g] = flags[g]
      BY <1>1 DEF TypeInv, myfs_close
    <2>2. fds'[f] = 0
      BY <1>1 DEF TypeInv
    <2>3. \A v \in Ult: ctx[v].f \in File /\ ctx[v].todo \subseteq File
      BY DEF TypeInv, Ctx
    <2> QED BY <1>0, <1>2, <2>1, <2>2, <2>3, SMTT(60) DEF UseInv
  <1>6. KnowsInv' /\ DenseInv'
    BY <1>0 DEF KnowsInv, DenseInv
  <1>7. RefCounted'
    BY <1>0 DEF RefCounted, InIO
  <1>8. RingInv' /\ RoomInv' /\ PlaceInv'
    <2>1. Free' = Free /\ Taken' = Taken /\ Owned' = Owned /\ Waiting' = Waiting
      BY <1>0 DEF Free, Filling, Taken, Owned, Used, Clearing, Waiting
    <2>2. RingInv' /\ RoomInv'
      BY <1>0, <2>1 DEF RingInv, RoomInv
    <2>3. PlaceInv'
      BY <1>0, <2>1, SMTT(60) DEF PlaceInv, Avail, At
    <2> QED BY <2>2, <2>3
  <1> QED BY <1>3, <1>4, <1>5, <1>6, <1>7, <1>8

\* None of the files that are unlinked is open.
LEMMA UnlinkKeeps ==
  ASSUME Contract, CardFacts, IInv, NEW u \in Ult, NEW n \in Name, myfs_unlink(u, n)
  PROVE  IInv'
  <1> USE DEF IInv
  <1>0. UNCHANGED <<name, block, n_block, free_blocks, free_blocks_rp,
                    free_blocks_wp, flags, ref_count, file_mutex, fds>>
    BY DEF myfs_unlink, super, state
  <1> DEFINE c == [NoCtx EXCEPT !.todo = Found(n)]
  <1>1. c \in Ctx /\ c.todo = Found(n)
    BY NoCtxType DEF Found
  <1>2. /\ pc[u] = "idle" /\ myfs_mutex = NoUlt /\ myfs_mutex' = u
        /\ Goto(u, "try") /\ Locals(u, c)
        /\ \A f \in Found(n): fds[f] = 0
    BY ContractFacts DEF myfs_unlink
  <1> HIDE DEF c
  <1>3. /\ pc' \in [Ult -> PC] /\ ctx' \in [Ult -> Ctx]
        /\ pc'[u] = "try" /\ ctx'[u] = c /\ Others(u)
    <2>1. "try" \in PC
      BY DEF PC, Locked
    <2> QED BY <1>1, <1>2, <2>1, Moved
  <1>4. TypeInv'
    BY <1>0, <1>2, <1>3 DEF TypeInv, Holder
  <1>5. LockInv'
    BY <1>0, <1>2, <1>3, ContractFacts DEF LockInv, Others, Locked
  <1>6. UseInv'
    BY <1>0, <1>1, <1>2, <1>3, UseSame DEF Ops, Freeing
  <1>7. KnowsInv'
    BY <1>0, <1>3, KnowsNothing
  <1>8. DenseInv'
    BY <1>0, <1>2, <1>3, DenseSame DEF Freeing
  <1>9. RefCounted'
    BY <1>0, <1>2, <1>3, RefSame DEF Ops
  <1>10. Free' = Free /\ RingInv' /\ PlaceInv'
    BY <1>0, <1>2, <1>3, PlacesSame
  <1>11. RoomInv'
    BY <1>2, <1>3, <1>10, RoomSame
  <1> QED BY <1>4, <1>5, <1>6, <1>7, <1>8, <1>9, <1>10, <1>11

\* The file that is unlinked next is not in use, so its count is 0.
LEMMA TryUnlinkKeeps ==
  ASSUME Contract, CardFacts, IInv, NEW u \in Ult, try_unlink(u)
  PROVE  IInv'
  <1> USE DEF IInv
  <1>0. UNCHANGED <<name, block, n_block, free_blocks, free_blocks_rp,
                    free_blocks_wp, ref_count, myfs_mutex, file_mutex, fds>>
    BY DEF try_unlink, super, locks
  <1>1. ctx[u] \in Ctx /\ pc[u] = "try"
    BY DEF TypeInv, try_unlink
  <1>2. PICK f \in ctx[u].todo:
          /\ flags' = [flags EXCEPT ![f] = @ \cup {UNLINKED}]
          /\ Locals(u, [ctx[u] EXCEPT !.f = f, !.i = 0, !.todo = @ \ {f}])
          /\ Goto(u, IF ref_count[f] = 0 THEN "free" ELSE "try")
    BY DEF try_unlink, First
  <1>3. f \in File /\ fds[f] = 0
    BY <1>1, <1>2 DEF Ctx, UseInv, Locked
  <1> DEFINE c == [ctx[u] EXCEPT !.f = f, !.i = 0, !.todo = @ \ {f}]
             w == IF ref_count[f] = 0 THEN "free" ELSE "try"
  <1>4. c \in Ctx /\ c.f = f /\ c.i = 0 /\ c.todo = ctx[u].todo \ {f}
    <2>1. 0 \in 0 .. MYFS_MAX_BLOCKS_PER_FILE
      BY ContractFacts, SMTT(60)
    <2> QED BY <1>1, <1>3, <2>1 DEF Ctx
  <1>5. Locals(u, c) /\ Goto(u, w) /\ w \in {"free", "try"} /\ w \in PC
    BY <1>2 DEF PC, Locked
  <1> HIDE DEF c, w
  <1>6. /\ pc' \in [Ult -> PC] /\ ctx' \in [Ult -> Ctx]
        /\ pc'[u] = w /\ ctx'[u] = c /\ Others(u)
    BY <1>4, <1>5, Moved
  <1>7. TypeInv'
    BY <1>0, <1>2, <1>3, <1>6 DEF TypeInv
  <1>8. LockInv'
    BY <1>0, <1>1, <1>5, <1>6 DEF LockInv, Others, Locked
  <1>9. UseInv'
    <2>1. \A g \in File: fds[g] = 1 => flags'[g] = flags[g]
      BY <1>2, <1>3, SMTT(60) DEF TypeInv
    <2> QED BY <1>0, <1>1, <1>3, <1>4, <1>5, <1>6, <2>1, SMTT(60)
            DEF UseInv, Others, Locked, Freeing, Ops
  <1>10. KnowsInv'
    BY <1>0, <1>5, <1>6, KnowsNothing
  <1>11. DenseInv'
    BY <1>0, <1>1, <1>6, DenseSame DEF Freeing
  <1>12. RefCounted'
    BY <1>0, <1>1, <1>5, <1>6, RefSame DEF Ops
  <1>13. Free' = Free /\ RingInv' /\ PlaceInv'
    BY <1>0, <1>1, <1>5, <1>6, PlacesSame
  <1>14. RoomInv'
    BY <1>1, <1>5, <1>6, <1>13, RoomSame
  <1> QED BY <1>7, <1>8, <1>9, <1>10, <1>11, <1>12, <1>13, <1>14

LEMMA UnlinkEndKeeps ==
  ASSUME Contract, CardFacts, IInv, NEW u \in Ult, unlink_end(u)
  PROVE  IInv'
  <1> USE DEF IInv
  <1>0. UNCHANGED <<name, block, n_block, free_blocks, free_blocks_rp,
                    free_blocks_wp, flags, ref_count, file_mutex, fds>>
    BY DEF unlink_end, super, state
  <1>1. /\ pc[u] = "try" /\ myfs_mutex' = NoUlt
        /\ Goto(u, "idle") /\ Locals(u, NoCtx)
    BY DEF unlink_end
  <1>2. /\ pc' \in [Ult -> PC] /\ ctx' \in [Ult -> Ctx]
        /\ pc'[u] = "idle" /\ ctx'[u] = NoCtx /\ Others(u)
    <2>1. "idle" \in PC
      BY DEF PC
    <2> QED BY <1>1, <2>1, NoCtxType, Moved
  <1>3. TypeInv'
    BY <1>0, <1>1, <1>2 DEF TypeInv, Holder
  <1>4. LockInv'
    BY <1>0, <1>1, <1>2, ContractFacts DEF LockInv, Others, Locked
  <1>5. UseInv'
    BY <1>0, <1>2, UseSame DEF Ops, Locked, Freeing
  <1>6. KnowsInv'
    BY <1>0, <1>2, KnowsNothing
  <1>7. DenseInv'
    BY <1>0, <1>1, <1>2, DenseSame DEF Freeing
  <1>8. RefCounted'
    BY <1>0, <1>1, <1>2, RefSame DEF Ops
  <1>9. Free' = Free /\ RingInv' /\ PlaceInv'
    BY <1>0, <1>1, <1>2, PlacesSame
  <1>10. RoomInv'
    BY <1>1, <1>2, <1>9, RoomSame
  <1> QED BY <1>3, <1>4, <1>5, <1>6, <1>7, <1>8, <1>9, <1>10

\* The file that has been freed counts no block, and no call uses it.
LEMMA FreeEndKeeps ==
  ASSUME Contract, CardFacts, IInv, NEW u \in Ult, free_end(u)
  PROVE  IInv'
  <1> USE DEF IInv
  <1> DEFINE f == ctx[u].f
  <1>0. UNCHANGED <<block, free_blocks, free_blocks_rp, free_blocks_wp,
                    myfs_mutex, file_mutex, fds, ctx>>
    BY DEF free_end, locks
  <1>1. /\ pc[u] = "free" /\ Goto(u, "try")
        /\ name' = [name EXCEPT ![f] = NoName]
        /\ n_block' = [n_block EXCEPT ![f] = 0]
        /\ flags' = [flags EXCEPT ![f] = {}]
        /\ ref_count' = [ref_count EXCEPT ![f] = 0]
    BY DEF free_end
  <1>2. ctx[u] \in Ctx /\ f \in File /\ fds[f] = 0
    BY <1>1 DEF TypeInv, Ctx, UseInv, Freeing
  <1>3. /\ pc' \in [Ult -> PC] /\ ctx' \in [Ult -> Ctx]
        /\ pc'[u] = "try" /\ ctx'[u] = ctx[u] /\ Others(u)
    <2>1. "try" \in PC
      BY DEF PC, Locked
    <2> QED BY <1>0, <1>1, <1>2, <2>1, Moved
  <1> HIDE DEF f
  <1>4. TypeInv'
    <2>1. 0 \in Nat /\ 0 \in 0 .. MYFS_MAX_BLOCKS_PER_FILE
      BY ContractFacts, SMTT(60)
    <2>2. /\ n_block' \in [File -> 0 .. MYFS_MAX_BLOCKS_PER_FILE]
          /\ ref_count' \in [File -> Nat]
      BY <1>1, <2>1 DEF TypeInv
    <2>3. name' \in [File -> Name \cup {NoName}] /\ flags' \in [File -> SUBSET {OPENED, UNLINKED}]
      BY <1>1 DEF TypeInv
    <2> QED BY <1>0, <1>3, <2>2, <2>3 DEF TypeInv
  <1>5. LockInv'
    BY <1>0, <1>1, <1>3 DEF LockInv, Others, Locked
  <1>6. \A g \in File: /\ g # f => /\ n_block'[g] = n_block[g] /\ flags'[g] = flags[g]
                                   /\ name'[g] = name[g] /\ ref_count'[g] = ref_count[g]
                       /\ g = f => n_block'[g] = 0 /\ ref_count'[g] = 0
    BY <1>1 DEF TypeInv
  <1>7. \A v \in Ult: ctx[v].f \in File /\ (pc[v] \in Ops => ctx[v].f # f)
    BY <1>2, SMTT(60) DEF UseInv, TypeInv, Ctx
  <1>8. \A v \in Ult: v # u => pc[v] \notin Locked
    BY <1>1 DEF LockInv, Locked
  <1>9. UseInv'
    <2>1. \A g \in File: /\ name'[g] = NoName => fds'[g] = 0
                         /\ fds'[g] = 1 => flags'[g] = {OPENED}
      BY <1>0, <1>2, <1>6, SMTT(60) DEF UseInv
    <2>2. \A v \in Ult: pc'[v] \in Ops => fds'[ctx'[v].f] = 1
      BY <1>0, <1>3 DEF UseInv, Others, Ops
    <2>3. \A v \in Ult: pc'[v] \in Locked => \A g \in ctx'[v].todo: fds'[g] = 0
      BY <1>0, <1>1, <1>3, <1>8 DEF UseInv, Others, Locked
    <2>4. \A v \in Ult: pc'[v] \notin Freeing
      BY <1>3, <1>8 DEF Others, Locked, Freeing
    <2> QED BY <2>1, <2>2, <2>3, <2>4 DEF UseInv
  <1>10. KnowsInv'
    <2> SUFFICES ASSUME NEW v \in Ult
                 PROVE  Knows(pc'[v], ctx'[v], block'[ctx'[v].f][ctx'[v].i],
                              n_block'[ctx'[v].f])
      BY DEF KnowsInv
    <2>1. CASE v = u
      BY <1>3, <2>1, KnowsMeans
    <2>2. CASE v # u
      <3>1. pc'[v] = pc[v] /\ ctx'[v] = ctx[v] /\ pc[v] \in PC /\ block' = block
        BY <1>0, <1>3, <2>2 DEF Others, TypeInv
      <3>2. pc[v] \in Ops => n_block'[ctx[v].f] = n_block[ctx[v].f]
        BY <1>6, <1>7
      <3>3. pc[v] \notin {"store", "clear"}
        BY <1>8, <2>2 DEF Locked
      <3> QED BY <3>1, <3>2, <3>3, KnowsOther
    <2> QED BY <2>1, <2>2
  <1>11. DenseInv'
    <2> SUFFICES ASSUME NEW g \in File, NEW b \in Idx, b < n_block'[g]
                 PROVE  block'[g][b] # INACTIVE
      BY DEF DenseInv
    <2>1. g # f
      BY <1>6, ContractFacts, SMTT(60) DEF Idx
    <2>2. \A v \in Ult: pc[v] \in Freeing => v = u
      BY <1>8 DEF Freeing, Locked
    <2>3. b < n_block[g]
      BY <1>6, <2>1
    <2> QED BY <1>0, <2>1, <2>2, <2>3 DEF DenseInv, f
  <1>12. RefCounted'
    <2>1. ASSUME NEW g \in File PROVE InIO(g)' = InIO(g)
      BY <1>0, <1>1, <1>3 DEF InIO, Others
    <2>2. InIO(f) = {}
      BY <1>7 DEF InIO, Ops
    <2> QED BY <1>6, <2>1, <2>2, CardEmpty DEF RefCounted
  <1>13. Free' = Free /\ RingInv' /\ PlaceInv'
    BY <1>0, <1>1, <1>3, PlacesSame
  <1>14. RoomInv'
    BY <1>1, <1>3, <1>13, RoomSame
  <1> QED BY <1>4, <1>5, <1>9, <1>10, <1>11, <1>12, <1>13, <1>14

\* myfs_mutex: one ULT frees at a time.
LEMMA OneUnlinks ==
  ASSUME LockInv, NEW u \in Ult, pc[u] \in Freeing
  PROVE  /\ \A v \in Ult: v # u => pc[v] \notin Locked
         /\ Filling = IF pc[u] = "store" THEN {ctx[u].slot} ELSE {}
         /\ Clearing = IF pc[u] = "clear" THEN {<<ctx[u].f, ctx[u].i>>} ELSE {}
  <1>1. \A v \in Ult: v # u => pc[v] \notin Locked
    BY DEF LockInv, Freeing, Locked
  <1>2. \A v \in Ult: v # u => pc[v] # "store" /\ pc[v] # "clear"
    BY <1>1 DEF Locked
  <1> QED BY <1>1, <1>2 DEF Filling, Clearing

\* The block that is freed is not in the ring, so the ring is not full: the
\* write index does not catch up with the read index.
LEMMA NotFull ==
  ASSUME Contract, CardFacts, IInv, NEW u \in Ult, pc[u] = "free", MoreToFree(u)
  PROVE  /\ block[ctx[u].f][ctx[u].i] # INACTIVE
         /\ NextSlot(free_blocks_wp) # free_blocks_rp
  <1> USE DEF IInv
  <1> DEFINE x == <<ctx[u].f, ctx[u].i>>
             R == Ring(free_blocks_rp, free_blocks_wp)
  <1>1. ctx[u].f \in File /\ ctx[u].i \in Idx /\ ctx[u].i \in Nat
    BY ContractFacts, SMTT(60) DEF TypeInv, Ctx, MoreToFree, Idx
  <1>2. /\ \A v \in Ult: v # u => pc[v] \notin Locked
        /\ Filling = {} /\ Clearing = {}
    BY OneUnlinks DEF Freeing
  <1>3. block[ctx[u].f][ctx[u].i] # INACTIVE
    <2>1. \A v \in Ult: pc[v] \in Freeing => v = u
      BY <1>2 DEF Freeing, Locked
    <2>2. ~(ctx[u].i < ctx[u].i)
      BY <1>1, SMTT(60)
    <2> QED BY <1>1, <2>1, <2>2 DEF DenseInv, MoreToFree
  <1>4. x \in Owned /\ At(x) \in Blk
    BY <1>1, <1>2, <1>3, SMTT(60) DEF Owned, Used, At, TypeInv, Block
  <1>5. R \subseteq Avail /\ R \in SUBSET Slot
    BY <1>2 DEF Avail, Free, Ring
  <1>6. /\ \A s, t \in R: free_blocks[s] = free_blocks[t] => s = t
        /\ \A s \in R: free_blocks[s] # At(x)
    BY <1>4, <1>5 DEF PlaceInv
  <1>7. free_blocks \in [Slot -> Blk] /\ free_blocks_wp \in Slot /\ free_blocks_rp \in Slot
    BY DEF TypeInv
  <1>8. R # Slot \ {free_blocks_wp}
    <2> HIDE DEF x, R
    <2> QED BY <1>4, <1>5, <1>6, <1>7, Pigeonhole
  <1> QED BY <1>3, <1>7, <1>8, RingFull

LEMMA FreeCasKeeps ==
  ASSUME Contract, CardFacts, IInv, NEW u \in Ult, free_cas(u)
  PROVE  IInv'
  <1> USE DEF IInv
  <1> DEFINE wp == free_blocks_wp
             c == [ctx[u] EXCEPT !.slot = free_blocks_wp]
  <1>0. UNCHANGED <<name, block, n_block, free_blocks, free_blocks_rp, flags,
                    ref_count, myfs_mutex, file_mutex, fds>>
    BY DEF free_cas, state, locks
  <1>1. /\ pc[u] = "free" /\ MoreToFree(u) /\ Goto(u, "store")
        /\ Locals(u, c) /\ free_blocks_wp' = NextSlot(wp) /\ wp \notin Taken
    BY ContractFacts DEF free_cas
  <1>2. ctx[u] \in Ctx /\ free_blocks_rp \in Slot /\ wp \in Slot
    BY DEF TypeInv
  <1>3. /\ c \in Ctx /\ c.slot = wp /\ c.f = ctx[u].f /\ c.i = ctx[u].i
        /\ c.todo = ctx[u].todo
    BY <1>2, CtxUpdates
  <1> HIDE DEF c
  <1>4. /\ pc' \in [Ult -> PC] /\ ctx' \in [Ult -> Ctx]
        /\ pc'[u] = "store" /\ ctx'[u] = c /\ Others(u)
    <2>1. "store" \in PC
      BY DEF PC, Locked
    <2> QED BY <1>1, <1>3, <2>1, Moved
  <1>5. /\ block[ctx[u].f][ctx[u].i] # INACTIVE
        /\ NextSlot(wp) # free_blocks_rp
    BY <1>1, NotFull
  <1>6. /\ Ring(free_blocks_rp, NextSlot(wp)) = Ring(free_blocks_rp, wp) \cup {wp}
        /\ wp \notin Ring(free_blocks_rp, wp)
        /\ NextSlot(wp) \in Slot
    BY <1>2, <1>5, RingPush
  <1>7. /\ \A v \in Ult: v # u => pc[v] \notin Locked
        /\ Filling = {} /\ Clearing = {}
    BY <1>1, OneUnlinks DEF Freeing
  <1>8. TypeInv'
    BY <1>0, <1>1, <1>4, <1>6 DEF TypeInv
  <1>9. LockInv'
    BY <1>0, <1>1, <1>4 DEF LockInv, Others, Locked
  <1>10. UseInv'
    BY <1>0, <1>1, <1>3, <1>4, UseMoved DEF Freeing
  <1>11. KnowsInv'
    <2>1. /\ c.i \in Idx /\ c.i < n_block[c.f] /\ block[c.f][c.i] # INACTIVE
          /\ block' = block /\ n_block' = n_block
      BY <1>0, <1>1, <1>3, <1>5 DEF MoreToFree
    <2> QED BY <1>4, <2>1, KnowsMeans, KnowsSame
  <1>12. DenseInv'
    BY <1>0, <1>1, <1>3, <1>4, DenseSame DEF Freeing
  <1>13. RefCounted'
    BY <1>0, <1>1, <1>4, RefSame DEF Ops
  <1>14. Filling' = {wp} /\ Taken' = Taken /\ Clearing' = {}
    <2>1. \A v \in Ult: pc'[v] = "store" <=> v = u
      BY <1>4, <1>7 DEF Others, Locked
    <2>2. \A v \in Ult: pc'[v] # "clear"
      BY <1>4, <1>7 DEF Others, Locked
    <2>3. \A v \in Ult: /\ pc'[v] = "fill" <=> pc[v] = "fill"
                        /\ pc[v] = "fill" => ctx'[v] = ctx[v]
      BY <1>1, <1>4 DEF Others
    <2> QED BY <1>3, <1>4, <2>1, <2>2, <2>3 DEF Filling, Taken, Clearing
  <1>15. Free' = Free /\ Owned' = Owned
    BY <1>0, <1>1, <1>6, <1>7, <1>14 DEF Free, Owned, Used
  <1>16. RingInv'
    <2>1. \A v \in Ult: pc'[v] = "store" => v = u
      BY <1>4, <1>7 DEF Others, Locked
    <2>2. \A v \in Ult: pc'[v] = "fill" => v # u /\ pc[v] = "fill" /\ ctx'[v] = ctx[v]
      BY <1>4 DEF Others
    <2>3. \A v \in Ult: pc[v] = "fill" => ctx[v].slot # wp
      BY <1>1 DEF Taken
    <2>4. free_blocks_rp' # free_blocks_wp' /\ NextSlot(ctx'[u].slot) = free_blocks_wp'
      BY <1>0, <1>1, <1>3, <1>4, <1>5
    <2>5. \A v \in Ult: pc[v] = "fill" =>
            ctx[v].slot \notin Ring(free_blocks_rp', free_blocks_wp')
      BY <1>0, <1>1, <1>6, <2>3 DEF RingInv
    <2> QED BY <2>1, <2>2, <2>4, <2>5 DEF RingInv
  <1>17. PlaceInv'
    BY <1>0, <1>14, <1>15, SMTT(60) DEF PlaceInv, Avail, At
  <1>18. RoomInv'
    BY <1>1, <1>4, <1>15, RoomSame
  <1> QED BY <1>8, <1>9, <1>10, <1>11, <1>12, <1>13, <1>16, <1>17, <1>18

LEMMA FiniteParts ==
  ASSUME Contract, CardFacts
  PROVE  /\ IsFiniteSet(Free) /\ IsFiniteSet(Waiting)
         /\ \A f: IsFiniteSet(InIO(f)) /\ Cardinality(InIO(f)) < RefMod
  <1>1. IsFiniteSet(Slot)
    BY ContractFacts, CardInterval, SMTT(60) DEF Slot
  <1>2. Free \in SUBSET Slot /\ Waiting \in SUBSET Ult /\ \A f: InIO(f) \in SUBSET Ult
    BY DEF Free, Ring, Waiting, InIO
  <1>3. IsFiniteSet(Ult) /\ Cardinality(Ult) < RefMod /\ RefMod \in Nat
    BY ContractFacts
  <1>4. IsFiniteSet(Free) /\ IsFiniteSet(Waiting)
    BY <1>1, <1>2, <1>3, CardSubset
  <1>5. ASSUME NEW f PROVE IsFiniteSet(InIO(f)) /\ Cardinality(InIO(f)) < RefMod
    <2>1. IsFiniteSet(InIO(f)) /\ Cardinality(InIO(f)) <= Cardinality(Ult)
      BY <1>2, <1>3, CardSubset
    <2>2. Cardinality(InIO(f)) \in Nat /\ Cardinality(Ult) \in Nat
      BY <1>3, <2>1, CardType
    <2> QED BY <1>3, <2>1, <2>2, SMTT(60)
  <1> QED BY <1>4, <1>5

\* The block moves from the file's position to the newest slot of the ring.
LEMMA FreeStoreKeeps ==
  ASSUME Contract, CardFacts, IInv, NEW u \in Ult, free_store(u)
  PROVE  IInv'
  <1> USE DEF IInv
  <1> DEFINE s == ctx[u].slot
             x == <<ctx[u].f, ctx[u].i>>
             R == Ring(free_blocks_rp, free_blocks_wp)
  <1>0. UNCHANGED <<name, block, n_block, free_blocks_rp, free_blocks_wp, flags,
                    ref_count, myfs_mutex, file_mutex, fds, ctx>>
    BY DEF free_store, state, locks
  <1>1. /\ pc[u] = "store" /\ Goto(u, "clear")
        /\ free_blocks' = [free_blocks EXCEPT ![s] = At(x)]
    BY DEF free_store, At
  <1>2. ctx[u] \in Ctx /\ s \in Slot
    BY DEF TypeInv, Ctx
  <1>3. /\ pc' \in [Ult -> PC] /\ ctx' \in [Ult -> Ctx]
        /\ pc'[u] = "clear" /\ ctx'[u] = ctx[u] /\ Others(u)
    <2>1. "clear" \in PC
      BY DEF PC, Locked
    <2> QED BY <1>0, <1>1, <1>2, <2>1, Moved
  <1>4. /\ \A v \in Ult: v # u => pc[v] \notin Locked
        /\ Filling = {s} /\ Clearing = {}
    BY <1>1, OneUnlinks DEF Freeing
  <1>5. x \in File \X Idx /\ At(x) # INACTIVE /\ At(x) \in Blk
    <2>1. ctx[u].i \in Idx /\ block[ctx[u].f][ctx[u].i] # INACTIVE
      BY <1>1 DEF KnowsInv, Knows
    <2>2. ctx[u].f \in File
      BY <1>2 DEF Ctx
    <2> QED BY <2>1, <2>2, SMTT(60) DEF At, TypeInv, Block
  <1>6. s \in R
    BY <1>1, <1>2, RingNewest DEF RingInv, TypeInv
  <1>7. TypeInv'
    BY <1>0, <1>1, <1>2, <1>3, <1>5 DEF TypeInv
  <1>8. LockInv'
    BY <1>0, <1>1, <1>3 DEF LockInv, Others, Locked
  <1>9. UseInv'
    BY <1>0, <1>1, <1>3, UseMoved DEF Freeing
  <1>10. KnowsInv'
    BY <1>0, <1>1, <1>3 DEF KnowsInv, Knows, Others, Ops
  <1>11. DenseInv'
    BY <1>0, <1>1, <1>3, DenseSame DEF Freeing
  <1>12. RefCounted'
    BY <1>0, <1>1, <1>3, RefSame DEF Ops
  <1>13. Filling' = {} /\ Taken' = Taken /\ Clearing' = {x}
    <2>1. \A v \in Ult: pc'[v] = "clear" <=> v = u
      BY <1>3, <1>4 DEF Others, Locked
    <2>2. \A v \in Ult: pc'[v] # "store"
      BY <1>3, <1>4 DEF Others, Locked
    <2>3. \A v \in Ult: pc'[v] = "fill" <=> pc[v] = "fill"
      BY <1>1, <1>3 DEF Others
    <2> QED BY <1>0, <1>3, <2>1, <2>2, <2>3 DEF Filling, Taken, Clearing
  <1>14. Free' = Free \cup {s} /\ s \notin Free
    BY <1>0, <1>4, <1>6, <1>13 DEF Free
  <1>15. Owned' = Owned \ {x} /\ x \in Owned
    BY <1>0, <1>4, <1>5, <1>13 DEF Owned, Used, At
  <1>16. Avail' = Avail \cup {s} /\ s \notin Avail
    <2>1. s \notin Taken
      BY <1>6 DEF Taken, RingInv
    <2> QED BY <1>13, <1>14, <2>1 DEF Avail
  <1>17. RingInv'
    BY <1>0, <1>3 DEF RingInv, Others
  <1>18. PlaceInv'
    <2>1. Avail \subseteq Slot
      BY SMTT(60) DEF Avail, Free, Ring, Taken, TypeInv, Ctx
    <2>2. \A y: At(y)' = At(y)
      BY <1>0 DEF At
    <2>3. /\ \A t \in Avail: free_blocks'[t] = free_blocks[t]
          /\ free_blocks'[s] = At(x)
      BY <1>1, <1>2, <1>16, <2>1 DEF TypeInv
    <2> HIDE DEF s, x
    <2>4. \A y, z \in Owned': At(y)' = At(z)' => y = z
      BY <1>15, <2>2 DEF PlaceInv
    <2>5. \A t, r \in Avail': free_blocks'[t] = free_blocks'[r] => t = r
      BY <1>15, <1>16, <2>3, SMTT(60) DEF PlaceInv
    <2>6. \A y \in Owned', t \in Avail': At(y)' # free_blocks'[t]
      BY <1>15, <1>16, <2>2, <2>3, SMTT(60) DEF PlaceInv
    <2>7. ASSUME "crash" \notin Breaks, NEW b \in Blk
          PROVE  \/ \E y \in Owned': At(y)' = b
                 \/ \E t \in Avail': free_blocks'[t] = b
      BY <1>15, <1>16, <2>2, <2>3, <2>7 DEF PlaceInv
    <2> QED BY <2>4, <2>5, <2>6, <2>7 DEF PlaceInv
  <1>19. RoomInv'
    <2>1. Waiting' = Waiting
      BY <1>1, <1>3 DEF Waiting, Others
    <2>2. IsFiniteSet(Free) /\ IsFiniteSet(Waiting)
      BY FiniteParts
    <2>3. Cardinality(Free') = Cardinality(Free) + 1
      BY <1>14, <2>2, CardAdd
    <2>4. Cardinality(Free) \in Nat /\ Cardinality(Waiting) \in Nat
      BY <2>2, CardType
    <2> QED BY <2>1, <2>3, <2>4, SMTT(60) DEF RoomInv
  <1> QED BY <1>7, <1>8, <1>9, <1>10, <1>11, <1>12, <1>17, <1>18, <1>19

LEMMA FreeClearKeeps ==
  ASSUME Contract, CardFacts, IInv, NEW u \in Ult, free_clear(u)
  PROVE  IInv'
  <1> USE DEF IInv
  <1> DEFINE g == ctx[u].f
             j == ctx[u].i
             c == [ctx[u] EXCEPT !.i = @ + 1]
  <1>0. UNCHANGED <<name, n_block, free_blocks, free_blocks_rp, free_blocks_wp,
                    flags, ref_count, myfs_mutex, file_mutex, fds>>
    BY DEF free_clear, ClearTo, state, locks
  <1>1. /\ pc[u] = "clear" /\ Goto(u, "free") /\ Locals(u, c)
        /\ block' = [block EXCEPT ![g][j] = INACTIVE]
    BY DEF free_clear, ClearTo
  <1>2. ctx[u] \in Ctx /\ g \in File /\ j \in Idx /\ fds[g] = 0 /\ j \in Nat
    <2>1. ctx[u] \in Ctx /\ g \in File
      BY DEF TypeInv, Ctx
    <2>2. j \in Idx
      BY <1>1 DEF KnowsInv, Knows
    <2>3. fds[g] = 0
      BY <1>1 DEF UseInv, Freeing
    <2>4. j \in Nat
      BY <2>2, ContractFacts, SMTT(60) DEF Idx
    <2> QED BY <2>1, <2>2, <2>3, <2>4
  <1>3. c \in Ctx /\ c.f = g /\ c.i = j + 1 /\ c.todo = ctx[u].todo
    BY <1>2, CtxUpdates
  <1> HIDE DEF c
  <1>4. /\ pc' \in [Ult -> PC] /\ ctx' \in [Ult -> Ctx]
        /\ pc'[u] = "free" /\ ctx'[u] = c /\ Others(u)
    <2>1. "free" \in PC
      BY DEF PC, Locked
    <2> QED BY <1>1, <1>3, <2>1, Moved
  <1>5. /\ \A v \in Ult: v # u => pc[v] \notin Locked
        /\ Filling = {} /\ Clearing = {<<g, j>>}
    BY <1>1, OneUnlinks DEF Freeing
  <1> HIDE DEF g, j
  <1>6. /\ block'[g][j] = INACTIVE
        /\ \A f \in File, b \in Idx: <<f, b>> # <<g, j>> => block'[f][b] = block[f][b]
        /\ \A f \in File: f # g => block'[f] = block[f]
    BY <1>1, <1>2 DEF TypeInv
  <1>7. TypeInv'
    <2>1. block' \in [File -> [Idx -> Block]]
      BY <1>1, <1>2 DEF TypeInv, Block
    <2> QED BY <1>0, <1>4, <2>1 DEF TypeInv
  <1>8. LockInv'
    BY <1>0, <1>1, <1>4 DEF LockInv, Others, Locked
  <1>9. UseInv'
    BY <1>0, <1>1, <1>3, <1>4, UseMoved DEF Freeing, g
  <1>10. KnowsInv'
    <2> SUFFICES ASSUME NEW v \in Ult
                 PROVE  Knows(pc'[v], ctx'[v], block'[ctx'[v].f][ctx'[v].i],
                              n_block'[ctx'[v].f])
      BY DEF KnowsInv
    <2>1. CASE v = u
      BY <1>4, <2>1, KnowsMeans
    <2>2. CASE v # u
      <3>1. pc'[v] = pc[v] /\ ctx'[v] = ctx[v] /\ pc[v] \in PC /\ n_block' = n_block
        BY <1>0, <1>4, <2>2 DEF Others, TypeInv
      <3>2. pc[v] \in Ops => ctx[v].f \in File /\ ctx[v].f # g
        BY <1>2, SMTT(60) DEF UseInv, TypeInv, Ctx
      <3>3. pc[v] \notin {"store", "clear"}
        BY <1>5, <2>2 DEF Locked
      <3> QED BY <1>6, <3>1, <3>2, <3>3, KnowsOther
    <2> QED BY <2>1, <2>2
  <1>11. DenseInv'
    <2> SUFFICES ASSUME NEW f \in File, NEW b \in Idx, b < n_block'[f],
                        block'[f][b] = INACTIVE
                 PROVE  f = g /\ b < j + 1
      BY <1>3, <1>4, SMTT(60) DEF DenseInv, Freeing
    <2>1. b \in Nat
      BY ContractFacts, SMTT(60) DEF Idx
    <2>2. CASE <<f, b>> = <<g, j>>
      BY <1>2, <2>2, SMTT(60)
    <2>3. CASE <<f, b>> # <<g, j>>
      <3>1. \A v \in Ult: pc[v] \in Freeing => v = u
        BY <1>5 DEF Freeing, Locked
      <3>2. f = g /\ b < j
        BY <1>0, <1>6, <2>3, <3>1, SMTT(60) DEF DenseInv, g, j
      <3> QED BY <1>2, <2>1, <3>2, SMTT(60)
    <2> QED BY <2>2, <2>3
  <1>12. RefCounted'
    BY <1>0, <1>1, <1>4, RefSame DEF Ops
  <1>13. Filling' = {} /\ Taken' = Taken /\ Clearing' = {}
    <2>1. \A v \in Ult: pc'[v] # "store" /\ pc'[v] # "clear"
      BY <1>4, <1>5 DEF Others, Locked
    <2>2. \A v \in Ult: /\ pc'[v] = "fill" <=> pc[v] = "fill"
                        /\ pc[v] = "fill" => ctx'[v] = ctx[v]
      BY <1>1, <1>4 DEF Others
    <2> QED BY <2>1, <2>2 DEF Filling, Taken, Clearing
  <1>14. Free' = Free
    BY <1>0, <1>5, <1>13 DEF Free
  <1>15. Owned' = Owned /\ \A y \in Owned: At(y)' = At(y)
    <2>1. Used' = Used \ {<<g, j>>}
      <3>1. ASSUME NEW y \in File \X Idx, y # <<g, j>>
            PROVE  block'[y[1]][y[2]] = block[y[1]][y[2]]
        BY <1>6, <3>1, SMTT(60)
      <3> QED BY <1>2, <1>6, <3>1, SMTT(60) DEF Used
    <2>2. Owned' = Owned
      BY <1>5, <1>13, <2>1 DEF Owned
    <2>3. \A y \in Owned: y \in File \X Idx /\ y # <<g, j>>
      BY <1>5 DEF Owned, Used
    <2> QED BY <1>6, <2>2, <2>3, SMTT(60) DEF At
  <1>16. RingInv'
    BY <1>0, <1>4 DEF RingInv, Others
  <1>17. PlaceInv'
    BY <1>0, <1>13, <1>14, <1>15, SMTT(60) DEF PlaceInv, Avail
  <1>18. RoomInv'
    BY <1>1, <1>4, <1>14, RoomSame
  <1> QED BY <1>7, <1>8, <1>9, <1>10, <1>11, <1>12, <1>16, <1>17, <1>18

\* A free block is set aside for each ULT that may take one, so the slot at the
\* read index holds a block: it is neither outside nor the one being filled.
LEMMA NextIsFree ==
  ASSUME Contract, CardFacts, IInv, NEW u \in Ult, pc[u] = "get_lba"
  PROVE  free_blocks_rp # free_blocks_wp /\ free_blocks_rp \in Free
  <1> USE DEF IInv
  <1>1. Free # {}
    <2>1. u \in Waiting /\ IsFiniteSet(Waiting) /\ IsFiniteSet(Free)
      BY FiniteParts DEF Waiting
    <2>2. Cardinality(Waiting) # 0 /\ Cardinality(Waiting) \in Nat
      BY <2>1, CardEmpty, CardType
    <2>3. Cardinality(Free) # 0
      BY <2>1, <2>2, CardType, SMTT(60) DEF RoomInv
    <2> QED BY <2>3, CardEmpty
  <1>2. PICK t \in Ring(free_blocks_rp, free_blocks_wp): t \notin Filling
    BY <1>1 DEF Free
  <1>3. free_blocks_rp \in Slot /\ free_blocks_wp \in Slot
    BY DEF TypeInv
  <1>4. free_blocks_rp # free_blocks_wp
    BY <1>2, <1>3, RingEmpty
  <1>5. free_blocks_rp \in Ring(free_blocks_rp, free_blocks_wp)
    BY <1>3, <1>4, RingPop
  <1>6. ASSUME NEW v \in Ult, pc[v] = "store" PROVE ctx[v].slot # free_blocks_rp
    <2>1. ctx[v].slot \in Slot /\ NextSlot(ctx[v].slot) = free_blocks_wp
      BY <1>6 DEF TypeInv, Ctx, RingInv
    <2>2. t # ctx[v].slot
      BY <1>2, <1>6 DEF Filling
    <2> QED BY <1>2, <1>3, <1>4, <2>1, <2>2, RingNewest
  <1> QED BY <1>4, <1>5, <1>6 DEF Free, Filling

\* The slot at the read index is taken, or the position has its block.
LEMMA AllocCasKeeps ==
  ASSUME Contract, CardFacts, IInv, NEW u \in Ult, alloc_cas(u)
  PROVE  IInv'
  <1> USE DEF IInv
  <1> DEFINE g == ctx[u].f
             rp == free_blocks_rp
             c == [ctx[u] EXCEPT !.slot = free_blocks_rp]
  <1>0. UNCHANGED <<name, block, n_block, free_blocks, free_blocks_wp, flags,
                    ref_count, myfs_mutex, fds>>
    BY DEF alloc_cas, state
  <1>1. pc[u] = "get_lba" /\ file_mutex[g] = NoUlt
    BY DEF alloc_cas, FileUnlocked
  <1>2. ctx[u] \in Ctx /\ g \in File /\ rp \in Slot
    BY DEF TypeInv, Ctx
  <1>3. ctx[u].i \in Idx /\ ctx[u].i <= n_block[g]
    BY <1>1 DEF KnowsInv, Knows, Ops
  <1>4. CASE block[g][ctx[u].i] # INACTIVE
    <2>1. /\ Goto(u, "check") /\ UNCHANGED <<file_mutex, free_blocks_rp, ctx>>
      BY <1>4 DEF alloc_cas
    <2>2. /\ pc' \in [Ult -> PC] /\ ctx' \in [Ult -> Ctx]
          /\ pc'[u] = "check" /\ ctx'[u] = ctx[u] /\ Others(u)
      <3>1. "check" \in PC
        BY DEF PC, Ops
      <3> QED BY <1>2, <2>1, <3>1, Moved
    <2>3. TypeInv'
      BY <1>0, <2>1, <2>2 DEF TypeInv
    <2>4. LockInv'
      BY <1>0, <1>1, <2>1, <2>2 DEF LockInv, Others, Locked
    <2>5. UseInv'
      BY <1>0, <1>1, <2>2, UseMoved DEF Ops
    <2>6. KnowsInv'
      BY <1>0, <1>3, <1>4, <2>2, KnowsMeans, KnowsSame
    <2>7. DenseInv'
      BY <1>0, <1>1, <2>2, DenseSame DEF Freeing
    <2>8. RefCounted'
      BY <1>0, <1>1, <2>2, RefSame DEF Ops
    <2>9. Free' = Free /\ RingInv' /\ PlaceInv'
      BY <1>0, <1>1, <2>1, <2>2, PlacesSame
    <2>10. RoomInv'
      <3>1. Waiting' = Waiting \ {u} /\ IsFiniteSet(Waiting)
        BY <2>2, FiniteParts DEF Waiting, Others
      <3>2. Cardinality(Waiting') <= Cardinality(Waiting)
        BY <3>1, CardSubset
      <3>3. Cardinality(Waiting') \in Nat /\ Cardinality(Waiting) \in Nat
        BY <3>1, CardRemove, CardType
      <3>4. Cardinality(Free) \in Nat
        BY FiniteParts, CardType
      <3> QED BY <2>9, <3>2, <3>3, <3>4, SMTT(60) DEF RoomInv
    <2> QED BY <2>3, <2>4, <2>5, <2>6, <2>7, <2>8, <2>9, <2>10
  <1>5. CASE block[g][ctx[u].i] = INACTIVE
    <2>1. /\ Goto(u, "fill") /\ Locals(u, c)
          /\ file_mutex' = [file_mutex EXCEPT ![g] = u]
          /\ free_blocks_rp' = NextSlot(rp)
      BY <1>5 DEF alloc_cas
    <2>2. /\ c \in Ctx /\ c.slot = rp /\ c.f = g /\ c.i = ctx[u].i
      BY <1>2, CtxUpdates
    <2> HIDE DEF c
    <2>3. /\ pc' \in [Ult -> PC] /\ ctx' \in [Ult -> Ctx]
          /\ pc'[u] = "fill" /\ ctx'[u] = c /\ Others(u)
      <3>1. "fill" \in PC
        BY DEF PC, Ops
      <3> QED BY <2>1, <2>2, <3>1, Moved
    <2>4. rp # free_blocks_wp /\ rp \in Free
      BY <1>1, NextIsFree
    <2>5. /\ Ring(NextSlot(rp), free_blocks_wp) = Ring(rp, free_blocks_wp) \ {rp}
          /\ rp \in Ring(rp, free_blocks_wp) /\ NextSlot(rp) \in Slot
      BY <1>2, <2>4, RingPop DEF TypeInv
    <2>6. TypeInv'
      <3>1. file_mutex' \in [File -> Holder]
        BY <1>2, <2>1 DEF TypeInv, Holder
      <3> QED BY <1>0, <2>1, <2>3, <2>5, <3>1 DEF TypeInv
    <2>7. LockInv'
      <3>1. \A v \in Ult: pc'[v] \in Locked <=> myfs_mutex' = v
        BY <1>0, <1>1, <2>3 DEF LockInv, Others, Locked
      <3>2. ASSUME NEW v \in Ult, pc'[v] \in {"fill", "count"}
            PROVE  file_mutex'[ctx'[v].f] = v
        <4>1. CASE v = u
          BY <1>2, <2>1, <2>2, <2>3, <4>1 DEF TypeInv
        <4>2. CASE v # u
          <5>1. file_mutex[ctx[v].f] = v /\ ctx'[v] = ctx[v]
            BY <2>3, <3>2, <4>2 DEF LockInv, Others
          <5>2. ctx[v].f # g
            BY <1>1, <4>2, <5>1, ContractFacts
          <5>3. ctx[v].f \in File
            BY DEF TypeInv, Ctx
          <5> QED BY <2>1, <5>1, <5>2, <5>3 DEF TypeInv
        <4> QED BY <4>1, <4>2
      <3> QED BY <3>1, <3>2 DEF LockInv
    <2>8. UseInv'
      BY <1>0, <1>1, <2>2, <2>3, UseMoved DEF Ops
    <2>9. ctx[u].i = n_block[g]
      <3>1. \A v \in Ult: pc[v] \in Freeing => ctx[v].f # g
        BY <1>1, SMTT(60) DEF UseInv, Ops
      <3>2. ~(ctx[u].i < n_block[g])
        BY <1>2, <1>3, <1>5, <3>1 DEF DenseInv
      <3>3. ctx[u].i \in Nat /\ n_block[g] \in Nat
        BY <1>2, <1>3, ContractFacts, SMTT(60) DEF TypeInv, Idx
      <3> QED BY <1>3, <3>2, <3>3, SMTT(60)
    <2>10. KnowsInv'
      <3>1. c.i \in Idx /\ c.i = n_block[c.f] /\ block[c.f][c.i] = INACTIVE
        BY <1>3, <1>5, <2>2, <2>9
      <3> QED BY <1>0, <2>3, <3>1, KnowsMeans, KnowsSame
    <2>11. DenseInv'
      BY <1>0, <1>1, <2>3, DenseSame DEF Freeing
    <2>12. RefCounted'
      BY <1>0, <1>1, <2>2, <2>3, RefSame DEF Ops
    <2>13. Filling' = Filling /\ Taken' = Taken \cup {rp} /\ Clearing' = Clearing
      <3>1. \A v \in Ult: /\ pc'[v] = "store" <=> pc[v] = "store"
                          /\ pc'[v] = "clear" <=> pc[v] = "clear"
                          /\ pc'[v] \in {"store", "clear"} => ctx'[v] = ctx[v]
                          /\ v # u => (pc'[v] = "fill" <=> pc[v] = "fill")
                          /\ v # u => ctx'[v] = ctx[v]
        BY <1>1, <2>3 DEF Others
      <3>2. Filling' = Filling
        BY <3>1 DEF Filling
      <3>3. Clearing' = Clearing
        BY <3>1 DEF Clearing
      <3>4. Taken' = Taken \cup {rp}
        <4>1. pc[u] # "fill" /\ pc'[u] = "fill" /\ ctx'[u].slot = rp
          BY <1>1, <2>2, <2>3
        <4> QED BY <3>1, <4>1 DEF Taken
      <3> QED BY <3>2, <3>3, <3>4
    <2>14. Free' = Free \ {rp}
      BY <1>0, <2>1, <2>5, <2>13 DEF Free
    <2>15. Avail' = Avail /\ Owned' = Owned
      BY <1>0, <2>4, <2>13, <2>14 DEF Avail, Owned, Used
    <2>16. RingInv'
      <3>1. \A v \in Ult: pc'[v] = "store" =>
              NextSlot(ctx'[v].slot) = free_blocks_wp' /\ free_blocks_rp' # free_blocks_wp'
        <4> SUFFICES ASSUME NEW v \in Ult, pc'[v] = "store"
                     PROVE  NextSlot(ctx'[v].slot) = free_blocks_wp'
                            /\ free_blocks_rp' # free_blocks_wp'
          OBVIOUS
        <4>1. pc[v] = "store" /\ ctx'[v] = ctx[v]
          BY <2>3 DEF Others
        <4>2. ctx[v].slot \in Slot /\ NextSlot(ctx[v].slot) = free_blocks_wp
          BY <4>1 DEF RingInv, TypeInv, Ctx
        <4>3. ctx[v].slot \in Ring(rp, free_blocks_wp) /\ ctx[v].slot # rp
          BY <1>2, <2>4, <4>1, <4>2, RingNewest, SMTT(60) DEF TypeInv, Free, Filling
        <4>4. ctx[v].slot \in Ring(NextSlot(rp), free_blocks_wp)
          BY <2>5, <4>3
        <4>5. NextSlot(rp) # free_blocks_wp
          BY <2>5, <4>4, RingEmpty
        <4> QED BY <1>0, <2>1, <4>1, <4>2, <4>5
      <3>2. \A v \in Ult: pc'[v] = "fill" =>
              ctx'[v].slot \notin Ring(free_blocks_rp', free_blocks_wp')
        BY <1>0, <2>1, <2>2, <2>3, <2>5 DEF RingInv, Others
      <3>3. \A v, w \in Ult: pc'[v] = "fill" /\ pc'[w] = "fill"
                             /\ ctx'[v].slot = ctx'[w].slot => v = w
        BY <2>2, <2>3, <2>5, SMTT(60) DEF RingInv, Others
      <3> QED BY <3>1, <3>2, <3>3 DEF RingInv
    <2>17. PlaceInv'
      BY <1>0, <2>15 DEF PlaceInv, At
    <2>18. RoomInv'
      <3>1. Waiting' = Waiting \ {u} /\ u \in Waiting
        BY <1>1, <2>3 DEF Waiting, Others
      <3>2. IsFiniteSet(Waiting) /\ IsFiniteSet(Free)
        BY FiniteParts
      <3>3. Cardinality(Waiting') = Cardinality(Waiting) - 1
        BY <3>1, <3>2, CardRemove
      <3>4. Cardinality(Free') = Cardinality(Free) - 1
        BY <2>4, <2>14, <3>2, CardRemove
      <3>5. Cardinality(Free) \in Nat /\ Cardinality(Waiting) \in Nat
        BY <3>2, CardType
      <3> QED BY <3>3, <3>4, <3>5, SMTT(60) DEF RoomInv
    <2> QED BY <2>6, <2>7, <2>8, <2>10, <2>11, <2>12, <2>16, <2>17, <2>18
  <1> QED BY <1>4, <1>5

\* The block of the slot that was taken becomes the position's.
LEMMA AllocFillKeeps ==
  ASSUME Contract, CardFacts, IInv, NEW u \in Ult, alloc_fill(u)
  PROVE  IInv'
  <1> USE DEF IInv
  <1> DEFINE g == ctx[u].f
             j == ctx[u].i
             s == ctx[u].slot
             x == <<ctx[u].f, ctx[u].i>>
  <1>0. UNCHANGED <<name, n_block, free_blocks, free_blocks_rp, free_blocks_wp,
                    flags, ref_count, myfs_mutex, file_mutex, fds, ctx>>
    BY DEF alloc_fill, state, locks
  <1>1. /\ pc[u] = "fill" /\ Goto(u, "count")
        /\ block' = [block EXCEPT ![g][j] = free_blocks[s]]
    BY DEF alloc_fill
  <1>2. ctx[u] \in Ctx /\ g \in File /\ s \in Slot
    BY DEF TypeInv, Ctx
  <1>3. j \in Idx /\ j = n_block[g] /\ block[g][j] = INACTIVE
    BY <1>1 DEF KnowsInv, Knows, Ops
  <1>4. /\ pc' \in [Ult -> PC] /\ ctx' \in [Ult -> Ctx]
        /\ pc'[u] = "count" /\ ctx'[u] = ctx[u] /\ Others(u)
    <2>1. "count" \in PC
      BY DEF PC, Ops
    <2> QED BY <1>0, <1>1, <1>2, <2>1, Moved
  <1>5. free_blocks[s] \in Blk /\ free_blocks[s] # INACTIVE
    BY <1>2, ContractFacts, SMTT(60) DEF TypeInv, Blk, INACTIVE
  <1>6. /\ block'[g][j] = free_blocks[s]
        /\ \A f \in File, b \in Idx: <<f, b>> # x => block'[f][b] = block[f][b]
    BY <1>1, <1>2, <1>3 DEF TypeInv
  <1> HIDE DEF g, j, s, x
  <1>7. TypeInv'
    <2>1. block' \in [File -> [Idx -> Block]]
      BY <1>1, <1>2, <1>3, <1>5 DEF TypeInv, Block
    <2> QED BY <1>0, <1>4, <2>1 DEF TypeInv
  <1>8. LockInv'
    BY <1>0, <1>1, <1>4 DEF LockInv, Others, Locked
  <1>9. UseInv'
    BY <1>0, <1>1, <1>4, UseMoved DEF Ops
  <1>10. KnowsInv'
    <2> SUFFICES ASSUME NEW v \in Ult
                 PROVE  Knows(pc'[v], ctx'[v], block'[ctx'[v].f][ctx'[v].i],
                              n_block'[ctx'[v].f])
      BY DEF KnowsInv
    <2>1. CASE v = u
      BY <1>0, <1>3, <1>4, <1>5, <1>6, <2>1 DEF Knows, Ops, g, j
    <2>2. CASE v # u
      <3>1. pc'[v] = pc[v] /\ ctx'[v] = ctx[v] /\ n_block' = n_block /\ ctx[v].f \in File
        BY <1>0, <1>4, <2>2 DEF Others, TypeInv, Ctx
      <3>2. Knows(pc[v], ctx[v], block[ctx[v].f][ctx[v].i], n_block[ctx[v].f])
        BY DEF KnowsInv
      <3>3. CASE <<ctx[v].f, ctx[v].i>> # x /\ ctx[v].i \in Idx
        BY <1>6, <3>1, <3>2, <3>3
      <3>4. CASE <<ctx[v].f, ctx[v].i>> = x
        <4>1. pc[v] # "fill"
          BY <1>1, <2>2, <3>4 DEF LockInv, x
        <4>2. block[ctx[v].f][ctx[v].i] = INACTIVE
          BY <1>3, <3>4 DEF x, g, j
        <4> QED BY <3>1, <3>2, <4>1, <4>2 DEF Knows
      <3>5. CASE ctx[v].i \notin Idx
        BY <3>1, <3>2, <3>5 DEF Knows, Ops
      <3> QED BY <3>3, <3>4, <3>5
    <2> QED BY <2>1, <2>2
  <1>11. DenseInv'
    <2> SUFFICES ASSUME NEW f \in File, NEW b \in Idx, b < n_block'[f],
                        block'[f][b] = INACTIVE
                 PROVE  \E v \in Ult: pc'[v] \in Freeing /\ ctx'[v].f = f /\ b < ctx'[v].i
      BY DEF DenseInv
    <2>1. block[f][b] = INACTIVE
      BY <1>3, <1>5, <1>6 DEF x, g, j
    <2>2. PICK v \in Ult: pc[v] \in Freeing /\ ctx[v].f = f /\ b < ctx[v].i
      BY <1>0, <2>1 DEF DenseInv
    <2>3. v # u
      BY <1>1, <2>2 DEF Freeing
    <2> QED BY <1>4, <2>2, <2>3 DEF Others
  <1>12. RefCounted'
    BY <1>0, <1>1, <1>4, RefSame DEF Ops
  <1>13. Filling' = Filling /\ Taken' = Taken \ {s} /\ s \in Taken /\ Clearing' = Clearing
    <2>1. \A v \in Ult: /\ pc'[v] = "store" <=> pc[v] = "store"
                        /\ pc'[v] = "clear" <=> pc[v] = "clear"
                        /\ pc'[v] = "fill" <=> (pc[v] = "fill" /\ v # u)
      BY <1>1, <1>4 DEF Others
    <2>2. \A v \in Ult: pc[v] = "fill" /\ v # u => ctx[v].slot # s
      BY <1>1 DEF RingInv, s
    <2> QED BY <1>0, <1>1, <2>1, <2>2 DEF Filling, Taken, Clearing, s
  <1>14. Free' = Free
    BY <1>0, <1>13 DEF Free
  <1>15. Avail' = Avail \ {s} /\ s \in Avail
    <2>1. s \notin Free
      BY <1>1 DEF RingInv, Free, s
    <2> QED BY <1>13, <1>14, <2>1 DEF Avail
  <1>16. Owned' = Owned \cup {x} /\ x \notin Owned
         /\ block'[x[1]][x[2]] = free_blocks[s]
         /\ \A y \in Owned: At(y)' = At(y)
    <2>1. x \in File \X Idx /\ x = <<g, j>>
      BY <1>2, <1>3 DEF x, g, j
    <2>2. \A y \in File \X Idx: y # x => block'[y[1]][y[2]] = block[y[1]][y[2]]
      BY <1>6, SMTT(60)
    <2>3. Used' = Used \cup {x} /\ x \notin Used
      BY <1>3, <1>5, <1>6, <2>1, <2>2, SMTT(60) DEF Used
    <2>4. x \notin Clearing
      <3> SUFFICES ASSUME NEW v \in Ult, pc[v] = "clear", <<ctx[v].f, ctx[v].i>> = x
                   PROVE  FALSE
        BY DEF Clearing
      <3>1. ctx[v].f = g
        BY <2>1, SMTT(60)
      <3>2. fds[g] = 0 /\ fds[g] = 1
        BY <1>1, <3>1 DEF UseInv, Freeing, Ops, g
      <3> QED BY <3>2, SMTT(60)
    <2>5. Owned' = Owned \cup {x} /\ x \notin Owned
      BY <1>13, <2>3, <2>4 DEF Owned
    <2>6. \A y \in Owned: y \in File \X Idx /\ y # x
      BY <2>5 DEF Owned, Used
    <2>7. block'[x[1]][x[2]] = free_blocks[s]
      BY <1>6, <2>1
    <2> QED BY <2>2, <2>5, <2>6, <2>7 DEF At
  <1>17. RingInv'
    BY <1>0, <1>4 DEF RingInv, Others
  <1>18. PlaceInv'
    <2>0. \A y \in Owned':
            \/ y = x /\ At(y)' = free_blocks[s]
            \/ y # x /\ y \in Owned /\ At(y)' = At(y)
      <3> TAKE y \in Owned'
      <3>1. CASE y = x
        <4>1. block'[y[1]][y[2]] = free_blocks[s]
          BY <1>16, <3>1
        <4>2. At(y)' = free_blocks[s]
          BY <4>1 DEF At
        <4> QED BY <3>1, <4>2
      <3>2. CASE y # x
        BY <1>16, <3>2
      <3> QED BY <3>1, <3>2
    <2>1. \A y, z \in Owned': At(y)' = At(z)' => y = z
      BY <1>15, <2>0, SMTT(60) DEF PlaceInv
    <2>2. \A t, r \in Avail': free_blocks'[t] = free_blocks'[r] => t = r
      BY <1>0, <1>15 DEF PlaceInv
    <2>3. \A y \in Owned', t \in Avail': At(y)' # free_blocks'[t]
      BY <1>0, <1>15, <2>0, SMTT(60) DEF PlaceInv
    <2>4. ASSUME "crash" \notin Breaks, NEW b \in Blk
          PROVE  \/ \E y \in Owned': At(y)' = b
                 \/ \E t \in Avail': free_blocks'[t] = b
      <3>1. CASE \E y \in Owned: At(y) = b
        BY <1>16, <3>1
      <3>2. CASE free_blocks[s] = b
        BY <1>16, <3>2 DEF At
      <3>3. CASE \E t \in Avail \ {s}: free_blocks[t] = b
        BY <1>0, <1>15, <3>3
      <3> QED BY <2>4, <3>1, <3>2, <3>3 DEF PlaceInv
    <2> QED BY <2>1, <2>2, <2>3, <2>4 DEF PlaceInv
  <1>19. RoomInv'
    BY <1>1, <1>4, <1>14, RoomSame
  <1> QED BY <1>7, <1>8, <1>9, <1>10, <1>11, <1>12, <1>17, <1>18, <1>19

LEMMA AllocCountKeeps ==
  ASSUME Contract, CardFacts, IInv, NEW u \in Ult, alloc_count(u)
  PROVE  IInv'
  <1> USE DEF IInv
  <1> DEFINE g == ctx[u].f
             j == ctx[u].i
  <1>0. UNCHANGED <<name, block, free_blocks, free_blocks_rp, free_blocks_wp,
                    flags, ref_count, myfs_mutex, fds, ctx>>
    BY DEF alloc_count, CountThen, state
  <1>1. /\ pc[u] = "count" /\ Goto(u, "check")
        /\ n_block' = [n_block EXCEPT ![g] = @ + 1]
        /\ file_mutex' = [file_mutex EXCEPT ![g] = NoUlt]
    BY DEF alloc_count, CountThen
  <1>2. ctx[u] \in Ctx /\ g \in File
    BY DEF TypeInv, Ctx
  <1>3. j \in Idx /\ j = n_block[g] /\ block[g][j] # INACTIVE
    BY <1>1 DEF KnowsInv, Knows, Ops
  <1>4. /\ pc' \in [Ult -> PC] /\ ctx' \in [Ult -> Ctx]
        /\ pc'[u] = "check" /\ ctx'[u] = ctx[u] /\ Others(u)
    <2>1. "check" \in PC
      BY DEF PC, Ops
    <2> QED BY <1>0, <1>1, <1>2, <2>1, Moved
  <1>5. /\ n_block'[g] = j + 1 /\ j + 1 \in 0 .. MYFS_MAX_BLOCKS_PER_FILE
        /\ \A f \in File: f # g => n_block'[f] = n_block[f]
    <2>1. j + 1 \in 0 .. MYFS_MAX_BLOCKS_PER_FILE
      BY <1>3, ContractFacts, SMTT(60) DEF Idx
    <2> QED BY <1>1, <1>2, <1>3, <2>1 DEF TypeInv
  <1>6. fds[g] = 1 /\ file_mutex[g] = u
    BY <1>1 DEF UseInv, Ops, LockInv
  <1> HIDE DEF g, j
  <1>7. TypeInv'
    <2>1. n_block' \in [File -> 0 .. MYFS_MAX_BLOCKS_PER_FILE]
      BY <1>1, <1>2, <1>3, <1>5 DEF TypeInv
    <2>2. file_mutex' \in [File -> Holder]
      BY <1>1, <1>2 DEF TypeInv, Holder
    <2> QED BY <1>0, <1>4, <2>1, <2>2 DEF TypeInv
  <1>8. \A v \in Ult: v # u /\ pc[v] \in {"fill", "count"} => ctx[v].f \in File /\ ctx[v].f # g
    BY <1>6 DEF LockInv, TypeInv, Ctx
  <1>9. LockInv'
    <2>1. \A v \in Ult: v # u /\ pc[v] \in {"fill", "count"} =>
                        file_mutex'[ctx[v].f] = file_mutex[ctx[v].f]
      BY <1>1, <1>8 DEF TypeInv
    <2> QED BY <1>0, <1>1, <1>4, <2>1 DEF LockInv, Others, Locked
  <1>10. UseInv'
    BY <1>0, <1>1, <1>4, UseMoved DEF Ops
  <1>11. KnowsInv'
    <2> SUFFICES ASSUME NEW v \in Ult
                 PROVE  Knows(pc'[v], ctx'[v], block'[ctx'[v].f][ctx'[v].i],
                              n_block'[ctx'[v].f])
      BY DEF KnowsInv
    <2>1. CASE v = u
      BY <1>0, <1>3, <1>4, <2>1 DEF Knows, Ops, g, j
    <2>2. CASE v # u
      <3>1. pc'[v] = pc[v] /\ ctx'[v] = ctx[v] /\ block' = block /\ ctx[v].f \in File
        BY <1>0, <1>4, <2>2 DEF Others, TypeInv, Ctx
      <3>2. Knows(pc[v], ctx[v], block[ctx[v].f][ctx[v].i], n_block[ctx[v].f])
        BY DEF KnowsInv
      <3>3. CASE ctx[v].f # g
        BY <1>5, <3>1, <3>2, <3>3
      <3>4. CASE ctx[v].f = g
        <4>1. pc[v] \notin {"fill", "count", "store", "clear"}
          BY <1>6, <1>8, <2>2, <3>4, SMTT(60) DEF UseInv, Freeing
        <4>2. pc[v] = "get_lba" => ctx[v].i <= n_block'[g]
          <5> SUFFICES ASSUME pc[v] = "get_lba" PROVE ctx[v].i <= n_block'[g]
            OBVIOUS
          <5>1. ctx[v].i \in Idx /\ ctx[v].i <= j
            BY <1>3, <3>2, <3>4 DEF Knows, Ops
          <5>2. ctx[v].i \in Nat /\ j \in Nat
            BY <1>3, <5>1, ContractFacts, SMTT(60) DEF Idx
          <5> QED BY <1>5, <5>1, <5>2, SMTT(60)
        <4> QED BY <3>1, <3>2, <3>4, <4>1, <4>2 DEF Knows
      <3> QED BY <3>3, <3>4
    <2> QED BY <2>1, <2>2
  <1>12. DenseInv'
    <2> SUFFICES ASSUME NEW f \in File, NEW b \in Idx, b < n_block'[f],
                        block'[f][b] = INACTIVE
                 PROVE  \E v \in Ult: pc'[v] \in Freeing /\ ctx'[v].f = f /\ b < ctx'[v].i
      BY DEF DenseInv
    <2>1. b < n_block[f]
      <3>1. f = g => b # j
        BY <1>0, <1>3 DEF g, j
      <3>2. b \in Nat /\ j \in Nat
        BY <1>3, ContractFacts, SMTT(60) DEF Idx
      <3> QED BY <1>3, <1>5, <3>1, <3>2, SMTT(60)
    <2>2. PICK v \in Ult: pc[v] \in Freeing /\ ctx[v].f = f /\ b < ctx[v].i
      BY <1>0, <2>1 DEF DenseInv
    <2>3. v # u
      BY <1>1, <2>2 DEF Freeing
    <2> QED BY <1>4, <2>2, <2>3 DEF Others
  <1>13. RefCounted'
    BY <1>0, <1>1, <1>4, RefSame DEF Ops
  <1>14. Free' = Free /\ RingInv' /\ PlaceInv'
    BY <1>0, <1>1, <1>4, PlacesSame
  <1>15. RoomInv'
    BY <1>1, <1>4, <1>14, RoomSame
  <1> QED BY <1>7, <1>9, <1>10, <1>11, <1>12, <1>13, <1>14, <1>15

\* The position has a block: the assert holds.
LEMMA GetLbaKeeps ==
  ASSUME Contract, CardFacts, IInv, NEW u \in Ult, get_lba(u)
  PROVE  IInv'
  <1> USE DEF IInv
  <1> DEFINE b == block[ctx[u].f][ctx[u].i]
             c == [ctx[u] EXCEPT !.lba = block[ctx[u].f][ctx[u].i]]
  <1>0. UNCHANGED <<name, block, n_block, free_blocks, free_blocks_rp,
                    free_blocks_wp, flags, ref_count, myfs_mutex, file_mutex, fds>>
    BY DEF get_lba, super, state, locks
  <1>1. pc[u] = "check" /\ Locals(u, c)
    BY DEF get_lba
  <1>2. ctx[u] \in Ctx /\ ctx[u].f \in File
    BY DEF TypeInv, Ctx
  <1>3. ctx[u].i \in Idx /\ b # INACTIVE
    BY <1>1 DEF KnowsInv, Knows, Ops
  <1>4. Goto(u, "io") /\ b \in Block
    BY <1>2, <1>3 DEF get_lba, TypeInv
  <1>5. c \in Ctx /\ c.lba = b /\ c.f = ctx[u].f /\ c.i = ctx[u].i
    BY <1>2, <1>4, CtxUpdates
  <1> HIDE DEF c
  <1>6. /\ pc' \in [Ult -> PC] /\ ctx' \in [Ult -> Ctx]
        /\ pc'[u] = "io" /\ ctx'[u] = c /\ Others(u)
    <2>1. "io" \in PC
      BY DEF PC, Ops
    <2> QED BY <1>1, <1>4, <1>5, <2>1, Moved
  <1>7. TypeInv'
    BY <1>0, <1>6 DEF TypeInv
  <1>8. LockInv'
    BY <1>0, <1>1, <1>6 DEF LockInv, Others, Locked
  <1>9. UseInv'
    BY <1>0, <1>1, <1>5, <1>6, UseMoved DEF Ops
  <1>10. KnowsInv'
    <2>1. c.i \in Idx /\ block[c.f][c.i] # INACTIVE /\ block[c.f][c.i] = c.lba
      BY <1>3, <1>5
    <2> QED BY <1>0, <1>6, <2>1, KnowsMeans, KnowsSame
  <1>11. DenseInv'
    BY <1>0, <1>1, <1>6, DenseSame DEF Freeing
  <1>12. RefCounted'
    BY <1>0, <1>1, <1>5, <1>6, RefSame DEF Ops
  <1>13. Free' = Free /\ RingInv' /\ PlaceInv'
    BY <1>0, <1>1, <1>6, PlacesSame
  <1>14. RoomInv'
    BY <1>1, <1>6, <1>13, RoomSame
  <1> QED BY <1>7, <1>8, <1>9, <1>10, <1>11, <1>12, <1>13, <1>14

\* ref_count follows the calls that begin: it does not wrap.
LEMMA IncrementCounts ==
  ASSUME Contract, CardFacts, IInv, NEW u \in Ult, NEW f \in File, Others(u), fds[f] = 1,
         increment_ref(f), pc[u] \notin Ops, pc'[u] \in Ops, ctx'[u].f = f
  PROVE  RefCounted' /\ ref_count' \in [File -> Nat]
  <1> USE DEF IInv
  <1>1. flags[f] = {OPENED}
    BY DEF UseInv
  <1>2. ref_count' = [ref_count EXCEPT ![f] = (@ + 1) % RefMod]
    BY <1>1 DEF increment_ref
  <1>3. InIO(f)' = InIO(f) \cup {u} /\ u \notin InIO(f)
    BY DEF InIO, Others, Ops
  <1>4. \A g \in File: g # f => InIO(g)' = InIO(g)
    BY DEF InIO, Others, Ops
  <1>5. IsFiniteSet(InIO(f)) /\ Cardinality(InIO(f)) \in Nat
    BY FiniteParts, CardType
  <1>6. Cardinality(InIO(f)') = Cardinality(InIO(f)) + 1
    BY <1>3, <1>5, CardAdd
  <1>7. Cardinality(InIO(f)') < RefMod
    <2>1. InIO(f)' \in SUBSET Ult
      BY <1>3 DEF InIO
    <2>2. Cardinality(InIO(f)') <= Cardinality(Ult)
      BY <2>1, ContractFacts, CardSubset
    <2>3. Cardinality(Ult) \in Nat
      BY ContractFacts, CardType
    <2> QED BY <1>5, <1>6, <2>2, <2>3, ContractFacts, SMTT(60)
  <1>8. (Cardinality(InIO(f)) + 1) % RefMod = Cardinality(InIO(f)) + 1
    BY <1>5, <1>6, <1>7, ContractFacts, SMTT(60)
  <1>9. ref_count[f] = Cardinality(InIO(f))
    BY DEF RefCounted
  <1>10. ref_count'[f] = Cardinality(InIO(f)')
    BY <1>2, <1>6, <1>8, <1>9 DEF TypeInv
  <1>11. \A g \in File: g # f => ref_count'[g] = ref_count[g]
    BY <1>2 DEF TypeInv
  <1>12. ref_count' \in [File -> Nat]
    BY <1>2, <1>5, <1>8, <1>9, SMTT(60) DEF TypeInv
  <1>13. RefCounted'
    <2> SUFFICES ASSUME NEW g \in File PROVE ref_count'[g] = Cardinality(InIO(g)')
      BY DEF RefCounted
    <2>1. CASE g = f
      BY <1>10, <2>1
    <2>2. CASE g # f
      BY <1>4, <1>11, <2>2 DEF RefCounted
    <2> QED BY <2>1, <2>2
  <1> QED BY <1>12, <1>13

\* A call begins on an open file.
LEMMA BeginKeeps ==
  ASSUME Contract, CardFacts, IInv, NEW u \in Ult, NEW f \in File, NEW i \in Idx,
         NEW w \in {"get_lba", "check"}, pc[u] = "idle", fds[f] > 0,
         increment_ref(f), Goto(u, w), Locals(u, [NoCtx EXCEPT !.f = f, !.i = i]),
         UNCHANGED <<super, flags, locks, fds>>,
         w = "get_lba" => i <= n_block[f] /\ Cardinality(Free) > Cardinality(Allocating),
         w = "check" => i < n_block[f]
  PROVE  IInv'
  <1> USE DEF IInv
  <1> DEFINE c == [NoCtx EXCEPT !.f = f, !.i = i]
  <1>0. UNCHANGED <<name, block, n_block, free_blocks, free_blocks_rp,
                    free_blocks_wp, flags, myfs_mutex, file_mutex, fds>>
    BY DEF super, locks
  <1>1. c \in Ctx /\ c.f = f /\ c.i = i
    <2>1. NoCtx \in Ctx
      BY NoCtxType
    <2>2. i \in 0 .. MYFS_MAX_BLOCKS_PER_FILE
      BY ContractFacts, SMTT(60) DEF Idx
    <2> QED BY <2>1, <2>2 DEF Ctx
  <1>2. Locals(u, c)
    OBVIOUS
  <1> HIDE DEF c
  <1>3. /\ pc' \in [Ult -> PC] /\ ctx' \in [Ult -> Ctx]
        /\ pc'[u] = w /\ ctx'[u] = c /\ Others(u)
    <2>1. w \in PC
      BY DEF PC, Ops
    <2> QED BY <1>1, <1>2, <2>1, Moved
  <1>4. fds[f] = 1
    <2>1. fds[f] \in {0, 1}
      BY DEF TypeInv
    <2> QED BY <2>1, SMTT(60)
  <1>5. RefCounted' /\ ref_count' \in [File -> Nat]
    BY <1>1, <1>3, <1>4, IncrementCounts DEF Ops
  <1>6. TypeInv'
    BY <1>0, <1>3, <1>5 DEF TypeInv
  <1>7. LockInv'
    BY <1>0, <1>3 DEF LockInv, Others, Locked
  <1>8. UseInv'
    BY <1>0, <1>1, <1>3, <1>4, UseSame DEF Locked, Freeing
  <1>9. KnowsInv'
    <2>1. w = "check" => block[f][i] # INACTIVE
      BY <1>4, SMTT(60) DEF DenseInv, UseInv
    <2> QED BY <1>0, <1>1, <1>3, <2>1, KnowsMeans, KnowsSame
  <1>10. DenseInv'
    BY <1>0, <1>3, DenseSame DEF Freeing
  <1>11. Free' = Free /\ RingInv' /\ PlaceInv'
    BY <1>0, <1>3, PlacesSame
  <1>12. CASE w = "check"
    <2>1. RoomInv'
      BY <1>3, <1>11, <1>12, RoomSame
    <2> QED BY <1>5, <1>6, <1>7, <1>8, <1>9, <1>10, <1>11, <2>1
  <1>13. CASE w = "get_lba"
    <2>1. Waiting' = Waiting \cup {u} /\ IsFiniteSet(Waiting) /\ IsFiniteSet(Free)
      BY <1>3, <1>13, FiniteParts DEF Waiting, Others
    <2>2. Cardinality(Waiting') <= Cardinality(Waiting) + 1
          /\ Cardinality(Waiting') \in Nat /\ Cardinality(Waiting) \in Nat
          /\ Cardinality(Free) \in Nat
      <3>1. /\ IsFiniteSet(Waiting \cup {u})
            /\ \/ Cardinality(Waiting \cup {u}) = Cardinality(Waiting)
               \/ Cardinality(Waiting \cup {u}) = Cardinality(Waiting) + 1
        BY <2>1, CardAdd
      <3>2. /\ Cardinality(Waiting) \in Nat /\ Cardinality(Free) \in Nat
            /\ Cardinality(Waiting \cup {u}) \in Nat
        BY <2>1, <3>1, CardType
      <3> QED BY <2>1, <3>1, <3>2, SMTT(60)
    <2>3. Cardinality(Waiting) <= Cardinality(Allocating) /\ Cardinality(Allocating) \in Nat
      <3>1. Allocating \in SUBSET Ult /\ Waiting \in SUBSET Allocating /\ IsFiniteSet(Ult)
        BY ContractFacts DEF Allocating, Waiting
      <3>2. IsFiniteSet(Allocating)
        BY <3>1, CardSubset
      <3> QED BY <3>1, <3>2, CardSubset, CardType
    <2>4. RoomInv'
      BY <1>11, <1>13, <2>2, <2>3, SMTT(60) DEF RoomInv
    <2> QED BY <1>5, <1>6, <1>7, <1>8, <1>9, <1>10, <1>11, <2>4
  <1> QED BY <1>12, <1>13

LEMMA DecrementKeeps ==
  ASSUME Contract, CardFacts, IInv, NEW u \in Ult, decrement_ref(u)
  PROVE  IInv'
  <1> USE DEF IInv
  <1> DEFINE g == ctx[u].f
             c == [NoCtx EXCEPT !.f = g]
  <1>0. UNCHANGED <<name, block, n_block, free_blocks, free_blocks_rp,
                    free_blocks_wp, flags, myfs_mutex, file_mutex, fds>>
    BY DEF decrement_ref, super, locks
  <1>1. /\ pc[u] = "io" /\ Locals(u, c)
        /\ ref_count' = [ref_count EXCEPT ![g] = Minus1(@)]
    BY DEF decrement_ref
  <1>2. ctx[u] \in Ctx /\ g \in File
    BY DEF TypeInv, Ctx
  <1>3. u \in InIO(g) /\ IsFiniteSet(InIO(g)) /\ Cardinality(InIO(g)) < RefMod
    BY <1>1, FiniteParts DEF InIO
  <1>4. Cardinality(InIO(g)) # 0 /\ Cardinality(InIO(g)) \in Nat
    BY <1>3, CardEmpty, CardType
  <1>5. ref_count[g] = Cardinality(InIO(g))
    BY <1>2 DEF RefCounted
  <1>6. Goto(u, "idle")
    BY <1>4, <1>5 DEF decrement_ref
  <1>7. c \in Ctx /\ c.f = g
    BY <1>2, NoCtxType
  <1> HIDE DEF c
  <1>8. /\ pc' \in [Ult -> PC] /\ ctx' \in [Ult -> Ctx]
        /\ pc'[u] = "idle" /\ ctx'[u] = c /\ Others(u)
    <2>1. "idle" \in PC
      BY DEF PC
    <2> QED BY <1>1, <1>6, <1>7, <2>1, Moved
  <1>9. RefCounted' /\ ref_count' \in [File -> Nat]
    <2>1. Minus1(ref_count[g]) = Cardinality(InIO(g)) - 1
      <3>1. \A m \in Nat, r \in Nat: 0 < m /\ m < r => (m + r - 1) % r = m - 1
        BY SMTT(60)
      <3> QED BY <1>3, <1>4, <1>5, <3>1, ContractFacts, SMTT(60) DEF Minus1
    <2>2. Cardinality(InIO(g) \ {u}) = Cardinality(InIO(g)) - 1
      BY <1>3, CardRemove
    <2> HIDE DEF g
    <2>3. ASSUME NEW f \in File PROVE ref_count'[f] = Cardinality(InIO(f)')
      <3>1. CASE f = g
        <4>1. InIO(f)' = InIO(g) \ {u}
          BY <1>8, <3>1 DEF InIO, Others
        <4> QED BY <1>1, <1>2, <2>1, <2>2, <3>1, <4>1 DEF TypeInv
      <3>2. CASE f # g
        <4>1. InIO(f)' = InIO(f)
          BY <1>8, <3>2 DEF InIO, Others, g
        <4> QED BY <1>1, <3>2, <4>1 DEF TypeInv, RefCounted
      <3> QED BY <3>1, <3>2
    <2>4. ref_count' \in [File -> Nat]
      <3>1. Minus1(ref_count[g]) \in Nat
        BY <1>4, <2>1, SMTT(60)
      <3> QED BY <1>1, <1>2, <3>1 DEF TypeInv
    <2> QED BY <2>3, <2>4 DEF RefCounted
  <1>10. TypeInv'
    BY <1>0, <1>8, <1>9 DEF TypeInv
  <1>11. LockInv'
    BY <1>0, <1>1, <1>8 DEF LockInv, Others, Locked
  <1>12. UseInv'
    BY <1>0, <1>8, UseSame DEF Locked, Freeing, Ops
  <1>13. KnowsInv'
    BY <1>0, <1>8, KnowsNothing
  <1>14. DenseInv'
    BY <1>0, <1>1, <1>8, DenseSame DEF Freeing
  <1>15. Free' = Free /\ RingInv' /\ PlaceInv'
    BY <1>0, <1>1, <1>8, PlacesSame
  <1>16. RoomInv'
    BY <1>1, <1>8, <1>15, RoomSame
  <1> QED BY <1>9, <1>10, <1>11, <1>12, <1>13, <1>14, <1>15, <1>16

\* The process dies outside __myfs_unlink: slots that were taken are lost.
LEMMA CrashKeeps ==
  ASSUME Contract, CardFacts, IInv, crash_mount
  PROVE  IInv'
  <1> USE DEF IInv
  <1>0. /\ UNCHANGED <<name, block, n_block, free_blocks, free_blocks_rp, free_blocks_wp>>
        /\ flags' = [f \in File |-> {}] /\ ref_count' = [f \in File |-> 0]
        /\ myfs_mutex' = NoUlt /\ file_mutex' = [f \in File |-> NoUlt]
        /\ fds' = [f \in File |-> 0]
        /\ pc' = [u \in Ult |-> "idle"] /\ ctx' = [u \in Ult |-> NoCtx]
    BY DEF crash_mount, super
  <1>1. "crash" \in Breaks /\ \A u \in Ult: pc[u] \notin Freeing
    BY ContractFacts DEF crash_mount, Freeing
  <1>2. \A u \in Ult: pc'[u] = "idle"
    BY <1>0
  <1>3. TypeInv'
    <2>1. pc' \in [Ult -> PC] /\ ctx' \in [Ult -> Ctx]
      BY <1>0, NoCtxType DEF PC
    <2> QED BY <1>0, <2>1 DEF TypeInv, Holder
  <1>4. LockInv'
    BY <1>0, <1>2, ContractFacts DEF LockInv, Locked
  <1>5. UseInv'
    BY <1>0, <1>2, SMTT(60) DEF UseInv, Locked, Freeing, Ops
  <1>6. KnowsInv'
    BY <1>2 DEF KnowsInv, Knows, Ops
  <1>7. DenseInv'
    BY <1>0, <1>1 DEF DenseInv
  <1>8. RefCounted'
    <2>1. \A f \in File: InIO(f)' = {}
      BY <1>2 DEF InIO
    <2> QED BY <1>0, <2>1, CardEmpty DEF RefCounted
  <1>9. /\ Filling = {} /\ Filling' = {} /\ Taken' = {}
        /\ Clearing = {} /\ Clearing' = {} /\ Waiting' = {}
    BY <1>1, <1>2 DEF Filling, Taken, Clearing, Waiting, Freeing
  <1>10. Free' = Free /\ Owned' = Owned
    BY <1>0, <1>9 DEF Free, Owned, Used
  <1>11. RingInv'
    BY <1>2 DEF RingInv
  <1>12. PlaceInv'
    BY <1>0, <1>1, <1>9, <1>10, SMTT(60) DEF PlaceInv, Avail, At
  <1>13. RoomInv'
    <2>1. Cardinality(Free) \in Nat
      BY FiniteParts, CardType
    <2> QED BY <1>9, <1>10, <2>1, CardEmpty, SMTT(60) DEF RoomInv
  <1> QED BY <1>3, <1>4, <1>5, <1>6, <1>7, <1>8, <1>11, <1>12, <1>13

\* myfs_superblock_init: every block is in the ring, once.
LEMMA InitInv ==
  ASSUME Contract, CardFacts, Init
  PROVE  IInv
  <1> USE DEF Init
  <1>1. NUM_BLOCKS \in Nat /\ NUM_BLOCKS > 1 /\ MYFS_MAX_BLOCKS_PER_FILE \in Nat
    BY ContractFacts
  <1>2. \A u \in Ult: pc[u] = "idle"
    OBVIOUS
  <1>3. TypeInv
    <2>1. pc \in [Ult -> PC] /\ ctx \in [Ult -> Ctx]
      BY NoCtxType DEF PC
    <2>2. free_blocks \in [Slot -> Blk] /\ free_blocks_rp \in Slot /\ free_blocks_wp \in Slot
      BY <1>1, SMTT(60) DEF Slot, Blk
    <2> QED BY <1>1, <2>1, <2>2, SMTT(60) DEF TypeInv, Holder, Block
  <1>4. LockInv
    BY <1>2, ContractFacts DEF LockInv, Locked
  <1>5. UseInv
    BY <1>2, SMTT(60) DEF UseInv, Locked, Freeing, Ops
  <1>6. KnowsInv
    BY <1>2 DEF KnowsInv, Knows, Ops
  <1>7. DenseInv
    BY <1>1, SMTT(60) DEF DenseInv, Idx
  <1>8. RefCounted
    <2>1. \A f \in File: InIO(f) = {}
      BY <1>2 DEF InIO
    <2> QED BY <2>1, CardEmpty DEF RefCounted
  <1>9. Filling = {} /\ Taken = {} /\ Waiting = {} /\ Owned = {}
    BY <1>2 DEF Filling, Taken, Waiting, Owned, Used
  <1>10. Avail = 0 .. NUM_BLOCKS - 2
    BY <1>1, <1>9, SMTT(60) DEF Avail, Free, Ring, Slot
  <1>11. \A s \in Avail: free_blocks[s] = s
    BY <1>1, <1>10, SMTT(60) DEF Slot
  <1>12. RingInv
    BY <1>2 DEF RingInv
  <1>13. PlaceInv
    BY <1>9, <1>10, <1>11 DEF PlaceInv, Blk
  <1>14. RoomInv
    <2>1. Cardinality(Free) \in Nat
      BY FiniteParts, CardType
    <2> QED BY <1>9, <2>1, CardEmpty, SMTT(60) DEF RoomInv
  <1> QED BY <1>3, <1>4, <1>5, <1>6, <1>7, <1>8, <1>12, <1>13, <1>14 DEF IInv

LEMMA NextInv ==
  ASSUME Contract, CardFacts, IInv, [Next]_vars
  PROVE  IInv'
  <1>1. CASE UNCHANGED vars
    <2>1. UNCHANGED <<name, block, n_block, free_blocks, free_blocks_rp, free_blocks_wp,
                      flags, ref_count, myfs_mutex, file_mutex, fds, pc, ctx>>
      BY <1>1 DEF vars, super, state, locks
    <2>2. /\ TypeInv' /\ LockInv' /\ UseInv' /\ RefCounted' /\ KnowsInv' /\ DenseInv'
      <3>1. TypeInv'
        BY <2>1 DEF IInv, TypeInv
      <3>2. LockInv'
        BY <2>1 DEF IInv, LockInv
      <3>3. RefCounted'
        BY <2>1 DEF IInv, RefCounted, InIO
      <3>4. UseInv'
        BY <2>1 DEF IInv, UseInv
      <3>5. KnowsInv'
        BY <2>1 DEF IInv, KnowsInv
      <3>6. DenseInv'
        BY <2>1 DEF IInv, DenseInv
      <3> QED BY <3>1, <3>2, <3>3, <3>4, <3>5, <3>6
    <2>3. Free' = Free /\ Taken' = Taken /\ Owned' = Owned /\ Waiting' = Waiting
      BY <2>1 DEF Free, Filling, Taken, Owned, Used, Clearing, Waiting
    <2>4. RingInv' /\ RoomInv' /\ PlaceInv'
      <3>1. RingInv'
        BY <2>1 DEF IInv, RingInv
      <3>2. RoomInv'
        BY <2>3 DEF IInv, RoomInv
      <3>3. PlaceInv'
        BY <2>1, <2>3, SMTT(60) DEF IInv, PlaceInv, Avail, At
      <3> QED BY <3>1, <3>2, <3>3
    <2> QED BY <2>2, <2>4 DEF IInv
  <1>2. ASSUME NEW u \in Ult, Call(u) PROVE IInv'
    <2>1. ASSUME NEW n \in Name, myfs_open(u, n) PROVE IInv'
      BY <2>1, OpenKeeps
    <2>2. ASSUME NEW n \in Name, myfs_unlink(u, n) PROVE IInv'
      BY <2>2, UnlinkKeeps
    <2>3. ASSUME NEW f \in File, myfs_close(u, f) PROVE IInv'
      BY <2>3, CloseKeeps
    <2>4. ASSUME NEW f \in File, NEW i \in Idx, write_begin(u, f, i) PROVE IInv'
      <3>1. "get_lba" \in {"get_lba", "check"}
        OBVIOUS
      <3>2. /\ pc[u] = "idle" /\ fds[f] > 0 /\ increment_ref(f) /\ Goto(u, "get_lba")
            /\ Locals(u, [NoCtx EXCEPT !.f = f, !.i = i])
            /\ UNCHANGED <<super, flags, locks, fds>>
            /\ i <= n_block[f] /\ Cardinality(Free) > Cardinality(Allocating)
        BY <2>4, ContractFacts DEF write_begin
      <3> QED BY <3>1, <3>2, BeginKeeps
    <2>5. ASSUME NEW f \in File, NEW i \in Idx, read_begin(u, f, i) PROVE IInv'
      <3>1. "check" \in {"get_lba", "check"}
        OBVIOUS
      <3>2. /\ pc[u] = "idle" /\ fds[f] > 0 /\ increment_ref(f) /\ Goto(u, "check")
            /\ Locals(u, [NoCtx EXCEPT !.f = f, !.i = i])
            /\ UNCHANGED <<super, flags, locks, fds>> /\ i < n_block[f]
        BY <2>5 DEF read_begin, WithinSize
      <3> QED BY <3>1, <3>2, BeginKeeps
    <2> QED BY <1>2, <2>1, <2>2, <2>3, <2>4, <2>5 DEF Call
  <1>3. ASSUME NEW u \in Ult, Step(u) PROVE IInv'
    <2>1. ~myfs_unlink_fd(u)
      BY DEF myfs_unlink_fd, IInv, TypeInv, PC, Locked, Ops
    <2> QED BY <1>3, <2>1, TryUnlinkKeeps, UnlinkEndKeeps, FreeCasKeeps,
               FreeStoreKeeps, FreeClearKeeps, FreeEndKeeps, AllocCasKeeps,
               AllocFillKeeps, AllocCountKeeps, GetLbaKeeps, DecrementKeeps DEF Step
  <1> QED BY <1>1, <1>2, <1>3, CrashKeeps DEF Next

-----------------------------------------------------------------------------
(* The theorems *)

\* Without a crash the invariant counts every block once.
LEMMA BlocksFollow ==
  ASSUME Contract, CardFacts, IInv, "crash" \notin Breaks
  PROVE  BlocksConserved
  <1> SUFFICES ASSUME NEW b \in Blk
               PROVE  Cardinality({x \in Owned: At(x) = b})
                        + Cardinality({s \in Avail: free_blocks[s] = b}) = 1
    BY DEF BlocksConserved, At, Avail
  <1> DEFINE O == {x \in Owned: At(x) = b}
             A == {s \in Avail: free_blocks[s] = b}
  <1>1. CASE \E x \in Owned: At(x) = b
    <2>1. PICK x \in Owned: At(x) = b
      BY <1>1
    <2>2. x \in O /\ \A y \in O: y = x
      BY <2>1 DEF IInv, PlaceInv
    <2>3. A = {}
      BY <2>1 DEF IInv, PlaceInv
    <2> HIDE DEF O, A
    <2>4. Cardinality(O) = 1
      BY <2>2, OnePlace
    <2>5. Cardinality(A) = 0
      BY <2>3, CardEmpty
    <2> QED BY <2>4, <2>5, SMTT(60) DEF O, A
  <1>2. CASE ~ \E x \in Owned: At(x) = b
    <2>1. PICK s \in Avail: free_blocks[s] = b
      BY <1>2 DEF IInv, PlaceInv
    <2>2. s \in A /\ \A t \in A: t = s
      BY <2>1 DEF IInv, PlaceInv
    <2>3. O = {}
      BY <1>2
    <2> HIDE DEF O, A
    <2>4. Cardinality(A) = 1
      BY <2>2, OnePlace
    <2>5. Cardinality(O) = 0
      BY <2>3, CardEmpty
    <2> QED BY <2>4, <2>5, SMTT(60) DEF O, A
  <1> QED BY <1>1, <1>2

FST == INSTANCE FiniteSetTheorems

LEMMA CardFactsHold == CardFacts
  <1>1. \A S: (FST!IsFiniteSet(S) <=> IsFiniteSet(S)) /\ FST!Cardinality(S) = Cardinality(S)
    BY DEF FST!IsFiniteSet, IsFiniteSet, FST!Cardinality, Cardinality
  <1>2. ASSUME NEW S, IsFiniteSet(S)
        PROVE  /\ Cardinality(S) \in Nat
               /\ Cardinality(S) = 0 <=> S = {}
    BY <1>1, <1>2, FST!FS_CardinalityType, FST!FS_EmptySet
  <1>3. ASSUME NEW S, IsFiniteSet(S), NEW T \in SUBSET S
        PROVE  IsFiniteSet(T) /\ Cardinality(T) <= Cardinality(S)
    BY <1>1, <1>3, FST!FS_Subset
  <1>4. ASSUME NEW S, IsFiniteSet(S), NEW x
        PROVE  /\ IsFiniteSet(S \cup {x})
               /\ x \notin S => Cardinality(S \cup {x}) = Cardinality(S) + 1
    BY <1>1, <1>4, FST!FS_AddElement
  <1>5. ASSUME NEW S, IsFiniteSet(S), NEW x
        PROVE  /\ IsFiniteSet(S \ {x})
               /\ x \in S => Cardinality(S \ {x}) = Cardinality(S) - 1
    BY <1>1, <1>5, FST!FS_RemoveElement
  <1>6. IsFiniteSet({}) /\ \A x: Cardinality({x}) = 1
    BY <1>1, FST!FS_EmptySet, FST!FS_Singleton
  <1>7. ASSUME NEW n \in Nat PROVE IsFiniteSet(0 .. n) /\ Cardinality(0 .. n) = n + 1
    <2>1. 0 \in Int /\ n \in Int /\ ~(0 > n) /\ n - 0 + 1 = n + 1
      BY SMTT(60)
    <2> QED BY <1>1, <2>1, FST!FS_Interval
  <1>8. ASSUME NEW S, NEW T, IsFiniteSet(S), IsFiniteSet(T), Cardinality(T) < Cardinality(S),
               NEW f \in [S -> T]
        PROVE  \E x, y \in S: x # y /\ f[x] = f[y]
    BY <1>1, <1>8, FST!FS_PigeonHole
  <1>9. PigeonholeFact
    BY <1>8 DEF PigeonholeFact
  <1>10. SizeFacts
    BY <1>2, <1>3, <1>4, <1>5, <1>6, <1>7 DEF SizeFacts
  <1> QED BY <1>9, <1>10 DEF CardFacts

\* IInv is an invariant of the file system: the locks of myfs.c and the contract
\* of its callers keep every index, count and block in order.
THEOREM Invariance ==
  ASSUME Contract
  PROVE  Spec => []IInv
  <1>1. Init => IInv
    BY InitInv, CardFactsHold
  <1>2. IInv /\ [Next]_vars => IInv'
    BY NextInv, CardFactsHold
  <1> QED BY <1>1, <1>2, PTL DEF Spec

\* No block belongs to two file positions, although myfs_get_lba and
\* __myfs_unlink move blocks through the ring concurrently, under two kinds of
\* locks that do not exclude each other, and also after the process has died.
THEOREM NoSharedBlockCorrect ==
  ASSUME Contract
  PROVE  Spec => []NoSharedBlock
  <1>1. IInv => NoSharedBlock
    BY DEF IInv, PlaceInv, At, NoSharedBlock
  <1> QED BY <1>1, Invariance, PTL

\* Without a crash every block is in exactly one place: a file, a slot of the
\* ring, or a slot that myfs_get_lba has taken and not read.
THEOREM BlocksConservedCorrect ==
  ASSUME Contract, "crash" \notin Breaks
  PROVE  Spec => []BlocksConserved
  <1>1. IInv => BlocksConserved
    BY BlocksFollow, CardFactsHold
  <1> QED BY <1>1, Invariance, PTL

\* A request goes to the block that its file position owns until it is over.
THEOREM IOOnOwnBlockCorrect ==
  ASSUME Contract
  PROVE  Spec => []IOOnOwnBlock
  <1>1. IInv => IOOnOwnBlock
    BY DEF IInv, KnowsInv, Knows, IOOnOwnBlock
  <1> QED BY <1>1, Invariance, PTL

\* ref_count is the number of calls under way: it neither wraps nor misses one.
THEOREM RefCountedCorrect ==
  ASSUME Contract
  PROVE  Spec => []RefCounted
  <1>1. IInv => RefCounted
    BY DEF IInv
  <1> QED BY <1>1, Invariance, PTL

\* The assert of myfs_get_lba never fails.
THEOREM NoAssertFailureCorrect ==
  ASSUME Contract
  PROVE  Spec => []NoAssertFailure
  <1>1. IInv => NoAssertFailure
    BY DEF IInv, TypeInv, PC, Locked, Ops, NoAssertFailure
  <1> QED BY <1>1, Invariance, PTL
=============================================================================
