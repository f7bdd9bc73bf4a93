------------------------------ MODULE MCStorage ------------------------------
(***************************************************************************)
(* Reads and writes for TLC: batches of requests (HookIO), and the cut of  *)
(* a call into requests (IoSplit).  In a behaviour one of the Parts moves: *)
(*   "shared": two ULTs that may ask for more requests than there are;     *)
(*   "data": one ULT, a descriptor, two blocks with contents that differ;  *)
(*   "split": IoSplit.                                                     *)
(***************************************************************************)
EXTENDS HookIO, TLC

CONSTANTS Parts, d0

Symmetry == Permutations(Ult) \cup Permutations(Req)
Lbas == 0 .. 2

\* Around sector, stripe-unit and myfs-block boundaries.
SplitPos == {0, 512, 3584, 4096, 7680, 2093056, 2096640, 2097152}
SplitLen == {0, 1, 511, 512, 513, 1024, 3584, 4095, 4096, 4097, 4608, 8192, 12288}
SplitBlock == [b \in 0 .. 1 |-> 5 - 2 * b]

VARIABLES part, op, pos, len, s_j, blksz, covered, last

\* Three drives, two cores, three slots.
Split == INSTANCE IoSplit WITH
  Positions <- SplitPos, Lengths <- SplitLen, Block <- SplitBlock, j <- s_j,
  MYFS_MAX_BLOCKS_PER_FILE <- 2, ND <- 3, N_CORE <- 2, QD <- 3

ASSUME /\ HookAssumption
       /\ Split!PosAssumption /\ Split!BlockAssumption /\ Split!SizeAssumption

splitVars == <<op, pos, len, s_j, blksz, covered, last>>
splitOff == /\ op = "off" /\ pos = "off" /\ len = "off" /\ s_j = "off"
            /\ blksz = "off" /\ covered = "off" /\ last = "off"

\* The calls of the two parts of HookIO.
SharedCalls == \A u \in Ult : call[u].fd = NoFd /\ call[u].data = d0
DataCalls == /\ \E u \in Ult : \A v \in Ult \ {u} : call[v] = NoCall
             /\ \A u \in Ult : call[u].pos + call[u].count <= 2
             /\ \E r \in Req : req[r].st = "idle"

MCInit == /\ part \in Parts /\ Init
          /\ \A r \in Req : out[r] = d0
          /\ \A l \in Lba : (part = "data" /\ l < 2) \/ drive[l] = d0
          /\ IF part = "split" THEN Split!Init ELSE splitOff

MCNext == /\ UNCHANGED part
          /\ \/ part = "shared" /\ Next /\ SharedCalls' /\ UNCHANGED splitVars
             \/ part = "data" /\ Next /\ DataCalls' /\ UNCHANGED splitVars
             \/ part = "split" /\ Split!Next /\ UNCHANGED vars

MCSpec == MCInit /\ [][MCNext]_<<part, vars, splitVars>>

-----------------------------------------------------------------------------
(* The properties of IoSplit.                                                *)

\* The requests of a call move the bytes of the call, each once: they follow
\* each other, fit a DMA page, stay on one drive at consecutive addresses, go to
\* the sectors that hold the file's bytes, and are found again by their id.
RequestsRight == part = "split" =>
  /\ Split!Contiguous /\ Split!FitsPage /\ Split!OneStripeUnit
  /\ Split!RightBytes /\ Split!RidDecodes
=============================================================================
