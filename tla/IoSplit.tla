------------------------------- MODULE IoSplit ------------------------------
(***************************************************************************)
(* How read_impl and write_impl (hook.c) cut a byte range of a file into   *)
(* NVMe requests, and the address arithmetic of each request: file offset  *)
(* to block address (myfs_get_lba), block address to drive and drive       *)
(* address (the striping of nvme_read_req and nvme_write_req), command     *)
(* slot to DMA page (get_buf4k), and the request id nvme_check decodes.    *)
(*                                                                         *)
(* Sizes are the code's own, in bytes.  One behaviour is one call.         *)
(***************************************************************************)
EXTENDS Integers

CONSTANTS Positions, Lengths, \* file offsets and lengths callers pass
          Block,       \* file block -> myfs block (superblock->file[i].block)
          MYFS_MAX_BLOCKS_PER_FILE,
          ND, N_CORE,  \* drives, cores
          QD           \* commands per queue pair

SECTOR == 512
BLKSZ == 4096
RAID_FACTOR == BLKSZ \div SECTOR
PAGE2MB == 2097152
MYFS_BLOCK_SIZE == 2097152
MinOf(a, b) == IF a < b THEN a ELSE b
MaxOf(a, b) == IF a > b THEN a ELSE b
DIV_CEIL(x, y) == (x + y - 1) \div y
N_2MB_PAGE == MaxOf((QD * BLKSZ) \div PAGE2MB, 1)

\* Both functions assert that the position is a multiple of 512.  QD is 1024.
PosAssumption == Positions \subseteq {p \in Nat: p % 512 = 0} /\ Lengths \subseteq Nat
BlockAssumption ==
  /\ MYFS_MAX_BLOCKS_PER_FILE \in Nat
  /\ Block \in [0 .. MYFS_MAX_BLOCKS_PER_FILE-1 -> Nat]
  /\ \A p \in Positions, n \in Lengths: p + n <= MYFS_MAX_BLOCKS_PER_FILE * MYFS_BLOCK_SIZE
SizeAssumption == /\ ND \in Nat \ {0} /\ N_CORE \in Nat \ {0}
                  /\ QD \in Nat \ {0} /\ (QD <= 512 \/ QD % 512 = 0)

VARIABLES op, pos, len,   \* the call
          blksz, j,       \* its loop
          covered,        \* bytes of the call requested so far
          last            \* the latest request
vars == <<op, pos, len, blksz, j, covered, last>>

-----------------------------------------------------------------------------
\* Mutant: the short case ignores the offset.
Blksz_NoOffset(o, p, n) ==
  IF o = "read" /\ n <= BLKSZ THEN n
  ELSE IF n % BLKSZ # 0 \/ p % BLKSZ # 0 THEN SECTOR ELSE BLKSZ

\* The size of the call's requests; only read_impl has the short case.
Blksz(o, p, n) ==
  IF o = "read" /\ (p % BLKSZ) + n <= BLKSZ THEN n
  ELSE IF n % BLKSZ # 0 \/ p % BLKSZ # 0 THEN SECTOR ELSE BLKSZ

\* Mutant: the offset in the block is not reduced.
myfs_get_lba_NoMod(off) ==
  (Block[off \div MYFS_BLOCK_SIZE] * MYFS_BLOCK_SIZE + off) \div 512
myfs_get_lba(off) ==
  (Block[off \div MYFS_BLOCK_SIZE] * MYFS_BLOCK_SIZE + (off % MYFS_BLOCK_SIZE))
    \div 512

\* The drive that holds a sector, and the sector's address on it.
Did(lba) == (lba \div RAID_FACTOR) % ND
Cdw10(lba) == ((lba \div RAID_FACTOR) \div ND) * RAID_FACTOR + (lba % RAID_FACTOR)

\* The DMA page of a command: 2 MB page and offset in it.
BufPage(cid) == cid % N_2MB_PAGE
BufOffset(cid) == BLKSZ * (cid \div N_2MB_PAGE)

Rid(did, core_id, cid) == did * QD * N_CORE + core_id * QD + cid
RidDid(rid) == (rid \div QD) \div N_CORE
RidCore(rid) == (rid \div QD) % N_CORE
RidCid(rid) == rid % QD

NoRequest == [off |-> 0, len |-> 0, lba |-> 0, num_blk |-> 0, core |-> 0, cid |-> 0]

Init ==
  /\ op \in {"read", "write"} /\ pos \in Positions /\ len \in Lengths
  /\ blksz = Blksz(op, pos, len)
  /\ j = 0 /\ covered = 0 /\ last = NoRequest

\* The bytes of the request at j: the last one is cut.
Bytes == MinOf(blksz, len - j)

\* One turn of the request loop, on any core and with any free slot.
Request(core, cid) ==
  /\ j < len
  /\ last' = [off |-> j, len |-> Bytes, lba |-> myfs_get_lba(pos + j),
              num_blk |-> DIV_CEIL(blksz, 512), core |-> core, cid |-> cid]
  /\ covered' = covered + Bytes
  /\ j' = j + blksz
  /\ UNCHANGED <<op, pos, len, blksz>>

Next == \E core \in 0 .. N_CORE-1, cid \in 0 .. QD-1: Request(core, cid)
Spec == Init /\ [][Next]_vars

-----------------------------------------------------------------------------
(* Properties *)

Requested == last # NoRequest

\* The requests of a call follow each other without gap or overlap, and stop
\* at its end: what has been requested is the first MIN(j, len) bytes.
Contiguous ==
  /\ covered = MinOf(j, len)
  /\ Requested => last.off + last.len = covered

\* A request moves at least one byte, and no more than a DMA page holds, on
\* both sides: the bytes memcpy copies and the sectors the drive transfers.
FitsPage ==
  Requested => /\ 0 < last.len /\ last.len <= last.num_blk * 512
               /\ last.num_blk * 512 <= BLKSZ
               /\ BufOffset(last.cid) + BLKSZ <= PAGE2MB

\* All sectors of a request are on the drive the request goes to, at
\* consecutive addresses: a request stays inside one stripe unit.
OneStripeUnit ==
  Requested =>
    /\ (last.lba % RAID_FACTOR) + last.num_blk <= RAID_FACTOR
    /\ \A s \in 0 .. RAID_FACTOR - 1: s < last.num_blk =>
         /\ Did(last.lba + s) = Did(last.lba)
         /\ Cdw10(last.lba + s) = Cdw10(last.lba) + s

\* The first byte a request moves is the file's byte at that offset, and the
\* request stays inside the myfs block that holds it: no offset within a
\* sector is dropped by the divisions.
RightBytes ==
  Requested =>
    LET off == pos + last.off IN
    /\ last.lba * 512 = Block[off \div MYFS_BLOCK_SIZE] * MYFS_BLOCK_SIZE
                        + (off % MYFS_BLOCK_SIZE)
    /\ (off % MYFS_BLOCK_SIZE) + last.num_blk * 512 <= MYFS_BLOCK_SIZE

\* nvme_check finds the drive, the queue and the slot that nvme_read_req or
\* nvme_write_req used in the request id they returned.
RidDecodes ==
  Requested =>
    LET rid == Rid(Did(last.lba), last.core, last.cid) IN
    /\ RidDid(rid) = Did(last.lba)
    /\ RidCore(rid) = last.core
    /\ RidCid(rid) = last.cid
=============================================================================
