------------------------------- MODULE NvmeQP -------------------------------
(***************************************************************************)
(* One NVMe I/O queue pair of mylib/nvme.cc: class QP, nvme_read_req,      *)
(* nvme_write_req and nvme_check, against the controller (external).       *)
(*                                                                         *)
(* The callers are request handles: an element of Req is one entry of the  *)
(* rid[] array of some ULT's read_impl or write_impl.  Exactly one caller  *)
(* at a time is between qp->lock() and qp->unlock() (USE_PREEMPT = 1); in  *)
(* the cooperative build a ULT is not descheduled there, so its behaviours *)
(* are among these.  done() is read outside the lock, at any time.         *)
(*                                                                         *)
(* A completion queue entry is consumed per step, so the controller may    *)
(* post while check_cq() is inside its loop.                               *)
(***************************************************************************)
EXTENDS Naturals, FiniteSets

CONSTANTS QD,     \* entries of the submission and of the completion ring
          Req,    \* request handles: bound on the commands outstanding
          Lba,    \* logical blocks of the drive
          Data,   \* contents of a block
          NoReq   \* the NULL rbuf; also "no request under way"

ASSUME QDAssumption == QD \in Nat /\ QD >= 2
ASSUME ReqAssumption == IsFiniteSet(Req) /\ NoReq \notin Req
ASSUME DataAssumption == Lba # {} /\ Data # {}

VARIABLES
  sq_tail, cq_head, cq_phase,   \* the driver's ring positions and phase
  done_flag,                    \* 2 never used, 0 outstanding, 1 done
  rbuf,                         \* where check_cq copies a read's data
  sqe, buf4k,                   \* submission ring and DMA pages, per CID
  cqe,                          \* completion ring
  sq_db, cq_db,                 \* the two doorbell registers
  pc, cur,                      \* the critical section and its request
  hd, ubuf,                     \* request handles and their user buffers
  dev_sq_head, dev_cq_tail, dev_phase, fetched, media    \* controller

driverVars == <<sq_tail, cq_head, cq_phase, done_flag, rbuf, sqe>>
devVars == <<dev_sq_head, dev_cq_tail, dev_phase, fetched, media>>
vars == <<driverVars, buf4k, cqe, sq_db, cq_db, pc, cur, hd, ubuf, devVars>>

Cid == 0 .. QD-1
Opc == {"read", "write"}

(***************************************************************************)
(* A handle: "idle", inside nvme_*_req ("req"), submitted and polled       *)
(* ("wait"), or submitted and never polled ("orphan": write_impl leaves    *)
(* the last request of a batch behind).  val is the data of a write; for a *)
(* read it records what the controller transferred.  served records that   *)
(* the controller has executed the command.  The last two, and the field   *)
(* req of a queue entry, are history: no guard reads them.                 *)
(***************************************************************************)
Handle == [st: {"idle", "req", "wait", "orphan"}, opc: Opc, lba: Lba,
           val: Data, cid: Cid, served: BOOLEAN]
IdleHandle == [st |-> "idle", opc |-> "read", lba |-> CHOOSE l \in Lba: TRUE,
               val |-> CHOOSE d \in Data: TRUE, cid |-> 0, served |-> FALSE]

Sqe == [opc: Opc, lba: Lba, req: Req \cup {NoReq}]
Cmd == [cid: Cid, opc: Opc, lba: Lba, req: Req \cup {NoReq}]
EmptySqe == [opc |-> "read", lba |-> CHOOSE l \in Lba: TRUE, req |-> NoReq]
AnyData == CHOOSE d \in Data: TRUE

Succ(i) == (i + 1) % QD

-----------------------------------------------------------------------------
Init ==
  /\ sq_tail = 0 /\ cq_head = 0 /\ cq_phase = 1
  /\ done_flag = [c \in Cid |-> 2]
  /\ rbuf = [c \in Cid |-> NoReq]
  /\ sqe = [c \in Cid |-> EmptySqe]
  /\ buf4k = [c \in Cid |-> AnyData]
  /\ cqe = [i \in Cid |-> [cid |-> 0, p |-> 0]]
  /\ sq_db = 0 /\ cq_db = 0
  /\ pc = "free" /\ cur = NoReq
  /\ hd = [r \in Req |-> IdleHandle]
  /\ ubuf = [r \in Req |-> AnyData]
  /\ dev_sq_head = 0 /\ dev_cq_tail = 0 /\ dev_phase = 1
  /\ fetched = {}
  /\ media \in [Lba -> Data]

-----------------------------------------------------------------------------
(* The driver *)

\* Enter nvme_read_req or nvme_write_req and take the lock.
Enter(r, opc, l, d) ==
  /\ pc = "free"
  /\ hd[r].st = "idle"
  /\ hd' = [hd EXCEPT ![r] = [IdleHandle EXCEPT !.st = "req", !.opc = opc,
                                                !.lba = l, !.val = d]]
  /\ pc' = "new" /\ cur' = r
  /\ UNCHANGED <<driverVars, buf4k, cqe, sq_db, cq_db, ubuf, devVars>>

nvme_read_req(r, l) == Enter(r, "read", l, AnyData)
nvme_write_req(r, l, d) == Enter(r, "write", l, d)

\* new_sqe finds the slot at the tail outstanding and polls the CQ.
new_sqe_block ==
  /\ pc = "new"
  /\ done_flag[sq_tail] = 0
  /\ pc' = "cq"
  /\ UNCHANGED <<driverVars, buf4k, cqe, sq_db, cq_db, cur, hd, ubuf, devVars>>

\* What nvme_read_req and nvme_write_req leave in the slot at the tail.
OwnFlag == [done_flag EXCEPT ![sq_tail] = 0]
OwnRbuf == [rbuf EXCEPT ![sq_tail] = IF hd[cur].opc = "read" THEN cur ELSE NoReq]
OwnPage == IF hd[cur].opc = "write" THEN [buf4k EXCEPT ![sq_tail] = hd[cur].val]
                                    ELSE buf4k

\* Fill the slot at the tail, advance the tail, ring the doorbell, unlock.
Submit(flag, rb, page) ==
  /\ pc = "new"
  /\ done_flag' = flag
  /\ sqe' = [sqe EXCEPT ![sq_tail] = [opc |-> hd[cur].opc, lba |-> hd[cur].lba,
                                      req |-> cur]]
  /\ rbuf' = rb
  /\ buf4k' = page
  /\ hd' = [hd EXCEPT ![cur].st = "wait", ![cur].cid = sq_tail]
  /\ sq_tail' = Succ(sq_tail)
  /\ sq_db' = Succ(sq_tail)
  /\ pc' = "free" /\ cur' = NoReq
  /\ UNCHANGED <<cq_head, cq_phase, cqe, cq_db, ubuf, devVars>>

\* Mutants: the flag or the page of the slot keeps what the previous command left.
new_sqe_NoReset == done_flag[sq_tail] # 0 /\ Submit(IF done_flag[sq_tail] = 1
                     THEN done_flag ELSE OwnFlag, OwnRbuf, OwnPage)
new_sqe_StalePage == done_flag[sq_tail] # 0 /\ Submit(OwnFlag, OwnRbuf, buf4k)

\* new_sqe finds the slot free and the caller submits its command.
new_sqe ==
  /\ done_flag[sq_tail] # 0
  /\ Submit(OwnFlag, OwnRbuf, OwnPage)

\* nvme_check sees its command done and the caller goes on.
nvme_check_done(r) ==
  /\ hd[r].st = "wait"
  /\ done_flag[hd[r].cid] = 1
  /\ hd' = [hd EXCEPT ![r] = IdleHandle]
  /\ UNCHANGED <<driverVars, buf4k, cqe, sq_db, cq_db, pc, cur, ubuf, devVars>>

\* nvme_check does not, and enters check_cq under the lock.
nvme_check_poll(r) ==
  /\ pc = "free"
  /\ hd[r].st = "wait"
  /\ done_flag[hd[r].cid] # 1
  /\ pc' = "cq"
  /\ UNCHANGED <<driverVars, buf4k, cqe, sq_db, cq_db, cur, hd, ubuf, devVars>>

\* write_impl returns without polling the last request it made.
leave(r) ==
  /\ hd[r].st = "wait" /\ hd[r].opc = "write"
  /\ hd' = [hd EXCEPT ![r] = IF done_flag[hd[r].cid] = 0 /\ sqe[hd[r].cid].req = r
                               THEN [hd[r] EXCEPT !.st = "orphan"]
                               ELSE IdleHandle]
  /\ UNCHANGED <<driverVars, buf4k, cqe, sq_db, cq_db, pc, cur, ubuf, devVars>>

\* The command of the entry at the head, and its page copied to its buffer.
HeadCid == cqe[cq_head].cid
Copied == IF rbuf[HeadCid] # NoReq
            THEN [ubuf EXCEPT ![rbuf[HeadCid]] = buf4k[HeadCid]] ELSE ubuf

\* One turn of check_cq's loop.  (An orphan's handle is free again.)
Consume(bufs, flag, phase) ==
  /\ pc = "cq"
  /\ cqe[cq_head].p = cq_phase
  /\ ubuf' = bufs
  /\ done_flag' = [done_flag EXCEPT ![HeadCid] = flag]
  /\ cq_head' = Succ(cq_head)
  /\ cq_phase' = phase
  /\ hd' = [r \in Req |-> IF hd[r].st = "orphan" /\ hd[r].cid = HeadCid
                            THEN IdleHandle ELSE hd[r]]
  /\ UNCHANGED <<sq_tail, rbuf, sqe, buf4k, cqe, sq_db, cq_db, pc, cur, devVars>>

NextPhase == IF cq_head + 1 = QD THEN 1 - cq_phase ELSE cq_phase

\* Mutants: nothing is copied; the phase is not inverted at the end of the ring.
check_cq_entry_NoCopy == Consume(ubuf, 1, NextPhase)
check_cq_entry_NoFlip == Consume(Copied, 1, cq_phase)

check_cq_entry == Consume(Copied, 1, NextPhase)

\* Mutant: the completion doorbell is not rung.
check_cq_exit_NoDoorbell ==
  /\ pc = "cq"
  /\ cqe[cq_head].p # cq_phase
  /\ pc' = IF cur = NoReq THEN "free" ELSE "new"
  /\ UNCHANGED <<driverVars, buf4k, cqe, sq_db, cq_db, cur, hd, ubuf, devVars>>

\* check_cq leaves its loop and rings the CQ doorbell.
check_cq_exit ==
  /\ pc = "cq"
  /\ cqe[cq_head].p # cq_phase
  /\ cq_db' = cq_head
  /\ pc' = IF cur = NoReq THEN "free" ELSE "new"
  /\ UNCHANGED <<driverVars, buf4k, cqe, sq_db, cur, hd, ubuf, devVars>>

-----------------------------------------------------------------------------
(* The controller (external): fetches in order, executes in any order. *)

dev_fetch ==
  /\ dev_sq_head # sq_db
  /\ fetched' = fetched \cup
       {[cid |-> dev_sq_head, opc |-> sqe[dev_sq_head].opc,
         lba |-> sqe[dev_sq_head].lba, req |-> sqe[dev_sq_head].req]}
  /\ dev_sq_head' = Succ(dev_sq_head)
  /\ UNCHANGED <<driverVars, buf4k, cqe, sq_db, cq_db, pc, cur, hd, ubuf,
                 dev_cq_tail, dev_phase, media>>

\* Transfer the data, then post the completion if the ring has room.
dev_complete(cmd) ==
  /\ cmd \in fetched
  /\ Succ(dev_cq_tail) # cq_db
  /\ fetched' = fetched \ {cmd}
  /\ IF cmd.opc = "read"
       THEN /\ buf4k' = [buf4k EXCEPT ![cmd.cid] = media[cmd.lba]]
            /\ hd' = [hd EXCEPT ![cmd.req].served = TRUE,
                                ![cmd.req].val = media[cmd.lba]]
            /\ media' = media
       ELSE /\ media' = [media EXCEPT ![cmd.lba] = buf4k[cmd.cid]]
            /\ hd' = [hd EXCEPT ![cmd.req].served = TRUE]
            /\ buf4k' = buf4k
  /\ cqe' = [cqe EXCEPT ![dev_cq_tail] = [cid |-> cmd.cid, p |-> dev_phase]]
  /\ dev_cq_tail' = Succ(dev_cq_tail)
  /\ dev_phase' = IF dev_cq_tail + 1 = QD THEN 1 - dev_phase ELSE dev_phase
  /\ UNCHANGED <<driverVars, sq_db, cq_db, pc, cur, ubuf, dev_sq_head>>

-----------------------------------------------------------------------------
Next ==
  \/ \E r \in Req, l \in Lba: nvme_read_req(r, l)
  \/ \E r \in Req, l \in Lba, d \in Data: nvme_write_req(r, l, d)
  \/ new_sqe_block
  \/ new_sqe
  \/ \E r \in Req: nvme_check_done(r)
  \/ \E r \in Req: nvme_check_poll(r)
  \/ \E r \in Req: leave(r)
  \/ check_cq_entry
  \/ check_cq_exit
  \/ dev_fetch
  \/ \E cmd \in fetched: dev_complete(cmd)

Spec == Init /\ [][Next]_vars

-----------------------------------------------------------------------------
(* Properties *)

\* The variables stay in range: ring positions inside the rings, flags,
\* entries and buffers of the right kind.
TypeOK ==
  /\ sq_tail \in Cid /\ cq_head \in Cid /\ cq_phase \in 0..1
  /\ done_flag \in [Cid -> 0..2]
  /\ rbuf \in [Cid -> Req \cup {NoReq}]
  /\ sqe \in [Cid -> Sqe]
  /\ buf4k \in [Cid -> Data]
  /\ cqe \in [Cid -> [cid: Cid, p: 0..1]]
  /\ sq_db \in Cid /\ cq_db \in Cid
  /\ pc \in {"free", "new", "cq"} /\ cur \in Req \cup {NoReq}
  /\ hd \in [Req -> Handle]
  /\ ubuf \in [Req -> Data]
  /\ dev_sq_head \in Cid /\ dev_cq_tail \in Cid /\ dev_phase \in 0..1
  /\ fetched \in SUBSET Cmd
  /\ media \in [Lba -> Data]

\* i is in the half-open ring interval from a to b (empty when a = b).
InRing(i, a, b) == IF a <= b THEN a <= i /\ i < b ELSE a <= i \/ i < b

InSq(c) == InRing(c, dev_sq_head, sq_tail)           \* not yet fetched
InDev(c) == \E cmd \in fetched: cmd.cid = c          \* being executed
InCq(i) == InRing(i, cq_head, dev_cq_tail)           \* entry not yet consumed
Completed(c) == \E i \in Cid: InCq(i) /\ cqe[i].cid = c

\* The submission ring holds QD unfetched commands, which the controller
\* cannot tell from none: head and doorbell are equal.
SqWrapped == /\ dev_sq_head = sq_tail
             /\ \A c \in Cid: done_flag[c] = 0
             /\ fetched = {}
             /\ cq_head = dev_cq_tail

\* The phase test of check_cq (nvme.cc:308, 367) holds exactly when the
\* controller has posted an entry that check_cq has not consumed: no
\* completion is missed and none is processed twice when the ring wraps.
PhaseTag == (cqe[cq_head].p = cq_phase) <=> (cq_head # dev_cq_tail)

\* A command whose done_flag is 0 is in exactly one of three places: the
\* submission ring, the controller, the completion ring (unless the ring
\* wrapped onto itself); a command whose done_flag is not 0 is in none.  So
\* new_sqe never overwrites an entry or reuses a CID that is still in use.
OnePlace ==
  \/ SqWrapped
  \/ /\ \A c \in Cid: done_flag[c] = 0 <=> InSq(c) \/ InDev(c) \/ Completed(c)
     /\ \A c \in Cid: /\ ~(InSq(c) /\ InDev(c))
                      /\ ~(InSq(c) /\ Completed(c))
                      /\ ~(InDev(c) /\ Completed(c))
     /\ \A x, y \in fetched: x.cid = y.cid => x = y
     /\ \A i, j \in Cid: InCq(i) /\ InCq(j) /\ cqe[i].cid = cqe[j].cid => i = j

\* When nvme_check(rid) returns 1, the command it was called for has been
\* executed and, for a read, the caller's buffer holds what the controller
\* transferred, although the CID may have been reused by another request
\* between the completion and the call.
DoneMeansMine ==
  \A r \in Req:
    hd[r].st = "wait" /\ done_flag[hd[r].cid] = 1
      => hd[r].served /\ (hd[r].opc = "read" => ubuf[r] = hd[r].val)

\* check_cq copies only into the buffer of a read that is still being waited
\* for: never into the buffer of a request that has returned to its caller.
NoLateCopy ==
  \A c \in Cid:
    done_flag[c] = 0 /\ rbuf[c] # NoReq
      => hd[rbuf[c]].st = "wait" /\ hd[rbuf[c]].cid = c

\* Until the controller has executed a write, the DMA page of its CID holds
\* the data the caller of nvme_write_req passed.
WriteIntegrity ==
  \A c \in Cid:
    done_flag[c] = 0 /\ sqe[c].opc = "write" /\ ~hd[sqe[c].req].served
      => buf4k[c] = hd[sqe[c].req].val

\* With fewer than QD requests outstanding the submission ring never wraps
\* onto itself.  new_sqe does not check it (it allows QD outstanding).
SqNeverWraps == Cardinality(Req) < QD => ~SqWrapped

\* With fewer than QD requests outstanding the controller never waits for
\* room in the completion ring, even while check_cq has consumed entries it
\* has not yet acknowledged with the doorbell.
CqHasRoom == Cardinality(Req) < QD => (fetched # {} => Succ(dev_cq_tail) # cq_db)

\* The code that holds the queue pair runs on; a ULT that waits keeps calling
\* nvme_check (read_impl and write_impl poll in a loop, and the scheduler runs
\* every ready ULT); the controller fetches and executes what it is given.
Fairness ==
  /\ WF_vars(new_sqe_block \/ new_sqe \/ check_cq_entry \/ check_cq_exit)
  /\ \A r \in Req: WF_vars(nvme_check_poll(r))
  /\ WF_vars(dev_fetch)
  /\ \A c \in Cid: WF_vars(\E cmd \in fetched: cmd.cid = c /\ dev_complete(cmd))

FairSpec == Spec /\ Fairness

\* A request that is waited for is eventually marked done: commands, doorbells
\* and completions are not lost, and the loops of new_sqe and check_cq end.
EventuallyDone ==
  \A r \in Req:
    (hd[r].st = "wait" /\ done_flag[hd[r].cid] = 0)
      ~> (hd[r].st # "wait" \/ done_flag[hd[r].cid] = 1)

-----------------------------------------------------------------------------
(* The inductive invariant behind the safety properties. *)

\* Who is inside nvme_read_req, nvme_write_req or check_cq, and that outside
\* check_cq the CQ doorbell is up to date.
SectionInv ==
  /\ sq_db = sq_tail
  /\ pc = "free" => cur = NoReq
  /\ pc = "new" => cur \in Req
  /\ pc # "cq" => cq_db = cq_head
  /\ \A r \in Req: hd[r].st = "req" <=> r = cur
  /\ \A r \in Req: hd[r].st = "req" => ~hd[r].served

\* The controller has written this pass's phase below its tail and the other
\* one above it; the driver is on the same pass or one behind.
PhaseInv ==
  /\ \A i \in Cid: cqe[i].p = IF i < dev_cq_tail THEN dev_phase ELSE 1 - dev_phase
  /\ IF cq_phase = dev_phase THEN cq_head <= dev_cq_tail
                             ELSE dev_cq_tail < cq_head
  /\ cq_head = dev_cq_tail \/ InRing(cq_head, cq_db, dev_cq_tail)

\* An outstanding command belongs to the handle that waits for it, and the
\* controller's copy agrees with the entry.
Link(c) ==
  LET r == sqe[c].req
  IN  /\ r \in Req /\ hd[r].st \in {"wait", "orphan"} /\ hd[r].cid = c
      /\ hd[r].opc = sqe[c].opc /\ hd[r].lba = sqe[c].lba
      /\ rbuf[c] = IF sqe[c].opc = "read" THEN r ELSE NoReq
      /\ hd[r].served <=> Completed(c)
      /\ sqe[c].opc = "write" /\ ~hd[r].served => buf4k[c] = hd[r].val
      /\ sqe[c].opc = "read" /\ hd[r].served => buf4k[c] = hd[r].val
LinkInv ==
  /\ \A c \in Cid: done_flag[c] = 0 => Link(c)
  /\ \A cmd \in fetched: /\ cmd.req = sqe[cmd.cid].req
                         /\ cmd.opc = sqe[cmd.cid].opc
                         /\ cmd.lba = sqe[cmd.cid].lba

\* A submitted request is outstanding under its CID, or it was executed and
\* its data delivered.
WaitInv ==
  /\ \A r \in Req: hd[r].st = "wait" =>
       \/ done_flag[hd[r].cid] = 0 /\ sqe[hd[r].cid].req = r
       \/ hd[r].served /\ (hd[r].opc = "read" => ubuf[r] = hd[r].val)
  /\ \A r \in Req: hd[r].st = "orphan" =>
       /\ done_flag[hd[r].cid] = 0 /\ sqe[hd[r].cid].req = r
       /\ hd[r].opc = "write"

\* Entries check_cq has consumed but not yet acknowledged: their requests are
\* distinct from each other and from the outstanding ones, since nobody can
\* submit before check_cq has left its loop.
Unacked(i) == InRing(i, cq_db, cq_head)
ReqAt(i) == sqe[cqe[i].cid].req
AckInv ==
  /\ \A i \in Cid: Unacked(i) =>
       /\ ReqAt(i) \in Req
       /\ \A c \in Cid: done_flag[c] = 0 => sqe[c].req # ReqAt(i)
  /\ \A i, j \in Cid: Unacked(i) /\ Unacked(j) /\ ReqAt(i) = ReqAt(j) => i = j

\* The conjunction is preserved by every step (NvmeQPProofs), also when the
\* submission ring wraps onto itself.
IInv == /\ TypeOK /\ SectionInv /\ PhaseInv /\ OnePlace
        /\ LinkInv /\ WaitInv /\ AckInv

-----------------------------------------------------------------------------
(* Refinement: the queue pair implements BlockService. *)

\* A request is outstanding while the entry of its CID is its own.
Outstanding(r) == done_flag[hd[r].cid] = 0 /\ sqe[hd[r].cid].req = r

ReqState(h, outstanding) ==
  CASE h.st \in {"idle", "req"} -> "idle"
    [] h.st = "wait" /\ ~h.served -> "issued"
    [] h.st = "wait" /\ h.served /\ outstanding -> "executed"
    [] h.st = "wait" /\ h.served /\ ~outstanding -> "done"
    [] h.st = "orphan" /\ ~h.served -> "left"
    [] h.st = "orphan" /\ h.served -> "leftExecuted"

Abs(h, outstanding) ==
  IF h.st \in {"idle", "req"} THEN [st |-> "idle"]
  ELSE [st |-> ReqState(h, outstanding), opc |-> h.opc, lba |-> h.lba, val |-> h.val]

AbsReq == [r \in Req |-> Abs(hd[r], Outstanding(r))]

BS == INSTANCE BlockService WITH req <- AbsReq, out <- ubuf, drive <- media

\* Rings, CIDs, phase tags and doorbells implement the request service: each
\* request takes effect once, between its submission and its report, and a
\* reported read has delivered what it read.
ImplementsBlockService == BS!BSSpec
=============================================================================
