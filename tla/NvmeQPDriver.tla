---------------------------- MODULE NvmeQPDriver ----------------------------
(***************************************************************************)
(* The driver's steps preserve the inductive invariant of NvmeQP, for      *)
(* every ring size, every set of requests, every drive and every content.  *)
(***************************************************************************)
EXTENDS NvmeQP, TLAPS

USE ZenonT(60)

-----------------------------------------------------------------------------
(* Ring arithmetic *)

\* The index after i, as the code computes it with a modulo or a wrap test.
LEMMA SuccValue ==
  ASSUME NEW i \in Cid
  PROVE  Succ(i) \in Cid /\ Succ(i) = IF i + 1 = QD THEN 0 ELSE i + 1
<1>. USE QDAssumption DEF Cid, Succ
<1>1. CASE i + 1 = QD
  <2>1. (i + 1) % QD = 0
    BY <1>1, SMTT(60)
  <2>. QED
    BY <2>1, <1>1, SMTT(60)
<1>2. CASE i + 1 < QD
  <2>1. (i + 1) % QD = i + 1
    BY <1>2, SMTT(60)
  <2>. QED
    BY <2>1, <1>2, SMTT(60)
<1>. QED
  BY <1>1, <1>2, SMTT(60)

\* Advancing the end of an interval adds the old end.
LEMMA RingPush ==
  ASSUME NEW a \in Cid, NEW b \in Cid, Succ(b) # a, NEW i \in Cid
  PROVE  InRing(i, a, Succ(b)) <=> InRing(i, a, b) \/ i = b
BY SuccValue, QDAssumption, SMTT(60) DEF InRing, Cid

\* Advancing the beginning of a non-empty interval removes the old beginning.
LEMMA RingPop ==
  ASSUME NEW a \in Cid, NEW b \in Cid, a # b, NEW i \in Cid
  PROVE  InRing(i, Succ(a), b) <=> InRing(i, a, b) /\ i # a
BY SuccValue, QDAssumption, SMTT(60) DEF InRing, Cid

\* The beginning of an interval is in it unless it is empty; the end is not.
LEMMA RingEnds ==
  ASSUME NEW a \in Cid, NEW b \in Cid
  PROVE  (InRing(a, a, b) <=> a # b) /\ ~InRing(b, a, b)
BY SMTT(60) DEF InRing, Cid

\* An interval one short of the ring misses only its end.
LEMMA RingFull ==
  ASSUME NEW a \in Cid, NEW b \in Cid, Succ(b) = a, NEW i \in Cid, i # b
  PROVE  InRing(i, a, b)
BY SuccValue, QDAssumption, SMTT(60) DEF InRing, Cid

\* A point of an interval splits it.
LEMMA RingSplit ==
  ASSUME NEW a \in Cid, NEW b \in Cid, NEW h \in Cid, h = b \/ InRing(h, a, b),
         NEW i \in Cid
  PROVE  InRing(i, a, b) <=> InRing(i, a, h) \/ InRing(i, h, b)
BY QDAssumption, SMTT(60) DEF InRing, Cid

-----------------------------------------------------------------------------
(* Commands and their owners *)

\* The owner of an outstanding command is the handle with its CID.
LEMMA Owner ==
  ASSUME LinkInv, NEW c \in Cid, done_flag[c] = 0
  PROVE  Link(c) /\ sqe[c].req \in Req /\ hd[sqe[c].req].cid = c
BY DEF LinkInv, Link

\* A step that leaves the rings, the pages and what outstanding commands say
\* of their owners alone keeps the links.
LEMMA LinkFrame ==
  ASSUME LinkInv,
         UNCHANGED <<done_flag, sqe, rbuf, buf4k, cqe, cq_head, dev_cq_tail, fetched>>,
         \A c \in Cid: done_flag[c] = 0 =>
           LET r == sqe[c].req
           IN  /\ hd'[r].st \in {"wait", "orphan"} /\ hd'[r].cid = hd[r].cid
               /\ hd'[r].opc = hd[r].opc /\ hd'[r].served = hd[r].served
               /\ hd'[r].val = hd[r].val /\ hd'[r].lba = hd[r].lba
  PROVE  LinkInv'
<1>1. \A c \in Cid: Completed(c)' <=> Completed(c)
  BY DEF Completed, InCq
<1>2. ASSUME NEW c \in Cid, done_flag'[c] = 0 PROVE Link(c)'
  <2>1. done_flag[c] = 0 /\ Link(c)
    BY <1>2, Owner
  <2>. QED
    BY <2>1, <1>1 DEF Link
<1>. QED
  BY <1>2 DEF LinkInv

-----------------------------------------------------------------------------
(* The invariant holds initially *)

\* The default values have their types.
LEMMA TypeDefaults == IdleHandle \in Handle /\ EmptySqe \in Sqe /\ AnyData \in Data
<1>1. (CHOOSE l \in Lba: TRUE) \in Lba /\ (CHOOSE d \in Data: TRUE) \in Data
  BY DataAssumption
<1>2. 0 \in Cid
  BY QDAssumption, SMTT(60) DEF Cid
<1>. QED
  BY <1>1, <1>2 DEF IdleHandle, Handle, EmptySqe, Sqe, AnyData, Opc

\* The queue pair the constructor builds satisfies the invariant.
LEMMA InitInv == Init => IInv
<1>. SUFFICES ASSUME Init PROVE IInv
  OBVIOUS
<1>0. 0 \in Cid
  BY QDAssumption, SMTT(60) DEF Cid
<1>1. TypeOK
  BY <1>0, TypeDefaults, SMTT(60) DEF Init, TypeOK
<1>2. SectionInv
  BY ReqAssumption DEF Init, SectionInv, IdleHandle
<1>3. PhaseInv
  BY QDAssumption, SMTT(60) DEF Init, PhaseInv, InRing, Cid
<1>4. OnePlace
  BY <1>0, SMTT(60) DEF Init, OnePlace, InSq, InDev, InCq, Completed, InRing, Cid
<1>5. LinkInv
  BY SMTT(60) DEF Init, LinkInv, Link
<1>6. WaitInv
  BY DEF Init, WaitInv, IdleHandle
<1>7. AckInv
  BY <1>0, RingEnds, SMTT(60) DEF Init, AckInv, Unacked, InRing, Cid
<1>. QED
  BY <1>1, <1>2, <1>3, <1>4, <1>5, <1>6, <1>7 DEF IInv

-----------------------------------------------------------------------------
(* Every action preserves it *)

\* nvme_read_req and nvme_write_req enter with a fresh handle.
LEMMA EnterInv ==
  ASSUME IInv, NEW r \in Req, NEW opc \in Opc, NEW l \in Lba, NEW d \in Data,
         Enter(r, opc, l, d)
  PROVE  IInv'
<1>. USE DEF IInv, Enter, driverVars, devVars
<1>0. /\ hd' \in [Req -> Handle]
      /\ \A q \in Req: q # r => hd'[q] = hd[q]
      /\ hd'[r].st = "req" /\ ~hd'[r].served
  BY TypeDefaults DEF TypeOK, Handle, IdleHandle
<1>1. TypeOK'
  BY <1>0 DEF TypeOK
<1>2. SectionInv'
  BY <1>0, ReqAssumption DEF SectionInv, TypeOK
<1>3. PhaseInv'
  BY DEF PhaseInv
<1>4. OnePlace'
  BY DEF OnePlace, SqWrapped, InSq, InDev, InCq, Completed
<1>5. LinkInv'
  <2>1. ASSUME NEW c \in Cid, done_flag[c] = 0
        PROVE  /\ hd'[sqe[c].req] = hd[sqe[c].req]
               /\ hd[sqe[c].req].st \in {"wait", "orphan"}
    <3>1. sqe[c].req \in Req /\ hd[sqe[c].req].st \in {"wait", "orphan"}
      BY <2>1, Owner DEF Link
    <3>. QED
      BY <3>1, <1>0
  <2>. QED
    BY <2>1, LinkFrame
<1>6. WaitInv'
  BY <1>0 DEF WaitInv
<1>7. AckInv'
  BY DEF AckInv, Unacked, ReqAt
<1>. QED
  BY <1>1, <1>2, <1>3, <1>4, <1>5, <1>6, <1>7

\* A step that only changes the section or frees handles nothing refers to.
LEMMA NewSqeBlockInv == IInv /\ new_sqe_block => IInv'
<1>. SUFFICES ASSUME IInv, new_sqe_block PROVE IInv'
  OBVIOUS
<1>. USE DEF IInv, new_sqe_block, driverVars, devVars
<1>1. TypeOK'
  BY DEF TypeOK
<1>2. SectionInv'
  BY DEF SectionInv
<1>3. PhaseInv'
  BY DEF PhaseInv
<1>4. OnePlace'
  BY DEF OnePlace, SqWrapped, InSq, InDev, InCq, Completed
<1>5. LinkInv'
  <2>1. \A c \in Cid: done_flag[c] = 0 => hd[sqe[c].req].st \in {"wait", "orphan"}
    BY Owner DEF Link
  <2>. QED
    BY <2>1, LinkFrame
<1>6. WaitInv'
  BY DEF WaitInv
<1>7. AckInv'
  BY DEF AckInv, Unacked, ReqAt
<1>. QED
  BY <1>1, <1>2, <1>3, <1>4, <1>5, <1>6, <1>7

\* nvme_check enters check_cq.
LEMMA CheckPollInv ==
  ASSUME IInv, NEW r \in Req, nvme_check_poll(r)
  PROVE  IInv'
<1>. USE DEF IInv, nvme_check_poll, driverVars, devVars
<1>1. TypeOK'
  BY DEF TypeOK
<1>2. SectionInv'
  BY DEF SectionInv
<1>3. PhaseInv'
  BY DEF PhaseInv
<1>4. OnePlace'
  BY DEF OnePlace, SqWrapped, InSq, InDev, InCq, Completed
<1>5. LinkInv'
  <2>1. \A c \in Cid: done_flag[c] = 0 => hd[sqe[c].req].st \in {"wait", "orphan"}
    BY Owner DEF Link
  <2>. QED
    BY <2>1, LinkFrame
<1>6. WaitInv'
  BY DEF WaitInv
<1>7. AckInv'
  BY DEF AckInv, Unacked, ReqAt
<1>. QED
  BY <1>1, <1>2, <1>3, <1>4, <1>5, <1>6, <1>7

\* nvme_check reports: nothing refers to the handle any more.
LEMMA CheckDoneInv ==
  ASSUME IInv, NEW r \in Req, nvme_check_done(r)
  PROVE  IInv'
<1>. USE DEF IInv, nvme_check_done, driverVars, devVars
<1>0. /\ hd' \in [Req -> Handle]
      /\ \A q \in Req: q # r => hd'[q] = hd[q]
      /\ hd'[r].st = "idle"
  BY TypeDefaults DEF TypeOK, IdleHandle
<1>1. TypeOK'
  BY <1>0 DEF TypeOK
<1>2. SectionInv'
  BY <1>0 DEF SectionInv
<1>3. PhaseInv'
  BY DEF PhaseInv
<1>4. OnePlace'
  BY DEF OnePlace, SqWrapped, InSq, InDev, InCq, Completed
<1>5. LinkInv'
  <2>1. ASSUME NEW c \in Cid, done_flag[c] = 0
        PROVE  /\ hd'[sqe[c].req] = hd[sqe[c].req]
               /\ hd[sqe[c].req].st \in {"wait", "orphan"}
    <3>1. /\ sqe[c].req \in Req /\ hd[sqe[c].req].cid = c
          /\ hd[sqe[c].req].st \in {"wait", "orphan"}
      BY <2>1, Owner DEF Link
    <3>2. sqe[c].req # r
      BY <2>1, <3>1, SMTT(60)
    <3>. QED
      BY <3>1, <3>2, <1>0
  <2>. QED
    BY <2>1, LinkFrame
<1>6. WaitInv'
  BY <1>0 DEF WaitInv
<1>7. AckInv'
  BY DEF AckInv, Unacked, ReqAt
<1>. QED
  BY <1>1, <1>2, <1>3, <1>4, <1>5, <1>6, <1>7

\* write_impl walks away from a request.
LEMMA LeaveInv ==
  ASSUME IInv, NEW r \in Req, leave(r)
  PROVE  IInv'
<1>. USE DEF IInv, leave, driverVars, devVars
<1>0. /\ hd' \in [Req -> Handle]
      /\ \A q \in Req: q # r => hd'[q] = hd[q]
      /\ IF done_flag[hd[r].cid] = 0 /\ sqe[hd[r].cid].req = r
           THEN hd'[r] = [hd[r] EXCEPT !.st = "orphan"]
           ELSE hd'[r].st = "idle"
  BY TypeDefaults DEF TypeOK, IdleHandle, Handle
<1>1. TypeOK'
  BY <1>0 DEF TypeOK
<1>2. SectionInv'
  BY <1>0, SMTT(60) DEF SectionInv
<1>3. PhaseInv'
  BY DEF PhaseInv
<1>4. OnePlace'
  BY DEF OnePlace, SqWrapped, InSq, InDev, InCq, Completed
<1>e. IF Outstanding(r)
        THEN /\ hd'[r].st = "orphan" /\ hd'[r].cid = hd[r].cid /\ hd'[r].opc = hd[r].opc
             /\ hd'[r].served = hd[r].served /\ hd'[r].val = hd[r].val
             /\ hd'[r].lba = hd[r].lba
        ELSE hd'[r].st = "idle"
  BY <1>0, SMTT(30) DEF TypeOK, Handle, Outstanding
<1>5. LinkInv'
  <2>1. ASSUME NEW c \in Cid, done_flag[c] = 0
        PROVE  LET q == sqe[c].req
               IN  /\ hd'[q].st \in {"wait", "orphan"} /\ hd'[q].cid = hd[q].cid
                   /\ hd'[q].opc = hd[q].opc /\ hd'[q].served = hd[q].served
                   /\ hd'[q].val = hd[q].val /\ hd'[q].lba = hd[q].lba
    <3>1. Link(c)
      BY <2>1, Owner
    <3>2. CASE sqe[c].req = r
      <4>1. Outstanding(r)
        BY <3>1, <3>2, <2>1 DEF Link, Outstanding
      <4>. QED
        BY <4>1, <3>2, <1>e
    <3>3. CASE sqe[c].req # r
      BY <3>1, <3>3, <1>0 DEF Link
    <3>. QED
      BY <3>2, <3>3
  <2>. QED
    BY <2>1, LinkFrame
<1>6. WaitInv'
  <2>1. ASSUME NEW q \in Req, q # r
        PROVE  hd'[q] = hd[q]
    BY <2>1, <1>0
  <2>2. hd'[r].st # "wait" /\ (hd'[r].st = "orphan" => Outstanding(r) /\ hd'[r].cid = hd[r].cid
                                                    /\ hd'[r].opc = "write")
    BY <1>e
  <2>3. WaitInv /\ done_flag' = done_flag /\ sqe' = sqe /\ ubuf' = ubuf
    OBVIOUS
  <2>. HIDE DEF IInv, leave
  <2>. QED
    BY <2>1, <2>2, <2>3, SMTT(60) DEF WaitInv, Outstanding
<1>7. AckInv'
  BY DEF AckInv, Unacked, ReqAt
<1>. QED
  BY <1>1, <1>2, <1>3, <1>4, <1>5, <1>6, <1>7

\* The slot at the tail is free, so it is in no place and becomes the newest
\* unfetched one; if every other slot is unfetched the ring wraps.
LEMMA NewSqeInv == IInv /\ new_sqe => IInv'
<1>. SUFFICES ASSUME IInv, new_sqe PROVE IInv'
  OBVIOUS
<1>. USE DEF IInv, new_sqe, Submit, OwnFlag, OwnRbuf, OwnPage, devVars
<1>0. /\ cur \in Req /\ sq_tail \in Cid /\ Succ(sq_tail) \in Cid
      /\ hd[cur].st = "req" /\ hd[cur] \in Handle
  BY SuccValue DEF TypeOK, SectionInv
<1>a. /\ done_flag'[sq_tail] = 0
      /\ \A c \in Cid: c # sq_tail => done_flag'[c] = done_flag[c]
      /\ \A c \in Cid: c # sq_tail => sqe'[c] = sqe[c] /\ rbuf'[c] = rbuf[c]
                                       /\ buf4k'[c] = buf4k[c]
      /\ sqe'[sq_tail] = [opc |-> hd[cur].opc, lba |-> hd[cur].lba, req |-> cur]
      /\ rbuf'[sq_tail] = IF hd[cur].opc = "read" THEN cur ELSE NoReq
      /\ hd[cur].opc = "write" => buf4k'[sq_tail] = hd[cur].val
  BY <1>0 DEF TypeOK
<1>b. /\ hd' \in [Req -> Handle]
      /\ \A q \in Req: q # cur => hd'[q] = hd[q]
      /\ hd'[cur] = [hd[cur] EXCEPT !.st = "wait", !.cid = sq_tail]
  BY <1>0 DEF TypeOK, Handle
<1>1. TypeOK'
  <2>1. sqe' \in [Cid -> Sqe] /\ buf4k' \in [Cid -> Data] /\ rbuf' \in [Cid -> Req \cup {NoReq}]
    BY <1>0 DEF TypeOK, Sqe, Handle
  <2>. QED
    BY <1>0, <1>b, <2>1, SMTT(60) DEF TypeOK
<1>2. SectionInv'
  BY <1>0, <1>b, ReqAssumption, SMTT(60) DEF SectionInv, Handle, TypeOK
<1>3. PhaseInv'
  BY DEF PhaseInv
<1>n. ~SqWrapped
  BY <1>0 DEF SqWrapped
<1>4. OnePlace'
  <2>1. /\ ~InSq(sq_tail) /\ ~InDev(sq_tail) /\ ~Completed(sq_tail)
    BY <1>0, <1>n DEF OnePlace
  <2>2. CASE Succ(sq_tail) = dev_sq_head
    <3>1. \A c \in Cid: c # sq_tail => InSq(c)
      BY <2>2, <1>0, RingFull DEF InSq, TypeOK
    <3>2. \A c \in Cid: done_flag'[c] = 0
      BY <3>1, <1>a, <1>n DEF OnePlace
    <3>3. fetched = {}
      BY <3>1, <2>1, <1>n, SMTT(60) DEF OnePlace, InDev, TypeOK, Cmd
    <3>4. cq_head = dev_cq_tail
      BY <3>1, <2>1, <1>n, RingEnds, SMTT(60) DEF OnePlace, Completed, InCq, TypeOK
    <3>. QED
      BY <2>2, <3>2, <3>3, <3>4 DEF OnePlace, SqWrapped
  <2>3. CASE Succ(sq_tail) # dev_sq_head
    <3>1. \A c \in Cid: InSq(c)' <=> InSq(c) \/ c = sq_tail
      BY <2>3, <1>0, RingPush DEF InSq, TypeOK
    <3>2. \A c \in Cid: (InDev(c)' <=> InDev(c)) /\ (InCq(c)' <=> InCq(c))
      BY DEF InDev, InCq
    <3>3. \A c \in Cid: Completed(c)' <=> Completed(c)
      BY <3>2 DEF Completed
    <3>. QED
      BY <3>1, <3>2, <3>3, <2>1, <1>a, <1>n, SMTT(60) DEF OnePlace
  <2>. QED
    BY <2>2, <2>3
<1>u. /\ UNCHANGED <<cqe, cq_head, dev_cq_tail, fetched, ubuf>>
      /\ LinkInv /\ WaitInv /\ TypeOK
  OBVIOUS
<1>v. /\ hd'[cur].st = "wait" /\ hd'[cur].cid = sq_tail /\ hd'[cur].opc = hd[cur].opc
      /\ hd'[cur].served = hd[cur].served /\ hd'[cur].val = hd[cur].val
      /\ hd'[cur].lba = hd[cur].lba
  BY <1>0, <1>b DEF Handle
<1>5. LinkInv'
  <2>0. \A c \in Cid: Completed(c)' <=> Completed(c)
    BY DEF Completed, InCq
  <2>1. ~Completed(sq_tail)
    BY <1>0, <1>n DEF OnePlace
  <2>2. \A cmd \in fetched: cmd.cid # sq_tail
    BY <1>0, <1>n DEF OnePlace, InDev
  <2>4. ~hd[cur].served
    BY <1>0 DEF SectionInv, Handle
  <2>. HIDE DEF IInv, new_sqe
  <2>6. ASSUME NEW c \in Cid, c = sq_tail
        PROVE  Link(c)'
    <3>1. /\ sqe'[c].req = cur /\ sqe'[c].opc = hd[cur].opc /\ sqe'[c].lba = hd[cur].lba
          /\ rbuf'[c] = IF hd[cur].opc = "read" THEN cur ELSE NoReq
          /\ hd[cur].opc = "write" => buf4k'[c] = hd[cur].val
      BY <2>6, <1>a, SMTT(60)
    <3>2. ~hd'[cur].served /\ ~Completed(c)'
      BY <2>0, <2>1, <2>4, <2>6, <1>v
    <3>. QED
      BY <3>1, <3>2, <2>6, <1>v, <1>0 DEF Link
  <2>7. ASSUME NEW c \in Cid, c # sq_tail, done_flag'[c] = 0
        PROVE  Link(c)'
    <3>1. Link(c) /\ sqe'[c] = sqe[c] /\ rbuf'[c] = rbuf[c] /\ buf4k'[c] = buf4k[c]
      BY <2>7, <1>a, <1>u, Owner
    <3>2. sqe[c].req \in Req /\ sqe[c].req # cur
      BY <3>1, <1>0 DEF Link
    <3>3. hd'[sqe[c].req] = hd[sqe[c].req]
      BY <3>2, <1>b
    <3>. QED
      BY <3>1, <3>3, <2>0 DEF Link
  <2>8. ASSUME NEW cmd \in fetched
        PROVE  cmd.cid \in Cid /\ sqe'[cmd.cid] = sqe[cmd.cid]
    BY <2>2, <1>a, <1>u DEF TypeOK, Cmd
  <2>. QED
    BY <2>6, <2>7, <2>8, <1>u DEF LinkInv
<1>6. WaitInv'
  <2>2. ASSUME NEW q \in Req, q # cur
        PROVE  hd'[q] = hd[q] /\ hd[q].cid \in Cid
    BY <2>2, <1>b DEF TypeOK, Handle
  <2>3. ASSUME NEW c \in Cid, done_flag[c] = 0
        PROVE  done_flag'[c] = 0 /\ sqe'[c] = sqe[c]
    BY <2>3, <1>0, <1>a
  <2>4. done_flag'[sq_tail] = 0 /\ sqe'[sq_tail].req = cur
    BY <1>a, SMTT(60)
  <2>. HIDE DEF IInv, new_sqe
  <2>5. ASSUME NEW q \in Req, hd'[q].st = "wait"
        PROVE  \/ done_flag'[hd'[q].cid] = 0 /\ sqe'[hd'[q].cid].req = q
               \/ hd'[q].served /\ (hd'[q].opc = "read" => ubuf'[q] = hd'[q].val)
    <3>1. CASE q = cur
      BY <3>1, <2>4, <1>v
    <3>2. CASE q # cur
      <4>1. \/ done_flag[hd[q].cid] = 0 /\ sqe[hd[q].cid].req = q
            \/ hd[q].served /\ (hd[q].opc = "read" => ubuf[q] = hd[q].val)
        BY <3>2, <2>2, <2>5, <1>u, SMTT(60) DEF WaitInv
      <4>. QED
        BY <4>1, <3>2, <2>2, <2>3, <1>u
    <3>. QED
      BY <3>1, <3>2
  <2>6. ASSUME NEW q \in Req, hd'[q].st = "orphan"
        PROVE  /\ done_flag'[hd'[q].cid] = 0 /\ sqe'[hd'[q].cid].req = q
               /\ hd'[q].opc = "write"
    <3>1. q # cur
      BY <2>6, <1>v
    <3>2. /\ done_flag[hd[q].cid] = 0 /\ sqe[hd[q].cid].req = q
          /\ hd[q].opc = "write"
      BY <3>1, <2>2, <2>6, <1>u DEF WaitInv
    <3>. QED
      BY <3>1, <3>2, <2>2, <2>3
  <2>. QED
    BY <2>5, <2>6 DEF WaitInv
<1>7. AckInv'
  <2>1. \A i \in Cid: ~Unacked(i)'
    BY RingEnds, SMTT(60) DEF Unacked, SectionInv, TypeOK, InRing, Cid
  <2>. QED
    BY <2>1 DEF AckInv
<1>. QED
  BY <1>1, <1>2, <1>3, <1>4, <1>5, <1>6, <1>7

\* The entry at cq_head is the oldest unconsumed one; its command leaves the
\* completion ring, and a read's data reaches the handle that waits for it.
LEMMA CheckCqEntryInv == IInv /\ check_cq_entry => IInv'
<1>. SUFFICES ASSUME IInv, check_cq_entry PROVE IInv'
  OBVIOUS
<1>. DEFINE k == cqe[cq_head].cid
            o == sqe[k].req
<1>. USE DEF IInv
<1>u. /\ cqe[cq_head].p = cq_phase
      /\ cq_head' = Succ(cq_head)
      /\ cq_phase' = IF cq_head + 1 = QD THEN 1 - cq_phase ELSE cq_phase
      /\ UNCHANGED <<sq_tail, rbuf, sqe, buf4k, cqe, sq_db, cq_db, pc, cur>>
      /\ UNCHANGED <<dev_sq_head, dev_cq_tail, dev_phase, fetched, media>>
      /\ pc = "cq"
  BY DEF check_cq_entry, Consume, Copied, HeadCid, NextPhase, devVars
<1>d. /\ ubuf' = IF rbuf[k] # NoReq THEN [ubuf EXCEPT ![rbuf[k]] = buf4k[k]] ELSE ubuf
      /\ done_flag' = [done_flag EXCEPT ![k] = 1]
      /\ hd' = [r \in Req |-> IF hd[r].st = "orphan" /\ hd[r].cid = k
                                THEN IdleHandle ELSE hd[r]]
  BY DEF check_cq_entry, Consume, Copied, HeadCid, NextPhase
<1>0. /\ cq_head \in Cid /\ k \in Cid /\ dev_cq_tail \in Cid /\ Succ(cq_head) \in Cid
      /\ cq_head # dev_cq_tail
  <2>1. cq_head \in Cid /\ dev_cq_tail \in Cid /\ cqe[cq_head] \in [cid: Cid, p: 0..1]
    BY DEF TypeOK
  <2>2. cq_head # dev_cq_tail
    BY <2>1, <1>u, SMTT(60) DEF PhaseInv, TypeOK, Cid
  <2>. QED
    BY <2>1, <2>2, SuccValue
<1>k. k = cqe[cq_head].cid /\ o = sqe[k].req
  OBVIOUS
<1>. HIDE DEF k, o
<1>a. /\ InCq(cq_head)
      /\ \A i \in Cid: InCq(i)' <=> InCq(i) /\ i # cq_head
  BY <1>0, <1>u, RingEnds, RingPop DEF InCq
<1>n. ~SqWrapped
  BY <1>0 DEF SqWrapped
<1>b. /\ Completed(k) /\ done_flag[k] = 0 /\ ~InSq(k) /\ ~InDev(k)
      /\ o \in Req /\ hd[o].cid = k /\ hd[o].served /\ hd[o].st \in {"wait", "orphan"}
  <2>1. Completed(k)
    BY <1>0, <1>a, <1>k DEF Completed
  <2>2. done_flag[k] = 0 /\ ~InSq(k) /\ ~InDev(k)
    BY <2>1, <1>n, <1>0 DEF OnePlace
  <2>. QED
    BY <2>1, <2>2, <1>0, <1>k DEF LinkInv, Link
<1>c. /\ done_flag'[k] = 1
      /\ \A c \in Cid: c # k => done_flag'[c] = done_flag[c]
      /\ \A r \in Req: r # o => hd'[r] = hd[r]
      /\ hd[o].st = "wait" => hd'[o] = hd[o]
      /\ hd[o].st = "orphan" => hd'[o] = IdleHandle
      /\ \A r \in Req: r # o => ubuf'[r] = ubuf[r]
      /\ hd[o].opc = "read" => ubuf'[o] = hd[o].val
  <2>1. \A r \in Req: r # o => ~(hd[r].st = "orphan" /\ hd[r].cid = k)
    BY <1>b, <1>k DEF WaitInv
  <2>2. /\ hd[o].opc = sqe[k].opc
        /\ rbuf[k] = IF sqe[k].opc = "read" THEN o ELSE NoReq
        /\ sqe[k].opc = "read" => buf4k[k] = hd[o].val
    <3>1. /\ hd[sqe[k].req].opc = sqe[k].opc
          /\ rbuf[k] = IF sqe[k].opc = "read" THEN sqe[k].req ELSE NoReq
          /\ sqe[k].opc = "read" /\ hd[sqe[k].req].served
               => buf4k[k] = hd[sqe[k].req].val
      BY <1>0, <1>b DEF LinkInv, Link
    <3>. QED
      BY <3>1, <1>b, <1>k
  <2>3. o # NoReq /\ o \in Req
    BY <1>b, ReqAssumption
  <2>4. /\ done_flag'[k] = 1
        /\ \A c \in Cid: c # k => done_flag'[c] = done_flag[c]
    BY <1>0, <1>d DEF TypeOK
  <2>5. /\ \A r \in Req: r # o => hd'[r] = hd[r]
        /\ hd[o].st = "wait" => hd'[o] = hd[o]
        /\ hd[o].st = "orphan" => hd'[o] = IdleHandle
    BY <2>1, <2>3, <1>b, <1>d DEF TypeOK
  <2>6. /\ \A r \in Req: r # o => ubuf'[r] = ubuf[r]
        /\ hd[o].opc = "read" => ubuf'[o] = hd[o].val
    BY <2>2, <2>3, <1>d DEF TypeOK
  <2>. QED
    BY <2>4, <2>5, <2>6
<1>i. hd[o].st = "orphan" => hd'[o].st = "idle"
  BY <1>c, SMTT(60) DEF IdleHandle
<1>e. \A c \in Cid: Completed(c)' <=> Completed(c) /\ c # k
  <2>1. \A i \in Cid: InCq(i) /\ cqe[i].cid = k => i = cq_head
    BY <1>a, <1>0, <1>k, <1>n DEF OnePlace
  <2>. QED
    BY <2>1, <1>a, <1>0, <1>k, <1>u DEF Completed
<1>1. TypeOK'
  <2>1. hd' \in [Req -> Handle]
    BY TypeDefaults, <1>d DEF TypeOK
  <2>2. ubuf' \in [Req -> Data]
    BY <1>0, <1>d DEF TypeOK
  <2>3. done_flag' \in [Cid -> 0..2]
    BY <1>0, <1>d, SMTT(60) DEF TypeOK
  <2>. QED
    BY <2>1, <2>2, <2>3, <1>0, <1>u, SMTT(60) DEF TypeOK
<1>2. SectionInv'
  <2>1. \A r \in Req: hd'[r].st = "req" <=> hd[r].st = "req"
    BY <1>b, <1>c, SMTT(60) DEF IdleHandle
  <2>2. \A r \in Req: hd'[r].st = "req" => hd'[r] = hd[r]
    BY <1>b, <1>c, SMTT(60) DEF IdleHandle
  <2>. QED
    BY <2>1, <2>2, <1>u DEF SectionInv
<1>3. PhaseInv'
  <2>1. \A i \in Cid: cqe'[i].p = IF i < dev_cq_tail' THEN dev_phase' ELSE 1 - dev_phase'
    BY <1>u DEF PhaseInv
  <2>2. cq_head \in Nat /\ dev_cq_tail \in Nat /\ cq_phase \in 0..1 /\ dev_phase \in 0..1
        /\ cq_head < QD /\ dev_cq_tail < QD
    BY <1>0, QDAssumption, SMTT(60) DEF TypeOK, Cid
  <2>3. cq_head' = IF cq_head + 1 = QD THEN 0 ELSE cq_head + 1
    BY <1>u, <1>0, SuccValue
  <2>4. IF cq_phase = dev_phase THEN cq_head <= dev_cq_tail ELSE dev_cq_tail < cq_head
    BY DEF PhaseInv
  <2>5. IF cq_phase' = dev_phase THEN cq_head' <= dev_cq_tail ELSE dev_cq_tail < cq_head'
    BY <2>2, <2>3, <2>4, <1>0, <1>u, QDAssumption, SMTT(60)
  <2>6. cq_head' = dev_cq_tail \/ InRing(cq_head', cq_db, dev_cq_tail)
    <3>1. InRing(cq_head, cq_db, dev_cq_tail) /\ cq_db \in 0..QD-1
      BY <1>0 DEF PhaseInv, TypeOK, Cid
    <3>. QED
      BY <3>1, <2>2, <2>3, <1>0, QDAssumption, SMTT(60) DEF InRing
  <2>. QED
    BY <2>1, <2>5, <2>6, <1>u DEF PhaseInv
<1>4. OnePlace'
  <2>1. \A c \in Cid: (InSq(c)' <=> InSq(c)) /\ (InDev(c)' <=> InDev(c))
    BY <1>u DEF InSq, InDev
  <2>3. \A c \in Cid: done_flag'[c] = 0 <=> done_flag[c] = 0 /\ c # k
    BY <1>c, SMTT(60)
  <2>4. OnePlace /\ ~SqWrapped
    BY <1>n
  <2>5. \A c \in Cid: done_flag'[c] = 0 <=> InSq(c)' \/ InDev(c)' \/ Completed(c)'
    BY <2>1, <1>e, <2>3, <2>4, <1>b DEF OnePlace
  <2>6. \A c \in Cid: ~(InSq(c)' /\ InDev(c)') /\ ~(InSq(c)' /\ Completed(c)')
                      /\ ~(InDev(c)' /\ Completed(c)')
    BY <2>1, <1>e, <2>4 DEF OnePlace
  <2>7. \A x, y \in fetched': x.cid = y.cid => x = y
    BY <2>4, <1>u DEF OnePlace
  <2>8. \A i, j \in Cid: InCq(i)' /\ InCq(j)' /\ cqe'[i].cid = cqe'[j].cid => i = j
    BY <2>4, <1>a, <1>u DEF OnePlace
  <2>. HIDE DEF IInv
  <2>. QED
    BY <2>5, <2>6, <2>7, <2>8 DEF OnePlace
<1>5. LinkInv'
  <2>2. \A c \in Cid: done_flag'[c] = 0 => c # k /\ done_flag[c] = 0
                                           /\ hd'[sqe[c].req] = hd[sqe[c].req]
    <3>. SUFFICES ASSUME NEW c \in Cid, done_flag'[c] = 0
                  PROVE  c # k /\ done_flag[c] = 0 /\ hd'[sqe[c].req] = hd[sqe[c].req]
      OBVIOUS
    <3>1. c # k /\ done_flag[c] = 0
      BY <1>c, SMTT(60)
    <3>2. sqe[c].req \in Req /\ hd[sqe[c].req].cid = c
      BY <3>1, Owner
    <3>3. sqe[c].req # o
      BY <3>1, <3>2, <1>b
    <3>. QED
      BY <3>1, <3>2, <3>3, <1>c
  <2>3. ASSUME NEW c \in Cid, done_flag'[c] = 0 PROVE Link(c)'
    <3>1. Link(c) /\ (Completed(c)' <=> Completed(c))
      BY <1>e, <2>2, <2>3, Owner
    <3>. QED
      BY <3>1, <2>2, <2>3, <1>u DEF Link
  <2>. QED
    BY <2>3, <1>u DEF LinkInv
<1>6. WaitInv'
  <2>1. ASSUME NEW r \in Req, hd'[r].st = "wait"
        PROVE  \/ done_flag'[hd'[r].cid] = 0 /\ sqe'[hd'[r].cid].req = r
               \/ hd'[r].served /\ (hd'[r].opc = "read" => ubuf'[r] = hd'[r].val)
    <3>1. CASE r = o
      <4>1. hd'[o] = hd[o] /\ hd[o].served /\ (hd[o].opc = "read" => ubuf'[o] = hd[o].val)
        <5>1. hd[o].st = "wait"
          BY <3>1, <2>1, <1>b, <1>i
        <5>. QED
          BY <5>1, <1>b, <1>c
      <4>. QED
        BY <4>1, <3>1
    <3>2. CASE r # o
      <4>1. hd'[r] = hd[r] /\ ubuf'[r] = ubuf[r] /\ hd[r].cid \in Cid
        BY <3>2, <1>c DEF TypeOK, Handle
      <4>2. hd[r].cid = k => ~(sqe[hd[r].cid].req = r)
        BY <3>2, <1>k
      <4>3. \/ done_flag[hd[r].cid] = 0 /\ sqe[hd[r].cid].req = r
            \/ hd[r].served /\ (hd[r].opc = "read" => ubuf[r] = hd[r].val)
        <5>1. hd[r].st = "wait" /\ WaitInv
          BY <4>1, <2>1
        <5>. HIDE DEF IInv
        <5>. QED
          BY <5>1 DEF WaitInv
      <4>4. done_flag[hd[r].cid] = 0 /\ sqe[hd[r].cid].req = r
              => done_flag'[hd[r].cid] = 0 /\ sqe'[hd[r].cid].req = r
        BY <4>1, <4>2, <1>c, <1>u
      <4>. QED
        BY <4>1, <4>3, <4>4
    <3>. QED
      BY <3>1, <3>2
  <2>2. ASSUME NEW r \in Req, hd'[r].st = "orphan"
        PROVE  /\ done_flag'[hd'[r].cid] = 0 /\ sqe'[hd'[r].cid].req = r
               /\ hd'[r].opc = "write"
    <3>0. hd'[o].st # "orphan"
      BY <1>b, <1>c, <1>i
    <3>1. r # o
      BY <3>0, <2>2
    <3>2. hd'[r] = hd[r] /\ hd[r].cid \in Cid
      BY <3>1, <1>c DEF TypeOK, Handle
    <3>3. done_flag[hd[r].cid] = 0 /\ sqe[hd[r].cid].req = r /\ hd[r].opc = "write"
      BY <3>2, <2>2 DEF WaitInv
    <3>4. hd[r].cid # k
      BY <3>1, <3>3, <1>k
    <3>. QED
      BY <3>2, <3>3, <3>4, <1>c, <1>u
  <2>. QED
    BY <2>1, <2>2 DEF WaitInv
<1>7. AckInv'
  <2>0. InRing(cq_head, cq_db, dev_cq_tail) /\ cq_db \in Cid
    BY <1>0 DEF PhaseInv, TypeOK
  <2>1. Succ(cq_head) # cq_db
    BY <2>0, <1>0, SuccValue, QDAssumption, SMTT(60) DEF InRing, Cid
  <2>2. \A i \in Cid: Unacked(i)' <=> Unacked(i) \/ i = cq_head
    BY <2>0, <2>1, <1>0, <1>u, RingPush DEF Unacked
  <2>3. \A i \in Cid: ReqAt(i)' = ReqAt(i)
    BY <1>u DEF ReqAt
  <2>4. ReqAt(cq_head) = o
    BY <1>k DEF ReqAt
  <2>5. \A c \in Cid: done_flag'[c] = 0 => done_flag[c] = 0 /\ sqe[c].req # o
    <3>. SUFFICES ASSUME NEW c \in Cid, done_flag'[c] = 0
                  PROVE  done_flag[c] = 0 /\ sqe[c].req # o
      OBVIOUS
    <3>1. c # k /\ done_flag[c] = 0
      BY <1>c, SMTT(60)
    <3>. QED
      BY <3>1, <1>b, Owner
  <2>6. \A i \in Cid: Unacked(i) => ReqAt(i) # o
    BY <1>0, <1>b, <1>k DEF AckInv
  <2>7. AckInv /\ o \in Req
    BY <1>b
  <2>8. ASSUME NEW i \in Cid, Unacked(i)'
        PROVE  ReqAt(i) \in Req /\ \A c \in Cid: done_flag'[c] = 0 => sqe[c].req # ReqAt(i)
    BY <2>2, <2>4, <2>5, <2>7, <2>8 DEF AckInv
  <2>9. ASSUME NEW i \in Cid, NEW j \in Cid, Unacked(i)', Unacked(j)', ReqAt(i) = ReqAt(j)
        PROVE  i = j
    BY <2>2, <2>4, <2>6, <2>7, <2>9 DEF AckInv
  <2>. HIDE DEF IInv
  <2>. QED
    BY <2>3, <2>8, <2>9, <1>u DEF AckInv
<1>. QED
  BY <1>1, <1>2, <1>3, <1>4, <1>5, <1>6, <1>7

\* check_cq acknowledges everything it has consumed.
LEMMA CheckCqExitInv == IInv /\ check_cq_exit => IInv'
<1>. SUFFICES ASSUME IInv, check_cq_exit PROVE IInv'
  OBVIOUS
<1>. USE DEF IInv, check_cq_exit, driverVars, devVars
<1>1. TypeOK'
  BY DEF TypeOK
<1>2. SectionInv'
  BY DEF SectionInv, TypeOK
<1>3. PhaseInv'
  BY RingEnds DEF PhaseInv, TypeOK
<1>4. OnePlace'
  BY DEF OnePlace, SqWrapped, InSq, InDev, InCq, Completed
<1>5. LinkInv'
  <2>1. \A c \in Cid: done_flag[c] = 0 => hd[sqe[c].req].st \in {"wait", "orphan"}
    BY Owner DEF Link
  <2>. QED
    BY <2>1, LinkFrame
<1>6. WaitInv'
  BY DEF WaitInv
<1>7. AckInv'
  <2>1. \A i \in Cid: ~Unacked(i)'
    BY SMTT(30) DEF Unacked, TypeOK, InRing, Cid
  <2>. QED
    BY <2>1 DEF AckInv
<1>. QED
  BY <1>1, <1>2, <1>3, <1>4, <1>5, <1>6, <1>7

=============================================================================
