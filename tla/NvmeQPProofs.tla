---------------------------- MODULE NvmeQPProofs ----------------------------
(***************************************************************************)
(* The controller's steps preserve the inductive invariant of NvmeQP, and  *)
(* the theorems that follow from it.  The last two count: the ring         *)
(* positions in use inject into the requests.                              *)
(***************************************************************************)
EXTENDS NvmeQPDriver, FiniteSetTheorems

USE ZenonT(60)

\* The command moves from the submission ring into the controller.
LEMMA DevFetchInv == IInv /\ dev_fetch => IInv'
<1>. SUFFICES ASSUME IInv, dev_fetch PROVE IInv'
  OBVIOUS
<1>. DEFINE h == dev_sq_head
            cmd == [cid |-> h, opc |-> sqe[h].opc, lba |-> sqe[h].lba, req |-> sqe[h].req]
<1>. USE DEF IInv
<1>u. /\ h # sq_tail
      /\ fetched' = fetched \cup {cmd}
      /\ dev_sq_head' = Succ(h)
      /\ UNCHANGED <<sq_tail, cq_head, cq_phase, done_flag, rbuf, sqe, buf4k>>
      /\ UNCHANGED <<cqe, sq_db, cq_db, pc, cur, hd, ubuf, dev_cq_tail, dev_phase, media>>
  BY DEF dev_fetch, driverVars, SectionInv
<1>0. h \in Cid /\ sq_tail \in Cid /\ Succ(h) \in Cid /\ cmd \in Cmd
  BY SuccValue DEF TypeOK, Sqe, Cmd
<1>k. /\ h = dev_sq_head /\ cmd.cid = h /\ cmd.opc = sqe[h].opc
      /\ cmd.lba = sqe[h].lba /\ cmd.req = sqe[h].req
  OBVIOUS
<1>. HIDE DEF cmd
<1>n. ~SqWrapped
  BY <1>u DEF SqWrapped
<1>a. /\ InSq(h)
      /\ \A c \in Cid: InSq(c)' <=> InSq(c) /\ c # h
  BY <1>0, <1>u, RingEnds, RingPop DEF InSq
<1>b. \A c \in Cid: InDev(c)' <=> InDev(c) \/ c = h
  BY <1>u, <1>k, <1>0 DEF InDev
<1>c. \A c \in Cid: (InCq(c)' <=> InCq(c)) /\ (Completed(c)' <=> Completed(c))
  BY <1>u DEF InCq, Completed
<1>1. TypeOK'
  BY <1>0, <1>u DEF TypeOK
<1>2. SectionInv'
  BY <1>u DEF SectionInv
<1>3. PhaseInv'
  BY <1>u DEF PhaseInv
<1>4. OnePlace'
  <2>1. /\ \A c \in Cid: done_flag[c] = 0 <=> InSq(c) \/ InDev(c) \/ Completed(c)
        /\ \A c \in Cid: /\ ~(InSq(c) /\ InDev(c)) /\ ~(InSq(c) /\ Completed(c))
                         /\ ~(InDev(c) /\ Completed(c))
        /\ \A x, y \in fetched: x.cid = y.cid => x = y
        /\ \A i, j \in Cid: InCq(i) /\ InCq(j) /\ cqe[i].cid = cqe[j].cid => i = j
    BY <1>n DEF OnePlace
  <2>2. \A c \in Cid: done_flag'[c] = 0 <=> InSq(c)' \/ InDev(c)' \/ Completed(c)'
    BY <2>1, <1>a, <1>b, <1>c, <1>u
  <2>3. \A c \in Cid: /\ ~(InSq(c)' /\ InDev(c)') /\ ~(InSq(c)' /\ Completed(c)')
                      /\ ~(InDev(c)' /\ Completed(c)')
    BY <2>1, <1>a, <1>b, <1>c, <1>0
  <2>4. \A x, y \in fetched': x.cid = y.cid => x = y
    <3>1. \A x \in fetched: x.cid # h
      BY <2>1, <1>a, <1>0 DEF InDev
    <3>. QED
      BY <3>1, <2>1, <1>u, <1>k
  <2>. QED
    BY <2>1, <2>2, <2>3, <2>4, <1>c, <1>u DEF OnePlace
<1>5. LinkInv'
  BY <1>c, <1>u, <1>k DEF LinkInv, Link
<1>6. WaitInv'
  BY <1>u DEF WaitInv
<1>7. AckInv'
  BY <1>u DEF AckInv, Unacked, ReqAt
<1>. QED
  BY <1>1, <1>2, <1>3, <1>4, <1>5, <1>6, <1>7

\* The command moves from the controller into the completion ring.
LEMMA DevCompleteInv ==
  ASSUME IInv, NEW cmd \in fetched, dev_complete(cmd)
  PROVE  IInv'
<1>. DEFINE t == dev_cq_tail
            k == cmd.cid
            o == cmd.req
<1>. USE DEF IInv
<1>u. /\ Succ(t) # cq_db
      /\ fetched' = fetched \ {cmd}
      /\ cqe' = [cqe EXCEPT ![t] = [cid |-> k, p |-> dev_phase]]
      /\ dev_cq_tail' = Succ(t)
      /\ dev_phase' = IF t + 1 = QD THEN 1 - dev_phase ELSE dev_phase
      /\ UNCHANGED <<sq_tail, cq_head, cq_phase, done_flag, rbuf, sqe>>
      /\ UNCHANGED <<sq_db, cq_db, pc, cur, ubuf, dev_sq_head>>
  BY DEF dev_complete, driverVars
<1>d. IF cmd.opc = "read"
       THEN /\ buf4k' = [buf4k EXCEPT ![k] = media[cmd.lba]]
            /\ hd' = [hd EXCEPT ![o].served = TRUE, ![o].val = media[cmd.lba]]
            /\ media' = media
       ELSE /\ media' = [media EXCEPT ![cmd.lba] = buf4k[k]]
            /\ hd' = [hd EXCEPT ![o].served = TRUE]
            /\ buf4k' = buf4k
  BY DEF dev_complete
<1>0. /\ t \in Cid /\ Succ(t) \in Cid /\ cq_head \in Cid /\ cq_db \in Cid /\ k \in Cid
      /\ cmd.lba \in Lba /\ cmd.opc \in Opc
  BY SuccValue DEF TypeOK, Cmd
<1>n. ~SqWrapped
  BY DEF SqWrapped
<1>p. /\ \A c \in Cid: done_flag[c] = 0 <=> InSq(c) \/ InDev(c) \/ Completed(c)
      /\ \A c \in Cid: /\ ~(InSq(c) /\ InDev(c)) /\ ~(InSq(c) /\ Completed(c))
                       /\ ~(InDev(c) /\ Completed(c))
      /\ \A x, y \in fetched: x.cid = y.cid => x = y
      /\ \A i, j \in Cid: InCq(i) /\ InCq(j) /\ cqe[i].cid = cqe[j].cid => i = j
  BY <1>n DEF OnePlace
<1>b. /\ InDev(k) /\ done_flag[k] = 0 /\ ~Completed(k) /\ ~InSq(k)
      /\ o = sqe[k].req /\ o \in Req /\ hd[o].cid = k /\ cmd.opc = sqe[k].opc
      /\ hd[o].st \in {"wait", "orphan"} /\ ~hd[o].served /\ hd[o].opc = cmd.opc
  <2>1. InDev(k)
    BY DEF InDev
  <2>2. done_flag[k] = 0 /\ ~Completed(k) /\ ~InSq(k)
    BY <2>1, <1>p, <1>0
  <2>. QED
    BY <2>1, <2>2, <1>0 DEF LinkInv, Link
<1>k. t = dev_cq_tail /\ k = cmd.cid /\ o = cmd.req
  OBVIOUS
<1>. HIDE DEF t, k, o
<1>e. Succ(t) # cq_head
  <2>1. cq_head = t \/ InRing(cq_head, cq_db, t)
    BY <1>k DEF PhaseInv
  <2>2. CASE cq_head = t
    BY <2>2, <1>0, SuccValue, QDAssumption, SMTT(60) DEF Cid
  <2>3. CASE InRing(cq_head, cq_db, t)
    BY <2>3, <1>0, <1>u, SuccValue, QDAssumption, SMTT(60) DEF InRing, Cid
  <2>. QED
    BY <2>1, <2>2, <2>3
<1>a. \A i \in Cid: InCq(i)' <=> InCq(i) \/ i = t
  BY <1>0, <1>e, <1>u, <1>k, RingPush DEF InCq
<1>f. ~InCq(t)
  BY <1>0, <1>k, RingEnds DEF InCq
<1>c. /\ cqe'[t] = [cid |-> k, p |-> dev_phase]
      /\ \A i \in Cid: i # t => cqe'[i] = cqe[i]
  BY <1>0, <1>u DEF TypeOK
<1>g. \A c \in Cid: Completed(c)' <=> Completed(c) \/ c = k
  BY <1>0, <1>a, <1>c, <1>f, SMTT(60) DEF Completed
<1>h. \A c \in Cid: InDev(c)' <=> InDev(c) /\ c # k
  BY <1>u, <1>k, <1>p DEF InDev
<1>s. \A c \in Cid: InSq(c)' <=> InSq(c)
  BY <1>u DEF InSq
<1>i. /\ hd' \in [Req -> Handle]
      /\ \A r \in Req: r # o => hd'[r] = hd[r]
      /\ hd'[o].served /\ hd'[o].st = hd[o].st /\ hd'[o].cid = k
      /\ hd'[o].opc = hd[o].opc /\ hd'[o].lba = hd[o].lba
      /\ buf4k' \in [Cid -> Data]
      /\ \A c \in Cid: c # k => buf4k'[c] = buf4k[c]
      /\ cmd.opc = "read" => buf4k'[k] = hd'[o].val
      /\ media' \in [Lba -> Data]
  <2>0. /\ hd \in [Req -> Handle] /\ hd[o] \in Handle /\ buf4k \in [Cid -> Data]
        /\ media \in [Lba -> Data] /\ media[cmd.lba] \in Data /\ buf4k[k] \in Data
    BY <1>0, <1>b DEF TypeOK
  <2>1. CASE cmd.opc = "read"
    <3>1. hd' = [hd EXCEPT ![o] = [hd[o] EXCEPT !.served = TRUE, !.val = media[cmd.lba]]]
      BY <2>1, <1>d, <1>b, <2>0
    <3>2. [hd[o] EXCEPT !.served = TRUE, !.val = media[cmd.lba]] \in Handle
      BY <2>0 DEF Handle
    <3>3. buf4k' = [buf4k EXCEPT ![k] = media[cmd.lba]] /\ media' = media
      BY <2>1, <1>d
    <3>4. hd'[o] = [hd[o] EXCEPT !.served = TRUE, !.val = media[cmd.lba]]
      BY <3>1, <2>0, <1>b
    <3>5. /\ hd'[o].served /\ hd'[o].st = hd[o].st /\ hd'[o].cid = k
          /\ hd'[o].opc = hd[o].opc /\ hd'[o].lba = hd[o].lba /\ hd'[o].val = media[cmd.lba]
      BY <3>4, <2>0, <1>b DEF Handle
    <3>. QED
      BY <3>1, <3>2, <3>3, <3>5, <2>0, <1>0, <1>b
  <2>2. CASE cmd.opc # "read"
    <3>1. hd' = [hd EXCEPT ![o] = [hd[o] EXCEPT !.served = TRUE]]
      BY <2>2, <1>d, <1>b, <2>0
    <3>2. [hd[o] EXCEPT !.served = TRUE] \in Handle
      BY <2>0 DEF Handle
    <3>3. buf4k' = buf4k /\ media' = [media EXCEPT ![cmd.lba] = buf4k[k]]
      BY <2>2, <1>d
    <3>4. hd'[o] = [hd[o] EXCEPT !.served = TRUE]
      BY <3>1, <2>0, <1>b
    <3>5. /\ hd'[o].served /\ hd'[o].st = hd[o].st /\ hd'[o].cid = k
          /\ hd'[o].opc = hd[o].opc /\ hd'[o].lba = hd[o].lba
      BY <3>4, <2>0, <1>b DEF Handle
    <3>. QED
      BY <3>1, <3>2, <3>3, <3>5, <2>0, <2>2, <1>0, <1>b
  <2>. QED
    BY <2>1, <2>2
<1>1. TypeOK'
  <2>1. cqe' \in [Cid -> [cid: Cid, p: 0..1]] /\ dev_phase' \in 0..1
    BY <1>u, <1>0, SMTT(60) DEF TypeOK
  <2>. QED
    BY <2>1, <1>0, <1>u, <1>i DEF TypeOK
<1>2. SectionInv'
  <2>1. \A r \in Req: hd'[r].st = hd[r].st
    BY <1>i
  <2>2. \A r \in Req: hd[r].st = "req" => hd'[r] = hd[r]
    BY <1>i, <1>b
  <2>. QED
    BY <2>1, <2>2, <1>u DEF SectionInv
<1>3. PhaseInv'
  <2>0. /\ t \in Nat /\ cq_head \in Nat /\ cq_db \in Nat /\ t < QD /\ cq_head < QD /\ cq_db < QD
        /\ cq_phase \in 0..1 /\ dev_phase \in 0..1
    BY <1>0, QDAssumption, SMTT(60) DEF TypeOK, Cid
  <2>t. dev_cq_tail' = IF t + 1 = QD THEN 0 ELSE t + 1
    BY <1>u, <1>0, SuccValue
  <2>1. ASSUME NEW i \in Cid
        PROVE  cqe'[i].p = IF i < dev_cq_tail' THEN dev_phase' ELSE 1 - dev_phase'
    <3>1. cqe[i].p = IF i < t THEN dev_phase ELSE 1 - dev_phase
      BY <1>k DEF PhaseInv
    <3>2. i \in Nat /\ i < QD
      BY QDAssumption, SMTT(60) DEF Cid
    <3>3. cqe'[i].p = IF i <= t THEN dev_phase ELSE 1 - dev_phase
      BY <3>1, <3>2, <2>0, <1>c, SMTT(60)
    <3>. QED
      BY <3>2, <3>3, <2>0, <2>t, <1>u, SMTT(60)
  <2>2. IF cq_phase = dev_phase' THEN cq_head <= dev_cq_tail' ELSE dev_cq_tail' < cq_head
    <3>1. IF cq_phase = dev_phase THEN cq_head <= t ELSE t < cq_head
      BY <1>k DEF PhaseInv
    <3>. QED
      BY <3>1, <2>0, <2>t, <1>e, <1>u, SMTT(60)
  <2>3. InRing(cq_head, cq_db, dev_cq_tail')
    <3>1. cq_head = t \/ InRing(cq_head, cq_db, t)
      BY <1>k DEF PhaseInv
    <3>. QED
      BY <3>1, <1>0, <1>u, RingPush
  <2>. QED
    BY <2>1, <2>2, <2>3, <1>u DEF PhaseInv
<1>4. OnePlace'
  <2>1. \A c \in Cid: done_flag'[c] = 0 <=> InSq(c)' \/ InDev(c)' \/ Completed(c)'
    BY <1>p, <1>g, <1>h, <1>s, <1>u, <1>b
  <2>2. \A c \in Cid: /\ ~(InSq(c)' /\ InDev(c)') /\ ~(InSq(c)' /\ Completed(c)')
                      /\ ~(InDev(c)' /\ Completed(c)')
    BY <1>p, <1>g, <1>h, <1>s, <1>b
  <2>3. \A x, y \in fetched': x.cid = y.cid => x = y
    BY <1>p, <1>u
  <2>4. \A i, j \in Cid: InCq(i)' /\ InCq(j)' /\ cqe'[i].cid = cqe'[j].cid => i = j
    <3>1. \A i \in Cid: InCq(i) => cqe[i].cid # k
      BY <1>b DEF Completed
    <3>. QED
      BY <3>1, <1>p, <1>a, <1>c, <1>f, SMTT(60)
  <2>. QED
    BY <2>1, <2>2, <2>3, <2>4 DEF OnePlace
<1>5. LinkInv'
  <2>1. ASSUME NEW c \in Cid, done_flag'[c] = 0
        PROVE  Link(c)'
    <3>0. done_flag[c] = 0 /\ Link(c)
      BY <2>1, <1>u, Owner
    <3>1. CASE c = k
      BY <3>0, <3>1, <1>b, <1>i, <1>g, <1>0, <1>u DEF Link
    <3>2. CASE c # k
      <4>1. sqe[c].req \in Req /\ sqe[c].req # o
        BY <3>0, <3>2, <1>b DEF Link
      <4>2. hd'[sqe[c].req] = hd[sqe[c].req] /\ buf4k'[c] = buf4k[c]
        BY <4>1, <3>2, <1>i
      <4>3. Completed(c)' <=> Completed(c)
        BY <3>2, <1>g
      <4>. QED
        BY <3>0, <4>2, <4>3, <1>u DEF Link
    <3>. QED
      BY <3>1, <3>2
  <2>2. \A x \in fetched': /\ x.req = sqe[x.cid].req /\ x.opc = sqe[x.cid].opc
                           /\ x.lba = sqe[x.cid].lba
    BY <1>u DEF LinkInv, Link
  <2>. QED
    BY <2>1, <2>2, <1>u DEF LinkInv
<1>6. WaitInv'
  <2>1. ASSUME NEW r \in Req, r # o PROVE hd'[r] = hd[r]
    BY <2>1, <1>i
  <2>2. ASSUME NEW r \in Req, hd'[r].st = "wait"
        PROVE  \/ done_flag[hd'[r].cid] = 0 /\ sqe[hd'[r].cid].req = r
               \/ hd'[r].served /\ (hd'[r].opc = "read" => ubuf[r] = hd'[r].val)
    <3>1. CASE r = o
      BY <3>1, <1>i, <1>b
    <3>2. CASE r # o
      <4>1. hd'[r] = hd[r] /\ hd[r].st = "wait" /\ WaitInv
        BY <3>2, <2>1, <2>2
      <4>2. \/ done_flag[hd[r].cid] = 0 /\ sqe[hd[r].cid].req = r
            \/ hd[r].served /\ (hd[r].opc = "read" => ubuf[r] = hd[r].val)
        BY <4>1 DEF WaitInv
      <4>. QED
        BY <4>1, <4>2
    <3>. QED
      BY <3>1, <3>2
  <2>3. ASSUME NEW r \in Req, hd'[r].st = "orphan"
        PROVE  /\ done_flag[hd'[r].cid] = 0 /\ sqe[hd'[r].cid].req = r
               /\ hd'[r].opc = "write"
    <3>1. CASE r = o
      BY <3>1, <2>3, <1>i, <1>b DEF WaitInv
    <3>2. CASE r # o
      BY <3>2, <2>1, <2>3 DEF WaitInv
    <3>. QED
      BY <3>1, <3>2
  <2>. QED
    BY <2>2, <2>3, <1>u DEF WaitInv
<1>7. AckInv'
  <2>1. cq_head = t \/ InRing(cq_head, cq_db, t)
    BY <1>k DEF PhaseInv
  <2>2. \A i \in Cid: Unacked(i) => i # t
    BY <2>1, <1>0, RingSplit, RingEnds, SMTT(60) DEF Unacked
  <2>3. \A i \in Cid: Unacked(i)' <=> Unacked(i)
    BY <1>u DEF Unacked
  <2>4. \A i \in Cid: Unacked(i) => ReqAt(i)' = ReqAt(i)
    BY <2>2, <1>c, <1>u DEF ReqAt
  <2>. QED
    BY <2>3, <2>4, <1>u DEF AckInv
<1>. QED
  BY <1>1, <1>2, <1>3, <1>4, <1>5, <1>6, <1>7

-----------------------------------------------------------------------------
(* The theorems *)

\* Every step of the driver and of the controller preserves the invariant.
LEMMA NextInv == IInv /\ [Next]_vars => IInv'
<1>. SUFFICES ASSUME IInv, [Next]_vars PROVE IInv'
  OBVIOUS
<1>1. ASSUME NEW r \in Req, NEW l \in Lba, nvme_read_req(r, l) PROVE IInv'
  BY <1>1, EnterInv, TypeDefaults DEF nvme_read_req, Opc
<1>2. ASSUME NEW r \in Req, NEW l \in Lba, NEW d \in Data, nvme_write_req(r, l, d)
      PROVE  IInv'
  BY <1>2, EnterInv DEF nvme_write_req, Opc
<1>3. CASE new_sqe_block
  BY <1>3, NewSqeBlockInv
<1>4. CASE new_sqe
  BY <1>4, NewSqeInv
<1>5. ASSUME NEW r \in Req, nvme_check_done(r) PROVE IInv'
  BY <1>5, CheckDoneInv
<1>6. ASSUME NEW r \in Req, nvme_check_poll(r) PROVE IInv'
  BY <1>6, CheckPollInv
<1>7. ASSUME NEW r \in Req, leave(r) PROVE IInv'
  BY <1>7, LeaveInv
<1>8. CASE check_cq_entry
  BY <1>8, CheckCqEntryInv
<1>9. CASE check_cq_exit
  BY <1>9, CheckCqExitInv
<1>10. CASE dev_fetch
  BY <1>10, DevFetchInv
<1>11. ASSUME NEW cmd \in fetched, dev_complete(cmd) PROVE IInv'
  BY <1>11, DevCompleteInv
<1>12. CASE UNCHANGED vars
  <2>. USE <1>12 DEF vars, driverVars, devVars, IInv
  <2>1. TypeOK'
    BY DEF TypeOK
  <2>2. SectionInv'
    BY DEF SectionInv
  <2>3. PhaseInv'
    BY DEF PhaseInv
  <2>4. OnePlace'
    BY DEF OnePlace, SqWrapped, InSq, InDev, InCq, Completed
  <2>5. LinkInv'
    <3>1. \A c \in Cid: done_flag[c] = 0 => hd[sqe[c].req].st \in {"wait", "orphan"}
      BY Owner DEF Link
    <3>. QED
      BY <3>1, LinkFrame
  <2>6. WaitInv'
    BY DEF WaitInv
  <2>7. AckInv'
    BY DEF AckInv, Unacked, ReqAt
  <2>. QED
    BY <2>1, <2>2, <2>3, <2>4, <2>5, <2>6, <2>7
<1>. QED
  BY <1>1, <1>2, <1>3, <1>4, <1>5, <1>6, <1>7, <1>8, <1>9, <1>10, <1>11, <1>12
     DEF Next

\* The inductive invariant, and with it type correctness, holds in every
\* reachable state of the queue pair.
THEOREM Invariance == Spec => []IInv
BY InitInv, NextInv, PTL DEF Spec

\* Ring positions, flags and entries of the queue pair stay in range.
THEOREM TypeCorrect == Spec => []TypeOK
BY Invariance, PTL DEF IInv

\* check_cq's phase test is exact: it sees every completion once.
THEOREM PhaseTagCorrect == Spec => []PhaseTag
<1>1. IInv => PhaseTag
  <2>. SUFFICES ASSUME IInv PROVE PhaseTag
    OBVIOUS
  <2>1. /\ cq_head \in 0..QD-1 /\ dev_cq_tail \in 0..QD-1
        /\ cq_phase \in 0..1 /\ dev_phase \in 0..1
    BY DEF IInv, TypeOK, Cid
  <2>2. /\ cqe[cq_head].p = IF cq_head < dev_cq_tail THEN dev_phase ELSE 1 - dev_phase
        /\ IF cq_phase = dev_phase THEN cq_head <= dev_cq_tail ELSE dev_cq_tail < cq_head
    BY <2>1 DEF IInv, PhaseInv, Cid
  <2>. QED
    BY <2>1, <2>2, QDAssumption, SMTT(60) DEF PhaseTag
<1>. QED
  BY <1>1, Invariance, PTL

\* Every outstanding command is in exactly one place, so new_sqe never reuses
\* a slot, a CID or a DMA page the controller may still touch.
THEOREM OnePlaceCorrect == Spec => []OnePlace
BY Invariance, PTL DEF IInv

\* A caller that sees done() has had its own command executed and its own data
\* delivered.
THEOREM DoneMeansMineCorrect == Spec => []DoneMeansMine
<1>1. IInv => DoneMeansMine
  BY SMTT(60) DEF IInv, WaitInv, DoneMeansMine, TypeOK, Handle
<1>. QED
  BY <1>1, Invariance, PTL

\* check_cq never writes into the buffer of a call that has returned.
THEOREM NoLateCopyCorrect == Spec => []NoLateCopy
<1>1. IInv => NoLateCopy
  <2>. SUFFICES ASSUME IInv, NEW c \in Cid, done_flag[c] = 0, rbuf[c] # NoReq
                PROVE  hd[rbuf[c]].st = "wait" /\ hd[rbuf[c]].cid = c
    BY DEF NoLateCopy
  <2>1. Link(c)
    BY Owner DEF IInv
  <2>2. /\ rbuf[c] \in Req /\ hd[rbuf[c]].opc = "read" /\ hd[rbuf[c]].cid = c
        /\ hd[rbuf[c]].st \in {"wait", "orphan"}
    BY <2>1 DEF Link
  <2>. QED
    BY <2>2 DEF IInv, WaitInv
<1>. QED
  BY <1>1, Invariance, PTL

\* The controller writes what the caller passed.
THEOREM WriteIntegrityCorrect == Spec => []WriteIntegrity
<1>1. IInv => WriteIntegrity
  BY DEF IInv, LinkInv, Link, WriteIntegrity
<1>. QED
  BY <1>1, Invariance, PTL

\* If fewer than QD requests can be outstanding the submission ring is never
\* full, so the controller never mistakes it for empty.
THEOREM SqNeverWrapsCorrect == Spec => []SqNeverWraps
<1>1. IInv => SqNeverWraps
  <2>. SUFFICES ASSUME IInv, Cardinality(Req) < QD, SqWrapped PROVE FALSE
    BY DEF SqNeverWraps
  <2>. DEFINE f == [c \in Cid |-> sqe[c].req]
  <2>1. f \in [Cid -> Req]
    BY DEF IInv, LinkInv, Link, SqWrapped
  <2>2. IsFiniteSet(Cid) /\ Cardinality(Cid) = QD
    BY FS_Interval, QDAssumption, SMTT(60) DEF Cid
  <2>3. \E x, y \in Cid: x # y /\ f[x] = f[y]
    <3>. HIDE DEF f
    <3>. QED
      BY <2>1, <2>2, ReqAssumption, FS_PigeonHole
  <2>. QED
    <3>1. PICK x \in Cid, y \in Cid: x # y /\ sqe[x].req = sqe[y].req
      BY <2>3
    <3>2. hd[sqe[x].req].cid = x /\ hd[sqe[y].req].cid = y
      BY Owner DEF IInv, SqWrapped
    <3>. QED
      BY <3>1, <3>2
<1>. QED
  BY <1>1, Invariance, PTL

\* Under the same bound the controller always has room for a completion.
THEOREM CqHasRoomCorrect == Spec => []CqHasRoom
<1>1. IInv => CqHasRoom
  <2>. SUFFICES ASSUME IInv, Cardinality(Req) < QD, NEW cmd \in fetched,
                       Succ(dev_cq_tail) = cq_db
                PROVE  FALSE
    BY DEF CqHasRoom
  <2>. DEFINE t == dev_cq_tail
              f == [i \in Cid |-> IF i = t THEN cmd.req ELSE ReqAt(i)]
  <2>0. t \in Cid /\ cq_head \in Cid /\ cq_db \in Cid /\ cmd.cid \in Cid
    BY DEF IInv, TypeOK, Cmd
  <2>1. \A i \in Cid: i # t => Unacked(i) \/ InCq(i)
    <3>1. cq_head = t \/ InRing(cq_head, cq_db, t)
      BY DEF IInv, PhaseInv
    <3>. QED
      BY <3>1, <2>0, RingFull, RingSplit DEF Unacked, InCq
  <2>n. ~SqWrapped
    BY DEF SqWrapped
  <2>2. \A i \in Cid: InCq(i) =>
           cqe[i].cid \in Cid /\ done_flag[cqe[i].cid] = 0 /\ cqe[i].cid # cmd.cid
    BY <2>n, <2>0, SMTT(60) DEF IInv, OnePlace, Completed, InDev, TypeOK
  <2>3. done_flag[cmd.cid] = 0 /\ cmd.req = sqe[cmd.cid].req
    BY <2>n, <2>0 DEF IInv, OnePlace, InDev, LinkInv, Link
  <2>4. \A c, d \in Cid: done_flag[c] = 0 /\ done_flag[d] = 0 /\ sqe[c].req = sqe[d].req
                           => c = d
    <3>. SUFFICES ASSUME NEW c \in Cid, NEW d \in Cid, done_flag[c] = 0,
                         done_flag[d] = 0, sqe[c].req = sqe[d].req
                  PROVE  c = d
      OBVIOUS
    <3>1. hd[sqe[c].req].cid = c /\ hd[sqe[d].req].cid = d
      BY Owner DEF IInv
    <3>. QED
      BY <3>1
  <2>5. f \in [Cid -> Req]
    BY <2>0, <2>1, <2>2, <2>3 DEF IInv, LinkInv, Link, AckInv, ReqAt
  <2>6. ASSUME NEW i \in Cid, NEW j \in Cid, f[i] = f[j] PROVE i = j
    <3>1. ASSUME NEW x \in Cid, x # t PROVE ReqAt(x) # cmd.req
      <4>1. CASE Unacked(x)
        BY <4>1, <2>0, <2>3 DEF IInv, AckInv
      <4>2. CASE InCq(x)
        BY <4>2, <2>0, <2>2, <2>3, <2>4, SMTT(60) DEF ReqAt
      <4>. QED
        BY <4>1, <4>2, <3>1, <2>1
    <3>2. ASSUME NEW x \in Cid, NEW y \in Cid, x # t, y # t, ReqAt(x) = ReqAt(y)
          PROVE  x = y
      <4>1. CASE Unacked(x) /\ Unacked(y)
        BY <4>1, <3>2 DEF IInv, AckInv
      <4>2. CASE Unacked(x) /\ InCq(y)
        BY <4>2, <3>2, <2>2 DEF IInv, AckInv, ReqAt
      <4>3. CASE InCq(x) /\ Unacked(y)
        BY <4>3, <3>2, <2>2 DEF IInv, AckInv, ReqAt
      <4>4. CASE InCq(x) /\ InCq(y)
        <5>1. cqe[x].cid = cqe[y].cid
          BY <4>4, <3>2, <2>2, <2>4 DEF ReqAt
        <5>. QED
          BY <5>1, <4>4, <2>n DEF IInv, OnePlace
      <4>. QED
        BY <4>1, <4>2, <4>3, <4>4, <3>2, <2>1
    <3>. QED
      BY <3>1, <3>2, <2>6
  <2>7. IsFiniteSet(Cid) /\ Cardinality(Cid) = QD
    BY FS_Interval, QDAssumption, SMTT(60) DEF Cid
  <2>8. \E x, y \in Cid: x # y /\ f[x] = f[y]
    <3>. HIDE DEF f
    <3>. QED
      BY <2>5, <2>7, ReqAssumption, FS_PigeonHole
  <2>. QED
    BY <2>6, <2>8
<1>. QED
  BY <1>1, Invariance, PTL

-----------------------------------------------------------------------------
(* Refinement: every step of the queue pair is a step of the request service *)
(* (BlockService), or changes nothing that its callers can see.              *)

\* What the service sees of a handle.
LEMMA AbsValue ==
  ASSUME NEW h \in Handle, NEW o \in BOOLEAN
  PROVE  /\ h.st \in {"idle", "req"} => Abs(h, o) = [st |-> "idle"]
         /\ h.st \in {"wait", "orphan"} =>
              Abs(h, o) = [st |-> IF h.st = "wait"
                                    THEN IF ~h.served THEN "issued"
                                         ELSE IF o THEN "executed" ELSE "done"
                                    ELSE IF h.served THEN "leftExecuted" ELSE "left",
                           opc |-> h.opc, lba |-> h.lba, val |-> h.val]
BY DEF Handle, Abs, ReqState

LEMMA AbsIdle == \A o : Abs(IdleHandle, o) = [st |-> "idle"]
<1>1. IdleHandle.st = "idle"
  BY DEF IdleHandle
<1> QED BY <1>1 DEF Abs

\* A step that changes one request changes the service's view at one place.
LEMMA AbsAt ==
  ASSUME NEW r \in Req, NEW a, Abs(hd'[r], Outstanding(r)') = a,
         \A q \in Req \ {r} : Abs(hd'[q], Outstanding(q)') = Abs(hd[q], Outstanding(q))
  PROVE  AbsReq' = [AbsReq EXCEPT ![r] = a]
BY DEF AbsReq

\* A step that changes no request changes nothing.
LEMMA AbsSame ==
  ASSUME \A q \in Req : Abs(hd'[q], Outstanding(q)') = Abs(hd[q], Outstanding(q))
  PROVE  AbsReq' = AbsReq
BY DEF AbsReq

\* new_sqe(): the request is issued.
LEMMA NewSqeRefines == ASSUME IInv, IInv', new_sqe PROVE [BS!BSNext]_(BS!bsVars)
<1>0. PICK r \in Req : r = cur
  BY DEF IInv, SectionInv, new_sqe, Submit
<1>1. /\ r \in Req /\ sq_tail \in Cid /\ hd[r].st = "req" /\ hd[r] \in Handle
      /\ ~hd[r].served /\ done_flag[sq_tail] # 0
  BY <1>0 DEF IInv, SectionInv, TypeOK, new_sqe, Submit
<1>2. /\ \A q \in Req \ {r} : hd'[q] = hd[q]
      /\ hd'[r] = [hd[r] EXCEPT !.st = "wait", !.cid = sq_tail]
      /\ UNCHANGED <<ubuf, media>>
  BY <1>0, <1>1 DEF IInv, TypeOK, new_sqe, Submit, devVars
<1>3. /\ hd'[r].st = "wait" /\ hd'[r].opc = hd[r].opc /\ hd'[r].lba = hd[r].lba
      /\ hd'[r].val = hd[r].val /\ hd'[r].served = hd[r].served
      /\ hd'[r] \in Handle
  BY <1>1, <1>2 DEF Handle, IInv, TypeOK
<1>4. \A q \in Req \ {r} : Outstanding(q)' = Outstanding(q)
  <2> SUFFICES ASSUME NEW q \in Req \ {r} PROVE Outstanding(q)' = Outstanding(q)
    OBVIOUS
  <2>1. hd'[q] = hd[q] /\ hd[q].cid \in Cid
    BY <1>2 DEF IInv, TypeOK, Handle
  <2>2. CASE hd[q].cid = sq_tail
    BY <1>0, <1>1, <2>1, <2>2 DEF IInv, TypeOK, new_sqe, Submit, Outstanding
  <2>3. CASE hd[q].cid # sq_tail
    BY <1>0, <1>1, <2>1, <2>3 DEF IInv, TypeOK, new_sqe, Submit, OwnFlag, Outstanding
  <2> QED BY <2>2, <2>3
<1> DEFINE a == [st |-> "issued", opc |-> hd[r].opc, lba |-> hd[r].lba, val |-> hd[r].val]
<1>5. Abs(hd'[r], Outstanding(r)') = a
  BY <1>1, <1>3, AbsValue DEF Outstanding
<1>6. AbsReq' = [AbsReq EXCEPT ![r] = a]
  <2>1. \A q \in Req \ {r} : Abs(hd'[q], Outstanding(q)') = Abs(hd[q], Outstanding(q))
    BY <1>2, <1>4
  <2> HIDE DEF a
  <2> QED BY <1>5, <2>1, AbsAt
<1>7. AbsReq[r].st = "idle"
  <2>1. Abs(hd[r], Outstanding(r)) = [st |-> "idle"]
    BY <1>1, AbsValue DEF Outstanding
  <2> QED BY <1>1, <2>1, SMTT(60) DEF AbsReq
<1>8. hd[r].opc \in {"read", "write"} /\ hd[r].lba \in Lba /\ hd[r].val \in Data
  BY <1>1 DEF Handle, Opc
<1>9. BS!Issue(r, hd[r].opc, hd[r].lba, hd[r].val)
  BY <1>2, <1>6, <1>7 DEF BS!Issue
<1> QED BY <1>1, <1>8, <1>9 DEF BS!BSNext

\* A step that keeps the flags, the entries and the other handles keeps what
\* the service sees of the other requests.
LEMMA AbsFrame ==
  ASSUME UNCHANGED <<done_flag, sqe>>, NEW q \in Req, hd'[q] = hd[q]
  PROVE  Abs(hd'[q], Outstanding(q)') = Abs(hd[q], Outstanding(q))
BY DEF Outstanding

\* nvme_check() reports the request.
LEMMA CheckDoneRefines ==
  ASSUME IInv, NEW r \in Req, nvme_check_done(r) PROVE [BS!BSNext]_(BS!bsVars)
<1>1. /\ hd[r].st = "wait" /\ hd[r] \in Handle /\ hd[r].served /\ ~Outstanding(r)
      /\ hd'[r] = IdleHandle /\ \A q \in Req \ {r} : hd'[q] = hd[q]
      /\ UNCHANGED <<done_flag, sqe, ubuf, media>>
  BY SMTT(60) DEF IInv, TypeOK, Handle, WaitInv, nvme_check_done, Outstanding, driverVars, devVars
<1>2. Abs(hd'[r], Outstanding(r)') = [st |-> "idle"]
  BY <1>1, AbsIdle
<1>3. AbsReq' = [AbsReq EXCEPT ![r] = [st |-> "idle"]]
  BY <1>1, <1>2, AbsFrame, AbsAt
<1>4. AbsReq[r].st = "done"
  <2>1. Abs(hd[r], Outstanding(r)) = [st |-> "done", opc |-> hd[r].opc, lba |-> hd[r].lba,
                                      val |-> hd[r].val]
    BY <1>1, AbsValue DEF Outstanding
  <2> QED BY <2>1, SMTT(60) DEF AbsReq
<1>5. BS!Report(r)
  BY <1>1, <1>3, <1>4 DEF BS!Report
<1> QED BY <1>5 DEF BS!BSNext

\* write_impl() leaves a request behind.
LEMMA LeaveRefines ==
  ASSUME IInv, NEW r \in Req, leave(r) PROVE [BS!BSNext]_(BS!bsVars)
<1>1. /\ hd[r].st = "wait" /\ hd[r] \in Handle /\ hd[r].opc = "write"
      /\ \A q \in Req \ {r} : hd'[q] = hd[q]
      /\ hd'[r] = IF Outstanding(r) THEN [hd[r] EXCEPT !.st = "orphan"] ELSE IdleHandle
      /\ UNCHANGED <<done_flag, sqe, ubuf, media>>
  BY DEF IInv, TypeOK, leave, Outstanding, driverVars, devVars
<1>2. hd[r].served \/ Outstanding(r)
  BY <1>1 DEF IInv, WaitInv, Outstanding
<1>3. AbsReq' = [AbsReq EXCEPT ![r] = Abs(hd'[r], Outstanding(r)')]
  BY <1>1, AbsFrame, AbsAt
<1>4. AbsReq[r] = Abs(hd[r], Outstanding(r))
  BY DEF AbsReq
<1>u. UNCHANGED <<ubuf, media>>
  BY <1>1
<1>5. CASE ~Outstanding(r)
  <2>1. Abs(hd'[r], Outstanding(r)') = [st |-> "idle"]
    BY <1>1, <1>5, AbsIdle
  <2>2. AbsReq[r] = [st |-> "done", opc |-> "write", lba |-> hd[r].lba, val |-> hd[r].val]
    BY <1>1, <1>2, <1>4, <1>5, AbsValue DEF Outstanding
  <2>3. AbsReq[r].st = "done" /\ AbsReq[r].opc = "write"
    BY <2>2, SMTT(60)
  <2>4. BS!Leave(r)
    BY <1>3, <1>u, <2>1, <2>3 DEF BS!Leave
  <2> QED BY <2>4 DEF BS!BSNext
<1>6. CASE Outstanding(r)
  <2>1. /\ hd'[r] \in Handle /\ hd'[r].st = "orphan" /\ hd'[r].opc = hd[r].opc
        /\ hd'[r].lba = hd[r].lba /\ hd'[r].val = hd[r].val /\ hd'[r].served = hd[r].served
    BY <1>1, <1>6 DEF Handle
  <2>2. AbsReq[r] = [st |-> IF hd[r].served THEN "executed" ELSE "issued",
                     opc |-> "write", lba |-> hd[r].lba, val |-> hd[r].val]
    BY <1>1, <1>4, <1>6, AbsValue
  <2>3. Abs(hd'[r], Outstanding(r)') =
          [st |-> IF hd[r].served THEN "leftExecuted" ELSE "left",
           opc |-> "write", lba |-> hd[r].lba, val |-> hd[r].val]
    <3>1. Outstanding(r)' \in BOOLEAN
      BY DEF Outstanding
    <3> QED BY <1>1, <2>1, <3>1, AbsValue
  <2>4. BS!Leave(r)
    <3>1. CASE hd[r].served
      <4>1. /\ AbsReq[r].st = "executed" /\ AbsReq[r].opc = "write"
            /\ Abs(hd'[r], Outstanding(r)') = [AbsReq[r] EXCEPT !.st = "leftExecuted"]
        BY <2>2, <2>3, <3>1, SMTT(60)
      <4> QED BY <1>3, <1>u, <4>1 DEF BS!Leave
    <3>2. CASE ~hd[r].served
      <4>1. /\ AbsReq[r].st = "issued" /\ AbsReq[r].opc = "write"
            /\ Abs(hd'[r], Outstanding(r)') = [AbsReq[r] EXCEPT !.st = "left"]
        BY <2>2, <2>3, <3>2, SMTT(60)
      <4> QED BY <1>3, <1>u, <4>1 DEF BS!Leave
    <3> QED BY <3>1, <3>2
  <2> QED BY <2>4 DEF BS!BSNext
<1> QED BY <1>5, <1>6

\* Steps the callers do not see.
LEMMA HiddenStep ==
  ASSUME UNCHANGED <<done_flag, sqe, ubuf, media>>,
         \A q \in Req : hd'[q] = hd[q] \/ (hd[q].st = "idle" /\ hd'[q].st = "req")
  PROVE  UNCHANGED (BS!bsVars)
<1>1. ASSUME NEW q \in Req
      PROVE  Abs(hd'[q], Outstanding(q)') = Abs(hd[q], Outstanding(q))
  <2>1. CASE hd'[q] = hd[q]
    BY <2>1, AbsFrame
  <2>2. CASE hd[q].st = "idle" /\ hd'[q].st = "req"
    BY <2>2 DEF Abs
  <2> QED BY <2>1, <2>2
<1>2. AbsReq' = AbsReq
  BY <1>1, AbsSame
<1> QED BY <1>2 DEF BS!bsVars

\* check_cq() consumes an entry: its request is finished, or forgotten if its
\* caller has left.
LEMMA CheckCqEntryRefines == ASSUME IInv, check_cq_entry PROVE [BS!BSNext]_(BS!bsVars)
<1>0. PICK k \in Cid : k = cqe[cq_head].cid
  BY DEF IInv, TypeOK
<1>1. /\ ubuf' = IF rbuf[k] # NoReq THEN [ubuf EXCEPT ![rbuf[k]] = buf4k[k]] ELSE ubuf
      /\ done_flag' = [done_flag EXCEPT ![k] = 1]
      /\ hd' = [r \in Req |-> IF hd[r].st = "orphan" /\ hd[r].cid = k
                                THEN IdleHandle ELSE hd[r]]
      /\ UNCHANGED <<sqe, media>>
  BY <1>0 DEF check_cq_entry, Consume, Copied, HeadCid, devVars
<1>2. Completed(k) /\ done_flag[k] = 0
  <2>1. cqe[cq_head].p = cq_phase
    BY DEF check_cq_entry, Consume
  <2>2. cq_head \in Cid /\ dev_cq_tail \in Cid /\ cq_head # dev_cq_tail
    BY <2>1, SMTT(60) DEF IInv, PhaseInv, TypeOK, Cid
  <2>3. InCq(cq_head) /\ ~SqWrapped
    BY <2>2, RingEnds DEF InCq, SqWrapped
  <2>4. Completed(k)
    BY <1>0, <2>2, <2>3 DEF Completed
  <2> QED BY <2>3, <2>4 DEF IInv, OnePlace
<1>3. PICK o \in Req : o = sqe[k].req
  BY <1>2 DEF IInv, LinkInv, Link
<1>4. /\ hd[o] \in Handle /\ hd[o].st \in {"wait", "orphan"} /\ hd[o].cid = k /\ hd[o].served
      /\ rbuf[k] = IF hd[o].opc = "read" THEN o ELSE NoReq
      /\ hd[o].opc = "read" => buf4k[k] = hd[o].val
  <2>1. Link(k) /\ hd[o] \in Handle
    BY <1>2 DEF IInv, LinkInv, TypeOK
  <2> QED BY <1>2, <1>3, <2>1 DEF Link
<1>5. \A q \in Req \ {o} : hd'[q] = hd[q]
  BY <1>1, <1>3 DEF IInv, WaitInv
<1>6. ASSUME NEW q \in Req \ {o}
      PROVE  Abs(hd'[q], Outstanding(q)') = Abs(hd[q], Outstanding(q))
  <2>1. hd'[q] = hd[q] /\ hd[q].cid \in Cid
    BY <1>5 DEF IInv, TypeOK, Handle
  <2>2. Outstanding(q)' = Outstanding(q)
    <3>1. CASE hd[q].cid = k
      BY <1>1, <1>3, <2>1, <3>1 DEF Outstanding
    <3>2. CASE hd[q].cid # k
      BY <1>1, <2>1, <3>2 DEF Outstanding, IInv, TypeOK
    <3> QED BY <3>1, <3>2
  <2> QED BY <2>1, <2>2
<1>7. AbsReq[o] = Abs(hd[o], Outstanding(o)) /\ Outstanding(o) /\ ~Outstanding(o)'
  <2>1. Outstanding(o)
    BY <1>2, <1>3, <1>4 DEF Outstanding
  <2>2. hd'[o] = hd[o] \/ hd'[o] = IdleHandle
    BY <1>1
  <2>3. ~Outstanding(o)'
    <3>1. CASE hd'[o] = hd[o]
      BY <1>1, <1>4, <3>1, SMTT(60) DEF Outstanding, IInv, TypeOK
    <3>2. CASE hd'[o] = IdleHandle
      <4>1. hd'[o].cid = 0 /\ 0 \in Cid
        BY <3>2, QDAssumption, SMTT(60) DEF IdleHandle, Cid
      <4>2. CASE k = 0
        BY <1>1, <4>1, <4>2, SMTT(60) DEF Outstanding, IInv, TypeOK
      <4>3. CASE k # 0
        <5>1. done_flag'[0] = done_flag[0] /\ sqe' = sqe
          BY <1>1, <4>1, <4>3 DEF IInv, TypeOK
        <5>2. ~(done_flag[0] = 0 /\ sqe[0].req = o)
          <6>1. done_flag[0] = 0 => hd[sqe[0].req].cid = 0
            BY <4>1 DEF IInv, LinkInv, Link
          <6> QED BY <1>4, <4>3, <6>1
        <5> QED BY <4>1, <5>1, <5>2 DEF Outstanding
      <4> QED BY <4>2, <4>3
    <3> QED BY <2>2, <3>1, <3>2
  <2> QED BY <2>1, <2>3 DEF AbsReq
<1>8. CASE hd[o].st = "wait"
  <2>1. hd'[o] = hd[o]
    BY <1>1, <1>8
  <2>2. AbsReq[o] = [st |-> "executed", opc |-> hd[o].opc, lba |-> hd[o].lba,
                     val |-> hd[o].val]
    BY <1>4, <1>7, <1>8, AbsValue
  <2>3. Abs(hd'[o], Outstanding(o)') = [st |-> "done", opc |-> hd[o].opc,
                                        lba |-> hd[o].lba, val |-> hd[o].val]
    <3>1. Outstanding(o)' \in BOOLEAN
      BY DEF Outstanding
    <3> QED BY <1>4, <1>7, <1>8, <2>1, <3>1, AbsValue
  <2>4. /\ AbsReq[o].st = "executed" /\ AbsReq[o].opc = hd[o].opc
        /\ AbsReq[o].val = hd[o].val
        /\ Abs(hd'[o], Outstanding(o)') = [AbsReq[o] EXCEPT !.st = "done"]
    BY <2>2, <2>3, SMTT(60)
  <2>5. AbsReq' = [AbsReq EXCEPT ![o] = [AbsReq[o] EXCEPT !.st = "done"]]
    BY <1>6, <2>4, AbsAt
  <2>6. /\ ubuf' = IF hd[o].opc = "read" THEN [ubuf EXCEPT ![o] = hd[o].val] ELSE ubuf
        /\ media' = media
    BY <1>1, <1>4, ReqAssumption
  <2>7. BS!Finish(o)
    BY <2>4, <2>5, <2>6 DEF BS!Finish
  <2> QED BY <2>7 DEF BS!BSNext
<1>9. CASE hd[o].st = "orphan"
  <2>1. hd'[o] = IdleHandle /\ hd[o].opc = "write"
    BY <1>1, <1>4, <1>9 DEF IInv, WaitInv
  <2>2. Abs(hd'[o], Outstanding(o)') = [st |-> "idle"]
    BY <2>1, AbsIdle
  <2>3. AbsReq' = [AbsReq EXCEPT ![o] = [st |-> "idle"]]
    BY <1>6, <2>2, AbsAt
  <2>4. AbsReq[o] = [st |-> "leftExecuted", opc |-> hd[o].opc, lba |-> hd[o].lba,
                     val |-> hd[o].val]
    BY <1>4, <1>7, <1>9, AbsValue
  <2>5. AbsReq[o].st = "leftExecuted"
    BY <2>4, SMTT(60)
  <2>6. UNCHANGED <<ubuf, media>>
    BY <1>1, <1>4, <2>1
  <2>7. BS!Forget(o)
    BY <2>3, <2>5, <2>6 DEF BS!Forget
  <2> QED BY <2>7 DEF BS!BSNext
<1> QED BY <1>4, <1>8, <1>9

\* The controller executes a command: the request takes effect.
LEMMA DevCompleteRefines ==
  ASSUME IInv, NEW cmd \in fetched, dev_complete(cmd) PROVE [BS!BSNext]_(BS!bsVars)
<1>0. PICK k \in Cid : k = cmd.cid
  BY DEF IInv, TypeOK, Cmd
<1>1. done_flag[k] = 0 /\ ~Completed(k)
  <2>1. InDev(k) /\ ~SqWrapped
    BY <1>0 DEF InDev, SqWrapped
  <2> QED BY <2>1 DEF IInv, OnePlace
<1>2. PICK o \in Req : o = sqe[k].req
  BY <1>1 DEF IInv, LinkInv, Link
<1>3. /\ hd[o] \in Handle /\ hd[o].st \in {"wait", "orphan"} /\ hd[o].cid = k /\ ~hd[o].served
      /\ hd[o].opc = sqe[k].opc /\ hd[o].lba = sqe[k].lba
      /\ hd[o].opc = "write" => buf4k[k] = hd[o].val
  <2>1. Link(k) /\ hd[o] \in Handle
    BY <1>1 DEF IInv, LinkInv, TypeOK
  <2> QED BY <1>1, <1>2, <2>1 DEF Link
<1>4. /\ cmd.req = o /\ cmd.opc = hd[o].opc /\ cmd.lba = hd[o].lba
      /\ hd[o].lba \in Lba /\ hd[o].opc \in {"read", "write"}
  BY <1>0, <1>2, <1>3 DEF IInv, LinkInv, Handle, Opc
<1>5. /\ UNCHANGED <<done_flag, sqe, ubuf>>
      /\ \/ /\ hd[o].opc = "read"
            /\ hd' = [hd EXCEPT ![o].served = TRUE, ![o].val = media[hd[o].lba]]
            /\ media' = media
         \/ /\ hd[o].opc = "write"
            /\ hd' = [hd EXCEPT ![o].served = TRUE]
            /\ media' = [media EXCEPT ![hd[o].lba] = hd[o].val]
  <2>1. UNCHANGED <<done_flag, sqe, ubuf>>
    BY DEF dev_complete, driverVars
  <2>2. CASE hd[o].opc = "read"
    BY <1>4, <2>1, <2>2 DEF dev_complete
  <2>3. CASE hd[o].opc = "write"
    <3>1. cmd.opc # "read" /\ buf4k[cmd.cid] = hd[o].val
      BY <1>0, <1>3, <1>4, <2>3
    <3>2. hd' = [hd EXCEPT ![o].served = TRUE] /\ media' = [media EXCEPT ![hd[o].lba] = hd[o].val]
      BY <1>4, <3>1 DEF dev_complete
    <3> QED BY <2>1, <2>3, <3>2
  <2> QED BY <1>4, <2>2, <2>3
<1>6. ASSUME NEW q \in Req \ {o}
      PROVE  Abs(hd'[q], Outstanding(q)') = Abs(hd[q], Outstanding(q))
  <2>1. hd'[q] = hd[q]
    <3>1. hd \in [Req -> Handle]
      BY DEF IInv, TypeOK
    <3> QED BY <1>5, <3>1
  <2>2. UNCHANGED <<done_flag, sqe>>
    BY <1>5
  <2> QED BY <2>1, <2>2, AbsFrame
<1>7. AbsReq[o] = [st |-> IF hd[o].st = "wait" THEN "issued" ELSE "left",
                   opc |-> hd[o].opc, lba |-> hd[o].lba, val |-> hd[o].val]
  BY <1>3, AbsValue DEF AbsReq, Outstanding
<1>8. /\ AbsReq[o].st = IF hd[o].st = "wait" THEN "issued" ELSE "left"
      /\ AbsReq[o].opc = hd[o].opc /\ AbsReq[o].lba = hd[o].lba /\ AbsReq[o].val = hd[o].val
  BY <1>7, SMTT(60)
<1> DEFINE next == IF AbsReq[o].st = "issued" THEN "executed" ELSE "leftExecuted"
<1>9. next = IF hd[o].st = "wait" THEN "executed" ELSE "leftExecuted"
  BY <1>8
<1> HIDE DEF next
<1>b. Outstanding(o)' \in BOOLEAN
  BY DEF Outstanding
<1>10. CASE hd[o].opc = "read"
  <2>0. media[hd[o].lba] \in Data
    BY <1>4 DEF IInv, TypeOK
  <2>1. /\ hd'[o] = [hd[o] EXCEPT !.served = TRUE, !.val = media[hd[o].lba]]
        /\ media' = media
    BY <1>5, <1>10 DEF IInv, TypeOK
  <2>2. /\ hd'[o] \in Handle /\ hd'[o].st = hd[o].st /\ hd'[o].opc = hd[o].opc
        /\ hd'[o].lba = hd[o].lba /\ hd'[o].val = media[hd[o].lba] /\ hd'[o].served
        /\ hd'[o].cid = k
    BY <1>3, <2>0, <2>1 DEF Handle
  <2>3. Outstanding(o)'
    BY <1>1, <1>2, <1>5, <2>2 DEF Outstanding
  <2>4. Abs(hd'[o], Outstanding(o)') = [st |-> next, opc |-> hd[o].opc, lba |-> hd[o].lba,
                                        val |-> media[hd[o].lba]]
    BY <1>3, <1>9, <1>b, <2>2, <2>3, AbsValue
  <2>5. Abs(hd'[o], Outstanding(o)') =
          [AbsReq[o] EXCEPT !.st = next, !.val = media[AbsReq[o].lba]]
    <3> DEFINE b == [AbsReq[o] EXCEPT !.st = next, !.val = media[AbsReq[o].lba]]
               R == [st: {AbsReq[o].st, next}, opc: {hd[o].opc}, lba: {hd[o].lba},
                     val: {hd[o].val, media[AbsReq[o].lba]}]
    <3>1. AbsReq[o] \in R
      BY <1>7, <1>8
    <3>2. b \in R /\ b.st = next /\ b.val = media[AbsReq[o].lba]
      BY <3>1
    <3> HIDE DEF b
    <3>3. b = [st |-> next, opc |-> hd[o].opc, lba |-> hd[o].lba, val |-> media[hd[o].lba]]
      BY <1>8, <3>2
    <3> QED BY <2>4, <3>3 DEF b
  <2>6. AbsReq' = [AbsReq EXCEPT ![o] =
                     [AbsReq[o] EXCEPT !.st = next, !.val = media[AbsReq[o].lba]]]
    BY <1>6, <2>5, AbsAt
  <2>7. AbsReq' = [AbsReq EXCEPT ![o].st = next, ![o].val = media[AbsReq[o].lba]]
    BY <2>6 DEF AbsReq
  <2>8. ubuf' = ubuf /\ media' = media /\ AbsReq[o].st \in {"issued", "left"}
        /\ AbsReq[o].opc = "read"
    BY <1>5, <1>8, <1>10, <2>1
  <2>9. BS!Execute(o)
    BY <2>7, <2>8 DEF BS!Execute, next
  <2> QED BY <2>9 DEF BS!BSNext
<1>11. CASE hd[o].opc = "write"
  <2>1. /\ hd'[o] = [hd[o] EXCEPT !.served = TRUE]
        /\ media' = [media EXCEPT ![hd[o].lba] = hd[o].val]
    BY <1>5, <1>11 DEF IInv, TypeOK
  <2>2. /\ hd'[o] \in Handle /\ hd'[o].st = hd[o].st /\ hd'[o].opc = hd[o].opc
        /\ hd'[o].lba = hd[o].lba /\ hd'[o].val = hd[o].val /\ hd'[o].served
        /\ hd'[o].cid = k
    BY <1>3, <2>1 DEF Handle
  <2>3. Outstanding(o)'
    BY <1>1, <1>2, <1>5, <2>2 DEF Outstanding
  <2>4. Abs(hd'[o], Outstanding(o)') = [st |-> next, opc |-> hd[o].opc, lba |-> hd[o].lba,
                                        val |-> hd[o].val]
    BY <1>3, <1>9, <1>b, <2>2, <2>3, AbsValue
  <2>5. Abs(hd'[o], Outstanding(o)') = [AbsReq[o] EXCEPT !.st = next]
    BY <1>7, <2>4, SMTT(60)
  <2>6. AbsReq' = [AbsReq EXCEPT ![o] = [AbsReq[o] EXCEPT !.st = next]]
    BY <1>6, <2>5, AbsAt
  <2>8. /\ ubuf' = ubuf /\ AbsReq[o].st \in {"issued", "left"} /\ AbsReq[o].opc = "write"
        /\ media' = [media EXCEPT ![AbsReq[o].lba] = AbsReq[o].val]
    BY <1>5, <1>8, <1>11, <2>1
  <2>9. BS!Execute(o)
    BY <2>6, <2>8 DEF BS!Execute, next
  <2> QED BY <2>9 DEF BS!BSNext
<1> QED BY <1>4, <1>10, <1>11

\* The queue pair implements the request service of BlockService: whatever the
\* interleaving of callers and controller, and for every ring size, each
\* request takes effect once, between its submission and its report, and a
\* reported read has delivered what it read.
THEOREM RefinesBlockService == Spec => ImplementsBlockService
<1>1. Init => BS!BSInit
  <2> SUFFICES ASSUME Init PROVE BS!BSInit
    OBVIOUS
  <2>1. \A r \in Req : hd[r].st = "idle"
    BY DEF Init, IdleHandle
  <2>2. AbsReq = [r \in Req |-> [st |-> "idle"]]
    BY <2>1 DEF AbsReq, Abs
  <2>3. ubuf \in [Req -> Data] /\ media \in [Lba -> Data]
    BY InitInv DEF IInv, TypeOK
  <2> QED BY <2>2, <2>3 DEF BS!BSInit
<1>2. IInv /\ IInv' /\ [Next]_vars => [BS!BSNext]_(BS!bsVars)
  <2> SUFFICES ASSUME IInv, IInv', [Next]_vars PROVE [BS!BSNext]_(BS!bsVars)
    OBVIOUS
  <2>e. ASSUME NEW r \in Req, NEW opc, NEW l, NEW d, Enter(r, opc, l, d)
        PROVE  UNCHANGED (BS!bsVars)
    <3>1. hd[r].st = "idle" /\ hd'[r].st = "req" /\ \A q \in Req \ {r} : hd'[q] = hd[q]
      BY <2>e DEF Enter, IdleHandle, IInv, TypeOK
    <3>2. UNCHANGED <<done_flag, sqe, ubuf, media>>
      BY <2>e DEF Enter, driverVars, devVars
    <3> QED BY <3>1, <3>2, HiddenStep
  <2>1. ASSUME NEW r \in Req, NEW l \in Lba, nvme_read_req(r, l) PROVE UNCHANGED (BS!bsVars)
    BY <2>1, <2>e DEF nvme_read_req
  <2>2. ASSUME NEW r \in Req, NEW l \in Lba, NEW d \in Data, nvme_write_req(r, l, d)
        PROVE  UNCHANGED (BS!bsVars)
    BY <2>2, <2>e DEF nvme_write_req
  <2>3. CASE new_sqe_block
    BY <2>3, HiddenStep DEF new_sqe_block, driverVars, devVars
  <2>4. CASE new_sqe
    BY <2>4, NewSqeRefines
  <2>5. ASSUME NEW r \in Req, nvme_check_done(r) PROVE [BS!BSNext]_(BS!bsVars)
    BY <2>5, CheckDoneRefines
  <2>6. ASSUME NEW r \in Req, nvme_check_poll(r) PROVE UNCHANGED (BS!bsVars)
    BY <2>6, HiddenStep DEF nvme_check_poll, driverVars, devVars
  <2>7. ASSUME NEW r \in Req, leave(r) PROVE [BS!BSNext]_(BS!bsVars)
    BY <2>7, LeaveRefines
  <2>8. CASE check_cq_entry
    BY <2>8, CheckCqEntryRefines
  <2>9. CASE check_cq_exit
    BY <2>9, HiddenStep DEF check_cq_exit, driverVars, devVars
  <2>10. CASE dev_fetch
    BY <2>10, HiddenStep DEF dev_fetch, driverVars
  <2>11. ASSUME NEW cmd \in fetched, dev_complete(cmd) PROVE [BS!BSNext]_(BS!bsVars)
    BY <2>11, DevCompleteRefines
  <2>12. CASE UNCHANGED vars
    BY <2>12, HiddenStep DEF vars, driverVars, devVars
  <2> QED
    BY <2>1, <2>2, <2>3, <2>4, <2>5, <2>6, <2>7, <2>8, <2>9, <2>10, <2>11, <2>12 DEF Next
<1> QED
  BY <1>1, <1>2, Invariance, PTL DEF Spec, ImplementsBlockService, BS!BSSpec
=============================================================================
