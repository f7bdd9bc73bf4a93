------------------------------- MODULE HookIO -------------------------------
(***************************************************************************)
(* The read and write system calls of mylib/hook.c on one myfs file:       *)
(* SYS_read, pread64, SYS_write, pwrite64, with read_impl and write_impl,  *)
(* over the request service (BlockService) that nvme.cc implements.        *)
(*                                                                         *)
(* Positions and lengths are counted in requests (blksz bytes each), and   *)
(* a myfs block holds one request.  The drive is addressed by file         *)
(* position: MyFS shows that files and positions do not share blocks.      *)
(* ULTs interleave at every request and poll, as on different cores.       *)
(***************************************************************************)
EXTENDS BlockService, Naturals, FiniteSets, Sequences

CONSTANTS Ult, Fd, NoFd,
          READ_DEG, WRITE_DEG,   \* requests in flight per call
          MaxLen,                \* longest call
          NoData,                \* what a buffer holds before the call
          Sparse                 \* whether a write may start past the end

HookAssumption ==
  /\ READ_DEG \in Nat \ {0} /\ WRITE_DEG \in Nat \ {0} /\ MaxLen \in Nat \ {0}
  /\ Sparse \in BOOLEAN
  /\ IsFiniteSet(Lba) /\ Lba = 0 .. Cardinality(Lba) - 1
  /\ Data # {} /\ NoData \notin Data /\ NoFd \notin Fd

VARIABLES
  pc,          \* "idle", "issue", "poll", "ret" or "abort" (an assert failed)
  call,        \* the call a ULT is in
  j, rq_k, k,  \* the loop counters of read_impl and write_impl
  rid,         \* requests of the batch that have not been reported
  buf,         \* the caller's buffer, by offset in the call
  cur_pos,     \* file offset of each descriptor
  alloc,       \* positions of the file that have a block
  seen         \* history: contents each position has had since a read began

callVars == <<pc, call, j, rq_k, k, rid, buf, cur_pos, alloc>>
vars == <<bsVars, callVars, seen>>

AnyData == CHOOSE d \in Data: TRUE
Off == 0 .. MaxLen - 1
NoCall == [op |-> "read", fd |-> NoFd, pos |-> 0, len |-> 0, count |-> 0,
           data |-> AnyData]

\* myfs_get_size, in blocks: n_block counts the blocks ever allocated.
myfs_get_size == Cardinality(alloc)

\* Mutant: the length is not cut.
ReadLen_NoCut(pos, count) == count

\* read_impl cuts the length at the end of the file.
ReadLen(pos, count) ==
  IF pos + count <= myfs_get_size THEN count
  ELSE IF pos <= myfs_get_size THEN myfs_get_size - pos ELSE 0

Init ==
  /\ BSInit
  /\ pc = [u \in Ult |-> "idle"] /\ call = [u \in Ult |-> NoCall]
  /\ j = [u \in Ult |-> 0] /\ rq_k = [u \in Ult |-> 0] /\ k = [u \in Ult |-> 0]
  /\ rid = [u \in Ult |-> <<>>]
  /\ buf = [u \in Ult |-> [i \in Off |-> NoData]]
  /\ cur_pos = [f \in Fd |-> 0]
  /\ alloc = {}
  /\ seen = [u \in Ult |-> [p \in Lba |-> {}]]

-----------------------------------------------------------------------------
\* Enter a call: read_impl or write_impl up to its loop.
Begin(u, op, fd, pos, count, d) ==
  LET len == IF op = "read" THEN ReadLen(pos, count) ELSE count IN
  /\ pc[u] = "idle"
  /\ call' = [call EXCEPT ![u] = [op |-> op, fd |-> fd, pos |-> pos,
                                  len |-> len, count |-> count, data |-> d]]
  /\ pc' = [pc EXCEPT ![u] = IF len > 0 THEN "issue" ELSE "ret"]
  /\ buf' = [buf EXCEPT ![u] = [i \in Off |-> NoData]]
  /\ UNCHANGED <<bsVars, j, rq_k, k, rid, cur_pos, alloc>>

\* Bound: a read starts at most at the end of the address space.
Read(u, fd, count) ==
  /\ cur_pos[fd] <= Cardinality(Lba)
  /\ Begin(u, "read", fd, cur_pos[fd], count, AnyData)

PRead(u, pos, count) == Begin(u, "read", NoFd, pos, count, AnyData)

\* The file fits in its address space; Sparse says whether it may have holes.
WriteAt(pos, count) ==
  /\ pos + count <= Cardinality(Lba)
  /\ Sparse \/ pos <= myfs_get_size

Write(u, fd, count, d) ==
  /\ WriteAt(cur_pos[fd], count)
  /\ Begin(u, "write", fd, cur_pos[fd], count, d)

PWrite(u, pos, count, d) ==
  /\ WriteAt(pos, count)
  /\ Begin(u, "write", NoFd, pos, count, d)

\* read_impl's first loop ends: READ_DEG requests, or nothing left to request.
ReadBatchFull(u) == rq_k[u] + 1 = READ_DEG \/ j[u] + 1 >= call[u].len

\* One turn of read_impl's first loop: myfs_get_lba, nvme_read_req.
IssueRead(u) ==
  /\ pc[u] = "issue" /\ call[u].op = "read"
  /\ IF call[u].pos + j[u] \notin alloc
       THEN /\ pc' = [pc EXCEPT ![u] = "abort"]
            /\ UNCHANGED <<bsVars, j, rq_k, rid>>
       ELSE /\ \E r \in Req: /\ Issue(r, "read", call[u].pos + j[u], AnyData)
                             /\ rid' = [rid EXCEPT ![u] = Append(@, r)]
            /\ j' = [j EXCEPT ![u] = @ + 1]
            /\ rq_k' = [rq_k EXCEPT ![u] = @ + 1]
            /\ pc' = [pc EXCEPT ![u] = IF ReadBatchFull(u) THEN "poll" ELSE "issue"]
  /\ UNCHANGED <<call, k, buf, cur_pos, alloc>>

\* One turn of write_impl's first loop: myfs_get_lba allocates, nvme_write_req.
\* full: the batch is polled next; counted: rq_k counts this request; step: j's.
WriteTurn(u, full, counted, step) ==
  /\ pc[u] = "issue" /\ call[u].op = "write"
  /\ alloc' = alloc \cup {call[u].pos + j[u]}
  /\ \E r \in Req: /\ Issue(r, "write", call[u].pos + j[u], call[u].data)
                   /\ rid' = [rid EXCEPT ![u] = Append(@, r)]
  /\ j' = [j EXCEPT ![u] = @ + step]
  /\ pc' = [pc EXCEPT ![u] = IF full THEN "poll" ELSE "issue"]
  /\ rq_k' = [rq_k EXCEPT ![u] = IF counted THEN @ + 1 ELSE @]
  /\ UNCHANGED <<call, k, buf, cur_pos>>

LastWrite(u) == j[u] + 1 >= call[u].len
WriteBatchFull(u) == rq_k[u] + 1 = WRITE_DEG

\* Mutant: j never moves.
IssueWrite_NoStep(u) == WriteTurn(u, WriteBatchFull(u), TRUE, 0)

\* The loop breaks before it counts the call's last request, which the
\* polling loop will therefore not poll.
IssueWrite(u) ==
  WriteTurn(u, LastWrite(u) \/ WriteBatchFull(u), ~LastWrite(u), 1)

\* nvme_check(rid[k]) returns 1; rest is what remains to be polled.
PollOne(u, rest) ==
  LET r == Head(rid[u]) IN
  /\ pc[u] = "poll" /\ k[u] < rq_k[u]
  /\ Report(r)
  /\ buf' = IF call[u].op = "read"
              THEN [buf EXCEPT ![u][req[r].lba - call[u].pos] = out[r]] ELSE buf
  /\ rid' = [rid EXCEPT ![u] = rest]
  /\ k' = [k EXCEPT ![u] = @ + 1]
  /\ UNCHANGED <<pc, call, j, rq_k, cur_pos, alloc>>

Poll_SameRid(u) == PollOne(u, rid[u])    \* mutant: k is not used as an index
Poll(u) == PollOne(u, Tail(rid[u]))

\* The polling loop ends: next batch, or the end of read_impl or write_impl.
EndBatch(u) ==
  /\ pc[u] = "poll"
  /\ pc' = [pc EXCEPT ![u] = IF j[u] < call[u].len THEN "issue" ELSE "ret"]
  /\ rq_k' = [rq_k EXCEPT ![u] = 0] /\ k' = [k EXCEPT ![u] = 0]
  /\ UNCHANGED <<bsVars, call, j, rid, buf, cur_pos, alloc>>

BatchEnd_Early(u) == k[u] + 1 >= rq_k[u] /\ EndBatch(u)    \* mutant: off by one
BatchEnd(u) == k[u] = rq_k[u] /\ EndBatch(u)

\* The system call returns count, having moved the descriptor's offset.
Return(u) ==
  /\ pc[u] = "ret"
  /\ IF rid[u] = <<>> THEN UNCHANGED bsVars ELSE Leave(Head(rid[u]))
  /\ cur_pos' = IF call[u].fd = NoFd THEN cur_pos
                ELSE [cur_pos EXCEPT ![call[u].fd] = @ + call[u].count]
  /\ pc' = [pc EXCEPT ![u] = "idle"] /\ call' = [call EXCEPT ![u] = NoCall]
  /\ j' = [j EXCEPT ![u] = 0] /\ rid' = [rid EXCEPT ![u] = <<>>]
  /\ buf' = [buf EXCEPT ![u] = [i \in Off |-> NoData]]
  /\ UNCHANGED <<rq_k, k, alloc>>

\* The drive and the driver's completion side.
Serve(r) == (Execute(r) \/ Finish(r) \/ Forget(r)) /\ UNCHANGED callVars

Step(u) == IssueRead(u) \/ IssueWrite(u) \/ Poll(u) \/ BatchEnd(u) \/ Return(u)

Call(u) ==
  \E count \in 1 .. MaxLen:
    \/ \E fd \in Fd: Read(u, fd, count)
    \/ \E pos \in Lba: PRead(u, pos, count)
    \/ \E fd \in Fd, d \in Data: Write(u, fd, count, d)
    \/ \E pos \in Lba, d \in Data: PWrite(u, pos, count, d)

\* History: what a read call may return for each position.
Watch ==
  seen' = [u \in Ult |-> [p \in Lba |->
             IF pc'[u] # "idle" /\ call'[u].op = "read"
               THEN seen[u][p] \cup {drive'[p]} ELSE {}]]

Next ==
  /\ \A u \in Ult: pc[u] # "abort"
  /\ \/ \E u \in Ult: Call(u)
     \/ \E u \in Ult: Step(u)
     \/ \E r \in Req: Serve(r)
  /\ Watch

Spec == Init /\ [][Next]_vars

-----------------------------------------------------------------------------
(* Properties *)

\* The variables stay in range: in particular a batch never holds more
\* requests than rid[READ_DEG] or rid[WRITE_DEG] has room for.
TypeOK ==
  /\ pc \in [Ult -> {"idle", "issue", "poll", "ret", "abort"}]
  /\ \A u \in Ult:
       /\ j[u] <= call[u].len /\ k[u] <= rq_k[u]
       /\ k[u] + Len(rid[u]) <= IF call[u].op = "read" THEN READ_DEG ELSE WRITE_DEG
       /\ \A i \in DOMAIN rid[u]: rid[u][i] \in Req
  /\ alloc \subseteq Lba

\* When read_impl is done, every block of the (cut) range is in the caller's
\* buffer, at its own offset, with contents the drive held during the call.
ReadDelivers ==
  \A u \in Ult: pc[u] = "ret" /\ call[u].op = "read" =>
    \A i \in 0 .. call[u].len - 1: buf[u][i] \in seen[u][call[u].pos + i]

\* When read_impl or write_impl is done, at most one of its requests has not
\* been polled: the one for the last block of a write.
OnlyLastUnpolled ==
  \A u \in Ult: pc[u] = "ret" =>
    \/ rid[u] = <<>>
    \/ /\ call[u].op = "write" /\ Len(rid[u]) = 1
       /\ req[rid[u][1]].lba = call[u].pos + call[u].len - 1

\* No request is polled by two calls: the rid arrays share no request, and
\* what they hold has been issued and not been reported.
OwnRequests ==
  \A u, v \in Ult: \A m \in DOMAIN rid[u], n \in DOMAIN rid[v]:
    /\ req[rid[u][m]].st \in {"issued", "executed", "done"}
    /\ rid[u][m] = rid[v][n] => u = v /\ m = n

\* assert(superblock->file[i].block[i_block] != INACTIVE_BLOCK) in
\* myfs_get_lba never fails: a read cut at the size finds its blocks.
NoAssertFailure == \A u \in Ult: pc[u] # "abort"

\* write_impl is done only when its requests are.
WriteDone ==
  \A u \in Ult: pc[u] = "ret" /\ call[u].op = "write" =>
    \A i \in DOMAIN rid[u]: req[rid[u][i]].st = "done"

\* A ULT in a call keeps running, and the drive and check_cq serve each
\* request.  The fairness of a request is strong: new_sqe waits for a slot
\* without giving up the queue pair, so nobody else takes the next one.
Fairness ==
  /\ \A u \in Ult: /\ SF_vars((IssueRead(u) \/ IssueWrite(u)) /\ Watch)
                   /\ WF_vars((Poll(u) \/ BatchEnd(u) \/ Return(u)) /\ Watch)
  /\ \A r \in Req: WF_vars(Serve(r) /\ Watch)
FairSpec == Spec /\ Fairness

\* Every system call returns.
CallReturns == \A u \in Ult: pc[u] # "idle" ~> pc[u] = "idle"
=============================================================================
