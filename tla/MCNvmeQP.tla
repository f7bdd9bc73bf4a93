------------------------------ MODULE MCNvmeQP ------------------------------
(***************************************************************************)
(* The queue pair for TLC: NvmeQP with the constants of the .cfg (the part *)
(* "full": as many requests as entries, so entries are reused, both rings  *)
(* wrap, and the submission ring can wrap onto itself), and an instance of *)
(* it on variables of its own (the part "room": fewer requests than        *)
(* entries, and fairness).  In a behaviour one of the Parts moves; "full"  *)
(* stays in its first state while "room" does.                             *)
(***************************************************************************)
EXTENDS NvmeQP

CONSTANTS Parts, r1, r2, l1, d0

VARIABLES
  part,
  r_sq_tail, r_cq_head, r_cq_phase, r_done_flag, r_rbuf, r_sqe, r_buf4k, r_cqe, r_sq_db,
  r_cq_db, r_pc, r_cur, r_hd, r_ubuf, r_sq_head, r_cq_tail, r_phase, r_fetched, r_media

\* The data plays no part.
Room == INSTANCE NvmeQP WITH
  QD <- 3, Req <- {r1, r2}, Lba <- {l1}, Data <- {d0},
  sq_tail <- r_sq_tail, cq_head <- r_cq_head, cq_phase <- r_cq_phase,
  done_flag <- r_done_flag, rbuf <- r_rbuf, sqe <- r_sqe, buf4k <- r_buf4k, cqe <- r_cqe,
  sq_db <- r_sq_db, cq_db <- r_cq_db, pc <- r_pc, cur <- r_cur, hd <- r_hd, ubuf <- r_ubuf,
  dev_sq_head <- r_sq_head, dev_cq_tail <- r_cq_tail, dev_phase <- r_phase,
  fetched <- r_fetched, media <- r_media

roomVars == <<r_sq_tail, r_cq_head, r_cq_phase, r_done_flag, r_rbuf, r_sqe, r_buf4k, r_cqe,
              r_sq_db, r_cq_db, r_pc, r_cur, r_hd, r_ubuf, r_sq_head, r_cq_tail, r_phase,
              r_fetched, r_media>>

MCInit == part \in Parts /\ Init /\ Room!Init /\ (part = "room" => media = [l \in Lba |-> d0])

MCNext == /\ UNCHANGED part
          /\ \/ part = "full" /\ Next /\ UNCHANGED roomVars
             \/ part = "room" /\ Room!Next /\ UNCHANGED vars

Sections == Room!new_sqe_block \/ Room!new_sqe \/ Room!check_cq_entry \/ Room!check_cq_exit

\* The fairness of NvmeQP, while the part "room" moves.
MCSpec ==
  /\ MCInit /\ [][MCNext]_<<part, vars, roomVars>>
  /\ WF_roomVars(part = "room" /\ Sections) /\ WF_roomVars(part = "room" /\ Room!dev_fetch)
  /\ \A r \in {r1, r2} : WF_roomVars(part = "room" /\ Room!nvme_check_poll(r))
  /\ \A c \in 0 .. 2 : WF_roomVars(part = "room" /\
                                   \E cmd \in r_fetched : cmd.cid = c /\ Room!dev_complete(cmd))

\* With fewer requests than entries a request that is waited for is eventually
\* marked done: commands, doorbells and completions are not lost, and the loops
\* of new_sqe and check_cq end.
DoneWithRoom == \A r \in {r1, r2} :
  (r_hd[r].st = "wait" /\ r_done_flag[r_hd[r].cid] = 0)
    ~> (r_hd[r].st # "wait" \/ r_done_flag[r_hd[r].cid] = 1)
=============================================================================
