---------------------------- MODULE BlockService ----------------------------
(***************************************************************************)
(* What the NVMe layer promises its callers (nvme.h: nvme_read_req,        *)
(* nvme_write_req, nvme_check), without rings, CIDs, phases or doorbells.  *)
(*                                                                         *)
(* A request is issued, takes effect on the drive at one moment, is marked *)
(* done (a read's data is in the caller's buffer then), and is reported.   *)
(* A caller may also walk away from a write it has issued.  Requests take  *)
(* effect in any order.                                                    *)
(***************************************************************************)
CONSTANTS Req, Lba, Data

VARIABLES req, out, drive
bsVars == <<req, out, drive>>

State == {"idle", "issued", "executed", "done", "left", "leftExecuted"}

BSInit ==
  /\ req = [r \in Req |-> [st |-> "idle"]]
  /\ out \in [Req -> Data]
  /\ drive \in [Lba -> Data]

Issue(r, opc, l, d) ==
  /\ req[r].st = "idle"
  /\ req' = [req EXCEPT ![r] = [st |-> "issued", opc |-> opc, lba |-> l, val |-> d]]
  /\ UNCHANGED <<out, drive>>

\* The request takes effect; a read picks up the block it will deliver.
Execute(r) ==
  LET next == IF req[r].st = "issued" THEN "executed" ELSE "leftExecuted" IN
  /\ req[r].st \in {"issued", "left"}
  /\ \/ /\ req[r].opc = "read"
        /\ req' = [req EXCEPT ![r].st = next, ![r].val = drive[req[r].lba]]
        /\ drive' = drive
     \/ /\ req[r].opc = "write"
        /\ req' = [req EXCEPT ![r].st = next]
        /\ drive' = [drive EXCEPT ![req[r].lba] = req[r].val]
  /\ out' = out

Finish(r) ==
  /\ req[r].st = "executed"
  /\ req' = [req EXCEPT ![r].st = "done"]
  /\ out' = IF req[r].opc = "read" THEN [out EXCEPT ![r] = req[r].val] ELSE out
  /\ drive' = drive

Report(r) ==
  /\ req[r].st = "done"
  /\ req' = [req EXCEPT ![r] = [st |-> "idle"]]
  /\ UNCHANGED <<out, drive>>

Leave(r) ==
  /\ req[r].st # "idle" /\ req[r].opc = "write"
  /\ \/ req[r].st = "issued" /\ req' = [req EXCEPT ![r].st = "left"]
     \/ req[r].st = "executed" /\ req' = [req EXCEPT ![r].st = "leftExecuted"]
     \/ req[r].st = "done" /\ req' = [req EXCEPT ![r] = [st |-> "idle"]]
  /\ UNCHANGED <<out, drive>>

Forget(r) ==
  /\ req[r].st = "leftExecuted"
  /\ req' = [req EXCEPT ![r] = [st |-> "idle"]]
  /\ UNCHANGED <<out, drive>>

BSNext ==
  \E r \in Req:
    \/ \E opc \in {"read", "write"}, l \in Lba, d \in Data: Issue(r, opc, l, d)
    \/ Execute(r) \/ Finish(r) \/ Report(r) \/ Leave(r) \/ Forget(r)

BSSpec == BSInit /\ [][BSNext]_bsVars
=============================================================================
