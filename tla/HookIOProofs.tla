---------------------------- MODULE HookIOProofs ----------------------------
(***************************************************************************)
(* What read_impl and write_impl guarantee: the remaining steps keep the   *)
(* invariant of HookIOSteps (the polls, the end of a batch, the return and *)
(* the request service), and the properties follow from it.                *)
(***************************************************************************)
EXTENDS HookIOSteps

USE ZenonT(60)

LEMMA Less ==
  ASSUME NEW i \in Nat, NEW held \in Nat, NEW jj \in Nat, i + (held - 1) < jj
  PROVE  i = jj - held \/ i + held < jj
BY SMTT(60)

\* nvme_check reports the first request of rid[]; a read's block is copied.
LEMMA PollInv ==
  ASSUME HookAssumption, Sizes, IInv, Watch, NEW u \in Ult, Poll(u) PROVE IInv'
<1>1. ServiceOK /\ CallsOK /\ CountInv /\ MineInv /\ Distinct
  BY DEF IInv
<1>2. /\ call[u] \in CallRec /\ j[u] \in Nat /\ rq_k[u] \in Nat /\ k[u] \in Nat
      /\ rid[u] \in Seq(Req) /\ Len(rid[u]) \in Nat /\ DOMAIN rid[u] = 1 .. Len(rid[u])
      /\ pc[u] = "poll" /\ k[u] < rq_k[u] /\ call[u].pos \in Nat
      /\ UNCHANGED <<pc, call, j, rq_k, cur_pos, alloc>>
  BY <1>1, SMTT(60) DEF CallsOK, Poll, PollOne, CallRec
<1>3. /\ Len(rid[u]) > 0
      /\ Counted("poll", call[u], j[u], rq_k[u], k[u] + 1, Len(rid[u]) - 1)
      /\ Len(rid[u]) <= j[u]
  <2>1. Counted("poll", call[u], j[u], rq_k[u], k[u], Len(rid[u]))
    BY <1>1, <1>2 DEF CountInv
  <2>2. Len(rid[u]) <= j[u]
    BY <2>1 DEF Counted
  <2> QED BY <1>2, <2>1, <2>2, CountPoll
<1>4. PICK r \in Req : r = rid[u][1]
  BY <1>2, <1>3, SMTT(60)
<1>5. /\ Report(r) /\ k' = [k EXCEPT ![u] = k[u] + 1]
      /\ rid' = [rid EXCEPT ![u] = Tail(rid[u])]
      /\ buf' = IF call[u].op = "read"
                  THEN [buf EXCEPT ![u] = [buf[u] EXCEPT ![req[r].lba - call[u].pos] = out[r]]]
                  ELSE buf
  <2>1. Head(rid[u]) = r
    BY <1>2, <1>3, <1>4, SMTT(60)
  <2> QED BY <2>1 DEF Poll, PollOne
<1>6. /\ ServiceOK' /\ UNCHANGED <<out, drive>> /\ req[r].st = "done"
      /\ \A q \in Req \ {r} : req'[q] = req[q]
  BY <1>1, <1>5, ReportFacts
<1>7. /\ Tail(rid[u]) \in Seq(Req) /\ Len(Tail(rid[u])) = Len(rid[u]) - 1
      /\ DOMAIN Tail(rid[u]) = 1 .. Len(rid[u]) - 1
      /\ \A m \in 1 .. Len(rid[u]) - 1 : Tail(rid[u])[m] = rid[u][m + 1]
  BY <1>2, <1>3, SeqEmpty, SeqTail, SMTT(60)
<1>8. /\ rid'[u] = Tail(rid[u]) /\ k'[u] = k[u] + 1
      /\ \A v \in Ult \ {u} : SameAt(v)
  BY <1>1, <1>2, <1>5 DEF CallsOK, SameAt
<1>9. /\ Mine(u, 1) /\ req[r].lba \in Lba /\ req[r].lba \in Nat
      /\ req[r].lba = call[u].pos + (j[u] - Len(rid[u]))
  <2>1. 1 \in DOMAIN rid[u]
    BY <1>2, <1>3, SMTT(60)
  <2>2. Mine(u, 1)
    BY <1>1, <2>1 DEF MineInv
  <2>3. req[r].lba \in Lba /\ req[r].lba \in Nat
    BY <1>1, <1>4, <2>1, <2>2, MineBusy, LbaRange
  <2>4. At(req[r].lba, Len(rid[u]), call[u].pos, j[u], 1)
    BY <1>4, <2>2, HeldSays DEF Mine
  <2>5. /\ req[r].lba \in Nat /\ Len(rid[u]) \in Nat /\ call[u].pos \in Nat /\ j[u] \in Nat
        /\ 1 \in Nat /\ Len(rid[u]) <= j[u]
    BY <1>2, <1>3, <2>3
  <2>6. req[r].lba = call[u].pos + (j[u] - Len(rid[u]))
    BY <2>4, <2>5, AtTurn
  <2> QED BY <2>2, <2>3, <2>6
<1>10. j[u] - Len(rid[u]) \in Off
  <2>1. j[u] <= call[u].len /\ call[u].len \in 0 .. MaxLen /\ MaxLen \in Nat
    BY <1>1, <1>2 DEF CountInv, Counted, CallRec, HookAssumption
  <2> QED BY <1>2, <1>3, <2>1, SMTT(60) DEF Off
<1>11. req[r].lba - call[u].pos = j[u] - Len(rid[u])
  BY <1>2, <1>9, SMTT(60)
<1>12. CallsOK'
  <2>1. seen' \in [Ult -> [Lba -> SUBSET Data]]
    BY <1>1, <1>6, SeenGrows
  <2>2. k' \in [Ult -> Nat] /\ rid' \in [Ult -> Seq(Req)]
    BY <1>1, <1>2, <1>5, <1>7, SMTT(60) DEF CallsOK
  <2>3. buf' \in [Ult -> [Off -> Data \cup {NoData}]]
    <3>1. out[r] \in Data
      BY <1>1 DEF ServiceOK
    <3>2. buf \in [Ult -> [Off -> Data \cup {NoData}]]
      BY <1>1 DEF CallsOK
    <3>3. [buf[u] EXCEPT ![j[u] - Len(rid[u])] = out[r]] \in [Off -> Data \cup {NoData}]
      BY <3>1, <3>2
    <3> QED BY <1>5, <1>11, <3>2, <3>3
  <2> QED BY <1>1, <1>2, <2>1, <2>2, <2>3 DEF CallsOK
<1>13. Distinct'
  <2> SUFFICES ASSUME NEW v \in Ult, NEW w \in Ult, NEW m \in DOMAIN rid'[v],
                      NEW l \in DOMAIN rid'[w], rid'[v][m] = rid'[w][l]
               PROVE  v = w /\ m = l
    BY DEF Distinct
  <2>1. ASSUME NEW x \in Ult, NEW y \in DOMAIN rid'[x]
        PROVE  \/ x # u /\ y \in DOMAIN rid[x] /\ rid'[x][y] = rid[x][y]
               \/ x = u /\ y \in Nat /\ y + 1 \in DOMAIN rid[u] /\ rid'[x][y] = rid[u][y + 1]
    <3>1. CASE x = u
      <4>1. y \in 1 .. Len(rid[u]) - 1 /\ rid'[x][y] = rid[u][y + 1]
        BY <1>7, <1>8, <3>1
      <4>2. y \in Nat /\ y + 1 \in 1 .. Len(rid[u])
        BY <1>2, <4>1, SMTT(60)
      <4> QED BY <1>2, <3>1, <4>1, <4>2
    <3>2. CASE x # u
      BY <1>8, <3>2 DEF SameAt
    <3> QED BY <3>1, <3>2
  <2>2. CASE v = u /\ w = u
    <3>1. m \in Nat /\ l \in Nat /\ m + 1 = l + 1
      BY <1>1, <2>1, <2>2, SMTT(60) DEF Distinct
    <3> QED BY <2>2, <3>1, SMTT(60)
  <2>3. CASE v = u /\ w # u
    BY <1>1, <2>1, <2>3, SMTT(60) DEF Distinct
  <2>4. CASE v # u /\ w = u
    BY <1>1, <2>1, <2>4, SMTT(60) DEF Distinct
  <2>5. CASE v # u /\ w # u
    BY <1>1, <2>1, <2>5, SMTT(60) DEF Distinct
  <2> QED BY <2>2, <2>3, <2>4, <2>5
<1>14. \A v \in Ult : \A m \in DOMAIN rid[v] :
         rid[v][m] \in Req /\ (rid[v][m] = r => v = u /\ m = 1)
  <2>1. 1 \in DOMAIN rid[u]
    BY <1>2, <1>3, SMTT(60)
  <2> QED BY <1>1, <1>4, <2>1, MineBusy, SMTT(60) DEF MineInv, Distinct
<1>15. CallInv(u)'
  <2>1. Counted(pc[u], call[u], j[u], rq_k[u], k[u], Len(rid[u]))'
    BY <1>2, <1>3, <1>7, <1>8
  <2>2. pc[u] # "idle" /\ pc'[u] # "idle"
    BY <1>2
  <2>3. ASSUME NEW m \in DOMAIN rid'[u] PROVE Mine(u, m)'
    <3>1. /\ m \in Nat /\ m + 1 \in DOMAIN rid[u] /\ rid'[u][m] = rid[u][m + 1] /\ m + 1 # 1
      BY <1>2, <1>7, <1>8, SMTT(60)
    <3>2. PICK q \in Req : q = rid[u][m + 1] /\ q # r
      BY <1>14, <3>1
    <3>3. req'[q] = req[q] /\ out' = out
      BY <1>6, <3>2
    <3>4. Mine(u, m + 1) /\ req[q].lba \in Lba /\ req[q].lba \in Nat
      BY <1>1, <3>1, <3>2, MineBusy, LbaRange DEF MineInv
    <3>5. call[u].op = "read" => seen[u][req[q].lba] \subseteq seen'[u][req[q].lba]
      BY <1>1, <1>2, <1>6, <2>2, <3>4, SeenKept
    <3>6. At(req[q].lba, Len(rid'[u]), call[u].pos, j[u], m)
      <4>1. At(req[q].lba, Len(rid[u]), call[u].pos, j[u], m + 1)
        BY <3>2, <3>4, HeldSays DEF Mine
      <4>2. At(req[q].lba, Len(rid[u]) - 1, call[u].pos, j[u], m)
        BY <1>2, <1>3, <3>1, <3>4, <4>1, AtTurn
      <4> QED BY <1>7, <1>8, <4>2
    <3>7. Held(req[q], out[q], seen'[u], call[u], j[u], Len(rid'[u]), m)
      BY <3>2, <3>4, <3>5, <3>6, HeldOn DEF Mine
    <3>8. rid'[u][m] = q /\ call'[u] = call[u] /\ j'[u] = j[u]
      BY <1>2, <3>1, <3>2
    <3> QED BY <3>3, <3>7, <3>8 DEF Mine
  <2>4. ASSUME Reading(u)' PROVE Filled(u)' /\ \A p \in Lba: drive'[p] \in seen'[u][p]
    <3>1. Reading(u) /\ call[u].op = "read"
      BY <1>2, <2>4 DEF Reading
    <3>2. ASSUME NEW i \in Off, i + Len(rid'[u]) < j'[u]
          PROVE  buf'[u][i] \in seen'[u][call'[u].pos + i]
      <4>1. i \in Nat
        BY SMTT(60) DEF Off, HookAssumption
      <4>2. i = j[u] - Len(rid[u]) \/ i + Len(rid[u]) < j[u]
        <5>1. i + (Len(rid[u]) - 1) < j[u] /\ Len(rid[u]) \in Nat /\ j[u] \in Nat
          BY <1>2, <1>7, <1>8, <3>2
        <5> QED BY <4>1, <5>1, Less
      <4>3. buf'[u] = [buf[u] EXCEPT ![j[u] - Len(rid[u])] = out[r]]
        BY <1>1, <1>5, <1>11, <3>1 DEF CallsOK
      <4>4. CASE i = j[u] - Len(rid[u])
        <5>1. buf'[u][i] = out[r]
          BY <1>1, <4>3, <4>4 DEF CallsOK
        <5>2. out[r] \in seen[u][req[r].lba]
          BY <1>4, <1>6, <1>9, <3>1, HeldSays, SMTT(60) DEF Mine
        <5>3. seen[u][req[r].lba] \subseteq seen'[u][req[r].lba]
          BY <1>1, <1>6, <1>9, <2>4, SeenGrows
        <5>4. call'[u].pos + i = req[r].lba
          BY <1>2, <1>9, <4>4
        <5> QED BY <5>1, <5>2, <5>3, <5>4
      <4>5. CASE i + Len(rid[u]) < j[u]
        <5>1. buf'[u][i] = buf[u][i]
          BY <1>1, <1>2, <4>1, <4>3, <4>5, SMTT(60) DEF CallsOK
        <5>2. buf[u][i] \in seen[u][call[u].pos + i]
          BY <3>1, <4>5 DEF IInv, BufferInv, Filled
        <5>3. call[u].pos + i \in Lba
          <6>1. call[u].len \in Nat /\ Cardinality(Lba) \in Nat
            BY <1>2, LbaRange, SMTT(60) DEF CallRec
          <6>2. j[u] <= call[u].len /\ (call[u].len > 0 => call[u].pos + call[u].len <= Cardinality(Lba))
            BY <1>1 DEF CountInv, Counted
          <6>3. call[u].pos + i \in Nat /\ call[u].pos + i < Cardinality(Lba)
            BY <1>2, <4>1, <4>5, <6>1, <6>2, InRange
          <6> QED BY <6>3, LbaRange
        <5> QED BY <1>1, <1>2, <1>6, <2>4, <5>1, <5>2, <5>3, SeenGrows
      <4> QED BY <4>2, <4>4, <4>5
    <3> QED BY <1>1, <1>6, <2>4, <3>2, SeenGrows DEF Filled
  <2> QED BY <2>1, <2>3, <2>4 DEF CallInv
<1>16. ASSUME NEW v \in Ult \ {u} PROVE CallInv(v)'
  BY <1>6, <1>8, <1>14, OtherCalls
<1> QED BY <1>6, <1>12, <1>13, <1>15, <1>16, Assemble

\* The end of the polling loop.
LEMMA BatchEndInv ==
  ASSUME HookAssumption, Sizes, IInv, Watch, NEW u \in Ult, BatchEnd(u) PROVE IInv'
<1>1. ServiceOK /\ CallsOK /\ CountInv /\ MineInv
  BY DEF IInv
<1> DEFINE to == IF j[u] < call[u].len THEN "issue" ELSE "ret"
<1>2. /\ call[u] \in CallRec /\ j[u] \in Nat /\ rq_k[u] \in Nat /\ k[u] \in Nat
      /\ Len(rid[u]) \in Nat /\ pc[u] = "poll" /\ k[u] = rq_k[u]
      /\ pc' = [pc EXCEPT ![u] = to]
      /\ rq_k' = [rq_k EXCEPT ![u] = 0] /\ k' = [k EXCEPT ![u] = 0]
      /\ UNCHANGED <<req, out, drive, call, j, rid, buf, cur_pos, alloc>>
  BY <1>1, SMTT(60) DEF CallsOK, BatchEnd, EndBatch, bsVars
<1>3. Counted(to, call[u], j[u], 0, 0, Len(rid[u]))
  <2>1. Counted("poll", call[u], j[u], rq_k[u], k[u], Len(rid[u]))
    BY <1>1, <1>2 DEF CountInv
  <2> QED BY <1>2, <2>1, CountPoll
<1>4. to \in {"issue", "ret"}
  OBVIOUS
<1> HIDE DEF to
<1>5. ServiceOK'
  BY <1>1, <1>2 DEF ServiceOK
<1>6. CallsOK'
  <2>1. seen' \in [Ult -> [Lba -> SUBSET Data]]
    BY <1>1, <1>5, SeenGrows
  <2>2. /\ pc' \in [Ult -> {"idle", "issue", "poll", "ret", "abort"}]
        /\ rq_k' \in [Ult -> Nat] /\ k' \in [Ult -> Nat]
    BY <1>1, <1>2, <1>4 DEF CallsOK
  <2> QED BY <1>1, <1>2, <2>1, <2>2 DEF CallsOK
<1>7. Distinct'
  BY <1>2, SMTT(60) DEF IInv, Distinct
<1>8. CallInv(u)'
  <2>1. pc'[u] = to /\ rq_k'[u] = 0 /\ k'[u] = 0 /\ pc[u] # "idle" /\ pc'[u] # "idle"
    BY <1>1, <1>2, <1>4 DEF CallsOK
  <2>2. Counted(pc[u], call[u], j[u], rq_k[u], k[u], Len(rid[u]))'
    BY <1>2, <1>3, <2>1
  <2>3. ASSUME NEW m \in DOMAIN rid'[u] PROVE Mine(u, m)'
    <3>1. Mine(u, m) /\ m \in DOMAIN rid[u]
      BY <1>1, <1>2 DEF MineInv
    <3> QED BY <1>1, <1>2, <1>5, <2>1, <3>1, MineFrame
  <2>4. ASSUME Reading(u)' PROVE Filled(u)' /\ \A p \in Lba: drive'[p] \in seen'[u][p]
    <3>1. Reading(u) /\ Filled(u)
      BY <1>2, <2>1, <2>4 DEF Reading, IInv, BufferInv
    <3> QED BY <1>1, <1>2, <1>5, <2>1, <3>1, FilledFrame
  <2> QED BY <2>2, <2>3, <2>4 DEF CallInv
<1>9. ASSUME NEW v \in Ult \ {u} PROVE CallInv(v)'
  <2>1. SameAt(v)
    BY <1>1, <1>2 DEF CallsOK, SameAt
  <2> QED BY <1>2, <1>5, <2>1, OtherCalls
<1> QED BY <1>5, <1>6, <1>7, <1>8, <1>9, Assemble

\* The call returns and leaves what it has not polled.
LEMMA ReturnInv ==
  ASSUME HookAssumption, Sizes, IInv, Watch, NEW u \in Ult, Return(u) PROVE IInv'
<1>1. ServiceOK /\ CallsOK /\ CountInv /\ MineInv /\ Distinct
  BY DEF IInv
<1>2. /\ call[u] \in CallRec /\ rid[u] \in Seq(Req) /\ Len(rid[u]) \in Nat
      /\ DOMAIN rid[u] = 1 .. Len(rid[u]) /\ call[u].fd \in Fd \cup {NoFd}
      /\ call[u].count \in Nat
  BY <1>1, SMTT(60) DEF CallsOK, CallRec
<1>3. /\ pc[u] = "ret" /\ pc' = [pc EXCEPT ![u] = "idle"] /\ call' = [call EXCEPT ![u] = NoCall]
      /\ j' = [j EXCEPT ![u] = 0] /\ rid' = [rid EXCEPT ![u] = <<>>]
      /\ buf' = [buf EXCEPT ![u] = [i \in Off |-> NoData]]
      /\ UNCHANGED <<rq_k, k, alloc>>
      /\ cur_pos' = IF call[u].fd = NoFd THEN cur_pos
                    ELSE [cur_pos EXCEPT ![call[u].fd] = cur_pos[call[u].fd] + call[u].count]
  BY DEF Return
<1>4. /\ ServiceOK'
      /\ \A v \in Ult \ {u} : \A m \in DOMAIN rid[v] :
           req'[rid[v][m]] = req[rid[v][m]] /\ out'[rid[v][m]] = out[rid[v][m]]
  <2>1. CASE rid[u] = <<>>
    BY <1>1, <2>1 DEF Return, bsVars, ServiceOK
  <2>2. CASE rid[u] # <<>>
    <3>1. 1 \in DOMAIN rid[u] /\ Head(rid[u]) = rid[u][1]
      BY <1>2, <2>2, SeqEmpty, SMTT(60)
    <3>2. PICK r \in Req : r = rid[u][1] /\ Leave(r)
      <4>1. rid[u][1] \in Req /\ Leave(rid[u][1])
        BY <1>2, <2>2, <3>1, SMTT(60) DEF Return
      <4> QED BY <4>1
    <3>3. ServiceOK' /\ out' = out /\ \A q \in Req \ {r} : req'[q] = req[q]
      BY <1>1, <3>2, LeaveFacts
    <3>4. ASSUME NEW v \in Ult \ {u}, NEW m \in DOMAIN rid[v]
          PROVE  rid[v][m] \in Req \ {r}
      BY <1>1, <3>1, <3>2, MineBusy DEF MineInv, Distinct
    <3> QED BY <3>3, <3>4
  <2> QED BY <2>1, <2>2
<1>5. CallsOK'
  <2>1. seen' \in [Ult -> [Lba -> SUBSET Data]]
    BY <1>1, <1>4, SeenGrows
  <2>2. /\ pc' \in [Ult -> {"idle", "issue", "poll", "ret", "abort"}] /\ j' \in [Ult -> Nat]
        /\ call' \in [Ult -> CallRec] /\ buf' \in [Ult -> [Off -> Data \cup {NoData}]]
    BY <1>1, <1>3, Defaults DEF CallsOK
  <2>3. rid' \in [Ult -> Seq(Req)]
    BY <1>1, <1>3, SeqEmpty DEF CallsOK
  <2>4. cur_pos' \in [Fd -> Nat]
    BY <1>1, <1>2, <1>3, SMTT(60) DEF CallsOK
  <2> QED BY <1>1, <1>3, <2>1, <2>2, <2>3, <2>4 DEF CallsOK
<1>6. rid'[u] = <<>> /\ Len(rid'[u]) = 0 /\ pc'[u] = "idle" /\ call'[u] = NoCall /\ j'[u] = 0
  BY <1>1, <1>3, SeqEmpty DEF CallsOK
<1>7. \A v \in Ult \ {u} : SameAt(v)
  BY <1>1, <1>3 DEF CallsOK, SameAt
<1>8. Distinct'
  BY <1>1, <1>6, <1>7, SMTT(60) DEF Distinct, SameAt
<1>9. CallInv(u)'
  <2>1. rq_k'[u] = 0 /\ k'[u] = 0
    BY <1>1, <1>3 DEF CountInv, Counted
  <2>2. Counted("idle", NoCall, 0, 0, 0, 0)
    <3>1. NoCall.len = 0
      BY DEF NoCall
    <3> QED BY <3>1, SMTT(60) DEF Counted
  <2>3. Counted(pc[u], call[u], j[u], rq_k[u], k[u], Len(rid[u]))'
    BY <1>6, <2>1, <2>2
  <2> QED BY <1>6, <2>3, SMTT(60) DEF CallInv, Reading
<1>10. ASSUME NEW v \in Ult \ {u} PROVE CallInv(v)'
  BY <1>4, <1>7, OtherCalls
<1> QED BY <1>4, <1>5, <1>8, <1>9, <1>10, Assemble

\* The controller and check_cq: a call's request takes effect or is finished.
LEMMA ServeInv ==
  ASSUME HookAssumption, Sizes, IInv, Watch, NEW r \in Req, Serve(r) PROVE IInv'
<1>1. ServiceOK /\ CallsOK /\ CountInv /\ MineInv /\ Distinct
  BY DEF IInv
<1>2. UNCHANGED <<pc, call, j, rq_k, k, rid, buf, cur_pos, alloc>>
  BY DEF Serve, callVars
<1>3. /\ ServiceOK'
      /\ \A q \in Req \ {r} : req'[q] = req[q] /\ out'[q] = out[q]
      /\ \/ /\ req[r].st \in {"issued", "left"} /\ out' = out
            /\ req[r].st = "issued" => req'[r].st = "executed"
            /\ req'[r].opc = req[r].opc /\ req'[r].lba = req[r].lba
            /\ req[r].opc = "read" => req'[r].val = drive'[req[r].lba]
         \/ /\ req[r].st = "executed" /\ req'[r].st = "done"
            /\ req'[r].opc = req[r].opc /\ req'[r].lba = req[r].lba
            /\ req[r].opc = "read" => out'[r] = req[r].val
         \/ req[r].st = "leftExecuted"
  <2>1. CASE Execute(r)
    BY <1>1, <2>1, ExecuteFacts
  <2>2. CASE Finish(r)
    BY <1>1, <2>2, FinishFacts
  <2>3. CASE Forget(r)
    BY <1>1, <2>3, ForgetFacts
  <2> QED BY <2>1, <2>2, <2>3 DEF Serve
<1>4. CallsOK'
  <2>1. seen' \in [Ult -> [Lba -> SUBSET Data]]
    BY <1>1, <1>3, SeenGrows
  <2> QED BY <1>1, <1>2, <2>1 DEF CallsOK
<1>5. Distinct'
  BY <1>1, <1>2, SMTT(60) DEF Distinct
<1>6. ASSUME NEW v \in Ult PROVE CallInv(v)'
  <2>1. Counted(pc[v], call[v], j[v], rq_k[v], k[v], Len(rid[v]))'
    BY <1>1, <1>2 DEF CountInv
  <2>2. ASSUME NEW m \in DOMAIN rid[v] PROVE Mine(v, m)'
    <3>0. Len(rid[v]) # 0
      BY <1>1, SMTT(60) DEF CallsOK
    <3>1. pc[v] # "idle" /\ Mine(v, m)
      BY <1>1, <3>0 DEF CountInv, Counted, MineInv
    <3>2. rid[v][m] \in Req /\ req[rid[v][m]].lba \in Lba
      BY <1>1, <3>1, MineBusy
    <3>3. CASE rid[v][m] # r
      BY <1>1, <1>2, <1>3, <3>1, <3>2, <3>3, MineFrame
    <3>4. CASE rid[v][m] = r
      <4>1. call[v].op = "read" =>
              /\ drive'[req[r].lba] \in seen'[v][req[r].lba]
              /\ seen[v][req[r].lba] \subseteq seen'[v][req[r].lba]
        BY <1>1, <1>2, <1>3, <3>1, <3>2, <3>4, SeenKept
      <4>2. /\ req[r].st \in {"issued", "executed", "done"} /\ req[r].opc = call[v].op
            /\ At(req[r].lba, Len(rid[v]), call[v].pos, j[v], m)
            /\ call[v].op = "read" /\ req[r].st = "executed" => req[r].val \in seen[v][req[r].lba]
        <5>1. Held(req[r], out[r], seen[v], call[v], j[v], Len(rid[v]), m)
          BY <3>1, <3>4 DEF Mine
        <5> QED BY <5>1, HeldSays, SMTT(60)
      <4>5. ASSUME req'[r].opc = call[v].op, req'[r].lba = req[r].lba,
                   req'[r].st \in {"executed", "done"},
                   call[v].op = "read" /\ req'[r].st = "executed" => req'[r].val \in seen'[v][req[r].lba],
                   call[v].op = "read" /\ req'[r].st = "done" => out'[r] \in seen'[v][req[r].lba]
            PROVE  Mine(v, m)'
        <5>1. Held(req'[r], out'[r], seen'[v], call[v], j[v], Len(rid[v]), m)
          BY <4>2, <4>5, HeldIs, SMTT(60)
        <5> QED BY <1>2, <3>4, <5>1 DEF Mine
      <4>3. CASE req[r].st = "issued"
        BY <1>3, <4>1, <4>2, <4>3, <4>5
      <4>4. CASE req[r].st = "executed"
        BY <1>3, <4>1, <4>2, <4>4, <4>5
      <4> QED BY <1>3, <4>2, <4>3, <4>4
    <3> QED BY <3>3, <3>4
  <2>3. ASSUME Reading(v)' PROVE Filled(v)' /\ \A p \in Lba: drive'[p] \in seen'[v][p]
    <3>1. Reading(v) /\ Filled(v) /\ pc'[v] # "idle"
      BY <1>2, <2>3 DEF Reading, IInv, BufferInv
    <3> QED BY <1>1, <1>2, <1>3, <3>1, FilledFrame
  <2> QED BY <1>2, <2>1, <2>2, <2>3 DEF CallInv
<1> QED BY <1>3, <1>4, <1>5, <1>6, Assemble

\* The arguments with which a call begins.
LEMMA CallBegins ==
  ASSUME HookAssumption, Sizes, CallsOK, NEW u \in Ult, Call(u)
  PROVE  \E op \in {"read", "write"}, fd \in Fd \cup {NoFd}, pos \in Nat,
            count \in 1 .. MaxLen, d \in Data :
           /\ Begin(u, op, fd, pos, count, d)
           /\ op = "write" => WriteAt(pos, count)
<1>1. AnyData \in Data /\ cur_pos \in [Fd -> Nat] /\ \A l \in Lba : l \in Nat
  BY Defaults, LbaRange DEF CallsOK
<1>2. PICK count \in 1 .. MaxLen :
        \/ \E fd \in Fd: Read(u, fd, count)
        \/ \E pos \in Lba: PRead(u, pos, count)
        \/ \E fd \in Fd, d \in Data: Write(u, fd, count, d)
        \/ \E pos \in Lba, d \in Data: PWrite(u, pos, count, d)
  BY DEF Call
<1>3. ASSUME NEW fd \in Fd, Read(u, fd, count)
      PROVE  Begin(u, "read", fd, cur_pos[fd], count, AnyData) /\ cur_pos[fd] \in Nat
  BY <1>1, <1>3 DEF Read
<1>4. ASSUME NEW pos \in Lba, PRead(u, pos, count)
      PROVE  Begin(u, "read", NoFd, pos, count, AnyData) /\ pos \in Nat
  BY <1>1, <1>4 DEF PRead
<1>5. ASSUME NEW fd \in Fd, NEW d \in Data, Write(u, fd, count, d)
      PROVE  /\ Begin(u, "write", fd, cur_pos[fd], count, d) /\ cur_pos[fd] \in Nat
             /\ WriteAt(cur_pos[fd], count)
  BY <1>1, <1>5 DEF Write
<1>6. ASSUME NEW pos \in Lba, NEW d \in Data, PWrite(u, pos, count, d)
      PROVE  Begin(u, "write", NoFd, pos, count, d) /\ pos \in Nat /\ WriteAt(pos, count)
  BY <1>1, <1>6 DEF PWrite
<1> QED BY <1>1, <1>2, <1>3, <1>4, <1>5, <1>6

LEMMA NextInv == ASSUME HookAssumption, Sizes, IInv, [Next]_vars PROVE IInv'
<1>1. CASE Next
  <2>1. Watch
    BY <1>1 DEF Next
  <2>2. ASSUME NEW u \in Ult, Call(u) PROVE IInv'
    <3>1. CallsOK
      BY DEF IInv
    <3>2. PICK op \in {"read", "write"}, fd \in Fd \cup {NoFd}, pos \in Nat,
               count \in 1 .. MaxLen, d \in Data :
                 /\ Begin(u, op, fd, pos, count, d)
                 /\ op = "write" => WriteAt(pos, count)
      BY <2>2, <3>1, CallBegins
    <3> QED BY <2>1, <3>2, BeginInv DEF WriteAt
  <2>3. ASSUME NEW u \in Ult, Step(u) PROVE IInv'
    BY <2>1, <2>3, IssueReadInv, IssueWriteInv, PollInv, BatchEndInv, ReturnInv DEF Step
  <2>4. ASSUME NEW r \in Req, Serve(r) PROVE IInv'
    BY <2>1, <2>4, ServeInv
  <2> QED BY <1>1, <2>2, <2>3, <2>4 DEF Next
<1>2. CASE UNCHANGED vars
  <2>1. UNCHANGED <<req, out, drive, pc, call, j, rq_k, k, rid, buf, cur_pos, alloc, seen>>
    BY <1>2 DEF vars, bsVars, callVars
  <2>2. ServiceOK' /\ CallsOK' /\ CountInv' /\ Distinct'
    BY <2>1, SMTT(60) DEF IInv, ServiceOK, CallsOK, CountInv, Distinct
  <2>3. MineInv'
    BY <2>1 DEF IInv, MineInv, Mine
  <2>4. BufferInv'
    BY <2>1 DEF IInv, BufferInv, Filled, Reading
  <2> QED BY <2>2, <2>3, <2>4 DEF IInv
<1> QED BY <1>1, <1>2

-----------------------------------------------------------------------------
(* A file without holes. *)

\* The positions of a dense file.
LEMMA DenseSize ==
  ASSUME Sizes, NEW n \in Nat
  PROVE  /\ Cardinality(0 .. n - 1) = n
         /\ \A x \in Nat : x < n <=> x \in 0 .. n - 1
         /\ (0 .. n - 1) \cup {n} = 0 .. (n + 1) - 1
BY SMTT(60) DEF Sizes

\* A step that changes neither the file nor a write's progress.
Kept(u) ==
  \/ pc'[u] = "idle"
  \/ /\ pc'[u] # "abort" /\ pc[u] # "idle" /\ call'[u] = call[u]
     /\ call[u].op # "read" => j'[u] = j[u]
LEMMA DenseFrame ==
  ASSUME Dense, alloc' = alloc, \A u \in Ult : Kept(u)
  PROVE  Dense'
<1>1. ASSUME NEW u \in Ult
      PROVE  /\ pc'[u] # "abort"
             /\ pc'[u] # "idle" /\ call'[u].len > 0 =>
                  IF call'[u].op = "read" THEN call'[u].pos + call'[u].len <= Cardinality(alloc)
                                          ELSE call'[u].pos + j'[u] <= Cardinality(alloc)
  BY DEF Dense, Kept
<1> QED BY <1>1 DEF Dense

LEMMA NextDense == ASSUME HookAssumption, Sizes, IInv, DenseInv, [Next]_vars PROVE DenseInv'
<1> SUFFICES ASSUME ~Sparse PROVE Dense'
  BY DEF DenseInv
<1>1. CallsOK /\ CountInv /\ Dense
  BY DEF IInv, DenseInv
<1>2. PICK n \in Nat : alloc = 0 .. n - 1 /\ Cardinality(alloc) = n /\ n <= Cardinality(Lba)
  <2>1. PICK n \in 0 .. Cardinality(Lba) : alloc = 0 .. n - 1
    BY <1>1 DEF Dense
  <2> QED BY <2>1, LbaRange, DenseSize, SMTT(60)
<1>3. \A u \in Ult : /\ pc[u] # "abort" /\ call[u] \in CallRec /\ call[u].pos \in Nat
                     /\ call[u].len \in Nat /\ j[u] \in Nat
  BY <1>1, SMTT(60) DEF CallsOK, CallRec, Dense
<1>4. ASSUME NEW u \in Ult, Call(u) PROVE Dense'
  <2>1. PICK op \in {"read", "write"}, fd \in Fd \cup {NoFd}, pos \in Nat,
             count \in 1 .. MaxLen, d \in Data :
               /\ Begin(u, op, fd, pos, count, d)
               /\ op = "write" => WriteAt(pos, count)
    BY <1>1, <1>4, CallBegins
  <2> DEFINE len == IF op = "read" THEN ReadLen(pos, count) ELSE count
             c == [op |-> op, fd |-> fd, pos |-> pos, len |-> len, count |-> count, data |-> d]
  <2>2. /\ pc[u] = "idle" /\ UNCHANGED <<j, alloc>>
        /\ call' = [call EXCEPT ![u] = c]
        /\ pc' = [pc EXCEPT ![u] = IF len > 0 THEN "issue" ELSE "ret"]
    BY <2>1 DEF Begin
  <2>3. c.len > 0 => IF c.op = "read" THEN c.pos + c.len <= Cardinality(alloc)
                                      ELSE c.pos <= Cardinality(alloc)
    <3>1. CASE op = "read"
      <4>1. alloc \in SUBSET Lba
        BY <1>1 DEF CallsOK
      <4> QED BY <3>1, <4>1, ReadLenFacts
    <3>2. CASE op = "write"
      BY <2>1, <3>2 DEF WriteAt, myfs_get_size
    <3> QED BY <3>1, <3>2
  <2> HIDE DEF len, c
  <2>4. j[u] = 0
    BY <1>1, <2>2 DEF CountInv, Counted
  <2>5. c.pos + j[u] = c.pos
    <3>1. c.pos \in Nat
      BY DEF c
    <3> QED BY <2>4, <3>1, SMTT(60)
  <2>6. /\ pc'[u] # "abort" /\ call'[u] = c /\ j'[u] = j[u]
        /\ \A v \in Ult \ {u} : pc'[v] = pc[v] /\ call'[v] = call[v] /\ j'[v] = j[v]
    BY <1>1, <2>2 DEF CallsOK
  <2>7. \E m \in 0 .. Cardinality(Lba) : alloc' = 0 .. m - 1
    BY <1>1, <2>2 DEF Dense
  <2>8. ASSUME NEW v \in Ult
        PROVE  /\ pc'[v] # "abort"
               /\ pc'[v] # "idle" /\ call'[v].len > 0 =>
                    IF call'[v].op = "read"
                      THEN call'[v].pos + call'[v].len <= Cardinality(alloc)
                      ELSE call'[v].pos + j'[v] <= Cardinality(alloc)
    <3>1. CASE v = u
      BY <2>3, <2>5, <2>6, <3>1
    <3>2. CASE v # u
      BY <1>1, <2>6, <3>2 DEF Dense
    <3> QED BY <3>1, <3>2
  <2> QED BY <2>2, <2>7, <2>8 DEF Dense
<1>5. ASSUME NEW u \in Ult, IssueRead(u) PROVE Dense'
  <2>1. call[u].pos + j[u] \in alloc
    <3>1. /\ j[u] < call[u].len /\ call[u].pos + call[u].len <= n
      <4>1. pc[u] = "issue" /\ call[u].op = "read"
        BY <1>5 DEF IssueRead
      <4>2. j[u] < call[u].len
        BY <1>1, <4>1 DEF CountInv, Counted
      <4>3. call[u].len > 0
        BY <1>3, <4>2, SMTT(60)
      <4> QED BY <1>1, <1>2, <4>1, <4>2, <4>3 DEF Dense
    <3>2. call[u].pos + j[u] \in Nat /\ call[u].pos + j[u] < n
      BY <1>3, <3>1, SMTT(60)
    <3> QED BY <1>2, <3>2, DenseSize
  <2>2. /\ pc[u] = "issue" /\ call[u].op = "read" /\ UNCHANGED <<call, alloc>>
        /\ j' = [j EXCEPT ![u] = j[u] + 1]
        /\ pc' = [pc EXCEPT ![u] = IF ReadBatchFull(u) THEN "poll" ELSE "issue"]
    BY <1>5, <2>1 DEF IssueRead
  <2>3. /\ pc'[u] \in {"poll", "issue"}
        /\ \A v \in Ult \ {u} : pc'[v] = pc[v] /\ j'[v] = j[v]
    BY <1>1, <2>2 DEF CallsOK
  <2> QED BY <1>1, <1>3, <2>2, <2>3, DenseFrame DEF Kept
<1>6. ASSUME NEW u \in Ult, IssueWrite(u) PROVE Dense'
  <2> DEFINE x == call[u].pos + j[u]
  <2>1. /\ pc[u] = "issue" /\ call[u].op = "write" /\ call' = call
        /\ j' = [j EXCEPT ![u] = j[u] + 1] /\ alloc' = alloc \cup {x}
        /\ pc' = [pc EXCEPT ![u] =
                    IF LastWrite(u) \/ WriteBatchFull(u) THEN "poll" ELSE "issue"]
    BY <1>6 DEF IssueWrite, WriteTurn
  <2>2. j[u] < call[u].len /\ (call[u].len > 0 => call[u].pos + call[u].len <= Cardinality(Lba))
    BY <1>1, <2>1 DEF CountInv, Counted
  <2>3. x \in Nat /\ x <= n /\ x < Cardinality(Lba) /\ Cardinality(Lba) \in Nat
    <3>1. call[u].len > 0
      BY <1>3, <2>2, SMTT(60)
    <3>2. x <= n
      BY <1>1, <1>2, <2>1, <3>1 DEF Dense
    <3> QED BY <1>3, <2>2, <3>1, <3>2, LbaRange, SMTT(60)
  <2>4. PICK m \in 0 .. Cardinality(Lba) :
          /\ alloc' = 0 .. m - 1 /\ Cardinality(alloc') = m /\ n <= m /\ x + 1 <= m
    <3>1. CASE x = n
      <4>1. alloc' = 0 .. (n + 1) - 1 /\ Cardinality(alloc') = n + 1
        <5>1. alloc' = 0 .. (n + 1) - 1
          BY <1>2, <2>1, <3>1, DenseSize
        <5>2. n + 1 \in Nat
          BY SMTT(60)
        <5> QED BY <5>1, <5>2, DenseSize
      <4> QED BY <2>3, <3>1, <4>1, SMTT(60)
    <3>2. CASE x # n
      <4>1. x \in alloc /\ x + 1 <= n
        BY <1>2, <2>3, <3>2, DenseSize, SMTT(60)
      <4>2. alloc' = alloc
        BY <2>1, <4>1
      <4> QED BY <1>2, <2>3, <4>1, <4>2, SMTT(60)
    <3> QED BY <3>1, <3>2
  <2>5. /\ pc'[u] \in {"poll", "issue"} /\ j'[u] = j[u] + 1
        /\ \A v \in Ult \ {u} : pc'[v] = pc[v] /\ j'[v] = j[v]
    BY <1>1, <2>1 DEF CallsOK
  <2>6. call[u].pos + (j[u] + 1) <= m
    BY <1>3, <2>4, SMTT(60)
  <2>7. ASSUME NEW v \in Ult
        PROVE  /\ pc'[v] # "abort"
               /\ pc'[v] # "idle" /\ call[v].len > 0 =>
                    IF call[v].op = "read" THEN call[v].pos + call[v].len <= m
                                           ELSE call[v].pos + j'[v] <= m
    <3>1. CASE v = u
      BY <2>1, <2>5, <2>6, <3>1
    <3>2. CASE v # u
      <4>1. /\ pc[v] # "abort"
            /\ pc[v] # "idle" /\ call[v].len > 0 =>
                 IF call[v].op = "read" THEN call[v].pos + call[v].len <= n
                                        ELSE call[v].pos + j[v] <= n
        BY <1>1, <1>2 DEF Dense
      <4> QED BY <1>3, <2>4, <2>5, <3>2, <4>1, SMTT(60)
    <3> QED BY <3>1, <3>2
  <2> QED BY <2>1, <2>4, <2>7 DEF Dense
<1>7. ASSUME NEW u \in Ult, Poll(u) PROVE Dense'
  BY <1>1, <1>7, DenseFrame DEF Kept, Poll, PollOne, Dense, CountInv, Counted
<1>8. ASSUME NEW u \in Ult, BatchEnd(u) PROVE Dense'
  <2>1. /\ pc[u] = "poll" /\ UNCHANGED <<call, j, alloc>>
        /\ pc' = [pc EXCEPT ![u] = IF j[u] < call[u].len THEN "issue" ELSE "ret"]
    BY <1>8 DEF BatchEnd, EndBatch
  <2>2. pc'[u] \in {"issue", "ret"} /\ \A v \in Ult \ {u} : pc'[v] = pc[v]
    BY <1>1, <2>1 DEF CallsOK
  <2> QED BY <1>1, <1>3, <2>1, <2>2, DenseFrame DEF Kept
<1>9. ASSUME NEW u \in Ult, Return(u) PROVE Dense'
  <2>1. /\ pc' = [pc EXCEPT ![u] = "idle"] /\ call' = [call EXCEPT ![u] = NoCall]
        /\ j' = [j EXCEPT ![u] = 0] /\ alloc' = alloc
    BY <1>9 DEF Return
  <2>2. pc'[u] = "idle" /\ \A v \in Ult \ {u} : pc'[v] = pc[v] /\ call'[v] = call[v] /\ j'[v] = j[v]
    BY <1>1, <2>1 DEF CallsOK
  <2> QED BY <1>1, <1>3, <2>1, <2>2, DenseFrame DEF Kept
<1>10. ASSUME UNCHANGED <<pc, call, j, alloc>> PROVE Dense'
  BY <1>1, <1>3, <1>10, DenseFrame DEF Kept
<1>11. CASE Next
  <2>1. ASSUME NEW u \in Ult, Step(u) PROVE Dense'
    BY <2>1, <1>5, <1>6, <1>7, <1>8, <1>9 DEF Step
  <2>2. ASSUME NEW r \in Req, Serve(r) PROVE Dense'
    BY <2>2, <1>10 DEF Serve, callVars
  <2> QED BY <1>4, <1>11, <2>1, <2>2 DEF Next
<1>12. CASE UNCHANGED vars
  BY <1>10, <1>12 DEF vars, callVars
<1> QED BY <1>11, <1>12

-----------------------------------------------------------------------------
(* What the invariant says *)

LEMMA TypeFollows ==
  ASSUME HookAssumption, Sizes, IInv PROVE TypeOK
<1>1. CallsOK /\ CountInv
  BY DEF IInv
<1>2. ASSUME NEW u \in Ult
      PROVE  /\ j[u] <= call[u].len /\ k[u] <= rq_k[u]
             /\ k[u] + Len(rid[u]) <= IF call[u].op = "read" THEN READ_DEG ELSE WRITE_DEG
             /\ \A i \in DOMAIN rid[u]: rid[u][i] \in Req
  <2>1. /\ pc[u] \in {"idle", "issue", "poll", "ret", "abort"}
        /\ k[u] \in Nat /\ rq_k[u] \in Nat /\ rid[u] \in Seq(Req) /\ Len(rid[u]) \in Nat
        /\ Deg(call[u]) \in Nat \ {0}
        /\ Deg(call[u]) = IF call[u].op = "read" THEN READ_DEG ELSE WRITE_DEG
    BY <1>1, SMTT(60) DEF CallsOK, HookAssumption, Deg
  <2>2. Counted(pc[u], call[u], j[u], rq_k[u], k[u], Len(rid[u]))
    BY <1>1 DEF CountInv
  <2>3. k[u] <= rq_k[u] /\ k[u] + Len(rid[u]) <= Deg(call[u])
    <3>1. call[u] \in CallRec /\ j[u] \in Nat
      BY <1>1 DEF CallsOK
    <3> QED BY <2>1, <2>2, <3>1, CountBounds
  <2> QED BY <2>1, <2>2, <2>3, SMTT(60) DEF Counted
<1> QED BY <1>1, <1>2 DEF TypeOK, CallsOK

LEMMA OwnRequestsFollows ==
  ASSUME HookAssumption, Sizes, IInv PROVE OwnRequests
<1>1. ASSUME NEW u \in Ult, NEW m \in DOMAIN rid[u]
      PROVE  req[rid[u][m]].st \in {"issued", "executed", "done"}
  <2>1. Mine(u, m)
    BY DEF IInv, MineInv
  <2> QED BY <2>1, HeldSays DEF Mine
<1> QED BY <1>1, SMTT(60) DEF IInv, Distinct, OwnRequests

LEMMA OnlyLastUnpolledFollows ==
  ASSUME HookAssumption, Sizes, IInv PROVE OnlyLastUnpolled
<1> SUFFICES ASSUME NEW u \in Ult, pc[u] = "ret", rid[u] # <<>>
             PROVE  /\ call[u].op = "write" /\ Len(rid[u]) = 1
                    /\ req[rid[u][1]].lba = call[u].pos + call[u].len - 1
  BY DEF OnlyLastUnpolled
<1>1. ServiceOK /\ CallsOK /\ CountInv /\ MineInv
  BY DEF IInv
<1>2. /\ rid[u] \in Seq(Req) /\ Len(rid[u]) # 0 /\ j[u] \in Nat /\ call[u].pos \in Nat
      /\ DOMAIN rid[u] = 1 .. Len(rid[u])
  BY <1>1, SeqEmpty, SMTT(60) DEF CallsOK, CallRec
<1>3. call[u].op = "write" /\ Len(rid[u]) = 1 /\ j[u] = call[u].len
  BY <1>1, <1>2 DEF CountInv, Counted
<1>4. 1 \in DOMAIN rid[u] /\ 1 \in Nat
  BY <1>2, <1>3, SMTT(60)
<1>5. Mine(u, 1) /\ req[rid[u][1]].lba \in Nat
  BY <1>1, <1>4, MineBusy, LbaRange DEF MineInv
<1>6. At(req[rid[u][1]].lba, 1, call[u].pos, j[u], 1)
  BY <1>3, <1>5, HeldSays, SMTT(60) DEF Mine
<1>7. req[rid[u][1]].lba = call[u].pos + j[u] - 1
  BY <1>2, <1>5, <1>6, AtLast
<1> QED BY <1>3, <1>7

LEMMA ReadDeliversFollows ==
  ASSUME HookAssumption, Sizes, IInv PROVE ReadDelivers
<1> SUFFICES ASSUME NEW u \in Ult, pc[u] = "ret", call[u].op = "read",
                    NEW i \in 0 .. call[u].len - 1
             PROVE  buf[u][i] \in seen[u][call[u].pos + i]
  BY DEF ReadDelivers
<1>1. CallsOK /\ CountInv /\ BufferInv
  BY DEF IInv
<1>2. call[u].len \in 0 .. MaxLen /\ MaxLen \in Nat
  BY <1>1 DEF CallsOK, CallRec, HookAssumption
<1>3. Len(rid[u]) = 0 /\ j[u] = call[u].len
  BY <1>1 DEF CountInv, Counted
<1>4. i \in Off /\ i + Len(rid[u]) < j[u]
  BY <1>2, <1>3, SMTT(60) DEF Off
<1> QED BY <1>1, <1>4 DEF BufferInv, Reading, Filled

LEMMA NoAssertFailureFollows ==
  ASSUME HookAssumption, Sizes, ~Sparse, DenseInv PROVE NoAssertFailure
BY DEF DenseInv, Dense, NoAssertFailure

-----------------------------------------------------------------------------
(* The theorems *)

FST == INSTANCE FiniteSetTheorems

LEMMA SizesHold == ASSUME HookAssumption PROVE Sizes
<1>1. \A S : (FST!IsFiniteSet(S) <=> IsFiniteSet(S)) /\ FST!Cardinality(S) = Cardinality(S)
  BY DEF FST!IsFiniteSet, IsFiniteSet, FST!Cardinality, Cardinality
<1>2. Cardinality(Lba) \in Nat
  BY <1>1, FST!FS_CardinalityType DEF HookAssumption
<1>3. \A S \in SUBSET Lba : Cardinality(S) \in 0 .. Cardinality(Lba)
  BY <1>1, <1>2, FST!FS_CardinalityType, FST!FS_Subset, SMTT(60) DEF HookAssumption
<1>4. \A n \in Nat : Cardinality(0 .. n - 1) = n
  BY <1>1, FST!FS_Interval, SMTT(60)
<1> QED BY <1>2, <1>3, <1>4 DEF Sizes

LEMMA Invariance == ASSUME HookAssumption PROVE Spec => [](IInv /\ DenseInv)
<1>1. Init => IInv /\ DenseInv
  BY SizesHold, InitInv
<1>2. IInv /\ DenseInv /\ [Next]_vars => (IInv /\ DenseInv)'
  BY SizesHold, NextInv, NextDense
<1> QED BY <1>1, <1>2, PTL DEF Spec

\* rid[READ_DEG] and rid[WRITE_DEG] are never overrun and the loop counters
\* stay within the call, for every degree, length and number of ULTs.
THEOREM TypeCorrect ==
  ASSUME HookAssumption PROVE Spec => []TypeOK
<1>1. IInv => TypeOK
  BY SizesHold, TypeFollows
<1> QED BY <1>1, Invariance, PTL

\* No request is polled by two calls or twice by one, and what rid[] holds has
\* been issued and not been reported, however calls and completions interleave.
THEOREM OwnRequestsCorrect ==
  ASSUME HookAssumption PROVE Spec => []OwnRequests
<1>1. IInv => OwnRequests
  BY SizesHold, OwnRequestsFollows
<1> QED BY <1>1, Invariance, PTL

\* A call that is done has polled all its requests but the last of a write.
THEOREM OnlyLastUnpolledCorrect ==
  ASSUME HookAssumption PROVE Spec => []OnlyLastUnpolled
<1>1. IInv => OnlyLastUnpolled
  BY SizesHold, OnlyLastUnpolledFollows
<1> QED BY <1>1, Invariance, PTL

\* When read_impl is done, every block of the range it was cut to is in the
\* caller's buffer, at its own offset, with contents the drive held during the
\* call, also when writes of other ULTs overlap it.
THEOREM ReadDeliversCorrect ==
  ASSUME HookAssumption PROVE Spec => []ReadDelivers
<1>1. IInv => ReadDelivers
  BY SizesHold, ReadDeliversFollows
<1> QED BY <1>1, Invariance, PTL

\* Where files have no holes, the assert of myfs_get_lba never fails in a read.
THEOREM NoAssertFailureCorrect ==
  ASSUME HookAssumption, ~Sparse PROVE Spec => []NoAssertFailure
<1>1. DenseInv => NoAssertFailure
  BY SizesHold, NoAssertFailureFollows
<1> QED BY <1>1, Invariance, PTL
=============================================================================
