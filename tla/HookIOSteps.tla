---------------------------- MODULE HookIOSteps -----------------------------
(***************************************************************************)
(* read_impl and write_impl keep their requests apart and deliver what     *)
(* they read, for any number of ULTs, requests, descriptors and blocks.    *)
(*                                                                         *)
(* The invariant says where a call is in its batch: rid[] holds the last   *)
(* Len(rid) requests of the j it has issued, in order, so that the request *)
(* polled next fills the first block of the buffer not yet filled.         *)
(***************************************************************************)
EXTENDS HookIO, TLAPS

USE ZenonT(60)

Busy == {"issued", "executed", "done", "left", "leftExecuted"}
IdleReq == [st: {"idle"}]
BusyReq == [st: Busy, opc: {"read", "write"}, lba: Lba, val: Data]
CallRec == [op: {"read", "write"}, fd: Fd \cup {NoFd}, pos: Nat, len: 0 .. MaxLen,
            count: Nat, data: Data]

\* The sizes of sets of blocks, as the library's theorems on finite sets give
\* them (SizesHold in HookIOProofs).
Sizes ==
  /\ Cardinality(Lba) \in Nat
  /\ \A S \in SUBSET Lba: Cardinality(S) \in 0 .. Cardinality(Lba)
  /\ \A n \in Nat: Cardinality(0 .. n - 1) = n

\* The request service's part of the state.
ServiceOK ==
  /\ req \in [Req -> IdleReq \cup BusyReq]
  /\ out \in [Req -> Data]
  /\ drive \in [Lba -> Data]

CallsOK ==
  /\ pc \in [Ult -> {"idle", "issue", "poll", "ret", "abort"}]
  /\ call \in [Ult -> CallRec]
  /\ j \in [Ult -> Nat] /\ rq_k \in [Ult -> Nat] /\ k \in [Ult -> Nat]
  /\ rid \in [Ult -> Seq(Req)]
  /\ buf \in [Ult -> [Off -> Data \cup {NoData}]]
  /\ cur_pos \in [Fd -> Nat]
  /\ alloc \in SUBSET Lba
  /\ seen \in [Ult -> [Lba -> SUBSET Data]]

\* How far a call is: the loop counters against the requests in rid[].
Deg(c) == IF c.op = "read" THEN READ_DEG ELSE WRITE_DEG
Counted(p, c, jj, n, kk, held) ==
  /\ jj <= c.len
  /\ c.len > 0 => c.pos + c.len <= Cardinality(Lba)
  /\ held <= jj
  /\ p = "idle" => jj = 0 /\ n = 0 /\ kk = 0 /\ held = 0
  /\ p = "issue" => jj < c.len /\ kk = 0 /\ held = n /\ n < Deg(c)
  /\ p = "poll" => /\ kk <= n /\ n <= Deg(c)
                   /\ IF c.op = "write" /\ jj = c.len
                        THEN held + kk = n + 1 /\ n < Deg(c)
                        ELSE held + kk = n
  /\ p = "ret" => /\ n = 0 /\ kk = 0 /\ jj = c.len
                  /\ held = 0 \/ (held = 1 /\ c.op = "write")
  /\ p = "abort" => kk = 0 /\ held = n /\ n < Deg(c)
CountInv ==
  \A u \in Ult: Counted(pc[u], call[u], j[u], rq_k[u], k[u], Len(rid[u]))

\* The position of the m-th of the held requests, the last of the jj issued.
At(l, held, pos, jj, m) == l + held + 1 = pos + jj + m

\* The m-th of n held requests of a call c that has issued jj: what it is for,
\* and what it carries, s being the contents that the call may have seen.
Held(q, o, s, c, jj, n, m) ==
  /\ q.st \in {"issued", "executed", "done"}
  /\ q.opc = c.op
  /\ At(q.lba, n, c.pos, jj, m)
  /\ c.op = "read" /\ q.st = "executed" => q.val \in s[q.lba]
  /\ c.op = "read" /\ q.st = "done" => o \in s[q.lba]
Mine(u, m) ==
  Held(req[rid[u][m]], out[rid[u][m]], seen[u], call[u], j[u], Len(rid[u]), m)
MineInv == \A u \in Ult: \A m \in DOMAIN rid[u]: Mine(u, m)

Distinct ==
  \A u, v \in Ult: \A m \in DOMAIN rid[u], n \in DOMAIN rid[v]:
    rid[u][m] = rid[v][n] => u = v /\ m = n

\* What has been polled is in the buffer.
Filled(u) ==
  \A i \in Off: i + Len(rid[u]) < j[u] => buf[u][i] \in seen[u][call[u].pos + i]
Reading(u) == pc[u] # "idle" /\ call[u].op = "read"
BufferInv ==
  \A u \in Ult: Reading(u) => Filled(u) /\ \A p \in Lba: drive[p] \in seen[u][p]

IInv == ServiceOK /\ CallsOK /\ CountInv /\ MineInv /\ Distinct /\ BufferInv

\* Without holes the file is an initial segment, which a call stays within.
Dense ==
  /\ \E n \in 0 .. Cardinality(Lba): alloc = 0 .. n - 1
  /\ \A u \in Ult:
       /\ pc[u] # "abort"
       /\ pc[u] # "idle" /\ call[u].len > 0 =>
            IF call[u].op = "read" THEN call[u].pos + call[u].len <= Cardinality(alloc)
                                   ELSE call[u].pos + j[u] <= Cardinality(alloc)
DenseInv == ~Sparse => Dense

-----------------------------------------------------------------------------
(* Sequences *)

LEMMA SeqEmpty ==
  ASSUME NEW S
  PROVE  /\ <<>> \in Seq(S) /\ Len(<<>>) = 0
         /\ \A s \in Seq(S) : s # <<>> => Len(s) \in Nat /\ Len(s) > 0
  BY SMTT(60)

LEMMA SeqTail ==
  ASSUME NEW S, NEW s \in Seq(S), s # <<>>
  PROVE  /\ Tail(s) \in Seq(S) /\ Len(Tail(s)) = Len(s) - 1
         /\ DOMAIN Tail(s) = 1 .. Len(s) - 1
         /\ \A m \in 1 .. Len(s) - 1 : Tail(s)[m] = s[m + 1]
  BY SMTT(60)

LEMMA SeqAppend ==
  ASSUME NEW S, NEW s \in Seq(S), NEW e \in S
  PROVE  /\ Append(s, e) \in Seq(S) /\ Len(Append(s, e)) = Len(s) + 1
         /\ DOMAIN Append(s, e) = 1 .. Len(s) + 1
         /\ \A m \in 1 .. Len(s) : Append(s, e)[m] = s[m]
         /\ Append(s, e)[Len(s) + 1] = e
  BY SMTT(60)

-----------------------------------------------------------------------------
(* The request service *)

LEMMA Defaults ==
  ASSUME HookAssumption, Sizes
  PROVE  AnyData \in Data /\ NoCall \in CallRec
BY SMTT(60) DEF HookAssumption, AnyData, NoCall, CallRec

LEMMA LbaRange ==
  ASSUME HookAssumption, Sizes
  PROVE  /\ Cardinality(Lba) \in Nat
         /\ \A x : x \in Lba <=> x \in Nat /\ x < Cardinality(Lba)
<1>1. PICK n : n = Cardinality(Lba)
  OBVIOUS
<1>2. n \in Nat /\ Lba = 0 .. n - 1
  BY <1>1 DEF HookAssumption, Sizes
<1>3. \A x : x \in 0 .. n - 1 <=> x \in Nat /\ x < n
  BY <1>2, SMTT(60)
<1> QED BY <1>1, <1>2, <1>3

\* nvme_read_req or nvme_write_req: an idle request is issued.
LEMMA IssueFacts ==
  ASSUME ServiceOK, NEW r \in Req, NEW opc \in {"read", "write"}, NEW l \in Lba,
         NEW d \in Data, Issue(r, opc, l, d)
  PROVE  /\ ServiceOK' /\ UNCHANGED <<out, drive>>
         /\ req[r].st = "idle"
         /\ req'[r].st = "issued" /\ req'[r].opc = opc /\ req'[r].lba = l
         /\ \A q \in Req \ {r} : req'[q] = req[q]
BY DEF ServiceOK, Issue, IdleReq, BusyReq, Busy

\* nvme_check reports a request.
LEMMA ReportFacts ==
  ASSUME ServiceOK, NEW r \in Req, Report(r)
  PROVE  /\ ServiceOK' /\ UNCHANGED <<out, drive>>
         /\ req[r].st = "done"
         /\ \A q \in Req \ {r} : req'[q] = req[q]
BY DEF ServiceOK, Report, IdleReq, BusyReq, Busy

\* A record of a busy request, with another state.
LEMMA BusyState ==
  ASSUME NEW q \in IdleReq \cup BusyReq, q.st # "idle", NEW s \in Busy
  PROVE  /\ q \in BusyReq /\ [q EXCEPT !.st = s] \in BusyReq
         /\ [q EXCEPT !.st = s].st = s /\ [q EXCEPT !.st = s].opc = q.opc
         /\ [q EXCEPT !.st = s].lba = q.lba /\ [q EXCEPT !.st = s].val = q.val
BY DEF IdleReq, BusyReq

\* write_impl leaves a request behind.
LEMMA LeaveFacts ==
  ASSUME ServiceOK, NEW r \in Req, Leave(r)
  PROVE  /\ ServiceOK' /\ UNCHANGED <<out, drive>>
         /\ \A q \in Req \ {r} : req'[q] = req[q]
<1>1. /\ req \in [Req -> IdleReq \cup BusyReq] /\ UNCHANGED <<out, drive>>
      /\ req[r] \in IdleReq \cup BusyReq /\ req[r].st # "idle"
  BY DEF ServiceOK, Leave
<1>2. \/ \E s \in Busy : req' = [req EXCEPT ![r] = [req[r] EXCEPT !.st = s]]
      \/ req' = [req EXCEPT ![r] = [st |-> "idle"]]
  <2>1. CASE req' = [req EXCEPT ![r].st = "left"]
    BY <1>1, <2>1 DEF Busy
  <2>2. CASE req' = [req EXCEPT ![r].st = "leftExecuted"]
    BY <1>1, <2>2 DEF Busy
  <2> QED BY <2>1, <2>2 DEF Leave
<1>3. CASE \E s \in Busy : req' = [req EXCEPT ![r] = [req[r] EXCEPT !.st = s]]
  <2>1. PICK s \in Busy : req' = [req EXCEPT ![r] = [req[r] EXCEPT !.st = s]]
    BY <1>3
  <2>2. [req[r] EXCEPT !.st = s] \in BusyReq
    BY <1>1, BusyState
  <2> QED BY <1>1, <2>1, <2>2 DEF ServiceOK
<1>4. CASE req' = [req EXCEPT ![r] = [st |-> "idle"]]
  BY <1>1, <1>4 DEF ServiceOK, IdleReq
<1> QED BY <1>2, <1>3, <1>4

\* The controller executes a request.
LEMMA ExecuteFacts ==
  ASSUME ServiceOK, NEW r \in Req, Execute(r)
  PROVE  /\ ServiceOK' /\ out' = out
         /\ \A q \in Req \ {r} : req'[q] = req[q]
         /\ req[r].st \in {"issued", "left"} /\ req[r].lba \in Lba
         /\ req[r].st = "issued" => req'[r].st = "executed"
         /\ req'[r].opc = req[r].opc /\ req'[r].lba = req[r].lba
         /\ req[r].opc = "read" => req'[r].val = drive'[req[r].lba]
<1> DEFINE q == req[r]
           next == IF q.st = "issued" THEN "executed" ELSE "leftExecuted"
<1>1. /\ req \in [Req -> IdleReq \cup BusyReq] /\ out' = out
      /\ q \in IdleReq \cup BusyReq /\ q.st \in {"issued", "left"}
  BY DEF ServiceOK, Execute
<1>2. /\ q \in BusyReq /\ next \in Busy /\ q.st # "idle"
      /\ q.lba \in Lba /\ q.val \in Data /\ q.opc \in {"read", "write"}
      /\ drive[q.lba] \in Data
  BY <1>1 DEF IdleReq, BusyReq, Busy, ServiceOK
<1>3. CASE q.opc = "read"
  <2>1. /\ req' = [req EXCEPT ![r] = [q EXCEPT !.st = next, !.val = drive[q.lba]]]
        /\ drive' = drive
    BY <1>1, <1>3 DEF Execute
  <2>2. req'[r] = [q EXCEPT !.st = next, !.val = drive[q.lba]]
    BY <1>1, <2>1
  <2> HIDE DEF next
  <2>3. /\ req'[r] \in BusyReq /\ req'[r].st = next /\ req'[r].opc = q.opc
        /\ req'[r].lba = q.lba /\ req'[r].val = drive[q.lba]
    BY <1>2, <2>2 DEF BusyReq
  <2>4. \A x \in Req \ {r} : req'[x] = req[x]
    BY <1>1, <2>1
  <2>5. req' \in [Req -> IdleReq \cup BusyReq]
    BY <1>1, <2>1, <2>3, <2>4
  <2> QED BY <1>1, <1>2, <2>1, <2>3, <2>4, <2>5 DEF ServiceOK, next
<1>4. CASE q.opc = "write"
  <2>1. /\ req' = [req EXCEPT ![r] = [q EXCEPT !.st = next]]
        /\ drive' = [drive EXCEPT ![q.lba] = q.val]
    BY <1>1, <1>4 DEF Execute
  <2> HIDE DEF next
  <2>2. req'[r] = [q EXCEPT !.st = next] /\ \A x \in Req \ {r} : req'[x] = req[x]
    BY <1>1, <2>1
  <2>3. /\ req'[r] \in BusyReq /\ req'[r].st = next /\ req'[r].opc = q.opc
        /\ req'[r].lba = q.lba
    BY <1>1, <1>2, <2>2, BusyState, SMTT(60)
  <2>4. req' \in [Req -> IdleReq \cup BusyReq] /\ drive' \in [Lba -> Data]
    BY <1>1, <1>2, <2>1, <2>3 DEF ServiceOK
  <2> QED BY <1>1, <1>2, <1>4, <2>2, <2>3, <2>4 DEF ServiceOK, next
<1> QED BY <1>2, <1>3, <1>4

\* check_cq marks a request done; a read's data is in its buffer.
LEMMA FinishFacts ==
  ASSUME ServiceOK, NEW r \in Req, Finish(r)
  PROVE  /\ ServiceOK' /\ drive' = drive
         /\ \A q \in Req \ {r} : req'[q] = req[q] /\ out'[q] = out[q]
         /\ req[r].st = "executed" /\ req'[r].st = "done"
         /\ req'[r].opc = req[r].opc /\ req'[r].lba = req[r].lba
         /\ req[r].opc = "read" => out'[r] = req[r].val
<1> DEFINE q == req[r]
<1>1. /\ req \in [Req -> IdleReq \cup BusyReq] /\ out \in [Req -> Data] /\ drive' = drive
      /\ q \in IdleReq \cup BusyReq /\ q.st = "executed"
      /\ req' = [req EXCEPT ![r] = [q EXCEPT !.st = "done"]]
      /\ out' = IF q.opc = "read" THEN [out EXCEPT ![r] = q.val] ELSE out
  BY DEF ServiceOK, Finish
<1>2. "done" \in Busy /\ q \in BusyReq /\ q.val \in Data /\ q.st # "idle"
  BY <1>1 DEF IdleReq, BusyReq, Busy
<1>3. req'[r] = [q EXCEPT !.st = "done"] /\ \A x \in Req \ {r} : req'[x] = req[x]
  BY <1>1
<1>4. /\ req'[r] \in BusyReq /\ req'[r].st = "done" /\ req'[r].opc = q.opc
      /\ req'[r].lba = q.lba
  BY <1>1, <1>2, <1>3, BusyState
<1>5. req' \in [Req -> IdleReq \cup BusyReq] /\ out' \in [Req -> Data]
  BY <1>1, <1>2, <1>4
<1>6. /\ \A x \in Req \ {r} : out'[x] = out[x]
      /\ q.opc = "read" => out'[r] = q.val
  BY <1>1
<1> QED BY <1>1, <1>3, <1>4, <1>5, <1>6 DEF ServiceOK

\* check_cq completes a request its caller has left.
LEMMA ForgetFacts ==
  ASSUME ServiceOK, NEW r \in Req, Forget(r)
  PROVE  /\ ServiceOK' /\ UNCHANGED <<out, drive>>
         /\ \A q \in Req \ {r} : req'[q] = req[q]
         /\ req[r].st = "leftExecuted"
BY DEF ServiceOK, Forget, IdleReq, BusyReq, Busy

-----------------------------------------------------------------------------
(* What a step keeps *)

\* The history of a read's contents only grows while the read lasts.
LEMMA SeenGrows ==
  ASSUME CallsOK, ServiceOK', Watch
  PROVE  /\ seen' \in [Ult -> [Lba -> SUBSET Data]]
         /\ \A u \in Ult: Reading(u)' =>
              \A p \in Lba: drive'[p] \in seen'[u][p] /\ seen[u][p] \subseteq seen'[u][p]
BY SMTT(60) DEF CallsOK, ServiceOK, Watch, Reading

\* The same for a call that is under way before and after a step.
LEMMA SeenKept ==
  ASSUME CallsOK, ServiceOK', Watch, NEW u \in Ult, call'[u] = call[u], pc'[u] # "idle",
         NEW p \in Lba
  PROVE  call[u].op = "read" => drive'[p] \in seen'[u][p] /\ seen[u][p] \subseteq seen'[u][p]
BY SeenGrows DEF Reading

SameAt(v) ==
  /\ pc'[v] = pc[v] /\ call'[v] = call[v] /\ j'[v] = j[v] /\ rq_k'[v] = rq_k[v]
  /\ k'[v] = k[v] /\ rid'[v] = rid[v] /\ buf'[v] = buf[v]

\* What it is for a request to be held.
LEMMA HeldSays ==
  ASSUME NEW q, NEW o, NEW s, NEW c, NEW jj, NEW n, NEW m, Held(q, o, s, c, jj, n, m)
  PROVE  /\ q.st \in {"issued", "executed", "done"} /\ q.opc = c.op
         /\ At(q.lba, n, c.pos, jj, m)
         /\ c.op = "read" /\ q.st = "executed" => q.val \in s[q.lba]
         /\ c.op = "read" /\ q.st = "done" => o \in s[q.lba]
BY DEF Held

LEMMA HeldIs ==
  ASSUME NEW q, NEW o, NEW s, NEW c, NEW jj, NEW n, NEW m,
         q.st \in {"issued", "executed", "done"}, q.opc = c.op,
         At(q.lba, n, c.pos, jj, m),
         c.op = "read" /\ q.st = "executed" => q.val \in s[q.lba],
         c.op = "read" /\ q.st = "done" => o \in s[q.lba]
  PROVE  Held(q, o, s, c, jj, n, m)
BY DEF Held

\* It stays held when the call moves on and the seen contents grow.
LEMMA HeldOn ==
  ASSUME NEW q, NEW o, NEW s, NEW c, NEW jj, NEW n, NEW m, Held(q, o, s, c, jj, n, m),
         NEW t, NEW kk, NEW l, NEW p, c.op = "read" => s[q.lba] \subseteq t[q.lba],
         At(q.lba, l, c.pos, kk, p)
  PROVE  Held(q, o, t, c, kk, l, p)
BY DEF Held

\* The requests in rid[] are busy.
LEMMA MineBusy ==
  ASSUME ServiceOK, CallsOK, NEW u \in Ult, NEW m \in DOMAIN rid[u], Mine(u, m)
  PROVE  rid[u][m] \in Req /\ req[rid[u][m]] \in BusyReq /\ req[rid[u][m]].lba \in Lba
<1>1. rid[u][m] \in Req
  BY SMTT(60) DEF CallsOK
<1>2. req[rid[u][m]].st \in {"issued", "executed", "done"}
  BY HeldSays DEF Mine
<1>3. PICK q \in IdleReq \cup BusyReq : q = req[rid[u][m]] /\ q.st # "idle"
  BY <1>1, <1>2 DEF ServiceOK
<1>4. q \in BusyReq /\ q.lba \in Lba
  BY <1>3 DEF IdleReq, BusyReq
<1> QED BY <1>1, <1>3, <1>4

\* A call that is under way keeps what it knows of a request nobody touches.
LEMMA MineFrame ==
  ASSUME ServiceOK, CallsOK, ServiceOK', Watch, NEW v \in Ult, NEW m \in DOMAIN rid[v],
         Mine(v, m), rid'[v] = rid[v], call'[v] = call[v], j'[v] = j[v], pc'[v] # "idle",
         req'[rid[v][m]] = req[rid[v][m]], out'[rid[v][m]] = out[rid[v][m]]
  PROVE  Mine(v, m)'
<1>1. req[rid[v][m]].lba \in Lba
  BY MineBusy
<1>2. call[v].op = "read" =>
        seen[v][req[rid[v][m]].lba] \subseteq seen'[v][req[rid[v][m]].lba]
  BY <1>1, SeenKept
<1>3. At(req[rid[v][m]].lba, Len(rid[v]), call[v].pos, j[v], m)
  BY HeldSays DEF Mine
<1> QED BY <1>2, <1>3, HeldOn DEF Mine

LEMMA InRange ==
  ASSUME NEW pos \in Nat, NEW len \in Nat, NEW n \in Nat, NEW i \in Nat, NEW jj \in Nat,
         NEW held \in Nat, i + held < jj, jj <= len, len > 0 => pos + len <= n
  PROVE  pos + i \in Nat /\ pos + i < n
BY SMTT(60)

\* A call that is under way keeps what is in its buffer.
LEMMA FilledFrame ==
  ASSUME HookAssumption, Sizes, CallsOK, CountInv, ServiceOK', Watch, NEW v \in Ult,
         Reading(v), Filled(v), pc'[v] # "idle", rid'[v] = rid[v], call'[v] = call[v],
         j'[v] = j[v], buf'[v] = buf[v]
  PROVE  Filled(v)' /\ \A p \in Lba: drive'[p] \in seen'[v][p]
<1>1. Reading(v)'
  BY DEF Reading
<1>2. ASSUME NEW i \in Off, i + Len(rid[v]) < j[v]
      PROVE  buf'[v][i] \in seen'[v][call[v].pos + i]
  <2>1. call[v].pos + i \in Lba
    <3>1. Len(rid[v]) \in Nat /\ j[v] \in Nat /\ i \in Nat /\ call[v].pos \in Nat
          /\ call[v].len \in Nat
      BY SMTT(60) DEF CallsOK, CallRec, Off, HookAssumption
    <3>2. j[v] <= call[v].len /\ (call[v].len > 0 => call[v].pos + call[v].len <= Cardinality(Lba))
      BY DEF CountInv, Counted
    <3>3. Cardinality(Lba) \in Nat
      BY LbaRange
    <3>4. call[v].pos + i \in Nat /\ call[v].pos + i < Cardinality(Lba)
      BY <1>2, <3>1, <3>2, <3>3, InRange
    <3> QED BY <3>4, LbaRange
  <2> QED BY <1>1, <1>2, <2>1, SeenGrows DEF Filled
<1> QED BY <1>1, <1>2, SeenGrows DEF Filled

\* One call's part of the invariant.
CallInv(v) ==
  /\ Counted(pc[v], call[v], j[v], rq_k[v], k[v], Len(rid[v]))
  /\ \A m \in DOMAIN rid[v]: Mine(v, m)
  /\ Reading(v) => Filled(v) /\ \A p \in Lba: drive[p] \in seen[v][p]

\* The calls of the other ULTs keep theirs, when their requests are not touched.
LEMMA OtherCalls ==
  ASSUME HookAssumption, Sizes, IInv, ServiceOK', Watch, NEW v \in Ult, SameAt(v),
         \A m \in DOMAIN rid[v]: /\ req'[rid[v][m]] = req[rid[v][m]]
                                 /\ out'[rid[v][m]] = out[rid[v][m]]
  PROVE  CallInv(v)'
<1>1. Counted(pc[v], call[v], j[v], rq_k[v], k[v], Len(rid[v]))'
  BY DEF IInv, CountInv, SameAt
<1>2. ASSUME NEW m \in DOMAIN rid[v] PROVE Mine(v, m)'
  <2>1. pc[v] # "idle"
    <3>1. rid[v] \in Seq(Req) /\ Len(rid[v]) # 0
      BY SMTT(60) DEF IInv, CallsOK
    <3> QED BY <3>1 DEF IInv, CountInv, Counted
  <2>2. ServiceOK /\ CallsOK /\ Mine(v, m)
    BY DEF IInv, MineInv
  <2> QED BY <2>1, <2>2, MineFrame DEF SameAt
<1>3. ASSUME Reading(v)' PROVE Filled(v)' /\ \A p \in Lba: drive'[p] \in seen'[v][p]
  <2>1. Reading(v) /\ pc'[v] # "idle"
    BY <1>3 DEF Reading, SameAt
  <2>2. CallsOK /\ CountInv /\ Filled(v)
    BY <2>1 DEF IInv, BufferInv
  <2> QED BY <2>1, <2>2, FilledFrame DEF SameAt
<1>4. DOMAIN rid'[v] = DOMAIN rid[v]
  BY DEF SameAt
<1> QED BY <1>1, <1>2, <1>3, <1>4 DEF CallInv

\* The parts together.
LEMMA Assemble ==
  ASSUME ServiceOK', CallsOK', Distinct', \A v \in Ult: CallInv(v)'
  PROVE  IInv'
<1>1. CountInv'
  BY DEF CountInv, CallInv
<1>2. MineInv'
  BY DEF MineInv, CallInv
<1>3. BufferInv'
  BY DEF BufferInv, CallInv
<1> QED BY <1>1, <1>2, <1>3 DEF IInv

-----------------------------------------------------------------------------
(* The loop counters: each turn of the loops of read_impl and write_impl. *)

LEMMA CountTurns ==
  ASSUME HookAssumption, Sizes, NEW c \in CallRec, NEW jj \in Nat, NEW n \in Nat, NEW kk \in Nat,
         NEW held \in Nat, Counted("issue", c, jj, n, kk, held)
  PROVE  /\ c.op = "read" =>
              Counted(IF n + 1 = READ_DEG \/ jj + 1 >= c.len THEN "poll" ELSE "issue",
                      c, jj + 1, n + 1, kk, held + 1)
         /\ c.op = "write" =>
              Counted(IF jj + 1 >= c.len \/ n + 1 = WRITE_DEG THEN "poll" ELSE "issue",
                      c, jj + 1, IF ~(jj + 1 >= c.len) THEN n + 1 ELSE n, kk, held + 1)
<1>1. c.len \in Nat /\ c.op \in {"read", "write"} /\ READ_DEG \in Nat \ {0}
      /\ WRITE_DEG \in Nat \ {0}
  BY SMTT(60) DEF HookAssumption, CallRec
<1>2. CASE c.op = "read"
  BY <1>1, <1>2, SMTT(60) DEF Counted, Deg
<1>3. CASE c.op = "write"
  BY <1>1, <1>3, SMTT(60) DEF Counted, Deg
<1> QED BY <1>1, <1>2, <1>3

LEMMA CountPoll ==
  ASSUME HookAssumption, Sizes, NEW c \in CallRec, NEW jj \in Nat, NEW n \in Nat, NEW kk \in Nat,
         NEW held \in Nat, Counted("poll", c, jj, n, kk, held)
  PROVE  /\ kk < n => held > 0 /\ Counted("poll", c, jj, n, kk + 1, held - 1)
         /\ kk = n => Counted(IF jj < c.len THEN "issue" ELSE "ret", c, jj, 0, 0, held)
<1>1. c.len \in Nat /\ c.op \in {"read", "write"} /\ Deg(c) \in Nat \ {0}
  BY SMTT(60) DEF HookAssumption, CallRec, Deg
<1> QED BY <1>1, SMTT(60) DEF Counted

LEMMA CountBounds ==
  ASSUME HookAssumption, Sizes, NEW p \in {"idle", "issue", "poll", "ret", "abort"},
         NEW c \in CallRec, NEW jj \in Nat, NEW n \in Nat, NEW kk \in Nat, NEW held \in Nat,
         Counted(p, c, jj, n, kk, held)
  PROVE  kk <= n /\ kk + held <= Deg(c)
<1>1. Deg(c) \in Nat \ {0}
  BY DEF HookAssumption, Deg
<1> QED BY <1>1, SMTT(60) DEF Counted

\* Entering a call and leaving it.
LEMMA CountEnds ==
  ASSUME HookAssumption, Sizes, NEW c \in CallRec, c.len > 0 => c.pos + c.len <= Cardinality(Lba)
  PROVE  /\ Counted(IF c.len > 0 THEN "issue" ELSE "ret", c, 0, 0, 0, 0)
         /\ Counted("idle", NoCall, 0, 0, 0, 0)
<1>1. c.len \in Nat /\ Deg(c) \in Nat \ {0} /\ NoCall.len = 0
  BY SMTT(60) DEF HookAssumption, CallRec, Deg, NoCall
<1> QED BY <1>1, SMTT(60) DEF Counted

\* myfs_get_size, and read_impl's cut.
LEMMA SizeFacts ==
  ASSUME HookAssumption, Sizes, NEW S \in SUBSET Lba
  PROVE  Cardinality(S) \in Nat /\ Cardinality(S) <= Cardinality(Lba)
BY SMTT(60) DEF Sizes

LEMMA ReadLenFacts ==
  ASSUME HookAssumption, Sizes, alloc \in SUBSET Lba, NEW pos \in Nat, NEW count \in 1 .. MaxLen
  PROVE  /\ ReadLen(pos, count) \in 0 .. MaxLen
         /\ ReadLen(pos, count) > 0 =>
              /\ pos + ReadLen(pos, count) <= Cardinality(alloc)
              /\ pos + ReadLen(pos, count) <= Cardinality(Lba)
<1>1. PICK n \in Nat : n = Cardinality(alloc) /\ n <= Cardinality(Lba)
  BY SizeFacts
<1>2. Cardinality(Lba) \in Nat /\ MaxLen \in Nat
  BY LbaRange DEF HookAssumption
<1> QED BY <1>1, <1>2, SMTT(60) DEF ReadLen, myfs_get_size

-----------------------------------------------------------------------------
(* Every step keeps the invariant. *)

LEMMA InitInv == ASSUME HookAssumption, Sizes, Init PROVE IInv /\ DenseInv
<1>1. ServiceOK
  BY DEF Init, BSInit, ServiceOK, IdleReq
<1>2. CallsOK
  <2>1. [u \in Ult |-> <<>>] \in [Ult -> Seq(Req)]
    BY SeqEmpty
  <2> QED BY <2>1, Defaults DEF Init, CallsOK, Off
<1>3. \A u \in Ult: rid[u] = <<>> /\ pc[u] = "idle" /\ call[u] = NoCall
                    /\ j[u] = 0 /\ rq_k[u] = 0 /\ k[u] = 0 /\ Len(rid[u]) = 0
  BY SeqEmpty DEF Init
<1>4. CountInv
  <2>1. Counted("idle", NoCall, 0, 0, 0, 0)
    <3>1. NoCall.len = 0
      BY DEF NoCall
    <3> QED BY <3>1, SMTT(60) DEF Counted
  <2> QED BY <1>3, <2>1 DEF CountInv
<1>5. MineInv /\ Distinct /\ BufferInv
  BY <1>3, SMTT(60) DEF MineInv, Distinct, BufferInv, Reading
<1>6. Dense
  <2>1. alloc = 0 .. 0 - 1 /\ 0 \in 0 .. Cardinality(Lba)
    BY LbaRange, SMTT(60) DEF Init
  <2> QED BY <1>3, <2>1 DEF Dense
<1> QED BY <1>1, <1>2, <1>4, <1>5, <1>6 DEF IInv, DenseInv

\* Read, PRead, Write, PWrite.
LEMMA BeginInv ==
  ASSUME HookAssumption, Sizes, IInv, NEW u \in Ult, NEW op \in {"read", "write"},
         NEW fd \in Fd \cup {NoFd}, NEW pos \in Nat, NEW count \in 1 .. MaxLen, NEW d \in Data,
         Begin(u, op, fd, pos, count, d), Watch,
         op = "write" => pos + count <= Cardinality(Lba)
  PROVE  IInv'
<1> DEFINE len == IF op = "read" THEN ReadLen(pos, count) ELSE count
           c == [op |-> op, fd |-> fd, pos |-> pos, len |-> len, count |-> count, data |-> d]
<1>1. ServiceOK /\ CallsOK /\ CountInv /\ Distinct
  BY DEF IInv
<1>2. /\ pc[u] = "idle" /\ UNCHANGED <<req, out, drive, j, rq_k, k, rid, cur_pos, alloc>>
      /\ call' = [call EXCEPT ![u] = c]
      /\ pc' = [pc EXCEPT ![u] = IF len > 0 THEN "issue" ELSE "ret"]
      /\ buf' = [buf EXCEPT ![u] = [i \in Off |-> NoData]]
  BY DEF Begin, bsVars
<1>3. len \in 0 .. MaxLen /\ (len > 0 => pos + len <= Cardinality(Lba))
  <2>1. alloc \in SUBSET Lba /\ MaxLen \in Nat
    BY <1>1 DEF CallsOK, HookAssumption
  <2>2. CASE op = "read"
    BY <2>1, <2>2, ReadLenFacts
  <2>3. CASE op = "write"
    BY <2>1, <2>3, SMTT(60)
  <2> QED BY <2>2, <2>3
<1> HIDE DEF len
<1>4. c \in CallRec /\ c.len = len /\ c.pos = pos
  BY <1>3, SMTT(60) DEF CallRec, HookAssumption
<1> HIDE DEF c
<1>5. ServiceOK'
  BY <1>1, <1>2 DEF ServiceOK
<1>6. CallsOK'
  <2>1. seen' \in [Ult -> [Lba -> SUBSET Data]]
    BY <1>1, <1>5, SeenGrows
  <2>2. pc' \in [Ult -> {"idle", "issue", "poll", "ret", "abort"}]
        /\ call' \in [Ult -> CallRec] /\ buf' \in [Ult -> [Off -> Data \cup {NoData}]]
    BY <1>1, <1>2, <1>4 DEF CallsOK
  <2> QED BY <1>1, <1>2, <2>1, <2>2 DEF CallsOK
<1>7. Distinct'
  BY <1>1, <1>2, SMTT(60) DEF Distinct
<1>8. j[u] = 0 /\ rq_k[u] = 0 /\ k[u] = 0 /\ Len(rid[u]) = 0
  BY <1>1, <1>2 DEF CountInv, Counted
<1>9. CallInv(u)'
  <2>1. /\ pc'[u] = IF len > 0 THEN "issue" ELSE "ret"
        /\ call'[u] = c /\ j'[u] = 0 /\ rq_k'[u] = 0 /\ k'[u] = 0 /\ rid'[u] = rid[u]
    BY <1>1, <1>2, <1>8 DEF CallsOK
  <2>2. Counted(pc[u], call[u], j[u], rq_k[u], k[u], Len(rid[u]))'
    BY <1>3, <1>4, <1>8, <2>1, CountEnds
  <2>3. rid[u] \in Seq(Req) /\ DOMAIN rid[u] = {}
    BY <1>1, <1>8, SMTT(60) DEF CallsOK
  <2>4. \A m \in DOMAIN rid'[u]: Mine(u, m)'
    BY <2>1, <2>3
  <2>5. Filled(u)'
    BY <1>8, <2>1, SMTT(60) DEF Filled, Off, HookAssumption
  <2>6. Reading(u)' => \A p \in Lba: drive'[p] \in seen'[u][p]
    BY <1>1, <1>5, SeenGrows
  <2> QED BY <2>2, <2>4, <2>5, <2>6 DEF CallInv
<1>10. ASSUME NEW v \in Ult \ {u} PROVE CallInv(v)'
  <2>1. SameAt(v)
    BY <1>1, <1>2 DEF CallsOK, SameAt
  <2> QED BY <1>2, <1>5, <2>1, OtherCalls
<1> QED BY <1>5, <1>6, <1>7, <1>9, <1>10, Assemble

\* Positions when a request is issued and when one is polled.
LEMMA AtTurn ==
  ASSUME NEW l \in Nat, NEW held \in Nat, NEW pos \in Nat, NEW jj \in Nat, NEW m \in Nat
  PROVE  /\ At(l, held, pos, jj, m) => At(l, held + 1, pos, jj + 1, m)
         /\ At(pos + jj, held + 1, pos, jj + 1, held + 1)
         /\ held > 0 /\ At(l, held, pos, jj, m + 1) => At(l, held - 1, pos, jj, m)
         /\ held <= jj /\ At(l, held, pos, jj, 1) => l = pos + (jj - held)
BY SMTT(60) DEF At

LEMMA AtLast ==
  ASSUME NEW l \in Nat, NEW pos \in Nat, NEW jj \in Nat, At(l, 1, pos, jj, 1)
  PROVE  l = pos + jj - 1
BY SMTT(60) DEF At

\* A turn of the loop that issues requests, in read_impl and in write_impl.
Turned(u, r, to, n) ==
  /\ rid' = [rid EXCEPT ![u] = Append(rid[u], r)]
  /\ j' = [j EXCEPT ![u] = j[u] + 1]
  /\ pc' = [pc EXCEPT ![u] = to]
  /\ rq_k' = [rq_k EXCEPT ![u] = n]
  /\ UNCHANGED <<call, k, buf, cur_pos>>
  /\ alloc' \in SUBSET Lba

LEMMA TurnInv ==
  ASSUME HookAssumption, Sizes, IInv, Watch, NEW u \in Ult, NEW r \in Req, NEW d \in Data,
         NEW to \in {"issue", "poll"}, NEW n \in Nat,
         pc[u] = "issue", Issue(r, call[u].op, call[u].pos + j[u], d),
         Counted(to, call[u], j[u] + 1, n, k[u], Len(rid[u]) + 1),
         Turned(u, r, to, n)
  PROVE  IInv'
<1>1. ServiceOK /\ CallsOK /\ CountInv /\ Distinct /\ MineInv
  BY DEF IInv
<1>2. /\ call[u] \in CallRec /\ call[u].op \in {"read", "write"} /\ call[u].pos \in Nat
      /\ j[u] \in Nat /\ rid[u] \in Seq(Req) /\ Len(rid[u]) \in Nat
      /\ DOMAIN rid[u] = 1 .. Len(rid[u])
  BY <1>1, SMTT(60) DEF CallsOK, CallRec
<1>3. call[u].pos + j[u] \in Lba
  <2>1. /\ j[u] < call[u].len /\ (call[u].len > 0 => call[u].pos + call[u].len <= Cardinality(Lba))
        /\ call[u].len \in Nat /\ Cardinality(Lba) \in Nat
    BY <1>1, <1>2, LbaRange, SMTT(60) DEF CountInv, Counted, CallRec
  <2>2. call[u].pos + j[u] \in Nat /\ call[u].pos + j[u] < Cardinality(Lba)
    BY <1>2, <2>1, SMTT(60)
  <2> QED BY <2>2, LbaRange
<1>4. /\ ServiceOK' /\ UNCHANGED <<out, drive>> /\ req[r].st = "idle"
      /\ req'[r].st = "issued" /\ req'[r].opc = call[u].op
      /\ req'[r].lba = call[u].pos + j[u]
      /\ \A q \in Req \ {r} : req'[q] = req[q]
  BY <1>1, <1>2, <1>3, IssueFacts
<1>5. /\ rid'[u] = Append(rid[u], r) /\ j'[u] = j[u] + 1 /\ pc'[u] = to /\ rq_k'[u] = n
      /\ \A v \in Ult \ {u} : SameAt(v)
  BY <1>1 DEF CallsOK, SameAt, Turned
<1>s. UNCHANGED <<call, k, buf>>
  BY DEF Turned
<1>6. /\ rid'[u] \in Seq(Req) /\ Len(rid'[u]) = Len(rid[u]) + 1
      /\ \A m \in 1 .. Len(rid[u]) : rid'[u][m] = rid[u][m]
      /\ rid'[u][Len(rid[u]) + 1] = r
      /\ DOMAIN rid'[u] = 1 .. Len(rid[u]) + 1
  BY <1>2, <1>5, SeqAppend, SMTT(60)
<1>t. Len(rid[u]) \in Nat /\ call[u].pos \in Nat /\ j[u] \in Nat
  BY <1>2
<1>e. Len(rid'[u]) = Len(rid[u]) + 1 /\ j'[u] = j[u] + 1
  BY <1>5, <1>6
<1>7. \A v \in Ult : \A m \in DOMAIN rid[v] : rid[v][m] \in Req /\ rid[v][m] # r
  <2> SUFFICES ASSUME NEW v \in Ult, NEW m \in DOMAIN rid[v]
               PROVE  rid[v][m] \in Req /\ req[rid[v][m]].st # "idle"
    BY <1>4
  <2>1. Mine(v, m)
    BY <1>1 DEF MineInv
  <2>2. req[rid[v][m]].st \in {"issued", "executed", "done"}
    BY <2>1, HeldSays DEF Mine
  <2> QED BY <1>1, <2>1, <2>2, MineBusy
<1>8. CallsOK'
  <2>1. seen' \in [Ult -> [Lba -> SUBSET Data]]
    BY <1>1, <1>4, SeenGrows
  <2>2. /\ pc' \in [Ult -> {"idle", "issue", "poll", "ret", "abort"}]
        /\ j' \in [Ult -> Nat] /\ rq_k' \in [Ult -> Nat]
    BY <1>1, <1>2, SMTT(60) DEF CallsOK, Turned
  <2>3. rid' \in [Ult -> Seq(Req)]
    BY <1>1, <1>5, <1>6 DEF CallsOK, Turned
  <2> QED BY <1>1, <2>1, <2>2, <2>3 DEF CallsOK, Turned
<1>9. Distinct'
  <2> SUFFICES ASSUME NEW v \in Ult, NEW w \in Ult, NEW m \in DOMAIN rid'[v],
                      NEW l \in DOMAIN rid'[w], rid'[v][m] = rid'[w][l]
               PROVE  v = w /\ m = l
    BY DEF Distinct
  <2>1. ASSUME NEW x \in Ult, NEW y \in DOMAIN rid'[x]
        PROVE  \/ y \in DOMAIN rid[x] /\ rid'[x][y] = rid[x][y]
               \/ x = u /\ y = Len(rid[u]) + 1 /\ rid'[x][y] = r
    BY <1>2, <1>5, <1>6, SMTT(60) DEF SameAt
  <2> QED BY <1>1, <1>7, <2>1, SMTT(60) DEF Distinct
<1>10. CallInv(u)'
  <2>1. Counted(pc[u], call[u], j[u], rq_k[u], k[u], Len(rid[u]))'
    BY <1>s, <1>5, <1>6
  <2>2. pc[u] # "idle" /\ pc'[u] # "idle"
    BY <1>5
  <2>3. ASSUME NEW m \in DOMAIN rid'[u] PROVE Mine(u, m)'
    <3>1. CASE m \in DOMAIN rid[u]
      <4>1. rid'[u][m] = rid[u][m] /\ rid[u][m] # r /\ rid[u][m] \in Req
        BY <1>2, <1>6, <1>7, <3>1
      <4>2. req'[rid[u][m]] = req[rid[u][m]] /\ out' = out
        BY <1>4, <4>1
      <4>3. Mine(u, m) /\ req[rid[u][m]].lba \in Lba
        BY <1>1, <3>1, MineBusy DEF MineInv
      <4>4. call[u].op = "read" =>
              seen[u][req[rid[u][m]].lba] \subseteq seen'[u][req[rid[u][m]].lba]
        BY <1>s, <1>1, <1>4, <2>2, <4>3, SeenKept
      <4>5. At(req[rid[u][m]].lba, Len(rid'[u]), call[u].pos, j'[u], m)
        <5>1. req[rid[u][m]].lba \in Nat /\ m \in Nat
          BY <1>2, <3>1, <4>3, LbaRange, SMTT(60)
        <5>2. At(req[rid[u][m]].lba, Len(rid[u]), call[u].pos, j[u], m)
          BY <4>3, HeldSays DEF Mine
        <5>3. At(req[rid[u][m]].lba, Len(rid[u]) + 1, call[u].pos, j[u] + 1, m)
          BY <1>t, <5>1, <5>2, AtTurn
        <5> QED BY <1>e, <5>3
      <4>6. Held(req[rid[u][m]], out[rid[u][m]], seen'[u], call[u], j'[u], Len(rid'[u]), m)
        <5>1. Held(req[rid[u][m]], out[rid[u][m]], seen[u], call[u], j[u], Len(rid[u]), m)
          BY <4>3 DEF Mine
        <5> QED BY <4>4, <4>5, <5>1, HeldOn
      <4>7. call'[u] = call[u] /\ req'[rid'[u][m]] = req[rid[u][m]] /\ out'[rid'[u][m]] = out[rid[u][m]]
        BY <1>s, <4>1, <4>2
      <4> QED BY <4>6, <4>7 DEF Mine
    <3>2. CASE m = Len(rid[u]) + 1
      <4>1. At(req'[r].lba, Len(rid'[u]), call[u].pos, j'[u], m)
        <5>1. At(call[u].pos + j[u], Len(rid[u]) + 1, call[u].pos, j[u] + 1, Len(rid[u]) + 1)
          BY <1>t, AtTurn
        <5> QED BY <1>e, <1>4, <3>2, <5>1
      <4>2. rid'[u][m] = r /\ req'[r].st = "issued" /\ req'[r].opc = call'[u].op
        BY <1>s, <1>4, <1>6, <3>2
      <4>3. Held(req'[r], out'[r], seen'[u], call'[u], j'[u], Len(rid'[u]), m)
        <5>1. At(req'[r].lba, Len(rid'[u]), call'[u].pos, j'[u], m)
          BY <1>s, <4>1
        <5> QED BY <4>2, <5>1, HeldIs, SMTT(60)
      <4> QED BY <4>2, <4>3 DEF Mine
    <3> QED BY <1>2, <1>6, <3>1, <3>2, SMTT(60)
  <2>4. ASSUME Reading(u)' PROVE Filled(u)' /\ \A p \in Lba: drive'[p] \in seen'[u][p]
    <3>1. Reading(u)
      BY <1>s, <2>2, <2>4 DEF Reading
    <3>2. ASSUME NEW i \in Off, i + Len(rid'[u]) < j'[u]
          PROVE  buf'[u][i] \in seen'[u][call'[u].pos + i]
      <4>1. i \in Nat
        BY SMTT(60) DEF Off, HookAssumption
      <4>2. i + Len(rid[u]) < j[u]
        BY <1>2, <1>5, <1>6, <3>2, <4>1, SMTT(60)
      <4>3. buf[u][i] \in seen[u][call[u].pos + i]
        BY <3>1, <4>2 DEF IInv, BufferInv, Filled
      <4>4. call[u].pos + i \in Lba
        <5>1. call[u].len \in Nat /\ Cardinality(Lba) \in Nat
          BY <1>2, LbaRange, SMTT(60) DEF CallRec
        <5>2. j[u] <= call[u].len /\ (call[u].len > 0 => call[u].pos + call[u].len <= Cardinality(Lba))
          BY <1>1 DEF CountInv, Counted
        <5>3. call[u].pos + i \in Nat /\ call[u].pos + i < Cardinality(Lba)
          BY <1>2, <4>1, <4>2, <5>1, <5>2, InRange
        <5> QED BY <5>3, LbaRange
      <4> QED BY <1>s, <1>1, <1>4, <2>4, <4>3, <4>4, SeenGrows
    <3> QED BY <1>1, <1>4, <2>4, <3>2, SeenGrows DEF Filled
  <2> QED BY <2>1, <2>3, <2>4 DEF CallInv
<1>11. ASSUME NEW v \in Ult \ {u} PROVE CallInv(v)'
  BY <1>4, <1>5, <1>7, OtherCalls
<1> QED BY <1>4, <1>8, <1>9, <1>10, <1>11, Assemble

\* read_impl and write_impl issue a request, or read_impl finds no block.
LEMMA IssueReadInv ==
  ASSUME HookAssumption, Sizes, IInv, Watch, NEW u \in Ult, IssueRead(u) PROVE IInv'
<1>1. ServiceOK /\ CallsOK /\ CountInv
  BY DEF IInv
<1>2. /\ call[u] \in CallRec /\ j[u] \in Nat /\ rq_k[u] \in Nat /\ k[u] \in Nat
      /\ Len(rid[u]) \in Nat /\ pc[u] = "issue" /\ call[u].op = "read"
      /\ UNCHANGED <<call, k, buf, cur_pos, alloc>>
  BY <1>1, SMTT(60) DEF CallsOK, IssueRead
<1>3. Counted("issue", call[u], j[u], rq_k[u], k[u], Len(rid[u]))
  BY <1>1, <1>2 DEF CountInv
<1>4. CASE call[u].pos + j[u] \notin alloc
  <2>1. pc' = [pc EXCEPT ![u] = "abort"] /\ UNCHANGED <<req, out, drive, j, rq_k, rid>>
    BY <1>4 DEF IssueRead, bsVars
  <2>2. ServiceOK'
    BY <1>1, <2>1 DEF ServiceOK
  <2>3. CallsOK'
    <3>1. seen' \in [Ult -> [Lba -> SUBSET Data]]
      BY <1>1, <2>2, SeenGrows
    <3>2. pc' \in [Ult -> {"idle", "issue", "poll", "ret", "abort"}]
      BY <1>1, <2>1 DEF CallsOK
    <3> QED BY <1>1, <1>2, <2>1, <3>1, <3>2 DEF CallsOK
  <2>4. Distinct'
    BY <2>1, SMTT(60) DEF IInv, Distinct
  <2>5. CallInv(u)'
    <3>1. pc'[u] = "abort" /\ pc[u] # "idle"
      BY <1>1, <1>2, <2>1 DEF CallsOK
    <3>2. Counted("abort", call[u], j[u], rq_k[u], k[u], Len(rid[u]))
      BY <1>3 DEF Counted
    <3>3. Counted(pc[u], call[u], j[u], rq_k[u], k[u], Len(rid[u]))'
      BY <1>2, <2>1, <3>1, <3>2
    <3>4. ASSUME NEW m \in DOMAIN rid'[u] PROVE Mine(u, m)'
      <4>1. Mine(u, m) /\ m \in DOMAIN rid[u]
        BY <2>1 DEF IInv, MineInv
      <4> QED BY <1>1, <1>2, <2>1, <2>2, <3>1, <4>1, MineFrame
    <3>5. Filled(u)' /\ \A p \in Lba: drive'[p] \in seen'[u][p]
      <4>1. Reading(u) /\ Filled(u) /\ pc'[u] # "idle"
        BY <1>2, <3>1 DEF Reading, IInv, BufferInv
      <4> QED BY <1>1, <1>2, <2>1, <2>2, <4>1, FilledFrame
    <3> QED BY <3>3, <3>4, <3>5 DEF CallInv
  <2>6. ASSUME NEW v \in Ult \ {u} PROVE CallInv(v)'
    <3>1. SameAt(v)
      BY <1>1, <1>2, <2>1 DEF CallsOK, SameAt
    <3> QED BY <2>1, <2>2, <3>1, OtherCalls
  <2> QED BY <2>2, <2>3, <2>4, <2>5, <2>6, Assemble
<1>5. CASE call[u].pos + j[u] \in alloc
  <2> DEFINE to == IF rq_k[u] + 1 = READ_DEG \/ j[u] + 1 >= call[u].len THEN "poll" ELSE "issue"
  <2>1. PICK r \in Req : /\ Issue(r, "read", call[u].pos + j[u], AnyData)
                         /\ rid' = [rid EXCEPT ![u] = Append(rid[u], r)]
    BY <1>5 DEF IssueRead
  <2>2. /\ j' = [j EXCEPT ![u] = j[u] + 1] /\ rq_k' = [rq_k EXCEPT ![u] = rq_k[u] + 1]
        /\ pc' = [pc EXCEPT ![u] = to]
    BY <1>5 DEF IssueRead, ReadBatchFull
  <2>3. Counted(to, call[u], j[u] + 1, rq_k[u] + 1, k[u], Len(rid[u]) + 1)
    BY <1>2, <1>3, CountTurns
  <2>4. to \in {"issue", "poll"} /\ rq_k[u] + 1 \in Nat /\ alloc' \in SUBSET Lba
    BY <1>1, <1>2, SMTT(60) DEF CallsOK
  <2> HIDE DEF to
  <2>5. AnyData \in Data
    BY Defaults
  <2>6. Turned(u, r, to, rq_k[u] + 1)
    BY <1>2, <2>1, <2>2, <2>4 DEF Turned
  <2> QED BY <1>2, <2>1, <2>3, <2>4, <2>5, <2>6, TurnInv
<1> QED BY <1>4, <1>5

LEMMA IssueWriteInv ==
  ASSUME HookAssumption, Sizes, IInv, Watch, NEW u \in Ult, IssueWrite(u) PROVE IInv'
<1>1. ServiceOK /\ CallsOK /\ CountInv
  BY DEF IInv
<1>2. /\ call[u] \in CallRec /\ j[u] \in Nat /\ rq_k[u] \in Nat /\ k[u] \in Nat
      /\ Len(rid[u]) \in Nat /\ pc[u] = "issue" /\ call[u].op = "write"
      /\ UNCHANGED <<call, k, buf, cur_pos>> /\ call[u].data \in Data
  BY <1>1, SMTT(60) DEF CallsOK, IssueWrite, WriteTurn, CallRec
<1>3. Counted("issue", call[u], j[u], rq_k[u], k[u], Len(rid[u]))
  BY <1>1, <1>2 DEF CountInv
<1> DEFINE last == j[u] + 1 >= call[u].len
           to == IF last \/ rq_k[u] + 1 = WRITE_DEG THEN "poll" ELSE "issue"
           n == IF ~last THEN rq_k[u] + 1 ELSE rq_k[u]
<1>4. PICK r \in Req : /\ Issue(r, "write", call[u].pos + j[u], call[u].data)
                       /\ rid' = [rid EXCEPT ![u] = Append(rid[u], r)]
  BY DEF IssueWrite, WriteTurn
<1>5. /\ j' = [j EXCEPT ![u] = j[u] + 1] /\ rq_k' = [rq_k EXCEPT ![u] = n]
      /\ pc' = [pc EXCEPT ![u] = to] /\ alloc' = alloc \cup {call[u].pos + j[u]}
  BY DEF IssueWrite, WriteTurn, LastWrite, WriteBatchFull
<1>6. Counted(to, call[u], j[u] + 1, n, k[u], Len(rid[u]) + 1)
  BY <1>2, <1>3, CountTurns
<1>7. to \in {"issue", "poll"} /\ n \in Nat
  BY <1>2, SMTT(60)
<1> HIDE DEF to, n
<1>8. alloc' \in SUBSET Lba
  <2>1. call[u].pos + j[u] \in Lba
    <3>1. /\ j[u] < call[u].len /\ (call[u].len > 0 => call[u].pos + call[u].len <= Cardinality(Lba))
          /\ call[u].len \in Nat /\ call[u].pos \in Nat /\ Cardinality(Lba) \in Nat
      BY <1>2, <1>3, LbaRange, SMTT(60) DEF Counted, CallRec
    <3>2. call[u].pos + j[u] \in Nat /\ call[u].pos + j[u] < Cardinality(Lba)
      BY <1>2, <3>1, SMTT(60)
    <3> QED BY <3>2, LbaRange
  <2> QED BY <1>1, <1>5, <2>1 DEF CallsOK
<1>9. Turned(u, r, to, n)
  BY <1>2, <1>4, <1>5, <1>8 DEF Turned
<1> QED BY <1>2, <1>4, <1>6, <1>7, <1>9, TurnInv
=============================================================================
