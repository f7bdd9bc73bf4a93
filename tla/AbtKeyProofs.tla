---------------------------- MODULE AbtKeyProofs ----------------------------
(***************************************************************************)
(* Proofs about the key table of a work unit (AbtKey), for any number of   *)
(* threads, keys, hashes and calls.                                        *)
(*                                                                         *)
(* The argument: a list is only appended to, by the holder of the lock,    *)
(* who has seen all of it.  So every list has one entry of a key, and what *)
(* a search has passed stays behind it: when the search ends at the end of *)
(* the list the key has no entry at that moment, and when it finds an      *)
(* entry the value of the entry is the value of the key at that moment.    *)
(***************************************************************************)
EXTENDS AbtKey, FiniteSetTheorems, TLAPS

USE ZenonT(60)

Val == Value \cup {Null}
Elem == [id: Nat, value: Val]
Searching == {"get_elem", "find", "lock", "find_again", "add"}
Steps == {"idle", "set", "wait", "create", "null_table", "store", "ret"} \cup Searching

TypeInv ==
  /\ prog \in [Worker -> Seq(Calls)]
  /\ table \in {Null, Locked, Table}
  /\ elems \in [Hashes -> Seq(Elem)]
  /\ pc \in [Worker -> Steps] /\ at \in [Worker -> Nat]
  /\ out \in [Worker -> Val \cup {"error"}]
  /\ DOMAIN seen = Worker

\* A key has one entry.
OneEntry(l) == \A i, j \in DOMAIN l : l[i].id = l[j].id => i = j
ListInv == \A h \in Hashes : OneEntry(elems[h])

\* A call is under way; the lock of the table, and the lock on its pointer.
LockInv ==
  /\ \A w \in Worker : pc[w] # "idle" => prog[w] # <<>>
  /\ \A w \in Worker : pc[w] \in {"find_again", "add"} => lock = w
  /\ \A w \in Worker : pc[w] = "create" => table = Locked
  /\ \A w, v \in Worker : pc[w] = "create" /\ pc[v] = "create" => w = v

\* Entries are in a table.
TableInv ==
  /\ killed = {} /\ table # Table => \A h \in Hashes : elems[h] = <<>>
  /\ killed = {} => \A w \in Worker : pc[w] \in Searching \cup {"store"} => table = Table

\* A search for k at position i of list l is past no entry of k.
Passed(l, i, k) == i \in 1 .. Len(l) + 1 /\ \A j \in DOMAIN l : j < i => l[j].id # k
SearchInv ==
  \A w \in Worker :
    /\ pc[w] \in Searching => Passed(List(w), at[w], Key(w))
    /\ pc[w] \in {"wait", "create"} => at[w] = 1
    /\ pc[w] = "add" => AtEnd(w)
    /\ pc[w] = "store" => at[w] \in DOMAIN List(w) /\ Here(w).id = Key(w)

IInv == TypeInv /\ ListInv /\ LockInv /\ TableInv /\ SearchInv /\ Linearizable /\ DestroyedOnce

-----------------------------------------------------------------------------
(* The lists of a table.                                                     *)

Tables == [Hashes -> Seq(Elem)]

\* A key is hashed into the table.
LEMMA HashType ==
  ASSUME KeyAssumption, NEW k \in Nat
  PROVE  Hash(k) \in Hashes
  BY SMTT(60) DEF KeyAssumption, Hash, Hashes

\* The value of a key is that of its only entry ...
LEMMA ValueIs ==
  ASSUME KeyAssumption, NEW els \in Tables, NEW k \in Nat, OneEntry(els[Hash(k)]),
         NEW i \in DOMAIN els[Hash(k)], els[Hash(k)][i].id = k
  PROVE  ValueIn(els, k) = els[Hash(k)][i].value
<1> DEFINE l == els[Hash(k)]
           is == {j \in DOMAIN l : l[j].id = k}
<1>1. l \in Seq(Elem) BY HashType DEF Tables
<1>2. is = {i} BY DEF OneEntry
<1>3. i \in Nat BY <1>1, SMTT(60)
<1>4. (CHOOSE j \in is : \A m \in is : j <= m) = i BY <1>2, <1>3, SMTT(60)
<1> QED BY <1>2, <1>4 DEF ValueIn

\* ... and NULL when it has none.
LEMMA ValueNone ==
  ASSUME NEW els, NEW k, \A j \in DOMAIN els[Hash(k)] : els[Hash(k)][j].id # k
  PROVE  ValueIn(els, k) = Null
  BY DEF ValueIn

\* Store() and the append of Add(), on any table.
Put(els, h, i, v) == [els EXCEPT ![h][i].value = v]
More(els, h, e) == [els EXCEPT ![h] = Append(@, e)]

\* An assignment to the value of an entry keeps types, lengths and keys.
LEMMA Stored ==
  ASSUME NEW els \in Tables, NEW h \in Hashes, NEW i \in DOMAIN els[h], NEW v \in Val,
         NEW new, new = Put(els, h, i, v)
  PROVE  /\ new \in Tables
         /\ \A g \in Hashes : /\ Len(new[g]) = Len(els[g])
                              /\ \A j \in 1 .. Len(els[g]) : new[g][j].id = els[g][j].id
         /\ new[h][i].value = v
<1> DEFINE e == [els[h][i] EXCEPT !.value = v]
           l == [els[h] EXCEPT ![i] = e]
<1>1. els[h] \in Seq(Elem) /\ i \in 1 .. Len(els[h]) BY SMTT(60) DEF Tables
<1>2. els[h][i] \in Elem BY <1>1, SMTT(60)
<1>3. e \in Elem /\ e.id = els[h][i].id /\ e.value = v BY <1>2 DEF Elem
<1>4. l \in Seq(Elem) /\ Len(l) = Len(els[h]) BY <1>1, <1>3, SMTT(60)
<1>5. l[i] = e /\ \A j \in 1 .. Len(els[h]) : j # i => l[j] = els[h][j] BY <1>1, SMTT(60)
<1>6. new = [els EXCEPT ![h] = l] BY DEF Put
<1> HIDE DEF l, e
<1>7. new[h] = l /\ (\A g \in Hashes : g # h => new[g] = els[g]) BY <1>6 DEF Tables
<1>8. new \in Tables BY <1>4, <1>6 DEF Tables
<1> QED BY <1>1, <1>3, <1>4, <1>5, <1>7, <1>8

\* An append adds the entry at the end of one list.
LEMMA Appended ==
  ASSUME NEW els \in Tables, NEW h \in Hashes, NEW e \in Elem,
         NEW new, new = More(els, h, e)
  PROVE  /\ new \in Tables
         /\ \A g \in Hashes : g # h => new[g] = els[g]
         /\ Len(new[h]) = Len(els[h]) + 1 /\ new[h][Len(els[h]) + 1] = e
         /\ \A j \in 1 .. Len(els[h]) : new[h][j] = els[h][j]
<1>1. els[h] \in Seq(Elem) BY DEF Tables
<1> DEFINE l == Append(els[h], e)
<1>2. /\ l \in Seq(Elem) /\ Len(l) = Len(els[h]) + 1 /\ l[Len(els[h]) + 1] = e
      /\ \A j \in 1 .. Len(els[h]) : l[j] = els[h][j]
  BY <1>1, SMTT(60)
<1> HIDE DEF l
<1>3. new = [els EXCEPT ![h] = l] BY DEF l, More
<1>4. new[h] = l /\ (\A g \in Hashes : g # h => new[g] = els[g]) BY <1>3 DEF Tables
<1>5. new \in Tables BY <1>2, <1>3 DEF Tables
<1> QED BY <1>2, <1>4, <1>5

-----------------------------------------------------------------------------
(* What a step of one thread leaves alone.                                   *)

\* Thread w alone moves.
OnlyMoves(w) == \A v \in Worker \ {w} : /\ pc'[v] = pc[v] /\ at'[v] = at[v]
                                        /\ out'[v] = out[v] /\ prog'[v] = prog[v]

\* Entries keep their place and their key, and lists grow under the lock only.
Grows(w) == \A h \in Hashes :
  /\ Len(elems[h]) <= Len(elems'[h])
  /\ \A j \in 1 .. Len(elems[h]) : elems'[h][j].id = elems[h][j].id
  /\ Len(elems[h]) # Len(elems'[h]) => lock = w

\* The types of a call.
LEMMA CallType ==
  ASSUME KeyAssumption, TypeInv, NEW w \in Worker, prog[w] # <<>>
  PROVE  /\ Key(w) \in Nat /\ Call(w)[3] \in Val /\ Hash(Key(w)) \in Hashes
         /\ List(w) \in Seq(Elem) /\ Call(w) \in Calls
<1>1. Call(w) \in Calls BY SMTT(60) DEF TypeInv, Call
<1>2. Key(w) \in Nat /\ Call(w)[3] \in Val BY <1>1 DEF Calls, Key, Val
<1>3. Hash(Key(w)) \in Hashes BY <1>2, HashType
<1> QED BY <1>1, <1>2, <1>3 DEF TypeInv, List

\* The searches and the results of the other threads stand.
LEMMA OthersStand ==
  ASSUME KeyAssumption, IInv, NEW w \in Worker, OnlyMoves(w), Grows(w), Note,
         NEW v \in Worker \ {w}, elems' \in Tables
  PROVE  /\ pc'[v] \in Searching => Passed(List(v)', at'[v], Key(v)')
         /\ pc'[v] \in {"wait", "create"} => at'[v] = 1
         /\ pc'[v] = "add" => AtEnd(v)'
         /\ pc'[v] = "store" => at'[v] \in DOMAIN List(v)' /\ Here(v)'.id = Key(v)'
         /\ pc'[v] = "ret" => out'[v] \in seen'[v] \cup {"error"}
<1> USE DEF IInv
<1> DEFINE h == Hash(Key(v))
<1>0. /\ pc'[v] = pc[v] /\ at'[v] = at[v] /\ out'[v] = out[v] /\ prog'[v] = prog[v]
  BY DEF OnlyMoves
<1>1. Key(v)' = Key(v) /\ List(v)' = elems'[h] /\ List(v) = elems[h] /\ Here(v)' = elems'[h][at[v]]
  BY <1>0 DEF Key, Call, List, Here
<1>2. CASE pc[v] = "ret"
  <2>1. seen[v] \subseteq seen'[v]
    BY <1>0, <1>2 DEF Note
  <2> QED BY <1>0, <1>2, <2>1 DEF Linearizable, Searching
<1>3. CASE pc[v] \in Searching \cup {"store"}
  <2>1. prog[v] # <<>> BY <1>3 DEF LockInv, Searching
  <2>2. h \in Hashes /\ elems[h] \in Seq(Elem) BY <2>1, CallType, <1>1
  <2>3. elems'[h] \in Seq(Elem) BY <2>2 DEF Tables
  <2>4. at[v] \in Nat BY DEF TypeInv
  <2>5. /\ Len(elems[h]) <= Len(elems'[h])
        /\ \A j \in 1 .. Len(elems[h]) : elems'[h][j].id = elems[h][j].id
        /\ Len(elems[h]) # Len(elems'[h]) => lock = w
    BY <2>2 DEF Grows
  <2> HIDE DEF h
  <2>6. CASE pc[v] \in Searching
    <3>1. Passed(elems[h], at[v], Key(v)) BY <2>6, <1>1 DEF SearchInv
    <3>2. Passed(elems'[h], at[v], Key(v)) BY <3>1, <2>2, <2>3, <2>4, <2>5, SMTT(60) DEF Passed
    <3>3. pc[v] = "add" => AtEnd(v)'
      <4>1. SUFFICES ASSUME pc[v] = "add" PROVE AtEnd(v)' OBVIOUS
      <4>2. lock = v BY <4>1 DEF LockInv
      <4>3. Len(elems'[h]) = Len(elems[h]) BY <4>2, <2>5
      <4>4. at[v] > Len(elems[h]) BY <4>1, <1>1 DEF SearchInv, AtEnd
      <4> QED BY <1>0, <1>1, <4>3, <4>4 DEF AtEnd
    <3> QED BY <1>0, <1>1, <2>6, <3>2, <3>3 DEF Searching
  <2>7. CASE pc[v] = "store"
    <3>1. at[v] \in DOMAIN elems[h] /\ elems[h][at[v]].id = Key(v)
      BY <2>7, <1>1 DEF SearchInv, Here
    <3>2. at[v] \in DOMAIN elems'[h] /\ elems'[h][at[v]].id = Key(v)
      BY <3>1, <2>2, <2>3, <2>5, SMTT(60)
    <3> QED BY <1>0, <1>1, <2>7, <3>2 DEF Searching
  <2> QED BY <1>3, <2>6, <2>7
<1>4. CASE pc[v] \notin Searching \cup {"store", "ret"}
  BY <1>0, <1>4 DEF Searching, SearchInv
<1> QED BY <1>2, <1>3, <1>4

\* Thread w's own part of the invariant.
Own(w) ==
  /\ pc[w] # "idle" => prog[w] # <<>>
  /\ pc[w] \in Searching => Passed(List(w), at[w], Key(w))
  /\ pc[w] \in {"wait", "create"} => at[w] = 1
  /\ pc[w] = "add" => AtEnd(w)
  /\ pc[w] = "store" => at[w] \in DOMAIN List(w) /\ Here(w).id = Key(w)
  /\ pc[w] = "ret" => out[w] \in seen[w] \cup {"error"}

\* A step of w that keeps w's part, the types, the lists and the locks keeps
\* the invariant.
LEMMA StepKeeps ==
  ASSUME KeyAssumption, IInv, NEW w \in Worker, OnlyMoves(w), Grows(w), Note,
         killed = {}, killed' = {}, TypeInv', ListInv', TableInv', Own(w)',
         pc'[w] \in {"find_again", "add"} => lock' = w,
         lock' # lock => lock' = w \/ lock = w,
         lock' = w => lock \in {w, Null},
         pc'[w] = "create" => table' = Locked /\ table # Locked,
         table = Locked => table' = Locked \/ pc[w] = "create"
  PROVE  IInv'
<1> USE DEF IInv
<1>1. \A v \in Worker \ {w} : pc'[v] = pc[v] /\ prog'[v] = prog[v] BY DEF OnlyMoves
<1>2. LockInv'
  <2>1. \A v \in Worker : pc'[v] # "idle" => prog'[v] # <<>>
    BY <1>1 DEF Own, LockInv
  <2>2. ASSUME NEW v \in Worker, pc'[v] \in {"find_again", "add"} PROVE lock' = v
    <3>1. CASE v = w BY <2>2, <3>1
    <3>2. CASE v # w
      <4>1. lock = v BY <1>1, <2>2, <3>2 DEF LockInv
      <4> QED BY <4>1, <3>2 DEF KeyAssumption
    <3> QED BY <3>1, <3>2
  <2>3. ASSUME NEW v \in Worker, pc'[v] = "create" PROVE table' = Locked
    <3>1. CASE v # w /\ pc[w] = "create" BY <1>1, <2>3, <3>1 DEF LockInv
    <3> QED BY <1>1, <2>3, <3>1 DEF LockInv
  <2>4. ASSUME NEW v \in Worker, NEW u \in Worker, pc'[v] = "create", pc'[u] = "create"
        PROVE  v = u
    BY <1>1, <2>4 DEF LockInv
  <2> QED BY <2>1, <2>2, <2>3, <2>4 DEF LockInv
<1>3. elems' \in Tables BY DEF TypeInv, Tables
<1>4. SearchInv' /\ Linearizable'
  <2>1. ASSUME NEW v \in Worker
        PROVE  /\ pc'[v] \in Searching => Passed(List(v)', at'[v], Key(v)')
               /\ pc'[v] \in {"wait", "create"} => at'[v] = 1
               /\ pc'[v] = "add" => AtEnd(v)'
               /\ pc'[v] = "store" => at'[v] \in DOMAIN List(v)' /\ Here(v)'.id = Key(v)'
               /\ pc'[v] = "ret" => out'[v] \in seen'[v] \cup {"error"}
    <3>1. CASE v = w BY <3>1 DEF Own
    <3>2. CASE v # w BY <3>2, <1>3, OthersStand
    <3> QED BY <3>1, <3>2
  <2> QED BY <2>1 DEF SearchInv, Linearizable
<1>5. DestroyedOnce' BY DEF DestroyedOnce
<1> QED BY <1>2, <1>4, <1>5

\* A thread in a call notes the value its key has.
LEMMA Noted ==
  ASSUME Note, NEW w \in Worker, pc[w] # "idle", pc'[w] # "idle"
  PROVE  ValueIn(elems', Key(w)) \in seen'[w]
  BY DEF Note

\* A step of w that changes neither the lists nor the calls keeps the
\* invariant when it keeps w's part and the locks.
LEMMA QuietStep ==
  ASSUME KeyAssumption, IInv, NEW w \in Worker, Note, UNCHANGED <<prog, elems>>,
         NEW to \in Steps, Step(w, pc[w], to),
         NEW i \in Nat, at' = [at EXCEPT ![w] = i],
         NEW o \in Val \cup {"error"}, out' = [out EXCEPT ![w] = o],
         table' \in {Null, Locked, Table}, table = Table => table' = Table,
         to \in Searching \cup {"store"} => table' = Table,
         to \in {"find_again", "add"} => lock' = w,
         lock' # lock => lock' = w \/ lock = w,
         lock' = w => lock \in {w, Null},
         to = "create" => table' = Locked /\ table # Locked,
         table = Locked => table' = Locked \/ pc[w] = "create",
         Own(w)'
  PROVE  IInv'
<1> USE DEF IInv
<1>1. /\ prog' = prog /\ elems' = elems /\ killed = {} /\ killed' = {}
      /\ pc' = [pc EXCEPT ![w] = to]
  BY DEF Step
<1>2. pc'[w] = to /\ \A v \in Worker \ {w} : pc'[v] = pc[v] BY <1>1 DEF TypeInv
<1>3. OnlyMoves(w)
  <2>1. \A v \in Worker \ {w} : at'[v] = at[v] /\ out'[v] = out[v] BY DEF TypeInv
  <2> QED BY <1>1, <1>2, <2>1 DEF OnlyMoves
<1>4. Grows(w)
  <2>1. \A h \in Hashes : Len(elems[h]) \in Nat BY SMTT(60) DEF TypeInv
  <2> QED BY <1>1, <2>1, SMTT(60) DEF Grows
<1>5. TypeInv'
  <2>1. pc' \in [Worker -> Steps] BY <1>1 DEF TypeInv
  <2>2. at' \in [Worker -> Nat] BY DEF TypeInv
  <2>3. out' \in [Worker -> Val \cup {"error"}] BY DEF TypeInv
  <2>4. DOMAIN seen' = Worker BY DEF Note
  <2> QED BY <1>1, <2>1, <2>2, <2>3, <2>4 DEF TypeInv
<1>6. ListInv' BY <1>1 DEF ListInv
<1>7. TableInv'
  <2>1. \A v \in Worker : pc'[v] \in Searching \cup {"store"} => table' = Table
    BY <1>1, <1>2 DEF TableInv
  <2>2. table' # Table => \A h \in Hashes : elems'[h] = <<>> BY <1>1 DEF TableInv
  <2> QED BY <2>1, <2>2 DEF TableInv
<1> QED BY <1>1, <1>2, <1>3, <1>4, <1>5, <1>6, <1>7, StepKeeps

-----------------------------------------------------------------------------
(* The actions.                                                              *)

LEMMA GetKeeps ==
  ASSUME KeyAssumption, IInv, NEW w \in Worker, Get(w), Note
  PROVE  IInv'
<1> USE DEF IInv
<1> DEFINE to == IF table = Table THEN "get_elem" ELSE Absent(w)
<1>1. /\ prog[w] # <<>> /\ pc[w] = "idle" /\ Step(w, pc[w], to) /\ killed = {}
      /\ UNCHANGED <<prog, elems>> /\ table' = table /\ lock' = lock
      /\ at' = [at EXCEPT ![w] = 1] /\ out' = [out EXCEPT ![w] = Null]
  BY DEF Get, Step, Seek, Give
<1>2. to \in {"get_elem", "set", "ret"} /\ to \in Steps BY DEF Absent, Steps, Searching
<1>3. to = "get_elem" <=> table = Table BY DEF Absent
<1> HIDE DEF to
<1>4. pc'[w] = to /\ at'[w] = 1 /\ out'[w] = Null BY <1>1 DEF Step, TypeInv
<1>5. Key(w)' = Key(w) /\ List(w)' = List(w) BY <1>1 DEF Key, Call, List
<1>6. Own(w)'
  <2>1. List(w) \in Seq(Elem) /\ Key(w) \in Nat /\ Hash(Key(w)) \in Hashes BY <1>1, CallType
  <2>2. Passed(List(w), 1, Key(w)) BY <2>1, SMTT(60) DEF Passed
  <2>3. to = "ret" => Null \in seen'[w]
    <3>1. SUFFICES ASSUME to = "ret" PROVE Null \in seen'[w] OBVIOUS
    <3>2. elems[Hash(Key(w))] = <<>> BY <3>1, <1>1, <1>3, <2>1 DEF TableInv
    <3>3. ValueIn(elems, Key(w)) = Null BY <3>2, ValueNone, SMTT(60)
    <3> QED BY <3>1, <3>3, <1>1, <1>4 DEF Note
  <2> QED BY <1>1, <1>2, <1>4, <1>5, <2>2, <2>3 DEF Own, Searching
<1>7. Null \in Val \cup {"error"} BY DEF Val
<1>8. table \in {Null, Locked, Table} BY DEF TypeInv
<1>9. to \in Searching \cup {"store"} => table' = Table BY <1>1, <1>2, <1>3 DEF Searching
<1> QED BY <1>1, <1>2, <1>6, <1>7, <1>8, <1>9, QuietStep

LEMMA GetElemKeeps ==
  ASSUME KeyAssumption, IInv, NEW w \in Worker, GetElem(w), Note
  PROVE  IInv'
<1> USE DEF IInv
<1> DEFINE found == ~AtEnd(w) /\ Here(w).id = Key(w)
           to == IF found /\ Here(w).value # Null THEN "ret"
                 ELSE IF found \/ AtEnd(w) THEN Absent(w) ELSE "get_elem"
           o == IF found THEN Here(w).value ELSE Null
<1>1. /\ pc[w] = "get_elem" /\ Step(w, pc[w], to) /\ killed = {}
      /\ UNCHANGED <<prog, elems>> /\ table' = table /\ lock' = lock
      /\ at' = [at EXCEPT ![w] = at[w] + 1] /\ out' = [out EXCEPT ![w] = o]
  BY DEF GetElem, Step, Seek, Give
<1>2. to \in {"get_elem", "set", "ret"} /\ to \in Steps BY DEF Absent, Steps, Searching
<1>3. to = "get_elem" <=> ~AtEnd(w) /\ Here(w).id # Key(w) BY DEF Absent
<1>4. prog[w] # <<>> BY <1>1 DEF LockInv
<1>5. /\ List(w) \in Seq(Elem) /\ Key(w) \in Nat /\ Hash(Key(w)) \in Hashes
      /\ at[w] \in Nat /\ OneEntry(List(w)) /\ elems \in Tables
  BY <1>4, CallType DEF TypeInv, ListInv, List, Tables
<1>6. Passed(List(w), at[w], Key(w)) BY <1>1 DEF SearchInv, Searching
<1>7. ~AtEnd(w) => at[w] \in DOMAIN List(w) /\ Here(w) \in Elem
  BY <1>5, <1>6, SMTT(60) DEF Passed, AtEnd, Here
<1>8. o \in Val \cup {"error"} BY <1>7 DEF Elem, Val
<1>9. ~ (to = "get_elem") => o = ValueIn(elems, Key(w))
  <2>1. CASE found
    BY <2>1, <1>5, <1>7, ValueIs DEF Here, List
  <2>2. CASE AtEnd(w)
    <3>1. \A j \in DOMAIN List(w) : List(w)[j].id # Key(w)
      BY <2>2, <1>5, <1>6, SMTT(60) DEF Passed, AtEnd
    <3> QED BY <2>2, <3>1, ValueNone DEF List
  <2> QED BY <2>1, <2>2, <1>3
<1>10. Passed(List(w), at[w], Key(w)) /\ to = "get_elem" => Passed(List(w), at[w] + 1, Key(w))
  BY <1>3, <1>5, <1>7, SMTT(60) DEF Passed, Here
<1> HIDE DEF found, to, o
<1>11. pc'[w] = to /\ at'[w] = at[w] + 1 /\ out'[w] = o BY <1>1 DEF Step, TypeInv
<1>12. Key(w)' = Key(w) /\ List(w)' = List(w) BY <1>1 DEF Key, Call, List
<1>13. Own(w)'
  <2>1. to # "idle" BY <1>2
  <2>2. ValueIn(elems, Key(w)) \in seen'[w] BY <1>1, <1>11, <2>1, Noted
  <2> QED BY <1>1, <1>2, <1>4, <1>6, <1>9, <1>10, <1>11, <1>12, <2>2 DEF Own, Searching
<1>14. table = Table BY <1>1 DEF TableInv, Searching
<1>15. at[w] + 1 \in Nat /\ table' \in {Null, Locked, Table} /\ table' # Locked
  BY <1>1, <1>5, <1>14, SMTT(60) DEF KeyAssumption
<1>16. to \notin {"find_again", "add", "create"} /\ table # Locked BY <1>1, <1>2, <1>15
<1> QED BY <1>1, <1>2, <1>8, <1>13, <1>14, <1>15, <1>16, QuietStep

LEMMA SetKeeps ==
  ASSUME KeyAssumption, IInv, NEW w \in Worker, Set(w), Note
  PROVE  IInv'
<1> USE DEF IInv
<1>1. /\ prog[w] # <<>> /\ pc[w] = "idle" /\ Step(w, pc[w], "set")
      /\ UNCHANGED <<prog, elems>> /\ table' = table /\ lock' = lock
      /\ at' = [at EXCEPT ![w] = at[w]] /\ out' = [out EXCEPT ![w] = out[w]]
  BY DEF Set, Step, TypeInv
<1>2. pc'[w] = "set" BY <1>1 DEF Step, TypeInv
<1>3. Own(w)' BY <1>1, <1>2 DEF Own, Searching
<1>4. "set" \in Steps /\ "set" \notin Searching BY DEF Steps, Searching
<1>5. at[w] \in Nat /\ out[w] \in Val \cup {"error"} /\ table' \in {Null, Locked, Table}
  BY <1>1 DEF TypeInv
<1> QED BY <1>1, <1>3, <1>4, <1>5, QuietStep

LEMMA SetTableKeeps ==
  ASSUME KeyAssumption, IInv, NEW w \in Worker, SetTable(w), Note
  PROVE  IInv'
<1> USE DEF IInv
<1> DEFINE to == IF table = Table THEN "find" ELSE IF table = Null THEN "create" ELSE "wait"
<1>1. /\ pc[w] = "set" /\ Step(w, pc[w], to)
      /\ UNCHANGED <<prog, elems>> /\ lock' = lock
      /\ table' = IF table = Null THEN Locked ELSE table
      /\ at' = [at EXCEPT ![w] = 1] /\ out' = [out EXCEPT ![w] = out[w]]
  BY DEF SetTable, Step, Seek, TypeInv
<1>2. to \in {"find", "create", "wait"} /\ to \in Steps BY DEF Steps, Searching
<1>3. /\ to = "find" => table' = Table
      /\ to = "create" => table' = Locked /\ table # Locked
      /\ table = Table => table' = Table
      /\ table = Locked => table' = Locked
      /\ table' \in {Null, Locked, Table}
  BY <1>1 DEF KeyAssumption, TypeInv
<1> HIDE DEF to
<1>4. prog[w] # <<>> BY <1>1 DEF LockInv
<1>5. pc'[w] = to /\ at'[w] = 1 BY <1>1 DEF Step, TypeInv
<1>6. Key(w)' = Key(w) /\ List(w)' = List(w) BY <1>1 DEF Key, Call, List
<1>7. Own(w)'
  <2>1. List(w) \in Seq(Elem) BY <1>4, CallType
  <2>2. Passed(List(w), 1, Key(w)) BY <2>1, SMTT(60) DEF Passed
  <2> QED BY <1>1, <1>2, <1>4, <1>5, <1>6, <2>2 DEF Own
<1>8. to \in Searching \cup {"store"} => table' = Table BY <1>2, <1>3 DEF Searching
<1>9. out[w] \in Val \cup {"error"} BY DEF TypeInv
<1> QED BY <1>1, <1>2, <1>3, <1>7, <1>8, <1>9, QuietStep

LEMMA WaitTableKeeps ==
  ASSUME KeyAssumption, IInv, NEW w \in Worker, WaitTable(w), Note
  PROVE  IInv'
<1> USE DEF IInv
<1> DEFINE to == IF table = Table THEN "find" ELSE "null_table"
<1>1. /\ pc[w] = "wait" /\ Step(w, pc[w], to) /\ table # Locked
      /\ UNCHANGED <<prog, elems>> /\ lock' = lock /\ table' = table
      /\ at' = [at EXCEPT ![w] = 1] /\ out' = [out EXCEPT ![w] = out[w]]
  BY DEF WaitTable, Step, TypeInv, SearchInv
<1>2. to \in {"find", "null_table"} /\ to \in Steps /\ (to = "find" => table' = Table)
  BY <1>1 DEF Steps, Searching
<1> HIDE DEF to
<1>4. prog[w] # <<>> BY <1>1 DEF LockInv
<1>5. pc'[w] = to /\ at'[w] = 1 BY <1>1 DEF Step, TypeInv
<1>6. Key(w)' = Key(w) /\ List(w)' = List(w) BY <1>1 DEF Key, Call, List
<1>7. Own(w)'
  <2>1. List(w) \in Seq(Elem) BY <1>4, CallType
  <2>2. Passed(List(w), 1, Key(w)) BY <2>1, SMTT(60) DEF Passed
  <2> QED BY <1>1, <1>2, <1>4, <1>5, <1>6, <2>2 DEF Own
<1>8. to \in Searching \cup {"store"} => table' = Table BY <1>2 DEF Searching
<1>9. out[w] \in Val \cup {"error"} /\ table' \in {Null, Locked, Table} BY <1>1 DEF TypeInv
<1> QED BY <1>1, <1>2, <1>7, <1>8, <1>9, QuietStep

LEMMA CreateTableKeeps ==
  ASSUME KeyAssumption, IInv, NEW w \in Worker, CreateTable(w), Note
  PROVE  IInv'
<1> USE DEF IInv
<1>1. /\ pc[w] = "create" /\ UNCHANGED <<prog, elems>> /\ lock' = lock
      /\ at' = [at EXCEPT ![w] = 1] /\ at[w] = 1
  BY DEF CreateTable, Step, TypeInv, SearchInv
<1>2. prog[w] # <<>> /\ table = Locked /\ table # Table BY <1>1 DEF LockInv, KeyAssumption
<1>3. Key(w)' = Key(w) /\ List(w)' = List(w) BY <1>1 DEF Key, Call, List
<1>4. CASE Step(w, "create", "find") /\ table' = Table /\ out' = out
  <2>1. pc'[w] = "find" /\ at'[w] = 1 BY <1>1, <1>4 DEF Step, TypeInv
  <2>2. Own(w)'
    <3>1. List(w) \in Seq(Elem) BY <1>2, CallType
    <3>2. Passed(List(w), 1, Key(w)) BY <3>1, SMTT(60) DEF Passed
    <3> QED BY <1>1, <1>2, <1>3, <2>1, <3>2 DEF Own
  <2>3. out' = [out EXCEPT ![w] = out[w]] /\ out[w] \in Val \cup {"error"} BY <1>4 DEF TypeInv
  <2>4. "find" \in Steps /\ Step(w, pc[w], "find") BY <1>1, <1>4 DEF Steps, Searching
  <2> QED BY <1>1, <1>2, <1>4, <2>2, <2>3, <2>4, QuietStep
<1>5. CASE Step(w, "create", "ret") /\ table' = Null /\ Give(w, "error")
  <2>1. pc'[w] = "ret" /\ out'[w] = "error" BY <1>5 DEF Step, TypeInv, Give
  <2>2. Own(w)' BY <1>1, <1>2, <2>1 DEF Own, Searching
  <2>3. out' = [out EXCEPT ![w] = "error"] BY <1>5 DEF Give
  <2>4. "ret" \in Steps /\ "ret" \notin Searching /\ Step(w, pc[w], "ret")
    BY <1>1, <1>5 DEF Steps, Searching
  <2> QED BY <1>1, <1>2, <1>5, <2>2, <2>3, <2>4, QuietStep
<1> QED BY <1>4, <1>5 DEF CreateTable

\* A step of a search: it goes past an entry of another key, or ends.
LEMMA SearchStep ==
  ASSUME KeyAssumption, IInv, NEW w \in Worker, Note, pc[w] \in {"find", "lock", "find_again"},
         UNCHANGED <<prog, elems, table, out>>,
         NEW to \in {"find", "lock", "find_again", "add", "store"}, Step(w, pc[w], to),
         NEW i \in Nat, at' = [at EXCEPT ![w] = i],
         \/ i = at[w]
         \/ i = at[w] + 1 /\ ~AtEnd(w) /\ Here(w).id # Key(w) /\ to \in {"find", "find_again"},
         to = "add" => AtEnd(w),
         to = "store" => i = at[w] /\ ~AtEnd(w) /\ Here(w).id = Key(w),
         to \in {"find_again", "add"} => lock' = w,
         lock' # lock => lock' = w \/ lock = w,
         lock' = w => lock \in {w, Null}
  PROVE  IInv'
<1> USE DEF IInv
<1>1. prog[w] # <<>> BY DEF LockInv
<1>2. List(w) \in Seq(Elem) /\ Key(w) \in Nat /\ at[w] \in Nat BY <1>1, CallType DEF TypeInv
<1>3. Passed(List(w), at[w], Key(w)) BY DEF SearchInv, Searching
<1>4. ~AtEnd(w) => at[w] \in DOMAIN List(w) BY <1>2, <1>3, SMTT(60) DEF Passed, AtEnd
<1>5. Passed(List(w), i, Key(w))
  <2>1. CASE i = at[w] BY <2>1, <1>3
  <2>2. CASE i = at[w] + 1 /\ ~AtEnd(w) /\ Here(w).id # Key(w)
    BY <2>2, <1>2, <1>3, <1>4, SMTT(60) DEF Passed, Here
  <2> QED BY <2>1, <2>2
<1>6. pc'[w] = to /\ at'[w] = i BY DEF Step, TypeInv
<1>7. Key(w)' = Key(w) /\ List(w)' = List(w) /\ prog'[w] = prog[w] BY DEF Key, Call, List
<1>8. Own(w)'
  <2>1. to = "add" => AtEnd(w)' BY <1>6, <1>7 DEF AtEnd
  <2>2. to = "store" => i \in DOMAIN List(w) /\ Here(w)'.id = Key(w)
    BY <1>4, <1>6, <1>7 DEF Here
  <2> QED BY <1>1, <1>5, <1>6, <1>7, <2>1, <2>2 DEF Own
<1>9. table = Table /\ table' = Table /\ table # Locked
  <2>1. killed = {} /\ pc[w] \in Searching BY DEF Step, Searching
  <2> QED BY <2>1 DEF TableInv, KeyAssumption
<1>10. out' = [out EXCEPT ![w] = out[w]] /\ out[w] \in Val \cup {"error"} BY DEF TypeInv
<1>11. to \in Steps /\ to # "create" BY DEF Steps, Searching
<1> QED BY <1>8, <1>9, <1>10, <1>11, QuietStep

\* The value of an entry that was found is stored.
LEMMA StoreStep ==
  ASSUME KeyAssumption, IInv, NEW w \in Worker, Note, pc[w] \in {"find", "store"},
         at[w] \in DOMAIN List(w), Here(w).id = Key(w),
         Step(w, pc[w], "ret"), Store(w, at[w]), Give(w, Call(w)[3]),
         UNCHANGED <<prog, table, lock, at>>
  PROVE  IInv'
<1> USE DEF IInv
<1> DEFINE k == Key(w)
           h == Hash(Key(w))
           v == Call(w)[3]
<1>1. prog[w] # <<>> BY DEF LockInv
<1>2. k \in Nat /\ v \in Val /\ h \in Hashes /\ elems \in Tables
  BY <1>1, CallType DEF TypeInv, Tables
<1>3. at[w] \in DOMAIN elems[h] /\ elems[h][at[w]].id = k BY DEF List, Here
<1>4. elems' = Put(elems, h, at[w], v) BY DEF Store, Put
<1>5. /\ killed = {} /\ killed' = {} /\ pc' = [pc EXCEPT ![w] = "ret"]
      /\ out' = [out EXCEPT ![w] = v]
  BY DEF Step, Give
<1> HIDE DEF k, h, v
<1>6. /\ elems' \in Tables
      /\ \A g \in Hashes : /\ Len(elems'[g]) = Len(elems[g])
                           /\ \A j \in 1 .. Len(elems[g]) : elems'[g][j].id = elems[g][j].id
      /\ elems'[h][at[w]].value = v
  BY <1>2, <1>3, <1>4, Stored, SMTT(60)
<1>7. \A g \in Hashes : /\ Len(elems[g]) \in Nat /\ DOMAIN elems[g] = 1 .. Len(elems[g])
                        /\ DOMAIN elems'[g] = 1 .. Len(elems[g])
  <2> TAKE g \in Hashes
  <2>1. elems[g] \in Seq(Elem) /\ elems'[g] \in Seq(Elem) BY <1>2, <1>6 DEF Tables
  <2> QED BY <2>1, <1>6, SMTT(60)
<1>8. ListInv' BY <1>6, <1>7 DEF ListInv, OneEntry
<1>9. Grows(w) BY <1>6, <1>7, SMTT(60) DEF Grows
<1>10. pc'[w] = "ret" /\ out'[w] = v BY <1>5 DEF TypeInv
<1>11. OnlyMoves(w) BY <1>5 DEF OnlyMoves, TypeInv
<1>12. TypeInv'
  <2>1. pc' \in [Worker -> Steps] BY <1>5 DEF TypeInv, Steps
  <2>2. out' \in [Worker -> Val \cup {"error"}] BY <1>2, <1>5 DEF TypeInv
  <2>3. DOMAIN seen' = Worker BY DEF Note
  <2> QED BY <1>6, <2>1, <2>2, <2>3 DEF TypeInv, Tables
<1>13. v \in seen'[w]
  <2>1. OneEntry(elems'[h]) BY <1>2, <1>8 DEF ListInv
  <2>2. at[w] \in DOMAIN elems'[h] /\ elems'[h][at[w]].id = k BY <1>2, <1>3, <1>6, <1>7
  <2>3. ValueIn(elems', k) = v BY <2>1, <2>2, <1>2, <1>6, ValueIs DEF k, h
  <2> QED BY <2>3, <1>10, Noted DEF k
<1>14. Own(w)' BY <1>1, <1>10, <1>13 DEF Own, Searching
<1>15. TableInv'
  <2>1. table = Table BY <1>5 DEF TableInv, Searching
  <2> QED BY <2>1 DEF TableInv
<1>16. table # Locked
  <2>1. table = Table BY <1>5 DEF TableInv, Searching
  <2> QED BY <2>1 DEF KeyAssumption
<1> QED BY <1>5, <1>8, <1>9, <1>10, <1>11, <1>12, <1>14, <1>15, <1>16, StepKeeps

LEMMA FindKeeps ==
  ASSUME KeyAssumption, IInv, NEW w \in Worker, Find(w), Note
  PROVE  IInv'
<1> USE DEF IInv
<1>1. pc[w] = "find" /\ UNCHANGED <<prog, table, lock>> BY DEF Find
<1>2. at[w] \in Nat /\ at[w] + 1 \in Nat /\ at = [at EXCEPT ![w] = at[w]] BY SMTT(60) DEF TypeInv
<1>3. CASE AtEnd(w) /\ Step(w, "find", "lock") /\ UNCHANGED <<elems, at, out>>
  BY <1>1, <1>2, <1>3, SearchStep
<1>4. CASE /\ ~AtEnd(w) /\ Here(w).id = Key(w)
           /\ Step(w, "find", "ret") /\ Store(w, at[w]) /\ Give(w, Call(w)[3]) /\ UNCHANGED at
  <2>1. prog[w] # <<>> BY <1>1 DEF LockInv
  <2>2. List(w) \in Seq(Elem) BY <2>1, CallType
  <2>3. Passed(List(w), at[w], Key(w)) BY <1>1 DEF SearchInv, Searching
  <2>4. at[w] \in DOMAIN List(w) BY <2>2, <2>3, <1>4, <1>2, SMTT(60) DEF Passed, AtEnd
  <2> QED BY <1>1, <1>4, <2>4, StoreStep
<1>5. CASE /\ ~AtEnd(w) /\ Here(w).id # Key(w)
           /\ Step(w, "find", "find") /\ Seek(w, at[w] + 1) /\ UNCHANGED <<elems, out>>
  <2>1. at' = [at EXCEPT ![w] = at[w] + 1] BY <1>5 DEF Seek
  <2> QED BY <1>1, <1>2, <1>5, <2>1, SearchStep
<1> QED BY <1>3, <1>4, <1>5 DEF Find

LEMMA LockKeeps ==
  ASSUME KeyAssumption, IInv, NEW w \in Worker, Lock(w), Note
  PROVE  IInv'
<1> USE DEF IInv
<1>1. /\ pc[w] = "lock" /\ lock = Null /\ lock' = w /\ Step(w, "lock", "find_again")
      /\ UNCHANGED <<prog, table, elems, out>> /\ at' = at
  BY DEF Lock, Step
<1>2. at[w] \in Nat /\ at = [at EXCEPT ![w] = at[w]] BY DEF TypeInv
<1> QED BY <1>1, <1>2, SearchStep

LEMMA FindAgainKeeps ==
  ASSUME KeyAssumption, IInv, NEW w \in Worker, FindAgain(w), Note
  PROVE  IInv'
<1> USE DEF IInv
<1>1. pc[w] = "find_again" /\ UNCHANGED <<prog, table, elems, out>> BY DEF FindAgain
<1>2. at[w] \in Nat /\ at[w] + 1 \in Nat /\ at = [at EXCEPT ![w] = at[w]] BY SMTT(60) DEF TypeInv
<1>3. lock = w /\ Null # w BY <1>1 DEF LockInv, KeyAssumption
<1>4. CASE AtEnd(w) /\ Step(w, "find_again", "add") /\ UNCHANGED <<at, lock>>
  BY <1>1, <1>2, <1>3, <1>4, SearchStep
<1>5. CASE /\ ~AtEnd(w) /\ Here(w).id = Key(w)
           /\ Step(w, "find_again", "store") /\ lock' = Null /\ UNCHANGED at
  BY <1>1, <1>2, <1>3, <1>5, SearchStep
<1>6. CASE /\ ~AtEnd(w) /\ Here(w).id # Key(w)
           /\ Step(w, "find_again", "find_again") /\ Seek(w, at[w] + 1) /\ UNCHANGED lock
  <2>1. at' = [at EXCEPT ![w] = at[w] + 1] BY <1>6 DEF Seek
  <2> QED BY <1>1, <1>2, <1>3, <1>6, <2>1, SearchStep
<1> QED BY <1>4, <1>5, <1>6 DEF FindAgain

LEMMA StoreFoundKeeps ==
  ASSUME KeyAssumption, IInv, NEW w \in Worker, StoreFound(w), Note
  PROVE  IInv'
<1> USE DEF IInv
<1>1. /\ pc[w] = "store" /\ Step(w, "store", "ret") /\ Store(w, at[w]) /\ Give(w, Call(w)[3])
      /\ UNCHANGED <<prog, table, lock, at>>
  BY DEF StoreFound, Step
<1>2. at[w] \in DOMAIN List(w) /\ Here(w).id = Key(w) BY <1>1 DEF SearchInv
<1> QED BY <1>1, <1>2, StoreStep

\* The entry is appended under the lock, by a thread that has seen the list.
LEMMA AppendStep ==
  ASSUME KeyAssumption, IInv, NEW w \in Worker, Note,
         Step(w, "add", "ret"), lock' = Null, Give(w, Call(w)[3]),
         elems' = More(elems, Hash(Key(w)), Entry(Key(w), Call(w)[3])),
         UNCHANGED <<prog, table, at>>
  PROVE  IInv'
<1> USE DEF IInv
<1> DEFINE k == Key(w)
           h == Hash(Key(w))
           v == Call(w)[3]
           e == Entry(k, v)
           n == Len(elems[h]) + 1
<1>1. pc[w] = "add" /\ prog[w] # <<>> BY DEF Step, LockInv
<1>2. k \in Nat /\ v \in Val /\ h \in Hashes /\ elems \in Tables
  BY <1>1, CallType DEF TypeInv, Tables
<1>3. e \in Elem /\ e.id = k /\ e.value = v BY <1>2 DEF Entry, Elem
<1>4. elems' = More(elems, h, e) OBVIOUS
<1>5. /\ killed = {} /\ killed' = {} /\ pc' = [pc EXCEPT ![w] = "ret"]
      /\ out' = [out EXCEPT ![w] = v]
  BY DEF Step, Give
<1>6. elems[h] \in Seq(Elem) BY <1>2 DEF Tables
<1>7. \A j \in DOMAIN elems[h] : elems[h][j].id # k
  <2>1. Passed(elems[h], at[w], k) /\ at[w] > Len(elems[h]) /\ at[w] \in Nat
    BY <1>1 DEF SearchInv, Searching, AtEnd, List, TypeInv
  <2> QED BY <2>1, <1>6, SMTT(60) DEF Passed
<1> HIDE DEF k, h, v, e
<1>8. /\ elems' \in Tables
      /\ \A g \in Hashes : g # h => elems'[g] = elems[g]
      /\ Len(elems'[h]) = n /\ elems'[h][n] = e
      /\ \A j \in 1 .. Len(elems[h]) : elems'[h][j] = elems[h][j]
  BY <1>2, <1>3, <1>4, Appended, SMTT(60)
<1>9. /\ Len(elems[h]) \in Nat /\ DOMAIN elems[h] = 1 .. Len(elems[h])
      /\ elems'[h] \in Seq(Elem) /\ DOMAIN elems'[h] = 1 .. n
  BY <1>2, <1>6, <1>8, SMTT(60) DEF Tables
<1>10. ListInv'
  <2>1. OneEntry(elems'[h])
    <3> SUFFICES ASSUME NEW i \in DOMAIN elems'[h], NEW j \in DOMAIN elems'[h],
                        elems'[h][i].id = elems'[h][j].id
                 PROVE  i = j
      BY DEF OneEntry
    <3>1. i \in 1 .. Len(elems[h]) \/ i = n BY <1>9, SMTT(60)
    <3>2. j \in 1 .. Len(elems[h]) \/ j = n BY <1>9, SMTT(60)
    <3>3. CASE i \in 1 .. Len(elems[h]) /\ j \in 1 .. Len(elems[h])
      BY <3>3, <1>2, <1>8, <1>9 DEF ListInv, OneEntry
    <3>4. CASE i \in 1 .. Len(elems[h]) /\ j = n BY <3>4, <1>3, <1>7, <1>8, <1>9
    <3>5. CASE i = n /\ j \in 1 .. Len(elems[h]) BY <3>5, <1>3, <1>7, <1>8, <1>9
    <3> QED BY <3>1, <3>2, <3>3, <3>4, <3>5
  <2> QED BY <2>1, <1>8 DEF ListInv
<1>11. lock = w /\ Null # w BY <1>1 DEF LockInv, KeyAssumption
<1>12. Grows(w)
  <2>1. \A g \in Hashes : Len(elems[g]) \in Nat BY <1>2, SMTT(60) DEF Tables
  <2> QED BY <2>1, <1>8, <1>11, SMTT(60) DEF Grows
<1>13. pc'[w] = "ret" /\ out'[w] = v BY <1>5 DEF TypeInv
<1>14. OnlyMoves(w) BY <1>5 DEF OnlyMoves, TypeInv
<1>15. TypeInv'
  <2>1. pc' \in [Worker -> Steps] BY <1>5 DEF TypeInv, Steps
  <2>2. out' \in [Worker -> Val \cup {"error"}] BY <1>2, <1>5 DEF TypeInv
  <2>3. DOMAIN seen' = Worker BY DEF Note
  <2> QED BY <1>8, <2>1, <2>2, <2>3 DEF TypeInv, Tables
<1>16. v \in seen'[w]
  <2>1. OneEntry(elems'[h]) BY <1>2, <1>10 DEF ListInv
  <2>2. n \in DOMAIN elems'[h] BY <1>9, SMTT(60)
  <2>3. ValueIn(elems', k) = v BY <2>1, <2>2, <1>2, <1>3, <1>8, ValueIs DEF k, h
  <2> QED BY <2>3, <1>1, <1>13, Noted DEF k
<1>17. Own(w)' BY <1>1, <1>13, <1>16 DEF Own, Searching
<1>18. table = Table /\ table # Locked
  BY <1>1, <1>5 DEF TableInv, Searching, KeyAssumption
<1>19. TableInv' BY <1>18 DEF TableInv
<1> QED
  BY <1>5, <1>10, <1>11, <1>12, <1>13, <1>14, <1>15, <1>17, <1>18, <1>19, StepKeeps

LEMMA AddKeeps ==
  ASSUME KeyAssumption, IInv, NEW w \in Worker, Add(w), Note
  PROVE  IInv'
<1> USE DEF IInv
<1>1. lock' = Null /\ UNCHANGED <<prog, table, at>> BY DEF Add
<1>2. CASE /\ Step(w, "add", "ret") /\ Give(w, Call(w)[3])
           /\ elems' = [elems EXCEPT ![Hash(Key(w))] = Append(@, Entry(Key(w), Call(w)[3]))]
  <2>1. elems' = More(elems, Hash(Key(w)), Entry(Key(w), Call(w)[3])) BY <1>2 DEF More
  <2> QED BY <1>1, <1>2, <2>1, AppendStep
<1>3. CASE Step(w, "add", "ret") /\ Give(w, "error") /\ UNCHANGED elems
  <2>1. /\ pc[w] = "add" /\ Step(w, pc[w], "ret") /\ killed = {}
        /\ out' = [out EXCEPT ![w] = "error"]
    BY <1>3 DEF Step, Give
  <2>2. prog[w] # <<>> /\ lock = w /\ Null # w BY <2>1 DEF LockInv, KeyAssumption
  <2>3. table = Table /\ table # Locked BY <2>1 DEF TableInv, Searching, KeyAssumption
  <2>4. pc'[w] = "ret" /\ out'[w] = "error" BY <2>1 DEF Step, TypeInv
  <2>5. Own(w)' BY <1>1, <2>2, <2>4 DEF Own, Searching
  <2>6. at[w] \in Nat /\ at = [at EXCEPT ![w] = at[w]] BY DEF TypeInv
  <2>7. "ret" \in Steps /\ "ret" \notin Searching BY DEF Steps, Searching
  <2> QED BY <1>1, <1>3, <2>1, <2>2, <2>3, <2>5, <2>6, <2>7, QuietStep
<1> QED BY <1>2, <1>3 DEF Add

LEMMA ReturnKeeps ==
  ASSUME KeyAssumption, IInv, NEW w \in Worker, Return(w), Note
  PROVE  IInv'
<1> USE DEF IInv
<1>1. /\ pc[w] = "ret" /\ killed = {} /\ killed' = {} /\ pc' = [pc EXCEPT ![w] = "idle"]
      /\ prog' = [prog EXCEPT ![w] = Tail(prog[w])]
      /\ UNCHANGED <<table, elems, lock, at, out>>
  BY DEF Return, Step
<1>2. prog[w] # <<>> BY <1>1 DEF LockInv
<1>3. TypeInv'
  <2>1. prog' \in [Worker -> Seq(Calls)] BY <1>1, <1>2, SMTT(60) DEF TypeInv
  <2>2. pc' \in [Worker -> Steps] BY <1>1 DEF TypeInv, Steps
  <2>3. DOMAIN seen' = Worker BY DEF Note
  <2> QED BY <1>1, <2>1, <2>2, <2>3 DEF TypeInv
<1>4. pc'[w] = "idle" BY <1>1 DEF TypeInv
<1>5. OnlyMoves(w) BY <1>1 DEF OnlyMoves, TypeInv
<1>6. Grows(w)
  <2>1. \A h \in Hashes : Len(elems[h]) \in Nat BY SMTT(60) DEF TypeInv
  <2> QED BY <1>1, <2>1, SMTT(60) DEF Grows
<1>7. ListInv' BY <1>1 DEF ListInv
<1>8. TableInv'
  <2>1. \A v \in Worker : pc'[v] \in Searching \cup {"store"} => pc[v] = pc'[v]
    BY <1>1 DEF TypeInv, Searching
  <2> QED BY <1>1, <2>1 DEF TableInv
<1>9. Own(w)' BY <1>4 DEF Own, Searching
<1> QED BY <1>1, <1>3, <1>4, <1>5, <1>6, <1>7, <1>8, <1>9, StepKeeps

\* The unit is freed: what is destroyed is the one entry of a key, if any.
LEMMA FreeKeeps ==
  ASSUME KeyAssumption, IInv, Free, Note
  PROVE  IInv'
<1> USE DEF IInv
<1> DEFINE ids == {e.id : e \in UNION {Range(elems[h]) : h \in Hashes}}
           at_(k) == {<<i, elems[Hash(k)][i]>> : i \in DOMAIN elems[Hash(k)]}
           gone(k) == {e \in at_(k) : e[2].id = k /\ e[2].value # Null}
<1>1. /\ killed = {} /\ killed' = {[k \in ids |-> gone(k)]} /\ table' = Null
      /\ UNCHANGED <<prog, elems, lock, pc, at, out>>
  BY DEF Free
<1>2. \A w \in Worker : pc[w] = "idle" BY DEF Free, LockInv
<1>3. killed' # {} BY <1>1
<1>4. TypeInv'
  <2>1. DOMAIN seen' = Worker BY DEF Note
  <2> QED BY <1>1, <2>1 DEF TypeInv
<1>5. ListInv' BY <1>1 DEF ListInv
<1>6. LockInv' BY <1>1, <1>2 DEF LockInv
<1>7. TableInv' BY <1>3 DEF TableInv
<1>8. SearchInv' /\ Linearizable' BY <1>1, <1>2 DEF SearchInv, Linearizable, Searching
<1>9. ASSUME NEW k \in ids
      PROVE  {e[2].value : e \in gone(k)} = {ValueIn(elems, k)} \ {Null} /\ Cardinality(gone(k)) <= 1
  <2> DEFINE l == elems[Hash(k)]
  <2>1. k \in Nat
    <3>1. PICK h \in Hashes : \E e \in Range(elems[h]) : e.id = k BY <1>9
    <3>2. PICK e \in Range(elems[h]) : e.id = k BY <3>1
    <3>3. elems[h] \in Seq(Elem) BY DEF TypeInv
    <3>4. e \in Elem BY <3>2, <3>3, SMTT(60) DEF Range
    <3> QED BY <3>2, <3>4 DEF Elem
  <2>2. Hash(k) \in Hashes BY <2>1, HashType
  <2>3. l \in Seq(Elem) /\ OneEntry(l) /\ elems \in Tables
    BY <2>2 DEF TypeInv, ListInv, Tables
  <2>4. \A e \in gone(k) : \E i \in DOMAIN l : e = <<i, l[i]>> /\ l[i].id = k /\ l[i].value # Null
    BY SMTT(60)
  <2>5. \A i \in DOMAIN l : l[i].id = k /\ l[i].value # Null => <<i, l[i]>> \in gone(k)
    OBVIOUS
  <2> HIDE DEF gone
  <2>6. CASE \E i \in DOMAIN l : l[i].id = k
    <3>1. PICK i \in DOMAIN l : l[i].id = k BY <2>6
    <3>2. ValueIn(elems, k) = l[i].value BY <3>1, <2>1, <2>3, ValueIs
    <3>3. \A j \in DOMAIN l : l[j].id = k => j = i BY <3>1, <2>3 DEF OneEntry
    <3> HIDE DEF l
    <3>4. CASE l[i].value = Null
      <4>1. gone(k) = {} BY <2>4, <3>3, <3>4
      <4> QED BY <4>1, <3>2, <3>4, FS_EmptySet, SMTT(60)
    <3>5. CASE l[i].value # Null
      <4>1. gone(k) = {<<i, l[i]>>} BY <2>4, <2>5, <3>1, <3>3, <3>5
      <4>2. Cardinality(gone(k)) = 1 BY <4>1, FS_Singleton
      <4>3. {e[2].value : e \in gone(k)} = {l[i].value} BY <4>1, SMTT(60)
      <4> QED BY <4>2, <4>3, <3>2, <3>5, SMTT(60)
    <3> QED BY <3>4, <3>5
  <2>7. CASE \A i \in DOMAIN l : l[i].id # k
    <3>1. ValueIn(elems, k) = Null BY <2>7, ValueNone
    <3>2. gone(k) = {} BY <2>4, <2>7
    <3> QED BY <3>1, <3>2, FS_EmptySet, SMTT(60)
  <2> QED BY <2>6, <2>7
<1>10. DestroyedOnce'
  <2> HIDE DEF gone, ids
  <2> SUFFICES ASSUME NEW d \in killed', NEW k \in DOMAIN d
               PROVE  /\ {e[2].value : e \in d[k]} = {ValueIn(elems', k)} \ {Null}
                      /\ Cardinality(d[k]) <= 1
    BY DEF DestroyedOnce
  <2>1. d = [j \in ids |-> gone(j)] BY <1>1
  <2>2. k \in ids /\ d[k] = gone(k) BY <2>1
  <2> QED BY <1>1, <1>9, <2>2
<1> QED BY <1>4, <1>5, <1>6, <1>7, <1>8, <1>10

-----------------------------------------------------------------------------
(* The theorems.                                                             *)

LEMMA InitKeeps ==
  ASSUME KeyAssumption, Init
  PROVE  IInv
<1>1. PICK s \in Setups :
          /\ prog = s.prog
          /\ table = IF s.start = {} THEN Null ELSE Table
          /\ elems = [h \in Hashes |-> IF \E k \in s.start : Hash(k) = h
                                       THEN <<Entry(CHOOSE k \in s.start : Hash(k) = h, Null)>>
                                       ELSE <<>>]
  BY DEF Init
<1>2. /\ pc = [w \in Worker |-> "idle"] /\ at = [w \in Worker |-> 0]
      /\ out = [w \in Worker |-> Null] /\ seen = [w \in Worker |-> {}]
      /\ killed = {}
  BY DEF Init
<1>3. s.prog \in [Worker -> Seq(Calls)] /\ s.start \subseteq Nat BY DEF KeyAssumption
<1>4. \A h \in Hashes : \/ elems[h] = <<>>
                        \/ s.start # {} /\ \E k \in s.start : elems[h] = <<Entry(k, Null)>>
  <2> TAKE h \in Hashes
  <2>1. CASE \E k \in s.start : Hash(k) = h
    <3>1. (CHOOSE k \in s.start : Hash(k) = h) \in s.start BY <2>1
    <3> QED BY <3>1, <2>1, <1>1
  <2> QED BY <2>1, <1>1
<1>5. \A k \in s.start : <<Entry(k, Null)>> \in Seq(Elem) /\ OneEntry(<<Entry(k, Null)>>)
  <2> TAKE k \in s.start
  <2>1. Entry(k, Null) \in Elem BY <1>3 DEF Entry, Elem, Val
  <2> QED BY <2>1, SMTT(60) DEF OneEntry
<1>6. OneEntry(<<>>) /\ <<>> \in Seq(Elem) BY SMTT(60) DEF OneEntry
<1>7. TypeInv
  <2>1. elems \in [Hashes -> Seq(Elem)]
    <3>1. \A h \in Hashes : elems[h] \in Seq(Elem) BY <1>4, <1>5, <1>6
    <3> QED BY <1>1, <3>1
  <2> QED BY <1>1, <1>2, <1>3, <2>1 DEF TypeInv, Steps, Val
<1>8. ListInv BY <1>4, <1>5, <1>6 DEF ListInv
<1>9. TableInv BY <1>1, <1>2, <1>4 DEF TableInv, Searching
<1>10. LockInv /\ SearchInv /\ Linearizable /\ DestroyedOnce
  BY <1>2 DEF LockInv, SearchInv, Linearizable, DestroyedOnce, Searching
<1> QED BY <1>7, <1>8, <1>9, <1>10 DEF IInv

\* Every step of the table keeps the inductive invariant.
LEMMA NextKeeps ==
  ASSUME KeyAssumption, IInv, [Next]_vars
  PROVE  IInv'
<1>1. CASE UNCHANGED vars
  <2>1. /\ prog' = prog /\ table' = table /\ elems' = elems /\ lock' = lock /\ pc' = pc
        /\ at' = at /\ out' = out /\ seen' = seen /\ killed' = killed
    BY <1>1 DEF vars
  <2> QED BY <2>1 DEF IInv, TypeInv, ListInv, LockInv, TableInv, SearchInv, Linearizable,
                      DestroyedOnce, List, Key, Call, Here, AtEnd
<1>2. CASE Next
  <2>1. Note BY <1>2 DEF Next
  <2>2. CASE Free BY <2>1, <2>2, FreeKeeps
  <2>3. ASSUME NEW w \in Worker,
               \/ Get(w) \/ GetElem(w) \/ Set(w) \/ SetTable(w)
               \/ WaitTable(w) \/ CreateTable(w) \/ Find(w) \/ Lock(w)
               \/ FindAgain(w) \/ StoreFound(w) \/ Add(w) \/ Return(w)
        PROVE  IInv'
    BY <2>1, <2>3, GetKeeps, GetElemKeeps, SetKeeps, SetTableKeeps, WaitTableKeeps,
       CreateTableKeeps, FindKeeps, LockKeeps, FindAgainKeeps, StoreFoundKeeps, AddKeeps,
       ReturnKeeps
  <2> QED BY <1>2, <2>2, <2>3 DEF Next
<1> QED BY <1>1, <1>2

\* The invariant of the argument above holds in every state of the table.
THEOREM Invariance ==
  ASSUME KeyAssumption
  PROVE  Spec => []IInv
<1>1. Init => IInv BY InitKeeps
<1>2. IInv /\ [Next]_vars => IInv' BY NextKeeps
<1> QED BY <1>1, <1>2, PTL DEF Spec

\* The table behaves like one map although readers take no lock: a get returns
\* a value that its key had at a moment of the call, and a set that succeeds
\* was the value of its key at a moment of the call (ABTI_ktable_get(),
\* ABTI_ktable_set()).
THEOREM LinearizableCorrect ==
  ASSUME KeyAssumption
  PROVE  Spec => []Linearizable
<1>1. IInv => Linearizable BY DEF IInv
<1> QED BY <1>1, Invariance, PTL

\* ABTI_ktable_free() hands a destructor the last value of its key and nothing
\* else, once.
THEOREM DestroyedOnceCorrect ==
  ASSUME KeyAssumption
  PROVE  Spec => []DestroyedOnce
<1>1. IInv => DestroyedOnce BY DEF IInv
<1> QED BY <1>1, Invariance, PTL
=============================================================================
