------------------------------- MODULE AbtKey -------------------------------
(***************************************************************************)
(* Work-unit-specific data of Argobots (key.c, abti_key.h): the key table  *)
(* of one work unit, which any thread may read and write at any time.      *)
(* The table is created on the first set, under a lock that is a value of  *)
(* the pointer to it.  An entry is found without a lock and appended to    *)
(* the list of its hash under the lock of the table; readers never lock.   *)
(*                                                                         *)
(* A list is only appended to, so a pointer into it is an index: the entry *)
(* at position i, or the NULL at the end when there is none.               *)
(***************************************************************************)
EXTENDS Integers, Sequences, FiniteSets, Functions

CONSTANTS Worker, Null, Locked, Table,
          Value,    \* of the keys, besides NULL
          Size,     \* key_table_size, a power of 2
          MigKey,   \* ABTI_KEY_ID_MIGRATION, whose values are migration data
          Fit,      \* entries for which a fresh descriptor has room
          Setups    \* records [prog, start, fails]: the calls of each worker,
                    \* the entries ythread_create() made, and the workers whose
                    \* allocations may fail

Hashes == 0 .. Size - 1
Hash(k) == k % Size
Entry(k, v) == [id |-> k, value |-> v]
Calls == {"get", "set", "mig"} \X Nat \X (Value \cup {Null})

KeyAssumption ==
  /\ Size \in Nat \ {0} /\ Fit \in Nat \ {0}
  /\ Null \notin Worker /\ Null # Locked /\ Null # Table /\ Locked # Table
  /\ \A s \in Setups : /\ s.prog \in [Worker -> Seq(Calls)] /\ s.start \subseteq Nat
                       /\ \A k, l \in s.start : Hash(k) = Hash(l) => k = l

VARIABLES prog,    \* worker -> the calls it still makes, <<op, key, value>>
          table,   \* p_keytable: Null, Locked or Table
          elems,   \* hash -> list of entries [id, value]
          lock,    \* p_ktable->lock
          extra,   \* entries that fit the extra memory of the table
          descs,   \* descriptors linked from p_used_mem
          pc, at,  \* worker -> its step, its position in the list
          out,     \* worker -> what its call returned
          seen,    \* worker -> values its key had since the call began (history)
          may,     \* the workers whose allocations may fail
          killed   \* {}, or once the unit is freed the map from its keys to the
                   \* entries handed to destructors

vars == <<prog, table, elems, lock, extra, descs, pc, at, out, seen, may, killed>>

Init == \E s \in Setups :
          /\ prog = s.prog /\ may = s.fails
          /\ table = IF s.start = {} THEN Null ELSE Table
          /\ elems = [h \in Hashes |-> IF \E k \in s.start : Hash(k) = h
                                       THEN <<Entry(CHOOSE k \in s.start : Hash(k) = h, Null)>>
                                       ELSE <<>>]
          /\ extra = Fit - Cardinality(s.start) /\ descs = 1
          /\ lock = Null
          /\ pc = [w \in Worker |-> "idle"] /\ at = [w \in Worker |-> 0]
          /\ out = [w \in Worker |-> Null] /\ seen = [w \in Worker |-> {}]
          /\ killed = {}

Call(w) == Head(prog[w])
Key(w) == Call(w)[2]
List(w) == elems[Hash(Key(w))]
Here(w) == List(w)[at[w]]
AtEnd(w) == at[w] > Len(List(w))

\* The value of key k, as the first entry of k has it.
ValueIn(els, k) ==
  LET l == els[Hash(k)] is == {i \in DOMAIN l : l[i].id = k}
  IN IF is = {} THEN Null ELSE l[CHOOSE i \in is : \A j \in is : i <= j].value

\* History: every worker in a call notes the values its key has.
Note == seen' = [w \in Worker |->
          IF pc[w] = "idle" THEN IF pc'[w] = "idle" THEN {} ELSE {ValueIn(elems, Key(w))}
          ELSE IF pc'[w] = "idle" THEN {} ELSE seen[w] \cup {ValueIn(elems', Key(w))}]

Step(w, from, to) ==
  /\ pc[w] = from /\ killed = {}
  /\ pc' = [pc EXCEPT ![w] = to]
  /\ UNCHANGED <<may, killed>>

Give(w, v) == out' = [out EXCEPT ![w] = v]
Seek(w, i) == at' = [at EXCEPT ![w] = i]

-----------------------------------------------------------------------------
(* ABTI_ktable_get().                                                        *)

\* Only a valid table is looked up; ABTI_thread_get_mig_data() sets what it
\* does not find.
Absent(w) == IF Call(w)[1] = "mig" THEN "set" ELSE "ret"

Get(w) ==
  /\ prog[w] # <<>> /\ Call(w)[1] \in {"get", "mig"}
  /\ Step(w, "idle", IF table = Table THEN "get_elem" ELSE Absent(w))
  /\ Seek(w, 1) /\ Give(w, Null)
  /\ UNCHANGED <<prog, table, elems, lock, extra, descs>>

GetElem(w) ==
  LET found == ~AtEnd(w) /\ Here(w).id = Key(w)
  IN /\ Step(w, "get_elem", IF found /\ Here(w).value # Null THEN "ret"
                            ELSE IF found \/ AtEnd(w) THEN Absent(w) ELSE "get_elem")
     /\ Seek(w, at[w] + 1)
     /\ Give(w, IF found THEN Here(w).value ELSE Null)
     /\ UNCHANGED <<prog, table, elems, lock, extra, descs>>

-----------------------------------------------------------------------------
(* ABTI_ktable_set().                                                        *)

Set(w) ==
  /\ prog[w] # <<>> /\ Call(w)[1] = "set"
  /\ Step(w, "idle", "set")
  /\ UNCHANGED <<prog, table, elems, lock, extra, descs, at, out>>

\* A valid table is used; the lock on the pointer is taken from NULL only.
SetTable(w) ==
  /\ Step(w, "set", IF table = Table THEN "find" ELSE IF table = Null THEN "create" ELSE "wait")
  /\ table' = IF table = Null THEN Locked ELSE table
  /\ Seek(w, 1)
  /\ UNCHANGED <<prog, elems, lock, extra, descs, out>>

\* Whatever replaces the lock ends the wait: "p_ktable has been allocated by
\* another", or its allocation has failed and the pointer is NULL.
WaitTable(w) ==
  /\ table # Locked
  /\ Step(w, "wait", IF table = Table THEN "find" ELSE "null_table")
  /\ UNCHANGED <<prog, table, elems, lock, extra, descs, at, out>>

CreateTable(w) ==
  /\ \/ /\ Step(w, "create", "find") /\ table' = Table
        /\ extra' = Fit /\ descs' = 1 /\ UNCHANGED out
     \/ /\ w \in may
        /\ Step(w, "create", "ret") /\ table' = Null
        /\ Give(w, "error") /\ UNCHANGED <<extra, descs>>
  /\ UNCHANGED <<prog, elems, lock, at>>

Store(w, i) == elems' = [elems EXCEPT ![Hash(Key(w))][i].value = Call(w)[3]]

\* The first search, without the lock ...
Find(w) ==
  /\ pc[w] = "find"
  /\ IF AtEnd(w) THEN Step(w, "find", "lock") /\ UNCHANGED <<elems, at, out>>
     ELSE IF Here(w).id = Key(w)
     THEN Step(w, "find", "ret") /\ Store(w, at[w]) /\ Give(w, Call(w)[3]) /\ UNCHANGED at
     ELSE Step(w, "find", "find") /\ Seek(w, at[w] + 1) /\ UNCHANGED <<elems, out>>
  /\ UNCHANGED <<prog, table, lock, extra, descs>>

\* Mutant: the list is not searched again once the lock is held.
MutLock(w) ==
  /\ lock = Null
  /\ Step(w, "lock", "add") /\ lock' = w
  /\ Seek(w, Len(List(w)) + 1)
  /\ UNCHANGED <<prog, table, elems, extra, descs, out>>

Lock(w) ==
  /\ lock = Null
  /\ Step(w, "lock", "find_again") /\ lock' = w
  /\ UNCHANGED <<prog, table, elems, extra, descs, at, out>>

\* ... and the second one, from where the first ended.  The lock is released
\* before the value of an entry that is found is stored.
FindAgain(w) ==
  /\ pc[w] = "find_again"
  /\ IF AtEnd(w) THEN Step(w, "find_again", "add") /\ UNCHANGED <<at, lock>>
     ELSE IF Here(w).id = Key(w)
     THEN Step(w, "find_again", "store") /\ lock' = Null /\ UNCHANGED at
     ELSE Step(w, "find_again", "find_again") /\ Seek(w, at[w] + 1) /\ UNCHANGED lock
  /\ UNCHANGED <<prog, table, elems, extra, descs, out>>

StoreFound(w) ==
  /\ Step(w, "store", "ret") /\ Store(w, at[w]) /\ Give(w, Call(w)[3])
  /\ UNCHANGED <<prog, table, lock, extra, descs, at>>

\* ABTI_ktable_alloc_elem(): in the extra memory, or in a new descriptor.
Add(w) ==
  /\ lock' = Null
  /\ \/ /\ Step(w, "add", "ret")
        /\ elems' = [elems EXCEPT ![Hash(Key(w))] = Append(@, Entry(Key(w), Call(w)[3]))]
        /\ extra' = IF extra > 0 THEN extra - 1 ELSE Fit
        /\ descs' = IF extra > 0 THEN descs ELSE descs + 1
        /\ Give(w, Call(w)[3])
     \/ /\ w \in may /\ extra = 0
        /\ Step(w, "add", "ret") /\ Give(w, "error")
        /\ UNCHANGED <<elems, extra, descs>>
  /\ UNCHANGED <<prog, table, at>>

Return(w) ==
  /\ Step(w, "ret", "idle")
  /\ prog' = [prog EXCEPT ![w] = Tail(@)]
  /\ UNCHANGED <<table, elems, lock, extra, descs, at, out>>

\* thread_free(): "No parallel access to TLS is allowed", so the unit is freed
\* once nobody uses it.  ABTI_ktable_free() destroys every value that is left
\* and frees every descriptor of the chain.
Free ==
  /\ killed = {} /\ \A w \in Worker : prog[w] = <<>>
  /\ killed' = {[k \in {e.id : e \in UNION {Range(elems[h]) : h \in Hashes}} |->
                   {e \in {<<i, elems[Hash(k)][i]>> : i \in DOMAIN elems[Hash(k)]} :
                      e[2].id = k /\ e[2].value # Null}]}
  /\ table' = Null /\ descs' = 0
  /\ UNCHANGED <<prog, elems, lock, extra, pc, at, out, may>>

Next == /\ \/ \E w \in Worker : \/ Get(w) \/ GetElem(w) \/ Set(w) \/ SetTable(w)
                                \/ WaitTable(w) \/ CreateTable(w) \/ Find(w) \/ Lock(w)
                                \/ FindAgain(w) \/ StoreFound(w) \/ Add(w) \/ Return(w)
           \/ Free
        /\ Note

Spec == Init /\ [][Next]_vars

-----------------------------------------------------------------------------
(* Properties.                                                               *)

\* The table behaves like one map although readers take no lock: a get returns
\* a value that its key had at a moment of the call, and a set that succeeds
\* was the value of its key at a moment of the call.
Linearizable == \A w \in Worker : pc[w] = "ret" => out[w] \in seen[w] \cup {"error"}

\* When the unit is freed, the destructor of a key gets the last value of the
\* key and nothing else, once.
DestroyedOnce ==
  \A d \in killed : \A k \in DOMAIN d :
    {e[2].value : e \in d[k]} = {ValueIn(elems, k)} \ {Null} /\ Cardinality(d[k]) <= 1
=============================================================================
