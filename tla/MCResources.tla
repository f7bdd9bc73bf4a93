----------------------------- MODULE MCResources -----------------------------
(***************************************************************************)
(* What Argobots allocates and configures, for TLC: work-unit-specific     *)
(* data (AbtKey, with the constants of the .cfg), the memory pool          *)
(* (AbtMem), the environment (AbtEnv) and the creation and release of its  *)
(* objects (AbtCreate).  In a behaviour one of the Parts moves; AbtKey     *)
(* stays in its first state while another one does, and the variables of   *)
(* the others are "off".                                                   *)
(***************************************************************************)
EXTENDS AbtKey, TLC

CONSTANTS Parts,       \* of "mem", "key", "env", "create"
          MemSetups, Careful,
          None, u1, u2, g1, g2, g3, w1, w2, w3,
          p1, s0, s1, s2, t1, x0, x1

\* One, two or three headers in a bucket.
MemCalls == {[per |-> 1, cap |-> 2, left |-> (u1 :> 3 @@ u2 :> 3)],
             [per |-> 2, cap |-> 3, left |-> (u1 :> 4 @@ u2 :> 3)],
             [per |-> 3, cap |-> 4, left |-> (u1 :> 4 @@ u2 :> 3)]}
\* Two users leave parts of a bucket that are merged.
Merging == {[per |-> 3, cap |-> 4, left |-> (u1 :> 4 @@ u2 :> 4)]}

Progs(a, b, c) == w1 :> a @@ w2 :> b @@ w3 :> c

\* Keys 2, 4 and 6 share a list, key 3 is alone.
KeySetups ==
  {[prog |-> Progs(<<<<"set", 2, "a">>, <<"set", 4, "b">>>>, <<<<"set", 4, "c">>, <<"set", 2, "d">>>>,
               <<<<"get", 4, Null>>, <<"get", 2, Null>>, <<"get", 4, Null>>>>), start |-> {}, fails |-> {}],
   [prog |-> Progs(<<<<"set", 2, "a">>, <<"get", 2, Null>>>>, <<<<"set", 2, "b">>, <<"set", 2, Null>>>>,
               <<<<"set", 6, "c">>, <<"get", 2, Null>>>>), start |-> {4}, fails |-> {w3}],
   [prog |-> Progs(<<<<"set", 3, "a">>, <<"set", 2, "b">>, <<"set", 4, "c">>>>,
               <<<<"get", 3, Null>>, <<"get", 4, Null>>>>, <<<<"get", 4, Null>>>>), start |-> {}, fails |-> {w1}],
   [prog |-> Progs(<<<<"mig", 1, "m1">>, <<"mig", 1, "m2">>>>, <<<<"set", 3, "a">>>>,
               <<<<"get", 1, Null>>>>), start |-> {}, fails |-> {}]}

VARIABLES
  part,
  per, cap, left, next, info, link, m_extra, lifo, emptyTop, elink, partial, plock,
  local, reg, used,
  str,
  live, pool, sched, thr, main, does, failed, bad

Mem == INSTANCE AbtMem WITH
  Users <- {u1, u2}, Pages <- {g1, g2, g3}, MaxLocalBuckets <- 2, Setups <- MemSetups,
  extra <- m_extra
Env == INSTANCE AbtEnv WITH
  Chars <- {"-", " ", "1", "3", ":", ",", "{", "}"}, AnyLen <- 3, MaxLen <- 7,
  INT_MAX <- 20, UINT32_MAX <- 63, UINT64_MAX <- 131, MAX_NUM_ELEMS <- 13,
  CpuSets <- {<<0, 1>>, <<1, 2, 5>>}, Ranks <- {0, 1, 4}
Create == INSTANCE AbtCreate WITH
  Pool <- {p1}, Sched <- {s0, s1, s2}, Thread <- {t1}, Stream <- {x0, x1},
  Primary <- x0, NumPrio <- 2, Cacheline <- 4, Sizes <- {8}, MaxAllocs <- 20,
  Programs <- {[calls |-> {"thread"}, pools |-> 0],
               [calls |-> {"sched", "stream"}, pools |-> 2],
               [calls |-> {"basic", "stackable"}, pools |-> 1]}

ASSUME KeyAssumption /\ Create!CreateAssumption

memVars == <<per, cap, left, next, info, link, m_extra, lifo, emptyTop, elink, partial,
             plock, local, reg, used>>
memOff == /\ per = "off" /\ cap = "off" /\ left = "off" /\ next = "off"
          /\ info = "off" /\ link = "off" /\ m_extra = "off" /\ lifo = "off" /\ emptyTop = "off"
          /\ elink = "off" /\ partial = "off" /\ plock = "off"
          /\ local = "off" /\ reg = "off" /\ used = "off"
createVars == <<live, pool, sched, thr, main, does, failed, bad>>
createOff == /\ live = "off" /\ pool = "off" /\ sched = "off" /\ thr = "off"
             /\ main = "off" /\ does = "off" /\ failed = "off" /\ bad = "off"

\* AbtKey stands still in the first state of one of its setups.
MCInit ==
  /\ part \in Parts /\ Init /\ (part # "key" => may = {w3})
  /\ IF part = "mem" THEN Mem!Init ELSE memOff
  /\ IF part = "env" THEN Env!Init ELSE str = "off"
  /\ IF part = "create" THEN Create!Init ELSE createOff

MCNext ==
  /\ UNCHANGED part
  /\ \/ part = "key" /\ Next /\ UNCHANGED <<memVars, str, createVars>>
     \/ part = "mem" /\ Mem!Next /\ UNCHANGED <<vars, str, createVars>>
     \/ part = "env" /\ Env!Next /\ UNCHANGED <<vars, memVars, createVars>>
     \/ part = "create" /\ Create!Next /\ UNCHANGED <<vars, memVars, str>>

mcVars == <<part, vars, memVars, str, createVars>>

MCSpec == MCInit /\ [][MCNext]_mcVars

-----------------------------------------------------------------------------
(* The properties of the other modules.                                      *)

\* No block of the memory pool is in two places.
NoSharing == part = "mem" => Mem!NoSharing

\* Every block of the memory pool is allocated or in a free list.
PartialCounted == part = "mem" => Mem!PartialCounted

\* The parsers of the environment agree with what is documented: every stream is
\* bound to the CPUs the grammar gives it, numbers are saturated, and sizes suit
\* their use.
ParsersAgree == part = "env" =>
  Env!AffinityAgrees /\ Env!AtoiSaturates /\ Env!SizesFit

\* Every allocated block belongs to an object that exists, and a creation that
\* fails leaves everything as it was.
AllOrNothing ==
  /\ [](part = "create" => Create!Accounted)
  /\ [][(part = "create" /\ failed') => UNCHANGED Create!objects]_mcVars
=============================================================================
