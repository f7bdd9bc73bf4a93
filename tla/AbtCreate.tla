----------------------------- MODULE AbtCreate ------------------------------
(***************************************************************************)
(* Creation and release of the objects of Argobots: pools, schedulers,     *)
(* work units, execution streams and the library itself (pool.c, sched.c,  *)
(* thread.c, stream.c, global.c, abti_mem.h, abtd_stream.c).  A creation   *)
(* takes several allocations, each of which may fail; the code then gives  *)
(* back what it has taken so far.                                          *)
(*                                                                         *)
(* The calls are sequential, so each is one action.  Its body is a chain   *)
(* of operators on a work record w: the state, n (how many allocations     *)
(* succeed before one fails), ok (no error so far) and bad (memory was     *)
(* released or used that is not allocated).                                *)
(***************************************************************************)
EXTENDS Integers, Sequences, SequencesExt, FiniteSets, FiniteSetsExt, TLC

CONSTANTS Pool, Sched, Thread, Stream,   \* names of the objects of the program
          Primary,       \* the primary stream, a member of Stream
          None,
          NumPrio,       \* ABTI_SCHED_NUM_PRIO
          Cacheline,     \* ABT_CONFIG_STATIC_CACHELINE_SIZE
          Sizes,         \* stack sizes a program asks for
          MaxAllocs,     \* bound: no call allocates more often
          Programs,      \* records [calls, pools]: the kinds of calls a program
                         \* makes, the most pools it hands to a scheduler
          Careful        \* the program adds no automatic scheduler to a pool of
                         \* its own definition and makes no such pool automatic

CreateAssumption ==
  /\ Primary \in Stream /\ NumPrio \in Nat \ {0} /\ Cacheline \in Nat \ {0}
  /\ Sizes \subseteq Nat \ {0} /\ MaxAllocs \in Nat /\ Careful \in BOOLEAN

VARIABLES live,    \* the allocated blocks
          pool,    \* pool -> [kind, auto, scheds]
          sched,   \* scheduler -> [pools, auto, used, thread]
          thr,     \* work unit -> [type, size, pool, unit, keys]
          main,    \* stream -> its main scheduler
          does,    \* the program
          failed,  \* the last call returned an error
          bad

objects == <<live, pool, sched, thr, main>>
vars == <<objects, does, failed, bad>>

\* Pools, work units: <<p, 0>> of the program, <<s, i>> made for a scheduler,
\* the root pool <<x, 0>>, the root <<x, 0>> and main scheduler <<x, 1>> of x.
Own(o) == <<o, 0>>
Root(x) == <<x, 0>>
MainThread(x) == <<x, 1>>

Init == /\ live = {} /\ pool = <<>> /\ sched = <<>> /\ thr = <<>> /\ main = <<>>
        /\ does \in Programs /\ failed = FALSE /\ bad = FALSE

Drop(f, k) == [i \in DOMAIN f \ {k} |-> f[i]]

-----------------------------------------------------------------------------
(* Allocation.                                                               *)

\* A step that may fail; nothing is tried after a failure.
Fallible(w) == [w EXCEPT !.n = @ - 1, !.ok = @ /\ w.n # 0]

Alloc(w, b) == LET v == Fallible(w) IN IF v.ok THEN [v EXCEPT !.live = @ \cup {b}] ELSE v

Free(w, bs) == [w EXCEPT !.live = @ \ bs, !.bad = @ \/ ~(bs \subseteq w.live)]

\* What follows a step, and what is undone when it fails.
OnOk(w, Do(_), Undo(_)) == IF w.ok THEN Do(w) ELSE Undo(w)
Done(w) == w

\* Init functions that allocate a few blocks and free them when one fails.
AllocAll(w, bs) ==
  OnOk(FoldLeft(LAMBDA u, b : IF u.ok THEN Alloc(u, b) ELSE u, w, bs), Done,
       LAMBDA v : Free(v, v.live \ w.live))

-----------------------------------------------------------------------------
(* Pools.                                                                    *)

Builtin == {"fifo", "fifo_wait", "randws"}

PoolData(q, kind) == CASE kind = "fifo_wait" -> <<<<"data", q>>, <<"mutex", q>>, <<"cond", q>>>>
                       [] kind \in {"fifo", "randws"} -> <<<<"data", q>>>>
                       [] OTHER -> <<>>   \* the program's init function

pool_create(w, q, kind, auto) ==
  OnOk(Alloc(w, <<"pool", q>>), LAMBDA a :
    OnOk(AllocAll(a, PoolData(q, kind)),
         LAMBDA b : [b EXCEPT !.pool = (q :> [kind |-> kind, auto |-> auto, scheds |-> 0]) @@ @],
         LAMBDA b : Free(b, {<<"pool", q>>})),
    Done)

pool_free(w, q) ==
  IF q \notin DOMAIN w.pool THEN [w EXCEPT !.bad = TRUE]
  ELSE [Free(w, Range(PoolData(q, w.pool[q].kind)) \cup {<<"pool", q>>})
          EXCEPT !.pool = Drop(@, q)]

pool_retain(w, q) == [w EXCEPT !.pool[q].scheds = @ + 1]
pool_release(w, q) == [w EXCEPT !.pool[q].scheds = @ - 1]

\* The pools of scheduler s: those given in qs, a new one for each None.
NewPools(s, qs) == [i \in DOMAIN qs |-> IF qs[i] = None THEN <<s, i>> ELSE qs[i]]
Made(s, qs, upto) == {<<s, i>> : i \in {j \in 1 .. upto : qs[j] = None}}

FreePools(w, ps) == FoldSet(LAMBDA q, u : pool_free(u, q), w, ps)

CreatePools(w, s, qs, kind) ==
  FoldLeftDomain(LAMBDA u, i :
      IF ~u.ok \/ qs[i] # None THEN u
      ELSE OnOk(pool_create(u, <<s, i>>, kind, TRUE), Done,
                LAMBDA v : FreePools(v, Made(s, qs, i - 1))), w, qs)

-----------------------------------------------------------------------------
(* Schedulers.                                                               *)

sched_init(w, s) == AllocAll(w, <<<<"data", s>>, <<"pools", s>>>>)

sched_create(w, s, qs, auto) ==
  LET list == NewPools(s, qs)
      GiveBack(u, i) == IF qs[i] = None THEN pool_free(u, list[i]) ELSE pool_release(u, list[i])
      Undo(v) == Free(v, {<<"list", s>>, <<"sched", s>>})
  IN OnOk(Alloc(w, <<"sched", s>>), LAMBDA a :
       OnOk(Alloc(a, <<"list", s>>), LAMBDA b :
         OnOk(CreatePools(b, s, qs, "fifo"), LAMBDA c :
           OnOk(sched_init(FoldLeft(pool_retain, c, list), s),
                LAMBDA d : [d EXCEPT !.sched = (s :> [pools |-> list, auto |-> auto, used |-> "not",
                                                      thread |-> None]) @@ @],
                LAMBDA d : Undo(FoldLeftDomain(GiveBack, d, qs))),
           Undo),
         LAMBDA b : Free(b, {<<"sched", s>>})),
       Done)

\* ABTI_sched_create_basic(): without pools (qs empty) predef decides.
Predef(predef) == IF predef = "prio" THEN [i \in 1 .. NumPrio |-> None] ELSE <<None>>
PredefKind(predef) == IF predef = "basic_wait" THEN "fifo_wait" ELSE "fifo"

sched_create_basic(w, s, predef, qs, auto) ==
  LET given == qs # <<>>
      want == IF given THEN qs ELSE Predef(predef)
      FreeTmp(v) == Free(v, IF given THEN {<<"tmp", s>>} ELSE {})
  IN OnOk(IF given THEN Alloc(w, <<"tmp", s>>) ELSE w, LAMBDA a :
       OnOk(CreatePools(a, s, want, IF given THEN "fifo" ELSE PredefKind(predef)), LAMBDA b :
         OnOk(sched_create(b, s, NewPools(s, want), auto), FreeTmp,
              LAMBDA c : FreeTmp(FreePools(c, Made(s, want, Len(want))))),
         FreeTmp),
       Done)

RECURSIVE sched_free(_, _, _)
RECURSIVE ktable_free(_, _, _)

\* thread_key_destructor_stackable_sched()
destructor_sched(w, s) ==
  LET Unset(v) == [v EXCEPT !.sched[s].used = "not", !.sched[s].thread = None]
  IN IF w.sched[s].auto THEN sched_free(Unset(w), s, FALSE) ELSE Unset(w)

\* The key table of t: a value of "mig" is migration data, a value of "sched"
\* the scheduler the unit runs.
ktable_free(w, t, keys) ==
  LET FreeMig(v) == IF "mig" \in keys THEN Free(v, {<<"mig", t>>}) ELSE v
  IN IF keys = {} THEN w
     ELSE Free(IF "sched" \in keys THEN destructor_sched(FreeMig(w), t[1]) ELSE FreeMig(w),
               {<<"ktable", t>>})

-----------------------------------------------------------------------------
(* Work units.                                                               *)

RoundUp(size) == ((size + Cacheline - 1) \div Cacheline) * Cacheline

\* The descriptor, with or below its stack; ext: the caller is no stream.
\* Blocks are told apart by their allocator and by their first address.
MemType(kind, ext) ==
  CASE kind = "default" /\ ~ext -> "MEMPOOL_DESC_STACK"
    [] kind = "nostack" /\ ~ext -> "MEMPOOL_DESC"
    [] kind = "nostack" /\ ext -> "MALLOC_DESC"
    [] OTHER -> "MALLOC_DESC_STACK"

alloc_ythread(w, t, kind, ext) == Alloc(w, <<"desc", t, MemType(kind, ext), 0>>)

\* ABTI_mem_free_thread(): a malloc()ed stack starts stacksize below its top.
free_thread(w, t, type, size) ==
  Free(w, {<<"desc", t, type, IF type = "MALLOC_DESC_STACK" THEN RoundUp(size) - size ELSE 0>>})

\* ABTI_thread_init_pool(): a unit when the program defined the pool.
User(w, q) == w.pool[q].kind \notin Builtin

\* The second step is ABTI_unit_map_thread().
init_pool(w, t, q) ==
  IF ~User(w, q) THEN w
  ELSE OnOk(Alloc(w, <<"unit", t, q>>),
            LAMBDA a : OnOk(Fallible(a), Done, LAMBDA b : Free(b, {<<"unit", t, q>>})), Done)

\* An attribute: how the stack is allocated, its size, a migration callback.
Attr(kind, size, cb) == [kind |-> kind, size |-> size, cb |-> cb]

ythread_create(w, t, q, attr, ext, forSched) ==
  LET type == MemType(attr.kind, ext)
      migKeys == IF attr.cb THEN {"mig"} ELSE {}
      keys == migKeys \cup (IF forSched THEN {"sched"} ELSE {})
      Undo(v) == free_thread(v, t, type, attr.size)
  IN OnOk(alloc_ythread(w, t, attr.kind, ext), LAMBDA a :
       OnOk(IF attr.cb THEN Alloc(a, <<"mig", t>>) ELSE a, LAMBDA b :
         OnOk(IF attr.cb THEN Alloc(b, <<"ktable", t>>) ELSE b, LAMBDA c :
           OnOk(IF forSched /\ ~attr.cb THEN Alloc(c, <<"ktable", t>>) ELSE c, LAMBDA d :
             OnOk(IF q = None THEN d ELSE init_pool(d, t, q),
                  LAMBDA e : [e EXCEPT !.thr = (t :> [type |-> type, size |-> attr.size, pool |-> q,
                                 unit |-> q # None /\ User(e, q), keys |-> keys]) @@ @],
                  LAMBDA e : Undo(ktable_free(e, t, keys))),
             LAMBDA d : Undo(ktable_free(d, t, migKeys))),
           LAMBDA c : Undo(Free(c, {<<"mig", t>>}))),
         Undo),
       Done)

\* ABTI_thread_unset_associated_pool(): the unit is freed by its pool.
unset_pool(w, t) ==
  LET q == w.thr[t].pool
  IN IF ~w.thr[t].unit THEN w
     ELSE [Free(w, {<<"unit", t, q>>}) EXCEPT !.bad = @ \/ q \notin DOMAIN w.pool,
                                              !.thr[t].unit = FALSE]

\* ABTI_thread_set_associated_pool(): the new unit first, it may fail.
set_pool(w, t, q) ==
  IF w.thr[t].unit /\ w.thr[t].pool = q THEN w
  ELSE OnOk(init_pool(w, t, q), LAMBDA a :
              [unset_pool(a, t) EXCEPT !.thr[t].pool = q, !.thr[t].unit = User(a, q)], Done)

\* thread_free(); freeUnit is FALSE for root and primary units.
thread_free(w, t, freeUnit) ==
  [free_thread(ktable_free(IF freeUnit THEN unset_pool(w, t) ELSE w, t, w.thr[t].keys),
               t, w.thr[t].type, w.thr[t].size) EXCEPT !.thr = Drop(@, t)]

\* ABTI_sched_free(): pools first, then the work unit.
sched_free(w, s, force) ==
  LET t == w.sched[s].thread
      Let(u, q) == IF q = None THEN u
                   ELSE IF force \/ (u.pool[q].auto /\ u.pool[q].scheds = 1)
                   THEN pool_free(pool_release(u, q), q) ELSE pool_release(u, q)
      FreeThread(v) == IF t = None THEN v ELSE thread_free(v, t, TRUE)
      a == Free([w EXCEPT !.bad = @ \/ w.sched[s].used # "not"], {<<"data", s>>, <<"pools", s>>})
  IN [Free(FreeThread(Free(FoldLeft(Let, a, w.sched[s].pools), {<<"list", s>>})), {<<"sched", s>>})
        EXCEPT !.sched = Drop(@, s)]

sched_discard_and_free(w, s, force) ==
  LET v == [w EXCEPT !.sched[s].used = "not"]
      t == w.sched[s].thread
  IN IF w.sched[s].auto \/ force THEN sched_free(v, s, force)
     ELSE IF t = None THEN v
     ELSE [thread_free(v, t, TRUE) EXCEPT !.sched[s].thread = None]

-----------------------------------------------------------------------------
(* Execution streams.                                                        *)

SchedAttr == Attr("size", Cacheline, FALSE)
Context(x) == <<<<"mutex", x>>, <<"cond", x>>, <<"native", x>>>>
LocalPools(x) == <<<<"local_stack", x>>, <<"local_desc", x>>>>

\* xstream_create() up to the stage that fails, then FAILED.
xstream_create(w, x, s) ==
  LET start == x # Primary
      RootAttr == IF start THEN Attr("nostack", 0, FALSE) ELSE SchedAttr
      Undo0(v) == Free(v, {<<"xstream", x>>})
      Undo1(v) == Undo0(Free(v, {<<"rank", x>>}))
      Undo2(v) == Undo1(Free([v EXCEPT !.sched[s].used = "not"], Range(LocalPools(x))))
      Undo3(v) == Undo2(thread_free(v, Root(x), FALSE))
      Undo4(v) == Undo3(pool_free(v, Root(x)))
      Undo5(v) == Undo4(thread_free(v, MainThread(x), TRUE))
  IN OnOk(Alloc(w, <<"xstream", x>>), LAMBDA a :
       OnOk(Alloc(a, <<"rank", x>>), LAMBDA b :
         OnOk(AllocAll(b, LocalPools(x)), LAMBDA c :
           OnOk(ythread_create([c EXCEPT !.sched[s].used = "main"], Root(x), None, RootAttr,
                               FALSE, FALSE), LAMBDA d :
             OnOk(pool_create(d, Root(x), "fifo", FALSE), LAMBDA e :
               OnOk(ythread_create(e, MainThread(x), Root(x), SchedAttr, FALSE, FALSE), LAMBDA f :
                 OnOk(IF start THEN AllocAll(f, Context(x)) ELSE f,
                      LAMBDA g : [g EXCEPT !.main = (x :> s) @@ @, !.sched[s].thread = MainThread(x)],
                      Undo5),
                 Undo4), Undo3), Undo2), Undo1), Undo0), Done)

\* ABTI_xstream_free()
xstream_free(w, x, force) ==
  LET a == Free(w, Range(LocalPools(x)) \cup {<<"rank", x>>})
      b == sched_discard_and_free(a, w.main[x], force)
      c == pool_free(thread_free(b, Root(x), FALSE), Root(x))
      d == IF x = Primary THEN c ELSE Free(c, Range(Context(x)))
  IN [Free(d, {<<"xstream", x>>}) EXCEPT !.main = Drop(@, x)]

\* Mutant: they stay in the scheduler.
MutSpare(w, s, qs) == w

\* The pools the program gave are taken out of a scheduler before it is freed.
Spare(w, s, qs) ==
  FoldLeftDomain(LAMBDA u, i : IF qs[i] = None THEN u
                   ELSE [pool_release(u, u.sched[s].pools[i]) EXCEPT !.sched[s].pools[i] = None], w, qs)

-----------------------------------------------------------------------------
(* The calls of a program.                                                   *)

Begin(n) == [live |-> live, pool |-> pool, sched |-> sched, thr |-> thr, main |-> main,
             n |-> n, ok |-> TRUE, bad |-> FALSE]

\* A call one of whose allocations fails, or none: the one after the first n.
Call(Op(_)) ==
  \E n \in 0 .. MaxAllocs - Op(Begin(MaxAllocs)).n : \E w \in {Op(Begin(n))} :
    /\ live' = w.live /\ pool' = w.pool /\ sched' = w.sched /\ thr' = w.thr /\ main' = w.main
    /\ failed' = ~w.ok /\ bad' = (bad \/ w.bad) /\ UNCHANGED does

Up == Primary \in DOMAIN main
Lists == UNION {[1 .. k -> {None} \cup {q \in DOMAIN pool : q[1] \in Pool}] : k \in 1 .. does.pools}
Unused(s) == s \in DOMAIN sched /\ sched[s].used = "not"
\* The name of a new scheduler is immaterial: it is the first one not in use.
New(s) == s \notin DOMAIN sched /\ s = CHOOSE r \in Sched \ DOMAIN sched : TRUE

\* No work unit but its own is left in a pool of s.
Drained(s) == \A t \in DOMAIN thr : thr[t].pool \in Range(sched[s].pools) => t = sched[s].thread

\* init_library(): the memory pools, the primary stream and the primary unit.
ABT_init ==
  /\ ~Up
  /\ \E s \in Sched : New(s) /\
       Call(LAMBDA w :
         LET Undo0(v) == Free(v, {<<"global">>})
             Undo1(v) == Undo0(Free(v, Range(LocalPools(None))))
         IN OnOk(Alloc(w, <<"global">>), LAMBDA a :
              OnOk(AllocAll(a, LocalPools(None)), LAMBDA b :
                OnOk(sched_create_basic(b, s, "basic", <<>>, TRUE), LAMBDA c :
                  OnOk(xstream_create(c, Primary, s), LAMBDA d :
                    OnOk(ythread_create(d, <<None, 0>>, d.sched[s].pools[1],
                                        Attr("nostack", 0, FALSE), FALSE, FALSE), Done,
                         LAMBDA e : Undo1(xstream_free(e, Primary, TRUE))),
                    LAMBDA d : Undo1(sched_free(d, s, TRUE))),
                  Undo1), Undo0), Done))

\* finailze_library() once every other stream is freed.
ABT_finalize ==
  /\ DOMAIN main = {Primary} /\ DOMAIN sched = {main[Primary]}
  /\ \A t \in DOMAIN thr : t[1] \in {Primary, None}
  /\ \A q \in DOMAIN pool : q[1] \notin Pool
  /\ Call(LAMBDA w :
       LET a == thread_free(w, <<None, 0>>, FALSE)
           b == xstream_free(a, Primary, TRUE)
       IN Free(b, Range(LocalPools(None)) \cup {<<"global">>}))

ABT_pool_create(p, kind, auto) ==
  /\ Up /\ Own(p) \notin DOMAIN pool
  /\ Careful => kind \in Builtin \/ ~auto
  /\ Call(LAMBDA w : pool_create(w, Own(p), kind, auto))

\* ABT_pool_free() is for a pool that no scheduler and no work unit uses.
ABT_pool_free(p) ==
  /\ Own(p) \in DOMAIN pool /\ pool[Own(p)].scheds = 0
  /\ \A t \in DOMAIN thr : thr[t].pool # Own(p)
  /\ Call(LAMBDA w : pool_free(w, Own(p)))

ABT_sched_create(s, qs, auto) ==
  /\ Up /\ New(s)
  /\ Call(LAMBDA w : sched_create(w, s, qs, auto))

ABT_sched_create_basic(s, predef, qs, auto) ==
  /\ Up /\ New(s)
  /\ Call(LAMBDA w : sched_create_basic(w, s, predef, qs, auto))

ABT_sched_free(s) ==
  /\ Unused(s) /\ Drained(s)
  /\ Call(LAMBDA w : sched_free(w, s, FALSE))

ABT_pool_add_sched(q, s) ==
  /\ Up /\ Unused(s) /\ q \in DOMAIN pool
  /\ \A i \in DOMAIN sched[s].pools : sched[s].pools[i] # q
  /\ Careful => pool[q].kind \in Builtin \/ ~sched[s].auto
  /\ Call(LAMBDA w :
       OnOk(ythread_create([w EXCEPT !.sched[s].used = "in_pool"], <<s, 0>>, q, SchedAttr, FALSE, TRUE),
            LAMBDA a : [a EXCEPT !.sched[s].thread = <<s, 0>>],
            LAMBDA a : IF s \in DOMAIN a.sched THEN [a EXCEPT !.sched[s].used = "not"]
                       ELSE [a EXCEPT !.bad = TRUE]))   \* p_sched has been freed

\* The unit of a scheduler in a pool ends; it has no name and is freed.
SchedThreadEnds(s) ==
  /\ s \in DOMAIN sched /\ sched[s].thread = <<s, 0>> /\ Drained(s)
  /\ Call(LAMBDA w : thread_free(w, <<s, 0>>, TRUE))

ABT_thread_create(t, q, attr, ext) ==
  /\ Up /\ Own(t) \notin DOMAIN thr /\ q \in DOMAIN pool
  /\ Call(LAMBDA w : ythread_create(w, Own(t), q, attr, ext, FALSE))

ABT_thread_free(t) ==
  /\ Own(t) \in DOMAIN thr
  /\ Call(LAMBDA w : thread_free(w, Own(t), TRUE))

\* ABT_xstream_create() and ABT_xstream_create_with_rank(), with a scheduler
\* of the program or with a default one.
ABT_xstream_create(x, s) ==
  /\ Up /\ x \notin DOMAIN main
  /\ Unused(s) \/ New(s)
  /\ Call(LAMBDA w :
       LET mine == s \in DOMAIN w.sched
       IN OnOk(IF mine THEN w ELSE sched_create_basic(w, s, "basic", <<>>, TRUE), LAMBDA a :
            OnOk(xstream_create(a, x, s), Done,
                 LAMBDA b : IF mine THEN b ELSE sched_free(b, s, FALSE)), Done))

ABT_xstream_create_basic(x, s, predef, qs) ==
  /\ Up /\ x \notin DOMAIN main /\ New(s)
  /\ Call(LAMBDA w :
       OnOk(sched_create_basic(w, s, predef, qs, TRUE), LAMBDA a :
         OnOk(xstream_create(a, x, s), Done, LAMBDA b : sched_free(Spare(b, s, qs), s, FALSE)), Done))

\* ABT_xstream_set_main_sched_basic() on another stream, which has terminated;
\* its main scheduler's unit moves to the first pool of the new scheduler.
ABT_xstream_set_main_sched_basic(x, s, predef, qs) ==
  /\ x \in DOMAIN main \ {Primary} /\ New(s) /\ Drained(main[x])
  /\ Call(LAMBDA w :
       LET old == w.main[x]
           t == w.sched[old].thread
           Replaced(v) == [v EXCEPT !.sched[s].used = "main", !.sched[s].thread = t,
                             !.sched[old].thread = None, !.sched[old].used = "not", !.main[x] = s]
       IN OnOk(sched_create_basic(w, s, predef, qs, TRUE), LAMBDA a :
            OnOk(set_pool(a, t, a.sched[s].pools[1]),
                 LAMBDA b : IF w.sched[old].auto THEN sched_free(Replaced(b), old, FALSE) ELSE Replaced(b),
                 LAMBDA b : sched_free(Spare(b, s, qs), s, FALSE)), Done))

\* ABT_xstream_free() of a stream whose work units have all ended.
ABT_xstream_free(x) ==
  /\ x \in DOMAIN main \ {Primary} /\ Drained(main[x])
  /\ Call(LAMBDA w : xstream_free(w, x, FALSE))

-----------------------------------------------------------------------------
Kinds == {"fifo", "user"}                    \* basic_wait makes a fifo_wait pool
Predefs == {"basic", "basic_wait", "prio"}   \* randws allocates what basic does

Attrs == {Attr("default", Cacheline, cb) : cb \in BOOLEAN} \cup {Attr("nostack", 0, FALSE)}
         \cup {Attr("size", z, FALSE) : z \in Sizes}

PoolCall == \E p \in Pool :
  \/ \E k \in Kinds, auto \in BOOLEAN : ABT_pool_create(p, k, auto)
  \/ ABT_pool_free(p)

SchedCall == \E s \in Sched :
  \/ /\ "sched" \in does.calls
     /\ \E qs \in Lists, auto \in BOOLEAN : ABT_sched_create(s, qs, auto)
  \/ /\ "basic" \in does.calls
     /\ \E qs \in Lists \cup {<<>>}, d \in Predefs, auto \in BOOLEAN :
          ABT_sched_create_basic(s, d, qs, auto)
  \/ ABT_sched_free(s)

StackableCall == \E s \in Sched :
  \/ \E q \in DOMAIN pool : ABT_pool_add_sched(q, s)
  \/ SchedThreadEnds(s)

ThreadCall == \E t \in Thread :
  \/ \E q \in DOMAIN pool, a \in Attrs, ext \in BOOLEAN : ABT_thread_create(t, q, a, ext)
  \/ ABT_thread_free(t)

StreamCall == \E x \in Stream \ {Primary} :
  \/ \E s \in Sched :
       \/ ABT_xstream_create(x, s)
       \/ \E qs \in Lists \cup {<<>>}, d \in Predefs :
            \/ ABT_xstream_create_basic(x, s, d, qs)
            \/ ABT_xstream_set_main_sched_basic(x, s, d, qs)
  \/ ABT_xstream_free(x)

Next ==
  \/ ABT_init
  \/ ABT_finalize
  \/ PoolCall
  \/ SchedCall
  \/ "stackable" \in does.calls /\ StackableCall
  \/ "thread" \in does.calls /\ ThreadCall
  \/ "stream" \in does.calls /\ StreamCall

Spec == Init /\ [][Next]_vars

-----------------------------------------------------------------------------
(* Properties.                                                               *)

\* A creation that fails (any error return of the create functions) leaves
\* the program where it was: nothing allocated, nothing retained, no object of
\* the caller freed or changed.
AllOrNothing == [][failed' => UNCHANGED objects]_vars

BlocksOf == {<<"global">> : x \in DOMAIN main \cap {Primary}}
  \cup UNION {Range(PoolData(q, pool[q].kind)) \cup {<<"pool", q>>} : q \in DOMAIN pool}
  \cup UNION {{<<"sched", s>>, <<"list", s>>, <<"data", s>>, <<"pools", s>>} : s \in DOMAIN sched}
  \cup UNION {{<<"desc", t, thr[t].type, 0>>}
               \cup (IF thr[t].unit THEN {<<"unit", t, thr[t].pool>>} ELSE {})
               \cup (IF thr[t].keys # {} THEN {<<"ktable", t>>} ELSE {})
               \cup (IF "mig" \in thr[t].keys THEN {<<"mig", t>>} ELSE {}) : t \in DOMAIN thr}
  \cup UNION {{<<"xstream", x>>, <<"rank", x>>} \cup Range(LocalPools(x))
               \cup (IF x = Primary THEN Range(LocalPools(None)) ELSE Range(Context(x))) : x \in DOMAIN main}

Uses(q) == Cardinality({<<s, i>> \in (DOMAIN sched) \X (1 .. does.pools + NumPrio) :
                             i \in DOMAIN sched[s].pools /\ sched[s].pools[i] = q})

\* No release function frees or uses a block twice or one it does not have, and
\* nothing is left behind: every allocated block belongs to an object that
\* exists, every pool made for a scheduler is still used by one, num_scheds of
\* every pool is the number of schedulers' entries for it, and every unnamed or
\* scheduler's work unit belongs to its scheduler or stream.
Accounted ==
  /\ ~bad
  /\ live = BlocksOf
  /\ \A q \in DOMAIN pool :
       /\ pool[q].scheds = Uses(q)
       /\ q[1] \in Sched => pool[q].scheds > 0
       /\ q[1] \in Stream => q[1] \in DOMAIN main
  /\ \A t \in DOMAIN thr :
       /\ t[1] \in Stream => t[1] \in DOMAIN main
       /\ t[1] \in Sched => t[1] \in DOMAIN sched /\ sched[t[1]].thread = t
=============================================================================
