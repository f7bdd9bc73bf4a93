------------------------------ MODULE AbtMem ------------------------------
(***************************************************************************)
(* The memory pools of Argobots (src/argobots/src/mem/mem_pool.c,          *)
(* abti_mem_pool.h, abti_sync_lifo.h): blocks ("headers") are carved from  *)
(* pages, travel in buckets of num_headers_per_bucket between the global   *)
(* pool and the local pools, through lock-free stacks whose top carries a  *)
(* tag, and what is left of a bucket when a local pool dies is merged with *)
(* the global partial bucket under a lock.                                 *)
(*                                                                         *)
(* A user is an execution stream with its local pool, or the external      *)
(* threads, which share one local pool under a lock.                       *)
(***************************************************************************)
EXTENDS Integers, Sequences, FiniteSets, FiniteSetsExt, Functions

CONSTANTS Users, Pages, Null,
          MaxLocalBuckets,  \* ABT_MEM_POOL_MAX_LOCAL_BUCKETS
          Setups            \* records [per, cap, left]: the headers of a bucket,
                            \* the headers of a page, and the bound on the calls
                            \* of each user

VARIABLES per, cap, left,
          next,     \* header -> p_next
          info,     \* header -> bucket_info, a union: Num(num_headers), or To(x),
                    \* the link of the stack of buckets
          link,     \* page -> the link of the stack of pages
          extra,    \* page -> headers not carved yet, or Null
          lifo,     \* "bucket", "page" -> [ptr, tag]
          emptyTop, elink, \* the push-only list of pages that are used up
          partial, plock,
          local,    \* user -> its buckets, the current one last, or Null
          reg,      \* user -> the registers of its call
          used      \* the headers that are allocated

vars == <<per, cap, left, next, info, link, extra, lifo, emptyTop, elink,
          partial, plock, local, reg, used>>
setup == <<per, cap>>

\* A pointer that is really a number.
Wild == <<Null, 0>>
Num(n) == [num |-> n, to |-> Wild]
To(x) == [num |-> 0, to |-> x]

Headers == {<<g, i>> : g \in Pages, i \in 1..Max({s.cap : s \in Setups})}

Idle == [pc |-> "idle", ret |-> Null, on |-> "bucket", top |-> Null, tag |-> 0,
         nxt |-> Null, elem |-> Null, head |-> Null, num |-> 0, op |-> Null,
         cur |-> Null]

Init == /\ \E s \in Setups : per = s.per /\ cap = s.cap /\ left = s.left
        /\ next = [h \in Headers |-> Null]
        /\ info = [h \in Headers |-> Num(0)]
        /\ link = [g \in Pages |-> Null]
        /\ extra = [g \in Pages |-> Null]
        /\ lifo = [l \in {"bucket", "page"} |-> [ptr |-> Null, tag |-> 0]]
        /\ emptyTop = Null /\ elink = [g \in Pages |-> Null]
        /\ partial = Null /\ plock = Null
        /\ local = [u \in Users |-> Null]
        /\ reg = [u \in Users |-> Idle]
        /\ used = {}

At(u, pc) == reg[u].pc = pc
Go(u, r) == reg' = [reg EXCEPT ![u] = r]
Return(u, e) == Go(u, [reg[u] EXCEPT !.elem = e, !.pc = reg[u].ret])

-----------------------------------------------------------------------------
(* The stacks (abti_sync_lifo.h).  The pointer and the tag of the top are    *)
(* read one after the other, and compared and swapped together.              *)

PopFrom(r, l, ret) == [r EXCEPT !.pc = "pop", !.on = l, !.ret = ret]
PushOn(r, l, e, ret) == [r EXCEPT !.pc = "push", !.on = l, !.elem = e, !.ret = ret]

LinkOf(l, e) == IF l = "bucket" THEN info[e].to ELSE link[e]
SetLink(l, e, to) ==
  IF l = "bucket" THEN info' = [info EXCEPT ![e] = To(to)] /\ UNCHANGED link
  ELSE link' = [link EXCEPT ![e] = to] /\ UNCHANGED info

poolVars == <<setup, left, next, extra, emptyTop, elink, partial, plock, local, used>>

LifoPop(u) ==
  LET top == lifo[reg[u].on].ptr
  IN /\ At(u, "pop")
     /\ IF top = Null THEN Return(u, Null)
        ELSE Go(u, [reg[u] EXCEPT !.top = top, !.pc = "pop_next"])
     /\ UNCHANGED <<poolVars, info, link, lifo>>
\* The element may be somebody else's by now, and its link anything.
LifoPopNext(u) ==
  /\ At(u, "pop_next")
  /\ Go(u, [reg[u] EXCEPT !.tag = lifo[reg[u].on].tag,
                          !.nxt = LinkOf(reg[u].on, reg[u].top), !.pc = "pop_cas"])
  /\ UNCHANGED <<poolVars, info, link, lifo>>

\* Mutant: the stack compares the pointer only.
MutSame(u) == lifo[reg[u].on].ptr = reg[u].top

Same(u) == lifo[reg[u].on] = [ptr |-> reg[u].top, tag |-> reg[u].tag]

LifoPopCas(u) ==
  /\ At(u, "pop_cas")
  /\ IF Same(u)
     THEN /\ lifo' = [lifo EXCEPT ![reg[u].on] = [ptr |-> reg[u].nxt, tag |-> @.tag + 1]]
          /\ Return(u, reg[u].top)
     ELSE Go(u, [reg[u] EXCEPT !.pc = "pop"]) /\ UNCHANGED lifo
  /\ UNCHANGED <<poolVars, info, link>>

LifoPush(u) ==
  /\ At(u, "push")
  /\ Go(u, [reg[u] EXCEPT !.top = lifo[reg[u].on].ptr, !.tag = lifo[reg[u].on].tag,
                          !.pc = "push_cas"])
  /\ SetLink(reg[u].on, reg[u].elem, lifo[reg[u].on].ptr)
  /\ UNCHANGED <<poolVars, lifo>>

LifoPushCas(u) ==
  /\ At(u, "push_cas")
  /\ IF Same(u)
     THEN /\ lifo' = [lifo EXCEPT ![reg[u].on] = [ptr |-> reg[u].elem, tag |-> @.tag + 1]]
          /\ Return(u, reg[u].elem)
     ELSE Go(u, [reg[u] EXCEPT !.pc = "push"]) /\ UNCHANGED lifo
  /\ UNCHANGED <<poolVars, info, link>>

-----------------------------------------------------------------------------
(* ABTI_mem_pool_take_bucket(): a bucket of the stack, or headers carved     *)
(* from pages until there are enough.                                        *)

Take(r, op) == PopFrom([r EXCEPT !.op = op], "bucket", "took")

\* The bucket is the caller's: it becomes the first bucket of the local pool,
\* and the last header of the previous one is the one that alloc() returns.
Taken(u, h) ==
  /\ local' = [local EXCEPT ![u] = <<h>>]
  /\ used' = IF reg[u].op = "alloc" THEN used \cup {reg[u].cur} ELSE used
  /\ Go(u, Idle)

Took(u) ==
  /\ At(u, "took")
  /\ IF reg[u].elem # Null
     THEN /\ info' = [info EXCEPT ![reg[u].elem] = Num(per)]
          /\ Taken(u, reg[u].elem)
     ELSE /\ Go(u, PopFrom([reg[u] EXCEPT !.head = Null, !.num = 0], "page", "page"))
          /\ UNCHANGED <<info, local, used>>
  /\ UNCHANGED <<setup, left, next, extra, emptyTop, elink, partial, plock, link, lifo>>

\* Headers lo..hi of page g, each linked to the one before, on top of head.
Chain(g, lo, hi, head) ==
  [h \in Headers |-> IF h = <<g, lo>> THEN head
                     ELSE IF h[1] = g /\ h[2] \in lo..hi THEN <<g, h[2] - 1>>
                     ELSE next[h]]

\* Take what the page still has, then give the page back: to the stack if it
\* has more, to the list of pages that are used up otherwise.
Carve(u, g, has) ==
  LET n == Min({has, per - reg[u].num})
      lo == cap - has + 1
      r == [reg[u] EXCEPT !.head = <<g, lo + n - 1>>, !.num = @ + n]
  IN /\ next' = Chain(g, lo, lo + n - 1, reg[u].head)
     /\ extra' = [extra EXCEPT ![g] = has - n]
     /\ IF has > n THEN Go(u, PushOn(r, "page", g, "carved"))
        ELSE Go(u, [r EXCEPT !.pc = "empty", !.elem = g])

\* Without a page the headers carved so far go to the partial bucket.
NoPage(u) ==
  /\ IF reg[u].num = 0 THEN Go(u, Idle) /\ UNCHANGED info
     ELSE /\ info' = [info EXCEPT ![reg[u].head] = Num(reg[u].num)]
          /\ Go(u, [reg[u] EXCEPT !.pc = "partial", !.elem = reg[u].head])
  /\ UNCHANGED <<next, extra>>

\* Which free page malloc() returns is immaterial.
NewPage == CHOOSE g \in Pages : extra[g] = Null

Page(u) ==
  /\ At(u, "page")
  /\ \/ reg[u].elem # Null /\ Carve(u, reg[u].elem, extra[reg[u].elem])
        /\ UNCHANGED info
     \/ /\ reg[u].elem = Null
        /\ (\E g \in Pages : extra[g] = Null) /\ Carve(u, NewPage, cap)
        /\ UNCHANGED info
     \/ reg[u].elem = Null /\ NoPage(u)
  /\ UNCHANGED <<setup, left, emptyTop, elink, partial, plock, local, used, link, lifo>>

EmptyPage(u) ==
  /\ At(u, "empty")
  /\ elink' = [elink EXCEPT ![reg[u].elem] = emptyTop]
  /\ Go(u, [reg[u] EXCEPT !.top = emptyTop, !.pc = "empty_cas"])
  /\ UNCHANGED <<setup, left, next, extra, emptyTop, partial, plock, local, used,
                 info, link, lifo>>

EmptyPageCas(u) ==
  /\ At(u, "empty_cas")
  /\ IF emptyTop = reg[u].top
     THEN emptyTop' = reg[u].elem /\ Go(u, [reg[u] EXCEPT !.pc = "carved"])
     ELSE UNCHANGED emptyTop /\ Go(u, [reg[u] EXCEPT !.pc = "empty"])
  /\ UNCHANGED <<setup, left, next, extra, elink, partial, plock, local, used,
                 info, link, lifo>>

Carved(u) ==
  /\ At(u, "carved")
  /\ IF reg[u].num = per
     THEN info' = [info EXCEPT ![reg[u].head] = Num(per)] /\ Taken(u, reg[u].head)
     ELSE Go(u, PopFrom(reg[u], "page", "page")) /\ UNCHANGED <<info, local, used>>
  /\ UNCHANGED <<setup, left, next, extra, emptyTop, elink, partial, plock, link, lifo>>
-----------------------------------------------------------------------------
(* mem_pool_return_partial_bucket(), inside partial_bucket_lock.             *)

Walk(h, n) == LET W[i \in 1..Max({n, 1})] == IF i = 1 THEN h ELSE next[W[i - 1]]
              IN W

Nth(h, n) == Walk(h, n)[Max({n, 1})]

\* The headers do not fill a bucket: append them to the partial bucket.
Join(u, bucket, np, nb) ==
  /\ next' = [next EXCEPT ![Nth(partial, np)] = bucket]
  /\ info' = [info EXCEPT ![partial] = Num(np + nb)]
  /\ Go(u, Idle)
  /\ UNCHANGED <<partial, plock>>

\* They do: cut the partial bucket, return a full one, keep what is left.  The
\* number of headers left is computed as per - (np + nb), a negative number.
Complete(u, bucket, np, nb) ==
  LET cut == Nth(partial, per - nb)
      rest == IF np + nb = per THEN Null ELSE next[cut]
  IN /\ next' = [next EXCEPT ![cut] = bucket]
     /\ info' = [h \in Headers |-> IF h = rest THEN Num(per - (np + nb)) ELSE info[h]]
     /\ plock' = u
     /\ Go(u, PushOn([reg[u] EXCEPT !.cur = rest], "bucket", partial, "merged"))
     /\ UNCHANGED partial

ReturnPartial(u) ==
  LET bucket == reg[u].elem
  IN /\ At(u, "partial") /\ plock = Null
     /\ IF partial = Null
        THEN partial' = bucket /\ Go(u, Idle) /\ UNCHANGED <<next, info, plock>>
        ELSE IF info[partial].num + info[bucket].num < per
             THEN Join(u, bucket, info[partial].num, info[bucket].num)
             ELSE Complete(u, bucket, info[partial].num, info[bucket].num)
     /\ UNCHANGED <<setup, left, extra, emptyTop, elink, local, used, link, lifo>>

Merged(u) ==
  /\ At(u, "merged")
  /\ partial' = reg[u].cur /\ plock' = Null /\ Go(u, Idle)
  /\ UNCHANGED <<setup, left, next, extra, emptyTop, elink, local, used, info, link,
                 lifo>>

-----------------------------------------------------------------------------
(* The local pool of a user (abti_mem_pool.h).                               *)

Call(u) == /\ At(u, "idle") /\ left[u] > 0
           /\ left' = [left EXCEPT ![u] = @ - 1]
           /\ UNCHANGED <<setup, extra, emptyTop, elink, partial, plock, link, lifo>>

InitLocal(u) == /\ Call(u)
                /\ local[u] = Null
                /\ Go(u, Take(Idle, "init"))
                /\ UNCHANGED <<next, info, local, used>>

Current(u) == local[u][Len(local[u])]
Older(u) == SubSeq(local[u], 1, Len(local[u]) - 1)

\* The last header of the last bucket is handed out once there is a new bucket.
Alloc(u) ==
  /\ Call(u)
  /\ local[u] # Null
  /\ LET h == Current(u) n == info[h].num
     IN IF n = 1 /\ Len(local[u]) = 1
        THEN /\ Go(u, Take([Idle EXCEPT !.cur = h], "alloc"))
             /\ UNCHANGED <<info, local, used>>
        ELSE /\ IF n = 1 THEN local' = [local EXCEPT ![u] = Older(u)] /\ UNCHANGED info
                ELSE /\ info' = [info EXCEPT ![next[h]] = Num(n - 1)]
                     /\ local' = [local EXCEPT ![u] = Append(Older(u), next[h])]
             /\ used' = used \cup {h}
             /\ UNCHANGED reg
  /\ UNCHANGED next

\* The buckets that are left when the oldest had to go to the global pool.
Room(u) == IF Len(local[u]) = MaxLocalBuckets THEN Tail(local[u]) ELSE local[u]

Free(u, h) ==
  /\ Call(u)
  /\ local[u] # Null /\ h \in used
  /\ used' = used \ {h}
  /\ LET cur == Current(u)
     IN IF info[cur].num = per
        THEN /\ IF Len(local[u]) = MaxLocalBuckets
                THEN Go(u, PushOn(Idle, "bucket", Head(local[u]), "freed"))
                ELSE UNCHANGED reg
             /\ next' = [next EXCEPT ![h] = Null]
             /\ info' = [info EXCEPT ![h] = Num(1)]
             /\ local' = [local EXCEPT ![u] = Append(Room(u), h)]
        ELSE /\ next' = [next EXCEPT ![h] = cur]
             /\ info' = [info EXCEPT ![h] = Num(info[cur].num + 1)]
             /\ local' = [local EXCEPT ![u] = Append(Older(u), h)]
             /\ UNCHANGED reg

\* ABTI_mem_pool_destroy_local_pool(): full buckets go to the stack, the last
\* one to the partial bucket when it is not full.
DestroyLocal(u) == /\ Call(u)
                   /\ local[u] # Null
                   /\ Go(u, [Idle EXCEPT !.pc = "destroy"])
                   /\ UNCHANGED <<next, info, local, used>>

Destroy(u) ==
  /\ At(u, "destroy")
  /\ IF local[u] = Null THEN Go(u, Idle) /\ UNCHANGED local
     ELSE LET b == Head(local[u]) more == Len(local[u]) > 1
          IN /\ local' = [local EXCEPT ![u] = IF more THEN Tail(local[u]) ELSE Null]
             /\ IF more \/ info[b].num = per
                THEN Go(u, PushOn(reg[u], "bucket", b, "destroy"))
                ELSE Go(u, [reg[u] EXCEPT !.pc = "partial", !.elem = b])
  /\ UNCHANGED <<setup, left, next, info, link, extra, lifo, emptyTop, elink, partial,
                 plock, used>>

Freed(u) == At(u, "freed") /\ Go(u, Idle) /\ UNCHANGED <<poolVars, info, link, lifo>>

Next == \E u \in Users :
          \/ InitLocal(u) \/ Alloc(u) \/ DestroyLocal(u)
          \/ \E h \in used : Free(u, h)
          \/ LifoPop(u) \/ LifoPopNext(u) \/ LifoPopCas(u)
          \/ LifoPush(u) \/ LifoPushCas(u)
          \/ Took(u) \/ Page(u) \/ EmptyPage(u) \/ EmptyPageCas(u) \/ Carved(u)
          \/ ReturnPartial(u) \/ Merged(u) \/ Destroy(u) \/ Freed(u)

Spec == Init /\ [][Next]_vars

-----------------------------------------------------------------------------
(* Properties.                                                               *)

RECURSIVE Stack(_)
Stack(h) == IF h \notin Headers THEN {h} ELSE {h} \cup Stack(info[h].to)

Returned == Stack(lifo["bucket"].ptr) \ {Null}
Kept == UNION {Range(local[u]) : u \in {v \in Users : local[v] # Null}}

Nodes(h, n) == {Walk(h, n)[i] : i \in 1..n}

\* The free lists: bucket heads with the number of headers each stands for.
FreeLists ==
  {<<h, per>> : h \in Returned}
    \cup UNION {{<<local[u][i], IF i = Len(local[u]) THEN info[local[u][i]].num ELSE per>>
                   : i \in DOMAIN local[u]} : u \in {v \in Users : local[v] # Null}}
    \cup (IF partial = Null \/ plock # Null THEN {} ELSE {<<partial, info[partial].num>>})

\* No block is in two places, whatever the interleaving of the lock-free stacks
\* of take_bucket() and return_bucket(): the free lists have as many headers as
\* they count, no two share one, and none has a header that is allocated.
NoSharing ==
  /\ Wild \notin Returned
  /\ Returned \cap (Kept \cup used) = {}
  /\ \A l \in FreeLists : Cardinality(Nodes(l[1], l[2])) = Max({l[2], 0})
                           /\ Nodes(l[1], l[2]) \cap used = {}
  /\ \A l, m \in FreeLists : l # m => Nodes(l[1], l[2]) \cap Nodes(m[1], m[2]) = {}

\* Every block that was carved from a page is allocated or in a free list, and
\* the partial bucket counts its own ("The number of headers is stored in
\* partial_bucket.bucket_info.num_headers", abti_mem_pool.h).
PartialCounted ==
  (\A u \in Users : At(u, "idle")) =>
    {h \in Headers : extra[h[1]] # Null /\ h[2] <= cap - extra[h[1]]}
      = used \cup UNION {Nodes(l[1], l[2]) : l \in FreeLists}
=============================================================================
