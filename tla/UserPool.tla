------------------------------ MODULE UserPool ------------------------------
(***************************************************************************)
(* The work-stealing pool that sched_and_pool_user.c defines: a doubly     *)
(* linked list with a head, at which units are created and from which they *)
(* are popped, and a tail, for the other pushes and for secondary owners.  *)
(* A pop moves the head or the tail and leaves the links of the unit that  *)
(* it removes, and the link of its neighbour to it, as they are.           *)
(***************************************************************************)
EXTENDS Integers, Sequences

CONSTANTS Cell,     \* addresses of units
          Null

VARIABLES p_head, p_tail,
          p_prev, p_next,  \* address -> link
          where,           \* address -> "freed", "out" (created or popped) or "in"
          deque            \* history: what the diagram of the comment would hold

poolVars == <<p_head, p_tail, p_prev, p_next, where, deque>>

PoolInit == /\ p_head = Null /\ p_tail = Null
            /\ p_prev = [c \in Cell |-> Null] /\ p_next = [c \in Cell |-> Null]
            /\ where = [c \in Cell |-> "freed"]
            /\ deque = <<>>

\* calloc() clears the links.
pool_create_unit(c) ==
  /\ where[c] = "freed" /\ where' = [where EXCEPT ![c] = "out"]
  /\ p_prev' = [p_prev EXCEPT ![c] = Null] /\ p_next' = [p_next EXCEPT ![c] = Null]
  /\ UNCHANGED <<p_head, p_tail, deque>>

pool_free_unit(c) ==
  /\ where[c] = "out" /\ where' = [where EXCEPT ![c] = "freed"]
  /\ UNCHANGED <<p_head, p_tail, p_prev, p_next, deque>>

pool_is_empty == p_head = Null

Popped(c, left) == /\ where' = [where EXCEPT ![c] = "out"] /\ deque' = left
                   /\ UNCHANGED <<p_prev, p_next>>

pool_pop(secondary) ==
  LET n == Len(deque)
  IN /\ ~pool_is_empty
     /\ IF p_head = p_tail
        THEN p_head' = Null /\ p_tail' = Null /\ Popped(p_head, <<>>)
        ELSE IF secondary
        THEN p_tail' = p_next[p_tail] /\ UNCHANGED p_head /\ Popped(p_tail, SubSeq(deque, 1, n - 1))
        ELSE p_head' = p_prev[p_head] /\ UNCHANGED p_tail /\ Popped(p_head, Tail(deque))

pool_push(c, create) ==
  /\ where[c] = "out" /\ where' = [where EXCEPT ![c] = "in"]
  /\ IF create
     THEN /\ p_prev' = IF p_head # Null THEN [p_prev EXCEPT ![c] = p_head] ELSE p_prev
          /\ p_next' = IF p_head # Null THEN [p_next EXCEPT ![p_head] = c] ELSE p_next
          /\ p_tail' = IF p_head # Null THEN p_tail ELSE c
          /\ p_head' = c /\ deque' = <<c>> \o deque
     ELSE /\ p_next' = IF p_tail # Null THEN [p_next EXCEPT ![c] = p_tail] ELSE p_next
          /\ p_prev' = IF p_tail # Null THEN [p_prev EXCEPT ![p_tail] = c] ELSE p_prev
          /\ p_head' = IF p_tail # Null THEN p_head ELSE c
          /\ p_tail' = c /\ deque' = Append(deque, c)

PoolNext == \/ \E c \in Cell : \/ pool_create_unit(c) \/ pool_free_unit(c)
                               \/ \E create \in BOOLEAN : pool_push(c, create)
            \/ \E secondary \in BOOLEAN : pool_pop(secondary)

-----------------------------------------------------------------------------

\* From one end to the other along a link.
Walk(from, link, n) ==
  LET f[i \in 1 .. n] == IF i = 1 THEN from ELSE link[f[i - 1]]
  IN [i \in 1 .. n |-> f[i]]

\* Read from the head along p_prev, and from the tail along p_next, the list is the
\* deque of the diagram: the links that pops leave behind, to units that were
\* pushed elsewhere or freed, are not on the way.
IsDeque ==
  LET n == Len(deque)
  IN /\ (p_head = Null) = (n = 0) /\ (p_tail = Null) = (n = 0)
     /\ n > 0 => /\ Walk(p_head, p_prev, n) = deque
                 /\ Walk(p_tail, p_next, n) = [i \in 1 .. n |-> deque[n + 1 - i]]
                 /\ \A i \in 1 .. n : where[deque[i]] = "in"
=============================================================================
