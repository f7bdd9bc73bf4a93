---------------------------- MODULE AbtPoolSpec ----------------------------
(***************************************************************************)
(* What a pool of Argobots promises its users, whatever its implementation *)
(* (src/argobots/src/pool): a work unit is in one place at a time, a pool  *)
(* keeps the order in which units were pushed, a FIFO pool hands out its   *)
(* oldest unit, and only a RANDWS pool lets its owner work on the far end. *)
(***************************************************************************)
EXTENDS Sequences, SequencesExt

CONSTANTS Workers, Threads

VARIABLES order,    \* pool -> "fifo" or "deque"
          content,  \* pool -> the work units in it, head first
          held      \* worker -> the work units that it holds

vars == <<order, content, held>>

Everywhere == UNION {ToSet(content[p]) : p \in DOMAIN content}
                 \cup UNION {held[w] : w \in Workers}

Init == /\ \A p \in DOMAIN content : content[p] = <<>>
        /\ \A v, w \in Workers : v # w => held[v] \cap held[w] = {}

Create(w, t) == /\ t \notin Everywhere
                /\ held' = [held EXCEPT ![w] = @ \cup {t}]
                /\ UNCHANGED <<order, content>>

Free(w, t) == /\ t \in held[w]
              /\ held' = [held EXCEPT ![w] = @ \ {t}]
              /\ UNCHANGED <<order, content>>

Push(w, p, t) ==
  /\ t \in held[w]
  /\ held' = [held EXCEPT ![w] = @ \ {t}]
  /\ \/ content' = [content EXCEPT ![p] = Append(@, t)]
     \/ order[p] = "deque" /\ content' = [content EXCEPT ![p] = <<t>> \o @]
  /\ UNCHANGED order

Pop(w, p) ==
  /\ content[p] # <<>>
  /\ \/ /\ content' = [content EXCEPT ![p] = Tail(@)]
        /\ held' = [held EXCEPT ![w] = @ \cup {Head(content[p])}]
     \/ /\ order[p] = "deque"
        /\ content' = [content EXCEPT ![p] = Front(@)]
        /\ held' = [held EXCEPT ![w] = @ \cup {Last(content[p])}]
  /\ UNCHANGED order

Withdraw(w, p, t) ==
  /\ Contains(content[p], t)
  /\ content' = [content EXCEPT ![p] = Remove(@, t)]
  /\ held' = [held EXCEPT ![w] = @ \cup {t}]
  /\ UNCHANGED order

Next == \E w \in Workers :
          \/ \E t \in Threads : Create(w, t) \/ Free(w, t)
          \/ \E p \in DOMAIN content :
               Pop(w, p) \/ \E t \in Threads : Push(w, p, t) \/ Withdraw(w, p, t)

Spec == Init /\ [][Next]_vars
=============================================================================
