------------------------------- MODULE AbtInfo -------------------------------
(***************************************************************************)
(* The list of execution streams, sorted by rank (stream.c), and the dump  *)
(* of all stacks that stops every stream of that list (info.c).  Both use  *)
(* xstream_list_lock.                                                      *)
(*                                                                         *)
(* ABT_info_trigger_print_all_thread_stacks() only raises a flag, from any *)
(* thread or signal handler.  The streams see it in                        *)
(* ABTI_xstream_check_events() and meet in a barrier; the first one prints *)
(* once as many have arrived as there are streams, or after a timeout.     *)
(***************************************************************************)
EXTENDS Integers, Sequences, FiniteSets, FiniteSetsExt, Functions

CONSTANTS Stream, Primary, Null,
          Trigger,   \* callers of the trigger; each calls once
          Setups     \* records [prog, timeout]: the operations each stream
                     \* makes, and the triggers with a timeout

InfoAssumption == Primary \in Stream

VARIABLES prog,      \* stream -> operations still to make
          timeouts,  \* the triggers with a nonnegative timeout
          life,      \* stream -> NONE, NEW, RUNNING or TERMINATED
          rank, prev, next, head, num, max,
          lock,      \* xstream_list_lock
          flag, barrier,
          param,     \* print_stack_fp, _timeout, print_cb_func and print_arg
          pc,        \* stream or trigger -> its step
          forced,    \* force_print of the stream that prints
          calls      \* the callbacks made, <<trigger, forced>>

listVars == <<life, rank, prev, next, head, num, max>>
dumpVars == <<flag, barrier, param, forced, calls>>
vars == <<prog, timeouts, listVars, lock, dumpVars, pc>>

Init == /\ \E s \in Setups : prog = s.prog /\ timeouts = s.timeout
        /\ life = [s \in Stream |-> IF s = Primary THEN "RUNNING" ELSE "NONE"]
        /\ rank = [s \in Stream |-> 0]
        /\ prev = [s \in Stream |-> Null] /\ next = [s \in Stream |-> Null]
        /\ head = Primary /\ num = 1 /\ max = 1
        /\ lock = Null
        /\ flag = "UNSET" /\ barrier = 0 /\ param = Null
        /\ pc = [a \in Stream \cup Trigger |-> "idle"]
        /\ forced = FALSE /\ calls = <<>>

At(a, l) == pc[a] = l
Goto(a, l) == pc' = [pc EXCEPT ![a] = l]

-----------------------------------------------------------------------------
(* The list.  A list is [head, prev, next, rank].                            *)

List == [head |-> head, prev |-> prev, next |-> next, rank |-> rank]

\* The streams in the order of p_next, at most n of them.
RECURSIVE From(_, _, _)
From(l, s, n) == IF s = Null \/ n = 0 THEN <<>> ELSE <<s>> \o From(l, l.next[s], n - 1)
Walk(l) == From(l, l.head, Cardinality(Stream) + 1)

\* xstream_add_xstream_list(): before the first stream of a higher rank.
AddList(l, x) ==
  LET w == Walk(l)
      higher == {i \in DOMAIN w : l.rank[w[i]] > l.rank[x]}
      to == IF higher = {} THEN Null ELSE w[Min(higher)]
      last == IF w = <<>> THEN Null ELSE w[Len(w)]
      from == IF to = Null THEN last ELSE l.prev[to]
  IN [l EXCEPT
        !.head = IF from = Null THEN x ELSE @,
        !.next = [s \in Stream |-> IF s = x THEN to ELSE IF s = from THEN x ELSE @[s]],
        !.prev = [s \in Stream |->
                    IF s = to THEN x
                    ELSE IF s = x /\ (from # Null \/ to = Null) THEN from ELSE @[s]]]

\* Mutant: the stream after x keeps its p_prev.
MutRemoveList(l, x) ==
  [l EXCEPT !.head = IF l.prev[x] = Null THEN l.next[x] ELSE @,
            !.next = [s \in Stream |-> IF s = l.prev[x] THEN l.next[x] ELSE @[s]]]

RemoveList(l, x) ==
  [l EXCEPT !.head = IF l.prev[x] = Null THEN l.next[x] ELSE @,
            !.next = [s \in Stream |-> IF s = l.prev[x] THEN l.next[x] ELSE @[s]],
            !.prev = [s \in Stream |-> IF s = l.next[x] THEN l.prev[x] ELSE @[s]]]

Adopt(l) == head' = l.head /\ prev' = l.prev /\ next' = l.next /\ rank' = l.rank

Taken(r) == \E s \in Range(Walk(List)) : rank[s] = r

\* The smallest rank that no stream of the list has.
Unused == Min({r \in 0 .. Cardinality(Stream) : ~Taken(r)})

-----------------------------------------------------------------------------
(* Operations of a running stream; <<name, stream, rank>>.                   *)

Op(s, name) == /\ life[s] = "RUNNING" /\ At(s, "idle")
               /\ prog[s] # <<>> /\ Head(prog[s])[1] = name
Target(s) == Head(prog[s])[2]
Rank(s) == Head(prog[s])[3]
Done(s) == prog' = [prog EXCEPT ![s] = Tail(@)]

\* xstream_create() up to xstream_set_new_rank(); rank -1 asks for any.
Create(s) ==
  LET x == Target(s) r == IF Rank(s) = -1 THEN Unused ELSE Rank(s)
  IN /\ Op(s, "create") /\ life[x] = "NONE"
     /\ lock = Null
     /\ IF Taken(r)
        THEN UNCHANGED listVars
        ELSE /\ Adopt(AddList([List EXCEPT !.rank[x] = r, !.prev[x] = Null, !.next[x] = Null], x))
             /\ life' = [life EXCEPT ![x] = "NEW"]
             /\ num' = num + 1
             /\ max' = Max({max, r + 1})
     /\ Done(s)
     /\ UNCHANGED <<timeouts, lock, dumpVars, pc>>

\* The rest of xstream_create() succeeds, and the stream runs ...
Start(x) ==
  /\ life[x] = "NEW"
  /\ life' = [life EXCEPT ![x] = "RUNNING"]
  /\ UNCHANGED <<prog, timeouts, rank, prev, next, head, num, max, lock, dumpVars, pc>>

ReturnRank(x) ==
  /\ lock = Null
  /\ Adopt(RemoveList(List, x))
  /\ num' = num - 1
  /\ life' = [life EXCEPT ![x] = "NONE"]
  /\ UNCHANGED <<timeouts, max, lock, dumpVars, pc>>

\* ... or fails, and gives the rank back.
CreateFailed(x) == life[x] = "NEW" /\ ReturnRank(x) /\ UNCHANGED prog

\* ABT_xstream_set_rank(): the rank is compared without the lock ...
SetRank(s) ==
  /\ Op(s, "rank") /\ life[Target(s)] \in {"RUNNING", "TERMINATED"}
  /\ IF rank[Target(s)] = Rank(s) THEN Done(s) /\ UNCHANGED pc
     ELSE Goto(s, "rank") /\ UNCHANGED prog
  /\ UNCHANGED <<timeouts, listVars, lock, dumpVars>>

\* ... and xstream_change_rank() moves the stream if the new rank is unused.
ChangeRank(s) ==
  LET x == Target(s)
  IN /\ At(s, "rank") /\ lock = Null
     /\ IF Taken(Rank(s)) THEN UNCHANGED listVars
        ELSE /\ \E l \in {[RemoveList(List, x) EXCEPT !.rank[x] = Rank(s)]} :
                  \E m \in {AddList(l, x)} : Adopt(m)
             /\ max' = Max({max, Rank(s) + 1})
             /\ UNCHANGED <<life, num>>
     /\ Goto(s, "idle") /\ Done(s)
     /\ UNCHANGED <<timeouts, lock, dumpVars>>

\* The scheduler of the stream ends.
Exit(s) ==
  /\ Op(s, "exit")
  /\ life' = [life EXCEPT ![s] = "TERMINATED"] /\ Done(s)
  /\ UNCHANGED <<timeouts, rank, prev, next, head, num, max, lock, dumpVars, pc>>

\* ABT_xstream_free() of a stream that is joined.
Free(s) == Op(s, "free") /\ life[Target(s)] = "TERMINATED" /\ ReturnRank(Target(s)) /\ Done(s)

-----------------------------------------------------------------------------
(* The dump.                                                                 *)

TriggerFlag(t) ==
  /\ At(t, "idle")
  /\ IF flag = "UNSET" THEN flag' = "INITIALIZE" /\ Goto(t, "set")
     ELSE UNCHANGED flag /\ Goto(t, "done")
  /\ UNCHANGED <<prog, timeouts, listVars, lock, barrier, param, forced, calls>>

\* "Here print_stack_barrier must be 0."
TriggerSet(t) ==
  /\ At(t, "set")
  /\ param' = t
  /\ IF barrier = 0 THEN Goto(t, "wait") ELSE Goto(t, "failed")
  /\ UNCHANGED <<prog, timeouts, listVars, lock, flag, barrier, forced, calls>>

TriggerWait(t) ==
  /\ At(t, "wait")
  /\ flag' = "WAIT" /\ Goto(t, "done")
  /\ UNCHANGED <<prog, timeouts, listVars, lock, barrier, param, forced, calls>>

\* ABTI_info_check_print_all_thread_stacks().
CheckEvents(s) ==
  /\ life[s] = "RUNNING" /\ At(s, "idle")
  /\ flag = "WAIT"
  /\ Goto(s, "enter")
  /\ UNCHANGED <<prog, timeouts, listVars, lock, dumpVars>>

Enter(s) ==
  /\ At(s, "enter")
  /\ barrier' = barrier + 1
  /\ Goto(s, IF barrier = 0 THEN "main" ELSE "stopped")
  /\ UNCHANGED <<prog, timeouts, listVars, lock, flag, param, forced, calls>>

Arrived == barrier >= num

\* The lock is taken for every look and kept once it is time to print.
MainWait(s) ==
  /\ At(s, "main") /\ lock = Null
  /\ Arrived \/ param \in timeouts
  /\ forced' = ~Arrived
  /\ lock' = s /\ Goto(s, "print")
  /\ UNCHANGED <<prog, timeouts, listVars, flag, barrier, param, calls>>

MainPrint(s) ==
  /\ At(s, "print")
  /\ lock' = Null /\ Goto(s, "callback")
  /\ UNCHANGED <<prog, timeouts, listVars, dumpVars>>

MainCallback(s) ==
  /\ At(s, "callback")
  /\ calls' = Append(calls, <<param, forced>>) /\ Goto(s, "finalize")
  /\ UNCHANGED <<prog, timeouts, listVars, lock, flag, barrier, param, forced>>

MainFinalize(s) ==
  /\ At(s, "finalize")
  /\ flag' = "FINALIZE" /\ Goto(s, "leave")
  /\ UNCHANGED <<prog, timeouts, listVars, lock, barrier, param, forced, calls>>

Stopped(s) ==
  /\ At(s, "stopped") /\ flag = "FINALIZE"
  /\ Goto(s, "leave")
  /\ UNCHANGED <<prog, timeouts, listVars, lock, dumpVars>>

\* The assertion, and the barrier; the last one out resets the flag.
Leave(s) ==
  /\ At(s, "leave")
  /\ barrier' = barrier - 1
  /\ Goto(s, IF flag # "FINALIZE" THEN "failed" ELSE IF barrier = 1 THEN "reset" ELSE "idle")
  /\ UNCHANGED <<prog, timeouts, listVars, lock, flag, param, forced, calls>>

Reset(s) ==
  /\ At(s, "reset")
  /\ flag' = "UNSET" /\ Goto(s, "idle")
  /\ UNCHANGED <<prog, timeouts, listVars, lock, barrier, param, forced, calls>>

StreamStep(s) == \/ Create(s) \/ SetRank(s) \/ ChangeRank(s) \/ Exit(s) \/ Free(s)
                 \/ Start(s) \/ CreateFailed(s)
DumpStep(s) == \/ CheckEvents(s) \/ Enter(s) \/ MainWait(s) \/ MainPrint(s)
               \/ MainCallback(s) \/ MainFinalize(s) \/ Stopped(s) \/ Leave(s) \/ Reset(s)
TriggerStep(t) == TriggerFlag(t) \/ TriggerSet(t) \/ TriggerWait(t)

Next == \/ \E s \in Stream : StreamStep(s) \/ DumpStep(s)
        \/ \E t \in Trigger : TriggerStep(t)

\* A scheduler checks events again and again, a call that was begun goes on, and
\* a stream that was created starts unless that fails; nobody has to make an operation or
\* to trigger a dump.
Fairness == /\ \A s \in Stream : WF_vars(DumpStep(s) \/ ChangeRank(s) \/ Start(s))
            /\ \A t \in Trigger : WF_vars(TriggerSet(t) \/ TriggerWait(t))

Spec == Init /\ [][Next]_vars /\ Fairness

-----------------------------------------------------------------------------
(* Properties.                                                               *)

Listed == {s \in Stream : life[s] # "NONE"}

\* The list has the streams that exist, each once, by strictly increasing rank;
\* p_prev inverts p_next, and num_xstreams and max_xstreams bound them: what
\* xstream_set_new_rank(), xstream_change_rank() and xstream_return_rank()
\* promise each other, in any order of calls.
ListSorted ==
  LET w == Walk(List)
  IN /\ {w[i] : i \in DOMAIN w} = Listed /\ Len(w) = num /\ num = Cardinality(Listed)
     /\ \A i \in 1 .. Len(w) - 1 : rank[w[i]] < rank[w[i + 1]] /\ prev[w[i + 1]] = w[i]
     /\ \A i \in DOMAIN w : rank[w[i]] < max
     /\ prev[head] = Null

\* "the stack information is printed only after all the execution streams stop":
\* unless it was forced by a timeout, nobody else moves while a stream prints,
\* and nobody joins or leaves the list.
QuietPrint ==
  \A s \in Stream : At(s, "print") /\ ~forced =>
    /\ lock = s
    /\ \A r \in Listed \ {s} : At(r, "stopped")

\* Every dump makes one callback, with the values of its own trigger, and the
\* assertions of the barrier hold, when no trigger uses the timeout.
OneCallback ==
  timeouts = {} => /\ \A i, j \in DOMAIN calls : calls[i][1] = calls[j][1] => i = j
                   /\ \A a \in Stream \cup Trigger : ~At(a, "failed")

Answered == \/ flag = "UNSET" \/ timeouts # {}
            \/ \E s \in Stream : life[s] = "TERMINATED"

\* A trigger is answered and the flag comes down again, unless a stream has
\* terminated and nobody frees it (it is counted and never comes) or the timeout
\* is used.
TriggerAnswered == flag = "WAIT" ~> Answered
=============================================================================
