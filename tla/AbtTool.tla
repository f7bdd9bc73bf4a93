------------------------------ MODULE AbtTool -------------------------------
(***************************************************************************)
(* The tool interface of Argobots (include/abti_tool.h, tool.c): a         *)
(* callback, its argument and its event mask are replaced under a lock     *)
(* that the events do not take; an event reads the mask, the two others    *)
(* and the mask again, whose tag tells whether they belong together.       *)
(***************************************************************************)
EXTENDS Integers, Sequences, Functions

CONSTANTS Writer,    \* threads that register callbacks
          Reader,    \* streams on which events happen
          Register,  \* writer -> registrations [cb_f, mask, user_arg] it makes in turn
          Event,     \* event codes
          Callback,  \* callback functions
          Argument,  \* their arguments; NULL is one
          TagSize,   \* bound on the tag (2^20): it "does not happen practically"
                     \* that it wraps around
          Null

Registration == [cb_f : Callback \union {Null}, mask : SUBSET Event, user_arg : Argument]

\* What is ever registered.
Made == UNION {Range(Register[w]) : w \in Writer}

ASSUME ToolAssumption ==
  /\ Register \in [Writer -> Seq(Registration)]
  /\ Null \notin Writer /\ Null \in Argument /\ TagSize \in Nat

VARIABLES tagged,   \* tool_thread_event_mask_tagged: [tag, dirty, mask]
          cb_f, user_arg,
          lock,     \* holder of tool_writer_lock
          wr,       \* writer -> [pc, todo, new]
          rd        \* reader -> [pc, event, seen, cb_f, user_arg]

vars == <<tagged, cb_f, user_arg, lock, wr, rd>>

NoMask == [tag |-> 0, dirty |-> FALSE, mask |-> {}]
NoCall == [cb_f |-> Null, mask |-> {}, user_arg |-> Null]

Init == /\ tagged = NoMask /\ cb_f = Null /\ user_arg = Null /\ lock = Null
        /\ wr = [w \in Writer |-> [pc |-> "idle", todo |-> Register[w], new |-> NoCall]]
        /\ rd = [r \in Reader |-> [pc |-> "idle", event |-> Null, seen |-> NoMask,
                                   cb_f |-> Null, user_arg |-> Null]]

-----------------------------------------------------------------------------

\* ABT_tool_register_thread_callback(): no callback takes no event.
Effective(a) == [a EXCEPT !.mask = IF a.cb_f = Null THEN {} ELSE @]

ABT_tool_register_thread_callback(w) ==
  /\ wr[w].pc = "idle" /\ wr[w].todo # <<>>
  /\ wr' = [wr EXCEPT ![w] = [pc |-> "lock", todo |-> Tail(@.todo),
                              new |-> Effective(Head(@.todo))]]
  /\ UNCHANGED <<tagged, cb_f, user_arg, lock, rd>>

\* Mutant: the mask is not marked while the two others change.
MutMark(w) ==
  /\ wr[w].pc = "lock" /\ lock = Null /\ lock' = w
  /\ wr' = [wr EXCEPT ![w] = [@ EXCEPT !.pc = "cb_f"]]
  /\ UNCHANGED <<tagged, cb_f, user_arg, rd>>

\* ABTI_tool_event_thread_update_callback(): the new mask, dirty ...
Mark(w) ==
  /\ wr[w].pc = "lock" /\ lock = Null /\ tagged.tag + 1 < TagSize /\ lock' = w
  /\ tagged' = [tag |-> tagged.tag + 1, dirty |-> TRUE, mask |-> wr[w].new.mask]
  /\ wr' = [wr EXCEPT ![w] = [@ EXCEPT !.pc = "cb_f"]]
  /\ UNCHANGED <<cb_f, user_arg, rd>>

\* ... the callback, the argument ...
SetCallback(w) ==
  /\ wr[w].pc = "cb_f" /\ cb_f' = wr[w].new.cb_f
  /\ wr' = [wr EXCEPT ![w] = [@ EXCEPT !.pc = "user_arg"]]
  /\ UNCHANGED <<tagged, user_arg, lock, rd>>
SetArgument(w) ==
  /\ wr[w].pc = "user_arg" /\ user_arg' = wr[w].new.user_arg
  /\ wr' = [wr EXCEPT ![w] = [@ EXCEPT !.pc = "clean"]]
  /\ UNCHANGED <<tagged, cb_f, lock, rd>>

\* ... and the mask, clean.
update_callback(w) ==
  /\ wr[w].pc = "clean" /\ lock' = Null
  /\ tagged' = [tag |-> tagged.tag, dirty |-> FALSE, mask |-> wr[w].new.mask]
  /\ wr' = [wr EXCEPT ![w] = [@ EXCEPT !.pc = "idle"]]
  /\ UNCHANGED <<cb_f, user_arg, rd>>

\* ABTI_tool_event_thread(): the mask is loaded; an event it does not have ends here.
Load(e) == [pc |-> IF e \in tagged.mask THEN "cb_f" ELSE "idle", event |-> e,
            seen |-> tagged, cb_f |-> Null, user_arg |-> Null]

ABTI_tool_event_thread(r, e) ==
  /\ rd[r].pc = "idle" /\ rd' = [rd EXCEPT ![r] = Load(e)]
  /\ UNCHANGED <<tagged, cb_f, user_arg, lock, wr>>
LoadCallback(r) ==
  /\ rd[r].pc = "cb_f" /\ rd' = [rd EXCEPT ![r] = [@ EXCEPT !.pc = "user_arg", !.cb_f = cb_f]]
  /\ UNCHANGED <<tagged, cb_f, user_arg, lock, wr>>
LoadArgument(r) ==
  /\ rd[r].pc = "user_arg" /\ rd' = [rd EXCEPT ![r] = [@ EXCEPT !.pc = "again", !.user_arg = user_arg]]
  /\ UNCHANGED <<tagged, cb_f, user_arg, lock, wr>>

\* Double check: it must be the same mask, and a clean one, or all is loaded again.
Recheck(r) ==
  /\ rd[r].pc = "again"
  /\ LET same == rd[r].seen = tagged /\ ~rd[r].seen.dirty
     IN rd' = [rd EXCEPT ![r] = [@ EXCEPT !.pc = IF same THEN "call" ELSE "retry"]]
  /\ UNCHANGED <<tagged, cb_f, user_arg, lock, wr>>
Retry(r) ==
  /\ rd[r].pc = "retry" /\ rd' = [rd EXCEPT ![r] = Load(rd[r].event)]
  /\ UNCHANGED <<tagged, cb_f, user_arg, lock, wr>>

\* cb_func_thread(), which may take its time.
Called(r) ==
  /\ rd[r].pc = "call" /\ rd' = [rd EXCEPT ![r] = [@ EXCEPT !.pc = "idle"]]
  /\ UNCHANGED <<tagged, cb_f, user_arg, lock, wr>>

Next == \/ \E w \in Writer : \/ ABT_tool_register_thread_callback(w) \/ Mark(w)
                             \/ SetCallback(w) \/ SetArgument(w) \/ update_callback(w)
        \/ \E r \in Reader : \/ \E e \in Event : ABTI_tool_event_thread(r, e)
                             \/ LoadCallback(r) \/ LoadArgument(r) \/ Recheck(r) \/ Retry(r)
                             \/ Called(r)

Spec == Init /\ [][Next]_vars

-----------------------------------------------------------------------------

\* A callback is called with the argument, and for an event, of its own
\* registration: never with those of the registration before or after, in whatever
\* order two threads register while an event reads (cases A and B of the comment).
CallbackWhole ==
  \A r \in Reader : rd[r].pc = "call" =>
    \E a \in Made : /\ a.cb_f = rd[r].cb_f /\ a.user_arg = rd[r].user_arg
                     /\ rd[r].event \in a.mask /\ a.cb_f # Null
=============================================================================
