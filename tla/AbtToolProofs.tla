--------------------------- MODULE AbtToolProofs ----------------------------
(***************************************************************************)
(* CallbackWhole holds of AbtTool for any threads, registrations and       *)
(* events.  The inductive invariant says what the tag is worth: a clean    *)
(* mask that an event has seen is the present one or has an older tag, and *)
(* while it is the present one nobody has touched the other two words.     *)
(***************************************************************************)
EXTENDS AbtTool, TLAPS

Tagged == [tag : Nat, dirty : BOOLEAN, mask : SUBSET Event]
InLock == {"cb_f", "user_arg", "clean"}
Read == {"cb_f", "user_arg", "again"}

Writing == [pc : {"idle", "lock"} \union InLock, todo : Seq(Made), new : Registration]
Reading == [pc : {"idle", "call", "retry"} \union Read, event : Event \union {Null},
            seen : Tagged, cb_f : Callback \union {Null}, user_arg : Argument]

Types ==
  /\ tagged \in Tagged /\ cb_f \in Callback \union {Null} /\ user_arg \in Argument
  /\ lock \in Writer \union {Null}
  /\ wr \in [Writer -> Writing] /\ rd \in [Reader -> Reading]

\* The three words are those of one registration.
Whole(f, m, u) == \E a \in Made \union {NoCall} :
                    f = a.cb_f /\ u = a.user_arg /\ m = Effective(a).mask

\* Who holds the lock, and how far the update is.
Locked == \A w \in Writer : wr[w].pc \in InLock <=> lock = w
Updating == /\ tagged.dirty <=> lock # Null
            /\ ~tagged.dirty => Whole(cb_f, tagged.mask, user_arg)
            /\ \A w \in Writer :
                 /\ wr[w].pc \in {"lock"} \union InLock =>
                      Whole(wr[w].new.cb_f, wr[w].new.mask, wr[w].new.user_arg)
                 /\ wr[w].pc \in {"user_arg", "clean"} => cb_f = wr[w].new.cb_f
                 /\ wr[w].pc = "clean" => user_arg = wr[w].new.user_arg

\* What an event has read so far.
Seen(r) ==
  LET x == rd[r]
  IN /\ x.seen.tag <= tagged.tag
     /\ ~x.seen.dirty => x.seen = tagged \/ x.seen.tag < tagged.tag
     /\ x.pc \in Read => x.event \in x.seen.mask
     /\ (~x.seen.dirty /\ x.seen = tagged) =>
          /\ x.pc \in {"user_arg", "again"} => x.cb_f = cb_f
          /\ x.pc = "again" => x.user_arg = user_arg
     /\ x.pc = "call" => \E m \in SUBSET Event : x.event \in m /\ Whole(x.cb_f, m, x.user_arg)

ToolInv == Types /\ Locked /\ Updating /\ \A r \in Reader : Seen(r)

-----------------------------------------------------------------------------

\* What a thread still has to register is of the registrations made.
LEMMA RegisterMade ==
  ASSUME NEW w \in Writer
  PROVE  Register[w] \in Seq(Made)
<1>1. Register[w] \in Seq(Registration)
  BY ToolAssumption
<1>2. \A i \in DOMAIN Register[w] : Register[w][i] \in Made
  BY DEF Made, Range
<1> QED
  BY <1>1, <1>2, SMT

\* What is ever registered is a registration.
LEMMA MadeTyped == Made \subseteq Registration
BY ToolAssumption, SMT DEF Made, Range

\* A mask that is marked for the events of a callback keeps the other two words.
LEMMA EffectiveWhole ==
  ASSUME NEW a \in Made
  PROVE  /\ Effective(a) \in Registration
         /\ Whole(Effective(a).cb_f, Effective(a).mask, Effective(a).user_arg)
<1>1. a \in Registration
  BY MadeTyped
<1>2. /\ Effective(a) \in Registration
      /\ Effective(a).cb_f = a.cb_f /\ Effective(a).user_arg = a.user_arg
  BY <1>1, SMT DEF Effective, Registration
<1> QED
  BY <1>2, Zenon DEF Whole

\* What an event loads first is a reader's record.
LEMMA LoadTyped ==
  ASSUME Types, NEW e \in Event \union {Null}
  PROVE  Load(e) \in Reading
<1>1. tagged \in Tagged /\ Null \in Argument
  BY ToolAssumption DEF Types
<1> QED
  BY <1>1, SMT DEF Load, Reading, Read

\* Setting one of a set of records of a given type.
LEMMA Updated ==
  ASSUME NEW D, NEW T, NEW f \in [D -> T], NEW d \in D, NEW t \in T
  PROVE  [f EXCEPT ![d] = t] \in [D -> T]
BY Zenon

\* Before anybody registers, the three words are those of no callback.
LEMMA NoCallWhole == Whole(Null, {}, Null)
<1>1. Effective(NoCall).mask = {} /\ NoCall.cb_f = Null /\ NoCall.user_arg = Null
  BY SMT DEF Effective, NoCall
<1> QED
  BY <1>1, Zenon DEF Whole

\* The invariant holds at the start.
LEMMA InitInv == Init => ToolInv
<1> SUFFICES ASSUME Init PROVE ToolInv
  OBVIOUS
<1>1. Types
  <2>1. NoCall \in Registration /\ NoMask \in Tagged
    BY ToolAssumption, SMT DEF NoCall, NoMask, Registration, Tagged
  <2>2. wr \in [Writer -> Writing]
    BY <2>1, RegisterMade, SMT DEF Init, Writing
  <2>3. rd \in [Reader -> Reading]
    BY <2>1, ToolAssumption, SMT DEF Init, Reading
  <2> QED
    BY <2>1, <2>2, <2>3, ToolAssumption, Zenon DEF Init, Types
<1>2. Locked
  BY ToolAssumption, SMT DEF Init, Locked, InLock
<1>3. Updating
  BY NoCallWhole, SMT DEF Init, Updating, InLock, NoMask
<1>4. ASSUME NEW r \in Reader PROVE Seen(r)
  <2>1. rd[r].pc = "idle" /\ rd[r].seen = NoMask /\ tagged = NoMask
    BY SMT DEF Init
  <2>2. NoMask.tag = 0
    BY DEF NoMask
  <2> QED
    BY <2>1, <2>2, SMT DEF Seen, Read
<1> QED
  BY <1>1, <1>2, <1>3, <1>4 DEF ToolInv

-----------------------------------------------------------------------------

\* A step of a writer changes no reader, and a step of a reader only its own record.
Writes(w) == \/ ABT_tool_register_thread_callback(w) \/ Mark(w)
             \/ SetCallback(w) \/ SetArgument(w) \/ update_callback(w)
Reads(r) == \/ \E e \in Event : ABTI_tool_event_thread(r, e)
            \/ LoadCallback(r) \/ LoadArgument(r) \/ Recheck(r) \/ Retry(r) \/ Called(r)

LEMMA TypesKept == ToolInv /\ [Next]_vars => Types'
<1> SUFFICES ASSUME ToolInv, [Next]_vars PROVE Types'
  OBVIOUS
<1>t. Types
  BY DEF ToolInv
<1>1. ASSUME NEW w \in Writer, ABT_tool_register_thread_callback(w) PROVE Types'
  <2>1. Head(wr[w].todo) \in Made /\ Tail(wr[w].todo) \in Seq(Made)
    BY <1>t, <1>1, SMT DEF Types, Writing, ABT_tool_register_thread_callback
  <2>2. Effective(Head(wr[w].todo)) \in Registration
    BY <2>1, EffectiveWhole
  <2>3. wr' \in [Writer -> Writing]
    BY <1>t, <1>1, <2>1, <2>2, SMT DEF Types, Writing, ABT_tool_register_thread_callback
  <2> QED
    BY <1>t, <1>1, <2>3, Zenon DEF Types, ABT_tool_register_thread_callback
<1>2. ASSUME NEW w \in Writer, Mark(w) PROVE Types'
  <2>1. [wr[w] EXCEPT !.pc = "cb_f"] \in Writing
    BY <1>t, SMT DEF Types, Writing, InLock
  <2>2. wr' \in [Writer -> Writing]
    BY <1>t, <1>2, <2>1, SMT DEF Types, Mark
  <2>3. tagged' \in Tagged
    BY <1>t, <1>2, SMT DEF Types, Mark, Tagged, Writing, Registration
  <2> QED
    BY <1>t, <1>2, <2>2, <2>3, Zenon DEF Types, Mark
<1>3. ASSUME NEW w \in Writer, SetCallback(w) PROVE Types'
  <2>1. [wr[w] EXCEPT !.pc = "user_arg"] \in Writing
    BY <1>t, SMT DEF Types, Writing, InLock
  <2>2. wr' \in [Writer -> Writing]
    BY <1>t, <1>3, <2>1, SMT DEF Types, SetCallback
  <2>3. cb_f' \in Callback \union {Null} /\ user_arg' \in Argument
    BY <1>t, <1>3, SMT DEF Types, SetCallback, Writing, Registration
  <2> QED
    BY <1>t, <1>3, <2>2, <2>3, Zenon DEF Types, SetCallback
<1>4. ASSUME NEW w \in Writer, SetArgument(w) PROVE Types'
  <2>1. [wr[w] EXCEPT !.pc = "clean"] \in Writing
    BY <1>t, SMT DEF Types, Writing, InLock
  <2>2. wr' \in [Writer -> Writing]
    BY <1>t, <1>4, <2>1, SMT DEF Types, SetArgument
  <2>3. cb_f' \in Callback \union {Null} /\ user_arg' \in Argument
    BY <1>t, <1>4, SMT DEF Types, SetArgument, Writing, Registration
  <2> QED
    BY <1>t, <1>4, <2>2, <2>3, Zenon DEF Types, SetArgument
<1>5. ASSUME NEW w \in Writer, update_callback(w) PROVE Types'
  <2>1. [wr[w] EXCEPT !.pc = "idle"] \in Writing
    BY <1>t, SMT DEF Types, Writing, InLock
  <2>2. wr' \in [Writer -> Writing]
    BY <1>t, <1>5, <2>1, SMT DEF Types, update_callback
  <2>3. tagged' \in Tagged
    BY <1>t, <1>5, SMT DEF Types, update_callback, Tagged, Writing, Registration
  <2> QED
    BY <1>t, <1>5, <2>2, <2>3, Zenon DEF Types, update_callback
<1>6. ASSUME NEW r \in Reader, NEW e \in Event, ABTI_tool_event_thread(r, e) PROVE Types'
  <2>1. Load(e) \in Reading
    BY <1>t, LoadTyped
  <2>2. rd' \in [Reader -> Reading]
    BY <1>t, <1>6, <2>1, Updated, Zenon DEF Types, ABTI_tool_event_thread
  <2> QED
    BY <1>t, <1>6, <2>2, Zenon DEF Types, ABTI_tool_event_thread
<1>7. ASSUME NEW r \in Reader, LoadCallback(r) PROVE Types'
  <2>1. [rd[r] EXCEPT !.pc = "user_arg"] \in Reading
    BY <1>t, SMT DEF Types, Reading, Read
  <2>2. \A x \in Reading : [x EXCEPT !.cb_f = cb_f] \in Reading
    BY <1>t, SMT DEF Types, Reading
  <2>3. rd' = [rd EXCEPT ![r] = [[rd[r] EXCEPT !.pc = "user_arg"] EXCEPT !.cb_f = cb_f]]
    BY <1>7, SMT DEF LoadCallback
  <2>4. rd' \in [Reader -> Reading]
    BY <1>t, <2>1, <2>2, <2>3, Updated, Zenon DEF Types
  <2> QED
    BY <1>t, <1>7, <2>4, Zenon DEF Types, LoadCallback
<1>8. ASSUME NEW r \in Reader, LoadArgument(r) PROVE Types'
  <2>1. [rd[r] EXCEPT !.pc = "again"] \in Reading
    BY <1>t, SMT DEF Types, Reading, Read
  <2>2. \A x \in Reading : [x EXCEPT !.user_arg = user_arg] \in Reading
    BY <1>t, SMT DEF Types, Reading
  <2>3. rd' = [rd EXCEPT ![r] = [[rd[r] EXCEPT !.pc = "again"] EXCEPT !.user_arg = user_arg]]
    BY <1>8, SMT DEF LoadArgument
  <2>4. rd' \in [Reader -> Reading]
    BY <1>t, <2>1, <2>2, <2>3, Updated, Zenon DEF Types
  <2> QED
    BY <1>t, <1>8, <2>4, Zenon DEF Types, LoadArgument
<1>9. ASSUME NEW r \in Reader, Recheck(r) PROVE Types'
  <2>1. LET same == rd[r].seen = tagged /\ ~rd[r].seen.dirty
        IN [rd[r] EXCEPT !.pc = IF same THEN "call" ELSE "retry"] \in Reading
    BY <1>t, SMT DEF Types, Reading, Read
  <2>2. rd' \in [Reader -> Reading]
    BY <1>t, <1>9, <2>1, Updated, Zenon DEF Types, Recheck
  <2> QED
    BY <1>t, <1>9, <2>2, Zenon DEF Types, Recheck
<1>10. ASSUME NEW r \in Reader, Retry(r) PROVE Types'
  <2>1. Load(rd[r].event) \in Reading
    BY <1>t, LoadTyped, SMT DEF Types, Reading
  <2>2. rd' \in [Reader -> Reading]
    BY <1>t, <1>10, <2>1, Updated, Zenon DEF Types, Retry
  <2> QED
    BY <1>t, <1>10, <2>2, Zenon DEF Types, Retry
<1>11. ASSUME NEW r \in Reader, Called(r) PROVE Types'
  <2>1. [rd[r] EXCEPT !.pc = "idle"] \in Reading
    BY <1>t, SMT DEF Types, Reading, Read
  <2>2. rd' \in [Reader -> Reading]
    BY <1>t, <1>11, <2>1, Updated, Zenon DEF Types, Called
  <2> QED
    BY <1>t, <1>11, <2>2, Zenon DEF Types, Called
<1>12. CASE UNCHANGED vars
  BY <1>t, <1>12 DEF Types, vars
<1> QED
  BY <1>1, <1>2, <1>3, <1>4, <1>5, <1>6, <1>7, <1>8, <1>9, <1>10, <1>11, <1>12 DEF Next

\* The writers exclude each other, and the words they write are a registration's.
LEMMA WritersKept == ToolInv /\ [Next]_vars => Locked' /\ Updating'
<1> SUFFICES ASSUME ToolInv, [Next]_vars PROVE Locked' /\ Updating'
  OBVIOUS
<1>t. Types /\ Locked /\ Updating
  BY DEF ToolInv
<1>1. ASSUME NEW w \in Writer, ABT_tool_register_thread_callback(w)
      PROVE  Locked' /\ Updating'
  <2>1. Head(wr[w].todo) \in Made
    BY <1>t, <1>1, SMT DEF Types, Writing, ABT_tool_register_thread_callback
  <2>2. Whole(wr'[w].new.cb_f, wr'[w].new.mask, wr'[w].new.user_arg)
    BY <1>t, <1>1, <2>1, EffectiveWhole, SMT DEF Types, Writing, ABT_tool_register_thread_callback
  <2>3. /\ wr[w].pc = "idle" /\ wr'[w].pc = "lock"
        /\ \A v \in Writer : v # w => wr'[v] = wr[v]
        /\ UNCHANGED <<tagged, cb_f, user_arg, lock>>
    BY <1>t, <1>1, SMT DEF Types, Writing, ABT_tool_register_thread_callback
  <2>4. Locked'
    BY <1>t, <2>3, SMT DEF Locked, InLock
  <2> QED
    BY <1>t, <2>2, <2>3, <2>4, SMT DEF Updating, InLock
<1>2. ASSUME NEW w \in Writer, Mark(w) PROVE Locked' /\ Updating'
  <2>1. /\ wr[w].pc = "lock" /\ wr'[w].pc = "cb_f" /\ wr'[w].new = wr[w].new
        /\ \A v \in Writer : v # w => wr'[v] = wr[v]
        /\ lock = Null /\ lock' = w /\ tagged'.dirty = TRUE
        /\ UNCHANGED <<cb_f, user_arg>>
    BY <1>t, <1>2, SMT DEF Types, Writing, Mark
  <2>2. \A v \in Writer : wr[v].pc \notin InLock
    BY <1>t, <2>1, ToolAssumption DEF Locked
  <2>3. wr'[w].pc \in InLock /\ \A v \in Writer : v # w => wr'[v].pc \notin InLock
    BY <2>1, <2>2 DEF InLock
  <2>4. Locked'
    BY <2>1, <2>3, Zenon DEF Locked
  <2>5. tagged'.dirty <=> lock' # Null
    BY <2>1, ToolAssumption
  <2> QED
    BY <1>t, <2>1, <2>2, <2>4, <2>5, SMT DEF Updating, InLock
<1>3. ASSUME NEW w \in Writer, SetCallback(w) \/ SetArgument(w)
      PROVE  Locked' /\ Updating'
  <2>1. /\ wr[w].pc \in {"cb_f", "user_arg"} /\ wr'[w].new = wr[w].new
        /\ \A v \in Writer : v # w => wr'[v] = wr[v]
        /\ UNCHANGED <<lock, tagged>>
        /\ \/ wr[w].pc = "cb_f" /\ wr'[w].pc = "user_arg" /\ cb_f' = wr[w].new.cb_f
           \/ /\ wr[w].pc = "user_arg" /\ wr'[w].pc = "clean"
              /\ user_arg' = wr[w].new.user_arg /\ cb_f' = cb_f
    BY <1>t, <1>3, SMT DEF Types, Writing, SetCallback, SetArgument
  <2>2. lock = w /\ tagged.dirty
    BY <1>t, <2>1, ToolAssumption, SMT DEF Locked, Updating, InLock
  <2>3. Locked'
    BY <1>t, <2>1, <2>2, SMT DEF Locked, InLock
  <2> QED
    BY <1>t, <2>1, <2>2, <2>3, SMT DEF Locked, Updating, InLock
<1>4. ASSUME NEW w \in Writer, update_callback(w) PROVE Locked' /\ Updating'
  <2>1. /\ wr[w].pc = "clean" /\ wr'[w].pc = "idle"
        /\ \A v \in Writer : v # w => wr'[v] = wr[v]
        /\ lock' = Null /\ tagged'.dirty = FALSE /\ tagged'.mask = wr[w].new.mask
        /\ UNCHANGED <<cb_f, user_arg>>
    BY <1>t, <1>4, SMT DEF Types, Writing, update_callback
  <2>2. lock = w /\ Whole(cb_f, wr[w].new.mask, user_arg)
    BY <1>t, <2>1, SMT DEF Locked, Updating, InLock
  <2>3. Locked'
    BY <1>t, <2>1, <2>2, ToolAssumption, SMT DEF Locked, InLock
  <2> QED
    BY <1>t, <2>1, <2>2, <2>3, SMT DEF Locked, Updating, InLock
<1>5. ASSUME NEW r \in Reader, Reads(r) PROVE Locked' /\ Updating'
  <2>1. UNCHANGED <<tagged, cb_f, user_arg, lock, wr>>
    BY <1>5 DEF Reads, ABTI_tool_event_thread, LoadCallback, LoadArgument, Recheck,
                Retry, Called
  <2> QED
    BY <1>t, <2>1 DEF Locked, Updating
<1>6. CASE UNCHANGED vars
  BY <1>t, <1>6 DEF Locked, Updating, vars
<1> QED
  BY <1>1, <1>2, <1>3, <1>4, <1>5, <1>6 DEF Next, Reads

\* What an event has read stays true while writers go on, and it calls only a whole
\* registration.
LEMMA ReadersKept == ToolInv /\ [Next]_vars => \A r \in Reader : Seen(r)'
<1> SUFFICES ASSUME ToolInv, [Next]_vars, NEW r \in Reader PROVE Seen(r)'
  OBVIOUS
<1>t. Types /\ Locked /\ Updating /\ Seen(r)
  BY DEF ToolInv
<1>r. /\ rd[r].seen \in Tagged /\ rd[r].seen.tag \in Nat /\ rd[r].seen.dirty \in BOOLEAN
      /\ tagged.tag \in Nat /\ tagged.dirty \in BOOLEAN
  BY <1>t, SMT DEF Types, Reading, Tagged
<1>1. ASSUME NEW w \in Writer, ABT_tool_register_thread_callback(w) PROVE Seen(r)'
  BY <1>t, <1>1 DEF Seen, ABT_tool_register_thread_callback
<1>2. ASSUME NEW w \in Writer, Mark(w) PROVE Seen(r)'
  <2>1. tagged'.tag = tagged.tag + 1 /\ rd' = rd
    BY <1>2, SMT DEF Mark
  <2> QED
    BY <1>t, <1>r, <2>1, SMT DEF Seen
<1>3. ASSUME NEW w \in Writer, SetCallback(w) \/ SetArgument(w) PROVE Seen(r)'
  <2>1. tagged.dirty
    BY <1>t, <1>3, ToolAssumption, SMT DEF Locked, Updating, InLock, SetCallback, SetArgument
  <2>2. UNCHANGED <<tagged, rd>>
    BY <1>3 DEF SetCallback, SetArgument
  <2> QED
    BY <1>t, <2>1, <2>2, SMT DEF Seen
<1>4. ASSUME NEW w \in Writer, update_callback(w) PROVE Seen(r)'
  <2>1. tagged.dirty
    BY <1>t, <1>4, ToolAssumption, SMT DEF Locked, Updating, InLock, update_callback
  <2>2. tagged'.tag = tagged.tag /\ tagged'.dirty = FALSE /\ rd' = rd
    BY <1>4, SMT DEF update_callback
  <2>3. ~rd[r].seen.dirty => rd[r].seen.tag < tagged.tag
    BY <1>t, <2>1, SMT DEF Seen
  <2> QED
    BY <1>t, <1>r, <2>2, <2>3, SMT DEF Seen
<1>5. ASSUME NEW q \in Reader, Reads(q), q # r PROVE Seen(r)'
  <2>1. rd'[r] = rd[r]
    <3>1. CASE \E e \in Event : ABTI_tool_event_thread(q, e)
      BY <1>t, <1>5, <3>1, SMT DEF Types, ABTI_tool_event_thread
    <3>2. CASE LoadCallback(q) \/ LoadArgument(q)
      BY <1>t, <1>5, <3>2, SMT DEF Types, LoadCallback, LoadArgument
    <3>3. CASE Recheck(q) \/ Retry(q) \/ Called(q)
      BY <1>t, <1>5, <3>3, SMT DEF Types, Recheck, Retry, Called
    <3> QED
      BY <1>5, <3>1, <3>2, <3>3 DEF Reads
  <2>2. UNCHANGED <<tagged, cb_f, user_arg>>
    BY <1>5 DEF Reads, ABTI_tool_event_thread, LoadCallback, LoadArgument, Recheck,
                Retry, Called
  <2> QED
    BY <1>t, <2>1, <2>2 DEF Seen
<1>6. ASSUME NEW e \in Event, ABTI_tool_event_thread(r, e) PROVE Seen(r)'
  <2>1. /\ rd'[r].pc = IF e \in tagged.mask THEN "cb_f" ELSE "idle"
        /\ rd'[r].event = e /\ rd'[r].seen = tagged /\ tagged' = tagged
    BY <1>t, <1>6, SMT DEF Types, Load, ABTI_tool_event_thread
  <2> QED
    BY <1>r, <2>1, SMT DEF Seen, Read
<1>7. CASE LoadCallback(r)
  <2>1. /\ rd[r].pc = "cb_f" /\ rd'[r].pc = "user_arg" /\ rd'[r].event = rd[r].event
        /\ rd'[r].seen = rd[r].seen /\ rd'[r].cb_f = cb_f
        /\ UNCHANGED <<tagged, cb_f, user_arg>>
    BY <1>t, <1>7, SMT DEF Types, Reading, LoadCallback
  <2> QED
    BY <1>t, <2>1, SMT DEF Seen, Read
<1>8. CASE LoadArgument(r)
  <2>1. /\ rd[r].pc = "user_arg" /\ rd'[r].pc = "again" /\ rd'[r].event = rd[r].event
        /\ rd'[r].seen = rd[r].seen /\ rd'[r].cb_f = rd[r].cb_f
        /\ rd'[r].user_arg = user_arg /\ UNCHANGED <<tagged, cb_f, user_arg>>
    BY <1>t, <1>8, SMT DEF Types, Reading, LoadArgument
  <2> QED
    BY <1>t, <2>1, SMT DEF Seen, Read
<1>9. CASE Recheck(r)
  <2>1. /\ rd[r].pc = "again" /\ rd'[r].event = rd[r].event /\ rd'[r].seen = rd[r].seen
        /\ rd'[r].cb_f = rd[r].cb_f /\ rd'[r].user_arg = rd[r].user_arg
        /\ rd'[r].pc = IF rd[r].seen = tagged /\ ~rd[r].seen.dirty THEN "call" ELSE "retry"
        /\ UNCHANGED <<tagged, cb_f, user_arg>>
    BY <1>t, <1>9, SMT DEF Types, Reading, Recheck
  <2>2. CASE rd[r].seen = tagged /\ ~rd[r].seen.dirty
    <3>1. /\ rd[r].cb_f = cb_f /\ rd[r].user_arg = user_arg
          /\ rd[r].event \in tagged.mask
      BY <1>t, <2>1, <2>2, SMT DEF Seen, Read
    <3>2. Whole(cb_f, tagged.mask, user_arg) /\ tagged.mask \in SUBSET Event
      BY <1>t, <2>2, SMT DEF Updating, Types, Tagged
    <3>3. \E m \in SUBSET Event :
            rd'[r].event \in m /\ Whole(rd'[r].cb_f, m, rd'[r].user_arg)
      BY <2>1, <3>1, <3>2
    <3> QED
      BY <1>t, <2>1, <2>2, <3>3, SMT DEF Seen, Read
  <2>3. CASE ~(rd[r].seen = tagged /\ ~rd[r].seen.dirty)
    BY <1>t, <2>1, <2>3, SMT DEF Seen, Read
  <2> QED
    BY <2>2, <2>3
<1>10. CASE Retry(r)
  <2>1. /\ rd'[r].pc = IF rd[r].event \in tagged.mask THEN "cb_f" ELSE "idle"
        /\ rd'[r].event = rd[r].event /\ rd'[r].seen = tagged /\ tagged' = tagged
    BY <1>t, <1>10, SMT DEF Types, Load, Retry
  <2> QED
    BY <1>r, <2>1, SMT DEF Seen, Read
<1>11. CASE Called(r)
  <2>1. /\ rd'[r].pc = "idle" /\ rd'[r].seen = rd[r].seen /\ UNCHANGED tagged
    BY <1>t, <1>11, SMT DEF Types, Reading, Called
  <2> QED
    BY <1>t, <2>1, SMT DEF Seen, Read
<1>12. CASE UNCHANGED vars
  BY <1>t, <1>12 DEF Seen, vars
<1> QED
  BY <1>1, <1>2, <1>3, <1>4, <1>5, <1>6, <1>7, <1>8, <1>9, <1>10, <1>11, <1>12
     DEF Next, Reads

\* ToolInv is an invariant: the words that a clean mask covers are those of one
\* registration, and an event that saw it twice read no others.
THEOREM ToolInvariant == Spec => []ToolInv
<1>1. ToolInv /\ [Next]_vars => ToolInv'
  BY TypesKept, WritersKept, ReadersKept DEF ToolInv
<1> QED
  BY InitInv, <1>1, PTL DEF Spec

\* A callback is called with the argument, and for an event, of its own registration,
\* however many threads register in the meantime (ABTI_tool_event_thread() against
\* ABTI_tool_event_thread_update_callback()).
THEOREM CallbackWholeCorrect == Spec => []CallbackWhole
<1>1. ToolInv => CallbackWhole
  <2> SUFFICES ASSUME ToolInv, NEW r \in Reader, rd[r].pc = "call"
               PROVE  \E a \in Made : /\ a.cb_f = rd[r].cb_f /\ a.user_arg = rd[r].user_arg
                                      /\ rd[r].event \in a.mask /\ a.cb_f # Null
    BY DEF CallbackWhole
  <2>1. PICK m \in SUBSET Event : rd[r].event \in m /\ Whole(rd[r].cb_f, m, rd[r].user_arg)
    BY DEF ToolInv, Seen
  <2>2. PICK a \in Made \union {NoCall} : /\ rd[r].cb_f = a.cb_f /\ rd[r].user_arg = a.user_arg
                                          /\ m = Effective(a).mask
    BY <2>1 DEF Whole
  <2>3. a \in Registration
    BY MadeTyped, ToolAssumption, SMT DEF NoCall, Registration
  <2>4. a.cb_f # Null /\ rd[r].event \in a.mask
    BY <2>1, <2>2, <2>3, SMT DEF Effective, Registration
  <2>5. a # NoCall
    BY <2>4, SMT DEF NoCall
  <2> QED
    BY <2>2, <2>4, <2>5
<1> QED
  BY ToolInvariant, <1>1, PTL
=============================================================================
