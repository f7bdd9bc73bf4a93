------------------------------ MODULE AbtProf -------------------------------
(***************************************************************************)
(* The profiler examples/profiling/abtx_prof.h: a callback of the tool     *)
(* interface that every execution stream and external thread runs for each *)
(* event of a work unit, and the calls that start, stop, print, clean and  *)
(* finalize.  A stream keeps its own counters (an xstream_info, found by   *)
(* rank in an array that grows while others read it) and a pool of         *)
(* thread_infos, which work units carry from stream to stream.  Nothing    *)
(* but the array and the list of xstream_infos is locked: the counters are *)
(* made consistent by a tag that is odd while a callback changes them, and *)
(* thread_infos of an earlier period are told by their owner.              *)
(*                                                                         *)
(* Work units here run at depth 1, below the main schedulers, whose own    *)
(* events (depth 0) are not part of the workload.                          *)
(***************************************************************************)
EXTENDS Integers, Sequences, FiniteSets, FiniteSetsExt

CONSTANTS Rank,         \* ranks of the streams
          External,     \* external threads
          Unit,         \* work units
          Null,
          DEFAULT_NUM_XSTREAMS,
          BlockInfos,   \* thread_infos in a memory block
          Plans         \* what the program does: records [actors, calls, events, work,
                        \* time], see Init

VARIABLES plan,     \* what is left of the program's plan
          work,     \* unit -> its state
          now,      \* ABTXI_prof_get_time(); 0 is ABTXI_PROF_T_ZERO
          tool,     \* the registered callback: "none", "basic" or "detailed"
          g,        \* [state, start, stop] of ABTXI_prof_global
          lock,     \* holder of xstreams_lock
          arr,      \* [len, cur, mem]: len_p_xstreams, p_xstreams, mem_p_xstreams
          xs,       \* the xstream_infos, in the order of their creation
          own,      \* external thread -> its xstream_info (pthread_getspecific)
          th,       \* the thread_infos
          spec,     \* unit -> its thread_info (ABT_thread_get_specific)
          cb,       \* stream or external thread -> its callback
          print,    \* the thread that prints
          raced     \* data was reset or freed under a callback

vars == <<plan, work, now, tool, g, lock, arr, xs, own, th, spec, cb, print, raced>>

Actor == Rank \cup External
Events == {"CREATE", "JOIN", "FREE", "REVIVE", "RUN", "FINISH", "CANCEL", "YIELD",
           "SUSPEND", "RESUME"}
MAX_DEPTH == 2
Depth == 0 .. MAX_DEPTH - 1
STACK_DEPTH == 1
INVALID == -1
WuTime == {"ELAPSED", "CREATE_FIRST_RUN", "FIRST_RUN_LAST_FINISH", "CREATE_LAST_FINISH",
           "CREATE_FREE"}
WuCount == {"REVIVALS", "YIELDS", "SUSPENSIONS", "XSTREAM_CHANGES"}

-----------------------------------------------------------------------------
(* Statistics.                                                               *)

ZeroStat == [max |-> 0, min |-> 0, sum |-> 0, cnt |-> 0]

\* ABTXI_prof_wu_time_add(), ABTXI_prof_wu_count_add()
wu_add(w, v) == [max |-> IF w.cnt = 0 \/ w.max < v THEN v ELSE w.max,
                 min |-> IF w.cnt = 0 \/ w.min > v THEN v ELSE w.min,
                 sum |-> w.sum + v, cnt |-> w.cnt + 1]

\* ABTXI_prof_wu_time_merge(), ABTXI_prof_wu_count_merge()
wu_merge(d, s) == [max |-> IF d.cnt = 0 \/ (s.cnt # 0 /\ d.max < s.max) THEN s.max ELSE d.max,
                   min |-> IF d.cnt = 0 \/ (s.cnt # 0 /\ d.min > s.min) THEN s.min ELSE d.min,
                   sum |-> d.sum + s.sum, cnt |-> d.cnt + s.cnt]

ZeroThread == [owner |-> Null, n |-> [c \in WuCount |-> 0], created |-> 0, first_run |-> 0,
               last_run |-> 0, last_finish |-> 0, elapsed |-> 0, prev_xstream |-> Null]
ZeroData == [cur_depth |-> 0, num_events |-> [e \in Events |-> 0],
             times_last_run |-> [d \in Depth |-> 0], times_elapsed |-> [d \in Depth |-> 0],
             wu_times |-> [w \in WuTime |-> ZeroStat], wu_counts |-> [c \in WuCount |-> ZeroStat]]

\* The statistics x of a stream with those of a unit's data d.  A time that has
\* not been taken is ZERO and not counted.
merge_thread_data(x, d, freed) ==
  LET took(a, b) == IF a # 0 /\ b # 0 THEN {b - a} ELSE {}
      times == [ELAPSED |-> {d.elapsed} \ {0},
                CREATE_FIRST_RUN |-> took(d.created, d.first_run),
                FIRST_RUN_LAST_FINISH |-> took(d.first_run, d.last_finish),
                CREATE_LAST_FINISH |-> took(d.created, d.last_finish),
                CREATE_FREE |-> took(d.created, freed)]
  IN [x EXCEPT !.wu_counts = [c \in WuCount |-> wu_add(@[c], d.n[c])],
               !.wu_times = [w \in WuTime |->
                  IF times[w] = {} THEN @[w] ELSE wu_add(@[w], CHOOSE v \in times[w] : TRUE)]]

-----------------------------------------------------------------------------
(* The workload: units are created, run on streams and end.                  *)

\* The state of a unit, and the stream it is on.
State(st) == [st |-> st, on |-> Null]
Running(s) == [st |-> "running", on |-> s]

Idle == [pc |-> "idle", ev |-> Null, unit |-> Null, mode |-> Null, x |-> 0]
On(s) == {u \in Unit : work[u] = Running(s)}
\* Multiple events are not invoked for the same unit at once.
Quiet(u) == \A s \in Actor : cb[s].unit # u

\* What unit u must be for s to see event e of it, and what it is afterwards.
Before(e, s, u) ==
  CASE e = "CREATE" -> work[u].st = "none"
    [] e = "RUN" -> s \in Rank /\ On(s) = {} /\ work[u].st = "ready"
    [] e \in {"FINISH", "YIELD", "SUSPEND"} -> work[u] = Running(s)
    [] e = "CANCEL" -> s \in Rank /\ On(s) = {} /\ work[u].st = "ready"
    [] e = "RESUME" -> work[u].st = "blocked"
    [] e \in {"JOIN", "FREE", "REVIVE"} -> work[u].st = "terminated"
After(e, s, u) ==
  CASE e \in {"CREATE", "YIELD", "RESUME", "REVIVE"} -> State("ready")
    [] e = "RUN" -> Running(s)
    [] e \in {"FINISH", "CANCEL", "JOIN"} -> State("terminated")
    [] e = "SUSPEND" -> State("blocked")
    [] e = "FREE" -> State("none")

-----------------------------------------------------------------------------
(* The callback.                                                             *)

Keep == UNCHANGED <<plan, work, now, tool, g, print, raced>>
Goto(s, pc) == cb' = [cb EXCEPT ![s].pc = pc]

\* An event: seen by the callback registered at that moment, or by none.  (The
\* array at least doubles, so ranks are taken to come within its reach.)
ABTI_tool_event_thread(s, e, u) ==
  /\ plan.n > 0 /\ cb[s].pc = "idle" /\ Quiet(u) /\ Before(e, s, u)
  /\ s \in Rank => s < DEFAULT_NUM_XSTREAMS \/ s < 2 * arr.len
  /\ plan' = [plan EXCEPT !.n = @ - 1]
  /\ IF tool = "none"
     THEN work' = [work EXCEPT ![u] = After(e, s, u)] /\ UNCHANGED cb
     ELSE /\ cb' = [cb EXCEPT ![s] = [pc |-> "find", ev |-> e, unit |-> u, mode |-> tool, x |-> 0]]
          /\ UNCHANGED work
  \* the key table of a unit goes with it
  /\ spec' = IF tool = "none" /\ e = "FREE" THEN [spec EXCEPT ![u] = Null] ELSE spec
  /\ UNCHANGED <<now, tool, g, lock, arr, xs, own, th, print, raced>>

\* ABTXI_prof_get_xstream_info(): an external thread looks at its own key, a stream
\* at the length of the array ...
get_xstream_info(s) ==
  /\ cb[s].pc = "find"
  /\ IF s \in External
     THEN IF own[s] # 0 THEN cb' = [cb EXCEPT ![s].pc = "enter", ![s].x = own[s]]
          ELSE Goto(s, "publish")
     ELSE Goto(s, IF arr.len <= s THEN "extend" ELSE "slot")
  /\ Keep /\ UNCHANGED <<lock, arr, xs, own, th, spec>>

\* ... which it extends, without synchronizing readers, unless another has ...
Extend(s) ==
  /\ cb[s].pc = "extend" /\ lock = Null
  /\ IF arr.len <= s
     THEN LET n == Max({DEFAULT_NUM_XSTREAMS, 2 * arr.len})
              new == [r \in 0 .. n - 1 |-> IF r < arr.len THEN arr.mem[arr.cur][r] ELSE 0]
          IN /\ lock' = s /\ Goto(s, "extended")
             /\ arr' = [arr EXCEPT !.mem = Append(@, new), !.cur = Len(arr.mem) + 1]
     ELSE Goto(s, "slot") /\ UNCHANGED <<lock, arr>>
  /\ Keep /\ UNCHANGED <<xs, own, th, spec>>
Extended(s) ==
  /\ cb[s].pc = "extended" /\ Goto(s, "slot") /\ lock' = Null
  /\ arr' = [arr EXCEPT !.len = Cardinality(DOMAIN arr.mem[arr.cur])]
  /\ Keep /\ UNCHANGED <<xs, own, th, spec>>

\* ... then at its slot.
Slot(s) ==
  /\ cb[s].pc = "slot"
  /\ LET x == arr.mem[arr.cur][s]
     IN IF x # 0 THEN cb' = [cb EXCEPT ![s].pc = "enter", ![s].x = x] ELSE Goto(s, "publish")
  /\ Keep /\ UNCHANGED <<lock, arr, xs, own, th, spec>>

\* The first event of s: its xstream_info is made and published.
init_xstream_info(s) ==
  [rank |-> IF s \in Rank THEN s ELSE -1, tag |-> 0, d |-> ZeroData,
   p_thread_all |-> <<>>, p_thread_unused |-> <<>>]
Publish(s) ==
  LET x == Len(xs) + 1
  IN /\ cb[s].pc = "publish" /\ lock = Null
     /\ xs' = Append(xs, init_xstream_info(s))
     /\ IF s \in External THEN own' = [own EXCEPT ![s] = x] /\ UNCHANGED arr
        ELSE arr' = [arr EXCEPT !.mem[arr.cur][s] = x] /\ UNCHANGED own
     /\ cb' = [cb EXCEPT ![s].pc = "enter", ![s].x = x]
     /\ Keep /\ UNCHANGED <<lock, th, spec>>

\* Mutant: the counters change while the tag says that they do not.
MutEnter(s) ==
  /\ cb[s].pc = "enter" /\ Goto(s, "count")
  /\ Keep /\ UNCHANGED <<lock, arr, xs, own, th, spec>>

\* Enter the dirty phase.
Enter(s) ==
  /\ cb[s].pc = "enter" /\ Goto(s, "count")
  /\ xs' = [xs EXCEPT ![cb[s].x].tag = @ + 1]
  /\ Keep /\ UNCHANGED <<lock, arr, own, th, spec>>

\* A memory block full of new thread_infos, the last of them first.
alloc_thread_info(x) ==
  LET new == [i \in 1 .. BlockInfos |-> Len(th) + BlockInfos + 1 - i]
  IN [x EXCEPT !.p_thread_all = new \o @, !.p_thread_unused = new \o @]

\* ABTXI_prof_get_thread_info(): the one the unit has, unless a restart gave it to
\* another, or the first unused.  The counter of the event is incremented.
get_thread_info(s) ==
  LET c == cb[s] u == c.unit x == xs[c.x]
      mine == spec[u] # Null /\ th[spec[u]].owner = u
      from == IF x.p_thread_unused = <<>> THEN alloc_thread_info(x) ELSE x
      t == Head(from.p_thread_unused)
      more == IF x.p_thread_unused = <<>> THEN th \o [i \in 1 .. BlockInfos |-> ZeroThread] ELSE th
      left_ == [from EXCEPT !.p_thread_unused = Tail(@)]
      y == IF c.mode = "basic" \/ mine THEN x ELSE left_
  IN /\ c.pc = "count" /\ Goto(s, "body")
     /\ xs' = [xs EXCEPT ![c.x] = [y EXCEPT !.d.num_events[c.ev] = @ + 1]]
     /\ IF c.mode = "basic" \/ mine THEN UNCHANGED <<th, spec>>
        ELSE /\ th' = [more EXCEPT ![t].owner = u]
             /\ spec' = [spec EXCEPT ![u] = t]
     /\ Keep /\ UNCHANGED <<lock, arr, own>>

\* ABTXI_prof_xstream_info_get_depth_thread(): cur_depth is the depth plus one.
get_depth_thread(d, force) == IF force \/ d.cur_depth = 0 THEN STACK_DEPTH + 1 ELSE d.cur_depth

\* The unit begins to run ...
Ran(d) ==
  LET k == get_depth_thread(d, TRUE)
  IN [d EXCEPT !.cur_depth = k, !.times_last_run = [i \in Depth |-> IF i = k - 1 THEN now ELSE @[i]]]
\* ... and stops: its time is added to that of its depth.
Since(t) == now - IF t = 0 THEN g.start ELSE t
Left(d) ==
  LET k == get_depth_thread(d, FALSE)
      at == k - 1
  IN [d EXCEPT !.cur_depth = k,
               !.times_elapsed = [i \in Depth |-> IF i = at THEN @[i] + Since(d.times_last_run[i]) ELSE @[i]],
               !.times_last_run = [i \in Depth |-> IF i = at THEN INVALID ELSE @[i]]]

\* The thread_info i of a unit that runs on s, or leaves it.
RanOn(i, s) == [i EXCEPT !.first_run = IF @ = 0 THEN now ELSE @, !.last_run = now,
                         !.n["XSTREAM_CHANGES"] = IF i.prev_xstream # s THEN @ + 1 ELSE @,
                         !.prev_xstream = s]
LeftFrom(i) == [i EXCEPT !.elapsed = @ + Since(i.last_run),
                         !.last_run = IF @ = 0 THEN g.start ELSE @]

\* The part of the callback that depends on the event: the stream's data ...
OnStream(d, e) == CASE e = "RUN" -> Ran(d)
                    [] e \in {"FINISH", "YIELD", "SUSPEND"} -> Left(d)
                    [] OTHER -> d
\* ... and, in detailed mode, the unit's.
OnUnit(i, e, s) == CASE e = "CREATE" -> [i EXCEPT !.created = now]
                     [] e = "REVIVE" -> [i EXCEPT !.n["REVIVALS"] = @ + 1]
                     [] e = "RUN" -> RanOn(i, s)
                     [] e = "FINISH" -> [LeftFrom(i) EXCEPT !.last_finish = now]
                     [] e = "YIELD" -> [LeftFrom(i) EXCEPT !.n["YIELDS"] = @ + 1]
                     [] e = "SUSPEND" -> [LeftFrom(i) EXCEPT !.n["SUSPENSIONS"] = @ + 1]
                     [] OTHER -> i

\* Merged with the statistics, cleared, and returned to the pool of the stream that
\* frees the unit, wherever it came from.
release_thread_info(x, t) ==
  [x EXCEPT !.d = merge_thread_data(@, th[t], now), !.p_thread_unused = <<t>> \o @]

thread_callback_impl(s) ==
  LET c == cb[s] x == xs[c.x] t == spec[c.unit]
      y == [x EXCEPT !.d = OnStream(@, c.ev)]
  IN /\ c.pc = "body" /\ Goto(s, "leave")
     /\ IF c.mode = "basic" THEN xs' = [xs EXCEPT ![c.x] = y] /\ UNCHANGED th
        ELSE IF c.ev = "FREE"
        THEN xs' = [xs EXCEPT ![c.x] = release_thread_info(y, t)] /\ th' = [th EXCEPT ![t] = ZeroThread]
        ELSE xs' = [xs EXCEPT ![c.x] = y] /\ th' = [th EXCEPT ![t] = OnUnit(@, c.ev, s)]
     /\ Keep /\ UNCHANGED <<lock, arr, own, spec>>

\* Enter the clean phase; the unit goes on.
Leave(s) ==
  LET c == cb[s]
  IN /\ c.pc = "leave" /\ cb' = [cb EXCEPT ![s] = Idle]
     /\ xs' = [xs EXCEPT ![c.x].tag = @ + 1]
     /\ work' = [work EXCEPT ![c.unit] = After(c.ev, s, c.unit)]
     /\ spec' = IF c.ev = "FREE" THEN [spec EXCEPT ![c.unit] = Null] ELSE spec
     /\ UNCHANGED <<plan, now, tool, g, lock, arr, own, th, print, raced>>

-----------------------------------------------------------------------------
(* The calls.                                                                *)

InFlight == \E s \in Actor : cb[s].pc # "idle"
\* The next call of the plan is c; in another state than these it is refused.
Call(c, from) ==
  /\ plan.calls # <<>> /\ Head(plan.calls) = c /\ print.pc = "idle" /\ g.state \in from
  /\ plan' = [plan EXCEPT !.calls = Tail(@)]

\* ABTXI_prof_reset_xstream_info() and ABTXI_prof_reset_thread_info(), for all: the
\* unused thread_infos are those that the stream allocated.
reset_xstream_info == /\ xs' = [x \in DOMAIN xs |-> [xs[x] EXCEPT !.d = ZeroData,
                                                       !.p_thread_unused = xs[x].p_thread_all]]
                      /\ th' = [t \in DOMAIN th |-> ZeroThread]
                      /\ raced' = (raced \/ InFlight)

ABTX_prof_start(mode) ==
  /\ Call(mode, {"CLEAN", "STOPPED"})
  /\ IF g.state = "STOPPED" THEN reset_xstream_info ELSE UNCHANGED <<xs, th, raced>>
  /\ g' = [g EXCEPT !.state = "RUNNING", !.start = now]
  /\ tool' = mode
  /\ UNCHANGED <<work, now, lock, arr, own, spec, cb, print>>

ABTX_prof_stop ==
  /\ Call("stop", {"RUNNING"})
  /\ tool' = "none" /\ g' = [g EXCEPT !.state = "STOPPED", !.stop = now]
  /\ UNCHANGED <<work, now, lock, arr, xs, own, th, spec, cb, print, raced>>

ABTX_prof_clean ==
  /\ Call("clean", {"STOPPED"}) /\ reset_xstream_info
  /\ g' = [g EXCEPT !.state = "CLEAN"]
  /\ UNCHANGED <<work, now, tool, lock, arr, own, spec, cb, print>>

\* Everything is freed; a callback would use it.
ABTX_prof_finalize ==
  /\ Call("finalize", {"CLEAN", "STOPPED"})
  /\ g' = [g EXCEPT !.state = "FREED"] /\ raced' = (raced \/ InFlight)
  /\ xs' = <<>> /\ th' = <<>> /\ arr' = [len |-> 0, cur |-> 0, mem |-> <<>>]
  /\ spec' = [u \in Unit |-> Null] /\ own' = [s \in External |-> 0]
  /\ UNCHANGED <<work, now, tool, lock, cb, print>>

\* ABTXI_prof_merge_xstream_info(): the data of the thread_infos that stream x
\* allocated and its own.  p_out is a summary that was cleared, so its cur_depth is
\* 0, and it is always the first case of the adjustment that applies.
merge_xstream_info(x) ==
  LET i == xs[x]
      k == Len(i.p_thread_all)
      f[j \in 0 .. k] == IF j = 0 THEN ZeroData
                         ELSE merge_thread_data(f[j - 1], th[i.p_thread_all[j]], 0)
      out == f[k]
  IN [out EXCEPT
        !.num_events = i.d.num_events, !.times_last_run = i.d.times_last_run,
        !.times_elapsed = [d \in Depth |-> IF d = 0 /\ i.rank # -1 THEN g.stop - g.start
                                           ELSE i.d.times_elapsed[d]],
        !.wu_times = [w \in WuTime |-> wu_merge(@[w], i.d.wu_times[w])],
        !.wu_counts = [c \in WuCount |-> wu_merge(@[c], i.d.wu_counts[c])]]

\* ABTXI_prof_print_xstream_info(): with the lock, all the tags are recorded ...
NoPrint == [pc |-> "idle", tag |-> <<>>, sum |-> <<>>]
ABTX_prof_print ==
  /\ Call("print", {"STOPPED"}) /\ print' = [print EXCEPT !.pc = "lock"]
  /\ UNCHANGED <<work, now, tool, g, lock, arr, xs, own, th, spec, cb, raced>>
Tags ==
  /\ print.pc = "lock" /\ lock = Null /\ lock' = "print"
  /\ print' = [pc |-> "read", tag |-> [x \in DOMAIN xs |-> xs[x].tag], sum |-> <<>>]
  /\ UNCHANGED <<plan, work, now, tool, g, arr, xs, own, th, spec, cb, raced>>

\* ... the data are read, of one stream after the other ...
Read ==
  /\ print.pc = "read" /\ Len(print.sum) < Len(print.tag)
  /\ print' = [print EXCEPT !.sum = Append(@, merge_xstream_info(Len(print.sum) + 1))]
  /\ UNCHANGED <<plan, work, now, tool, g, lock, arr, xs, own, th, spec, cb, raced>>

\* ... and the tags must be what they were, or all is done again.
Unchanged == \A x \in DOMAIN print.tag : print.tag[x] = xs[x].tag
Ready == print.pc = "read" /\ Len(print.sum) = Len(print.tag)
print_xstream_info ==
  /\ Ready /\ lock' = Null
  /\ print' = IF Unchanged THEN NoPrint ELSE [NoPrint EXCEPT !.pc = "lock"]
  /\ UNCHANGED <<plan, work, now, tool, g, arr, xs, own, th, spec, cb, raced>>

Tick == /\ now < plan.time /\ now' = now + 1
        /\ UNCHANGED <<plan, work, tool, g, lock, arr, xs, own, th, spec, cb, print, raced>>

-----------------------------------------------------------------------------

\* The program makes plan.calls while at most plan.n events of the kinds plan.events
\* happen on plan.actors up to plan.time; the units are then where plan.work says.
Init ==
  /\ plan \in Plans /\ work = plan.work
  /\ now = 1 /\ tool = "none" /\ g = [state |-> "CLEAN", start |-> 0, stop |-> 0]
  /\ lock = Null /\ arr = [len |-> 0, cur |-> 0, mem |-> <<>>]
  /\ xs = <<>> /\ own = [s \in External |-> 0] /\ th = <<>> /\ spec = [u \in Unit |-> Null]
  /\ cb = [s \in Actor |-> Idle] /\ print = NoPrint /\ raced = FALSE

Handling(s) == \/ get_xstream_info(s) \/ Extend(s) \/ Extended(s) \/ Slot(s) \/ Publish(s)
               \/ Enter(s) \/ get_thread_info(s) \/ thread_callback_impl(s) \/ Leave(s)

\* After a race nothing is said.
Next == /\ ~raced
        /\ \/ \E s \in plan.actors : Handling(s)
           \/ \E s \in plan.actors, e \in plan.events, u \in Unit : ABTI_tool_event_thread(s, e, u)
           \/ \E mode \in {"basic", "detailed"} : ABTX_prof_start(mode)
           \/ ABTX_prof_stop \/ ABTX_prof_print \/ ABTX_prof_clean \/ ABTX_prof_finalize
           \/ Tags \/ Read \/ print_xstream_info \/ Tick

Spec == Init /\ [][Next]_vars

-----------------------------------------------------------------------------
(* Properties.                                                               *)

\* What a print shows is a state that the profiler was in: when the tags are found
\* to be what they were, and none was odd, the summaries read one after the other
\* are those of all the streams at this moment, thread_infos included that units
\* carried to other streams.
PrintWhole ==
  ~raced /\ Ready /\ Unchanged /\ (\A x \in DOMAIN print.tag : print.tag[x] % 2 = 0)
    => \A x \in DOMAIN print.tag : print.sum[x] = merge_xstream_info(x)

\* "This p_thread_info has been already initialized": a thread_info is in one
\* place.  It is unused, once in the pools of all the streams, and clear, or it
\* belongs to the unit it names or once named, which no other unit does; so a unit
\* of an earlier period never counts on another's.
OneOwner ==
  LET slots == {<<x, i>> \in (DOMAIN xs) \X (1 .. Len(th)) : i <= Len(xs[x].p_thread_unused)}
      at(p) == xs[p[1]].p_thread_unused[p[2]]
  IN ~raced =>
     /\ \A p, q \in slots : at(p) = at(q) => p = q
     /\ \A p \in slots : th[at(p)] = ZeroThread
     /\ \A t \in DOMAIN th : th[t].owner = Null => \E p \in slots : at(p) = t

\* A stream has one xstream_info, whatever extensions of the array it races with,
\* and finds it once it has been published.
OneInfo ==
  ~raced =>
    /\ \A x, y \in DOMAIN xs : xs[x].rank = xs[y].rank /\ xs[x].rank # -1 => x = y
    /\ \A x \in DOMAIN xs : xs[x].rank # -1 => arr.mem[arr.cur][xs[x].rank] = x

\* The time accounted to a depth of a stream, or to a unit, is not more than that of
\* the period, however the profiler was started and stopped around it.
ElapsedWithin ==
  ~raced => /\ \A x \in DOMAIN xs, d \in Depth : xs[x].d.times_elapsed[d] \in 0 .. now - g.start
            /\ \A t \in DOMAIN th : th[t].elapsed \in 0 .. now - g.start

\* What the profiler keeps and prints is sound: PrintWhole, OneOwner, OneInfo and
\* ElapsedWithin.
ProfilerSound == PrintWhole /\ OneOwner /\ OneInfo /\ ElapsedWithin
=============================================================================
