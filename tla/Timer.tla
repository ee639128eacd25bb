-------------------------------- MODULE Timer --------------------------------
(***************************************************************************)
(* misc/timer.{h,cpp}: timeouts and intervals on the main loop's task.     *)
(* handle_timers calls the callbacks that are due; a callback may add and  *)
(* clear timers and call handle_timers itself, so that calls of it nest.   *)
(* Each is a frame: the slot it is at, and the timer whose callback it is  *)
(* inside of, or none.                                                     *)
(*                                                                         *)
(* A call holds a reference to its entry across the callback.  If the      *)
(* table grows meanwhile the reference dangles, and what it reads is       *)
(* arbitrary.  `misused' records that the callers did what the code is not *)
(* made for: that a callback made the table grow, or that a timer was      *)
(* cleared while its own callback was running.                             *)
(***************************************************************************)
EXTENDS TimerTable

CONSTANTS N,             (* bound: the timers ever added                   *)
          Intervals,
          Starts,        (* what millis() may be at first                  *)
          MaxTicks,      (* bound: the clock stops there, before it is     *)
                         (* back at where it was                           *)
          MaxDepth       (* bound: nested calls of handle_timers           *)

\* Numbered in the order in which they are added.
Timers == 1..N

ASSUME TimerAssumption ==
  /\ N \in Nat
  /\ NoFn \notin Timers
  /\ Intervals \subseteq Nat
  /\ Starts \subseteq 0..(W - 1)
  /\ MaxTicks \in Nat /\ MaxTicks < Never
  /\ MaxDepth \in Nat

VARIABLES
  entries, freeCount,  (* _entries with _count slots, _free_count            *)
  start, ticks,        (* millis() at first, and the time gone by since      *)
  stack,               (* the calls of handle_timers, innermost last         *)
  status,              (* per timer: "new", "refused", "armed", "fired", ... *)
  slot,                (* per timer: the id that its owner was given         *)
  since,               (* per timer: the tick it was added or last called at *)
  asked,               (* per timer: the interval it was added with          *)
  calls,               (* per timer: how often it was called                 *)
  misused              (* see above                                          *)

table == <<entries, freeCount>>
clock == <<start, ticks>>
owners == <<status, slot, asked>>
history == <<since, calls>>
vars == <<table, clock, stack, owners, history, misused>>

millis == (start + ticks) % W

Init ==
  /\ entries = <<>>
  /\ freeCount = 0
  /\ start \in Starts
  /\ ticks = 0
  /\ stack = <<>>
  /\ status = [t \in Timers |-> "new"]
  /\ slot = [t \in Timers |-> 0]
  /\ since = [t \in Timers |-> 0]
  /\ asked = [t \in Timers |-> [interval |-> 0, repeat |-> FALSE]]
  /\ calls = [t \in Timers |-> 0]
  /\ misused = FALSE

Tick ==
  /\ ticks < MaxTicks
  /\ ticks' = ticks + 1
  /\ UNCHANGED <<table, start, stack, owners, history, misused>>

(***************************************************************************)
(* What the main loop does, and a callback.                                *)
(***************************************************************************)
top == stack[Len(stack)]
Replace(f) == stack' = [stack EXCEPT ![Len(stack)] = f]
Pop == stack' = SubSeq(stack, 1, Len(stack) - 1)

UserRuns == stack # <<>> => top.running # NoFn

\* The timers whose callbacks are being called.
Running == {stack[j].running : j \in 1..Len(stack)} \ {NoFn}

Mark(t, s) == status' = [status EXCEPT ![t] = s]

\* _add puts the timer into the first free slot of e.
Place(t, e, interval, repeat) ==
  /\ entries' = [e EXCEPT ![FirstFree(e)] = Active(t, interval, repeat, millis)]
  /\ slot' = [slot EXCEPT ![t] = FirstFree(e)]
  /\ asked' = [asked EXCEPT ![t] = [interval |-> interval, repeat |-> repeat]]
  /\ since' = [since EXCEPT ![t] = ticks]
  /\ Mark(t, "armed")

\* t is the next one to be added.
IsNext(t) == status[t] = "new" /\ \A u \in 1..(t - 1) : status[u] # "new"

\* An interval of zero would be due again in every nested call, for ever.
CanAdd(t, interval, repeat) ==
  /\ UserRuns
  /\ IsNext(t)
  /\ repeat => interval # 0

\* add_timeout and add_interval, a slot being free.
Add(t, interval, repeat) ==
  /\ CanAdd(t, interval, repeat)
  /\ freeCount > 0
  /\ Place(t, entries, interval, repeat)
  /\ freeCount' = freeCount - 1
  /\ UNCHANGED <<clock, stack, calls, misused>>

\* The same, after _grow: every reference into the old table dangles.
AddGrow(t, interval, repeat) ==
  /\ CanAdd(t, interval, repeat)
  /\ freeCount = 0
  /\ Place(t, Grown(entries), interval, repeat)
  /\ freeCount' = Amount - 1
  /\ stack' = [j \in 1..Len(stack) |-> [stack[j] EXCEPT !.dangling = TRUE]]
  /\ misused' = (misused \/ stack # <<>>)
  /\ UNCHANGED <<clock, calls>>

\* _grow finds no memory, and _add no free slot: the id is -1.
AddFails(t) ==
  /\ UserRuns
  /\ IsNext(t)
  /\ freeCount = 0
  /\ Mark(t, "refused")
  /\ UNCHANGED <<table, clock, stack, slot, asked, history, misused>>

\* _clear without its test.
WipeBlind(k) ==
  /\ entries' = [entries EXCEPT ![k] = Blank]
  /\ freeCount' = freeCount + 1

\* _clear.
Wipe(k) ==
  IF entries[k].active
    THEN entries' = [entries EXCEPT ![k] = Blank] /\ freeCount' = freeCount + 1
    ELSE UNCHANGED table

\* clear_timeout and clear_interval, by the owner of a timer that is armed.
Clear(t) ==
  /\ UserRuns
  /\ status[t] = "armed"
  /\ Wipe(slot[t])
  /\ misused' = (misused \/ t \in Running)
  /\ Mark(t, "cleared")
  /\ UNCHANGED <<clock, stack, slot, asked, history>>

\* handle_timers, called by the main loop or by a callback: there is nothing to
\* do if no slot is in use.
HandleTimers ==
  /\ UserRuns
  /\ Len(stack) < MaxDepth
  /\ Len(entries) # freeCount
  /\ stack' = Append(stack, [at |-> 1, running |-> NoFn, dangling |-> FALSE])
  /\ UNCHANGED <<table, clock, owners, history, misused>>

(***************************************************************************)
(* The loop of the innermost handle_timers.                                *)
(***************************************************************************)
InLoop == stack # <<>> /\ top.running = NoFn

Finish ==
  /\ InLoop
  /\ top.at > Len(entries)
  /\ Pop
  /\ UNCHANGED <<table, clock, owners, history, misused>>

Skip ==
  /\ InLoop
  /\ top.at <= Len(entries)
  /\ ~Ripe(entries[top.at], millis)
  /\ Replace([top EXCEPT !.at = @ + 1])
  /\ UNCHANGED <<table, clock, owners, history, misused>>

\* Leaves a one-shot as it is when its callback is called.
CallUnmarked ==
  /\ InLoop
  /\ top.at <= Len(entries)
  /\ Ripe(entries[top.at], millis)
  /\ LET e == entries[top.at] IN
       /\ entries' = [entries EXCEPT ![top.at].created = IF e.repeat THEN millis ELSE @]
       /\ calls' = [calls EXCEPT ![e.fn] = @ + 1]
       /\ since' = [since EXCEPT ![e.fn] = ticks]
       /\ status' = IF e.repeat THEN status ELSE [status EXCEPT ![e.fn] = "fired"]
  /\ Replace([top EXCEPT !.running = entries[top.at].fn])
  /\ UNCHANGED <<freeCount, clock, slot, asked, misused>>

\* The callback is called.
Call ==
  /\ InLoop
  /\ top.at <= Len(entries)
  /\ Ripe(entries[top.at], millis)
  /\ LET e == entries[top.at] IN
       /\ entries' = [entries EXCEPT ![top.at] = Started(e, millis)]
       /\ calls' = [calls EXCEPT ![e.fn] = @ + 1]
       /\ since' = [since EXCEPT ![e.fn] = ticks]
       /\ status' = IF e.repeat THEN status ELSE [status EXCEPT ![e.fn] = "fired"]
  /\ Replace([top EXCEPT !.running = entries[top.at].fn])
  /\ UNCHANGED <<freeCount, clock, slot, asked, misused>>

\* It returns: a one-shot's slot is wiped, whoever has it by now.
Return ==
  /\ stack # <<>>
  /\ top.running # NoFn
  /\ \E repeat \in IF top.dangling THEN BOOLEAN ELSE {entries[top.at].repeat} :
       IF repeat THEN UNCHANGED table ELSE Wipe(top.at)
  /\ Replace([at |-> top.at + 1, running |-> NoFn, dangling |-> FALSE])
  /\ UNCHANGED <<clock, owners, history, misused>>

Loop == Finish \/ Skip \/ Call

Next ==
  \/ Tick
  \/ \E t \in Timers :
       \/ \E interval \in Intervals, repeat \in BOOLEAN :
            Add(t, interval, repeat) \/ AddGrow(t, interval, repeat)
       \/ AddFails(t)
       \/ Clear(t)
  \/ HandleTimers
  \/ Loop
  \/ Return

(***************************************************************************)
(* The main loop keeps calling handle_timers, and callbacks return.        *)
(***************************************************************************)
Fairness ==
  /\ WF_vars(stack = <<>> /\ HandleTimers)
  /\ WF_vars(Loop)
  /\ SF_vars(Return)

SafeSpec == Init /\ [][Next]_vars
Spec == SafeSpec /\ Fairness

(***************************************************************************)
(* Properties.                                                             *)
(***************************************************************************)
TypeOK ==
  /\ entries \in Seq([active : BOOLEAN, repeat : BOOLEAN, fn : Timers \cup {NoFn},
                      interval : Nat, created : 0..(W - 1)])
  /\ freeCount \in 0..Len(entries)
  /\ start \in 0..(W - 1)
  /\ ticks \in 0..MaxTicks
  /\ stack \in Seq([at : Nat \ {0}, running : Timers \cup {NoFn}, dangling : BOOLEAN])
  /\ status \in [Timers -> {"new", "refused", "armed", "fired", "cleared"}]
  /\ slot \in [Timers -> Nat]
  /\ since \in [Timers -> 0..MaxTicks]
  /\ asked \in [Timers -> [interval : Nat, repeat : BOOLEAN]]
  /\ calls \in [Timers -> Nat]
  /\ misused \in BOOLEAN

\* _free_count is the number of free slots, through nested calls, growth and a
\* slot that is wiped twice: _add never finds the table full after all.
FreeCountIsExact == freeCount = Cardinality(FreeSlots(entries))

Holds(t) == entries[slot[t]].active /\ entries[slot[t]].fn = t

\* A timer that was added stays in its slot until it has fired or its owner has
\* cleared it: no other callback's end takes the slot from it, unless callers
\* have misused the table.
ArmedStay == misused \/ \A t \in Timers : status[t] = "armed" => Holds(t)

\* A slot is in use only for an armed timer, or while a one-shot's callback runs:
\* no slot leaks.
NoLeak ==
  misused \/ \A k \in Slots(entries) : entries[k].active =>
    \/ status[entries[k].fn] = "armed"
    \/ entries[k].fn \in Running

\* A one-shot is called once, `to avoid repeating run if handle_timers() was
\* called from callback', in whatever slot and frame.
OneShotOnce == \A t \in Timers : calls[t] > 1 => asked[t].repeat

\* What the loop relies on, and what its callers do: the count of free slots, the
\* slots of the armed timers and no others, and one call of each one-shot.
TableSound == FreeCountIsExact /\ ArmedStay /\ NoLeak /\ OneShotOnce

\* No callback is called before its interval has passed since it was added or
\* last called, even across the wrap of millis().
NeverEarly ==
  [][\A t \in Timers : calls'[t] # calls[t] => ticks - since[t] >= asked[t].interval]_vars

\* A timer that is due is called or cleared: neither a nested call nor the reuse
\* of slots makes the loop overlook it.
DueFire ==
  <>[](misused \/ \A t \in Timers :
         status[t] = "armed" => ticks - since[t] < asked[t].interval)
=============================================================================
