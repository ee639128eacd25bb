----------------------------- MODULE TimerTable -----------------------------
(***************************************************************************)
(* The table of misc/timer.{h,cpp}: an array of slots, a timer's id being  *)
(* the index of its slot, counted from 1 here.  millis() is an unsigned    *)
(* number that wraps at W.                                                 *)
(***************************************************************************)
EXTENDS Naturals, Sequences, FiniteSets

CONSTANTS W,        (* 2^32 in the code                                    *)
          Amount,   (* TIMER_GROW_AMOUNT                                   *)
          NoFn      (* no callback                                         *)

ASSUME TimerTableAssumption ==
  /\ W \in Nat \ {0}
  /\ Amount \in Nat \ {0}

\* TimerEntry().
Blank ==
  [active |-> FALSE, repeat |-> FALSE, fn |-> NoFn, interval |-> 0, created |-> 0]

Active(fn, interval, repeat, now) ==
  [active |-> TRUE, repeat |-> repeat, fn |-> fn, interval |-> interval, created |-> now]

\* The interval that keeps a one-shot from running again: ~0ul.
Never == W - 1

Slots(entries) == 1..Len(entries)
FreeSlots(entries) == {k \in Slots(entries) : ~entries[k].active}

\* _add's loop takes the first slot that is not active.
FirstFree(entries) ==
  CHOOSE k \in FreeSlots(entries) : \A j \in FreeSlots(entries) : k <= j

\* _grow.
Grown(entries) == entries \o [k \in 1..Amount |-> Blank]

\* Compares with the moment the entry is due at, which may lie behind the wrap.
RipeAbsolute(e, now) == e.active /\ now >= (e.created + e.interval) % W

\* The entry's time has come, in arithmetic modulo W.
Ripe(e, now) == e.active /\ (now + W - e.created) % W >= e.interval

\* handle_timers prepares the entry for its callback.
Started(e, now) ==
  IF e.repeat THEN [e EXCEPT !.created = now] ELSE [e EXCEPT !.interval = Never]
=============================================================================
