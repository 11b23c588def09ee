------------------------------- MODULE Timing -------------------------------
(***************************************************************************)
(* The timers of putty/timing.c and the one-shot timer of the front end    *)
(* that serves them (PuttyTimer, putty_view/putty_timer.h).  All of it     *)
(* runs on the UI thread.                                                  *)
(*                                                                         *)
(* A time is what GetTickCount returns: a count of ticks that wraps.  Two  *)
(* times are compared by the sign of their difference, which is right only *)
(* while both are less than half the range away from the time at hand.     *)
(*                                                                         *)
(* schedule_timer and expire_timer_context are functions of the state `tm' *)
(* of this component: they are called in the middle of the handlers of its *)
(* clients (SessionTimers), and from the callbacks that run_timers calls.  *)
(***************************************************************************)
EXTENDS Integers, Sequences, FiniteSets, SequencesExt

CONSTANTS
  Wrap,        \* the number of values of the clock (2^32 in the code)
  Slack,       \* the ticks by which a timer is taken to be set earlier (10)
  MaxDelay,    \* bound: the longest delay a client asks for, in ticks
  Early,       \* bound: ticks by which the front end's timer goes off too soon
  Lag          \* bound: ticks by which it is late, and a run of timers lasts

ASSUME TimingAssumption ==
  /\ Wrap \in Nat \ {0} /\ {MaxDelay, Early, Lag} \subseteq Nat /\ Slack \in Nat
  /\ Wrap % 2 = 0
  \* Everything a comparison sees is less than half the range away.
  /\ MaxDelay + 2 * Lag + 1 + Early < Wrap \div 2
  /\ MaxDelay + 2 * Lag + 1 + Slack < Wrap

VARIABLES
  clock,       \* what GETTICKCOUNT() returns
  tm,          \* the statics of timing.c and the timer of the front end
  running,     \* is run_timers running, called by onTimeout?
  late         \* ticks the front end is late, or has been running timers

timingVars == <<clock, tm, running, late>>

Clocks == 0 .. Wrap - 1

\* The unsigned difference of two times, and the same bits taken as a long.
Minus(a, b) == (a - b) % Wrap
Signed(a, b) == LET d == Minus(a, b) IN IF d < Wrap \div 2 THEN d ELSE d - Wrap

\* The ticks until a timer is due: below zero when that is past.
Left(t) == Signed(t.now, clock)

Asleep == [on |-> FALSE, left |-> 0]

-----------------------------------------------------------------------------
(* The order of the tree.  It depends on the static `now'.                 *)

Rank(fn) == IF fn = "pinger_timer" THEN 0 ELSE 1

\* Faulty: times are compared as they are, not relative to the clock.
compareTimersRaw(a, b, now) ==
  \/ a.now < b.now
  \/ a.now = b.now /\ Rank(a.fn) < Rank(b.fn)
  \/ a.now = b.now /\ a.fn = b.fn /\ a.ctx < b.ctx

\* compare_timers(a, b) < 0.
compareTimers(a, b, now) ==
  LET at == Signed(a.now, now)
      bt == Signed(b.now, now)
  IN  \/ at < bt
      \/ at = bt /\ Rank(a.fn) < Rank(b.fn)
      \/ at = bt /\ a.fn = b.fn /\ a.ctx < b.ctx

\* compare_timers(a, b) = 0: the two are never both in the tree.
sameTimer(a, b) == <<a.now, a.fn, a.ctx>> = <<b.now, b.fn, b.ctx>>

-----------------------------------------------------------------------------
(* PuttyTimer, and the calls of timing.c.                                  *)

\* Faulty: a time that is past is slept for as well.
startAtOnce(next) == [on |-> TRUE, left |-> Signed(next, clock)]

\* start(next): the front end sleeps for at least one tick.
start(next) ==
  LET delta == Signed(next, clock)
  IN  [on |-> TRUE, left |-> IF delta <= 0 THEN 1 ELSE delta]

\* The time a call of schedule_timer returns: never the present.
when(ticks) == IF ticks = 0 THEN Minus(clock, -1) ELSE Minus(clock, -ticks)

\* schedule_timer(ticks, fn, ctx).  When an identical timer is in the tree
\* already, the context is NOT entered among those that are alive: the history
\* variable `lost' keeps the contexts to which that happened, until they expire.
scheduleTimer(s, ticks, fn, ctx) ==
  LET t == [fn |-> fn, ctx |-> ctx, now |-> when(ticks), when_set |-> clock]
      twin == \E i \in DOMAIN s.timers : sameTimer(s.timers[i], t)
      before == {i \in DOMAIN s.timers : compareTimers(s.timers[i], t, clock)}
      pos == Cardinality(before) + 1
  IN  IF twin
      THEN [s EXCEPT !.now = clock,
                     !.lost = IF ctx \in s.contexts THEN @ ELSE @ \cup {ctx}]
      ELSE [s EXCEPT !.now = clock, !.timers = InsertAt(@, pos, t),
                     !.contexts = @ \cup {ctx},
                     !.wake = IF pos = 1 THEN start(t.now) ELSE @]

\* expire_timer_context(ctx): its timers stay in the tree.
expireTimerContext(s, ctx) ==
  [s EXCEPT !.contexts = @ \ {ctx}, !.lost = @ \ {ctx}]

\* The test of run_timers: past the time it is due, or before it was set.
isDue(t, now) ==
  LET set == Minus(t.when_set, Slack)
  IN  Minus(now, set) > Minus(t.now, set)

-----------------------------------------------------------------------------
(* Steps.                                                                  *)

TimingInit ==
  /\ clock \in Clocks
  /\ tm = [now |-> clock, timers |-> <<>>, contexts |-> {}, wake |-> Asleep,
           lost |-> {}]
  /\ running = FALSE
  /\ late = 0

\* Time passes, while the UI thread sleeps and while it runs timers.  The wait
\* for an overdue timer of the front end, and a run, last at most Lag.
Passes ==
  /\ late < Lag
  /\ clock' = Minus(clock, -1)
  /\ tm' = IF tm.wake.on THEN [tm EXCEPT !.wake.left = @ - 1] ELSE tm
  /\ late' = IF running \/ (tm.wake.on /\ tm.wake.left <= 0) THEN late + 1 ELSE 0
  /\ UNCHANGED running

\* The one-shot timer goes off: onTimeout stops it and calls run_timers, which
\* reads the clock (and makes no use of the time it is passed).
OnTimeout ==
  /\ ~running /\ tm.wake.on /\ tm.wake.left <= Early
  /\ running' = TRUE
  /\ tm' = [tm EXCEPT !.wake = Asleep, !.now = clock]
  /\ UNCHANGED <<clock, late>>

IsDead(t) == t.ctx \notin tm.contexts

\* The first timer belongs to a context that was expired: it is deleted.
DropExpired ==
  /\ running /\ tm.timers # <<>> /\ IsDead(Head(tm.timers))
  /\ tm' = [tm EXCEPT !.timers = Tail(@)]
  /\ UNCHANGED <<clock, running, late>>

\* The guard of the step that calls the first timer, and what it leaves: the
\* client whose callback it is goes on from there.
Calls == running /\ tm.timers # <<>> /\ ~IsDead(Head(tm.timers))
         /\ isDue(Head(tm.timers), tm.now)
Called == [tm EXCEPT !.timers = Tail(@)]

\* run_timers has nothing more to call: it returns, and the front end sleeps
\* until the time of the first timer, if there is one.
RunEnds ==
  /\ running
  /\ \/ tm.timers = <<>> /\ tm' = tm
     \/ /\ tm.timers # <<>> /\ ~IsDead(Head(tm.timers))
        /\ ~isDue(Head(tm.timers), tm.now)
        /\ tm' = [tm EXCEPT !.wake = start(Head(tm.timers).now)]
  /\ running' = FALSE
  /\ late' = 0
  /\ UNCHANGED clock
=============================================================================
