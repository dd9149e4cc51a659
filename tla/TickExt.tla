------------------------------- MODULE TickExt -------------------------------
(***************************************************************************)
(* The time stamps of the agent: tickExt measures the ratio of wall-clock  *)
(* time to processor ticks once, over the second that canRxFunc sleeps,    *)
(* and extrapolates from a milestone, a pair of a clock value and a tick   *)
(* value; tickUpdate now and then proposes a newer milestone.              *)
(*                                                                         *)
(* The thread may be preempted between reading the clock and reading the   *)
(* tick counter, and somebody may set the clock.  A ratio is a pair of a   *)
(* numerator and a denominator; a double is taken to be exact.             *)
(***************************************************************************)
EXTENDS Integers

CONSTANTS
  Rate,         \* ticks per unit of time
  Epoch,        \* the clock's value when the tick counter started
  MaxDelay,     \* bound: preemption between the two reads
  Sleep,        \* sleep_for(seconds(1))
  MinTm,        \* 10
  MinTick,      \* 1000
  UpdateTicks,  \* 1000 * 1000 * 100
  UpdateTm,     \* 1000
  Word,         \* 2^64, or any number above every clock and tick value
  Steps,        \* bound: how far the clock is set, and when
  MaxTime       \* bound: how long the run is

\* The machine has been up for less time than since 1970, a preemption is shorter
\* than the time for which canRxFunc sleeps, that time is enough for a
\* calibration, and the clock is not set to a time before 1970.
ASSUME TickAssumption ==
  /\ Rate \in Nat \ {0}
  /\ MaxTime \in Nat \ {0} /\ Epoch \in Nat /\ Epoch > MaxTime
  /\ Sleep \in Nat /\ MaxDelay \in 0..(Sleep - 1)
  /\ MinTm \in 0..Sleep /\ MinTick \in 1..(Sleep * Rate)
  /\ UpdateTicks \in Nat /\ UpdateTm \in Nat
  /\ Word \in Nat /\ Word > Epoch + MaxTime /\ Word > MaxTime * Rate
  /\ Steps \subseteq Int /\ \A s \in Steps : Epoch + s >= 0

\* tickUpdate measures a ratio over more than UpdateTicks, and a preemption at the
\* start of it makes the ratio too large by at most the preemption's share of that
\* time: the uptime stays below the time since 1970 when it is scaled with it.
ASSUME UptimeAssumption ==
  MaxTime * (UpdateTicks + MaxDelay * Rate) <= Epoch * UpdateTicks

VARIABLES
  now,    \* time since the tick counter started
  skew,   \* how far the clock was set
  pc,     \* where canRxFunc is
  mile,   \* mile_stone_tick_, mile_stone_tm64_
  ratio,  \* delta_ratio_ of tickExt
  valid,  \* valid_tick_
  tu,     \* tu_: tick0_, tm0_, tm1_, delta_ratio_ and stat_
  stamp   \* the result of the last getTick, and when it was taken

vars == <<now, skew, pc, mile, ratio, valid, tu, stamp>>

Clock       == Epoch + now + skew
my_get_tick == now * Rate
NoRatio     == <<0, 1>>

\* The clock is read, the thread is preempted for d, the tick counter is read.
ReadBoth(d) == [tm |-> Clock, tick |-> (now + d) * Rate]

TickTypeOK ==
  /\ now \in 0..MaxTime
  /\ pc \in {"begin", "sleep", "end", "loop"}
  /\ mile.tick \in Nat /\ mile.tm \in Nat /\ mile.tick <= my_get_tick
  /\ ratio[2] > 0 /\ ratio[1] >= 0
  /\ valid \in BOOLEAN
  /\ tu.stat \in {"init", "tick0", "tick1"}
  /\ tu.tick0 <= my_get_tick

Init ==
  /\ now \in 0..1 /\ skew = 0
  /\ pc = "begin"
  /\ mile = [tick |-> my_get_tick, tm |-> Clock]
  /\ ratio = NoRatio
  /\ valid = FALSE
  /\ tu = [stat |-> "init", tick0 |-> 0, tm0 |-> 0, tm1 |-> 0, ratio |-> NoRatio]
  /\ stamp = [value |-> 0, clock |-> 0, from |-> 0, at |-> 0]

------------------------------------------------------------------------------
beginInitTick(d) ==
  /\ pc = "begin"
  /\ mile' = ReadBoth(d)
  /\ now' = now + d
  /\ pc' = "sleep"
  /\ UNCHANGED <<skew, ratio, valid, tu, stamp>>

SleepEnds(d) ==
  /\ pc = "sleep"
  /\ now' = now + Sleep + d
  /\ pc' = "end"
  /\ UNCHANGED <<skew, mile, ratio, valid, tu, stamp>>

\* Mutant: a clock that was set back is not noticed.
EndUnchecked(d) ==
  LET r == ReadBoth(d)
  IN  /\ pc = "end"
      /\ valid' = (r.tick - mile.tick >= MinTick)
      /\ ratio' = IF valid' THEN <<r.tm - mile.tm, r.tick - mile.tick>> ELSE ratio
      /\ now' = now + d
      /\ pc' = "loop"
      /\ UNCHANGED <<skew, mile, tu, stamp>>

\* Without a usable measurement valid_tick_ stays false, and every stamp is 0.
endInitTick(d) ==
  LET r == ReadBoth(d)
  IN  /\ pc = "end"
      /\ valid' = /\ r.tm >= mile.tm /\ r.tick >= mile.tick
                  /\ r.tm - mile.tm >= MinTm /\ r.tick - mile.tick >= MinTick
      /\ ratio' = IF valid' THEN <<r.tm - mile.tm, r.tick - mile.tick>> ELSE ratio
      /\ now' = now + d
      /\ pc' = "loop"
      /\ UNCHANGED <<skew, mile, tu, stamp>>

getTick ==
  IF valid THEN mile.tm + ((my_get_tick - mile.tick) * ratio[1]) \div ratio[2] ELSE 0

\* Mutant: both times count from the same origin.
is_ellapsed_since_tm0(tick) ==
  IF tu.ratio[1] > 0
  THEN (tick - tu.tick0) * tu.ratio[1] > UpdateTm * tu.ratio[2]
  ELSE tick - tu.tick0 > UpdateTicks

\* With a ratio, the uptime is compared with the clock.
is_ellapsed(tick) ==
  IF tu.ratio[1] > 0
  THEN tick * tu.ratio[1] > (tu.tm0 + UpdateTm) * tu.ratio[2]
  ELSE tick - tu.tick0 > UpdateTicks

\* updateTick when update() returned true: the milestone is the older of the
\* two measurements, and reset_state makes tm0_ the newer time but keeps tick0_.
\* tm1_ - tm0_ wraps around when the clock was set back in between.
Milestone(r) ==
  /\ mile' = [tick |-> tu.tick0, tm |-> tu.tm0]
  /\ tu' = [tu EXCEPT !.stat = "tick0", !.tm0 = r.tm, !.tm1 = r.tm,
                      !.ratio = <<(r.tm - tu.tm0) % Word, r.tick - tu.tick0>>]

updateTick(d) ==
  \/ /\ tu.stat = "init"
     /\ tu' = [tu EXCEPT !.stat = "tick0", !.tick0 = ReadBoth(d).tick,
                         !.tm0 = Clock, !.tm1 = Clock]
     /\ now' = now + d
     /\ UNCHANGED mile
  \/ /\ tu.stat = "tick0"
     /\ d = 0
     /\ tu' = [tu EXCEPT !.stat = "tick1"]
     /\ UNCHANGED <<now, mile>>
  \/ /\ tu.stat = "tick1"
     /\ is_ellapsed(my_get_tick)
     /\ Milestone(ReadBoth(d))
     /\ now' = now + d
  \/ /\ tu.stat = "tick1"
     /\ ~is_ellapsed(my_get_tick)
     /\ d = 0
     /\ UNCHANGED <<now, mile, tu>>

\* The loop of canRxFunc stamps a frame and updates.
StampFrame(d) ==
  /\ pc = "loop"
  /\ stamp' = [value |-> getTick, clock |-> Clock, from |-> mile.tick, at |-> my_get_tick]
  /\ updateTick(d)
  /\ UNCHANGED <<skew, pc, ratio, valid>>

TimePasses ==
  /\ pc = "loop"
  /\ now' = now + 1
  /\ UNCHANGED <<skew, pc, mile, ratio, valid, tu, stamp>>

\* Somebody sets the clock.
ClockSet(s) ==
  /\ skew = 0
  /\ skew' = s
  /\ UNCHANGED <<now, pc, mile, ratio, valid, tu, stamp>>

Next ==
  /\ \/ \E d \in 0..MaxDelay :
          beginInitTick(d) \/ SleepEnds(d) \/ endInitTick(d) \/ StampFrame(d)
     \/ TimePasses
     \/ \E s \in Steps : ClockSet(s)
  /\ now' <= MaxTime

Spec == Init /\ [][Next]_vars

------------------------------------------------------------------------------
(* Properties. *)

\* While nobody sets the clock, a stamp is off by at most one preemption, what the
\* measured ratio is off by over the time since the milestone, and rounding; and
\* the calibration cannot fail.  Moving the milestone must keep the pair of a
\* time and a tick together.
StampAccurate ==
  (skew = 0 /\ stamp.at > 0) =>
    LET past == (stamp.at - stamp.from) \div Rate
        off  == MaxDelay + (past * MaxDelay) \div (Sleep - MaxDelay) + 2
    IN  stamp.value \in (stamp.clock - off)..(stamp.clock + off)

\* What the comment of is_ellapsed says, "longer than 1 second": once a ratio was
\* measured, the next update is due when that much time has passed since tm0_.  Two
\* seconds are asked for here, which leaves room for the error of the ratio, and
\* nobody sets the clock.  The code violates it: now_tm counts from the start of
\* the tick counter and tm0_ from 1970.
DueAfterOneSecond ==
  (skew = 0 /\ tu.ratio[1] > 0 /\ Clock - tu.tm0 > 2 * Sleep) => is_ellapsed(my_get_tick)
==============================================================================
