---------------------------- MODULE TickExtProofs ----------------------------
(***************************************************************************)
(* Proofs about TickExt for any rate of the tick counter, any delays and   *)
(* any length of a run.                                                    *)
(***************************************************************************)
EXTENDS TickExt, TLAPS

Times == [tick : Nat, tm : Nat]

\* The inductive form of the type invariant.
TickTypeInv ==
  /\ TickTypeOK
  /\ skew \in Int /\ Epoch + skew >= 0
  /\ mile \in Times
  /\ ratio \in Nat \X Nat
  /\ tu \in [stat : {"init", "tick0", "tick1"}, tick0 : Nat, tm0 : Nat, tm1 : Nat,
             ratio : Nat \X Nat]

\* A clock value tm and a tick value that were read within one preemption, while
\* the clock was right, and not after now.
Paired(tick, tm, n) ==
  \E m \in Nat, e \in 0..MaxDelay :
    tm = Epoch + m /\ tick = (m + e) * Rate /\ m + e <= n

\* A ratio that was measured over at least Sleep, and is off by one preemption.
Measured(r) ==
  \E s \in Nat, k \in (-MaxDelay)..MaxDelay :
    s >= Sleep /\ r = <<s + k, s * Rate>>

\* With the ratio of tickUpdate no tick value that the run reaches is far enough
\* from tm0_.
NeverDue(r, tm0) == (MaxTime * Rate) * r[1] <= (tm0 + UpdateTm) * r[2]

\* While nobody sets the clock: the milestone is a pair of readings that belong
\* together, and so are tick0_ and tm0_ until the first update; the calibration
\* has succeeded when the loop begins; no second update is due.
CalmInv ==
  /\ Paired(mile.tick, mile.tm, now)
  /\ pc = "end" => mile.tick + Sleep * Rate <= my_get_tick
  /\ pc = "loop" => valid /\ Measured(ratio)
  /\ tu.stat = "init" => tu.ratio = NoRatio
  /\ (tu.stat # "init" /\ tu.ratio[1] = 0) => Paired(tu.tick0, tu.tm0, now)
  /\ tu.ratio[1] > 0 => NeverDue(tu.ratio, tu.tm0)

TickInv == TickTypeInv /\ (skew = 0 => CalmInv) /\ StampAccurate

------------------------------------------------------------------------------
(* Arithmetic. *)

\* Products keep an order.
LEMMA MulMono ==
  ASSUME NEW a \in Int, NEW b \in Int, NEW c \in Nat, a <= b
  PROVE  a * c <= b * c
  OBVIOUS

\* A product distributes over a sum and a difference.
LEMMA Distrib ==
  ASSUME NEW a \in Int, NEW b \in Int, NEW c \in Int
  PROVE  /\ (a + b) * c = a * c + b * c
         /\ (a - b) * c = a * c - b * c
         /\ a * c = c * a
         /\ a * c \in Int
  OBVIOUS

\* A quotient is at least what fits.
LEMMA DivLow ==
  ASSUME NEW a \in Int, NEW b \in Nat \ {0}, NEW q \in Int, b * q <= a
  PROVE  q <= a \div b
  OBVIOUS

\* A quotient is less than what does not fit.
LEMMA DivHigh ==
  ASSUME NEW a \in Int, NEW b \in Nat \ {0}, NEW q \in Int, a < b * q
  PROVE  a \div b < q
  OBVIOUS

\* A quotient fits, and one more would not.
LEMMA DivFact ==
  ASSUME NEW a \in Int, NEW b \in Nat \ {0}
  PROVE  /\ a \div b \in Int
         /\ b * (a \div b) <= a
         /\ a < b * (a \div b) + b
  OBVIOUS

\* A common factor cancels.
LEMMA DivExact ==
  ASSUME NEW a \in Int, NEW b \in Nat \ {0}
  PROVE  (a * b) \div b = a
  OBVIOUS

\* What the assumptions say of the constants' types.
LEMMA ConstTypes ==
  /\ Rate \in Nat \ {0} /\ MaxTime \in Nat \ {0} /\ Epoch \in Nat /\ Epoch > MaxTime
  /\ Sleep \in Nat /\ MaxDelay \in Nat /\ MaxDelay < Sleep /\ MinTm \in Nat
  /\ MinTm <= Sleep /\ Sleep * Rate \in Nat
  /\ MinTick \in Nat \ {0} /\ MinTick <= Sleep * Rate
  /\ UpdateTicks \in Nat /\ UpdateTm \in Nat /\ Word \in Nat \ {0} /\ Word > MaxTime
  <1>1. Sleep * Rate \in Nat
    BY TickAssumption
  <1> QED
    BY <1>1, TickAssumption

------------------------------------------------------------------------------
(* Types. *)

\* A later time has at least as many ticks, and ticks are counted in numbers.
LEMMA TicksGrow ==
  ASSUME NEW a \in Nat, NEW b \in Nat, a <= b
  PROVE  a * Rate \in Nat /\ b * Rate \in Nat /\ a * Rate <= b * Rate
  BY ConstTypes, MulMono

\* Two readings are numbers, and the tick counter only runs forward.
LEMMA ReadBothType ==
  ASSUME TickTypeInv, NEW d \in 0..MaxDelay
  PROVE  /\ ReadBoth(d) \in Times /\ Clock \in Nat
         /\ ReadBoth(d).tm = Clock /\ ReadBoth(d).tick = (now + d) * Rate
         /\ d \in Nat /\ now \in Nat /\ now + d \in Nat
         /\ my_get_tick \in Nat
         /\ my_get_tick <= ReadBoth(d).tick
  <1>1. d \in Nat /\ now \in Nat /\ now + d \in Nat /\ now <= now + d
    BY ConstTypes DEF TickTypeInv, TickTypeOK
  <1>2. Clock \in Nat
    BY <1>1, ConstTypes DEF TickTypeInv, Clock
  <1>3. (now + d) * Rate \in Nat /\ now * Rate \in Nat /\ now * Rate <= (now + d) * Rate
    BY <1>1, TicksGrow
  <1> QED
    BY <1>1, <1>2, <1>3 DEF ReadBoth, my_get_tick, Times

\* The types hold when canRxFunc starts.
LEMMA TickTypeInit == Init => TickTypeInv
  <1> SUFFICES ASSUME Init PROVE TickTypeInv
    OBVIOUS
  <1>1. now \in Nat /\ now \in 0..MaxTime /\ now * Rate \in Nat /\ Clock \in Nat
    BY ConstTypes, TicksGrow DEF Init, Clock
  <1>2. mile \in Times /\ mile.tick = my_get_tick
    BY <1>1 DEF Init, Times, my_get_tick
  <1>3. /\ tu \in [stat : {"init", "tick0", "tick1"}, tick0 : Nat, tm0 : Nat, tm1 : Nat,
                   ratio : Nat \X Nat]
        /\ tu.tick0 = 0 /\ ratio = <<0, 1>>
    BY DEF Init, NoRatio
  <1>4. TickTypeOK
    <2>1. valid \in BOOLEAN
      BY Zenon DEF Init
    <2>2. tu.stat = "init" /\ pc = "begin" /\ my_get_tick \in Nat
      BY <1>1 DEF Init, my_get_tick
    <2>3. mile.tick \in Nat /\ mile.tm \in Nat /\ mile.tick <= my_get_tick
      BY <1>2, <2>2 DEF Times
    <2>4. ratio[2] > 0 /\ ratio[1] >= 0 /\ tu.tick0 <= my_get_tick
      BY <1>3, <2>2
    <2> QED
      BY <1>1, <2>1, <2>2, <2>3, <2>4 DEF TickTypeOK
  <1> QED
    BY <1>1, <1>2, <1>3, <1>4, ConstTypes DEF Init, TickTypeInv

\* Every step keeps the types.
LEMMA TickTypeNext == TickTypeInv /\ [Next]_vars => TickTypeInv'
  <1> SUFFICES ASSUME TickTypeInv, [Next]_vars PROVE TickTypeInv'
    OBVIOUS
  <1>0. /\ now \in Nat /\ now <= MaxTime /\ my_get_tick \in Nat
        /\ mile \in Times /\ mile.tick <= my_get_tick
        /\ tu.tick0 \in Nat /\ tu.tm0 \in Nat /\ tu.tick0 <= my_get_tick
    BY TicksGrow, ConstTypes DEF TickTypeInv, TickTypeOK, my_get_tick
  <1>u. CASE UNCHANGED vars
    BY <1>u DEF vars, TickTypeInv, TickTypeOK, my_get_tick
  <1>t. ASSUME now' \in Nat, now <= now'
        PROVE  my_get_tick' \in Nat /\ my_get_tick <= my_get_tick'
    BY <1>0, <1>t, TicksGrow DEF my_get_tick
  <1>n. ASSUME Next PROVE now' <= MaxTime
    BY <1>n DEF Next
  <1>1. ASSUME Next, NEW d \in 0..MaxDelay, beginInitTick(d) PROVE TickTypeInv'
    <2>1. ReadBoth(d) \in Times /\ now' \in Nat /\ now <= now' /\ now' <= MaxTime
      BY <1>1, <1>n, <1>0, ReadBothType DEF beginInitTick
    <2>2. mile' \in Times /\ mile'.tick = my_get_tick'
      BY <1>1, <2>1, ReadBothType DEF beginInitTick, my_get_tick
    <2>3. my_get_tick' \in Nat /\ my_get_tick <= my_get_tick'
      BY <1>t, <2>1
    <2>4. TickTypeOK'
      BY <1>0, <1>1, <2>1, <2>2, <2>3 DEF beginInitTick, TickTypeInv, TickTypeOK, Times
    <2> QED
      BY <1>1, <2>2, <2>4 DEF beginInitTick, TickTypeInv
  <1>2. ASSUME Next, NEW d \in 0..MaxDelay, SleepEnds(d) PROVE TickTypeInv'
    <2>1. now' \in Nat /\ now <= now' /\ now' <= MaxTime
      BY <1>2, <1>n, <1>0, ConstTypes DEF SleepEnds
    <2>3. my_get_tick' \in Nat /\ my_get_tick <= my_get_tick'
      BY <1>t, <2>1
    <2>4. TickTypeOK'
      BY <1>0, <1>2, <2>1, <2>3 DEF SleepEnds, TickTypeInv, TickTypeOK, Times
    <2> QED
      BY <1>2, <2>4 DEF SleepEnds, TickTypeInv
  <1>3. ASSUME Next, NEW d \in 0..MaxDelay, endInitTick(d) PROVE TickTypeInv'
    <2>1. ReadBoth(d) \in Times /\ now' \in Nat /\ now <= now' /\ now' <= MaxTime
      BY <1>3, <1>n, <1>0, ReadBothType DEF endInitTick
    <2>3. my_get_tick' \in Nat /\ my_get_tick <= my_get_tick'
      BY <1>t, <2>1
    <2>4. valid' \in BOOLEAN
      BY <1>3, Zenon DEF endInitTick
    <2>5. ratio' \in Nat \X Nat /\ ratio'[2] > 0 /\ ratio'[1] >= 0
      <3>1. CASE valid'
        <4>1. /\ ReadBoth(d).tm >= mile.tm
              /\ ReadBoth(d).tick - mile.tick >= MinTick
          BY <1>3, <3>1 DEF endInitTick
        <4>2. ratio' = <<ReadBoth(d).tm - mile.tm, ReadBoth(d).tick - mile.tick>>
          BY <1>3, <3>1 DEF endInitTick
        <4> QED
          BY <4>1, <4>2, <2>1, <1>0, ConstTypes DEF Times
      <3>2. CASE ~valid'
        BY <1>3, <3>2 DEF endInitTick, TickTypeInv, TickTypeOK
      <3> QED
        BY <3>1, <3>2
    <2>6. UNCHANGED <<skew, mile, tu>> /\ pc' = "loop"
      BY <1>3 DEF endInitTick
    <2>7. TickTypeOK'
      BY <1>0, <2>1, <2>3, <2>4, <2>5, <2>6 DEF TickTypeInv, TickTypeOK, Times
    <2> QED
      BY <2>5, <2>6, <2>7 DEF TickTypeInv
  <1>4. ASSUME Next, NEW d \in 0..MaxDelay, StampFrame(d) PROVE TickTypeInv'
    <2> DEFINE T == [stat : {"init", "tick0", "tick1"}, tick0 : Nat, tm0 : Nat,
                     tm1 : Nat, ratio : Nat \X Nat]
    <2>0. UNCHANGED <<skew, pc, ratio, valid>> /\ updateTick(d)
      BY <1>4 DEF StampFrame
    <2>1. /\ ReadBoth(d) \in Times /\ Clock \in Nat
          /\ ReadBoth(d).tm = Clock /\ ReadBoth(d).tick = (now + d) * Rate
      BY ReadBothType
    <2>2. tu \in T
      BY DEF TickTypeInv
    <2>3. ASSUME now' \in Nat, now <= now', tu' \in T, tu'.tick0 <= my_get_tick',
                 mile' \in Times, mile'.tick <= my_get_tick'
          PROVE  TickTypeInv'
      <3>1. now' <= MaxTime
        BY <1>4, <1>n
      <3>2. TickTypeOK'
        BY <3>1, <2>0, <2>3 DEF TickTypeInv, TickTypeOK, Times
      <3> QED
        BY <3>2, <2>0, <2>3 DEF TickTypeInv
    <2>4. now' \in Nat /\ now <= now'
      BY <2>0, <1>0, ReadBothType DEF updateTick
    <2>5. my_get_tick' \in Nat /\ my_get_tick <= my_get_tick'
      BY <1>t, <2>4
    <2>6. CASE tu.stat = "init"
      <3>1. /\ tu' = [tu EXCEPT !.stat = "tick0", !.tick0 = ReadBoth(d).tick,
                                !.tm0 = Clock, !.tm1 = Clock]
            /\ now' = now + d /\ mile' = mile
        BY <2>0, <2>6 DEF updateTick
      <3>2. tu' \in T /\ tu'.tick0 = ReadBoth(d).tick
        BY <3>1, <2>1, <2>2 DEF Times
      <3>3. ReadBoth(d).tick = my_get_tick'
        BY <3>1, <2>1 DEF my_get_tick
      <3> QED
        BY <3>1, <3>2, <3>3, <2>1, <2>3, <2>4, <2>5, <1>0 DEF Times
    <2>7. CASE tu.stat = "tick0"
      <3>1. tu' = [tu EXCEPT !.stat = "tick1"] /\ mile' = mile
        BY <2>0, <2>7 DEF updateTick
      <3>2. tu' \in T /\ tu'.tick0 = tu.tick0
        BY <3>1, <2>2
      <3> QED
        BY <3>1, <3>2, <2>3, <2>4, <2>5, <1>0 DEF Times
    <2>8. CASE tu.stat = "tick1" /\ ~is_ellapsed(my_get_tick)
      <3>1. tu' = tu /\ mile' = mile
        BY <2>0, <2>8 DEF updateTick
      <3> QED
        BY <3>1, <2>2, <2>3, <2>4, <2>5, <1>0 DEF Times
    <2>9. CASE tu.stat = "tick1" /\ is_ellapsed(my_get_tick)
      <3>1. Milestone(ReadBoth(d))
        BY <2>0, <2>9 DEF updateTick
      <3>2. (ReadBoth(d).tm - tu.tm0) % Word \in Nat
        <4>1. ReadBoth(d).tm - tu.tm0 \in Int
          BY <2>1, <1>0
        <4> QED
          BY <4>1, ConstTypes
      <3>3. ReadBoth(d).tick - tu.tick0 \in Nat
        BY ReadBothType, <2>1, <1>0 DEF Times
      <3>4. tu' \in T /\ tu'.tick0 = tu.tick0
        BY <3>1, <3>2, <3>3, <2>1, <2>2 DEF Milestone
      <3>5. mile' \in Times /\ mile'.tick = tu.tick0
        BY <3>1, <1>0 DEF Milestone, Times
      <3> QED
        BY <3>4, <3>5, <2>3, <2>4, <2>5, <1>0
    <2> QED
      BY <2>2, <2>6, <2>7, <2>8, <2>9
  <1>5. ASSUME Next, TimePasses PROVE TickTypeInv'
    <2>1. now' \in Nat /\ now <= now' /\ now' <= MaxTime
      BY <1>5, <1>n, <1>0 DEF TimePasses
    <2>3. my_get_tick' \in Nat /\ my_get_tick <= my_get_tick'
      BY <1>t, <2>1
    <2>4. TickTypeOK'
      BY <1>0, <1>5, <2>1, <2>3 DEF TimePasses, TickTypeInv, TickTypeOK, Times
    <2> QED
      BY <1>5, <2>4 DEF TimePasses, TickTypeInv
  <1>6. ASSUME NEW s \in Steps, ClockSet(s) PROVE TickTypeInv'
    <2>1. skew' \in Int /\ Epoch + skew' >= 0
      BY <1>6, TickAssumption DEF ClockSet
    <2> QED
      BY <1>6, <2>1 DEF ClockSet, TickTypeInv, TickTypeOK, my_get_tick
  <1> QED
    BY <1>u, <1>1, <1>2, <1>3, <1>4, <1>5, <1>6 DEF Next

\* TickTypeOK is an invariant.
THEOREM TickTypeCorrect == Spec => []TickTypeOK
  <1>1. TickTypeInv => TickTypeOK
    BY DEF TickTypeInv
  <1> QED
    BY <1>1, TickTypeInit, TickTypeNext, PTL DEF Spec

------------------------------------------------------------------------------
(* The milestone and the ratios while nobody sets the clock. *)

\* Products commute with a third factor.
LEMMA Shuffle ==
  ASSUME NEW a \in Int, NEW b \in Int, NEW c \in Int
  PROVE  (a * c) * b = (a * b) * c /\ a * b \in Int /\ (a * b) * c \in Int
  OBVIOUS

\* A positive factor keeps a strict order.
LEMMA MulStrict ==
  ASSUME NEW a \in Int, NEW b \in Int, NEW c \in Nat \ {0}, a < b
  PROVE  a * c < b * c
  OBVIOUS

\* Over p units of time a ratio of (s + k) / s is off by at most p * D / (S - D),
\* and rounding, when it was measured over s >= S and k is within D.
LEMMA Extrapolate ==
  ASSUME NEW p \in Nat, NEW s \in Nat, NEW k \in Int, NEW R \in Nat \ {0},
         NEW S \in Nat, NEW D \in Nat, D < S, s >= S, -D <= k, k <= D
  PROVE  LET V == ((p * R) * (s + k)) \div (s * R)
             Q == (p * D) \div (S - D)
         IN  V \in Int /\ Q \in Int /\ p - Q - 1 <= V /\ V <= p + Q
  <1> DEFINE V == ((p * R) * (s + k)) \div (s * R)
             g == S - D
             Q == (p * D) \div g
             W == Q + 1
  <1>1. g \in Nat \ {0} /\ g <= s /\ p * D \in Nat
    OBVIOUS
  <1> HIDE DEF g
  <1>2. Q \in Int /\ g * Q <= p * D /\ p * D < g * Q + g
    BY <1>1, DivFact
  <1>3. Q >= 0
    <2>1. g * 0 <= p * D
      BY <1>1
    <2> QED
      BY <2>1, <1>1, DivLow
  <1> HIDE DEF Q
  <1>4. W \in Nat /\ p * D < g * W
    <2>1. g * W = g * Q + g
      BY <1>1, <1>2
    <2> QED
      BY <1>2, <1>3, <2>1
  <1> HIDE DEF W
  <1>5. g * W <= s * W
    BY <1>1, <1>4, MulMono
  <1>6. k * p <= D * p /\ (-D) * p <= k * p
    BY MulMono
  <1>7. p * k = k * p /\ p * D = D * p /\ (-D) * p = - (p * D) /\ p * k \in Int
    OBVIOUS
  <1>8. s * W \in Int /\ g * W \in Int
    BY <1>1, <1>4
  <1>9. p * k < s * W /\ -(s * W) <= p * k
    BY <1>1, <1>4, <1>5, <1>6, <1>7, <1>8
  <1>10. /\ p * (s + k) = p * s + p * k /\ s * (p + W) = p * s + s * W
         /\ s * (p - W) = p * s - s * W /\ p * s \in Int
    BY <1>4
  <1>11. p * (s + k) < s * (p + W) /\ s * (p - W) <= p * (s + k)
    BY <1>7, <1>8, <1>9, <1>10
  <1>12. (p * (s + k)) * R < (s * (p + W)) * R
    BY <1>4, <1>11, MulStrict
  <1>13. (s * (p - W)) * R <= (p * (s + k)) * R
    BY <1>4, <1>11, MulMono
  <1>14. /\ (p * R) * (s + k) = (p * (s + k)) * R
         /\ (s * R) * (p + W) = (s * (p + W)) * R
         /\ (s * R) * (p - W) = (s * (p - W)) * R
    BY <1>4, Shuffle
  <1>15. s * R \in Nat \ {0} /\ (p * R) * (s + k) \in Int /\ p + W \in Int /\ p - W \in Int
    BY <1>4
  <1> DEFINE A == (p * R) * (s + k)
             B == s * R
  <1>16. A \in Int /\ B \in Nat \ {0} /\ A < B * (p + W) /\ B * (p - W) <= A
    BY <1>12, <1>13, <1>14, <1>15
  <1> HIDE DEF A, B
  <1>17. A \div B \in Int /\ A \div B < p + W /\ p - W <= A \div B
    BY <1>15, <1>16, DivLow, DivHigh, DivFact
  <1>18. V = A \div B
    BY DEF A, B
  <1> HIDE DEF V
  <1>19. V \in Int /\ p - Q - 1 <= V /\ V <= p + Q
    BY <1>2, <1>17, <1>18 DEF W
  <1> QED
    BY <1>2, <1>19 DEF V, Q, g

\* A pair of readings stays one as time goes on.
LEMMA PairedLater ==
  ASSUME NEW tick, NEW tm, NEW n \in Nat, NEW n2 \in Nat, n <= n2, Paired(tick, tm, n)
  PROVE  Paired(tick, tm, n2)
  <1>1. PICK m \in Nat, e \in 0..MaxDelay :
          tm = Epoch + m /\ tick = (m + e) * Rate /\ m + e <= n
    BY DEF Paired
  <1>2. m + e <= n2
    BY <1>1, ConstTypes
  <1> QED
    BY <1>1, <1>2 DEF Paired

\* ReadBoth returns a pair of readings while the clock is right.
LEMMA ReadBothPaired ==
  ASSUME TickTypeInv, skew = 0, NEW d \in 0..MaxDelay
  PROVE  Paired(ReadBoth(d).tick, ReadBoth(d).tm, now + d)
  <1>1. now \in Nat /\ now + d \in Nat
    BY ReadBothType
  <1>2. ReadBoth(d).tm = Epoch + now
    BY <1>1, ConstTypes DEF ReadBoth, Clock
  <1>3. ReadBoth(d).tick = (now + d) * Rate
    BY DEF ReadBoth
  <1> QED
    BY <1>1, <1>2, <1>3 DEF Paired

\* getTick, with a milestone that belongs together and a measured ratio, is
\* within the bound of StampAccurate.
LEMMA GoodStamp ==
  ASSUME NEW t \in Nat, NEW tick, NEW tm, NEW r, NEW c \in Int,
         Paired(tick, tm, t), Measured(r), c = Epoch + t
  PROVE  LET past == (t * Rate - tick) \div Rate
             off  == MaxDelay + (past * MaxDelay) \div (Sleep - MaxDelay) + 2
         IN  tm + ((t * Rate - tick) * r[1]) \div r[2] \in (c - off)..(c + off)
  <1>1. PICK m \in Nat, e \in 0..MaxDelay :
          tm = Epoch + m /\ tick = (m + e) * Rate /\ m + e <= t
    BY DEF Paired
  <1>2. PICK s \in Nat, k \in (-MaxDelay)..MaxDelay : s >= Sleep /\ r = <<s + k, s * Rate>>
    BY DEF Measured
  <1>3. r[1] = s + k /\ r[2] = s * Rate
    BY <1>2
  <1> DEFINE p == t - (m + e)
             V == ((p * Rate) * (s + k)) \div (s * Rate)
             Q == (p * MaxDelay) \div (Sleep - MaxDelay)
  <1>4. e \in Nat /\ e <= MaxDelay /\ p \in Nat /\ k \in Int /\ -MaxDelay <= k /\ k <= MaxDelay
    BY <1>1, ConstTypes
  <1>5. t * Rate - tick = p * Rate
    BY <1>1, <1>4, ConstTypes, Distrib
  <1> HIDE DEF p
  <1>6. (t * Rate - tick) \div Rate = p
    BY <1>4, <1>5, ConstTypes, DivExact
  <1>7. V \in Int /\ Q \in Int /\ p - Q - 1 <= V /\ V <= p + Q
    BY <1>2, <1>4, ConstTypes, Extrapolate
  <1>8. ((t * Rate - tick) * r[1]) \div r[2] = V
    BY <1>3, <1>5
  <1>9. c = tm + e + p /\ tm \in Int
    BY <1>1, <1>4, ConstTypes DEF p
  <1> HIDE DEF V, Q
  <1>10. tm + V \in (c - (MaxDelay + Q + 2))..(c + (MaxDelay + Q + 2))
    <2>1. /\ c - (MaxDelay + Q + 2) <= tm + V
          /\ tm + V <= c + (MaxDelay + Q + 2)
      BY <1>4, <1>7, <1>9, ConstTypes
    <2> QED
      BY <2>1, <1>4, <1>7, <1>9, ConstTypes
  <1> QED
    BY <1>6, <1>8, <1>10 DEF Q

\* The first update of tickUpdate measures over more than UpdateTicks; with the
\* ratio it gets, no further update is due while the run lasts.
LEMMA FirstRatio ==
  ASSUME NEW n \in Nat, n <= MaxTime, NEW d \in Nat, NEW tick0, NEW tm0,
         Paired(tick0, tm0, n), n * Rate - tick0 > UpdateTicks
  PROVE  /\ (Epoch + n - tm0) % Word = Epoch + n - tm0
         /\ Epoch + n - tm0 > 0
         /\ NeverDue(<<Epoch + n - tm0, (n + d) * Rate - tick0>>, Epoch + n)
  <1>1. PICK m \in Nat, e \in 0..MaxDelay :
          tm0 = Epoch + m /\ tick0 = (m + e) * Rate /\ m + e <= n
    BY DEF Paired
  <1> DEFINE L == n * Rate - tick0
             x == Epoch + n - tm0
             r2 == (n + d) * Rate - tick0
             y == Epoch + n + UpdateTm
             MD == MaxDelay * Rate
             H == L - UpdateTicks
  <1>2. e \in Nat /\ e <= MaxDelay /\ x \in Nat /\ x = n - m /\ x <= MaxTime
    BY <1>1, ConstTypes
  <1>3. x % Word = x
    BY <1>2, ConstTypes
  <1>4. tick0 = m * Rate + e * Rate /\ tick0 \in Int /\ n * Rate \in Int
    BY <1>1, <1>2, ConstTypes, Distrib
  <1>5. L \in Nat \ {0} /\ L > UpdateTicks /\ H \in Nat /\ L = UpdateTicks + H
    BY <1>4, ConstTypes
  <1>6. e * Rate <= MD /\ MD \in Nat /\ e * Rate \in Int
    BY <1>2, ConstTypes, MulMono
  <1>7. x * Rate = n * Rate - m * Rate /\ x * Rate \in Int /\ m * Rate \in Int
    BY <1>2, ConstTypes, Distrib
  <1>8. x * Rate <= L + MD /\ L <= x * Rate
    <2>1. 0 <= e * Rate
      BY <1>2, ConstTypes
    <2> QED
      BY <2>1, <1>4, <1>5, <1>6, <1>7
  <1>9. x > 0
    <2>1. CASE x = 0
      BY <2>1, <1>5, <1>8, ConstTypes
    <2> QED
      BY <2>1, <1>2
  <1>10. r2 \in Nat /\ L <= r2
    <2>1. n * Rate <= (n + d) * Rate /\ (n + d) * Rate \in Nat
      BY TicksGrow
    <2> QED
      BY <2>1, <1>4, <1>5
  <1> HIDE DEF L, x, r2, MD, H
  <1>11. (x * Rate) * MaxTime <= (L + MD) * MaxTime
    BY <1>5, <1>6, <1>7, <1>8, ConstTypes, MulMono
  <1>12. (L + MD) * MaxTime = MaxTime * (UpdateTicks + MD) + H * MaxTime
    BY <1>5, <1>6, ConstTypes
  <1>13. MaxTime * (UpdateTicks + MD) <= Epoch * UpdateTicks
    BY UptimeAssumption DEF MD
  <1>14. H * MaxTime <= H * Epoch
    <2>1. MaxTime * H <= Epoch * H
      BY <1>5, ConstTypes, MulMono
    <2> QED
      BY <2>1, <1>5, ConstTypes, Distrib
  <1>15. Epoch * UpdateTicks + H * Epoch = Epoch * L
    BY <1>5, ConstTypes
  <1>16. L * Epoch <= r2 * Epoch
    BY <1>5, <1>10, ConstTypes, MulMono
  <1>17. y \in Nat /\ Epoch * r2 <= y * r2
    BY <1>10, ConstTypes, MulMono
  <1> HIDE DEF y
  <1>18. (MaxTime * Rate) * x <= y * r2
    <2>1. (MaxTime * Rate) * x = (x * Rate) * MaxTime
      BY <1>2, ConstTypes
    <2>2. Epoch * L = L * Epoch /\ Epoch * r2 = r2 * Epoch
      BY <1>5, <1>10, ConstTypes
    <2>3. /\ (x * Rate) * MaxTime \in Int /\ (L + MD) * MaxTime \in Int
          /\ MaxTime * (UpdateTicks + MD) \in Int /\ H * MaxTime \in Int
          /\ Epoch * UpdateTicks \in Int /\ H * Epoch \in Int /\ L * Epoch \in Int
          /\ r2 * Epoch \in Int /\ y * r2 \in Int
      BY <1>2, <1>5, <1>6, <1>10, <1>17, ConstTypes
    <2> QED
      BY <2>1, <2>2, <2>3, <1>11, <1>12, <1>13, <1>14, <1>15, <1>16, <1>17
  <1>19. NeverDue(<<x, r2>>, Epoch + n)
    BY <1>18 DEF NeverDue, y
  <1> QED
    BY <1>3, <1>9, <1>19 DEF x, r2

\* No second update is due.
LEMMA NotDue ==
  ASSUME TickTypeInv, tu.ratio[1] > 0, NeverDue(tu.ratio, tu.tm0)
  PROVE  ~is_ellapsed(my_get_tick)
  <1> DEFINE x == tu.ratio[1]
             y == (tu.tm0 + UpdateTm) * tu.ratio[2]
  <1>1. x \in Nat /\ tu.ratio[2] \in Nat /\ tu.tm0 \in Nat
    BY DEF TickTypeInv
  <1>2. y \in Int
    BY <1>1, ConstTypes
  <1>3. now \in Nat /\ now <= MaxTime
    BY ConstTypes DEF TickTypeInv, TickTypeOK
  <1>4. now * Rate <= MaxTime * Rate /\ now * Rate \in Nat /\ MaxTime * Rate \in Nat
    BY <1>3, ConstTypes, TicksGrow
  <1>5. (now * Rate) * x <= (MaxTime * Rate) * x
    BY <1>1, <1>4, MulMono
  <1>6. (MaxTime * Rate) * x <= y
    BY DEF NeverDue
  <1>7. (now * Rate) * x \in Int /\ (MaxTime * Rate) * x \in Int
    BY <1>1, <1>4
  <1> HIDE DEF y
  <1>8. ~((now * Rate) * x > y)
    BY <1>2, <1>5, <1>6, <1>7
  <1> QED
    BY <1>8 DEF is_ellapsed, my_get_tick, y

\* The milestone belongs together when canRxFunc starts.
LEMMA CalmInit == Init => TickInv
  <1> SUFFICES ASSUME Init PROVE TickInv
    OBVIOUS
  <1>1. TickTypeInv /\ skew = 0 /\ now \in Nat
    BY TickTypeInit DEF Init
  <1>2. Paired(mile.tick, mile.tm, now)
    <2>1. 0 \in 0..MaxDelay
      BY ConstTypes
    <2>2. ReadBoth(0).tick = mile.tick /\ ReadBoth(0).tm = mile.tm /\ now + 0 = now
      BY <1>1 DEF Init, ReadBoth, my_get_tick
    <2> QED
      BY <1>1, <2>1, <2>2, ReadBothPaired
  <1>3. /\ pc = "begin" /\ tu.stat = "init" /\ tu.ratio = NoRatio /\ tu.ratio[1] = 0
        /\ stamp.at = 0
    BY DEF Init, NoRatio
  <1>4. CalmInv
    BY <1>2, <1>3 DEF CalmInv
  <1>5. StampAccurate
    BY <1>3 DEF StampAccurate
  <1> QED
    BY <1>1, <1>4, <1>5 DEF TickInv

\* tickUpdate keeps the pairs together, and moves the milestone at most once.
LEMMA CalmUpdate ==
  ASSUME TickTypeInv, skew = 0, CalmInv, NEW d \in 0..MaxDelay, updateTick(d),
         UNCHANGED <<pc, ratio, valid>>, pc = "loop", now \in Nat, now' \in Nat,
         now <= now'
  PROVE  CalmInv'
  <1> DEFINE T == [stat : {"init", "tick0", "tick1"}, tick0 : Nat, tm0 : Nat,
                   tm1 : Nat, ratio : Nat \X Nat]
  <1>1. tu \in T
    BY DEF TickTypeInv
  <1>2. /\ ReadBoth(d).tm = Epoch + now /\ Clock = Epoch + now
        /\ ReadBoth(d).tick = (now + d) * Rate
        /\ ReadBoth(d).tick \in Nat /\ ReadBoth(d).tm \in Nat
    BY ReadBothType, ConstTypes DEF Clock, Times
  <1>3. Paired(mile.tick, mile.tm, now')
    BY PairedLater DEF CalmInv
  <1>4. valid' /\ Measured(ratio')
    BY DEF CalmInv
  <1>5. ASSUME Paired(mile'.tick, mile'.tm, now'), tu'.stat # "init",
               tu'.ratio[1] = 0 => Paired(tu'.tick0, tu'.tm0, now'),
               tu'.ratio[1] > 0 => NeverDue(tu'.ratio, tu'.tm0)
        PROVE  CalmInv'
    BY <1>4, <1>5 DEF CalmInv
  <1>6. CASE tu.stat = "init"
    <2>1. /\ tu' = [tu EXCEPT !.stat = "tick0", !.tick0 = ReadBoth(d).tick,
                              !.tm0 = Clock, !.tm1 = Clock]
          /\ now' = now + d /\ mile' = mile
      BY <1>6 DEF updateTick
    <2>2. /\ tu'.tick0 = ReadBoth(d).tick /\ tu'.tm0 = ReadBoth(d).tm
          /\ tu'.ratio = tu.ratio /\ tu'.stat = "tick0"
      BY <1>1, <1>2, <2>1
    <2>3. tu.ratio[1] = 0
      BY <1>6 DEF CalmInv, NoRatio
    <2>4. Paired(tu'.tick0, tu'.tm0, now')
      BY <2>1, <2>2, ReadBothPaired
    <2> QED
      BY <1>3, <1>5, <2>1, <2>2, <2>3, <2>4
  <1>7. CASE tu.stat = "tick0"
    <2>1. tu' = [tu EXCEPT !.stat = "tick1"] /\ mile' = mile
      BY <1>7 DEF updateTick
    <2>2. /\ tu'.tick0 = tu.tick0 /\ tu'.tm0 = tu.tm0 /\ tu'.ratio = tu.ratio
          /\ tu'.stat = "tick1"
      BY <1>1, <2>1
    <2>3. tu.ratio[1] = 0 => Paired(tu.tick0, tu.tm0, now')
      BY <1>7, PairedLater DEF CalmInv
    <2>4. tu.ratio[1] > 0 => NeverDue(tu.ratio, tu.tm0)
      BY DEF CalmInv
    <2> QED
      BY <1>3, <1>5, <2>1, <2>2, <2>3, <2>4
  <1>8. CASE tu.stat = "tick1" /\ ~is_ellapsed(my_get_tick)
    <2>1. tu' = tu /\ mile' = mile
      BY <1>8 DEF updateTick
    <2>3. tu.ratio[1] = 0 => Paired(tu.tick0, tu.tm0, now')
      BY <1>8, PairedLater DEF CalmInv
    <2>4. tu.ratio[1] > 0 => NeverDue(tu.ratio, tu.tm0)
      BY DEF CalmInv
    <2> QED
      BY <1>3, <1>5, <1>8, <2>1, <2>3, <2>4
  <1>9. CASE tu.stat = "tick1" /\ is_ellapsed(my_get_tick)
    <2>1. Milestone(ReadBoth(d))
      BY <1>9 DEF updateTick
    <2>2. ~(tu.ratio[1] > 0)
      BY <1>9, NotDue DEF CalmInv
    <2>3. tu.ratio[1] = 0
      BY <1>1, <2>2
    <2>4. Paired(tu.tick0, tu.tm0, now) /\ Paired(tu.tick0, tu.tm0, now')
      BY <1>9, <2>3, PairedLater DEF CalmInv
    <2>5. now * Rate - tu.tick0 > UpdateTicks
      BY <1>9, <2>2 DEF is_ellapsed, my_get_tick
    <2>6. now <= MaxTime /\ d \in Nat
      BY ConstTypes DEF TickTypeInv, TickTypeOK
    <2> DEFINE x == Epoch + now - tu.tm0
               y == (now + d) * Rate - tu.tick0
    <2>7. x % Word = x /\ x > 0 /\ NeverDue(<<x, y>>, Epoch + now)
      BY <2>4, <2>5, <2>6, FirstRatio
    <2>8. (ReadBoth(d).tm - tu.tm0) % Word = x /\ ReadBoth(d).tick - tu.tick0 = y
      <3>1. ReadBoth(d).tm - tu.tm0 = x /\ ReadBoth(d).tick - tu.tick0 = y
        BY <1>1, <1>2, <2>6, ConstTypes
      <3> HIDE DEF x, y
      <3> QED
        BY <3>1, <2>7
    <2> HIDE DEF x, y
    <2>9. /\ mile' = [tick |-> tu.tick0, tm |-> tu.tm0]
          /\ tu' = [tu EXCEPT !.stat = "tick0", !.tm0 = Epoch + now, !.tm1 = Epoch + now,
                              !.ratio = <<x, y>>]
      BY <1>2, <2>1, <2>8 DEF Milestone
    <2>10. /\ mile'.tick = tu.tick0 /\ mile'.tm = tu.tm0
           /\ tu'.stat = "tick0" /\ tu'.tm0 = Epoch + now /\ tu'.ratio = <<x, y>>
      BY <1>1, <2>9
    <2>11. tu'.ratio[1] = x /\ ~(x = 0)
      BY <2>7, <2>10
    <2> QED
      BY <1>5, <2>4, <2>7, <2>10, <2>11
  <1> QED
    BY <1>1, <1>6, <1>7, <1>8, <1>9

\* A frame that is stamped while the clock is right gets a good stamp.
LEMMA StampTaken ==
  ASSUME TickTypeInv, CalmInv, skew = 0, NEW d \in 0..MaxDelay, StampFrame(d)
  PROVE  StampAccurate'
  <1> DEFINE past == (my_get_tick - mile.tick) \div Rate
             off  == MaxDelay + (past * MaxDelay) \div (Sleep - MaxDelay) + 2
  <1>1. now \in Nat /\ Clock \in Int /\ Clock = Epoch + now
    BY ReadBothType, ConstTypes DEF Clock
  <1>2. Paired(mile.tick, mile.tm, now) /\ Measured(ratio) /\ valid
    BY DEF StampFrame, CalmInv
  <1>3. mile.tm + ((my_get_tick - mile.tick) * ratio[1]) \div ratio[2]
          \in (Clock - off)..(Clock + off)
    BY <1>1, <1>2, GoodStamp DEF my_get_tick
  <1>4. getTick \in (Clock - off)..(Clock + off)
    <2> DEFINE v == mile.tm + ((my_get_tick - mile.tick) * ratio[1]) \div ratio[2]
    <2>1. getTick = v
      BY <1>2, Zenon DEF getTick
    <2> HIDE DEF off
    <2> QED
      BY <1>3, <2>1
  <1>5. /\ stamp'.value = getTick /\ stamp'.clock = Clock
        /\ stamp'.from = mile.tick /\ stamp'.at = my_get_tick
    BY DEF StampFrame
  <1> QED
    BY <1>4, <1>5 DEF StampAccurate

\* Every step keeps them together, calibrates and stamps well.
LEMMA CalmNext == TickInv /\ [Next]_vars => TickInv'
  <1> SUFFICES ASSUME TickInv, [Next]_vars PROVE TickInv'
    OBVIOUS
  <1>1. TickTypeInv /\ TickTypeInv' /\ StampAccurate /\ (skew = 0 => CalmInv)
    BY TickTypeNext DEF TickInv
  <1>2. now \in Nat /\ now' \in Nat
    BY <1>1, ConstTypes DEF TickTypeInv, TickTypeOK
  <1>3. now <= now'
    <2>1. ASSUME NEW d \in 0..MaxDelay,
                 beginInitTick(d) \/ SleepEnds(d) \/ endInitTick(d) \/ StampFrame(d)
          PROVE  now <= now'
      <3>1. d \in Nat
        BY ConstTypes
      <3>2. now' \in {now, now + d, now + Sleep + d}
        BY <2>1 DEF beginInitTick, SleepEnds, endInitTick, StampFrame, updateTick
      <3> QED
        BY <1>2, <3>1, <3>2, ConstTypes
    <2>2. ASSUME TimePasses \/ UNCHANGED vars \/ \E s \in Steps : ClockSet(s)
          PROVE  now <= now'
      BY <1>2, <2>2 DEF TimePasses, ClockSet, vars
    <2> QED
      BY <2>1, <2>2 DEF Next
  <1>4. skew' = 0 => skew = 0
    BY DEF Next, vars, beginInitTick, SleepEnds, endInitTick, StampFrame, TimePasses, ClockSet
  <1>5. SUFFICES ASSUME skew = 0, CalmInv PROVE (skew' = 0 => CalmInv') /\ StampAccurate'
    <2>1. CASE skew' = 0
      BY <1>1, <1>4, <1>5, <2>1 DEF TickInv
    <2>2. CASE skew' # 0
      BY <1>1, <2>2 DEF TickInv, StampAccurate
    <2> QED
      BY <2>1, <2>2
  <1>6. ASSUME UNCHANGED stamp, skew' = 0 => CalmInv'
        PROVE  (skew' = 0 => CalmInv') /\ StampAccurate'
    BY <1>1, <1>5, <1>6 DEF StampAccurate
  <1>7. Paired(mile.tick, mile.tm, now')
    BY <1>2, <1>3, <1>5, PairedLater DEF CalmInv
  <1>8. /\ tu.stat = "init" => tu.ratio = NoRatio
        /\ (tu.stat # "init" /\ tu.ratio[1] = 0) => Paired(tu.tick0, tu.tm0, now')
        /\ tu.ratio[1] > 0 => NeverDue(tu.ratio, tu.tm0)
    BY <1>2, <1>3, <1>5, PairedLater DEF CalmInv
  <1>9. ASSUME UNCHANGED tu, Paired(mile'.tick, mile'.tm, now'),
               pc' = "end" => mile'.tick + Sleep * Rate <= my_get_tick',
               pc' = "loop" => valid' /\ Measured(ratio')
        PROVE  CalmInv'
    BY <1>8, <1>9 DEF CalmInv
  <1>u. CASE UNCHANGED vars
    BY <1>5, <1>6, <1>u DEF vars, CalmInv, my_get_tick
  <1>a. ASSUME NEW d \in 0..MaxDelay, beginInitTick(d) PROVE CalmInv' /\ UNCHANGED stamp
    <2>1. Paired(mile'.tick, mile'.tm, now')
      BY <1>1, <1>5, <1>a, ReadBothPaired DEF beginInitTick
    <2> QED
      BY <1>9, <1>a, <2>1 DEF beginInitTick
  <1>b. ASSUME NEW d \in 0..MaxDelay, SleepEnds(d) PROVE CalmInv' /\ UNCHANGED stamp
    <2>1. mile'.tick + Sleep * Rate <= my_get_tick'
      <3>1. mile.tick \in Nat /\ mile.tick <= now * Rate
        BY <1>1 DEF TickTypeInv, TickTypeOK, my_get_tick
      <3>2. d \in Nat /\ now' = (now + Sleep) + d /\ now + Sleep \in Nat
        BY <1>2, <1>b, ConstTypes DEF SleepEnds
      <3>3. (now + Sleep) * Rate <= now' * Rate
        BY <1>2, <3>2, TicksGrow
      <3>4. (now + Sleep) * Rate = now * Rate + Sleep * Rate
        BY <1>2, ConstTypes, Distrib
      <3>5. now * Rate \in Nat /\ now' * Rate \in Nat
        BY <1>2, TicksGrow
      <3> QED
        BY <1>b, <3>1, <3>3, <3>4, <3>5, ConstTypes DEF SleepEnds, my_get_tick
    <2> QED
      BY <1>7, <1>9, <1>b, <2>1 DEF SleepEnds
  <1>c. ASSUME NEW d \in 0..MaxDelay, endInitTick(d) PROVE CalmInv' /\ UNCHANGED stamp
    <2>0. /\ UNCHANGED <<mile, tu, stamp>> /\ pc' = "loop" /\ pc = "end"
      BY <1>c DEF endInitTick
    <2>1. PICK m \in Nat, e \in 0..MaxDelay :
            mile.tm = Epoch + m /\ mile.tick = (m + e) * Rate /\ m + e <= now
      BY <1>5 DEF CalmInv, Paired
    <2>2. /\ d \in Nat /\ d <= MaxDelay /\ e \in Nat /\ e <= MaxDelay
          /\ ReadBoth(d).tm = Epoch + now /\ ReadBoth(d).tick = (now + d) * Rate
      BY <1>1, <1>2, <1>5, ConstTypes DEF ReadBoth, Clock
    <2> DEFINE s == (now + d) - (m + e)
               k == e - d
    <2>3. s \in Nat /\ k \in (-MaxDelay)..MaxDelay
      BY <1>2, <2>1, <2>2, ConstTypes
    <2>4. ReadBoth(d).tick - mile.tick = s * Rate
      BY <1>2, <2>1, <2>2, ConstTypes, Distrib
    <2>5. ReadBoth(d).tm - mile.tm = s + k
      BY <1>2, <2>1, <2>2, ConstTypes
    <2>6. Sleep <= now - (m + e)
      <3> DEFINE w == now - (m + e)
      <3>1. w \in Nat
        BY <1>2, <2>1, <2>2
      <3>2. mile.tick + Sleep * Rate <= now * Rate
        BY <1>5, <2>0 DEF CalmInv, my_get_tick
      <3>3. now * Rate = w * Rate + (m + e) * Rate
        BY <1>2, <2>1, <2>2, ConstTypes
      <3>4. w * Rate \in Nat /\ (m + e) * Rate \in Nat
        BY <3>1, <2>2, ConstTypes
      <3> HIDE DEF w
      <3>5. Sleep * Rate <= w * Rate
        BY <2>1, <3>2, <3>3, <3>4, ConstTypes
      <3>6. ~(w < Sleep)
        BY <3>1, <3>4, <3>5, ConstTypes, MulStrict
      <3> QED
        BY <3>1, <3>6, ConstTypes DEF w
    <2>7. Sleep <= s /\ Sleep <= s + k
      BY <1>2, <2>1, <2>2, <2>6, ConstTypes
    <2> HIDE DEF s, k
    <2>8. Sleep * Rate <= s * Rate /\ s * Rate \in Nat
      BY <2>3, <2>7, ConstTypes, TicksGrow
    <2>9. /\ ReadBoth(d).tm >= mile.tm /\ ReadBoth(d).tick >= mile.tick
          /\ ReadBoth(d).tm - mile.tm >= MinTm /\ ReadBoth(d).tick - mile.tick >= MinTick
      <3>1. /\ ReadBoth(d).tm \in Int /\ mile.tm \in Int
            /\ ReadBoth(d).tick \in Int /\ mile.tick \in Int
        BY <1>2, <2>1, <2>2, ConstTypes
      <3>2. k \in Int
        BY <2>3, ConstTypes
      <3> QED
        BY <3>1, <3>2, <2>3, <2>4, <2>5, <2>7, <2>8, ConstTypes
    <2>10. valid'
      BY <1>c, <2>9 DEF endInitTick
    <2>11. ratio' = <<s + k, s * Rate>>
      BY <1>c, <2>4, <2>5, <2>10 DEF endInitTick
    <2>12. Measured(ratio')
      BY <2>3, <2>7, <2>11 DEF Measured
    <2> QED
      BY <1>7, <1>9, <2>0, <2>10, <2>12
  <1>d. ASSUME NEW d \in 0..MaxDelay, StampFrame(d) PROVE CalmInv' /\ StampAccurate'
    <2>1. CalmInv'
      BY <1>1, <1>2, <1>3, <1>5, <1>d, CalmUpdate DEF StampFrame
    <2> QED
      BY <1>1, <1>5, <1>d, <2>1, StampTaken
  <1>e. ASSUME TimePasses PROVE CalmInv' /\ UNCHANGED stamp
    BY <1>5, <1>7, <1>9, <1>e DEF TimePasses, CalmInv
  <1>f. ASSUME NEW s \in Steps, ClockSet(s) PROVE CalmInv' /\ UNCHANGED stamp
    BY <1>5, <1>f DEF ClockSet, CalmInv, my_get_tick
  <1> QED
    BY <1>6, <1>u, <1>a, <1>b, <1>c, <1>d, <1>e, <1>f DEF Next

\* While nobody sets the clock, every stamp is off by at most one preemption, what
\* the measured ratio is off by, and rounding; and the calibration cannot fail.
THEOREM StampsAccurate == Spec => []StampAccurate
  <1>1. TickInv => StampAccurate
    BY DEF TickInv
  <1> QED
    BY <1>1, CalmInit, CalmNext, PTL DEF Spec
==============================================================================
