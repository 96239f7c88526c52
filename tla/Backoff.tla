------------------------------- MODULE Backoff -------------------------------
(***************************************************************************)
(* The reconnect delay of runCoordinator (node/coord_client.go): a discrete  *)
(* logistic step, times a random factor that is applied after the cap.       *)
(*                                                                         *)
(* The code computes with floats.  Here times are whole numbers of a unit, of *)
(* which there are Second in a second, and the step is the relation between    *)
(* two delays; the theorems hold for any unit, so for any precision.         *)
(***************************************************************************)
EXTENDS Integers, TLAPS

CONSTANT Second

VARIABLES
    delay, \* for the next disconnect
    wait   \* the wait that was last begun, 0 before

backoffVars == <<delay, wait>>

backoffInitial == Second
backoffMax == 60 * Second
backoffResetAfter == 30 * Second

\* What nextBackoff(cur) may return: cur * (1 + (1 - cur/backoffMax)/2), times a
\* factor from 0.8 to 1.2, multiplied by 1200 * Second.
NextBackoff(cur, next) ==
    /\ 8 * (cur * (180 * Second - cur)) <= 1200 * (Second * next)
    /\ 1200 * (Second * next) <= 12 * (cur * (180 * Second - cur))

Init == delay = backoffInitial /\ wait = 0

\* connectCoordinator returns after a time; the wait begins with the delay so far, or
\* with the initial one.
Disconnect(lasted) ==
    LET cur == IF lasted >= backoffResetAfter THEN backoffInitial ELSE delay
    IN  /\ wait' = cur
        /\ delay' \in Int
        /\ NextBackoff(cur, delay')

Next == \E lasted \in Nat : Disconnect(lasted)

Spec == Init /\ [][Next]_backoffVars

\* The factor takes the delay past the cap, but never past 4/3 of it, and the logistic
\* step, which turns negative beyond 3 * backoffMax, is never taken there.
DelayBounded ==
    /\ backoffInitial <= delay /\ 3 * delay <= 4 * backoffMax
    /\ wait # 0 => backoffInitial <= wait /\ 3 * wait <= 4 * backoffMax

\* Failed connections never make the waits collapse: the delay shrinks, by a low
\* factor, only above half the cap, and then not below half the cap.
NoCollapse ==
    \A lasted \in Nat : lasted < backoffResetAfter /\ Disconnect(lasted)
        => delay' >= delay \/ 2 * delay' >= backoffMax

------------------------------------------------------------------------------
Positive == Second \in Nat /\ Second > 0
Inv == delay \in Int /\ wait \in Int /\ DelayBounded

\* One step from within the bounds stays within them.
LEMMA StepBounded ==
    ASSUME Positive, NEW cur \in Int, NEW next \in Int,
           Second <= cur, cur <= 80 * Second, NextBackoff(cur, next)
    PROVE  Second <= next /\ next <= 80 * Second
<1> DEFINE S == Second
<1>0. S \in Int /\ S > 0 /\ S <= cur /\ cur <= 80 * S
  BY DEF Positive
<1>1. 8 * (cur * (180 * S - cur)) <= 1200 * (S * next)
  BY DEF NextBackoff
<1>2. 1200 * (S * next) <= 12 * (cur * (180 * S - cur))
  BY DEF NextBackoff
<1> HIDE DEF S
<1>3. (cur - S) * (179 * S - cur) >= 0
  BY ONLY <1>0, cur \in Int, Z3
<1>4. (80 * S - cur) * (100 * S - cur) >= 0
  BY ONLY <1>0, cur \in Int, Z3
<1>5. cur * (180 * S - cur) = (cur - S) * (179 * S - cur) + 179 * (S * S)
  BY ONLY <1>0, cur \in Int, Z3
<1>6. 8000 * (S * S) - cur * (180 * S - cur) = (80 * S - cur) * (100 * S - cur)
  BY ONLY <1>0, cur \in Int, Z3
<1>7. 1200 * (S * next) >= 8 * (179 * (S * S))
  <2> DEFINE x == S * next
             y == S * S
             z == cur * (180 * S - cur)
             w == (cur - S) * (179 * S - cur)
  <2>1. x \in Int /\ y \in Int /\ z \in Int /\ w \in Int
    BY ONLY <1>0, cur \in Int, next \in Int
  <2>2. 8 * z <= 1200 * x /\ w >= 0 /\ z = w + 179 * y
    BY ONLY <1>1, <1>3, <1>5
  <2> HIDE DEF x, y, z, w
  <2>3. 1200 * x >= 8 * (179 * y)
    BY ONLY <2>1, <2>2
  <2> QED
    BY ONLY <2>3 DEF x, y
<1>8. 1200 * (S * next) <= 12 * (8000 * (S * S))
  <2> DEFINE x == S * next
             y == S * S
             z == cur * (180 * S - cur)
             w == (80 * S - cur) * (100 * S - cur)
  <2>1. x \in Int /\ y \in Int /\ z \in Int /\ w \in Int
    BY ONLY <1>0, cur \in Int, next \in Int
  <2>2. 1200 * x <= 12 * z /\ w >= 0 /\ 8000 * y - z = w
    BY ONLY <1>2, <1>4, <1>6
  <2> HIDE DEF x, y, z, w
  <2>3. 1200 * x <= 12 * (8000 * y)
    BY ONLY <2>1, <2>2
  <2> QED
    BY ONLY <2>3 DEF x, y
<1>9. S <= next
  BY ONLY <1>0, <1>7, next \in Int, Z3
<1>10. next <= 80 * S
  BY ONLY <1>0, <1>8, next \in Int, Z3
<1> QED
  BY <1>9, <1>10 DEF S

\* Below half the cap a step does not shrink; above, it stays above half the cap.
LEMMA StepHolds ==
    ASSUME Positive, NEW cur \in Int, NEW next \in Int,
           Second <= cur, cur <= 80 * Second, NextBackoff(cur, next)
    PROVE  next >= cur \/ next >= 30 * Second
<1> DEFINE S == Second
<1>0. S \in Int /\ S > 0 /\ S <= cur /\ cur <= 80 * S
  BY DEF Positive
<1>1. 8 * (cur * (180 * S - cur)) <= 1200 * (S * next)
  BY DEF NextBackoff
<1> HIDE DEF S
<1>2. CASE cur <= 30 * S
  <2>1. cur * (30 * S - cur) >= 0
    BY ONLY <1>0, <1>2, cur \in Int, Z3
  <2>2. cur * (180 * S - cur) = cur * (30 * S - cur) + 150 * (S * cur)
    BY ONLY <1>0, cur \in Int, Z3
  <2>3. S * next >= S * cur
    <3> DEFINE x == S * next
               y == S * cur
               z == cur * (180 * S - cur)
               w == cur * (30 * S - cur)
    <3>1. x \in Int /\ y \in Int /\ z \in Int /\ w \in Int
      BY ONLY <1>0, cur \in Int, next \in Int
    <3>2. 8 * z <= 1200 * x /\ w >= 0 /\ z = w + 150 * y
      BY ONLY <1>1, <2>1, <2>2
    <3> HIDE DEF x, y, z, w
    <3>3. x >= y
      BY ONLY <3>1, <3>2
    <3> QED
      BY ONLY <3>3 DEF x, y
  <2> QED
    BY ONLY <1>0, <2>3, cur \in Int, next \in Int, Z3 DEF S
<1>3. CASE cur > 30 * S
  <2>1. (cur - 30 * S) * (150 * S - cur) >= 0
    BY ONLY <1>0, <1>3, cur \in Int, Z3
  <2>2. cur * (180 * S - cur) = (cur - 30 * S) * (150 * S - cur) + 4500 * (S * S)
    BY ONLY <1>0, cur \in Int, Z3
  <2>3. S * next >= 30 * (S * S)
    <3> DEFINE x == S * next
               y == S * S
               z == cur * (180 * S - cur)
               w == (cur - 30 * S) * (150 * S - cur)
    <3>1. x \in Int /\ y \in Int /\ z \in Int /\ w \in Int
      BY ONLY <1>0, cur \in Int, next \in Int
    <3>2. 8 * z <= 1200 * x /\ w >= 0 /\ z = w + 4500 * y
      BY ONLY <1>1, <2>1, <2>2
    <3> HIDE DEF x, y, z, w
    <3>3. x >= 30 * y
      BY ONLY <3>1, <3>2
    <3> QED
      BY ONLY <3>3 DEF x, y
  <2> QED
    BY ONLY <1>0, <2>3, next \in Int, Z3 DEF S
<1> QED
  BY <1>0, <1>2, <1>3

\* In seconds and in the constants of the code.
LEMMA Scaled ==
    ASSUME NEW s \in Int, NEW d \in Int
    PROVE  /\ d <= 80 * s => 3 * d <= 4 * (60 * s)
           /\ d >= 30 * s => 2 * d >= 60 * s
OBVIOUS

LEMMA Bounds ==
    Inv /\ Positive => Second <= delay /\ delay <= 80 * Second
BY DEF Inv, DelayBounded, Positive, backoffInitial, backoffMax

LEMMA Invariance == Positive /\ Spec => []Inv
<1> SUFFICES ASSUME Positive PROVE Spec => []Inv
    OBVIOUS
<1>0. Second \in Int /\ Second > 0
  BY DEF Positive
<1>1. Init => Inv
  BY <1>0 DEF Init, Inv, DelayBounded, backoffInitial, backoffMax
<1>2. Inv /\ [Next]_backoffVars => Inv'
  <2> SUFFICES ASSUME Inv, [Next]_backoffVars PROVE Inv'
      OBVIOUS
  <2>1. CASE UNCHANGED backoffVars
    BY <2>1 DEF backoffVars, Inv, DelayBounded
  <2>2. ASSUME NEW lasted \in Nat, Disconnect(lasted) PROVE Inv'
    <3>1. wait' \in Int /\ Second <= wait' /\ wait' <= 80 * Second
      BY <1>0, <2>2, Bounds DEF Disconnect, Inv, backoffInitial
    <3>2. delay' \in Int /\ NextBackoff(wait', delay')
      BY <2>2 DEF Disconnect
    <3>3. Second <= delay' /\ delay' <= 80 * Second
      BY <3>1, <3>2, StepBounded
    <3>4. 3 * delay' <= 4 * (60 * Second) /\ 3 * wait' <= 4 * (60 * Second)
      BY <1>0, <3>1, <3>2, <3>3, Scaled
    <3> QED
      BY <3>1, <3>2, <3>3, <3>4 DEF Inv, DelayBounded, backoffInitial, backoffMax
  <2> QED
    BY <2>1, <2>2 DEF Next
<1> QED
  BY <1>1, <1>2, PTL DEF Spec

\* The delay and every wait stay between the initial delay and 4/3 of the cap.
THEOREM Bounded == Positive /\ Spec => []DelayBounded
<1> SUFFICES ASSUME Positive PROVE Spec => []DelayBounded
    OBVIOUS
<1>1. Inv => DelayBounded
  BY DEF Inv
<1> QED
  BY <1>1, Invariance, PTL

\* While connections keep failing within 30 s, the waits grow until they are half the
\* cap and stay above it: a coordinator that is down is not tried ever faster.
THEOREM DoesNotCollapse == Positive /\ Spec => [][NoCollapse]_backoffVars
<1> SUFFICES ASSUME Positive PROVE Spec => [][NoCollapse]_backoffVars
    OBVIOUS
<1>1. Inv => NoCollapse
  <2> SUFFICES ASSUME Inv, NEW lasted \in Nat, lasted < backoffResetAfter, Disconnect(lasted)
               PROVE  delay' >= delay \/ 2 * delay' >= backoffMax
      BY DEF NoCollapse
  <2>0. Second \in Int /\ delay \in Int
    BY DEF Positive, Inv
  <2>1. delay' \in Int
    BY DEF Disconnect
  <2>2. NextBackoff(delay, delay')
    BY <2>0 DEF Disconnect, backoffResetAfter
  <2>3. delay' >= delay \/ delay' >= 30 * Second
    BY <2>0, <2>1, <2>2, Bounds, StepHolds
  <2>4. delay' >= 30 * Second => 2 * delay' >= 60 * Second
    BY <2>0, <2>1, Scaled
  <2> QED
    BY <2>3, <2>4 DEF backoffMax
<1> QED
  BY <1>1, Invariance, PTL
==============================================================================
