--------------------------- MODULE ScheduleProofs ---------------------------
(***************************************************************************)
(* Proofs, for every zone with one shift, every calendar and every start,  *)
(* that no schedule misses or repeats a due time, however late an attempt  *)
(* completes: by minutes, hours, days and weeks without any condition, by  *)
(* months and years where no clock change spans the end of a month and the *)
(* start is not in the second pass of a repeated time.                     *)
(***************************************************************************)
EXTENDS Schedule, TLAPS, WellFoundedInduction

-----------------------------------------------------------------------------
(* Arithmetic                                                              *)

LEMMA Quotient ==
    ASSUME NEW a \in Int, NEW b \in Nat \ {0}
    PROVE  /\ a \div b \in Int
           /\ (a \div b) * b <= a /\ a < (a \div b) * b + b
  OBVIOUS

LEMMA TimesMonotone ==
    ASSUME NEW j \in Int, NEW k \in Int, j <= k, NEW b \in Nat
    PROVE  j * b \in Int /\ k * b \in Int /\ j * b <= k * b
  OBVIOUS

LEMMA TimesNext ==
    ASSUME NEW j \in Int, NEW b \in Nat
    PROVE  j * b \in Int /\ (j + 1) * b = j * b + b /\ (j + 1) * b \in Int
  OBVIOUS

-----------------------------------------------------------------------------
(* The local clock                                                         *)

(* The instant at which the local clock shows w for the first time, or     *)
(* would without the gap.                                                  *)
First(w) == ToUtc([wall |-> w, fold |-> 0])

LEMMA FirstValue ==
    ASSUME NEW w \in Int
    PROVE  First(w) = IF w - Shift \in Summer THEN w - Shift ELSE w
<1>s. Shift \in Int /\ Shift > 0
  BY ZoneAssumption, CalendarAssumption
<1>1. CASE w - Shift \in Summer
  <2>1. w - Shift \in Showing(w) /\ \A u \in Showing(w) : w - Shift <= u
    BY <1>s, <1>1 DEF Showing, Offset
  <2>2. \A t \in Showing(w) : t \in Int
    BY <1>s DEF Showing
  <2> DEFINE d == [wall |-> w, fold |-> 0]
             Earliest(t) == \A u \in Showing(d.wall) :
                               IF d.fold = 0 THEN t <= u ELSE t >= u
  <2>3. First(w) = CHOOSE t \in Showing(d.wall) : Earliest(t)
    BY <2>1 DEF First, ToUtc
  <2>4. \E t \in Showing(d.wall) : Earliest(t)
    BY <2>1
  <2> HIDE DEF Earliest
  <2>5. First(w) \in Showing(d.wall) /\ Earliest(First(w))
    BY <2>3, <2>4
  <2>6. First(w) \in Showing(w) /\ \A u \in Showing(w) : First(w) <= u
    BY <2>5 DEF Earliest
  <2> QED
    BY <1>s, <1>1, <2>1, <2>2, <2>6
<1>2. CASE w - Shift \notin Summer /\ w \in Summer
  <2>1. Showing(w) = {}
    BY <1>s, <1>2 DEF Showing, Offset
  <2> QED
    BY <1>s, <1>2, <2>1 DEF First, ToUtc
<1>3. CASE w - Shift \notin Summer /\ w \notin Summer
  <2>1. Showing(w) = {w}
    BY <1>s, <1>3 DEF Showing, Offset
  <2> QED
    BY <1>3, <2>1 DEF First, ToUtc
<1> QED
  BY <1>1, <1>2, <1>3

LEMMA LocalWall ==
    ASSUME NEW t \in Int
    PROVE  /\ Local(t).wall \in Int
           /\ Local(t).wall = IF t \in Summer THEN t + Shift ELSE t
  BY ZoneAssumption, CalendarAssumption DEF Local, Offset

(* The local time of an instant is shown first at that instant or before.  *)
LEMMA FirstNotLater ==
    ASSUME NEW t \in Int
    PROVE  First(Local(t).wall) <= t
<1>s. Shift \in Int /\ Shift > 0
  BY ZoneAssumption, CalendarAssumption
<1>1. CASE t \in Summer
  <2>1. Local(t).wall = t + Shift /\ t + Shift \in Int /\ (t + Shift) - Shift = t
    BY <1>s, <1>1, LocalWall
  <2>2. First(t + Shift) = t
    BY <1>1, <2>1, FirstValue
  <2> QED
    BY <2>1, <2>2
<1>2. CASE t \notin Summer
  <2>1. Local(t).wall = t
    BY <1>2, LocalWall
  <2> QED
    BY <1>s, <2>1, FirstValue
<1> QED
  BY <1>1, <1>2

-----------------------------------------------------------------------------
(* Elapsed time                                                            *)

(* The result is the first instant after `after` at a whole number of      *)
(* intervals from the start.                                               *)
LEMMA ElapsedIsNext ==
    ASSUME NEW s \in Int, NEW after \in Int, s <= after, NEW interval \in Nat \ {0}
    PROVE  \E n \in 1..after - s + 1 :
             /\ NextElapsed(s, after, interval) = s + n * interval
             /\ after < s + n * interval /\ s + n * interval \in Int
             /\ \A k \in Int : k < n => s + k * interval <= after
<1> DEFINE q == (after - s) \div interval
<1>1. /\ q \in Int /\ q * interval \in Int
      /\ q * interval <= after - s /\ after - s < q * interval + interval
  BY Quotient, TimesNext
<1>2. NextElapsed(s, after, interval) = s + (q + 1) * interval
  BY DEF NextElapsed
<1> HIDE DEF q
<1>3. (q + 1) * interval = q * interval + interval
  BY <1>1, TimesNext
<1>4. 0 <= q
  <2>1. CASE q <= -1
    <3>1. q * interval <= (-1) * interval
      BY <1>1, <2>1, TimesMonotone
    <3> QED
      BY <1>1, <3>1
  <2> QED
    BY <1>1, <2>1
<1>5. q <= after - s
  <2>1. q * 1 <= q * interval
    BY <1>1, <1>4
  <2> QED
    BY <1>1, <2>1
<1>6. q + 1 \in 1..after - s + 1
  BY <1>1, <1>4, <1>5
<1>7. ASSUME NEW k \in Int, k < q + 1
      PROVE  s + k * interval <= after
  <2>1. k * interval \in Int /\ k * interval <= q * interval
    BY <1>1, <1>7, TimesMonotone
  <2> QED
    BY <1>1, <2>1
<1>8. after < s + (q + 1) * interval /\ s + (q + 1) * interval \in Int
  BY <1>1, <1>3
<1> QED
  BY <1>2, <1>6, <1>7, <1>8

-----------------------------------------------------------------------------
(* Local days                                                              *)

LEMMA FirstMonotone ==
    ASSUME NEW v \in Int, NEW w \in Int, v + Shift < w \/ v = w
    PROVE  /\ First(v) \in Int /\ First(w) \in Int /\ First(v) <= First(w)
           /\ w - Shift <= First(w) /\ First(w) <= w
<1>1. Shift \in Int /\ Shift > 0
  BY ZoneAssumption, CalendarAssumption
<1> QED
  BY <1>1, FirstValue

(* The n-th local date, counted from the start's.                          *)
DateAt(s, n, interval) == First(Local(s).wall + n * interval)

LEMMA DatesInOrder ==
    ASSUME NEW s \in Int, NEW j \in Int, NEW k \in Int, j <= k,
           NEW interval \in Nat, Shift < interval
    PROVE  /\ DateAt(s, j, interval) \in Int /\ DateAt(s, k, interval) \in Int
           /\ DateAt(s, j, interval) <= DateAt(s, k, interval)
<1>s. Shift \in Int /\ Shift > 0 /\ Local(s).wall \in Int
  BY ZoneAssumption, CalendarAssumption, LocalWall
<1>1. CASE j = k
  <2>1. Local(s).wall + k * interval \in Int
    BY <1>s, TimesNext
  <2> QED
    BY <1>1, <2>1, FirstMonotone DEF DateAt
<1>2. CASE j < k
  <2>1. (j + 1) * interval <= k * interval /\ k * interval \in Int
    BY <1>2, TimesMonotone
  <2>2. (j + 1) * interval = j * interval + interval /\ j * interval \in Int
    BY TimesNext
  <2> DEFINE v == Local(s).wall + j * interval
             w == Local(s).wall + k * interval
  <2>3. v \in Int /\ w \in Int /\ v + Shift < w
    BY <1>s, <2>1, <2>2
  <2> HIDE DEF v, w
  <2>4. First(v) \in Int /\ First(w) \in Int /\ First(v) <= First(w)
    BY <2>3, FirstMonotone
  <2> QED
    BY <2>4 DEF DateAt, v, w
<1> QED
  BY <1>1, <1>2

(* The start is the first date, or the second showing of its local time.   *)
LEMMA FirstDate ==
    ASSUME NEW s \in Int, NEW interval \in Nat
    PROVE  DateAt(s, 0, interval) <= s
<1>1. Local(s).wall \in Int /\ 0 * interval = 0
  BY LocalWall
<1>2. Local(s).wall + 0 * interval = Local(s).wall
  BY <1>1
<1> QED
  BY <1>2, FirstNotLater DEF DateAt

(* The loop that starts with the last candidate by the wall clock ends, and *)
(* with the first local date after `after`, however the clock changes.     *)
LEMMA DayIsNext ==
    ASSUME NEW s \in Int, NEW after \in Int, s <= after,
           NEW interval \in Nat, Shift < interval
    PROVE  \E n \in 1..after - s + 1 :
             /\ NextDay(s, after, interval) = DateAt(s, n, interval)
             /\ DateAt(s, n, interval) \in Int /\ after < DateAt(s, n, interval)
             /\ \A k \in Int : k < n => DateAt(s, k, interval) <= after
<1> DEFINE w == Local(s).wall
           v == Local(after).wall
           p == (v - w) \div interval
           D(n) == DateAt(s, n, interval)
<1>s. Shift \in Int /\ Shift > 0 /\ interval \in Nat \ {0}
  BY ZoneAssumption, CalendarAssumption
<1>1. /\ w \in Int /\ v \in Int /\ s <= w
      /\ after <= v /\ v <= after + Shift
  BY <1>s, LocalWall
<1>2. /\ p \in Int /\ p * interval \in Int
      /\ p * interval <= v - w /\ v - w < p * interval + interval
  <2>1. v - w \in Int
    BY <1>1
  <2> QED
    BY <1>s, <2>1, Quotient, TimesNext
<1>3. NextDay(s, after, interval) =
        D(p + CHOOSE k \in 0..2 : D(p + k) > after /\ \A j \in 0..k - 1 : D(p + j) <= after)
  BY DEF NextDay, DateAt, First
<1> HIDE DEF p
<1>4. /\ (p - 1) * interval = p * interval - interval
      /\ (p + 2) * interval = p * interval + interval + interval
  <2>1. /\ (p - 1) \in Int /\ (p - 1) + 1 = p /\ (p + 1) \in Int /\ (p + 1) + 1 = p + 2
    BY <1>2
  <2>2. ((p - 1) + 1) * interval = (p - 1) * interval + interval /\ (p - 1) * interval \in Int
    BY <2>1, TimesNext
  <2>3. ((p + 1) + 1) * interval = (p + 1) * interval + interval
    BY <2>1, TimesNext
  <2>4. (p + 1) * interval = p * interval + interval
    BY <1>2, TimesNext
  <2> QED
    BY <1>2, <2>1, <2>2, <2>3, <2>4
<1>5. D(p - 1) <= after
  <2> DEFINE x == w + (p - 1) * interval
  <2>1. x \in Int /\ x <= after
    BY <1>s, <1>1, <1>2, <1>4
  <2> HIDE DEF x
  <2>2. First(x) <= x /\ First(x) \in Int
    BY <2>1, FirstMonotone
  <2> QED
    BY <2>1, <2>2 DEF x, DateAt
<1>6. after < D(p + 2)
  <2> DEFINE x == w + (p + 2) * interval
  <2>1. x \in Int /\ after < x - Shift
    BY <1>s, <1>1, <1>2, <1>4
  <2> HIDE DEF x
  <2>2. x - Shift <= First(x) /\ First(x) \in Int
    BY <2>1, FirstMonotone
  <2> QED
    BY <1>s, <2>1, <2>2 DEF x, DateAt
<1>7. D(0) <= after /\ D(0) \in Int
  BY <1>s, FirstDate, DatesInOrder
<1>8. \A j, k \in Int : j <= k => D(j) \in Int /\ D(k) \in Int /\ D(j) <= D(k)
  BY DatesInOrder
<1> HIDE DEF D
<1> DEFINE Found(k) == D(p + k) > after /\ \A j \in 0..k - 1 : D(p + j) <= after
<1>9. \E k \in 0..2 : Found(k)
  <2>0. /\ p + 0 \in Int /\ p + 1 \in Int /\ p + 2 \in Int
        /\ D(p + 0) \in Int /\ D(p + 1) \in Int /\ D(p + 2) \in Int
    BY <1>2, <1>8
  <2>1. CASE D(p + 0) > after
    BY <2>1
  <2>2. CASE ~(D(p + 0) > after) /\ D(p + 1) > after
    <3>1. 0..1 - 1 = {0}
      OBVIOUS
    <3>2. D(p + 0) <= after
      BY <2>0, <2>2
    <3> QED
      BY <2>2, <3>1, <3>2
  <2>3. CASE ~(D(p + 0) > after) /\ ~(D(p + 1) > after)
    <3>1. 0..2 - 1 = {0, 1}
      OBVIOUS
    <3>2. D(p + 0) <= after /\ D(p + 1) <= after
      BY <2>0, <2>3
    <3> QED
      BY <1>6, <3>1, <3>2
  <2> QED
    BY <2>1, <2>2, <2>3
<1>10. PICK k \in 0..2 : NextDay(s, after, interval) = D(p + k) /\ Found(k)
  <2> DEFINE c == CHOOSE k \in 0..2 : Found(k)
  <2>1. c \in 0..2 /\ Found(c)
    BY <1>9
  <2> QED
    BY <1>3, <2>1
<1>11. p + k \in Int /\ after < D(p + k) /\ D(p + k) \in Int
  BY <1>2, <1>8, <1>10
<1>12. D((p + k) - 1) <= after
  <2>1. CASE k = 0
    BY <1>2, <1>5, <2>1
  <2>2. CASE k # 0
    <3>1. k - 1 \in 0..k - 1 /\ p + (k - 1) = (p + k) - 1
      BY <1>2, <2>2
    <3> QED
      BY <1>10, <3>1
  <2> QED
    BY <2>1, <2>2
<1> DEFINE n == p + k
<1> HIDE DEF n
<1>13. n \in Int /\ 1 <= n
  <2>1. CASE n <= 0
    <3>1. D(n) <= D(0) /\ D(n) \in Int
      BY <1>8, <1>11, <2>1 DEF n
    <3> QED
      BY <1>7, <1>11, <3>1 DEF n
  <2> QED
    BY <1>11, <2>1 DEF n
<1>14. ASSUME NEW j \in Int, j < n
       PROVE  D(j) <= after
  <2>1. D(j) <= D(n - 1) /\ D(j) \in Int /\ D(n - 1) \in Int
    BY <1>8, <1>13, <1>14
  <2> QED
    BY <1>12, <2>1 DEF n
<1>15. n <= after - s + 1
  <2>1. CASE n = 1
    BY <2>1
  <2>2. CASE n # 1
    <3> DEFINE m == n - 1
    <3>1. m \in Int /\ 1 <= m
      BY <1>13, <2>2
    <3> DEFINE x == w + m * interval
    <3>2. m * interval \in Int /\ x \in Int
      BY <1>1, <3>1, TimesNext
    <3> HIDE DEF m
    <3>3. Shift + m <= m * interval
      <4>1. m * (Shift + 1) <= m * interval
        BY <1>s, <3>1
      <4>2. m * (Shift + 1) = m * Shift + m /\ m * Shift \in Int
        BY <1>s, <3>1
      <4>3. 1 * Shift <= m * Shift
        BY <1>s, <3>1, TimesMonotone
      <4> QED
        BY <1>s, <3>1, <3>2, <4>1, <4>2, <4>3
    <3> HIDE DEF x
    <3>4. x - Shift <= First(x) /\ First(x) \in Int
      BY <3>2, FirstMonotone
    <3>5. First(x) <= after
      BY <1>12 DEF x, m, n, D, DateAt
    <3>6. w + m * interval - Shift <= after
      BY <1>s, <1>1, <3>2, <3>4, <3>5 DEF x
    <3> QED
      BY <1>s, <1>1, <1>13, <3>1, <3>2, <3>3, <3>6 DEF m
  <2> QED
    BY <2>1, <2>2
<1> QED
  BY <1>10, <1>11, <1>13, <1>14, <1>15 DEF n, D

-----------------------------------------------------------------------------
(* Local months                                                            *)

(* Every set of naturals has a least element.                              *)
LEMMA LeastElement ==
    ASSUME NEW T \in SUBSET Nat, T # {}
    PROVE  \E x \in T : \A y \in T : x <= y
<1> DEFINE R == OpToRel(<, Nat)
<1>1. \A x, y \in Nat : x < y => <<x, y>> \in R
  BY Zenon DEF OpToRel
<1>2. IsWellFoundedOn(R, Nat)
  BY NatLessThanWellFounded
<1> HIDE DEF R
<1>3. PICK x \in T : \A y \in T : ~(<<y, x>> \in R)
  BY <1>2, WFMin
<1>4. \A y \in T : ~(y < x)
  BY <1>1, <1>3, Zenon
<1> QED
  BY <1>4

(* The tick at which month m begins, and the tick at which the calendar    *)
(* ends.                                                                   *)
Begins(m) == MonthFirst[m] * DayTicks
Ends == Begins(Len(MonthFirst))

LEMMA MonthFacts ==
    /\ Len(MonthFirst) \in Nat /\ Len(MonthFirst) > 1
    /\ DOMAIN MonthFirst = 1..Len(MonthFirst)
    /\ \A m \in Months : m \in DOMAIN MonthFirst /\ m + 1 \in DOMAIN MonthFirst
    /\ \A m \in DOMAIN MonthFirst : MonthFirst[m] \in Nat /\ Begins(m) \in Nat
    /\ Begins(1) = 0
<1>1. MonthFirst \in Seq(Nat) /\ DayTicks \in Nat /\ YearMonths \in Nat \ {0}
  BY CalendarAssumption
<1>2. /\ Len(MonthFirst) \in Nat /\ DOMAIN MonthFirst = 1..Len(MonthFirst)
      /\ \A m \in DOMAIN MonthFirst : MonthFirst[m] \in Nat
  BY <1>1
<1>3. Len(MonthFirst) > 1
  BY <1>1, <1>2, CalendarAssumption
<1>4. \A k \in Nat : k * DayTicks \in Nat
  BY <1>1
<1>5. 0 * DayTicks = 0
  BY <1>1
<1>6. Begins(1) = 0
  BY <1>5, CalendarAssumption DEF Begins
<1>7. \A m \in DOMAIN MonthFirst : Begins(m) \in Nat
  BY <1>2, <1>4 DEF Begins
<1>8. \A m \in Months : m \in DOMAIN MonthFirst /\ m + 1 \in DOMAIN MonthFirst
  BY <1>2, <1>3 DEF Months
<1> QED
  BY <1>2, <1>3, <1>6, <1>7, <1>8

LEMMA MonthsInOrder ==
    ASSUME NEW m \in DOMAIN MonthFirst, NEW n \in DOMAIN MonthFirst, m <= n
    PROVE  Begins(m) <= Begins(n)
<1>1. MonthFirst[m] \in Nat /\ MonthFirst[n] \in Nat /\ DayTicks \in Nat
  BY MonthFacts, CalendarAssumption
<1>2. m \in Int /\ n \in Int
  BY MonthFacts
<1>3. MonthFirst[m] <= MonthFirst[n]
  <2>1. CASE m = n
    BY <1>1, <2>1
  <2>2. CASE m < n
    BY <1>1, <2>2, CalendarAssumption
  <2> QED
    BY <1>2, <2>1, <2>2
<1> QED
  BY <1>1, <1>3, TimesMonotone DEF Begins

(* Every local time of the calendar lies in one month.                     *)
LEMMA MonthFound ==
    ASSUME NEW w \in Int, 0 <= w, w < Ends
    PROVE  LET m == MonthOf(w)
               day == w \div DayTicks
           IN /\ m \in Months
              /\ day \in Int /\ MonthFirst[m] <= day /\ day < MonthFirst[m + 1]
              /\ Begins(m) <= w /\ w < Begins(m + 1)
<1> DEFINE d == w \div DayTicks
           In(m) == MonthFirst[m] <= d /\ d < MonthFirst[m + 1]
           N == Len(MonthFirst)
<1>0. DayTicks \in Nat \ {0}
  BY CalendarAssumption
<1>1. d \in Int /\ d * DayTicks <= w /\ w < d * DayTicks + DayTicks
  BY <1>0, Quotient
<1>2. MonthOf(w) = CHOOSE m \in Months : In(m)
  BY DEF MonthOf
<1> HIDE DEF d
<1>3. d * DayTicks \in Int /\ (d + 1) * DayTicks = d * DayTicks + DayTicks
  BY <1>0, <1>1, TimesNext
<1>4. 0 <= d
  <2>1. CASE d + 1 <= 0
    <3>1. (d + 1) * DayTicks <= 0 * DayTicks /\ 0 * DayTicks = 0
      BY <1>0, <1>1, <2>1, TimesMonotone
    <3> QED
      BY <1>0, <1>1, <1>3, <3>1
  <2> QED
    BY <1>1, <2>1
<1>5. d < MonthFirst[N]
  <2>0. N \in DOMAIN MonthFirst /\ MonthFirst[N] \in Nat /\ Ends \in Nat
    BY MonthFacts DEF Ends
  <2>1. CASE MonthFirst[N] <= d
    <3>1. MonthFirst[N] * DayTicks <= d * DayTicks
      BY <1>0, <1>1, <2>0, <2>1, TimesMonotone
    <3> QED
      BY <1>0, <1>1, <1>3, <2>0, <3>1 DEF Ends, Begins
  <2> QED
    BY <1>1, <2>0, <2>1
<1> DEFINE T == {m \in Nat : m + 1 \in 1..N /\ d < MonthFirst[m + 1]}
<1>6. N \in Nat /\ N > 1 /\ DOMAIN MonthFirst = 1..N /\ \A m \in 1..N : MonthFirst[m] \in Nat
  BY MonthFacts
<1> HIDE DEF N
<1>7. N - 1 \in T
  <2>1. N - 1 \in Nat /\ (N - 1) + 1 = N /\ N \in 1..N
    BY <1>6
  <2> QED
    BY <1>5, <2>1
<1>8. PICK m \in T : \A y \in T : m <= y
  <2>1. T \in SUBSET Nat /\ T # {}
    BY <1>7
  <2> HIDE DEF T
  <2> QED
    BY <2>1, LeastElement
<1>9. m \in Nat /\ m + 1 \in 1..N /\ d < MonthFirst[m + 1]
  OBVIOUS
<1>10. m # 0
  <2>1. MonthFirst[0 + 1] = 0
    BY CalendarAssumption
  <2> QED
    BY <1>1, <1>4, <1>9, <2>1
<1>11. MonthFirst[m] <= d
  <2>1. m - 1 \in Nat /\ (m - 1) + 1 = m /\ m \in 1..N
    BY <1>6, <1>9, <1>10
  <2>2. m - 1 \notin T
    BY <1>8, <1>9
  <2>3. ~(d < MonthFirst[m])
    BY <2>1, <2>2
  <2>4. MonthFirst[m] \in Int
    BY <1>6, <2>1
  <2> QED
    BY <1>1, <2>3, <2>4
<1>12. m \in Months /\ In(m)
  BY <1>6, <1>9, <1>10, <1>11 DEF Months, N
<1>13. MonthOf(w) \in Months /\ In(MonthOf(w))
  <2> HIDE DEF In
  <2> QED
    BY <1>2, <1>12
<1>14. ASSUME NEW n \in Months, In(n)
       PROVE  Begins(n) <= w /\ w < Begins(n + 1)
  <2>1. /\ MonthFirst[n] \in Nat /\ MonthFirst[n + 1] \in Nat
        /\ Begins(n) \in Nat /\ Begins(n + 1) \in Nat
    BY MonthFacts
  <2>2. MonthFirst[n] * DayTicks <= d * DayTicks
    BY <1>0, <1>1, <1>14, <2>1, TimesMonotone
  <2>3. (d + 1) * DayTicks <= MonthFirst[n + 1] * DayTicks
    <3>1. d + 1 <= MonthFirst[n + 1] /\ d + 1 \in Int
      BY <1>1, <1>14, <2>1
    <3> QED
      BY <1>0, <2>1, <3>1, TimesMonotone
  <2> QED
    BY <1>0, <1>1, <1>3, <2>1, <2>2, <2>3 DEF Begins
<1> QED
  BY <1>1, <1>13, <1>14 DEF d

(* A month is determined by any local time in it.                          *)
LEMMA MonthUnique ==
    ASSUME NEW w \in Int, NEW m \in Months, Begins(m) <= w, w < Begins(m + 1)
    PROVE  MonthOf(w) = m /\ 0 <= w /\ w < Ends
<1> DEFINE k == MonthOf(w)
<1>1. /\ m \in Int /\ m \in DOMAIN MonthFirst /\ m + 1 \in DOMAIN MonthFirst
      /\ 1 <= m /\ m + 1 <= Len(MonthFirst)
      /\ 1 \in DOMAIN MonthFirst /\ Len(MonthFirst) \in DOMAIN MonthFirst
      /\ Len(MonthFirst) \in Int
  BY MonthFacts DEF Months
<1>2. \A n \in DOMAIN MonthFirst : Begins(n) \in Int
  BY MonthFacts
<1>3. 0 <= w /\ w < Ends
  <2>1. Begins(1) <= Begins(m) /\ Begins(m + 1) <= Begins(Len(MonthFirst))
    BY <1>1, MonthsInOrder
  <2> QED
    BY <1>1, <1>2, <2>1, MonthFacts DEF Ends
<1>4. k \in Months /\ Begins(k) <= w /\ w < Begins(k + 1)
  BY <1>3, MonthFound
<1> HIDE DEF k
<1>5. k \in Int /\ k \in DOMAIN MonthFirst /\ k + 1 \in DOMAIN MonthFirst
  BY <1>4, MonthFacts DEF Months
<1>6. CASE k + 1 <= m
  <2>1. Begins(k + 1) <= Begins(m)
    BY <1>1, <1>5, <1>6, MonthsInOrder
  <2> QED
    BY <1>1, <1>2, <1>4, <1>5, <2>1
<1>7. CASE m + 1 <= k
  <2>1. Begins(m + 1) <= Begins(k)
    BY <1>1, <1>5, <1>7, MonthsInOrder
  <2> QED
    BY <1>1, <1>2, <1>4, <1>5, <2>1
<1> QED
  BY <1>1, <1>3, <1>5, <1>6, <1>7 DEF k

-----------------------------------------------------------------------------
(* Clock changes within a month or a day                                   *)

(* Local times before and after b come in that order, ...                  *)
LEMMA AcrossUnbroken ==
    ASSUME NEW b \in Int, UnbrokenAt(b), NEW v \in Int, NEW w \in Int, v < b, b <= w
    PROVE  First(v) \in Int /\ First(w) \in Int /\ First(v) < First(w)
<1>s. Shift \in Int /\ Shift > 0
  BY ZoneAssumption, CalendarAssumption
<1>1. /\ First(v) = IF v - Shift \in Summer THEN v - Shift ELSE v
      /\ First(w) = IF w - Shift \in Summer THEN w - Shift ELSE w
  BY FirstValue
<1>2. First(v) \in Int /\ First(w) \in Int /\ First(v) <= v
  BY <1>s, <1>1
<1>3. CASE w - Shift \in Summer /\ w - Shift <= v
  <2>1. w - Shift \in b - Shift .. b - 1 /\ v \in w - Shift .. b - 1 /\ v \in b - Shift .. b - 1
    BY <1>s, <1>3
  <2>2. v \in Summer /\ Showing(v) # {}
    BY <1>3, <2>1 DEF UnbrokenAt
  <2>3. v - Shift \in Summer
    BY <1>s, <2>2 DEF Showing, Offset
  <2> QED
    BY <1>s, <1>1, <1>2, <1>3, <2>3
<1>4. CASE w - Shift \in Summer /\ ~(w - Shift <= v)
  BY <1>s, <1>1, <1>2, <1>4
<1>5. CASE w - Shift \notin Summer
  BY <1>1, <1>2, <1>5
<1> QED
  BY <1>3, <1>4, <1>5

(* ... and so does the present, whichever of two showings it is.           *)
LEMMA PresentUnbroken ==
    ASSUME NEW b \in Int, UnbrokenAt(b), NEW t \in Int, NEW w \in Int
    PROVE  /\ Local(t).wall < b /\ b <= w => t < First(w)
           /\ w < b /\ b <= Local(t).wall => First(w) < t
<1>s. Shift \in Int /\ Shift > 0
  BY ZoneAssumption, CalendarAssumption
<1> DEFINE a == Local(t).wall
<1>1. a \in Int /\ a = IF t \in Summer THEN t + Shift ELSE t
  BY LocalWall
<1>2. First(w) \in Int /\ First(w) = IF w - Shift \in Summer THEN w - Shift ELSE w
  BY <1>s, FirstValue
<1>3. ASSUME a < b, b <= w
      PROVE  t < First(w)
  <2>1. CASE t \in Summer \/ w - Shift \notin Summer
    BY <1>s, <1>1, <1>2, <1>3, <2>1
  <2>2. CASE t \notin Summer /\ w - Shift \in Summer /\ w - Shift <= t
    <3>1. a = t
      BY <1>1, <2>2
    <3>2. w - Shift \in b - Shift .. b - 1 /\ t \in w - Shift .. b - 1
      BY <1>s, <1>3, <2>2, <3>1
    <3>3. t \in Summer
      BY <2>2, <3>2 DEF UnbrokenAt
    <3> QED
      BY <2>2, <3>3
  <2>3. CASE w - Shift \in Summer /\ ~(w - Shift <= t)
    BY <1>s, <1>2, <2>3
  <2> QED
    BY <2>1, <2>2, <2>3
<1>4. ASSUME w < b, b <= a
      PROVE  First(w) < t
  <2> HIDE DEF a
  <2>1. First(w) < First(a) /\ First(a) \in Int
    BY <1>1, <1>4, AcrossUnbroken
  <2>2. First(a) <= t
    BY FirstNotLater DEF a
  <2> QED
    BY <1>2, <2>1, <2>2
<1> QED
  BY <1>3, <1>4

(* A time before b is shown before b; one in a gap moves forward.          *)
LEMMA ShownBefore ==
    ASSUME NEW b \in Int, UnbrokenAt(b), NEW v \in Int, v < b
    PROVE  /\ First(v) \in Int /\ Local(First(v)).wall \in Int
           /\ v <= Local(First(v)).wall /\ Local(First(v)).wall < b
<1>s. Shift \in Int /\ Shift > 0
  BY ZoneAssumption, CalendarAssumption
<1>1. First(v) = IF v - Shift \in Summer THEN v - Shift ELSE v
  BY FirstValue
<1>2. First(v) \in Int
  BY <1>s, <1>1
<1>3. Local(First(v)).wall = IF First(v) \in Summer THEN First(v) + Shift ELSE First(v)
  BY <1>2, LocalWall
<1>4. CASE v - Shift \in Summer
  BY <1>s, <1>1, <1>3, <1>4
<1>5. CASE v - Shift \notin Summer /\ v \notin Summer
  BY <1>1, <1>3, <1>5
<1>6. CASE v - Shift \notin Summer /\ v \in Summer
  <2>1. Showing(v) = {}
    BY <1>s, <1>6 DEF Showing, Offset
  <2>2. v \notin b - Shift .. b - 1
    BY <2>1 DEF UnbrokenAt
  <2>3. v < b - Shift
    BY <1>s, <2>2
  <2> QED
    BY <1>s, <1>1, <1>3, <1>6, <2>3
<1> QED
  BY <1>2, <1>4, <1>5, <1>6

-----------------------------------------------------------------------------
(* The date of a schedule in a month                                       *)

MonthWall(s, m) ==
    OnDay(m, Least(DayOf(Local(s).wall), MonthDays(m)), Local(s).wall)

MonthDate(s, m) == First(MonthWall(s, m))

InCalendar(s) == s \in Int /\ 0 <= Local(s).wall /\ Local(s).wall < Ends

(* The anchored day lies in the month, clamped or not.                     *)
LEMMA MonthWallInMonth ==
    ASSUME NEW s, InCalendar(s), NEW m \in Months
    PROVE  /\ MonthWall(s, m) \in Int
           /\ Begins(m) <= MonthWall(s, m) /\ MonthWall(s, m) < Begins(m + 1)
<1> DEFINE w == Local(s).wall
           n == Least(DayOf(w), MonthDays(m))
           q == MonthFirst[m] + n - 1
           r == w % DayTicks
<1>0. DayTicks \in Nat \ {0} /\ w \in Int
  BY LocalWall, CalendarAssumption DEF InCalendar
<1>1. MonthWall(s, m) = q * DayTicks + r
  BY DEF MonthWall, OnDay
<1>2. r \in Int /\ 0 <= r /\ r < DayTicks
  BY <1>0
<1>3. /\ m \in Int /\ m \in DOMAIN MonthFirst /\ m + 1 \in DOMAIN MonthFirst
      /\ MonthFirst[m] \in Nat /\ MonthFirst[m + 1] \in Nat
  <2>1. m \in Int
    BY MonthFacts DEF Months
  <2> QED
    BY <2>1, MonthFacts
<1>4. MonthFirst[m] < MonthFirst[m + 1]
  BY <1>3, CalendarAssumption
<1>5. MonthOf(w) \in Months /\ w \div DayTicks \in Int /\ MonthFirst[MonthOf(w)] <= w \div DayTicks
  BY <1>0, MonthFound DEF InCalendar
<1>6. MonthFirst[MonthOf(w)] \in Nat
  BY <1>5, MonthFacts
<1>7. DayOf(w) \in Int /\ DayOf(w) >= 1
  BY <1>5, <1>6 DEF DayOf
<1>8. MonthDays(m) \in Int /\ MonthDays(m) >= 1 /\ MonthDays(m) = MonthFirst[m + 1] - MonthFirst[m]
  BY <1>3, <1>4 DEF MonthDays
<1>9. n \in Int /\ 1 <= n /\ n <= MonthDays(m)
  BY <1>7, <1>8 DEF Least
<1> HIDE DEF w, n, r
<1>10. q \in Int /\ MonthFirst[m] <= q /\ q + 1 <= MonthFirst[m + 1]
  BY <1>3, <1>8, <1>9
<1> HIDE DEF q
<1>11. MonthFirst[m] * DayTicks <= q * DayTicks
  BY <1>0, <1>3, <1>10, TimesMonotone
<1>12. (q + 1) * DayTicks <= MonthFirst[m + 1] * DayTicks
  <2>1. q + 1 \in Int
    BY <1>10
  <2> QED
    BY <1>0, <1>3, <1>10, <2>1, TimesMonotone
<1>13. q * DayTicks \in Int /\ (q + 1) * DayTicks = q * DayTicks + DayTicks
  BY <1>0, <1>10, TimesNext
<1>14. Begins(m) \in Int /\ Begins(m + 1) \in Int
  BY <1>3, MonthFacts
<1> QED
  BY <1>0, <1>1, <1>2, <1>11, <1>12, <1>13, <1>14 DEF Begins

(* In the month of the start it is the start's own day.                    *)
LEMMA MonthWallOfStart ==
    ASSUME NEW s, InCalendar(s)
    PROVE  MonthWall(s, MonthOf(Local(s).wall)) = Local(s).wall
<1> DEFINE w == Local(s).wall
           m == MonthOf(w)
           d == w \div DayTicks
<1>0. DayTicks \in Nat \ {0} /\ w \in Int
  BY LocalWall, CalendarAssumption DEF InCalendar
<1>1. m \in Months /\ d \in Int /\ MonthFirst[m] <= d /\ d < MonthFirst[m + 1]
  BY <1>0, MonthFound DEF InCalendar
<1>2. MonthFirst[m] \in Nat /\ MonthFirst[m + 1] \in Nat
  BY <1>1, MonthFacts
<1>3. d * DayTicks + (w % DayTicks) = w
  BY <1>0
<1>4. DayOf(w) = d - MonthFirst[m] + 1
  BY DEF DayOf
<1>5. MonthDays(m) = MonthFirst[m + 1] - MonthFirst[m]
  BY DEF MonthDays
<1> HIDE DEF d
<1> HIDE DEF m
<1>6. Least(DayOf(w), MonthDays(m)) = d - MonthFirst[m] + 1
  BY <1>1, <1>2, <1>4, <1>5 DEF Least
<1>7. MonthFirst[m] + (d - MonthFirst[m] + 1) - 1 = d
  BY <1>1, <1>2
<1>8. OnDay(m, d - MonthFirst[m] + 1, w) = w
  BY <1>3, <1>7 DEF OnDay
<1> QED
  BY <1>6, <1>8 DEF MonthWall, m

LEMMA MonthEndUnbroken ==
    ASSUME MonthsUnbroken, NEW m \in Months
    PROVE  Begins(m + 1) \in Int /\ UnbrokenAt(Begins(m + 1))
<1>1. m + 1 \in DOMAIN MonthFirst
  BY MonthFacts
<1>2. m \in Int /\ 1 <= m
  BY MonthFacts DEF Months
<1>3. m + 1 \in DOMAIN MonthFirst \ {1}
  BY <1>1, <1>2
<1> QED
  BY <1>1, <1>3, MonthFacts DEF MonthsUnbroken, Begins

LEMMA MonthDatesInOrder ==
    ASSUME MonthsUnbroken, NEW s, InCalendar(s), NEW m \in Months, NEW n \in Months, m <= n
    PROVE  /\ MonthDate(s, m) \in Int /\ MonthDate(s, n) \in Int
           /\ MonthDate(s, m) <= MonthDate(s, n)
           /\ m < n => MonthDate(s, m) < MonthDate(s, n)
<1>1. \A k \in Months : /\ MonthWall(s, k) \in Int
                        /\ Begins(k) <= MonthWall(s, k) /\ MonthWall(s, k) < Begins(k + 1)
                        /\ Begins(k) \in Int /\ Begins(k + 1) \in Int
  BY MonthWallInMonth, MonthFacts
<1>2. m \in Int /\ n \in Int
  BY MonthFacts DEF Months
<1>3. UnbrokenAt(Begins(m + 1))
  BY MonthEndUnbroken
<1>4. CASE m = n
  <2>1. MonthDate(s, m) \in Int
    BY <1>1, <1>3, ShownBefore DEF MonthDate
  <2> QED
    BY <1>2, <1>4, <2>1
<1>5. CASE m < n
  <2>1. m + 1 \in DOMAIN MonthFirst /\ n \in DOMAIN MonthFirst /\ m + 1 <= n
    BY <1>2, <1>5, MonthFacts
  <2>2. Begins(m + 1) <= Begins(n)
    BY <2>1, MonthsInOrder
  <2>3. Begins(m + 1) <= MonthWall(s, n)
    BY <1>1, <2>2
  <2>4. /\ MonthDate(s, m) \in Int /\ MonthDate(s, n) \in Int
        /\ MonthDate(s, m) < MonthDate(s, n)
    BY <1>1, <1>3, <2>3, AcrossUnbroken DEF MonthDate
  <2> QED
    BY <2>4
<1> QED
  BY <1>2, <1>4, <1>5

(* An instant is after the date of every earlier month and before that of  *)
(* every later one.                                                        *)
LEMMA MonthDateApart ==
    ASSUME MonthsUnbroken, NEW s, InCalendar(s), NEW t, InCalendar(t), NEW m \in Months
    PROVE  LET now == MonthOf(Local(t).wall)
           IN /\ now \in Months
              /\ now < m => t < MonthDate(s, m)
              /\ m < now => MonthDate(s, m) < t
<1> DEFINE a == Local(t).wall
           now == MonthOf(a)
           w == MonthWall(s, m)
<1>1. t \in Int /\ a \in Int
  BY LocalWall DEF InCalendar
<1>2. now \in Months /\ Begins(now) <= a /\ a < Begins(now + 1)
  BY <1>1, MonthFound DEF InCalendar
<1>3. w \in Int /\ Begins(m) <= w /\ w < Begins(m + 1)
  BY MonthWallInMonth
<1> HIDE DEF now, w
<1>4. /\ now \in Int /\ now \in DOMAIN MonthFirst /\ now + 1 \in DOMAIN MonthFirst
      /\ m \in Int /\ m \in DOMAIN MonthFirst /\ m + 1 \in DOMAIN MonthFirst
  <2>1. now \in Int /\ m \in Int
    BY <1>2, MonthFacts DEF Months
  <2> QED
    BY <1>2, <2>1, MonthFacts
<1>5. /\ Begins(now) \in Int /\ Begins(now + 1) \in Int
      /\ Begins(m) \in Int /\ Begins(m + 1) \in Int
  BY <1>4, MonthFacts
<1>6. ASSUME now < m
      PROVE  t < MonthDate(s, m)
  <2>1. Begins(now + 1) <= Begins(m)
    BY <1>4, <1>6, MonthsInOrder
  <2>2. UnbrokenAt(Begins(now + 1))
    BY <1>2, MonthEndUnbroken
  <2>3. Begins(now + 1) <= w
    BY <1>3, <1>5, <2>1
  <2>4. t < First(w)
    BY <1>1, <1>2, <1>3, <1>5, <2>2, <2>3, PresentUnbroken
  <2> QED
    BY <2>4 DEF MonthDate, w
<1>7. ASSUME m < now
      PROVE  MonthDate(s, m) < t
  <2>1. Begins(m + 1) <= Begins(now)
    BY <1>4, <1>7, MonthsInOrder
  <2>2. UnbrokenAt(Begins(m + 1))
    BY MonthEndUnbroken
  <2>3. Begins(m + 1) <= a
    BY <1>1, <1>2, <1>5, <2>1
  <2>4. First(w) < t
    BY <1>1, <1>3, <1>5, <2>2, <2>3, PresentUnbroken
  <2> QED
    BY <2>4 DEF MonthDate, w
<1> QED
  BY <1>2, <1>6, <1>7 DEF now

(* The calendar has room for the months that follow a completion.          *)
LEMMA RoomAfter ==
    ASSUME NEW t \in 0..Horizon
    PROVE  /\ InCalendar(t) /\ MonthOf(Local(t).wall) \in Months
           /\ MonthOf(Local(t).wall) + YearMonths \in Months
<1> DEFINE a == Local(t).wall
           last_ == Len(MonthFirst) - YearMonths
<1>s. /\ Shift \in Int /\ Shift > 0 /\ Horizon \in Int /\ t \in Int
      /\ 0 <= t /\ t <= Horizon /\ YearMonths \in Nat \ {0}
  BY ZoneAssumption, CalendarAssumption
<1>1. a \in Int /\ 0 <= a /\ a <= Horizon + Shift
  BY <1>s, LocalWall
<1>2. /\ last_ \in DOMAIN MonthFirst /\ Len(MonthFirst) \in DOMAIN MonthFirst
      /\ last_ \in Int /\ last_ <= Len(MonthFirst)
  BY <1>s, MonthFacts, CalendarAssumption
<1>3. Begins(last_) <= Ends /\ Begins(last_) \in Int /\ Ends \in Int
  BY <1>2, MonthFacts, MonthsInOrder DEF Ends
<1>4. a < Begins(last_)
  BY <1>s, <1>1, <1>3, RoomAssumption DEF Begins
<1>5. InCalendar(t)
  BY <1>s, <1>1, <1>3, <1>4 DEF InCalendar
<1> DEFINE m == MonthOf(a)
<1>6. m \in Months /\ Begins(m) <= a
  BY <1>1, <1>5, MonthFound DEF InCalendar
<1> HIDE DEF m, a
<1>7. m \in DOMAIN MonthFirst /\ Begins(m) \in Int
  BY <1>6, MonthFacts
<1>8. m \in Int /\ 1 <= m /\ Len(MonthFirst) \in Int
  BY <1>7, MonthFacts
<1>9. m < last_
  <2>1. CASE last_ <= m
    <3>1. Begins(last_) <= Begins(m)
      BY <1>2, <1>7, <2>1, MonthsInOrder
    <3> QED
      BY <1>1, <1>3, <1>4, <1>6, <1>7, <3>1
  <2> QED
    BY <1>2, <1>8, <2>1
<1>10. m + YearMonths \in Months
  BY <1>s, <1>8, <1>9 DEF Months
<1> QED
  BY <1>5, <1>6, <1>10 DEF m, a

(* In the first pass the code's candidates are the dates of the schedule.  *)
LEMMA CandidateIsDate ==
    ASSUME NEW s, Local(s).fold = 0, NEW m
    PROVE  ToUtc(InMonth(Local(s), m)) = MonthDate(s, m)
<1>1. Local(s) = [wall |-> Local(s).wall, fold |-> Local(s).fold]
  BY DEF Local
<1> DEFINE w == Local(s).wall
<1>2. Local(s) = [wall |-> w, fold |-> 0]
  BY <1>1
<1> HIDE DEF w
<1>3. InMonth([wall |-> w, fold |-> 0], m)
        = [wall |-> OnDay(m, Least(DayOf(w), MonthDays(m)), w), fold |-> 0]
  BY DEF InMonth
<1> QED
  BY <1>2, <1>3 DEF MonthDate, MonthWall, First, w

(* With one step a month at a time, with YearMonths a year: the result is   *)
(* the first date after `after`.                                           *)
LEMMA MonthIsNext ==
    ASSUME MonthsUnbroken, NEW s \in 0..Horizon, Local(s).fold = 0,
           NEW after \in s..Horizon, NEW step \in 1..YearMonths
    PROVE  LET first == MonthOf(Local(s).wall)
           IN \E n \in Nat \ {0} :
                /\ first + n * step \in Months
                /\ NextMonth(s, after, step) = MonthDate(s, first + n * step)
                /\ after < MonthDate(s, first + n * step)
                /\ \A k \in Nat : k < n => MonthDate(s, first + k * step) <= after
<1> DEFINE first == MonthOf(Local(s).wall)
           now == MonthOf(Local(after).wall)
           q == (now - first) \div step
           C(k) == MonthDate(s, first + k * step)
<1>1. /\ YearMonths \in Nat /\ step \in Nat \ {0} /\ step <= YearMonths
      /\ Horizon \in Int /\ s \in Int /\ s <= after /\ after \in 0..Horizon
      /\ after \in Int
  BY CalendarAssumption
<1>2. /\ InCalendar(s) /\ first \in Months
      /\ InCalendar(after) /\ now \in Months /\ now + YearMonths \in Months
  BY <1>1, RoomAfter
<1>3. /\ Len(MonthFirst) \in Int /\ first \in Int /\ now \in Int /\ 1 <= first /\ 1 <= now
      /\ now + YearMonths <= Len(MonthFirst) - 1
  BY <1>1, <1>2, MonthFacts DEF Months
<1>4. MonthDate(s, first) <= s
  <2>1. MonthWall(s, first) = Local(s).wall
    BY <1>2, MonthWallOfStart
  <2> QED
    BY <1>1, <2>1, FirstNotLater DEF MonthDate
<1>5. \A m \in Months : MonthDate(s, m) \in Int
  <2> TAKE m \in Months
  <2>1. m <= m
    BY MonthFacts DEF Months
  <2> QED
    BY <1>2, <2>1, MonthDatesInOrder
<1>6. first <= now
  <2>1. CASE now < first
    <3>1. after < MonthDate(s, first)
      BY <1>2, <2>1, MonthDateApart
    <3> QED
      BY <1>1, <1>2, <1>4, <1>5, <3>1
  <2> QED
    BY <1>3, <2>1
<1>7. NextMonth(s, after, step) =
        IF MonthDate(s, first + q * step) > after
          THEN MonthDate(s, first + q * step)
          ELSE MonthDate(s, first + (q * step + step))
  BY CandidateIsDate DEF NextMonth
<1>8. /\ q \in Int /\ q * step \in Int
      /\ q * step <= now - first /\ now - first < q * step + step
  <2>1. now - first \in Int
    BY <1>3
  <2>2. q \in Int /\ q * step <= now - first /\ now - first < q * step + step
    BY <1>1, <2>1, Quotient
  <2> HIDE DEF q
  <2> QED
    BY <1>1, <2>2, TimesNext
<1> HIDE DEF q, first, now
<1>9. (q + 1) * step = q * step + step
  BY <1>1, <1>8, TimesNext
<1>10. 0 <= q
  <2>1. CASE q + 1 <= 0
    <3>1. (q + 1) * step <= 0 * step /\ 0 * step = 0
      BY <1>1, <1>8, <2>1, TimesMonotone
    <3> QED
      BY <1>1, <1>3, <1>6, <1>8, <1>9, <3>1
  <2> QED
    BY <1>8, <2>1
<1>11. \A k \in Nat : k <= q + 1 =>
         k * step \in Int /\ 0 <= k * step /\ first + k * step \in Months
  <2> TAKE k \in Nat
  <2> HAVE k <= q + 1
  <2>1. k * step <= (q + 1) * step /\ k * step \in Int
    BY <1>1, <1>8, TimesMonotone
  <2>2. 0 * step <= k * step /\ 0 * step = 0
    BY <1>1, TimesMonotone
  <2> QED
    BY <1>1, <1>3, <1>8, <1>9, <2>1, <2>2 DEF Months
<1>12. \A j, k \in Nat : j <= k /\ k <= q + 1 =>
         C(j) \in Int /\ C(k) \in Int /\ C(j) <= C(k)
  <2> TAKE j \in Nat, k \in Nat
  <2> HAVE j <= k /\ k <= q + 1
  <2>1. j <= q + 1
    BY <1>8
  <2>2. first + j * step \in Months /\ first + k * step \in Months
    BY <1>11, <2>1
  <2>3. j * step <= k * step /\ j * step \in Int /\ k * step \in Int
    BY <1>1, TimesMonotone
  <2>4. first + j * step <= first + k * step
    BY <1>3, <2>3
  <2> QED
    BY <1>2, <2>2, <2>4, MonthDatesInOrder
<1>13. C(0) <= after
  <2>1. first + 0 * step = first
    BY <1>1, <1>3
  <2> QED
    BY <1>1, <1>2, <1>4, <1>5, <2>1
<1>14. CASE MonthDate(s, first + q * step) > after
  <2>1. q # 0
    <3>1. CASE q = 0
      <4>1. C(0) > after
        BY <1>14, <3>1
      <4>2. 0 \in Nat /\ 0 <= q + 1
        BY <1>10, <1>8
      <4>3. C(0) \in Int
        BY <1>5, <1>11, <4>2
      <4> QED
        BY <1>1, <1>13, <4>1, <4>3
    <3> QED
      BY <3>1
  <2>2. q \in Nat \ {0} /\ q <= q + 1 /\ first + q * step \in Months
    BY <1>8, <1>10, <1>11, <2>1
  <2>3. ASSUME NEW k \in Nat, k < q
        PROVE  C(k) <= after
    <3>1. (k + 1) * step <= q * step /\ (k + 1) * step = k * step + step /\ k * step \in Int
      BY <1>1, <1>8, <2>3, TimesMonotone, TimesNext
    <3>2. first + k * step < now
      BY <1>1, <1>3, <1>8, <3>1
    <3>3. first + k * step \in Months
      BY <1>8, <1>11, <2>3
    <3>4. C(k) < after
      BY <1>2, <3>2, <3>3, MonthDateApart DEF now
    <3> QED
      BY <1>1, <1>5, <3>3, <3>4
  <2>4. NextMonth(s, after, step) = C(q)
    BY <1>7, <1>14
  <2> QED
    BY <1>14, <2>2, <2>3, <2>4 DEF first
<1>15. CASE ~(MonthDate(s, first + q * step) > after)
  <2>1. q \in Nat /\ q + 1 \in Nat \ {0}
    BY <1>8, <1>10
  <2>2. first + (q + 1) * step \in Months /\ first + q * step \in Months
    BY <1>8, <1>11, <2>1
  <2>3. after < C(q + 1)
    <3>1. now < first + (q + 1) * step
      BY <1>1, <1>3, <1>8, <1>9
    <3> QED
      BY <1>2, <2>2, <3>1, MonthDateApart DEF now
  <2>4. ASSUME NEW k \in Nat, k < q + 1
        PROVE  C(k) <= after
    <3>1. k <= q /\ q <= q + 1
      BY <1>8, <2>4
    <3>2. C(k) <= C(q) /\ C(k) \in Int /\ C(q) \in Int
      BY <1>12, <2>1, <3>1
    <3>3. C(q) <= after
      BY <1>1, <1>15, <3>2
    <3> QED
      BY <1>1, <3>2, <3>3
  <2>5. NextMonth(s, after, step) = C(q + 1)
    BY <1>7, <1>9, <1>15
  <2> QED
    BY <2>1, <2>2, <2>3, <2>4, <2>5 DEF first
<1> QED
  BY <1>14, <1>15

-----------------------------------------------------------------------------
(* The schedule                                                            *)

(* Local months are those of the README unless the start is the second     *)
(* showing of its local time (ClockChangesAsDocumented), and they are in   *)
(* order unless the clock changes across the end of one.                   *)
Regular ==
    frequency \in {"monthly", "yearly"} => MonthsUnbroken /\ Local(start).fold = 0

(* Inductive: no attempt completes before the start, so that the candidate *)
(* NextOccurrence begins with is due or lies behind.                       *)
DueInv ==
    start \in Starts /\ (Regular => TypeOK /\ DueIsNext)

(* o is the due time that comes next after `after`.                        *)
Follows(o, after) ==
    /\ o \in DueTimes /\ o \in Int /\ o > after
    /\ \A e \in DueTimes : e > after => o <= e

LEMMA StartFits ==
    ASSUME start \in Starts
    PROVE  start \in Int /\ start >= 0 /\ start <= Horizon /\ Horizon \in Int
  BY CalendarAssumption

LEMMA ElapsedFollows ==
    ASSUME start \in Starts, NEW after \in start..Horizon,
           NEW interval \in Nat \ {0},
           DueTimes = {start + k * interval : k \in 0..Horizon + 1}
    PROVE  Follows(NextElapsed(start, after, interval), after)
<1>1. /\ start \in Int /\ start >= 0 /\ Horizon \in Int
      /\ after \in Int /\ start <= after /\ after <= Horizon
  BY StartFits
<1>2. PICK n \in 1..after - start + 1 :
        /\ NextElapsed(start, after, interval) = start + n * interval
        /\ after < start + n * interval /\ start + n * interval \in Int
        /\ \A k \in Int : k < n => start + k * interval <= after
  BY <1>1, ElapsedIsNext
<1>3. n \in 0..Horizon + 1
  BY <1>1
<1>4. ASSUME NEW k \in 0..Horizon + 1, start + k * interval > after
      PROVE  start + n * interval <= start + k * interval
  <2>1. k * interval \in Int
    BY TimesNext
  <2>2. ~(k < n)
    BY <1>1, <1>2, <1>4, <2>1
  <2>3. n * interval <= k * interval /\ n * interval \in Int
    BY <2>2, TimesMonotone
  <2> QED
    BY <1>1, <2>1, <2>3
<1> QED
  BY <1>2, <1>3, <1>4 DEF Follows

LEMMA DayFollows ==
    ASSUME start \in Starts, NEW after \in start..Horizon,
           NEW interval \in Nat, Shift < interval,
           DueTimes = {start} \cup
             {DateAt(start, k, interval) : k \in (0..Horizon + 1) \ {0}}
    PROVE  Follows(NextDay(start, after, interval), after)
<1>1. /\ start \in Int /\ start >= 0 /\ Horizon \in Int
      /\ after \in Int /\ start <= after /\ after <= Horizon
  BY StartFits
<1>2. PICK n \in 1..after - start + 1 :
        /\ NextDay(start, after, interval) = DateAt(start, n, interval)
        /\ DateAt(start, n, interval) \in Int /\ after < DateAt(start, n, interval)
        /\ \A k \in Int : k < n => DateAt(start, k, interval) <= after
  BY <1>1, DayIsNext
<1>3. n \in (0..Horizon + 1) \ {0}
  BY <1>1
<1>4. ASSUME NEW k \in (0..Horizon + 1) \ {0}, DateAt(start, k, interval) > after
      PROVE  DateAt(start, n, interval) <= DateAt(start, k, interval)
  <2>1. DateAt(start, k, interval) \in Int
    BY <1>1, DatesInOrder
  <2>2. ~(k < n)
    BY <1>1, <1>2, <1>4, <2>1
  <2> QED
    BY <1>1, <2>2, DatesInOrder
<1> QED
  BY <1>1, <1>2, <1>3, <1>4 DEF Follows

(* The months at a distance of whole steps from the start's.               *)
StepMonths(step) ==
    {k \in Nat \ {0} : MonthOf(Local(start).wall) + k * step \in Months}

StepDates(step) ==
    {MonthDate(start, MonthOf(Local(start).wall) + k * step) : k \in StepMonths(step)}

LEMMA MonthFollows ==
    ASSUME start \in Starts, NEW after \in start..Horizon,
           MonthsUnbroken, Local(start).fold = 0, NEW step \in 1..YearMonths,
           DueTimes = {start} \cup StepDates(step)
    PROVE  Follows(NextMonth(start, after, step), after)
<1> DEFINE first == MonthOf(Local(start).wall)
           C(k) == MonthDate(start, first + k * step)
<1>1. /\ start \in Int /\ start >= 0 /\ start \in 0..Horizon /\ Horizon \in Int
      /\ after \in Int /\ start <= after
  BY StartFits
<1>2. step \in Nat /\ first \in Int /\ InCalendar(start)
  <2>1. first \in Months /\ InCalendar(start)
    BY <1>1, RoomAfter
  <2> QED
    BY <2>1, MonthFacts, CalendarAssumption DEF Months
<1>3. PICK n \in Nat \ {0} :
        /\ first + n * step \in Months
        /\ NextMonth(start, after, step) = C(n)
        /\ after < C(n)
        /\ \A k \in Nat : k < n => C(k) <= after
  BY <1>1, MonthIsNext
<1> HIDE DEF first
<1>4. \A j, k \in Nat : j <= k /\ first + j * step \in Months /\ first + k * step \in Months
        => C(j) \in Int /\ C(k) \in Int /\ C(j) <= C(k)
  <2> TAKE j \in Nat, k \in Nat
  <2> HAVE j <= k /\ first + j * step \in Months /\ first + k * step \in Months
  <2>1. j * step <= k * step /\ j * step \in Int /\ k * step \in Int
    BY <1>2, TimesMonotone
  <2>2. first + j * step <= first + k * step
    BY <1>2, <2>1
  <2> QED
    BY <1>2, <2>2, MonthDatesInOrder
<1>5. C(n) \in Int
  <2>1. n \in Nat /\ n <= n
    OBVIOUS
  <2> QED
    BY <1>3, <1>4, <2>1
<1>6. n \in StepMonths(step)
  BY <1>3 DEF StepMonths, first
<1>7. C(n) \in DueTimes
  BY <1>6 DEF StepDates, first
<1>8. ASSUME NEW k \in StepMonths(step), C(k) > after
      PROVE  C(n) <= C(k)
  <2>1. k \in Nat /\ first + k * step \in Months
    BY DEF StepMonths, first
  <2>2. C(k) \in Int
    BY <1>4, <2>1
  <2>3. ~(k < n)
    BY <1>1, <1>3, <1>8, <2>1, <2>2
  <2>4. n <= k /\ n \in Nat
    BY <2>1, <2>3
  <2> QED
    BY <1>3, <1>4, <2>1, <2>4
<1>9. \A e \in DueTimes : e > after => C(n) <= e
  <2> TAKE e \in DueTimes
  <2>1. CASE e = start
    BY <1>1, <2>1
  <2>2. CASE e # start
    <3>1. PICK k \in StepMonths(step) : e = C(k)
      BY <2>2 DEF StepDates, first
    <3> QED
      BY <1>8, <3>1
  <2> QED
    BY <2>1, <2>2
<1> QED
  BY <1>3, <1>5, <1>7, <1>9 DEF Follows

LEMMA PeriodsOf ==
    ASSUME frequency \in Frequencies, start \in Starts
    PROVE  /\ frequency = "once" => DueTimes = {start}
           /\ frequency = "minutely" =>
                DueTimes = {start + k * Minute : k \in 0..Horizon + 1}
           /\ frequency = "hourly" =>
                DueTimes = {start + k * Hour : k \in 0..Horizon + 1}
           /\ frequency = "daily" =>
                DueTimes = {start} \cup
                  {DateAt(start, k, DayTicks) : k \in (0..Horizon + 1) \ {0}}
           /\ frequency = "weekly" =>
                DueTimes = {start} \cup
                  {DateAt(start, k, WeekDays * DayTicks) : k \in (0..Horizon + 1) \ {0}}
           /\ frequency = "monthly" => DueTimes = {start} \cup StepDates(1)
           /\ frequency = "yearly" => DueTimes = {start} \cup StepDates(YearMonths)
<1>1. CASE frequency = "once"
  BY <1>1 DEF DueTimes, Calendar
<1>2. CASE frequency = "minutely"
  BY <1>2 DEF DueTimes, Calendar
<1>3. CASE frequency = "hourly"
  BY <1>3 DEF DueTimes, Calendar
<1>4. CASE frequency = "daily"
  <2>1. Periods = 0..Horizon + 1
    BY <1>4 DEF Periods
  <2>2. \A k \in Periods : AnchoredWall(k) = Local(start).wall + k * DayTicks
    BY <1>4 DEF AnchoredWall
  <2>3. DueTimes = {start} \cup
          {ToUtc([wall |-> AnchoredWall(k), fold |-> 0]) : k \in Periods \ {0}}
    BY <1>4 DEF DueTimes, Calendar
  <2> QED
    BY <1>4, <2>1, <2>2, <2>3 DEF DateAt, First
<1>5. CASE frequency = "weekly"
  <2>1. Periods = 0..Horizon + 1
    BY <1>5 DEF Periods
  <2>2. \A k \in Periods :
          AnchoredWall(k) = Local(start).wall + k * (WeekDays * DayTicks)
    <3>1. \A k \in Periods : AnchoredWall(k) = Local(start).wall + k * WeekDays * DayTicks
      BY <1>5 DEF AnchoredWall
    <3>2. \A k, a, b \in Int : (k * a) * b = k * (a * b)
      OBVIOUS
    <3>3. WeekDays \in Int /\ DayTicks \in Int /\ Periods \subseteq Int
      BY <2>1, CalendarAssumption
    <3> QED
      BY <3>1, <3>2, <3>3
  <2>3. DueTimes = {start} \cup
          {ToUtc([wall |-> AnchoredWall(k), fold |-> 0]) : k \in Periods \ {0}}
    BY <1>5 DEF DueTimes, Calendar
  <2> QED
    BY <1>5, <2>1, <2>2, <2>3 DEF DateAt, First
<1> DEFINE first == MonthOf(Local(start).wall)
           N == Len(MonthFirst) - 1
<1>6. /\ first \in Int /\ 1 <= first /\ first <= N /\ N \in Int
      /\ Months = 1..N /\ YearMonths \in Nat \ {0}
  <2>1. first \in Months
    BY StartFits, RoomAfter
  <2> QED
    BY <2>1, MonthFacts, CalendarAssumption DEF Months
<1>7. CASE frequency = "monthly"
  <2>1. Periods = 0..N - first
    BY <1>7 DEF Periods
  <2>2. \A k \in Periods : AnchoredWall(k) = MonthWall(start, first + k)
    BY <1>7 DEF AnchoredWall, MonthWall, Least
  <2>3. DueTimes = {start} \cup
          {ToUtc([wall |-> AnchoredWall(k), fold |-> 0]) : k \in Periods \ {0}}
    BY <1>7 DEF DueTimes, Calendar
  <2>4. DueTimes = {start} \cup {MonthDate(start, first + k) : k \in Periods \ {0}}
    BY <2>2, <2>3 DEF MonthDate, First
  <2> HIDE DEF first, N
  <2>5. Periods \ {0} = StepMonths(1)
    <3>1. \A k \in Nat : k * 1 = k
      OBVIOUS
    <3>2. StepMonths(1) = {k \in Nat \ {0} : first + k \in 1..N}
      BY <1>6, <3>1 DEF StepMonths, first
    <3> QED
      BY <1>6, <2>1, <3>2
  <2>6. \A k \in StepMonths(1) : first + k * 1 = first + k
    BY DEF StepMonths
  <2> QED
    BY <1>7, <2>4, <2>5, <2>6 DEF StepDates, first
<1>8. CASE frequency = "yearly"
  <2> DEFINE K == (N - first) \div YearMonths
  <2>1. Periods = 0..K
    BY <1>8 DEF Periods
  <2>2. \A k \in Periods : AnchoredWall(k) = MonthWall(start, first + k * YearMonths)
    BY <1>8 DEF AnchoredWall, MonthWall, Least
  <2>3. DueTimes = {start} \cup
          {ToUtc([wall |-> AnchoredWall(k), fold |-> 0]) : k \in Periods \ {0}}
    BY <1>8 DEF DueTimes, Calendar
  <2>4. DueTimes = {start} \cup
          {MonthDate(start, first + k * YearMonths) : k \in Periods \ {0}}
    BY <2>2, <2>3 DEF MonthDate, First
  <2> HIDE DEF first, N
  <2>5. K \in Int /\ K * YearMonths <= N - first /\ N - first < K * YearMonths + YearMonths
    <3>1. N - first \in Int
      BY <1>6
    <3> QED
      BY <1>6, <3>1, Quotient
  <2> HIDE DEF K
  <2>6. K * YearMonths \in Int /\ (K + 1) * YearMonths = K * YearMonths + YearMonths
    BY <1>6, <2>5, TimesNext
  <2>7. ASSUME NEW k \in Nat \ {0}
        PROVE  k \in Periods \ {0} <=> first + k * YearMonths \in 1..N
    <3>1. k * YearMonths \in Int /\ 0 <= k * YearMonths
      <4>1. 0 * YearMonths <= k * YearMonths /\ k * YearMonths \in Int /\ 0 * YearMonths = 0
        BY <1>6, TimesMonotone
      <4> QED
        BY <4>1
    <3>2. CASE k <= K
      <4>1. k * YearMonths <= K * YearMonths
        BY <1>6, <2>5, <3>2, TimesMonotone
      <4> QED
        BY <1>6, <2>1, <2>5, <2>6, <3>1, <3>2, <4>1
    <3>3. CASE K + 1 <= k
      <4>1. (K + 1) * YearMonths <= k * YearMonths
        BY <1>6, <2>5, <3>3, TimesMonotone
      <4>2. ~(first + k * YearMonths \in 1..N)
        BY <1>6, <2>5, <2>6, <3>1, <4>1
      <4>3. k \notin Periods
        BY <2>1, <2>5, <3>3
      <4> QED
        BY <4>2, <4>3
    <3> QED
      BY <2>5, <3>2, <3>3
  <2>8. Periods \ {0} = StepMonths(YearMonths)
    <3>1. Periods \ {0} \subseteq Nat \ {0}
      BY <2>1, <2>5
    <3> QED
      BY <1>6, <2>7, <3>1 DEF StepMonths, first
  <2> QED
    BY <1>8, <2>4, <2>8 DEF StepDates, first
<1>9. frequency \in {"once", "minutely", "hourly", "daily", "weekly", "monthly", "yearly"}
  BY CalendarAssumption
<1> QED
  BY <1>1, <1>2, <1>3, <1>4, <1>5, <1>7, <1>8, <1>9

LEMMA StartDue ==
    ASSUME frequency \in Frequencies, start \in Starts
    PROVE  start \in DueTimes
<1>1. start \in Int /\ 0 \in 0..Horizon + 1
  BY StartFits
<1>2. Minute \in Int /\ Hour \in Int
  BY CalendarAssumption
<1>3. start + 0 * Minute = start /\ start + 0 * Hour = start
  BY <1>1, <1>2
<1>4. frequency \in
        {"once", "minutely", "hourly", "daily", "weekly", "monthly", "yearly"}
  BY CalendarAssumption
<1> QED
  BY <1>1, <1>3, <1>4, PeriodsOf

LEMMA DueTimesAreTimes ==
    ASSUME Regular, frequency \in Frequencies, start \in Starts, NEW o \in DueTimes
    PROVE  o \in Int
<1>1. start \in Int /\ Horizon \in Int
  BY StartFits
<1>2. /\ Minute \in Nat /\ Hour \in Nat /\ DayTicks \in Nat
      /\ WeekDays * DayTicks \in Nat
  BY CalendarAssumption
<1>3. \A k \in 0..Horizon + 1 : start + k * Minute \in Int /\ start + k * Hour \in Int
  BY <1>1, <1>2
<1>4. \A k \in Int, i \in Nat : DateAt(start, k, i) \in Int
  <2> TAKE k \in Int, i \in Nat
  <2> DEFINE w == Local(start).wall + k * i
  <2>1. w \in Int
    BY <1>1, LocalWall, TimesNext
  <2> HIDE DEF w
  <2>2. First(w) \in Int
    BY <2>1, FirstMonotone
  <2> QED
    BY <2>2 DEF w, DateAt
<1>5. frequency \in
        {"once", "minutely", "hourly", "daily", "weekly", "monthly", "yearly"}
  BY CalendarAssumption
<1>6. \A k \in 0..Horizon + 1 : k \in Int
  BY <1>1
<1>7. CASE frequency \in {"once", "minutely", "hourly"}
  BY <1>1, <1>3, <1>7, PeriodsOf
<1>8. CASE frequency = "daily"
  <2>1. DueTimes = {start} \cup
          {DateAt(start, k, DayTicks) : k \in (0..Horizon + 1) \ {0}}
    BY <1>8, PeriodsOf
  <2>2. \A k \in 0..Horizon + 1 : DateAt(start, k, DayTicks) \in Int
    BY <1>2, <1>4, <1>6
  <2> QED
    BY <1>1, <2>1, <2>2
<1>9. CASE frequency = "weekly"
  <2>1. DueTimes = {start} \cup
          {DateAt(start, k, WeekDays * DayTicks) : k \in (0..Horizon + 1) \ {0}}
    BY <1>9, PeriodsOf
  <2>2. \A k \in 0..Horizon + 1 : DateAt(start, k, WeekDays * DayTicks) \in Int
    BY <1>2, <1>4, <1>6
  <2> QED
    BY <1>1, <2>1, <2>2
<1>10. CASE frequency \in {"monthly", "yearly"}
  <2>1. PICK step : DueTimes = {start} \cup StepDates(step)
    BY <1>10, PeriodsOf
  <2>2. InCalendar(start) /\ MonthsUnbroken
    BY <1>10, StartFits, RoomAfter DEF Regular
  <2>3. \A m \in Months : MonthDate(start, m) \in Int
    <3> TAKE m \in Months
    <3>1. m <= m
      BY MonthFacts DEF Months
    <3> QED
      BY <2>2, <3>1, MonthDatesInOrder
  <2>4. \A e \in StepDates(step) : e \in Int
    BY <2>3 DEF StepDates, StepMonths
  <2> QED
    BY <1>1, <2>1, <2>4
<1> QED
  BY <1>5, <1>7, <1>8, <1>9, <1>10

LEMMA DaysLongerThanShift ==
    /\ DayTicks \in Nat /\ Shift < DayTicks
    /\ WeekDays * DayTicks \in Nat /\ Shift < WeekDays * DayTicks
<1>1. /\ DayTicks \in Nat \ {0} /\ WeekDays \in Nat \ {0}
      /\ Shift \in Int /\ Shift < DayTicks
  BY CalendarAssumption, ZoneAssumption
<1>2. 1 * DayTicks <= WeekDays * DayTicks /\ WeekDays * DayTicks \in Int
  BY <1>1, TimesMonotone
<1> QED
  BY <1>1, <1>2

(* What next_occurrence returns, once the start is past.                   *)
LEMMA OccurrenceFollows ==
    ASSUME Regular, frequency \in Frequencies, start \in Starts,
           NEW after \in start..Horizon
    PROVE  IF frequency = "once" THEN NextOccurrence(start, frequency, after) = None
           ELSE Follows(NextOccurrence(start, frequency, after), after)
<1>1. after >= start /\ ~(after < start)
  BY StartFits
<1>2. Minute \in Nat \ {0} /\ Hour \in Nat \ {0}
  BY CalendarAssumption
<1>3. frequency \in
        {"once", "minutely", "hourly", "daily", "weekly", "monthly", "yearly"}
  BY CalendarAssumption
<1>4. CASE frequency = "once"
  BY <1>1, <1>4 DEF NextOccurrence
<1>5. CASE frequency = "minutely"
  <2>1. NextOccurrence(start, frequency, after) = NextElapsed(start, after, Minute)
    BY <1>1, <1>5 DEF NextOccurrence
  <2> QED
    BY <1>2, <1>5, <2>1, PeriodsOf, ElapsedFollows
<1>6. CASE frequency = "hourly"
  <2>1. NextOccurrence(start, frequency, after) = NextElapsed(start, after, Hour)
    BY <1>1, <1>6 DEF NextOccurrence
  <2> QED
    BY <1>2, <1>6, <2>1, PeriodsOf, ElapsedFollows
<1>7. CASE frequency = "daily"
  <2>1. NextOccurrence(start, frequency, after) = NextDay(start, after, DayTicks)
    BY <1>1, <1>7 DEF NextOccurrence
  <2> QED
    BY <1>7, <2>1, PeriodsOf, DayFollows, DaysLongerThanShift
<1>8. CASE frequency = "weekly"
  <2>1. NextOccurrence(start, frequency, after)
          = NextDay(start, after, WeekDays * DayTicks)
    BY <1>1, <1>8 DEF NextOccurrence
  <2> QED
    BY <1>8, <2>1, PeriodsOf, DayFollows, DaysLongerThanShift
<1>9. 1 \in 1..YearMonths /\ YearMonths \in 1..YearMonths
  BY CalendarAssumption
<1>10. CASE frequency = "monthly"
  <2>1. NextOccurrence(start, frequency, after) = NextMonth(start, after, 1)
    BY <1>1, <1>10 DEF NextOccurrence
  <2> QED
    BY <1>9, <1>10, <2>1, PeriodsOf, MonthFollows DEF Regular
<1>11. CASE frequency = "yearly"
  <2>1. NextOccurrence(start, frequency, after) = NextMonth(start, after, YearMonths)
    BY <1>1, <1>11 DEF NextOccurrence
  <2> QED
    BY <1>9, <1>11, <2>1, PeriodsOf, MonthFollows DEF Regular
<1> QED
  BY <1>3, <1>4, <1>5, <1>6, <1>7, <1>8, <1>10, <1>11

(* The first payment is due at the start.                                  *)
LEMMA DueInit ==
    ASSUME Init
    PROVE  DueInv
<1> SUFFICES ASSUME Regular
             PROVE  TypeOK /\ DueIsNext
  BY DEF DueInv, Init
<1>1. /\ start \in Starts /\ frequency \in Frequencies
      /\ last = start - 1 /\ due = start
  BY DEF Init
<1>2. /\ start \in Int /\ start <= Horizon /\ Horizon \in Int
      /\ start \in DueTimes
  BY <1>1, StartFits, StartDue
<1>3. due # None
  BY <1>1, <1>2, CalendarAssumption
<1>4. \A o \in DueTimes : o > last => due <= o
  <2> TAKE o \in DueTimes
  <2>1. o \in Int
    BY <1>1, DueTimesAreTimes
  <2> QED
    BY <1>1, <1>2, <2>1
<1>5. due > last /\ due \in Int /\ last \in start - 1 .. Horizon
  BY <1>1, <1>2
<1>6. DueIsNext
  BY <1>1, <1>2, <1>3, <1>4, <1>5 DEF DueIsNext
<1> QED
  BY <1>1, <1>5, <1>6 DEF TypeOK

(* The due times depend on the schedule alone, which never changes.        *)
LEMMA DueTimesStay ==
    ASSUME UNCHANGED <<start, frequency>>
    PROVE  DueTimes' = DueTimes
  BY DEF DueTimes, Periods, AnchoredWall

(* What a completion leads to.                                             *)
LEMMA CompleteLeadsTo ==
    ASSUME Regular, TypeOK, DueIsNext, Complete
    PROVE  /\ start' = start /\ frequency' = frequency
           /\ due \in Int /\ last' \in due..Horizon /\ last' \in start..Horizon
           /\ IF frequency = "once" THEN due' = None ELSE Follows(due', last')
<1>1. /\ start \in Starts /\ frequency \in Frequencies
      /\ last \in start - 1 .. Horizon /\ due \in Int /\ due > last
  BY DEF TypeOK, Complete
<1>2. PICK after \in due..Horizon :
        last' = after /\ due' = NextOccurrence(start, frequency, after)
  BY DEF Complete
<1>3. after \in start..Horizon
  BY <1>1, <1>2, StartFits
<1>4. start' = start /\ frequency' = frequency
  BY DEF Complete
<1> QED
  BY <1>1, <1>2, <1>3, <1>4, OccurrenceFollows

LEMMA DueStep ==
    ASSUME DueInv, [Next]_vars
    PROVE  DueInv'
<1>1. start' = start /\ frequency' = frequency
  BY DEF Next, Complete, vars
<1> SUFFICES ASSUME Regular
             PROVE  TypeOK' /\ DueIsNext'
  BY <1>1 DEF DueInv, Regular
<1>2. TypeOK /\ DueIsNext
  BY DEF DueInv
<1>3. start \in Starts /\ frequency \in Frequencies
  BY <1>2 DEF TypeOK
<1>4. DueTimes' = DueTimes
  BY <1>1, DueTimesStay
<1>5. CASE UNCHANGED vars
  <2>1. last' = last /\ due' = due
    BY <1>5 DEF vars
  <2>2. DueIsNext'
    BY <1>2, <1>4, <2>1 DEF DueIsNext
  <2>3. TypeOK'
    BY <1>1, <1>2, <2>1 DEF TypeOK
  <2> QED
    BY <2>2, <2>3
<1>6. CASE Complete
  <2>1. /\ due \in Int /\ last' \in due..Horizon /\ last' \in start..Horizon
        /\ IF frequency = "once" THEN due' = None ELSE Follows(due', last')
    BY <1>2, <1>6, CompleteLeadsTo
  <2>2. /\ last' \in Int /\ start \in Int /\ start <= last'
        /\ last' \in start - 1 .. Horizon
    BY <1>3, <2>1, StartFits
  <2>3. CASE frequency = "once"
    <3>1. due' = None /\ DueTimes = {start}
      BY <1>3, <2>1, <2>3, PeriodsOf
    <3>2. DueIsNext'
      BY <1>4, <2>2, <3>1 DEF DueIsNext
    <3>3. TypeOK'
      BY <1>1, <1>3, <2>2, <3>1 DEF TypeOK
    <3> QED
      BY <3>2, <3>3
  <2>4. CASE frequency # "once"
    <3>1. /\ due' \in DueTimes /\ due' \in Int /\ due' > last'
          /\ \A e \in DueTimes : e > last' => due' <= e
      BY <2>1, <2>4 DEF Follows
    <3>2. due' # None
      BY <3>1, CalendarAssumption
    <3>3. DueIsNext'
      BY <1>4, <3>1, <3>2 DEF DueIsNext
    <3>4. TypeOK'
      BY <1>1, <1>3, <2>2, <3>1 DEF TypeOK
    <3> QED
      BY <3>3, <3>4
  <2> QED
    BY <2>3, <2>4
<1> QED
  BY <1>5, <1>6 DEF Next

(* The inductive invariant of the schedule.                                *)
THEOREM DueInvariant == Spec => []DueInv
<1>1. Init => DueInv
  BY DueInit
<1>2. DueInv /\ [Next]_vars => DueInv'
  BY DueStep
<1> QED
  BY <1>1, <1>2, PTL DEF Spec

(* For every zone, calendar and start, however late attempts complete, the *)
(* next payment is at the least due time after the completed one: of a     *)
(* schedule by minutes, hours, days or weeks always, of one by months or   *)
(* years if the clock changes at no month's end and the start is not in    *)
(* the second pass of a repeated time.                                     *)
THEOREM RegularDueIsNext == Spec => [](Regular => DueIsNext)
<1>1. DueInv => (Regular => DueIsNext)
  BY DEF DueInv
<1> QED
  BY <1>1, DueInvariant, PTL

(* Likewise, the next payment is always later than the last completion.    *)
THEOREM RegularTypeCorrect == Spec => [](Regular => TypeOK)
<1>1. DueInv => (Regular => TypeOK)
  BY DEF DueInv
<1> QED
  BY <1>1, DueInvariant, PTL

-----------------------------------------------------------------------------
(* Once a day, once a month                                                *)

LEMMA ShownNotEarlier ==
    ASSUME NEW v \in Int
    PROVE  /\ First(v) \in Int /\ v <= First(v) + Shift
           /\ Local(First(v)).wall \in Int /\ v <= Local(First(v)).wall
<1>s. Shift \in Int /\ Shift > 0
  BY ZoneAssumption, CalendarAssumption
<1>1. First(v) = IF v - Shift \in Summer THEN v - Shift ELSE v
  BY FirstValue
<1>2. First(v) \in Int
  BY <1>s, <1>1
<1>3. Local(First(v)).wall = IF First(v) \in Summer THEN First(v) + Shift ELSE First(v)
  BY <1>2, LocalWall
<1> QED
  BY <1>s, <1>1, <1>2, <1>3

LEMMA DaysApart ==
    ASSUME NEW x \in Int, NEW d \in Int, NEW y \in Int,
           x < d * DayTicks, d * DayTicks <= y
    PROVE  x \div DayTicks < y \div DayTicks
<1> DEFINE p == x \div DayTicks
           q == y \div DayTicks
<1>0. DayTicks \in Nat \ {0}
  BY CalendarAssumption
<1>1. /\ p \in Int /\ p * DayTicks <= x
      /\ q \in Int /\ y < q * DayTicks + DayTicks
  BY <1>0, Quotient
<1> HIDE DEF p, q
<1>2. /\ p * DayTicks \in Int /\ q * DayTicks \in Int /\ d * DayTicks \in Int
      /\ (q + 1) * DayTicks = q * DayTicks + DayTicks
  BY <1>0, <1>1, TimesNext
<1>3. p < d
  <2>1. CASE d <= p
    <3>1. d * DayTicks <= p * DayTicks
      BY <1>0, <1>1, <2>1, TimesMonotone
    <3> QED
      BY <1>1, <1>2, <3>1
  <2> QED
    BY <1>1, <2>1
<1>4. d <= q
  <2>1. CASE q + 1 <= d
    <3>1. (q + 1) * DayTicks <= d * DayTicks
      BY <1>0, <1>1, <2>1, TimesMonotone
    <3> QED
      BY <1>0, <1>1, <1>2, <3>1
  <2> QED
    BY <1>1, <2>1
<1>5. p < q
  BY <1>1, <1>3, <1>4
<1> QED
  BY <1>5 DEF p, q

LEMMA DaysKeepMonths ==
    ASSUME DaysUnbroken
    PROVE  MonthsUnbroken
<1> DEFINE N == Len(MonthFirst)
<1>1. /\ N \in Nat /\ N > 1 /\ DOMAIN MonthFirst = 1..N
      /\ \A m \in 1..N : MonthFirst[m] \in Nat
  BY MonthFacts
<1>2. ASSUME NEW m \in DOMAIN MonthFirst \ {1}
      PROVE  MonthFirst[m] \in 1..MonthFirst[N]
  <2>1. MonthFirst[1] < MonthFirst[m] /\ MonthFirst[1] = 0
    BY <1>1, <1>2, CalendarAssumption
  <2>2. MonthFirst[m] <= MonthFirst[N]
    <3>1. CASE m = N
      BY <1>1, <3>1
    <3>2. CASE m < N
      BY <1>1, <3>2, CalendarAssumption
    <3> QED
      BY <1>1, <3>1, <3>2
  <2> QED
    BY <1>1, <2>1, <2>2
<1> QED
  BY <1>2 DEF DaysUnbroken, MonthsUnbroken

(* A date of a local day is shown on that day, and the next one on a later *)
(* day.  v is the date by the wall clock, shown at t.                      *)
LEMMA DayShown ==
    ASSUME DaysUnbroken, NEW t \in 0..Horizon, NEW v \in Int,
           Local(t).wall = v \/ t = First(v),
           NEW next \in Int, v + DayTicks <= next
    PROVE  Local(t).wall \div DayTicks < Local(First(next)).wall \div DayTicks
<1> DEFINE d == v \div DayTicks
           b == (d + 1) * DayTicks
<1>s. /\ Shift \in Int /\ Shift > 0 /\ Shift < DayTicks /\ Horizon \in Int
      /\ DayTicks \in Nat \ {0} /\ t \in Int /\ 0 <= t /\ t <= Horizon
  BY ZoneAssumption, CalendarAssumption
<1>1. Local(t).wall \in Int /\ Local(t).wall <= t + Shift /\ t <= Local(t).wall
  BY <1>s, LocalWall
<1>2. v <= t + Shift /\ t <= v
  <2>1. CASE Local(t).wall = v
    BY <1>1, <2>1
  <2>2. CASE t = First(v)
    <3>1. First(v) <= v
      BY <1>s, FirstValue
    <3> QED
      BY <2>2, <3>1, ShownNotEarlier
  <2> QED
    BY <2>1, <2>2
<1>3. v < Ends /\ 0 <= v
  <2> DEFINE k == Len(MonthFirst) - YearMonths
  <2>1. /\ k \in DOMAIN MonthFirst /\ Len(MonthFirst) \in DOMAIN MonthFirst
        /\ k <= Len(MonthFirst)
    BY MonthFacts, CalendarAssumption
  <2>2. Begins(k) <= Ends /\ Begins(k) \in Int /\ Ends \in Int
    BY <2>1, MonthFacts, MonthsInOrder DEF Ends
  <2>3. Horizon + Shift < Begins(k)
    BY RoomAssumption DEF Begins
  <2> QED
    BY <1>s, <1>2, <2>2, <2>3
<1>4. /\ d \in Int /\ d * DayTicks <= v /\ v < d * DayTicks + DayTicks
      /\ MonthFirst[MonthOf(v)] <= d /\ d < MonthFirst[MonthOf(v) + 1]
      /\ MonthOf(v) \in Months
  BY <1>s, <1>3, Quotient, MonthFound
<1> HIDE DEF d
<1>5. d + 1 \in 1..MonthFirst[Len(MonthFirst)]
  <2> DEFINE m == MonthOf(v)
             N == Len(MonthFirst)
  <2> HIDE DEF m
  <2>1. /\ m \in DOMAIN MonthFirst /\ m + 1 \in DOMAIN MonthFirst
        /\ MonthFirst[m] \in Nat /\ MonthFirst[m + 1] \in Nat
        /\ N \in DOMAIN MonthFirst /\ N \in Int /\ MonthFirst[N] \in Nat
        /\ m + 1 \in Int /\ m + 1 <= N
    BY <1>4, MonthFacts DEF m
  <2>2. MonthFirst[m + 1] <= MonthFirst[N]
    <3>1. CASE m + 1 = N
      BY <2>1, <3>1
    <3>2. CASE m + 1 < N
      BY <2>1, <3>2, CalendarAssumption
    <3> QED
      BY <2>1, <3>1, <3>2
  <2> QED
    BY <1>4, <2>1, <2>2 DEF m
<1>6. d + 1 \in Int /\ b = d * DayTicks + DayTicks /\ b \in Int /\ d * DayTicks \in Int
  BY <1>s, <1>4, TimesNext
<1>7. UnbrokenAt(b)
  BY <1>5 DEF DaysUnbroken
<1> HIDE DEF b
<1>8. Local(t).wall < b
  <2>1. CASE Local(t).wall = v
    BY <1>4, <1>6, <2>1
  <2>2. CASE t = First(v)
    <3>1. v < b
      BY <1>4, <1>6
    <3> QED
      BY <1>6, <1>7, <2>2, <3>1, ShownBefore
  <2> QED
    BY <2>1, <2>2
<1>9. Local(First(next)).wall \in Int /\ b <= Local(First(next)).wall
  <2>1. b <= next
    BY <1>s, <1>4, <1>6
  <2> QED
    BY <1>6, <2>1, ShownNotEarlier
<1> QED
  BY <1>1, <1>6, <1>8, <1>9, DaysApart DEF b

(* The date of a month is shown in that month.                             *)
LEMMA MonthShown ==
    ASSUME MonthsUnbroken, NEW s, InCalendar(s), NEW m \in Months
    PROVE  MonthOf(Local(MonthDate(s, m)).wall) = m
<1> DEFINE v == MonthWall(s, m)
           x == Local(First(v)).wall
<1>1. v \in Int /\ Begins(m) <= v /\ v < Begins(m + 1)
  BY MonthWallInMonth
<1>2. Begins(m + 1) \in Int /\ UnbrokenAt(Begins(m + 1)) /\ Begins(m) \in Int
  BY MonthEndUnbroken, MonthFacts
<1> HIDE DEF v
<1>3. x \in Int /\ v <= x /\ x < Begins(m + 1)
  BY <1>1, <1>2, ShownBefore
<1> HIDE DEF x
<1>4. Begins(m) <= x
  BY <1>1, <1>2, <1>3
<1>5. MonthOf(x) = m
  BY <1>3, <1>4, MonthUnique
<1> QED
  BY <1>5 DEF MonthDate, v, x

LEMMA LaterDay ==
    ASSUME DaysUnbroken, start \in Starts, NEW interval \in Nat, DayTicks <= interval,
           NEW D, D = {start} \cup {DateAt(start, k, interval) : k \in (0..Horizon + 1) \ {0}},
           NEW now \in D, NEW next \in D, now <= Horizon, start <= now, now < next
    PROVE  Local(now).wall \div DayTicks < Local(next).wall \div DayTicks
<1> DEFINE w == Local(start).wall
<1>1. /\ start \in Int /\ 0 <= start /\ Horizon \in Int /\ w \in Int
      /\ DayTicks \in Nat /\ Shift \in Int /\ Shift < interval
  BY StartFits, LocalWall, ZoneAssumption, CalendarAssumption
<1>2. \A k \in Int : k * interval \in Int /\ w + k * interval \in Int
  BY <1>1, TimesNext
<1>3. \A j, k \in Int : j <= k =>
        /\ DateAt(start, j, interval) \in Int /\ DateAt(start, k, interval) \in Int
        /\ DateAt(start, j, interval) <= DateAt(start, k, interval)
  BY <1>1, DatesInOrder
<1>4. now \in Int /\ next \in Int
  BY <1>1, <1>3
<1>5. now \in 0..Horizon
  BY <1>1, <1>4
<1>6. next # start
  BY <1>1, <1>4
<1>7. PICK j \in (0..Horizon + 1) \ {0} : next = DateAt(start, j, interval)
  BY <1>6
<1>8. j \in Int /\ 1 <= j
  BY <1>1
<1>9. PICK k \in Int : k < j /\ (Local(now).wall = w + k * interval \/ now = First(w + k * interval))
  <2>1. CASE now = start
    <3>1. w + 0 * interval = w
      BY <1>1
    <3> QED
      BY <1>8, <2>1, <3>1
  <2>2. CASE now # start
    <3>1. PICK k \in (0..Horizon + 1) \ {0} : now = DateAt(start, k, interval)
      BY <2>2
    <3>2. k \in Int
      BY <1>1
    <3>3. CASE j <= k
      <4>1. next <= now
        BY <1>3, <1>7, <1>8, <3>1, <3>2, <3>3
      <4> QED
        BY <1>4, <4>1
    <3> QED
      BY <1>8, <3>1, <3>2, <3>3 DEF DateAt
  <2> QED
    BY <2>1, <2>2
<1>10. w + k * interval + DayTicks <= w + j * interval
  <2>1. (k + 1) * interval <= j * interval /\ (k + 1) * interval = k * interval + interval
    BY <1>8, <1>9, TimesMonotone, TimesNext
  <2> QED
    BY <1>1, <1>2, <1>8, <2>1
<1>11. next = First(w + j * interval)
  BY <1>7 DEF DateAt
<1> DEFINE v == w + k * interval
           x == w + j * interval
<1>12. v \in Int /\ x \in Int /\ v + DayTicks <= x
  BY <1>2, <1>8, <1>10
<1>13. Local(now).wall = v \/ now = First(v)
  BY <1>9
<1> HIDE DEF v, x
<1>14. Local(now).wall \div DayTicks < Local(First(x)).wall \div DayTicks
  BY <1>5, <1>12, <1>13, DayShown
<1> QED
  BY <1>11, <1>14 DEF x

LEMMA LaterMonth ==
    ASSUME MonthsUnbroken, start \in Starts, NEW step \in Nat \ {0},
           NEW D, D = {start} \cup StepDates(step),
           NEW now \in D, NEW next \in D, start <= now, now < next
    PROVE  MonthOf(Local(now).wall) < MonthOf(Local(next).wall)
<1> DEFINE first == MonthOf(Local(start).wall)
<1>1. start \in Int /\ InCalendar(start) /\ first \in Months
  BY StartFits, RoomAfter
<1>2. first \in Int /\ \A m \in Months : m \in Int
  BY <1>1, MonthFacts DEF Months
<1>3. \A m, n \in Months : m <= n => /\ MonthDate(start, m) \in Int /\ MonthDate(start, n) \in Int
                                     /\ MonthDate(start, m) <= MonthDate(start, n)
  BY <1>1, MonthDatesInOrder
<1>4. \A m \in Months : MonthDate(start, m) \in Int
  BY <1>2, <1>3
<1>5. \A o \in StepDates(step) :
        \E m \in Months : o = MonthDate(start, m) /\ first < m
  <2> TAKE o \in StepDates(step)
  <2>1. PICK k \in StepMonths(step) : o = MonthDate(start, first + k * step)
    BY DEF StepDates
  <2>2. k \in Nat \ {0} /\ first + k * step \in Months
    BY DEF StepMonths
  <2>3. 1 * step <= k * step /\ 1 * step = step /\ k * step \in Int
    BY <2>2, TimesMonotone
  <2> HIDE DEF first
  <2>4. first < first + k * step
    BY <1>2, <2>3
  <2> QED
    BY <2>1, <2>2, <2>4
<1>6. \A m \in Months : MonthOf(Local(MonthDate(start, m)).wall) = m
  BY <1>1, MonthShown
<1>7. next # start
  BY <1>1, <1>4, <1>5
<1>8. PICK n \in Months : next = MonthDate(start, n) /\ first < n
  BY <1>5, <1>7
<1>9. CASE now = start
  BY <1>6, <1>8, <1>9
<1>10. CASE now # start
  <2>1. PICK m \in Months : now = MonthDate(start, m)
    BY <1>5, <1>10
  <2>2. CASE n <= m
    <3>1. next <= now /\ next \in Int /\ now \in Int
      BY <1>3, <1>8, <2>1, <2>2
    <3> QED
      BY <3>1
  <2>3. CASE m < n
    BY <1>6, <1>8, <2>1, <2>3
  <2> QED
    BY <1>2, <2>2, <2>3
<1> QED
  BY <1>9, <1>10

(* A schedule of local days or months is never due twice in one of them,    *)
(* in a zone whose clock does not change across midnight, from a start that *)
(* is not in the second pass of a repeated time.                           *)
THEOREM RegularOncePerPeriod ==
    ASSUME DaysUnbroken, \A s \in Starts : Local(s).fold = 0
    PROVE  Spec => OncePerPeriod
<1>1. ASSUME DueInv, [Next]_vars
      PROVE  [LaterPeriod]_vars
  <2> SUFFICES ASSUME Complete, due' # None, frequency \in Calendar
               PROVE  LaterPeriod
    BY <1>1 DEF Next, LaterPeriod
  <2>1. start \in Starts /\ MonthsUnbroken
    BY <1>1, DaysKeepMonths DEF DueInv
  <2>2. Regular
    BY <2>1 DEF Regular
  <2>3. TypeOK /\ DueIsNext
    BY <1>1, <2>2 DEF DueInv
  <2>4. /\ start' = start /\ frequency' = frequency
        /\ due \in Int /\ last' \in due..Horizon
        /\ IF frequency = "once" THEN due' = None ELSE Follows(due', last')
    BY <2>2, <2>3, CompleteLeadsTo
  <2>5. PICK next : next = due'
    OBVIOUS
  <2>6. /\ next \in DueTimes /\ next \in Int /\ next > last'
    BY <2>4, <2>5 DEF Follows
  <2>7. start \in Int /\ last \in Int /\ start - 1 <= last /\ due > last /\ Horizon \in Int
    BY <2>1, <2>3, <2>4, StartFits, CalendarAssumption DEF TypeOK
  <2>8. due \in DueTimes /\ start <= due /\ due <= Horizon /\ due < next
    <3>1. due \in DueTimes
      BY <2>3, <2>4, CalendarAssumption DEF DueIsNext
    <3> QED
      BY <2>4, <2>6, <2>7, <3>1
  <2> DEFINE days == Local(due).wall \div DayTicks < Local(next).wall \div DayTicks
             months == MonthOf(Local(due).wall) < MonthOf(Local(next).wall)
  <2>9. DayTicks <= DayTicks /\ DayTicks \in Nat /\ DayTicks <= WeekDays * DayTicks
        /\ WeekDays * DayTicks \in Nat /\ YearMonths \in Nat \ {0}
    <3>1. DayTicks \in Nat \ {0} /\ WeekDays \in Nat \ {0} /\ YearMonths \in Nat \ {0}
      BY CalendarAssumption
    <3>2. 1 * DayTicks <= WeekDays * DayTicks /\ 1 * DayTicks = DayTicks
      BY <3>1, TimesMonotone
    <3> QED
      BY <3>1, <3>2, DaysLongerThanShift
  <2>10. CASE frequency = "daily"
    <3>1. days
      BY <2>1, <2>3, <2>6, <2>8, <2>9, <2>10, PeriodsOf, LaterDay DEF TypeOK
    <3> QED
      BY <2>5, <2>10, <3>1 DEF LaterPeriod
  <2>11. CASE frequency = "weekly"
    <3>1. days
      BY <2>1, <2>3, <2>6, <2>8, <2>9, <2>11, PeriodsOf, LaterDay DEF TypeOK
    <3> QED
      BY <2>5, <2>11, <3>1 DEF LaterPeriod
  <2>12. CASE frequency = "monthly"
    <3>1. months
      BY <2>1, <2>3, <2>6, <2>8, <2>12, PeriodsOf, LaterMonth DEF TypeOK
    <3> QED
      BY <2>5, <2>12, <3>1 DEF LaterPeriod
  <2>13. CASE frequency = "yearly"
    <3>1. months
      BY <2>1, <2>3, <2>6, <2>8, <2>9, <2>13, PeriodsOf, LaterMonth DEF TypeOK
    <3> QED
      BY <2>5, <2>13, <3>1 DEF LaterPeriod
  <2> QED
    BY <2>10, <2>11, <2>12, <2>13 DEF Calendar
<1> QED
  BY <1>1, DueInvariant, PTL DEF Spec, OncePerPeriod
=============================================================================
