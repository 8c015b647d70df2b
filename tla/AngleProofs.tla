---------------------------- MODULE AngleProofs -----------------------------
(***************************************************************************)
(* What the operators of Angles return, for any number of headings: the    *)
(* shortest turn is the only turn within half a turn that leads to the     *)
(* other heading.                                                          *)
(***************************************************************************)
EXTENDS Angles, TLAPS

\* k whole turns
WholeTurns(full, k) == k * full

\* The turn d from one heading leads to the other, whole turns aside, by no more than half a
\* turn.
IsShortest(full, from, to, d) ==
  /\ 2 * d <= full /\ -full < 2 * d
  /\ \E k \in Int : to - from = d + WholeTurns(full, k)

\* Whole turns are counted as integers are.
LEMMA TurnsInt ==
  ASSUME NEW full \in Nat \ {0}, NEW k \in Int
  PROVE  WholeTurns(full, k) \in Int
  BY DEF WholeTurns

LEMMA TurnsSum ==
  ASSUME NEW full \in Nat \ {0}, NEW j \in Int, NEW k \in Int
  PROVE  WholeTurns(full, j + k) = WholeTurns(full, j) + WholeTurns(full, k)
<1>1. (j + k) * full = (j * full) + (k * full)
  OBVIOUS
<1> QED
  BY <1>1 DEF WholeTurns

LEMMA TurnsDifference ==
  ASSUME NEW full \in Nat \ {0}, NEW j \in Int, NEW k \in Int
  PROVE  WholeTurns(full, j - k) = WholeTurns(full, j) - WholeTurns(full, k)
<1>1. (j - k) * full = (j * full) - (k * full)
  OBVIOUS
<1> QED
  BY <1>1 DEF WholeTurns

LEMMA NoTurns ==
  ASSUME NEW full \in Nat \ {0}
  PROVE  WholeTurns(full, 0) = 0
  BY DEF WholeTurns

LEMMA OneMoreTurn ==
  ASSUME NEW full \in Nat \ {0}, NEW k \in Int
  PROVE  WholeTurns(full, k + 1) = WholeTurns(full, k) + full
<1>1. (k + 1) * full = (k * full) + full
  OBVIOUS
<1> QED
  BY <1>1 DEF WholeTurns

LEMMA TurnsBack ==
  ASSUME NEW full \in Nat \ {0}, NEW k \in Int
  PROVE  WholeTurns(full, -k) = -WholeTurns(full, k)
<1>1. (-k) * full = -(k * full)
  OBVIOUS
<1> QED
  BY <1>1 DEF WholeTurns

LEMMA RemainderIs ==
  ASSUME NEW full \in Nat \ {0}, NEW n \in Int
  PROVE  /\ n % full \in 0 .. full - 1
         /\ \E k \in Int : n = (n % full) + WholeTurns(full, k)
<1>1. n % full \in 0 .. full - 1
  OBVIOUS
<1> DEFINE q == n \div full
<1>2. q \in Int /\ n = (full * q) + (n % full)
  OBVIOUS
<1> HIDE DEF q
<1>3. full * q = q * full /\ q * full \in Int
  BY <1>2
<1>4. n = (n % full) + WholeTurns(full, q)
  BY <1>1, <1>2, <1>3 DEF WholeTurns
<1> QED
  BY <1>1, <1>2, <1>4

\* Two numbers less than a turn apart that differ by whole turns are the same.
LEMMA LessThanATurn ==
  ASSUME NEW full \in Nat \ {0}, NEW n \in Int, NEW k \in Int,
         n = WholeTurns(full, k), n < full, -full < n
  PROVE  n = 0 /\ k = 0
<1>1. n = k * full
  BY DEF WholeTurns
<1>2. ~(k >= 1)
  <2> SUFFICES ASSUME k >= 1 PROVE FALSE
    OBVIOUS
  <2>1. k * full >= full
    BY SMT
  <2> QED
    BY <1>1, <2>1
<1>3. ~(k <= -1)
  <2> SUFFICES ASSUME k <= -1 PROVE FALSE
    OBVIOUS
  <2>1. k * full <= -full
    BY SMT
  <2> QED
    BY <1>1, <2>1
<1>4. k = 0
  BY <1>2, <1>3
<1> QED
  BY <1>1, <1>4

LEMMA RemainderUnique ==
  ASSUME NEW full \in Nat \ {0}, NEW n \in Int, NEW r \in 0 .. full - 1, NEW k \in Int,
         n = r + WholeTurns(full, k)
  PROVE  n % full = r
<1> DEFINE m == n % full
<1>1. m \in 0 .. full - 1
  BY RemainderIs
<1>2. PICK j \in Int : n = m + WholeTurns(full, j)
  BY RemainderIs
<1> HIDE DEF m
<1>3. /\ WholeTurns(full, k) \in Int /\ WholeTurns(full, j) \in Int
      /\ WholeTurns(full, k - j) = WholeTurns(full, k) - WholeTurns(full, j)
  BY TurnsInt, TurnsDifference
<1>4. m - r \in Int /\ m - r = WholeTurns(full, k - j)
  BY <1>1, <1>2, <1>3
<1>5. m - r < full /\ -full < m - r /\ k - j \in Int
  BY <1>1
<1>6. m - r = 0
  BY <1>4, <1>5, LessThanATurn
<1> QED
  BY <1>1, <1>6 DEF m

LEMMA ShortestTurnIs ==
  ASSUME NEW full \in Nat \ {0}, NEW from \in Int, NEW to \in Int
  PROVE  /\ ShortestTurn(full, from, to) \in Int
         /\ IsShortest(full, from, to, ShortestTurn(full, from, to))
<1> DEFINE d == (to - from) % full
           e == ShortestTurn(full, from, to)
<1>0. to - from \in Int
  OBVIOUS
<1>1. d \in 0 .. full - 1
  BY <1>0, RemainderIs
<1>2. PICK k \in Int : to - from = d + WholeTurns(full, k)
  BY <1>0, RemainderIs
<1>3. e = IF 2 * d > full THEN d - full ELSE d
  BY DEF ShortestTurn
<1> HIDE DEF d, e
<1>4. WholeTurns(full, k) \in Int /\ k + 1 \in Int /\ WholeTurns(full, k + 1) = WholeTurns(full, k) + full
  BY TurnsInt, OneMoreTurn
<1>5. CASE 2 * d > full
  <2>1. e = d - full /\ e \in Int /\ 2 * e <= full /\ -full < 2 * e
    BY <1>1, <1>3, <1>5
  <2>2. to - from = e + WholeTurns(full, k + 1)
    BY <1>1, <1>2, <1>4, <2>1
  <2>3. IsShortest(full, from, to, e)
    BY <1>4, <2>1, <2>2 DEF IsShortest
  <2> QED
    BY <2>1, <2>3 DEF e
<1>6. CASE ~(2 * d > full)
  <2>1. e = d /\ e \in Int /\ 2 * e <= full /\ -full < 2 * e
    BY <1>1, <1>3, <1>6
  <2>2. IsShortest(full, from, to, e)
    BY <1>2, <2>1 DEF IsShortest
  <2> QED
    BY <2>1, <2>2 DEF e
<1> QED
  BY <1>5, <1>6

LEMMA ShortestUnique ==
  ASSUME NEW full \in Nat \ {0}, NEW from \in Int, NEW to \in Int, NEW d \in Int,
         IsShortest(full, from, to, d)
  PROVE  ShortestTurn(full, from, to) = d
<1> DEFINE e == ShortestTurn(full, from, to)
<1>1. e \in Int /\ IsShortest(full, from, to, e)
  BY ShortestTurnIs
<1> HIDE DEF e
<1>2. PICK j \in Int : to - from = e + WholeTurns(full, j)
  BY <1>1 DEF IsShortest
<1>3. PICK k \in Int : to - from = d + WholeTurns(full, k)
  BY DEF IsShortest
<1>4. /\ WholeTurns(full, k) \in Int /\ WholeTurns(full, j) \in Int
      /\ WholeTurns(full, k - j) = WholeTurns(full, k) - WholeTurns(full, j)
  BY TurnsInt, TurnsDifference
<1>5. e - d \in Int /\ k - j \in Int /\ e - d = WholeTurns(full, k - j)
  BY <1>1, <1>2, <1>3, <1>4
<1>6. e - d < full /\ -full < e - d
  BY <1>1 DEF IsShortest
<1>7. e - d = 0
  BY <1>5, <1>6, LessThanATurn
<1> QED
  BY <1>1, <1>7 DEF e

\* A turn of less than half a turn is the shortest one to where it leads.
LEMMA SmallTurn ==
  ASSUME NEW full \in Nat \ {0}, NEW heading \in Int, NEW turn \in Int,
         2 * turn < full, -full < 2 * turn
  PROVE  ShortestTurn(full, heading, (heading + turn) % full) = turn
<1> DEFINE to == (heading + turn) % full
<1>0. heading + turn \in Int
  OBVIOUS
<1>1. to \in Int
  BY <1>0, RemainderIs
<1>2. PICK k \in Int : heading + turn = to + WholeTurns(full, k)
  BY <1>0, RemainderIs
<1> HIDE DEF to
<1>3. -k \in Int /\ WholeTurns(full, k) \in Int /\ WholeTurns(full, -k) = -WholeTurns(full, k)
  BY TurnsInt, TurnsBack
<1>4. to - heading = turn + WholeTurns(full, -k)
  BY <1>1, <1>2, <1>3
<1>5. IsShortest(full, heading, to, turn)
  BY <1>3, <1>4 DEF IsShortest
<1>6. ShortestTurn(full, heading, to) = turn
  BY <1>1, <1>5, ShortestUnique
<1> QED
  BY <1>6 DEF to

\* Turning towards a heading takes the turn away from what is left.
LEMMA TurnedTowards ==
  ASSUME NEW full \in Nat \ {0}, NEW heading \in Int, NEW to \in Int, NEW turn \in Int,
         NEW left \in Int, NEW j \in Int, to - heading = left + turn + WholeTurns(full, j),
         2 * left <= full, -full < 2 * left
  PROVE  ShortestTurn(full, (heading + turn) % full, to) = left
<1> DEFINE from == (heading + turn) % full
<1>0. heading + turn \in Int
  OBVIOUS
<1>1. from \in Int
  BY <1>0, RemainderIs
<1>2. PICK k \in Int : heading + turn = from + WholeTurns(full, k)
  BY <1>0, RemainderIs
<1> HIDE DEF from
<1>3. WholeTurns(full, k) \in Int /\ WholeTurns(full, j) \in Int /\ k + j \in Int
  BY TurnsInt
<1>4. WholeTurns(full, k + j) = WholeTurns(full, k) + WholeTurns(full, j)
  BY TurnsSum
<1>5. to - from = left + WholeTurns(full, k + j)
  BY <1>1, <1>2, <1>3, <1>4
<1>6. IsShortest(full, from, to, left)
  BY <1>3, <1>5 DEF IsShortest
<1>7. ShortestTurn(full, from, to) = left
  BY <1>1, <1>6, ShortestUnique
<1> QED
  BY <1>7 DEF from

\* There is nothing to turn between a heading and itself only.
LEMMA NothingToTurn ==
  ASSUME NEW full \in Nat \ {0}, NEW a \in 0 .. full - 1, NEW b \in 0 .. full - 1
  PROVE  ShortestTurn(full, a, b) = 0 <=> a = b
<1>0. a \in Int /\ b \in Int
  OBVIOUS
<1>1. ASSUME a = b PROVE ShortestTurn(full, a, b) = 0
  <2>1. b - a = 0 + WholeTurns(full, 0)
    BY <1>1, NoTurns
  <2>2. IsShortest(full, a, b, 0)
    BY <2>1 DEF IsShortest
  <2> QED
    BY <1>0, <2>2, 0 \in Int, ShortestUnique, Zenon
<1>2. ASSUME ShortestTurn(full, a, b) = 0 PROVE a = b
  <2>1. IsShortest(full, a, b, 0)
    BY <1>0, <1>2, ShortestTurnIs
  <2>2. PICK k \in Int : b - a = 0 + WholeTurns(full, k)
    BY <2>1 DEF IsShortest
  <2>3. b - a \in Int /\ b - a < full /\ -full < b - a /\ b - a = WholeTurns(full, k)
    BY <2>2, TurnsInt
  <2>4. b - a = 0
    BY <2>3, LessThanATurn
  <2> QED
    BY <2>4
<1> QED
  BY <1>1, <1>2

\* No turn to a heading is shorter than the shortest one.
LEMMA ShortestIsShortest ==
  ASSUME NEW full \in Nat \ {0}, NEW from \in Int, NEW to \in Int
  PROVE  Magnitude(ShortestTurn(full, from, to)) <= Magnitude(to - from)
<1> DEFINE d == ShortestTurn(full, from, to)
           n == to - from
<1>1. d \in Int /\ IsShortest(full, from, to, d)
  BY ShortestTurnIs
<1>2. n \in Int /\ to - from = n
  OBVIOUS
<1> HIDE DEF d, n
<1>3. 2 * d <= full /\ -full < 2 * d
  BY <1>1 DEF IsShortest
<1>4. CASE 2 * n <= full /\ -full < 2 * n
  <2>1. to - from = n + WholeTurns(full, 0)
    BY <1>2, NoTurns
  <2>2. IsShortest(full, from, to, n)
    BY <1>4, <2>1 DEF IsShortest
  <2>3. d = n
    BY <1>2, <2>2, ShortestUnique DEF d
  <2> QED
    BY <1>1, <2>3 DEF d, n, Magnitude
<1>5. CASE ~(2 * n <= full /\ -full < 2 * n)
  <2>1. Magnitude(d) <= Magnitude(n)
    BY <1>1, <1>2, <1>3, <1>5 DEF Magnitude
  <2> QED
    BY <2>1 DEF d, n
<1> QED
  BY <1>4, <1>5
=============================================================================
