------------------------- MODULE SessionTimersProofs -------------------------
(***************************************************************************)
(* Theorems about SessionTimers and Timing for every range of the clock,   *)
(* delay and lateness that TimingAssumption allows, and any contexts.      *)
(***************************************************************************)
EXTENDS SessionTimers, FiniteSetTheorems, SequenceTheorems, WellFoundedInduction,
        NaturalsInduction, TLAPS

-----------------------------------------------------------------------------
(* Times on a clock that wraps.                                            *)

Half == Wrap \div 2

\* What is assumed of the clock: half the range is a number, and what a comparison
\* sees is less than that.
LEMMA ClockNumbers ==
  /\ Wrap \in Nat /\ Half \in Nat /\ Wrap = 2 * Half /\ Half > 0
  /\ MaxDelay \in Nat /\ Early \in Nat /\ Lag \in Nat /\ Slack \in Nat
  /\ MaxDelay + 2 * Lag + 1 + Early < Half
  /\ MaxDelay + 2 * Lag + 1 + Slack < Wrap
BY TimingAssumption DEF Half

\* Times are numbers.
LEMMA TimesAre ==
  ASSUME NEW a
  PROVE  a \in Clocks <=> a \in Int /\ 0 <= a /\ a < Wrap
BY ClockNumbers DEF Clocks

\* A number less than one range away from those of the clock wraps once.
LEMMA WrapsOnce ==
  ASSUME NEW x \in Int, -Wrap <= x, x < 2 * Wrap
  PROVE  x % Wrap = IF x < 0 THEN x + Wrap ELSE IF x < Wrap THEN x ELSE x - Wrap
<1>1. Wrap \in Nat \ {0}
  BY TimingAssumption
<1>2. ASSUME NEW q \in Int, NEW r \in 0 .. Wrap - 1 PROVE (q * Wrap + r) % Wrap = r
  BY <1>1
<1>3. CASE x < 0
  <2>1. x = (-1) * Wrap + (x + Wrap) /\ x + Wrap \in 0 .. Wrap - 1
    BY <1>1, <1>3
  <2> QED
    BY <1>2, <1>3, <2>1
<1>4. CASE 0 <= x /\ x < Wrap
  <2>1. x = 0 * Wrap + x /\ x \in 0 .. Wrap - 1
    BY <1>1, <1>4
  <2> QED
    BY <1>2, <1>4, <2>1
<1>5. CASE Wrap <= x
  <2>1. x = 1 * Wrap + (x - Wrap) /\ x - Wrap \in 0 .. Wrap - 1
    BY <1>1, <1>5
  <2> QED
    BY <1>1, <1>2, <1>5, <2>1
<1> QED
  BY <1>1, <1>3, <1>4, <1>5

\* Minus without the remainder.
LEMMA MinusIs ==
  ASSUME NEW a \in Clocks, NEW b \in Int, -Wrap <= b, b <= Wrap
  PROVE  /\ Minus(a, b) = IF a < b THEN a - b + Wrap
                          ELSE IF a - b < Wrap THEN a - b ELSE a - b - Wrap
         /\ Minus(a, b) \in Clocks
<1>1. Wrap \in Nat
  BY ClockNumbers
<1>2. a - b \in Int /\ -Wrap <= a - b /\ a - b < 2 * Wrap
  BY <1>1 DEF Clocks
<1>3. Minus(a, b) = IF a - b < 0 THEN a - b + Wrap
                    ELSE IF a - b < Wrap THEN a - b ELSE a - b - Wrap
  BY <1>2, WrapsOnce DEF Minus
<1> QED
  BY <1>1, <1>2, <1>3 DEF Clocks

\* The difference of two times.
LEMMA DifferenceIs ==
  ASSUME NEW a \in Clocks, NEW b \in Clocks
  PROVE  /\ Minus(a, b) = IF a < b THEN a - b + Wrap ELSE a - b
         /\ Minus(a, b) \in Clocks
<1>1. Wrap \in Nat /\ b \in Int /\ -Wrap <= b /\ b <= Wrap
  BY ClockNumbers DEF Clocks
<1>2. /\ Minus(a, b) = IF a < b THEN a - b + Wrap
                       ELSE IF a - b < Wrap THEN a - b ELSE a - b - Wrap
      /\ Minus(a, b) \in Clocks
  BY <1>1, MinusIs
<1> QED
  BY <1>1, <1>2 DEF Clocks

\* ... taken as a signed number: the nearest way round.
LEMMA SignedIs ==
  ASSUME NEW a \in Clocks, NEW b \in Clocks
  PROVE  /\ Signed(a, b) = IF a - b < -Half THEN a - b + Wrap
                           ELSE IF a - b < Half THEN a - b ELSE a - b - Wrap
         /\ Signed(a, b) \in -Half .. Half - 1
<1>1. Signed(a, b) = IF Minus(a, b) < Half THEN Minus(a, b) ELSE Minus(a, b) - Wrap
  BY DEF Signed, Half
<1>2. Minus(a, b) = IF a < b THEN a - b + Wrap ELSE a - b
  BY DifferenceIs
<1>3. a \in Int /\ 0 <= a /\ a < Wrap /\ b \in Int /\ 0 <= b /\ b < Wrap
  BY TimesAre
<1>4. Wrap = 2 * Half /\ Half \in Nat
  BY ClockNumbers
<1> HIDE DEF Half
<1> QED
  BY <1>1, <1>2, <1>3, <1>4

\* Two times at the same distance are the same.
LEMMA SignedDetermines ==
  ASSUME NEW a \in Clocks, NEW b \in Clocks, NEW c \in Clocks, Signed(a, c) = Signed(b, c)
  PROVE  a = b
<1>1. /\ Signed(a, c) = IF a - c < -Half THEN a - c + Wrap
                         ELSE IF a - c < Half THEN a - c ELSE a - c - Wrap
      /\ Signed(b, c) = IF b - c < -Half THEN b - c + Wrap
                         ELSE IF b - c < Half THEN b - c ELSE b - c - Wrap
  BY SignedIs
<1>2. /\ a \in Int /\ 0 <= a /\ a < Wrap /\ b \in Int /\ 0 <= b /\ b < Wrap
      /\ c \in Int /\ 0 <= c /\ c < Wrap
  BY TimesAre
<1>3. Wrap = 2 * Half /\ Half \in Nat
  BY ClockNumbers
<1> HIDE DEF Half
<1>4. Signed(a, c) \in {a - c, a - c - Wrap, a - c + Wrap}
      /\ Signed(b, c) \in {b - c, b - c - Wrap, b - c + Wrap}
  BY <1>1
<1>5. Signed(a, c) \in Int /\ Signed(a, c) = Signed(b, c)
  BY <1>1, <1>2, <1>3
<1>6. a = b \/ a = b + Wrap \/ a = b - Wrap \/ a = b + 2 * Wrap \/ a = b - 2 * Wrap
  BY <1>2, <1>3, <1>4, <1>5
<1> QED
  BY <1>2, <1>3, <1>6

\* A tick: what is to come is nearer, what is past farther away.
LEMMA TickIs ==
  ASSUME NEW c \in Clocks
  PROVE  /\ Minus(c, -1) = IF c = Wrap - 1 THEN 0 ELSE c + 1
         /\ Minus(c, -1) \in Clocks
<1>1. -Wrap <= -1 /\ -1 <= Wrap /\ -1 \in Int /\ Wrap \in Nat
  BY ClockNumbers
<1> QED
  BY <1>1, MinusIs DEF Clocks

\* A tick brings a time to come one nearer, and makes one that has passed one older.
LEMMA TickMoves ==
  ASSUME NEW a \in Clocks, NEW c \in Clocks
  PROVE  /\ Signed(a, c) > -Half => Signed(a, Minus(c, -1)) = Signed(a, c) - 1
         /\ Minus(c, a) < Wrap - 1 => Minus(Minus(c, -1), a) = Minus(c, a) + 1
<1> DEFINE n == Minus(c, -1)
<1>1. n = (IF c = Wrap - 1 THEN 0 ELSE c + 1) /\ n \in Clocks
  BY TickIs
<1> HIDE DEF n
<1>2. /\ a \in Int /\ 0 <= a /\ a < Wrap /\ c \in Int /\ 0 <= c /\ c < Wrap
      /\ Wrap = 2 * Half /\ Half \in Nat
  BY TimesAre, ClockNumbers
<1>3. Signed(a, c) > -Half => Signed(a, n) = Signed(a, c) - 1
  <2>1. /\ Signed(a, c) = IF a - c < -Half THEN a - c + Wrap
                           ELSE IF a - c < Half THEN a - c ELSE a - c - Wrap
        /\ Signed(a, n) = IF a - n < -Half THEN a - n + Wrap
                           ELSE IF a - n < Half THEN a - n ELSE a - n - Wrap
    BY <1>1, SignedIs
  <2> QED
    BY <1>1, <1>2, <2>1
<1>4. Minus(c, a) < Wrap - 1 => Minus(n, a) = Minus(c, a) + 1
  <2>1. /\ Minus(c, a) = IF c < a THEN c - a + Wrap ELSE c - a
        /\ Minus(n, a) = IF n < a THEN n - a + Wrap ELSE n - a
    BY <1>1, DifferenceIs
  <2> QED
    BY <1>1, <1>2, <2>1
<1> QED
  BY <1>3, <1>4 DEF n

\* A timer that is set for some ticks from now has that many left, or one.
LEMMA WhenIs ==
  ASSUME clock \in Clocks, NEW ticks \in Delays, ticks > 0 \/ MaxDelay > 0
  PROVE  /\ when(ticks) \in Clocks
         /\ Minus(when(ticks), clock) = Max1(ticks)
         /\ Signed(when(ticks), clock) = Max1(ticks)
         /\ Minus(clock, clock) = 0
         /\ Max1(ticks) \in 1 .. MaxDelay
<1> DEFINE d == Max1(ticks)
           n == Minus(clock, -d)
<1>1. d \in Int /\ 1 <= d /\ d <= MaxDelay /\ when(ticks) = n
  BY ClockNumbers DEF Max1, Delays, when
<1> HIDE DEF d
<1>2. -d \in Int /\ -Wrap <= -d /\ -d <= Wrap
  BY <1>1, ClockNumbers
<1>3. n = (IF clock + d < Wrap THEN clock + d ELSE clock + d - Wrap) /\ n \in Clocks
  <2>1. /\ n = IF clock < -d THEN clock - (-d) + Wrap
                ELSE IF clock - (-d) < Wrap THEN clock - (-d) ELSE clock - (-d) - Wrap
        /\ n \in Clocks
    BY <1>1, <1>2, MinusIs
  <2>2. clock \in Int /\ 0 <= clock /\ Wrap \in Nat
    BY TimesAre, ClockNumbers
  <2> HIDE DEF n
  <2> QED
    BY <1>1, <2>1, <2>2
<1> HIDE DEF n
<1>4. Minus(n, clock) = d /\ Signed(n, clock) = d /\ Minus(clock, clock) = 0
  <2>1. /\ Minus(n, clock) = IF n < clock THEN n - clock + Wrap ELSE n - clock
        /\ Signed(n, clock) = IF n - clock < -Half THEN n - clock + Wrap
                               ELSE IF n - clock < Half THEN n - clock ELSE n - clock - Wrap
        /\ Minus(clock, clock) = IF clock < clock THEN clock - clock + Wrap ELSE clock - clock
    BY <1>3, DifferenceIs, SignedIs
  <2>2. /\ clock \in Int /\ 0 <= clock /\ clock < Wrap /\ Wrap = 2 * Half /\ Half \in Nat
        /\ MaxDelay < Half /\ MaxDelay \in Nat
    BY TimesAre, ClockNumbers
  <2> QED
    BY <1>1, <1>3, <2>1, <2>2
<1> QED
  BY <1>1, <1>3, <1>4 DEF d

-----------------------------------------------------------------------------
(***************************************************************************)
(* The inductive invariant of the timers.  What is said of them is said of *)
(* a state s of timing.c, so that it can be said in the middle of a        *)
(* handler.                                                                *)
(***************************************************************************)
TimerStates == [now : Clocks, timers : Seq(Timers), contexts : SUBSET Contexts,
                wake : [on : BOOLEAN, left : Int], lost : SUBSET Contexts]

\* How long ago a timer was set, and for how long.
Since(t) == Minus(clock, t.when_set)
Wait(t) == Minus(t.now, t.when_set)

\* No timer has been in the tree for so long that the clock has gone round.
Sound(s) ==
  \A i \in DOMAIN s.timers : LET t == s.timers[i] IN
    Since(t) + Left(t) = Wait(t) /\ Wait(t) \in 1 .. MaxDelay

\* The tree is sorted, by the time at hand and not by the static now.
Sorted(s) ==
  \A i, j \in DOMAIN s.timers : i < j => compareTimers(s.timers[i], s.timers[j], clock)

\* How old the static now is.
Age(s) == Minus(clock, s.now)

\* How late a timer can be.  While the front end sleeps no timer is later than it
\* was when the last run ended, until the front end is late itself.
Punctual(s) ==
  IF running
  THEN /\ Age(s) <= late
       /\ \A i \in DOMAIN s.timers : LET t == s.timers[i] IN
            Left(t) >= -(Lag + 1) - late /\ Age(s) <= Since(t)
  ELSE \A i \in DOMAIN s.timers : LET t == s.timers[i] IN
         /\ s.wake.on /\ s.wake.left <= Max1(Left(t))
         /\ Left(t) >= IF s.wake.left > 0 THEN -Lag ELSE -(Lag + 1) - late

\* The front end's timer is not later than the front end.
Wakes(s) ==
  /\ s.wake.left >= -late /\ s.wake.left <= MaxDelay + 1
  /\ ~s.wake.on => s.wake.left = 0

Fits(s) == Sound(s) /\ Sorted(s) /\ Punctual(s) /\ Wakes(s)

TimeTypes == clock \in Clocks /\ running \in BOOLEAN /\ late \in 0 .. Lag

-----------------------------------------------------------------------------
(* The order of the tree.                                                  *)

\* The parts of a timer and of the state they are kept in.
LEMMA TimerParts ==
  ASSUME NEW t \in Timers
  PROVE  /\ t.fn \in Fns /\ t.ctx \in Contexts /\ t.now \in Clocks /\ t.when_set \in Clocks
         /\ t.ctx \in Nat
         /\ t = [fn |-> t.fn, ctx |-> t.ctx, now |-> t.now, when_set |-> t.when_set]
BY ContextsAssumption DEF Timers, Contexts

\* The parts of a state of timing.c, and what the leaves of the proofs need of them.
LEMMA TreeParts ==
  ASSUME NEW s \in TimerStates
  PROVE  /\ s.now \in Clocks /\ s.contexts \subseteq Contexts /\ s.lost \subseteq Contexts
         /\ s.timers \in Seq(Timers) /\ Len(s.timers) \in Nat
         /\ DOMAIN s.timers = 1 .. Len(s.timers)
         /\ s.wake.on \in BOOLEAN /\ s.wake.left \in Int
         /\ \A i \in DOMAIN s.timers : s.timers[i] \in Timers
<1>1. /\ s.now \in Clocks /\ s.contexts \subseteq Contexts /\ s.lost \subseteq Contexts
      /\ s.timers \in Seq(Timers) /\ s.wake \in [on : BOOLEAN, left : Int]
  BY DEF TimerStates
<1>2. /\ Len(s.timers) \in Nat /\ DOMAIN s.timers = 1 .. Len(s.timers)
      /\ \A i \in DOMAIN s.timers : s.timers[i] \in Timers
  BY <1>1
<1> QED
  BY <1>1, <1>2

\* The rank of a function tells it from the other.
LEMMA RanksDiffer ==
  ASSUME NEW f \in Fns, NEW g \in Fns
  PROVE  Rank(f) \in Int /\ Rank(g) \in Int /\ (Rank(f) = Rank(g) => f = g)
BY DEF Fns, Rank

\* compare_timers orders any two timers that are not the same.
LEMMA OrderIsTotal ==
  ASSUME NEW a \in Timers, NEW b \in Timers, clock \in Clocks
  PROVE  /\ sameTimer(a, b) \/ compareTimers(a, b, clock) \/ compareTimers(b, a, clock)
         /\ compareTimers(a, b, clock) => Left(a) <= Left(b) /\ ~sameTimer(a, b)
         /\ sameTimer(a, b) <=> a.now = b.now /\ a.fn = b.fn /\ a.ctx = b.ctx
<1> DEFINE at == Signed(a.now, clock)
           bt == Signed(b.now, clock)
<1>1. /\ at \in Int /\ bt \in Int /\ a.ctx \in Nat /\ b.ctx \in Nat
      /\ Left(a) = at /\ Left(b) = bt
  BY TimerParts, SignedIs, ClockNumbers DEF Left
<1>2. at = bt => a.now = b.now
  BY TimerParts, SignedDetermines
<1>3. Rank(a.fn) \in Int /\ Rank(b.fn) \in Int /\ (Rank(a.fn) = Rank(b.fn) => a.fn = b.fn)
  BY TimerParts, RanksDiffer
<1>4. sameTimer(a, b) <=> a.now = b.now /\ a.fn = b.fn /\ a.ctx = b.ctx
  BY DEF sameTimer
<1>5. /\ compareTimers(a, b, clock) <=> \/ at < bt
                                        \/ at = bt /\ Rank(a.fn) < Rank(b.fn)
                                        \/ at = bt /\ a.fn = b.fn /\ a.ctx < b.ctx
      /\ compareTimers(b, a, clock) <=> \/ bt < at
                                        \/ bt = at /\ Rank(b.fn) < Rank(a.fn)
                                        \/ bt = at /\ b.fn = a.fn /\ b.ctx < a.ctx
  BY DEF compareTimers
<1>6. a.now = b.now => at = bt
  OBVIOUS
<1>7. a.fn = b.fn => Rank(a.fn) = Rank(b.fn)
  OBVIOUS
<1> HIDE DEF at, bt
<1> QED
  BY <1>1, <1>2, <1>3, <1>4, <1>5, <1>6, <1>7

\* compare_timers orders the timers at any one time.
LEMMA OrderIsTransitive ==
  ASSUME NEW a \in Timers, NEW b \in Timers, NEW c \in Timers, clock \in Clocks,
         compareTimers(a, b, clock), compareTimers(b, c, clock)
  PROVE  compareTimers(a, c, clock)
<1> DEFINE at == Signed(a.now, clock)
           bt == Signed(b.now, clock)
           ct == Signed(c.now, clock)
<1>1. /\ at \in Int /\ bt \in Int /\ ct \in Int
      /\ a.ctx \in Nat /\ b.ctx \in Nat /\ c.ctx \in Nat
  BY TimerParts, SignedIs, ClockNumbers
<1>2. /\ Rank(a.fn) \in Int /\ Rank(b.fn) \in Int /\ Rank(c.fn) \in Int
  BY TimerParts, RanksDiffer
<1>3. /\ \/ at < bt
         \/ at = bt /\ Rank(a.fn) < Rank(b.fn)
         \/ at = bt /\ a.fn = b.fn /\ a.ctx < b.ctx
      /\ \/ bt < ct
         \/ bt = ct /\ Rank(b.fn) < Rank(c.fn)
         \/ bt = ct /\ b.fn = c.fn /\ b.ctx < c.ctx
  BY DEF compareTimers
<1>4. compareTimers(a, c, clock) <=> \/ at < ct
                                     \/ at = ct /\ Rank(a.fn) < Rank(c.fn)
                                     \/ at = ct /\ a.fn = c.fn /\ a.ctx < c.ctx
  BY DEF compareTimers
<1> HIDE DEF at, bt, ct
<1> QED
  BY <1>1, <1>2, <1>3, <1>4

\* The least number that is not in a set.
LEMMA FirstGap ==
  ASSUME NEW n \in Nat, NEW S \in SUBSET (1 .. n)
  PROVE  \E k \in 0 .. n : 1 .. k \subseteq S /\ k + 1 \notin S
<1> DEFINE R == {p \in Nat \X Nat : p[1] < p[2]}
           G == {i \in 1 .. n + 1 : i \notin S}
<1>1. IsWellFoundedOn(R, Nat)
  BY NatLessThanWellFounded DEF OpToRel
<1>2. n + 1 \in G /\ G \subseteq Nat
  OBVIOUS
<1> HIDE DEF R
<1>3. PICK m \in G : \A i \in G : <<i, m>> \notin R
  BY <1>1, <1>2, WFMin
<1>4. \A i \in G : ~(i < m)
  BY <1>2, <1>3 DEF R
<1>5. m - 1 \in 0 .. n /\ (m - 1) + 1 \notin S
  BY <1>3
<1>6. ASSUME NEW i \in 1 .. m - 1 PROVE i \in S
  BY <1>3, <1>4
<1>7. 1 .. m - 1 \subseteq S
  BY <1>6
<1> QED
  BY <1>5, <1>7

\* The places of the timers before a new one are the first places of the tree.
LEMMA FirstPlaces ==
  ASSUME NEW n \in Nat, NEW S \in SUBSET (1 .. n),
         \A i \in 1 .. n, j \in S : i < j => i \in S
  PROVE  Cardinality(S) \in 0 .. n /\ S = 1 .. Cardinality(S)
<1>1. PICK k \in 0 .. n : 1 .. k \subseteq S /\ k + 1 \notin S
  BY FirstGap
<1>2. ASSUME NEW j \in S PROVE j \in 1 .. k
  <2>1. j \in 1 .. n
    OBVIOUS
  <2>2. CASE j > k
    <3>1. k + 1 \in 1 .. n /\ k + 1 # j /\ k + 1 < j
      BY <1>1, <1>2, <2>1, <2>2
    <3> QED
      BY <1>1, <1>2, <3>1
  <2> QED
    BY <2>1, <2>2
<1>3. S = 1 .. k
  BY <1>1, <1>2
<1>4. Cardinality(1 .. k) = k
  <2>1. k \in Int /\ 1 \in Int
    OBVIOUS
  <2>2. Cardinality(1 .. k) = IF 1 > k THEN 0 ELSE k - 1 + 1
    BY <2>1, FS_Interval
  <2> QED
    BY <2>2
<1> QED
  BY <1>1, <1>3, <1>4

\* A sequence with one element more.
LEMMA InsertAtIs ==
  ASSUME NEW q \in Seq(Timers), NEW m \in 1 .. Len(q) + 1, NEW e \in Timers
  PROVE  /\ InsertAt(q, m, e) \in Seq(Timers) /\ Len(InsertAt(q, m, e)) = Len(q) + 1
         /\ \A i \in 1 .. m - 1 : InsertAt(q, m, e)[i] = q[i]
         /\ InsertAt(q, m, e)[m] = e
         /\ \A i \in m + 1 .. Len(q) + 1 : InsertAt(q, m, e)[i] = q[i - 1]
<1> DEFINE a == SubSeq(q, 1, m - 1)
           b == SubSeq(q, m, Len(q))
           ab == a \o <<e>>
           r == InsertAt(q, m, e)
<1>1. Len(q) \in Nat /\ m \in Nat /\ 1 <= m /\ m <= Len(q) + 1
  OBVIOUS
<1>2. a \in Seq(Timers) /\ Len(a) = m - 1 /\ \A i \in 1 .. m - 1 : a[i] = q[i]
  BY <1>1
<1>3. b \in Seq(Timers) /\ Len(b) = Len(q) - m + 1
      /\ \A i \in 1 .. Len(q) - m + 1 : b[i] = q[m + i - 1]
  BY <1>1
<1>4. r = ab \o b
  BY DEF InsertAt
<1> HIDE DEF a, b, r
<1>5. /\ ab \in Seq(Timers) /\ Len(ab) = m
      /\ ab[m] = e /\ \A i \in 1 .. m - 1 : ab[i] = a[i]
  BY <1>1, <1>2
<1> HIDE DEF ab
<1>6. /\ r \in Seq(Timers) /\ Len(r) = Len(q) + 1
      /\ \A i \in 1 .. Len(q) + 1 : r[i] = IF i <= m THEN ab[i] ELSE b[i - m]
  <2>1. /\ ab \o b \in Seq(Timers) /\ Len(ab \o b) = Len(ab) + Len(b)
        /\ \A i \in 1 .. Len(ab) + Len(b) :
             (ab \o b)[i] = IF i <= Len(ab) THEN ab[i] ELSE b[i - Len(ab)]
    BY <1>3, <1>5, ConcatProperties, Zenon
  <2>2. Len(ab) + Len(b) = Len(q) + 1
    BY <1>1, <1>3, <1>5
  <2> QED
    BY <1>4, <1>5, <2>1, <2>2
<1>7. ASSUME NEW i \in m + 1 .. Len(q) + 1 PROVE r[i] = q[i - 1]
  <2>1. i - m \in 1 .. Len(q) - m + 1 /\ m + (i - m) - 1 = i - 1 /\ ~(i <= m)
        /\ i \in 1 .. Len(q) + 1
    BY <1>1
  <2>2. b[i - m] = q[m + (i - m) - 1]
    BY <1>3, <2>1
  <2> QED
    BY <1>6, <2>1, <2>2
<1>8. \A i \in 1 .. m - 1 : r[i] = q[i]
  BY <1>1, <1>2, <1>5, <1>6
<1>9. r[m] = e
  BY <1>1, <1>5, <1>6
<1> QED
  BY <1>6, <1>7, <1>8, <1>9 DEF r

\* The timer schedule_timer makes, and whether the tree has one that is the same.
NewTimer(ticks, fn, ctx) ==
  [fn |-> fn, ctx |-> ctx, now |-> when(ticks), when_set |-> clock]

Twin(s, t) == \E i \in DOMAIN s.timers : sameTimer(s.timers[i], t)

\* schedule_timer with an identical timer in the tree.
TwinFound(r, s, t) ==
  r = [s EXCEPT !.now = clock,
                !.lost = IF t.ctx \in s.contexts THEN @ ELSE @ \cup {t.ctx}]

\* schedule_timer otherwise: the timer is put behind the first k.
PutBehind(r, s, t, k) ==
  /\ r.now = clock /\ r.contexts = s.contexts \cup {t.ctx} /\ r.lost = s.lost
  /\ r.wake = IF k = 0 THEN start(t.now) ELSE s.wake
  /\ Len(r.timers) = Len(s.timers) + 1
  /\ \A i \in 1 .. k : r.timers[i] = s.timers[i] /\ compareTimers(s.timers[i], t, clock)
  /\ r.timers[k + 1] = t
  /\ \A i \in k + 2 .. Len(s.timers) + 1 : r.timers[i] = s.timers[i - 1]
  /\ \A i \in k + 1 .. Len(s.timers) : compareTimers(t, s.timers[i], clock)

\* What schedule_timer does.
LEMMA ScheduleIs ==
  ASSUME clock \in Clocks, NEW s \in TimerStates, Sorted(s),
         NEW ticks \in Delays, MaxDelay > 0, NEW fn \in Fns, NEW ctx \in Contexts
  PROVE  LET r == scheduleTimer(s, ticks, fn, ctx)
             t == NewTimer(ticks, fn, ctx)
         IN  /\ t \in Timers /\ r \in TimerStates
             /\ \/ Twin(s, t) /\ TwinFound(r, s, t)
                \/ ~Twin(s, t) /\ \E k \in 0 .. Len(s.timers) : PutBehind(r, s, t, k)
<1> DEFINE t == NewTimer(ticks, fn, ctx)
           r == scheduleTimer(s, ticks, fn, ctx)
           before == {i \in DOMAIN s.timers : compareTimers(s.timers[i], t, clock)}
           k == Cardinality(before)
           n == Len(s.timers)
<1>1. t \in Timers /\ t.ctx = ctx /\ t.now = when(ticks)
  BY WhenIs DEF Timers, NewTimer
<1>2. /\ n \in Nat /\ DOMAIN s.timers = 1 .. n /\ s.timers \in Seq(Timers)
      /\ \A i \in 1 .. n : s.timers[i] \in Timers
  BY TreeParts
<1>3. r = IF Twin(s, t)
          THEN [s EXCEPT !.now = clock,
                         !.lost = IF ctx \in s.contexts THEN @ ELSE @ \cup {ctx}]
          ELSE [s EXCEPT !.now = clock, !.timers = InsertAt(@, k + 1, t),
                         !.contexts = @ \cup {ctx},
                         !.wake = IF k + 1 = 1 THEN start(t.now) ELSE @]
  BY DEF scheduleTimer, Twin, NewTimer
<1> HIDE DEF t, r
<1>4. CASE Twin(s, t)
  <2>1. TwinFound(r, s, t)
    BY <1>1, <1>3, <1>4 DEF TwinFound
  <2>2. r \in TimerStates
    BY <1>3, <1>4 DEF TimerStates
  <2> QED
    BY <1>1, <1>4, <2>1, <2>2 DEF t, r
<1>5. CASE ~Twin(s, t)
  <2>1. k \in 0 .. n /\ before = 1 .. k
    <3>1. ASSUME NEW i \in 1 .. n, NEW j \in before, i < j PROVE i \in before
      <4>1. compareTimers(s.timers[i], s.timers[j], clock)
        BY <1>2, <3>1 DEF Sorted
      <4>2. compareTimers(s.timers[j], t, clock) /\ s.timers[j] \in Timers
        BY <1>2
      <4>3. s.timers[i] \in Timers
        BY <1>2
      <4>4. compareTimers(s.timers[i], t, clock)
        BY <1>1, <4>1, <4>2, <4>3, OrderIsTransitive
      <4> QED
        BY <1>2, <4>4
    <3>2. before \in SUBSET (1 .. n)
      BY <1>2
    <3> HIDE DEF before, n
    <3> QED
      BY <1>2, <3>1, <3>2, FirstPlaces
  <2>2. \A i \in 1 .. k : compareTimers(s.timers[i], t, clock)
    BY <2>1
  <2>3. ASSUME NEW i \in k + 1 .. n PROVE compareTimers(t, s.timers[i], clock)
    <3>1. i \in 1 .. n /\ i \notin 1 .. k
      BY <1>2, <2>1
    <3>2. s.timers[i] \in Timers /\ ~compareTimers(s.timers[i], t, clock)
      BY <1>2, <2>1, <3>1
    <3>3. ~sameTimer(s.timers[i], t)
      BY <1>2, <1>5, <3>1 DEF Twin
    <3> QED
      BY <1>1, <3>2, <3>3, OrderIsTotal
  <2> HIDE DEF before, k
  <2> DEFINE q == InsertAt(s.timers, k + 1, t)
  <2>4. /\ q \in Seq(Timers) /\ Len(q) = n + 1
        /\ \A i \in 1 .. k : q[i] = s.timers[i]
        /\ q[k + 1] = t
        /\ \A i \in k + 2 .. n + 1 : q[i] = s.timers[i - 1]
    <3> DEFINE m == k + 1
    <3>1. /\ s.timers \in Seq(Timers) /\ m \in 1 .. Len(s.timers) + 1 /\ t \in Timers
          /\ m - 1 = k /\ m + 1 = k + 2
      BY <1>1, <1>2, <2>1
    <3>2. q = InsertAt(s.timers, m, t)
      OBVIOUS
    <3> HIDE DEF q, m
    <3>3. /\ q \in Seq(Timers) /\ Len(q) = Len(s.timers) + 1
          /\ \A i \in 1 .. m - 1 : q[i] = s.timers[i]
          /\ q[m] = t
          /\ \A i \in m + 1 .. Len(s.timers) + 1 : q[i] = s.timers[i - 1]
      BY <3>1, <3>2, InsertAtIs
    <3> QED
      BY <3>1, <3>3 DEF m
  <2>5. start(t.now) \in [on : BOOLEAN, left : Int]
    <3>1. t.now \in Clocks
      BY <1>1, TimerParts
    <3>2. Signed(t.now, clock) \in Int
      BY <3>1, SignedIs, ClockNumbers
    <3>3. TRUE \in BOOLEAN
      OBVIOUS
    <3> QED
      BY <3>2, <3>3 DEF start
  <2>6. k + 1 = 1 <=> k = 0
    BY <2>1
  <2> HIDE DEF q
  <2>7. r = [s EXCEPT !.now = clock, !.timers = q, !.contexts = @ \cup {ctx},
                      !.wake = IF k = 0 THEN start(t.now) ELSE @]
    BY <1>3, <1>5, <2>6 DEF q
  <2>8. s.wake \in [on : BOOLEAN, left : Int]
    BY DEF TimerStates
  <2>9. r \in TimerStates
    BY <2>4, <2>5, <2>7, <2>8 DEF TimerStates
  <2>10. /\ r.now = clock /\ r.contexts = s.contexts \cup {ctx} /\ r.lost = s.lost
         /\ r.timers = q /\ r.wake = IF k = 0 THEN start(t.now) ELSE s.wake
    BY <2>7 DEF TimerStates
  <2>11. PutBehind(r, s, t, k)
    BY <1>1, <2>2, <2>3, <2>4, <2>10 DEF PutBehind
  <2> QED
    BY <1>1, <1>5, <2>1, <2>9, <2>11 DEF t, r
<1> QED
  BY <1>4, <1>5

-----------------------------------------------------------------------------
(* What the calls of timing.c keep.                                        *)

\* The times of a timer are numbers.
LEMMA TimesOfTimer ==
  ASSUME clock \in Clocks, NEW t \in Timers
  PROVE  /\ Left(t) \in Int /\ Left(t) >= -Half /\ Left(t) < Half
         /\ Since(t) \in Int /\ Since(t) >= 0 /\ Since(t) < Wrap
         /\ Wait(t) \in Int /\ Wait(t) >= 0 /\ Wait(t) < Wrap
<1>1. t.now \in Clocks /\ t.when_set \in Clocks
  BY TimerParts
<1>2. Signed(t.now, clock) \in -Half .. Half - 1
  BY <1>1, SignedIs
<1>3. Minus(clock, t.when_set) \in Clocks /\ Minus(t.now, t.when_set) \in Clocks
  BY <1>1, DifferenceIs
<1> HIDE DEF Half
<1> QED
  BY <1>2, <1>3, TimesAre, ClockNumbers DEF Left, Since, Wait

\* A timer that has just been set.
LEMMA NewTimerIs ==
  ASSUME clock \in Clocks, NEW ticks \in Delays, MaxDelay > 0, NEW fn \in Fns,
         NEW ctx \in Contexts
  PROVE  LET t == NewTimer(ticks, fn, ctx) IN
         /\ t \in Timers /\ t.fn = fn /\ t.ctx = ctx /\ t.now = when(ticks)
         /\ Left(t) = Max1(ticks) /\ Since(t) = 0 /\ Wait(t) = Max1(ticks)
         /\ start(t.now) = [on |-> TRUE, left |-> Max1(ticks)]
         /\ Max1(ticks) \in 1 .. MaxDelay
<1>1. /\ when(ticks) \in Clocks /\ Max1(ticks) \in 1 .. MaxDelay
      /\ Minus(when(ticks), clock) = Max1(ticks) /\ Signed(when(ticks), clock) = Max1(ticks)
      /\ Minus(clock, clock) = 0
  BY WhenIs
<1>2. start(when(ticks)) = [on |-> TRUE, left |-> Max1(ticks)]
  <2>1. Max1(ticks) \in Int /\ ~(Max1(ticks) <= 0)
    BY <1>1, ClockNumbers
  <2> QED
    BY <1>1, <2>1 DEF start
<1> QED
  BY <1>1, <1>2 DEF NewTimer, Timers, Left, Since, Wait

\* A timer in the tree is an old one or the one just put.
LEMMA OldOrNew ==
  ASSUME NEW s \in TimerStates, NEW r \in TimerStates, NEW t, NEW k \in 0 .. Len(s.timers),
         PutBehind(r, s, t, k)
  PROVE  /\ \A i \in DOMAIN r.timers :
              r.timers[i] = t \/ \E j \in DOMAIN s.timers : r.timers[i] = s.timers[j]
         /\ \A j \in DOMAIN s.timers : \E i \in DOMAIN r.timers : r.timers[i] = s.timers[j]
         /\ \E i \in DOMAIN r.timers : r.timers[i] = t
<1> DEFINE n == Len(s.timers)
<1>1. /\ n \in Nat /\ DOMAIN s.timers = 1 .. n /\ DOMAIN r.timers = 1 .. n + 1
      /\ k \in Nat /\ k <= n
  BY TreeParts DEF PutBehind
<1>2. /\ \A i \in 1 .. k : r.timers[i] = s.timers[i]
      /\ r.timers[k + 1] = t
      /\ \A i \in k + 2 .. n + 1 : r.timers[i] = s.timers[i - 1]
  BY DEF PutBehind
<1> HIDE DEF n
<1>3. ASSUME NEW i \in 1 .. n + 1
      PROVE  r.timers[i] = t \/ \E j \in 1 .. n : r.timers[i] = s.timers[j]
  <2>1. CASE i \in 1 .. k
    BY <1>1, <1>2, <2>1
  <2>2. CASE i = k + 1
    BY <1>2, <2>2
  <2>3. CASE i \in k + 2 .. n + 1
    <3>1. i - 1 \in 1 .. n
      BY <1>1, <2>3
    <3> QED
      BY <1>2, <2>3, <3>1
  <2> QED
    BY <1>1, <2>1, <2>2, <2>3
<1>4. ASSUME NEW j \in 1 .. n PROVE \E i \in 1 .. n + 1 : r.timers[i] = s.timers[j]
  <2>1. CASE j <= k
    <3>1. j \in 1 .. k /\ j \in 1 .. n + 1
      BY <1>1, <2>1
    <3> QED
      BY <1>2, <3>1
  <2>2. CASE j > k
    <3>1. j + 1 \in k + 2 .. n + 1 /\ (j + 1) - 1 = j /\ j + 1 \in 1 .. n + 1
      BY <1>1, <2>2
    <3> QED
      BY <1>2, <3>1
  <2> QED
    BY <1>1, <2>1, <2>2
<1>5. k + 1 \in 1 .. n + 1
  BY <1>1
<1> QED
  BY <1>1, <1>2, <1>3, <1>4, <1>5

\* schedule_timer leaves the tree sorted.
LEMMA ScheduleSorts ==
  ASSUME clock \in Clocks, NEW s \in TimerStates, NEW r \in TimerStates, Sorted(s),
         NEW t, NEW k \in 0 .. Len(s.timers), PutBehind(r, s, t, k)
  PROVE  Sorted(r)
<1> DEFINE n == Len(s.timers)
<1>1. /\ n \in Nat /\ DOMAIN s.timers = 1 .. n /\ DOMAIN r.timers = 1 .. n + 1
      /\ k \in Nat /\ k <= n
  BY TreeParts DEF PutBehind
<1>2. /\ \A i \in 1 .. k : r.timers[i] = s.timers[i] /\ compareTimers(s.timers[i], t, clock)
      /\ r.timers[k + 1] = t
      /\ \A i \in k + 2 .. n + 1 : r.timers[i] = s.timers[i - 1]
      /\ \A i \in k + 1 .. n : compareTimers(t, s.timers[i], clock)
  BY DEF PutBehind
<1>3. \A i, j \in 1 .. n : i < j => compareTimers(s.timers[i], s.timers[j], clock)
  BY <1>1 DEF Sorted
<1> HIDE DEF n
<1> SUFFICES ASSUME NEW i \in 1 .. n + 1, NEW j \in 1 .. n + 1, i < j
             PROVE  compareTimers(r.timers[i], r.timers[j], clock)
  BY <1>1 DEF Sorted
<1>4. CASE j <= k
  <2>1. i \in 1 .. k /\ j \in 1 .. k /\ i \in 1 .. n /\ j \in 1 .. n
    BY <1>1, <1>4
  <2> QED
    BY <1>2, <1>3, <2>1
<1>5. CASE j = k + 1
  <2>1. i \in 1 .. k
    BY <1>1, <1>5
  <2> QED
    BY <1>2, <1>5, <2>1
<1>6. CASE j > k + 1
  <2>1. j \in k + 2 .. n + 1 /\ j - 1 \in 1 .. n /\ j - 1 \in k + 1 .. n
    BY <1>1, <1>6
  <2>2. r.timers[j] = s.timers[j - 1]
    BY <1>2, <2>1
  <2>3. CASE i <= k
    <3>1. i \in 1 .. k /\ i \in 1 .. n /\ i < j - 1
      BY <1>1, <1>6, <2>3
    <3> QED
      BY <1>2, <1>3, <2>1, <2>2, <3>1
  <2>4. CASE i = k + 1
    BY <1>2, <2>1, <2>2, <2>4
  <2>5. CASE i > k + 1
    <3>1. i \in k + 2 .. n + 1 /\ i - 1 \in 1 .. n /\ i - 1 < j - 1
      BY <1>1, <2>5
    <3>2. r.timers[i] = s.timers[i - 1]
      BY <1>2, <3>1
    <3> QED
      BY <1>3, <2>1, <2>2, <3>1, <3>2
  <2> QED
    BY <1>1, <2>3, <2>4, <2>5
<1> QED
  BY <1>1, <1>4, <1>5, <1>6

\* A timer that is put does not make the front end late for any other.
LEMMA PutKeepsWake ==
  ASSUME TimeTypes, NEW s \in TimerStates, NEW r \in TimerStates, Fits(s), ~running,
         NEW ticks \in Delays, MaxDelay > 0, NEW fn \in Fns, NEW ctx \in Contexts,
         NEW k \in 0 .. Len(s.timers), PutBehind(r, s, NewTimer(ticks, fn, ctx), k)
  PROVE  Punctual(r)
<1> DEFINE t == NewTimer(ticks, fn, ctx)
           n == Len(s.timers)
<1>1. /\ t \in Timers /\ Left(t) = Max1(ticks) /\ Max1(ticks) \in 1 .. MaxDelay
      /\ start(t.now) = [on |-> TRUE, left |-> Max1(ticks)]
  BY NewTimerIs DEF TimeTypes
<1> HIDE DEF t
<1>2. /\ n \in Nat /\ DOMAIN s.timers = 1 .. n /\ DOMAIN r.timers = 1 .. n + 1
      /\ \A i \in 1 .. n : s.timers[i] \in Timers
      /\ k \in Nat /\ k <= n /\ s.wake.left \in Int
  BY TreeParts DEF PutBehind, t
<1>3. /\ \A i \in 1 .. k : compareTimers(s.timers[i], t, clock)
      /\ \A i \in k + 1 .. n : compareTimers(t, s.timers[i], clock)
      /\ r.wake = IF k = 0 THEN start(t.now) ELSE s.wake
  BY DEF PutBehind, t
<1>4. \A i \in 1 .. n : /\ s.wake.on /\ s.wake.left <= Max1(Left(s.timers[i]))
                        /\ Left(s.timers[i]) >= IF s.wake.left > 0 THEN -Lag
                                                ELSE -(Lag + 1) - late
                        /\ Left(s.timers[i]) \in Int
  BY <1>2, TimesOfTimer DEF Fits, Punctual, TimeTypes
<1>5. late \in Nat /\ Lag \in Nat /\ MaxDelay \in Nat
  BY ClockNumbers DEF TimeTypes
<1> HIDE DEF n
<1>6. ASSUME NEW u, u = t \/ \E j \in 1 .. n : u = s.timers[j]
      PROVE  /\ r.wake.on /\ r.wake.left <= Max1(Left(u))
             /\ Left(u) >= IF r.wake.left > 0 THEN -Lag ELSE -(Lag + 1) - late
  <2>1. CASE k = 0
    <3>1. r.wake = [on |-> TRUE, left |-> Max1(ticks)]
      BY <1>1, <1>3, <2>1
    <3>2. Left(u) \in Int /\ Left(u) >= Max1(ticks)
      <4>1. CASE u = t
        BY <1>1, <4>1
      <4>2. CASE \E j \in 1 .. n : u = s.timers[j]
        <5>1. PICK j \in 1 .. n : u = s.timers[j]
          BY <4>2
        <5>2. compareTimers(t, u, clock) /\ u \in Timers
          BY <1>2, <1>3, <2>1, <5>1
        <5>3. Left(t) <= Left(u)
          BY <1>1, <5>2, OrderIsTotal DEF TimeTypes
        <5> QED
          BY <1>1, <1>4, <5>1, <5>3
      <4> QED
        BY <1>6, <4>1, <4>2
    <3> QED
      BY <1>1, <1>5, <3>1, <3>2 DEF Max1
  <2>2. CASE k > 0
    <3>1. r.wake = s.wake
      BY <1>3, <2>2
    <3>2. CASE u = t
      <4>1. 1 \in 1 .. k /\ 1 \in 1 .. n
        BY <1>2, <2>2
      <4>2. compareTimers(s.timers[1], t, clock) /\ s.timers[1] \in Timers
        BY <1>2, <1>3, <4>1
      <4>3. Left(s.timers[1]) <= Left(t)
        BY <1>1, <4>2, OrderIsTotal DEF TimeTypes
      <4>4. /\ s.wake.on /\ s.wake.left <= Max1(Left(s.timers[1]))
            /\ Left(s.timers[1]) \in Int
        BY <1>4, <4>1
      <4> QED
        BY <1>1, <1>2, <1>5, <3>1, <3>2, <4>3, <4>4 DEF Max1
    <3>3. CASE \E j \in 1 .. n : u = s.timers[j]
      BY <1>4, <3>1, <3>3
    <3> QED
      BY <1>6, <3>2, <3>3
  <2> QED
    BY <1>2, <2>1, <2>2
<1>7. \A i \in DOMAIN r.timers : r.timers[i] = t \/ \E j \in 1 .. n : r.timers[i] = s.timers[j]
  BY <1>2, OldOrNew DEF t
<1> QED
  BY <1>6, <1>7 DEF Punctual

\* schedule_timer keeps the timers in order, whoever calls it and when.
LEMMA ScheduleFits ==
  ASSUME TimeTypes, NEW s \in TimerStates, Fits(s),
         NEW ticks \in Delays, MaxDelay > 0, NEW fn \in Fns, NEW ctx \in Contexts
  PROVE  LET r == scheduleTimer(s, ticks, fn, ctx) IN r \in TimerStates /\ Fits(r)
<1> DEFINE t == NewTimer(ticks, fn, ctx)
           r == scheduleTimer(s, ticks, fn, ctx)
<1>1. /\ t \in Timers /\ r \in TimerStates
      /\ \/ Twin(s, t) /\ TwinFound(r, s, t)
         \/ ~Twin(s, t) /\ \E k \in 0 .. Len(s.timers) : PutBehind(r, s, t, k)
  BY ScheduleIs DEF Fits, TimeTypes
<1>2. /\ Left(t) = Max1(ticks) /\ Since(t) = 0 /\ Wait(t) = Max1(ticks)
      /\ start(t.now) = [on |-> TRUE, left |-> Max1(ticks)]
      /\ Max1(ticks) \in 1 .. MaxDelay
  BY NewTimerIs DEF TimeTypes
<1> HIDE DEF r
<1>3. late \in Nat /\ Lag \in Nat /\ MaxDelay \in Nat /\ Minus(clock, clock) = 0
  BY ClockNumbers, WhenIs DEF TimeTypes
<1>4. /\ DOMAIN s.timers = 1 .. Len(s.timers) /\ Len(s.timers) \in Nat
      /\ \A i \in DOMAIN s.timers : s.timers[i] \in Timers
      /\ s.wake.left \in Int
  BY TreeParts
<1>5. \A i \in DOMAIN s.timers :
        /\ Left(s.timers[i]) \in Int /\ Since(s.timers[i]) \in Int /\ Since(s.timers[i]) >= 0
        /\ Since(s.timers[i]) + Left(s.timers[i]) = Wait(s.timers[i])
        /\ Wait(s.timers[i]) \in 1 .. MaxDelay
        /\ running => Left(s.timers[i]) >= -(Lag + 1) - late
  BY <1>4, TimesOfTimer DEF TimeTypes, Fits, Sound, Punctual
<1>6. CASE TwinFound(r, s, t)
  <2>1. r.timers = s.timers /\ r.wake = s.wake /\ r.now = clock
    BY <1>6 DEF TwinFound, TimerStates
  <2>2. Sound(r) /\ Sorted(r) /\ Wakes(r)
    BY <2>1 DEF Fits, Sound, Sorted, Wakes
  <2>3. Punctual(r)
    <3>1. CASE running
      <4>1. Age(r) = 0
        BY <1>3, <2>1 DEF Age
      <4> QED
        BY <1>3, <1>5, <2>1, <3>1, <4>1 DEF Punctual
    <3>2. CASE ~running
      BY <2>1, <3>2 DEF Fits, Punctual
    <3> QED
      BY <3>1, <3>2
  <2> QED
    BY <1>1, <2>2, <2>3 DEF r, Fits
<1>7. CASE \E k \in 0 .. Len(s.timers) : PutBehind(r, s, t, k)
  <2>1. PICK k \in 0 .. Len(s.timers) : PutBehind(r, s, t, k)
    BY <1>7
  <2>2. \A i \in DOMAIN r.timers :
          r.timers[i] = t \/ \E j \in DOMAIN s.timers : r.timers[i] = s.timers[j]
    BY <1>1, <2>1, OldOrNew
  <2>3. r.now = clock /\ r.wake = IF k = 0 THEN start(t.now) ELSE s.wake
    BY <2>1 DEF PutBehind
  <2>4. Sorted(r)
    BY <1>1, <2>1, ScheduleSorts DEF TimeTypes, Fits
  <2>5. Sound(r)
    <3>1. Since(t) + Left(t) = Wait(t) /\ Wait(t) \in 1 .. MaxDelay
      BY <1>2
    <3> HIDE DEF t
    <3> QED
      BY <1>5, <2>2, <3>1 DEF Sound
  <2>6. Wakes(r)
    <3>1. s.wake.left >= -late /\ s.wake.left <= MaxDelay + 1 /\ (~s.wake.on => s.wake.left = 0)
      BY DEF Fits, Wakes
    <3> HIDE DEF t
    <3>2. CASE k = 0
      <4>1. r.wake = [on |-> TRUE, left |-> Max1(ticks)]
        BY <1>2, <2>3, <3>2
      <4>2. r.wake.on /\ r.wake.left = Max1(ticks)
        BY <4>1
      <4> QED
        BY <1>2, <1>3, <4>2 DEF Wakes
    <3>3. CASE k # 0
      BY <2>3, <3>1, <3>3 DEF Wakes
    <3> QED
      BY <3>2, <3>3
  <2>7. Punctual(r)
    <3>1. CASE running
      <4>1. Age(r) = 0
        BY <1>3, <2>3 DEF Age
      <4>2. Left(t) >= -(Lag + 1) - late /\ 0 <= Since(t)
        BY <1>2, <1>3
      <4> HIDE DEF t
      <4>3. \A i \in DOMAIN r.timers :
              Left(r.timers[i]) >= -(Lag + 1) - late /\ 0 <= Since(r.timers[i])
        BY <1>5, <2>2, <3>1, <4>2
      <4> QED
        BY <1>3, <3>1, <4>1, <4>3 DEF Punctual
    <3>2. CASE ~running
      BY <1>1, <2>1, <3>2, PutKeepsWake
    <3> QED
      BY <3>1, <3>2
  <2> QED
    BY <1>1, <2>4, <2>5, <2>6, <2>7 DEF r, Fits
<1> QED
  BY <1>1, <1>6, <1>7

\* A run of timers takes the first out of the tree.
LEMMA PopIs ==
  ASSUME NEW s \in TimerStates, s.timers # <<>>
  PROVE  LET r == [s EXCEPT !.timers = Tail(@)] IN
         /\ r \in TimerStates /\ DOMAIN r.timers = 1 .. Len(s.timers) - 1
         /\ \A i \in DOMAIN r.timers : i + 1 \in DOMAIN s.timers /\ r.timers[i] = s.timers[i + 1]
         /\ \A i \in DOMAIN s.timers : i # 1 => i - 1 \in DOMAIN r.timers
                                                /\ r.timers[i - 1] = s.timers[i]
         /\ 1 \in DOMAIN s.timers /\ Head(s.timers) = s.timers[1]
         /\ r.now = s.now /\ r.contexts = s.contexts /\ r.wake = s.wake /\ r.lost = s.lost
<1> DEFINE q == s.timers
           u == Tail(q)
           n == Len(q)
           r == [s EXCEPT !.timers = u]
<1>1. q \in Seq(Timers) /\ q # <<>>
  BY DEF TimerStates
<1>2. /\ n \in Nat /\ n > 0 /\ DOMAIN q = 1 .. n /\ Head(q) = q[1]
      /\ u \in Seq(Timers) /\ Len(u) = n - 1 /\ DOMAIN u = 1 .. n - 1
      /\ \A i \in 1 .. n - 1 : u[i] = q[i + 1]
  BY <1>1
<1> HIDE DEF u
<1>3. /\ r \in TimerStates /\ r.timers = u
      /\ r.now = s.now /\ r.contexts = s.contexts /\ r.wake = s.wake /\ r.lost = s.lost
  BY <1>2 DEF TimerStates
<1> HIDE DEF q, n, r
<1>4. /\ \A i \in 1 .. n - 1 : i + 1 \in 1 .. n /\ u[i] = q[i + 1]
      /\ \A i \in 1 .. n : i # 1 => i - 1 \in 1 .. n - 1 /\ u[i - 1] = q[i]
      /\ 1 \in 1 .. n
  <2>1. \A i \in 1 .. n - 1 : i + 1 \in 1 .. n
    BY <1>2
  <2>2. ASSUME NEW i \in 1 .. n, i # 1 PROVE i - 1 \in 1 .. n - 1 /\ u[i - 1] = q[i]
    <3>1. i - 1 \in 1 .. n - 1 /\ (i - 1) + 1 = i
      BY <1>2, <2>2
    <3> QED
      BY <1>2, <3>1
  <2> QED
    BY <1>2, <2>1, <2>2
<1> QED
  BY <1>2, <1>3, <1>4 DEF q, n, r, u

\* delpos234 of the first timer keeps the tree fit, while timers are run.
LEMMA PopFits ==
  ASSUME running, NEW s \in TimerStates, Fits(s), s.timers # <<>>
  PROVE  LET r == [s EXCEPT !.timers = Tail(@)] IN r \in TimerStates /\ Fits(r)
<1> DEFINE r == [s EXCEPT !.timers = Tail(@)]
<1>1. /\ r \in TimerStates
      /\ \A i \in DOMAIN r.timers : i + 1 \in DOMAIN s.timers /\ r.timers[i] = s.timers[i + 1]
      /\ DOMAIN r.timers = 1 .. Len(s.timers) - 1
      /\ r.now = s.now /\ r.wake = s.wake
  BY PopIs
<1> HIDE DEF r
<1>2. Sound(r)
  BY <1>1 DEF Fits, Sound
<1>3. Sorted(r)
  <2>1. Len(s.timers) \in Nat
    BY TreeParts
  <2> SUFFICES ASSUME NEW i \in DOMAIN r.timers, NEW j \in DOMAIN r.timers, i < j
               PROVE  compareTimers(r.timers[i], r.timers[j], clock)
    BY DEF Sorted
  <2>2. i + 1 < j + 1
    BY <1>1, <2>1
  <2> QED
    BY <1>1, <2>2 DEF Fits, Sorted
<1>4. Punctual(r) /\ Wakes(r)
  BY <1>1 DEF Fits, Punctual, Wakes, Age
<1> QED
  BY <1>1, <1>2, <1>3, <1>4 DEF r, Fits

\* expire_timer_context does not touch the tree.
LEMMA ExpireFits ==
  ASSUME NEW s \in TimerStates, Fits(s), NEW ctx
  PROVE  LET r == expireTimerContext(s, ctx) IN
         /\ r \in TimerStates /\ Fits(r)
         /\ r.timers = s.timers /\ r.wake = s.wake
         /\ r.contexts = s.contexts \ {ctx} /\ r.lost = s.lost \ {ctx}
<1> DEFINE r == expireTimerContext(s, ctx)
<1>1. /\ r \in TimerStates
      /\ r.timers = s.timers /\ r.wake = s.wake /\ r.now = s.now
      /\ r.contexts = s.contexts \ {ctx} /\ r.lost = s.lost \ {ctx}
  BY DEF expireTimerContext, TimerStates
<1> HIDE DEF r
<1>2. Fits(r)
  BY <1>1 DEF Fits, Sound, Sorted, Punctual, Wakes, Age
<1> QED
  BY <1>1, <1>2 DEF r

-----------------------------------------------------------------------------
(* What the steps of the front end keep.                                   *)

\* Of two times of the past, and of a time and one a little before another.
LEMMA MinusBetween ==
  ASSUME NEW c \in Clocks, NEW n \in Clocks, NEW w \in Clocks, Minus(c, n) <= Minus(c, w)
  PROVE  Minus(n, w) = Minus(c, w) - Minus(c, n)
<1>1. /\ Minus(c, n) = IF c < n THEN c - n + Wrap ELSE c - n
      /\ Minus(c, w) = IF c < w THEN c - w + Wrap ELSE c - w
      /\ Minus(n, w) = IF n < w THEN n - w + Wrap ELSE n - w
  BY DifferenceIs
<1>2. /\ c \in Int /\ 0 <= c /\ c < Wrap /\ n \in Int /\ 0 <= n /\ n < Wrap
      /\ w \in Int /\ 0 <= w /\ w < Wrap /\ Wrap \in Nat
  BY TimesAre, ClockNumbers
<1> QED
  BY <1>1, <1>2

\* The same with the slack that run_timers takes off.
LEMMA MinusEarlier ==
  ASSUME NEW x \in Clocks, NEW w \in Clocks, Minus(x, w) + Slack < Wrap
  PROVE  Minus(x, Minus(w, Slack)) = Minus(x, w) + Slack
<1> DEFINE v == Minus(w, Slack)
<1>1. Slack \in Clocks
  BY TimesAre, ClockNumbers
<1>2. v = (IF w < Slack THEN w - Slack + Wrap ELSE w - Slack) /\ v \in Clocks
  BY <1>1, DifferenceIs
<1> HIDE DEF v
<1>3. /\ Minus(x, v) = IF x < v THEN x - v + Wrap ELSE x - v
      /\ Minus(x, w) = IF x < w THEN x - w + Wrap ELSE x - w
  BY <1>2, DifferenceIs
<1>4. /\ x \in Int /\ 0 <= x /\ x < Wrap /\ w \in Int /\ 0 <= w /\ w < Wrap
      /\ v \in Int /\ 0 <= v /\ v < Wrap /\ Wrap \in Nat /\ Slack \in Nat /\ Slack < Wrap
  BY <1>2, TimesAre, ClockNumbers
<1>5. Minus(x, v) = Minus(x, w) + Slack
  BY <1>2, <1>3, <1>4
<1> QED
  BY <1>5 DEF v

\* The test of run_timers finds out whether the timer was due at the static now.
LEMMA DueIs ==
  ASSUME TimeTypes, NEW s \in TimerStates, Fits(s), running, NEW i \in DOMAIN s.timers
  PROVE  LET t == s.timers[i] IN
         /\ isDue(t, s.now) <=> Left(t) < -Age(s)
         /\ Age(s) \in Int /\ 0 <= Age(s) /\ Age(s) <= Lag
<1> DEFINE t == s.timers[i]
           w == t.when_set
           n == s.now
<1>1. t \in Timers /\ w \in Clocks /\ t.now \in Clocks /\ n \in Clocks /\ clock \in Clocks
  BY TreeParts, TimerParts DEF TimeTypes
<1>2. /\ Since(t) + Left(t) = Wait(t) /\ Wait(t) \in 1 .. MaxDelay
      /\ Left(t) >= -(Lag + 1) - late /\ Age(s) <= Since(t) /\ Age(s) <= late
  BY DEF Fits, Sound, Punctual
<1>3. late \in Nat /\ late <= Lag /\ Lag \in Nat /\ Slack \in Nat /\ Wrap \in Nat
      /\ MaxDelay \in Nat /\ MaxDelay + 2 * Lag + 1 + Slack < Wrap
  BY ClockNumbers DEF TimeTypes
<1>4. Left(t) \in Int /\ Since(t) \in Int /\ Wait(t) \in Int
  BY <1>1, TimesOfTimer
<1>5. Age(s) \in Int /\ 0 <= Age(s) /\ Age(s) <= Lag
  <2>1. Minus(clock, n) \in Clocks
    BY <1>1, DifferenceIs
  <2>2. Age(s) \in Int /\ 0 <= Age(s)
    BY <2>1, TimesAre DEF Age
  <2> QED
    BY <1>2, <1>3, <2>2
<1>6. Minus(n, w) = Since(t) - Age(s)
  BY <1>1, <1>2, MinusBetween DEF Since, Age
<1>7. Since(t) + Slack < Wrap /\ Wait(t) + Slack < Wrap
  BY <1>2, <1>3, <1>4
<1>8. Minus(n, w) + Slack < Wrap
  BY <1>3, <1>4, <1>5, <1>6, <1>7
<1>9. /\ Minus(n, Minus(w, Slack)) = Since(t) - Age(s) + Slack
      /\ Minus(t.now, Minus(w, Slack)) = Wait(t) + Slack
  BY <1>1, <1>6, <1>7, <1>8, MinusEarlier DEF Wait
<1>10. isDue(t, n) <=> Since(t) - Age(s) + Slack > Wait(t) + Slack
  BY <1>9 DEF isDue
<1> QED
  BY <1>2, <1>3, <1>4, <1>5, <1>10

\* Time passes: every timer is one tick nearer, the front end's too.
LEMMA TickFits ==
  ASSUME TimeTypes, tm \in TimerStates, Fits(tm), Passes
  PROVE  TimeTypes' /\ tm' \in TimerStates /\ Fits(tm)'
<1> DEFINE c == Minus(clock, -1)
           ts == tm.timers
           L(t) == Signed(t.now, c)
           S(t) == Minus(c, t.when_set)
<1>1. /\ clock' = c /\ c \in Clocks /\ running' = running /\ late \in Nat /\ late < Lag
      /\ late' = IF running \/ (tm.wake.on /\ tm.wake.left <= 0) THEN late + 1 ELSE 0
      /\ Lag \in Nat
  BY TickIs, ClockNumbers DEF Passes, TimeTypes
<1>2. /\ tm' \in TimerStates /\ tm'.timers = ts /\ tm'.now = tm.now
      /\ tm'.wake.on = tm.wake.on
      /\ tm'.wake.left = IF tm.wake.on THEN tm.wake.left - 1 ELSE tm.wake.left
      /\ tm.wake.left \in Int
  <2>1. tm.wake \in [on : BOOLEAN, left : Int]
    BY DEF TimerStates
  <2>2. CASE tm.wake.on
    <3>1. tm' = [tm EXCEPT !.wake = [tm.wake EXCEPT !.left = tm.wake.left - 1]]
      BY <2>2 DEF Passes, TimerStates
    <3>2. [tm.wake EXCEPT !.left = tm.wake.left - 1] \in [on : BOOLEAN, left : Int]
      BY <2>1
    <3> QED
      BY <2>1, <2>2, <3>1, <3>2 DEF TimerStates
  <2>3. CASE ~tm.wake.on
    BY <2>1, <2>3 DEF Passes
  <2> QED
    BY <2>2, <2>3
<1>3. TimeTypes'
  BY <1>1 DEF TimeTypes
<1> HIDE DEF c, ts
<1>4. \A i \in DOMAIN ts : ts[i] \in Timers
  BY TreeParts DEF ts
<1>5. ASSUME NEW i \in DOMAIN ts
      PROVE  /\ L(ts[i]) = Left(ts[i]) - 1 /\ S(ts[i]) = Since(ts[i]) + 1
             /\ Left(ts[i]) \in Int /\ Since(ts[i]) \in Int
             /\ Since(ts[i]) + Left(ts[i]) = Wait(ts[i]) /\ Wait(ts[i]) \in 1 .. MaxDelay
  <2> DEFINE t == ts[i]
  <2>1. /\ t \in Timers /\ t.now \in Clocks /\ t.when_set \in Clocks
        /\ Left(t) \in Int /\ Since(t) \in Int
    BY <1>4, TimerParts, TimesOfTimer DEF TimeTypes
  <2>2. Since(t) + Left(t) = Wait(t) /\ Wait(t) \in 1 .. MaxDelay
    BY DEF Fits, Sound, ts
  <2>3. Left(t) >= -(Lag + 1) - late
    <3>1. CASE running
      BY <3>1 DEF Fits, Punctual, ts
    <3>2. CASE ~running
      <4>1. Left(t) >= IF tm.wake.left > 0 THEN -Lag ELSE -(Lag + 1) - late
        BY <3>2 DEF Fits, Punctual, ts
      <4> QED
        BY <1>1, <2>1, <4>1
    <3> QED
      BY <3>1, <3>2
  <2> HIDE DEF t
  <2>4. Left(t) > -Half /\ Since(t) < Wrap - 1
    <3>1. /\ MaxDelay + 2 * Lag + 1 + Early < Half /\ Wrap = 2 * Half /\ Half \in Nat
          /\ MaxDelay \in Nat /\ Early \in Nat
      BY ClockNumbers
    <3> HIDE DEF Half
    <3> QED
      BY <1>1, <2>1, <2>2, <2>3, <3>1
  <2>5. /\ Signed(t.now, c) = Signed(t.now, clock) - 1
        /\ Minus(c, t.when_set) = Minus(clock, t.when_set) + 1
    BY <2>1, <2>4, TickMoves DEF TimeTypes, Left, Since, c
  <2> QED
    BY <2>1, <2>2, <2>5 DEF t, Left, Since
<1>6. Sound(tm)'
  <2>1. \A i \in DOMAIN ts : S(ts[i]) + L(ts[i]) = Wait(ts[i]) /\ Wait(ts[i]) \in 1 .. MaxDelay
    BY <1>5
  <2> QED
    BY <1>1, <1>2, <2>1 DEF Sound, Since, Left, Wait
<1>7. Sorted(tm)'
  <2> SUFFICES ASSUME NEW i \in DOMAIN ts, NEW j \in DOMAIN ts, i < j
               PROVE  compareTimers(ts[i], ts[j], c)
    BY <1>1, <1>2 DEF Sorted
  <2>1. compareTimers(ts[i], ts[j], clock)
    BY DEF Fits, Sorted, ts
  <2>2. /\ Signed(ts[i].now, c) = Signed(ts[i].now, clock) - 1
        /\ Signed(ts[j].now, c) = Signed(ts[j].now, clock) - 1
        /\ Signed(ts[i].now, clock) \in Int /\ Signed(ts[j].now, clock) \in Int
    BY <1>5 DEF Left
  <2> QED
    BY <2>1, <2>2 DEF compareTimers
<1>8. Punctual(tm)'
  <2>1. CASE running
    <3>1. late' = late + 1 /\ running'
      BY <1>1, <2>1
    <3>2. /\ Age(tm) <= late /\ Age(tm) \in Int
          /\ \A i \in DOMAIN ts : Left(ts[i]) >= -(Lag + 1) - late /\ Age(tm) <= Since(ts[i])
      <4>1. tm.now \in Clocks
        BY TreeParts
      <4>2. Minus(clock, tm.now) \in Clocks
        BY <4>1, DifferenceIs DEF TimeTypes
      <4> QED
        BY <2>1, <4>2, TimesAre DEF Fits, Punctual, ts, Age
    <3>3. Minus(c, tm.now) = Age(tm) + 1
      <4>1. tm.now \in Clocks /\ clock \in Clocks
        BY TreeParts DEF TimeTypes
      <4>2. Age(tm) < Wrap - 1
        BY <1>1, <3>2, ClockNumbers
      <4> QED
        BY <4>1, <4>2, TickMoves DEF c, Age
    <3>4. \A i \in DOMAIN ts : L(ts[i]) >= -(Lag + 1) - late' /\ Age(tm) + 1 <= S(ts[i])
      BY <1>1, <1>5, <3>1, <3>2
    <3>5. Age(tm) + 1 <= late'
      BY <1>1, <3>1, <3>2
    <3> QED
      BY <1>1, <1>2, <3>1, <3>3, <3>4, <3>5 DEF Punctual, Age, Left, Since
  <2>2. CASE ~running
    <3>1. ASSUME NEW i \in DOMAIN ts
          PROVE  /\ tm'.wake.on /\ tm'.wake.left <= Max1(L(ts[i]))
                 /\ L(ts[i]) >= IF tm'.wake.left > 0 THEN -Lag ELSE -(Lag + 1) - late'
      <4>1. /\ tm.wake.on /\ tm.wake.left <= Max1(Left(ts[i]))
            /\ Left(ts[i]) >= IF tm.wake.left > 0 THEN -Lag ELSE -(Lag + 1) - late
        BY <2>2 DEF Fits, Punctual, ts
      <4>2. tm'.wake.on /\ tm'.wake.left = tm.wake.left - 1
        BY <1>2, <4>1
      <4>3. L(ts[i]) = Left(ts[i]) - 1 /\ Left(ts[i]) \in Int
        BY <1>5
      <4>4. late' = IF tm.wake.left <= 0 THEN late + 1 ELSE 0
        BY <1>1, <2>2, <4>1
      <4> HIDE DEF L
      <4> QED
        BY <1>1, <1>2, <4>1, <4>2, <4>3, <4>4 DEF Max1
    <3> QED
      BY <1>1, <1>2, <2>2, <3>1 DEF Punctual, Left
  <2> QED
    BY <2>1, <2>2
<1>9. Wakes(tm)'
  <2>1. /\ tm.wake.left >= -late /\ tm.wake.left <= MaxDelay + 1
        /\ ~tm.wake.on => tm.wake.left = 0
    BY DEF Fits, Wakes
  <2>2. MaxDelay \in Nat
    BY ClockNumbers
  <2> QED
    BY <1>1, <1>2, <2>1, <2>2 DEF Wakes
<1> QED
  BY <1>2, <1>3, <1>6, <1>7, <1>8, <1>9 DEF Fits

\* The front end's timer goes off.
LEMMA TimeoutFits ==
  ASSUME TimeTypes, tm \in TimerStates, Fits(tm), OnTimeout
  PROVE  TimeTypes' /\ tm' \in TimerStates /\ Fits(tm)' /\ ~tm'.wake.on
         /\ tm'.timers = tm.timers /\ tm'.contexts = tm.contexts /\ tm'.lost = tm.lost
<1>1. clock' = clock /\ late' = late /\ running' = TRUE /\ ~running
  BY DEF OnTimeout
<1>2. TimeTypes'
  <2>1. TRUE \in BOOLEAN
    OBVIOUS
  <2> QED
    BY <1>1, <2>1 DEF TimeTypes
<1>3. /\ tm' \in TimerStates /\ tm'.timers = tm.timers /\ tm'.now = clock
      /\ tm'.wake = Asleep /\ tm'.contexts = tm.contexts /\ tm'.lost = tm.lost
  <2>1. Asleep \in [on : BOOLEAN, left : Int]
    <3>1. FALSE \in BOOLEAN
      OBVIOUS
    <3> QED
      BY <3>1 DEF Asleep
  <2> QED
    BY <2>1 DEF OnTimeout, TimerStates, TimeTypes
<1>4. tm'.wake.on = FALSE /\ tm'.wake.left = 0
  BY <1>3 DEF Asleep
<1>5. Sound(tm)' /\ Sorted(tm)'
  BY <1>1, <1>3 DEF Fits, Sound, Sorted, Since, Left, Wait
<1>6. late \in Nat /\ Lag \in Nat /\ MaxDelay \in Nat /\ Minus(clock, clock) = 0
  <2>1. clock \in Clocks
    BY DEF TimeTypes
  <2>2. Minus(clock, clock) = IF clock < clock THEN clock - clock + Wrap ELSE clock - clock
    BY <2>1, DifferenceIs
  <2>3. clock \in Int
    BY <2>1, TimesAre
  <2> QED
    BY <2>2, <2>3, ClockNumbers DEF TimeTypes
<1>7. Wakes(tm)'
  BY <1>1, <1>4, <1>6 DEF Wakes
<1>8. Punctual(tm)'
  <2>1. \A i \in DOMAIN tm.timers : /\ Left(tm.timers[i]) >= -(Lag + 1) - late
                                    /\ 0 <= Since(tm.timers[i])
    <3> SUFFICES ASSUME NEW i \in DOMAIN tm.timers
                 PROVE  /\ Left(tm.timers[i]) >= -(Lag + 1) - late
                        /\ 0 <= Since(tm.timers[i])
      OBVIOUS
    <3>1. /\ Left(tm.timers[i]) \in Int /\ 0 <= Since(tm.timers[i])
      BY TreeParts, TimesOfTimer DEF TimeTypes
    <3>2. Left(tm.timers[i]) >= IF tm.wake.left > 0 THEN -Lag ELSE -(Lag + 1) - late
      BY <1>1 DEF Fits, Punctual
    <3> QED
      BY <1>6, <3>1, <3>2
  <2>2. Minus(clock, tm'.now) = 0 /\ 0 <= late
    BY <1>3, <1>6
  <2> QED
    BY <1>1, <1>3, <2>1, <2>2 DEF Punctual, Age, Since, Left
<1> QED
  BY <1>2, <1>3, <1>4, <1>5, <1>7, <1>8 DEF Fits

\* The run is over: no timer that is left was due when the clock was read.
LEMMA RunEndsFits ==
  ASSUME TimeTypes, tm \in TimerStates, Fits(tm), RunEnds, tm.wake.on => tm.timers # <<>>
  PROVE  TimeTypes' /\ tm' \in TimerStates /\ Fits(tm)'
         /\ tm'.timers = tm.timers /\ tm'.contexts = tm.contexts /\ tm'.lost = tm.lost
<1>1. clock' = clock /\ late' = 0 /\ running' = FALSE /\ running
  BY DEF RunEnds
<1>2. late \in Nat /\ Lag \in Nat /\ MaxDelay \in Nat /\ clock \in Clocks
  BY ClockNumbers DEF TimeTypes
<1>3. TimeTypes'
  <2>1. FALSE \in BOOLEAN /\ 0 \in 0 .. Lag
    BY <1>2
  <2> QED
    BY <1>1, <1>2, <2>1 DEF TimeTypes
<1>4. /\ Len(tm.timers) \in Nat /\ DOMAIN tm.timers = 1 .. Len(tm.timers)
      /\ tm.timers \in Seq(Timers) /\ \A i \in DOMAIN tm.timers : tm.timers[i] \in Timers
  BY TreeParts
<1>5. CASE tm.timers = <<>>
  <2>1. tm' = tm /\ ~tm.wake.on
    BY <1>5 DEF RunEnds
  <2>2. tm.wake.left = 0
    BY <2>1 DEF Fits, Wakes
  <2>3. DOMAIN tm.timers = {}
    BY <1>5
  <2>4. Wakes(tm)'
    BY <1>1, <1>2, <2>1, <2>2 DEF Wakes
  <2>5. Sound(tm)' /\ Sorted(tm)' /\ Punctual(tm)'
    BY <1>1, <2>1, <2>3 DEF Sound, Sorted, Punctual
  <2> QED
    BY <1>3, <2>1, <2>4, <2>5 DEF Fits
<1>6. CASE tm.timers # <<>>
  <2> DEFINE h == tm.timers[1]
  <2>1. 1 \in DOMAIN tm.timers /\ Head(tm.timers) = h /\ h \in Timers
    BY <1>4, <1>6
  <2>2. ~isDue(h, tm.now) /\ tm' = [tm EXCEPT !.wake = start(h.now)]
    BY <1>6, <2>1 DEF RunEnds
  <2>3. Left(h) >= -Lag /\ Left(h) \in Int
    <3>1. Left(h) \in Int
      BY <1>2, <2>1, TimesOfTimer
    <3>2. ~(Left(h) < -Age(tm)) /\ Age(tm) \in Int /\ Age(tm) <= Lag
      BY <1>1, <2>1, <2>2, DueIs
    <3> QED
      BY <1>2, <3>1, <3>2
  <2>4. Left(h) <= MaxDelay
    <3>1. Since(h) + Left(h) = Wait(h) /\ Wait(h) \in 1 .. MaxDelay
      BY <2>1 DEF Fits, Sound
    <3>2. Since(h) \in Int /\ 0 <= Since(h)
      BY <1>2, <2>1, TimesOfTimer
    <3> QED
      BY <1>2, <2>3, <3>1, <3>2
  <2> HIDE DEF h
  <2>5. start(h.now) = [on |-> TRUE, left |-> Max1(Left(h))]
    BY DEF start, Left, Max1
  <2>6. /\ Max1(Left(h)) \in Int /\ 1 <= Max1(Left(h)) /\ Max1(Left(h)) <= MaxDelay + 1
    BY <1>2, <2>3, <2>4 DEF Max1
  <2>7. start(h.now) \in [on : BOOLEAN, left : Int]
    <3>1. TRUE \in BOOLEAN
      OBVIOUS
    <3> QED
      BY <2>5, <2>6, <3>1
  <2>8. /\ tm' \in TimerStates /\ tm'.timers = tm.timers /\ tm'.now = tm.now
        /\ tm'.wake = [on |-> TRUE, left |-> Max1(Left(h))]
        /\ tm'.contexts = tm.contexts /\ tm'.lost = tm.lost
    BY <2>2, <2>5, <2>7 DEF TimerStates
  <2>9. tm'.wake.on /\ tm'.wake.left = Max1(Left(h))
    BY <2>8
  <2>10. Sound(tm)' /\ Sorted(tm)'
    BY <1>1, <2>8 DEF Fits, Sound, Sorted, Since, Left, Wait
  <2>11. Wakes(tm)'
    BY <1>1, <1>2, <2>6, <2>9 DEF Wakes
  <2>12. ASSUME NEW i \in DOMAIN tm.timers
         PROVE  Left(tm.timers[i]) >= Left(h) /\ Left(tm.timers[i]) \in Int
    <3>1. Left(tm.timers[i]) \in Int
      BY <1>2, <1>4, TimesOfTimer
    <3>2. CASE i = 1
      BY <2>3, <3>1, <3>2 DEF h
    <3>3. CASE i # 1
      <4>1. 1 < i
        BY <1>4, <3>3
      <4>2. compareTimers(h, tm.timers[i], clock)
        BY <2>1, <4>1 DEF Fits, Sorted, h
      <4>3. Left(h) <= Left(tm.timers[i])
        BY <1>2, <1>4, <2>1, <4>2, OrderIsTotal
      <4> QED
        BY <2>3, <3>1, <4>3
    <3> QED
      BY <3>2, <3>3
  <2>13. \A i \in DOMAIN tm.timers : /\ Max1(Left(h)) <= Max1(Left(tm.timers[i]))
                                     /\ Left(tm.timers[i]) >= -Lag
    BY <1>2, <2>3, <2>12 DEF Max1
  <2>14. Punctual(tm)'
    BY <1>1, <2>6, <2>8, <2>9, <2>13 DEF Punctual, Left
  <2> QED
    BY <1>3, <2>8, <2>10, <2>11, <2>14 DEF Fits
<1> QED
  BY <1>5, <1>6

-----------------------------------------------------------------------------
(***************************************************************************)
(* The clients.  What a client waits for has to be in the tree under a     *)
(* context that is alive, unless its timer was taken for a dead one        *)
(* (`lost'); and every context that is alive belongs to a client.          *)
(***************************************************************************)
SetIn(s, c, next) ==
  c \in s.contexts /\ \E i \in DOMAIN s.timers :
                         s.timers[i].ctx = c /\ s.timers[i].now = next

\* A pinger that is off waits for nothing; one that is on is set.
PingSet(p, g, s) ==
  /\ g.interval = 0 => ~g.pending
  /\ (p \notin s.lost /\ g.alive /\ g.interval # 0) => g.pending /\ SetIn(s, p, g.next)

\* A session whose keys will get old is set, and for early enough if the server lets
\* them be renewed.
KeySet(c, k, s) ==
  /\ (c \notin s.lost /\ k.alive /\ ~k.kex /\ k.time # 0) =>
       /\ SetIn(s, c, k.next)
       /\ k.bug \/ k.age + Signed(k.next, clock) <= k.time + 1
  /\ (k.alive /\ ~k.kex /\ ~k.bug /\ k.age < Wrap) => Minus(clock, k.last) = k.age

PingerTypes == [alive : BOOLEAN, interval : Delays, pending : BOOLEAN, next : Clocks]
SshTypes == [alive : BOOLEAN, bug : BOOLEAN, kex : BOOLEAN, time : Delays, last : Clocks,
             next : Clocks, age : 0 .. Wrap]

Types ==
  /\ TimeTypes /\ tm \in TimerStates
  /\ pingers \in [Pingers -> PingerTypes] /\ ssh \in [Sessions -> SshTypes]
  /\ changes \in 0 .. MaxChanges

\* Contexts belong to clients that are there, and a client waits for what is set.
Alive(c) == (c \in Pingers /\ pingers[c].alive) \/ (c \in Sessions /\ ssh[c].alive)

Owned == \A c \in tm.contexts \cup tm.lost : Alive(c)
Pinging == \A p \in Pingers : PingSet(p, pingers[p], tm)
Rekeying == \A c \in Sessions : KeySet(c, ssh[c], tm)

\* A session that ssh2_timer sets a timer for, instead of beginning an exchange.
Waits(k) == k.alive /\ k.bug /\ ~k.kex /\ k.time # 0

\* A run that has armed the front end's timer leaves it something to wait for.
Kept ==
  running /\ tm.wake.on =>
    \/ \E p \in Pingers : pingers[p].pending /\ SetIn(tm, p, pingers[p].next)
    \/ \E c \in Sessions : Waits(ssh[c]) /\ SetIn(tm, c, ssh[c].next)

IndInv == Types /\ Fits(tm) /\ Owned /\ Pinging /\ Rekeying /\ Kept

\* r holds what s holds and more, and what it has more is for ctx.
Grows(r, s, ctx) ==
  /\ s.contexts \subseteq r.contexts /\ r.contexts \subseteq s.contexts \cup {ctx}
  /\ s.lost \subseteq r.lost /\ r.lost \subseteq s.lost \cup {ctx}
  /\ \A c, next : SetIn(s, c, next) => SetIn(r, c, next)

\* Pingers and sessions are at different addresses.
LEMMA ContextsDiffer ==
  /\ \A p \in Pingers, c \in Sessions : p # c
  /\ Pingers \subseteq Contexts /\ Sessions \subseteq Contexts
  /\ "pinger_timer" \in Fns /\ "ssh2_timer" \in Fns
BY ContextsAssumption DEF Contexts, Fns

\* What was scheduled is in the tree, or is lost.
LEMMA ScheduleSets ==
  ASSUME TimeTypes, NEW s \in TimerStates, Fits(s),
         NEW ticks \in Delays, MaxDelay > 0, NEW fn \in Fns, NEW ctx \in Contexts
  PROVE  LET r == scheduleTimer(s, ticks, fn, ctx) IN
         /\ Grows(r, s, ctx)
         /\ ctx \in r.contexts => SetIn(r, ctx, when(ticks))
         /\ ctx \notin r.lost => ctx \in r.contexts
         /\ r.wake = s.wake \/ SetIn(r, ctx, when(ticks))
<1> DEFINE t == NewTimer(ticks, fn, ctx)
           r == scheduleTimer(s, ticks, fn, ctx)
<1>1. /\ t \in Timers /\ r \in TimerStates
      /\ \/ Twin(s, t) /\ TwinFound(r, s, t)
         \/ ~Twin(s, t) /\ \E k \in 0 .. Len(s.timers) : PutBehind(r, s, t, k)
  BY ScheduleIs DEF Fits, TimeTypes
<1>2. t.ctx = ctx /\ t.now = when(ticks)
  BY DEF NewTimer
<1> HIDE DEF r, t
<1>3. CASE Twin(s, t) /\ TwinFound(r, s, t)
  <2>1. /\ r.timers = s.timers /\ r.contexts = s.contexts /\ r.wake = s.wake
        /\ r.lost = IF ctx \in s.contexts THEN s.lost ELSE s.lost \cup {ctx}
    BY <1>2, <1>3 DEF TwinFound, TimerStates
  <2>2. \E i \in DOMAIN r.timers : r.timers[i].ctx = ctx /\ r.timers[i].now = when(ticks)
    <3>1. PICK i \in DOMAIN s.timers : sameTimer(s.timers[i], t)
      BY <1>3 DEF Twin
    <3>2. s.timers[i].now = t.now /\ s.timers[i].ctx = t.ctx
      BY <3>1 DEF sameTimer
    <3> QED
      BY <1>2, <2>1, <3>2
  <2>3. Grows(r, s, ctx)
    BY <2>1 DEF Grows, SetIn
  <2> QED
    BY <2>1, <2>2, <2>3 DEF SetIn, r
<1>4. CASE \E k \in 0 .. Len(s.timers) : PutBehind(r, s, t, k)
  <2>1. PICK k \in 0 .. Len(s.timers) : PutBehind(r, s, t, k)
    BY <1>4
  <2>2. r.contexts = s.contexts \cup {ctx} /\ r.lost = s.lost
    BY <1>2, <2>1 DEF PutBehind
  <2>3. /\ \A j \in DOMAIN s.timers : \E i \in DOMAIN r.timers : r.timers[i] = s.timers[j]
        /\ \E i \in DOMAIN r.timers : r.timers[i] = t
    BY <1>1, <2>1, OldOrNew
  <2>4. ASSUME NEW c, NEW next, SetIn(s, c, next) PROVE SetIn(r, c, next)
    BY <2>2, <2>3, <2>4 DEF SetIn
  <2>5. SetIn(r, ctx, when(ticks))
    BY <1>2, <2>2, <2>3 DEF SetIn
  <2>6. Grows(r, s, ctx)
    BY <2>2, <2>4 DEF Grows
  <2> QED
    BY <2>2, <2>5, <2>6 DEF r
<1> QED
  BY <1>1, <1>3, <1>4

\* The first timer taken out is not missed by whom it was not for.
LEMMA PopSets ==
  ASSUME NEW s \in TimerStates, s.timers # <<>>, NEW c, NEW next, SetIn(s, c, next),
         ~(Head(s.timers).ctx = c /\ Head(s.timers).now = next)
  PROVE  SetIn([s EXCEPT !.timers = Tail(@)], c, next)
<1> DEFINE r == [s EXCEPT !.timers = Tail(@)]
<1>1. /\ \A i \in DOMAIN s.timers : i # 1 => i - 1 \in DOMAIN r.timers
                                             /\ r.timers[i - 1] = s.timers[i]
      /\ Head(s.timers) = s.timers[1] /\ r.contexts = s.contexts
  BY PopIs
<1> HIDE DEF r
<1>2. PICK i \in DOMAIN s.timers : s.timers[i].ctx = c /\ s.timers[i].now = next
  BY DEF SetIn
<1>3. i # 1
  BY <1>1, <1>2
<1>4. i - 1 \in DOMAIN r.timers /\ r.timers[i - 1] = s.timers[i]
  BY <1>1, <1>3
<1> QED
  BY <1>1, <1>2, <1>4 DEF SetIn, r

\* A time that is set for is not farther away than its timer can be late.
LEMMA SetIsNear ==
  ASSUME TimeTypes, NEW s \in TimerStates, Fits(s), NEW c, NEW next, SetIn(s, c, next)
  PROVE  /\ next \in Clocks /\ Signed(next, clock) \in Int
         /\ Signed(next, clock) >= -MaxLate /\ Signed(next, clock) > -Half
<1>1. PICK i \in DOMAIN s.timers : s.timers[i].now = next
  BY DEF SetIn
<1> DEFINE t == s.timers[i]
<1>2. t \in Timers /\ Left(t) = Signed(next, clock) /\ Left(t) \in Int /\ next \in Clocks
  BY <1>1, TreeParts, TimerParts, TimesOfTimer DEF TimeTypes, Left
<1>3. /\ late \in Nat /\ late <= Lag /\ Lag \in Nat /\ MaxDelay \in Nat /\ Early \in Nat
      /\ MaxDelay + 2 * Lag + 1 + Early < Half /\ Half \in Nat
  BY ClockNumbers DEF TimeTypes
<1>4. Left(t) >= -(Lag + 1) - late
  <2>1. CASE running
    BY <2>1 DEF Fits, Punctual
  <2>2. CASE ~running
    <3>1. Left(t) >= IF s.wake.left > 0 THEN -Lag ELSE -(Lag + 1) - late
      BY <2>2 DEF Fits, Punctual
    <3> HIDE DEF t
    <3> QED
      BY <1>2, <1>3, <3>1
  <2> QED
    BY <2>1, <2>2
<1> HIDE DEF t, Half
<1> QED
  BY <1>2, <1>3, <1>4 DEF MaxLate

\* What others put in does not disturb a client.
LEMMA GrowingKeepsSet ==
  ASSUME NEW r, NEW s, NEW ctx, Grows(r, s, ctx)
  PROVE  /\ \A p, g : PingSet(p, g, s) => PingSet(p, g, r)
         /\ \A c, k : KeySet(c, k, s) => KeySet(c, k, r)
BY DEF Grows, PingSet, KeySet

\* pinger_schedule, whatever it does, leaves the pinger set, or lost.
LEMMA PingerScheduleSets ==
  ASSUME TimeTypes, NEW s \in TimerStates, Fits(s), NEW p \in Pingers,
         NEW g \in PingerTypes, g.interval # 0,
         p \notin s.lost /\ g.pending => SetIn(s, p, g.next)
  PROVE  LET r == pingerSchedule(p, g, s) IN
         /\ r.g \in PingerTypes /\ r.s \in TimerStates /\ Fits(r.s)
         /\ r.g.alive = g.alive /\ r.g.interval = g.interval /\ r.g.pending
         /\ Grows(r.s, s, p) /\ PingSet(p, r.g, r.s)
         /\ r.s.wake = s.wake \/ SetIn(r.s, p, when(g.interval))
         /\ ~g.pending /\ p \in s.contexts => SetIn(r.s, p, r.g.next)
<1> DEFINE x == scheduleTimer(s, g.interval, "pinger_timer", p)
           next == when(g.interval)
           r == pingerSchedule(p, g, s)
           h == IF ~g.pending \/ next < g.next
                THEN [g EXCEPT !.next = next, !.pending = TRUE] ELSE g
<1>1. /\ g.interval \in Delays /\ MaxDelay > 0 /\ "pinger_timer" \in Fns /\ p \in Contexts
  BY ContextsDiffer, ClockNumbers DEF PingerTypes, Delays
<1>2. x \in TimerStates /\ Fits(x)
  BY <1>1, ScheduleFits
<1>3. /\ Grows(x, s, p)
      /\ p \in x.contexts => SetIn(x, p, next)
      /\ p \notin x.lost => p \in x.contexts
      /\ x.wake = s.wake \/ SetIn(x, p, next)
  BY <1>1, ScheduleSets
<1>4. next \in Clocks
  BY <1>1, WhenIs DEF TimeTypes
<1>5. r.s = x /\ r.g = h
  BY DEF pingerSchedule
<1> HIDE DEF x, r, next
<1>6. /\ h \in PingerTypes /\ h.alive = g.alive /\ h.interval = g.interval /\ h.pending
      /\ h.next = IF ~g.pending \/ next < g.next THEN next ELSE g.next
  BY <1>4 DEF PingerTypes
<1> HIDE DEF h
<1>7. PingSet(p, h, x)
  <2>1. SUFFICES ASSUME p \notin x.lost PROVE SetIn(x, p, h.next)
    BY <1>6 DEF PingSet
  <2>2. p \notin s.lost
    BY <1>3, <2>1 DEF Grows
  <2>3. CASE ~g.pending \/ next < g.next
    BY <1>3, <1>6, <2>1, <2>3
  <2>4. CASE ~(~g.pending \/ next < g.next)
    BY <1>3, <1>6, <2>2, <2>4 DEF Grows
  <2> QED
    BY <2>3, <2>4
<1>8. ~g.pending /\ p \in s.contexts => SetIn(x, p, h.next)
  BY <1>3, <1>6 DEF Grows
<1> QED
  BY <1>2, <1>3, <1>5, <1>6, <1>7, <1>8 DEF r, next

-----------------------------------------------------------------------------
(* The steps.                                                              *)

\* A handler that ends with the timers s, in which no time has passed.
LEMMA HandlerEnds ==
  ASSUME TimeTypes, NEW s \in TimerStates, Fits(s), tm' = s,
         clock' = clock, running' = running, late' = late
  PROVE  /\ Fits(tm)' /\ TimeTypes' /\ tm' \in TimerStates
         /\ \A c, k : KeySet(c, k, s) => KeySet(c, k, tm)'
<1>1. Fits(tm)'
  BY DEF Fits, Sound, Sorted, Punctual, Wakes, Since, Wait, Left, Age
<1>2. TimeTypes'
  BY DEF TimeTypes
<1>3. \A c, k : KeySet(c, k, s) => KeySet(c, k, tm)'
  BY DEF KeySet
<1> QED
  BY <1>1, <1>2, <1>3

\* The state is the one of IndInv, piece by piece.
LEMMA Pieces ==
  ASSUME IndInv
  PROVE  /\ TimeTypes /\ tm \in TimerStates /\ Fits(tm)
         /\ clock \in Clocks /\ late \in Nat /\ changes \in 0 .. MaxChanges
         /\ pingers \in [Pingers -> PingerTypes] /\ ssh \in [Sessions -> SshTypes]
         /\ \A p \in Pingers : pingers[p] \in PingerTypes /\ PingSet(p, pingers[p], tm)
         /\ \A c \in Sessions : ssh[c] \in SshTypes /\ KeySet(c, ssh[c], tm)
         /\ \A c \in tm.contexts \cup tm.lost : Alive(c)
BY DEF IndInv, Types, TimeTypes, Pinging, Rekeying, Owned

\* A handler of a pinger: another state of that pinger, and timers of its own.
LEMMA PingerHandlerKeeps ==
  ASSUME IndInv, NEW p \in Pingers, NEW g \in PingerTypes, NEW s \in TimerStates, Fits(s),
         g.alive, Grows(s, tm, p), PingSet(p, g, s),
         pingers' = [pingers EXCEPT ![p] = g], tm' = s,
         UNCHANGED <<clock, running, late, ssh>>, changes' \in 0 .. MaxChanges, ~running
  PROVE  IndInv'
<1>1. /\ Fits(tm)' /\ TimeTypes' /\ tm' \in TimerStates
      /\ \A c, k : KeySet(c, k, s) => KeySet(c, k, tm)'
  BY Pieces, HandlerEnds
<1>2. /\ pingers' \in [Pingers -> PingerTypes] /\ pingers'[p] = g
      /\ \A q \in Pingers : q # p => pingers'[q] = pingers[q]
  BY Pieces
<1>3. Types'
  BY <1>1, <1>2, Pieces DEF Types
<1>4. Pinging'
  <2>1. ASSUME NEW q \in Pingers PROVE PingSet(q, pingers'[q], s)
    <3>1. CASE q = p
      BY <1>2, <3>1
    <3>2. CASE q # p
      BY <1>2, <3>2, Pieces, GrowingKeepsSet
    <3> QED
      BY <3>1, <3>2
  <2> QED
    BY <2>1 DEF Pinging
<1>5. Rekeying'
  <2>1. ASSUME NEW c \in Sessions PROVE KeySet(c, ssh[c], tm)'
    <3>1. KeySet(c, ssh[c], s)
      BY Pieces, GrowingKeepsSet
    <3> QED
      BY <1>1, <3>1
  <2> QED
    BY <2>1 DEF Rekeying
<1>6. Owned'
  <2>1. ASSUME NEW c \in s.contexts \cup s.lost PROVE Alive(c)'
    <3>1. CASE c = p
      BY <1>2, <3>1 DEF Alive
    <3>2. CASE c # p
      <4>1. c \in tm.contexts \cup tm.lost
        BY <2>1, <3>2 DEF Grows
      <4>2. Alive(c)
        BY <4>1, Pieces
      <4> QED
        BY <1>2, <3>2, <4>2 DEF Alive
    <3> QED
      BY <3>1, <3>2
  <2> QED
    BY <2>1 DEF Owned
<1>7. Kept'
  BY DEF Kept
<1> QED
  BY <1>1, <1>3, <1>4, <1>5, <1>6, <1>7 DEF IndInv

\* A handler of a session, likewise.
LEMMA SessionHandlerKeeps ==
  ASSUME IndInv, NEW c \in Sessions, NEW k \in SshTypes, NEW s \in TimerStates, Fits(s),
         k.alive, Grows(s, tm, c), KeySet(c, k, s),
         ssh' = [ssh EXCEPT ![c] = k], tm' = s,
         UNCHANGED <<clock, running, late, pingers>>, changes' \in 0 .. MaxChanges, ~running
  PROVE  IndInv'
<1>1. /\ Fits(tm)' /\ TimeTypes' /\ tm' \in TimerStates
      /\ \A d, l : KeySet(d, l, s) => KeySet(d, l, tm)'
  BY Pieces, HandlerEnds
<1>2. /\ ssh' \in [Sessions -> SshTypes] /\ ssh'[c] = k
      /\ \A d \in Sessions : d # c => ssh'[d] = ssh[d]
  BY Pieces
<1>3. Types'
  BY <1>1, <1>2, Pieces DEF Types
<1>4. Pinging'
  BY Pieces, GrowingKeepsSet DEF Pinging
<1>5. Rekeying'
  <2>1. ASSUME NEW d \in Sessions PROVE KeySet(d, ssh[d], tm)'
    <3>1. CASE d = c
      BY <1>1, <1>2, <3>1
    <3>2. CASE d # c
      <4>1. KeySet(d, ssh[d], s)
        BY Pieces, GrowingKeepsSet
      <4> QED
        BY <1>1, <1>2, <3>2, <4>1
    <3> QED
      BY <3>1, <3>2
  <2> QED
    BY <2>1 DEF Rekeying
<1>6. Owned'
  <2>1. ASSUME NEW d \in s.contexts \cup s.lost PROVE Alive(d)'
    <3>1. CASE d = c
      BY <1>2, <3>1 DEF Alive
    <3>2. CASE d # c
      <4>1. d \in tm.contexts \cup tm.lost
        BY <2>1, <3>2 DEF Grows
      <4>2. Alive(d)
        BY <4>1, Pieces
      <4> QED
        BY <1>2, <3>2, <4>2 DEF Alive
    <3> QED
      BY <3>1, <3>2
  <2> QED
    BY <2>1 DEF Owned
<1>7. Kept'
  BY DEF Kept
<1> QED
  BY <1>1, <1>3, <1>4, <1>5, <1>6, <1>7 DEF IndInv

\* Nothing grows if nothing is done.
LEMMA GrowsNot ==
  ASSUME NEW s, NEW c
  PROVE  Grows(s, s, c)
BY DEF Grows

\* What counts a change.
LEMMA ChangeCounts ==
  ASSUME IndInv, Change
  PROVE  ~running /\ changes' \in 0 .. MaxChanges /\ UNCHANGED <<clock, running, late>>
BY ContextsAssumption DEF IndInv, Types, Change

\* pinger_new keeps the invariant.
LEMMA PingerNewKeeps ==
  ASSUME IndInv, NEW p \in Pingers, pingerNew(p)
  PROVE  IndInv'
<1>1. ~running /\ changes' \in 0 .. MaxChanges /\ UNCHANGED <<clock, running, late, ssh>>
  BY ChangeCounts DEF pingerNew
<1>2. PICK interval \in Delays :
        Becomes(p, pingerSchedule(p, [NoPinger EXCEPT !.alive = TRUE,
                                                      !.interval = interval], tm))
  BY DEF pingerNew
<1> DEFINE g == [NoPinger EXCEPT !.alive = TRUE, !.interval = interval]
           r == pingerSchedule(p, g, tm)
<1>3. g \in PingerTypes /\ g.alive /\ ~g.pending /\ g.interval = interval
  <2>1. TRUE \in BOOLEAN /\ FALSE \in BOOLEAN /\ 0 \in Clocks
    BY TimesAre, ClockNumbers
  <2> QED
    BY <2>1 DEF NoPinger, PingerTypes
<1>4. pingers' = [pingers EXCEPT ![p] = r.g] /\ tm' = r.s
  BY <1>2 DEF Becomes
<1> HIDE DEF g
<1>5. CASE g.interval = 0
  <2>1. r.s = tm /\ r.g = [g EXCEPT !.pending = FALSE]
    BY <1>5 DEF pingerSchedule
  <2>2. r.g \in PingerTypes /\ r.g.alive /\ ~r.g.pending /\ r.g.interval = 0
    <3>1. FALSE \in BOOLEAN
      OBVIOUS
    <3> QED
      BY <1>3, <1>5, <2>1, <3>1 DEF PingerTypes
  <2>3. PingSet(p, r.g, tm)
    BY <2>2 DEF PingSet
  <2> HIDE DEF r
  <2> QED
    BY <1>1, <1>4, <2>1, <2>2, <2>3, GrowsNot, Pieces, PingerHandlerKeeps
<1>6. CASE g.interval # 0
  <2>1. /\ r.g \in PingerTypes /\ r.s \in TimerStates /\ Fits(r.s) /\ r.g.alive
        /\ Grows(r.s, tm, p) /\ PingSet(p, r.g, r.s)
    BY <1>3, <1>6, Pieces, PingerScheduleSets
  <2> HIDE DEF r
  <2> QED
    BY <1>1, <1>4, <2>1, PingerHandlerKeeps
<1> QED
  BY <1>5, <1>6

\* So does pinger_reconfig, with the timer set for the former interval left behind.
LEMMA PingerReconfigKeeps ==
  ASSUME IndInv, NEW p \in Pingers, pingerReconfig(p)
  PROVE  IndInv'
<1>1. ~running /\ changes' \in 0 .. MaxChanges /\ UNCHANGED <<clock, running, late, ssh>>
  BY ChangeCounts DEF pingerReconfig
<1>2. PICK interval \in Delays :
        Becomes(p, pingerSchedule(p, [pingers[p] EXCEPT !.interval = interval], tm))
  BY DEF pingerReconfig
<1> DEFINE g == [pingers[p] EXCEPT !.interval = interval]
           r == pingerSchedule(p, g, tm)
<1>3. /\ g \in PingerTypes /\ g.alive /\ g.interval = interval
      /\ g.pending = pingers[p].pending /\ g.next = pingers[p].next
  BY Pieces DEF pingerReconfig, PingerTypes
<1>4. pingers' = [pingers EXCEPT ![p] = r.g] /\ tm' = r.s
  BY <1>2 DEF Becomes
<1>5. p \notin tm.lost /\ g.pending => SetIn(tm, p, g.next)
  <2>1. PingSet(p, pingers[p], tm) /\ pingers[p].alive
    BY Pieces DEF pingerReconfig
  <2> HIDE DEF g
  <2> QED
    BY <1>3, <2>1 DEF PingSet
<1> HIDE DEF g
<1>6. CASE g.interval = 0
  <2>1. r.s = tm /\ r.g = [g EXCEPT !.pending = FALSE]
    BY <1>6 DEF pingerSchedule
  <2>2. r.g \in PingerTypes /\ r.g.alive /\ ~r.g.pending /\ r.g.interval = 0
    <3>1. FALSE \in BOOLEAN
      OBVIOUS
    <3> QED
      BY <1>3, <1>6, <2>1, <3>1 DEF PingerTypes
  <2>3. PingSet(p, r.g, tm)
    BY <2>2 DEF PingSet
  <2> HIDE DEF r
  <2> QED
    BY <1>1, <1>4, <2>1, <2>2, <2>3, GrowsNot, Pieces, PingerHandlerKeeps
<1>7. CASE g.interval # 0
  <2>1. /\ r.g \in PingerTypes /\ r.s \in TimerStates /\ Fits(r.s) /\ r.g.alive
        /\ Grows(r.s, tm, p) /\ PingSet(p, r.g, r.s)
    BY <1>3, <1>5, <1>7, Pieces, PingerScheduleSets
  <2> HIDE DEF r
  <2> QED
    BY <1>1, <1>4, <2>1, PingerHandlerKeeps
<1> QED
  BY <1>6, <1>7

\* What expires is nobody else's.
LEMMA ExpireSets ==
  ASSUME NEW s \in TimerStates, Fits(s), NEW ctx
  PROVE  LET r == expireTimerContext(s, ctx) IN
         /\ \A p, g : p # ctx /\ PingSet(p, g, s) => PingSet(p, g, r)
         /\ \A c, k : c # ctx /\ KeySet(c, k, s) => KeySet(c, k, r)
<1> DEFINE r == expireTimerContext(s, ctx)
<1>1. /\ r.timers = s.timers
      /\ r.contexts = s.contexts \ {ctx} /\ r.lost = s.lost \ {ctx}
  BY ExpireFits
<1> HIDE DEF r
<1>2. ASSUME NEW c, c # ctx
      PROVE  (c \in r.lost <=> c \in s.lost) /\ \A n : SetIn(r, c, n) <=> SetIn(s, c, n)
  BY <1>1, <1>2 DEF SetIn
<1> QED
  BY <1>2 DEF PingSet, KeySet, r

\* So does pinger_free.
LEMMA PingerFreeKeeps ==
  ASSUME IndInv, NEW p \in Pingers, pingerFree(p)
  PROVE  IndInv'
<1> DEFINE s == expireTimerContext(tm, p)
<1>1. ~running /\ changes' \in 0 .. MaxChanges /\ UNCHANGED <<clock, running, late, ssh>>
  BY ChangeCounts DEF pingerFree
<1>2. pingers' = [pingers EXCEPT ![p] = NoPinger] /\ tm' = s
  BY DEF pingerFree, Becomes
<1>3. /\ s \in TimerStates /\ Fits(s)
      /\ s.contexts = tm.contexts \ {p} /\ s.lost = tm.lost \ {p}
      /\ \A q, g : q # p /\ PingSet(q, g, tm) => PingSet(q, g, s)
      /\ \A c, k : c # p /\ KeySet(c, k, tm) => KeySet(c, k, s)
  BY Pieces, ExpireFits, ExpireSets
<1> HIDE DEF s
<1>4. /\ Fits(tm)' /\ TimeTypes' /\ tm' \in TimerStates
      /\ \A c, k : KeySet(c, k, s) => KeySet(c, k, tm)'
  BY <1>1, <1>2, <1>3, Pieces, HandlerEnds
<1>5. NoPinger \in PingerTypes /\ ~NoPinger.alive /\ ~NoPinger.pending
  <2>1. FALSE \in BOOLEAN /\ 0 \in Clocks /\ 0 \in Delays
    BY TimesAre, ClockNumbers DEF Delays
  <2> QED
    BY <2>1 DEF NoPinger, PingerTypes
<1>6. /\ pingers' \in [Pingers -> PingerTypes] /\ pingers'[p] = NoPinger
      /\ \A q \in Pingers : q # p => pingers'[q] = pingers[q]
  BY <1>2, <1>5, Pieces
<1>7. Types'
  BY <1>1, <1>4, <1>6, Pieces DEF Types
<1>8. Pinging'
  <2>1. ASSUME NEW q \in Pingers PROVE PingSet(q, pingers'[q], s)
    <3>1. CASE q = p
      BY <1>5, <1>6, <3>1 DEF PingSet
    <3>2. CASE q # p
      BY <1>3, <1>6, <3>2, Pieces
    <3> QED
      BY <3>1, <3>2
  <2> QED
    BY <1>2, <2>1 DEF Pinging
<1>9. Rekeying'
  <2>1. ASSUME NEW c \in Sessions PROVE KeySet(c, ssh[c], tm)'
    <3>1. KeySet(c, ssh[c], s)
      BY <1>3, Pieces, ContextsDiffer
    <3> QED
      BY <1>1, <1>4, <3>1
  <2> QED
    BY <1>1, <1>2, <2>1 DEF Rekeying
<1>10. Owned'
  <2>1. ASSUME NEW c \in s.contexts \cup s.lost PROVE Alive(c)'
    <3>1. c # p /\ Alive(c)
      BY <1>3, Pieces
    <3> QED
      BY <1>1, <1>6, <3>1 DEF Alive
  <2> QED
    BY <1>2, <2>1 DEF Owned
<1>11. Kept'
  BY <1>1 DEF Kept
<1> QED
  BY <1>4, <1>7, <1>8, <1>9, <1>10, <1>11 DEF IndInv

\* So does ssh_do_close.
LEMMA SshDoCloseKeeps ==
  ASSUME IndInv, NEW c \in Sessions, sshDoClose(c)
  PROVE  IndInv'
<1> DEFINE s == expireTimerContext(tm, c)
<1>1. ~running /\ changes' \in 0 .. MaxChanges /\ UNCHANGED <<clock, running, late, pingers>>
  BY ChangeCounts DEF sshDoClose
<1>2. ssh' = [ssh EXCEPT ![c] = NoSession] /\ tm' = s
  BY DEF sshDoClose
<1>3. /\ s \in TimerStates /\ Fits(s)
      /\ s.contexts = tm.contexts \ {c} /\ s.lost = tm.lost \ {c}
      /\ \A q, g : q # c /\ PingSet(q, g, tm) => PingSet(q, g, s)
      /\ \A d, k : d # c /\ KeySet(d, k, tm) => KeySet(d, k, s)
  BY Pieces, ExpireFits, ExpireSets
<1> HIDE DEF s
<1>4. /\ Fits(tm)' /\ TimeTypes' /\ tm' \in TimerStates
      /\ \A d, k : KeySet(d, k, s) => KeySet(d, k, tm)'
  BY <1>1, <1>2, <1>3, Pieces, HandlerEnds
<1>5. NoSession \in SshTypes /\ ~NoSession.alive
  <2>1. FALSE \in BOOLEAN /\ 0 \in Clocks /\ 0 \in Delays /\ 0 \in 0 .. Wrap
    BY TimesAre, ClockNumbers DEF Delays
  <2> QED
    BY <2>1 DEF NoSession, SshTypes
<1>6. /\ ssh' \in [Sessions -> SshTypes] /\ ssh'[c] = NoSession
      /\ \A d \in Sessions : d # c => ssh'[d] = ssh[d]
  BY <1>2, <1>5, Pieces
<1>7. Types'
  BY <1>1, <1>4, <1>6, Pieces DEF Types
<1>8. Pinging'
  BY <1>1, <1>2, <1>3, Pieces, ContextsDiffer DEF Pinging
<1>9. Rekeying'
  <2>1. ASSUME NEW d \in Sessions PROVE KeySet(d, ssh[d], tm)'
    <3>1. CASE d = c
      BY <1>5, <1>6, <3>1 DEF KeySet
    <3>2. CASE d # c
      <4>1. KeySet(d, ssh[d], s)
        BY <1>3, <3>2, Pieces
      <4> QED
        BY <1>4, <1>6, <3>2, <4>1
    <3> QED
      BY <3>1, <3>2
  <2> QED
    BY <1>2, <2>1 DEF Rekeying
<1>10. Owned'
  <2>1. ASSUME NEW d \in s.contexts \cup s.lost PROVE Alive(d)'
    <3>1. d # c /\ Alive(d)
      BY <1>3, Pieces
    <3> QED
      BY <1>1, <1>6, <3>1 DEF Alive
  <2> QED
    BY <1>2, <2>1 DEF Owned
<1>11. Kept'
  BY <1>1 DEF Kept
<1> QED
  BY <1>4, <1>7, <1>8, <1>9, <1>10, <1>11 DEF IndInv

\* The timer of a pinger: what the pinger waits for is another timer, or one is set.
LEMMA PingerTimerKeeps ==
  ASSUME IndInv, NEW p \in Pingers, pingerTimer(p)
  PROVE  IndInv'
<1> DEFINE s == [tm EXCEPT !.timers = Tail(@)]
           h == Head(tm.timers)
           g == pingers[p]
<1>1. /\ running /\ tm.timers # <<>> /\ h.ctx = p /\ p \in tm.contexts
      /\ UNCHANGED <<clock, running, late, ssh, changes>>
  BY DEF pingerTimer, Calls, IsDead
<1>2. s \in TimerStates /\ Fits(s)
  BY <1>1, Pieces, PopFits
<1>3. s.contexts = tm.contexts /\ s.lost = tm.lost /\ s.wake = tm.wake
  BY <1>1, Pieces, PopIs
<1>4. \A c, n : SetIn(tm, c, n) /\ ~(c = p /\ n = h.now) => SetIn(s, c, n)
  BY <1>1, Pieces, PopSets
<1>5. g \in PingerTypes /\ PingSet(p, g, tm) /\ g.alive
  BY <1>1, Pieces, ContextsDiffer DEF Alive
<1>6. \E g2 \in PingerTypes, s2 \in TimerStates :
        /\ pingers' = [pingers EXCEPT ![p] = g2] /\ tm' = s2
        /\ Fits(s2) /\ Grows(s2, s, p) /\ PingSet(p, g2, s2) /\ g2.alive
        /\ \/ g2 = g /\ s2.wake = s.wake /\ (g.pending => g.next # h.now)
           \/ g2.pending /\ SetIn(s2, p, g2.next)
  <2>1. CASE g.pending /\ g.next = h.now
    <3> DEFINE g1 == [g EXCEPT !.pending = FALSE]
               r == pingerSchedule(p, g1, s)
    <3>1. /\ g1 \in PingerTypes /\ g1.alive /\ ~g1.pending /\ g1.interval = g.interval
      <4>1. FALSE \in BOOLEAN
        OBVIOUS
      <4> QED
        BY <1>5, <4>1 DEF PingerTypes
    <3>2. g1.interval # 0
      BY <1>5, <2>1, <3>1 DEF PingSet
    <3>3. Becomes(p, r)
      BY <2>1 DEF pingerTimer, Called
    <3>4. pingers' = [pingers EXCEPT ![p] = r.g] /\ tm' = r.s
      BY <3>3 DEF Becomes
    <3> HIDE DEF s, g1, g
    <3>5. /\ r.g \in PingerTypes /\ r.s \in TimerStates /\ Fits(r.s)
          /\ r.g.alive /\ r.g.pending /\ Grows(r.s, s, p) /\ PingSet(p, r.g, r.s)
          /\ ~g1.pending /\ p \in s.contexts => SetIn(r.s, p, r.g.next)
      BY <1>2, <3>1, <3>2, Pieces, PingerScheduleSets
    <3> HIDE DEF r
    <3> QED
      BY <1>1, <1>3, <3>1, <3>4, <3>5
  <2>2. CASE ~(g.pending /\ g.next = h.now)
    <3>1. Becomes(p, [g |-> g, s |-> s])
      BY <2>2 DEF pingerTimer, Called
    <3>2. pingers' = [pingers EXCEPT ![p] = g] /\ tm' = s
      BY <3>1 DEF Becomes
    <3> HIDE DEF s, g
    <3>3. PingSet(p, g, s)
      BY <1>3, <1>4, <1>5, <2>2 DEF PingSet
    <3> QED
      BY <1>2, <1>5, <2>2, <3>2, <3>3, GrowsNot
  <2> QED
    BY <2>1, <2>2
<1> HIDE DEF s, g, h
<1>7. PICK g2 \in PingerTypes, s2 \in TimerStates :
        /\ pingers' = [pingers EXCEPT ![p] = g2] /\ tm' = s2
        /\ Fits(s2) /\ Grows(s2, s, p) /\ PingSet(p, g2, s2) /\ g2.alive
        /\ \/ g2 = g /\ s2.wake = s.wake /\ (g.pending => g.next # h.now)
           \/ g2.pending /\ SetIn(s2, p, g2.next)
  BY <1>6
<1>8. /\ Fits(tm)' /\ TimeTypes' /\ tm' \in TimerStates
      /\ \A c, k : KeySet(c, k, s2) => KeySet(c, k, tm)'
  BY <1>1, <1>7, Pieces, HandlerEnds
<1>9. /\ pingers' \in [Pingers -> PingerTypes] /\ pingers'[p] = g2
      /\ \A q \in Pingers : q # p => pingers'[q] = pingers[q]
  BY <1>7, Pieces
<1>10. Types'
  BY <1>1, <1>8, <1>9, Pieces DEF Types
<1>11. \A c, n : SetIn(tm, c, n) /\ c # p => SetIn(s2, c, n)
  BY <1>4, <1>7 DEF Grows
<1>12. \A c : c # p => (c \in s2.lost <=> c \in tm.lost)
  BY <1>3, <1>7 DEF Grows
<1>13. Pinging'
  <2>1. ASSUME NEW q \in Pingers PROVE PingSet(q, pingers'[q], s2)
    <3>1. CASE q = p
      BY <1>7, <1>9, <3>1
    <3>2. CASE q # p
      <4>1. PingSet(q, pingers[q], tm)
        BY Pieces
      <4>2. PingSet(q, pingers[q], s2)
        BY <1>11, <1>12, <3>2, <4>1 DEF PingSet
      <4> QED
        BY <1>9, <3>2, <4>2
    <3> QED
      BY <3>1, <3>2
  <2> QED
    BY <1>7, <2>1 DEF Pinging
<1>14. Rekeying'
  <2>1. ASSUME NEW c \in Sessions PROVE KeySet(c, ssh[c], tm)'
    <3>1. KeySet(c, ssh[c], tm) /\ c # p
      BY Pieces, ContextsDiffer
    <3>2. KeySet(c, ssh[c], s2)
      BY <1>11, <1>12, <3>1 DEF KeySet
    <3> QED
      BY <1>1, <1>8, <3>2
  <2> QED
    BY <2>1 DEF Rekeying
<1>15. Owned'
  <2>1. ASSUME NEW c \in s2.contexts \cup s2.lost PROVE Alive(c)'
    <3>1. CASE c = p
      BY <1>7, <1>9, <3>1 DEF Alive
    <3>2. CASE c # p
      <4>1. c \in tm.contexts \cup tm.lost
        BY <1>3, <1>7, <2>1, <3>2 DEF Grows
      <4>2. Alive(c)
        BY <4>1, Pieces
      <4> QED
        BY <1>1, <1>9, <3>2, <4>2 DEF Alive
    <3> QED
      BY <3>1, <3>2
  <2> QED
    BY <1>7, <2>1 DEF Owned
<1>16. Kept'
  <2>1. CASE g2 = g /\ s2.wake = s.wake /\ (g.pending => g.next # h.now)
    <3>1. SUFFICES ASSUME tm'.wake.on
                   PROVE  \/ \E q \in Pingers : pingers'[q].pending
                                                /\ SetIn(s2, q, pingers'[q].next)
                          \/ \E c \in Sessions : Waits(ssh[c]) /\ SetIn(s2, c, ssh[c].next)
      BY <1>1, <1>7 DEF Kept
    <3>2. tm.wake.on
      BY <1>3, <1>7, <2>1, <3>1
    <3>3. \/ \E q \in Pingers : pingers[q].pending /\ SetIn(tm, q, pingers[q].next)
          \/ \E c \in Sessions : Waits(ssh[c]) /\ SetIn(tm, c, ssh[c].next)
      BY <1>1, <3>2 DEF IndInv, Kept
    <3>4. ASSUME NEW q \in Pingers, pingers[q].pending, SetIn(tm, q, pingers[q].next)
          PROVE  pingers'[q].pending /\ SetIn(s2, q, pingers'[q].next)
      <4>1. pingers'[q] = pingers[q]
        BY <1>9, <2>1 DEF g
      <4>2. SetIn(s, q, pingers[q].next)
        BY <1>4, <2>1, <3>4 DEF g
      <4> QED
        BY <1>7, <3>4, <4>1, <4>2 DEF Grows
    <3>5. ASSUME NEW c \in Sessions, SetIn(tm, c, ssh[c].next)
          PROVE  SetIn(s2, c, ssh[c].next)
      BY <1>11, <3>5, ContextsDiffer
    <3> QED
      BY <3>3, <3>4, <3>5
  <2>2. CASE g2.pending /\ SetIn(s2, p, g2.next)
    BY <1>7, <1>9, <2>2 DEF Kept
  <2> QED
    BY <1>7, <2>1, <2>2
<1> QED
  BY <1>8, <1>10, <1>13, <1>14, <1>15, <1>16 DEF IndInv

\* So does the start of a session, whose first key exchange runs.
LEMMA SshBeginsKeeps ==
  ASSUME IndInv, NEW c \in Sessions, sshBegins(c)
  PROVE  IndInv'
<1>1. /\ ~running /\ changes' \in 0 .. MaxChanges /\ UNCHANGED <<clock, running, late>>
      /\ UNCHANGED <<tm, pingers>>
  BY ChangeCounts DEF sshBegins
<1>2. PICK time \in Delays, bug \in BOOLEAN :
        ssh' = [ssh EXCEPT ![c] = [NoSession EXCEPT !.alive = TRUE, !.kex = TRUE,
                                                    !.time = time, !.bug = bug]]
  BY DEF sshBegins
<1> DEFINE k == [NoSession EXCEPT !.alive = TRUE, !.kex = TRUE, !.time = time,
                                  !.bug = bug]
<1>3. k \in SshTypes /\ k.alive /\ k.kex
  <2>1. FALSE \in BOOLEAN /\ TRUE \in BOOLEAN /\ 0 \in Clocks /\ 0 \in 0 .. Wrap
    BY TimesAre, ClockNumbers
  <2> QED
    BY <2>1 DEF NoSession, SshTypes
<1>4. ssh' = [ssh EXCEPT ![c] = k]
  BY <1>2
<1> HIDE DEF k
<1>5. KeySet(c, k, tm)
  BY <1>3 DEF KeySet
<1> QED
  BY <1>1, <1>3, <1>4, <1>5, GrowsNot, Pieces, SessionHandlerKeeps

\* The time of a session is set: keys of that age, a timer for what is left.
LEMMA KeyScheduleSets ==
  ASSUME TimeTypes, NEW r \in TimerStates, Fits(r), NEW c \in Sessions, NEW k \in SshTypes,
         NEW rest \in Delays, MaxDelay > 0,
         k.next = when(rest), k.bug \/ k.age + rest <= k.time,
         k.alive /\ ~k.kex /\ ~k.bug /\ k.age < Wrap => Minus(clock, k.last) = k.age
  PROVE  LET s == scheduleTimer(r, rest, "ssh2_timer", c) IN
         /\ s \in TimerStates /\ Fits(s) /\ Grows(s, r, c) /\ KeySet(c, k, s)
         /\ c \in r.contexts => SetIn(s, c, k.next)
<1> DEFINE s == scheduleTimer(r, rest, "ssh2_timer", c)
<1>1. "ssh2_timer" \in Fns /\ c \in Contexts
  BY ContextsDiffer
<1>2. s \in TimerStates /\ Fits(s)
  BY <1>1, ScheduleFits
<1>3. /\ Grows(s, r, c) /\ (c \notin s.lost => SetIn(s, c, when(rest)))
      /\ c \in s.contexts => SetIn(s, c, when(rest))
  BY <1>1, ScheduleSets
<1>4. Signed(when(rest), clock) = Max1(rest)
  BY WhenIs DEF TimeTypes
<1>5. k.bug \/ k.age + Max1(rest) <= k.time + 1
  BY ClockNumbers DEF Max1, Delays, SshTypes
<1> HIDE DEF s
<1>6. KeySet(c, k, s)
  BY <1>3, <1>4, <1>5 DEF KeySet
<1>7. c \in r.contexts => SetIn(s, c, k.next)
  BY <1>3 DEF Grows
<1> QED
  BY <1>2, <1>3, <1>6, <1>7 DEF s

\* Being told to begin a key exchange: it begins, or the next time is set.
LEMMA RekeySets ==
  ASSUME TimeTypes, NEW r \in TimerStates, Fits(r), NEW c \in Sessions, NEW k \in SshTypes,
         k.alive, ~k.kex
  PROVE  LET x == Rekey(c, k, r) IN
         /\ x.k \in SshTypes /\ x.k.alive /\ x.s \in TimerStates /\ Fits(x.s)
         /\ Grows(x.s, r, c) /\ KeySet(c, x.k, x.s)
         /\ ~k.bug => x.s = r
         /\ k.bug /\ k.time # 0 =>
              Waits(x.k) /\ (c \in r.contexts => SetIn(x.s, c, x.k.next))
<1> DEFINE x == Rekey(c, k, r)
<1>1. CASE ~k.bug
  <2> DEFINE l == [k EXCEPT !.kex = TRUE]
  <2>1. x.k = l /\ x.s = r
    BY <1>1 DEF Rekey
  <2>2. l \in SshTypes /\ l.alive /\ l.kex
    <3>1. TRUE \in BOOLEAN
      OBVIOUS
    <3> QED
      BY <3>1 DEF SshTypes
  <2> HIDE DEF l
  <2>3. KeySet(c, l, r)
    BY <2>2 DEF KeySet
  <2> HIDE DEF x
  <2>4. /\ x.k \in SshTypes /\ x.k.alive /\ x.s \in TimerStates /\ Fits(x.s)
        /\ Grows(x.s, r, c) /\ KeySet(c, x.k, x.s) /\ x.s = r
    BY <2>1, <2>2, <2>3, GrowsNot
  <2> QED
    BY <1>1, <2>4 DEF x
<1>2. CASE k.bug /\ k.time = 0
  <2>1. x.k = k /\ x.s = r
    BY <1>2 DEF Rekey
  <2>2. KeySet(c, k, r)
    BY <1>2 DEF KeySet
  <2> HIDE DEF x
  <2>3. /\ x.k \in SshTypes /\ x.k.alive /\ x.s \in TimerStates /\ Fits(x.s)
        /\ Grows(x.s, r, c) /\ KeySet(c, x.k, x.s) /\ x.s = r
    BY <2>1, <2>2, GrowsNot
  <2> QED
    BY <1>2, <2>3 DEF x
<1>3. CASE k.bug /\ k.time # 0
  <2> DEFINE l == [k EXCEPT !.next = when(k.time)]
             s == scheduleTimer(r, k.time, "ssh2_timer", c)
  <2>1. x.k = l /\ x.s = s
    BY <1>3 DEF Rekey
  <2>2. k.time \in Delays /\ MaxDelay > 0
    BY <1>3, ClockNumbers DEF SshTypes, Delays
  <2>3. when(k.time) \in Clocks
    BY <2>2, WhenIs DEF TimeTypes
  <2>4. /\ l \in SshTypes /\ l.alive /\ l.bug /\ ~l.kex /\ l.time # 0
        /\ l.next = when(k.time)
    BY <1>3, <2>3 DEF SshTypes
  <2> HIDE DEF l
  <2>5. /\ s \in TimerStates /\ Fits(s) /\ Grows(s, r, c) /\ KeySet(c, l, s)
        /\ c \in r.contexts => SetIn(s, c, l.next)
    BY <2>2, <2>4, KeyScheduleSets
  <2>6. Waits(l)
    BY <2>4 DEF Waits
  <2> HIDE DEF x, s
  <2>7. /\ x.k \in SshTypes /\ x.k.alive /\ x.s \in TimerStates /\ Fits(x.s)
        /\ Grows(x.s, r, c) /\ KeySet(c, x.k, x.s)
        /\ Waits(x.k) /\ (c \in r.contexts => SetIn(x.s, c, x.k.next))
    BY <2>1, <2>4, <2>5, <2>6
  <2> QED
    BY <1>3, <2>7 DEF x
<1> QED
  BY <1>1, <1>2, <1>3

\* What Goes says of the session and of the timers.
LEMMA GoesTo ==
  ASSUME NEW c, NEW x, Goes(c, x)
  PROVE  ssh' = [ssh EXCEPT ![c] = x.k] /\ tm' = x.s
BY DEF Goes

\* So does the start of a key exchange, which makes the timer one of no interest, or the
\* refusal to begin one.
LEMMA BeginKexKeeps ==
  ASSUME IndInv, NEW c \in Sessions, BeginKex(c)
  PROVE  IndInv'
<1>1. /\ ~running /\ changes' \in 0 .. MaxChanges /\ UNCHANGED <<clock, running, late>>
      /\ UNCHANGED pingers /\ ssh[c].alive /\ ~ssh[c].kex
  BY ChangeCounts DEF BeginKex
<1> DEFINE k == [ssh[c] EXCEPT !.kex = TRUE]
<1>2. CASE Goes(c, [k |-> k, s |-> tm])
  <2>1. k \in SshTypes /\ k.alive /\ k.kex
    <3>1. TRUE \in BOOLEAN
      OBVIOUS
    <3> QED
      BY <1>1, <3>1, Pieces DEF SshTypes
  <2> HIDE DEF k
  <2>2. ssh' = [ssh EXCEPT ![c] = k] /\ tm' = tm
    BY <1>2, GoesTo
  <2>3. KeySet(c, k, tm)
    BY <2>1 DEF KeySet
  <2> QED
    BY <1>1, <2>1, <2>2, <2>3, GrowsNot, Pieces, SessionHandlerKeeps
<1>3. CASE Goes(c, Rekey(c, ssh[c], tm))
  <2> DEFINE x == Rekey(c, ssh[c], tm)
  <2>1. ssh' = [ssh EXCEPT ![c] = x.k] /\ tm' = x.s
    BY <1>3, GoesTo
  <2>2. /\ x.k \in SshTypes /\ x.k.alive /\ x.s \in TimerStates /\ Fits(x.s)
        /\ Grows(x.s, tm, c) /\ KeySet(c, x.k, x.s)
    BY <1>1, Pieces, RekeySets
  <2> HIDE DEF x
  <2> QED
    BY <1>1, <2>1, <2>2, SessionHandlerKeeps
<1> QED
  BY <1>2, <1>3 DEF BeginKex

\* The timer of a session: a key exchange begins, or another timer will begin it.
LEMMA Ssh2TimerKeeps ==
  ASSUME IndInv, NEW c \in Sessions, ssh2Timer(c)
  PROVE  IndInv'
<1> DEFINE s == [tm EXCEPT !.timers = Tail(@)]
           h == Head(tm.timers)
           k == ssh[c]
<1>1. /\ running /\ tm.timers # <<>> /\ h.ctx = c /\ c \in tm.contexts
      /\ UNCHANGED <<clock, running, late, pingers, changes>>
  BY DEF ssh2Timer, Calls, IsDead
<1>2. s \in TimerStates /\ Fits(s)
  BY <1>1, Pieces, PopFits
<1>3. s.contexts = tm.contexts /\ s.lost = tm.lost /\ s.wake = tm.wake
  BY <1>1, Pieces, PopIs
<1>4. \A d, n : SetIn(tm, d, n) /\ ~(d = c /\ n = h.now) => SetIn(s, d, n)
  BY <1>1, Pieces, PopSets
<1>5. k \in SshTypes /\ KeySet(c, k, tm) /\ k.alive
  BY <1>1, Pieces, ContextsDiffer DEF Alive
<1>6. \E k2 \in SshTypes, s2 \in TimerStates :
        /\ ssh' = [ssh EXCEPT ![c] = k2] /\ tm' = s2
        /\ Fits(s2) /\ Grows(s2, s, c) /\ KeySet(c, k2, s2) /\ k2.alive
        /\ \/ s2 = s /\ k2 = k /\ (Waits(k) => k.next # h.now)
           \/ s2 = s /\ ~Waits(k)
           \/ Waits(k2) /\ SetIn(s2, c, k2.next)
  <2>1. CASE ~k.kex /\ k.time # 0 /\ k.next = h.now
    <3> DEFINE x == Rekey(c, k, s)
    <3>1. Goes(c, x)
      BY <1>5, <2>1 DEF ssh2Timer, Called
    <3>2. ssh' = [ssh EXCEPT ![c] = x.k] /\ tm' = x.s
      BY <3>1, GoesTo
    <3> HIDE DEF s, k
    <3>3. /\ x.k \in SshTypes /\ x.k.alive /\ x.s \in TimerStates /\ Fits(x.s)
          /\ Grows(x.s, s, c) /\ KeySet(c, x.k, x.s)
          /\ ~k.bug => x.s = s
          /\ k.bug /\ k.time # 0 =>
               Waits(x.k) /\ (c \in s.contexts => SetIn(x.s, c, x.k.next))
      BY <1>2, <1>5, <2>1, Pieces, RekeySets
    <3>4. (x.s = s /\ ~Waits(k)) \/ (Waits(x.k) /\ SetIn(x.s, c, x.k.next))
      BY <1>1, <1>3, <2>1, <3>3 DEF Waits
    <3> HIDE DEF x, h
    <3> QED
      BY <3>2, <3>3, <3>4
  <2>2. CASE ~(~k.kex /\ k.time # 0 /\ k.next = h.now)
    <3>1. Goes(c, [k |-> k, s |-> s])
      BY <2>2 DEF ssh2Timer, Called
    <3> HIDE DEF s, k, h
    <3>2. ssh' = [ssh EXCEPT ![c] = k] /\ tm' = s
      BY <3>1, GoesTo
    <3>3. KeySet(c, k, s)
      BY <1>3, <1>4, <1>5, <2>2 DEF KeySet
    <3>4. Waits(k) => k.next # h.now
      BY <2>2 DEF Waits
    <3> QED
      BY <1>2, <1>5, <3>2, <3>3, <3>4, GrowsNot
  <2> QED
    BY <2>1, <2>2
<1> HIDE DEF s, h, k
<1>7. PICK k2 \in SshTypes, s2 \in TimerStates :
        /\ ssh' = [ssh EXCEPT ![c] = k2] /\ tm' = s2
        /\ Fits(s2) /\ Grows(s2, s, c) /\ KeySet(c, k2, s2) /\ k2.alive
        /\ \/ s2 = s /\ k2 = k /\ (Waits(k) => k.next # h.now)
           \/ s2 = s /\ ~Waits(k)
           \/ Waits(k2) /\ SetIn(s2, c, k2.next)
  BY <1>6
<1>8. /\ Fits(tm)' /\ TimeTypes' /\ tm' \in TimerStates
      /\ \A d, l : KeySet(d, l, s2) => KeySet(d, l, tm)'
  BY <1>1, <1>7, Pieces, HandlerEnds
<1>9. /\ ssh' \in [Sessions -> SshTypes] /\ ssh'[c] = k2
      /\ \A d \in Sessions : d # c => ssh'[d] = ssh[d]
  BY <1>7, Pieces
<1>10. Types'
  BY <1>1, <1>8, <1>9, Pieces DEF Types
<1>11. \A d, n : SetIn(tm, d, n) /\ d # c => SetIn(s2, d, n)
  BY <1>4, <1>7 DEF Grows
<1>12. \A d : d # c => (d \in s2.lost <=> d \in tm.lost)
  BY <1>3, <1>7 DEF Grows
<1>13. Pinging'
  <2>1. ASSUME NEW q \in Pingers PROVE PingSet(q, pingers[q], s2)
    <3>1. PingSet(q, pingers[q], tm) /\ q # c
      BY Pieces, ContextsDiffer
    <3> QED
      BY <1>11, <1>12, <3>1 DEF PingSet
  <2> QED
    BY <1>1, <1>7, <2>1 DEF Pinging
<1>14. Rekeying'
  <2>1. ASSUME NEW d \in Sessions PROVE KeySet(d, ssh[d], tm)'
    <3>1. CASE d = c
      BY <1>7, <1>8, <1>9, <3>1
    <3>2. CASE d # c
      <4>1. KeySet(d, ssh[d], tm)
        BY Pieces
      <4>2. KeySet(d, ssh[d], s2)
        BY <1>11, <1>12, <3>2, <4>1 DEF KeySet
      <4> QED
        BY <1>8, <1>9, <3>2, <4>2
    <3> QED
      BY <3>1, <3>2
  <2> QED
    BY <2>1 DEF Rekeying
<1>15. Owned'
  <2>1. ASSUME NEW d \in s2.contexts \cup s2.lost PROVE Alive(d)'
    <3>1. CASE d = c
      BY <1>7, <1>9, <3>1 DEF Alive
    <3>2. CASE d # c
      <4>1. d \in tm.contexts \cup tm.lost
        BY <1>3, <1>7, <2>1, <3>2 DEF Grows
      <4>2. Alive(d)
        BY <4>1, Pieces
      <4> QED
        BY <1>1, <1>9, <3>2, <4>2 DEF Alive
    <3> QED
      BY <3>1, <3>2
  <2> QED
    BY <1>7, <2>1 DEF Owned
<1>16. Kept'
  <2>1. CASE s2 = s /\ ((k2 = k /\ (Waits(k) => k.next # h.now)) \/ ~Waits(k))
    <3>1. SUFFICES ASSUME tm'.wake.on
                   PROVE  \/ \E q \in Pingers : pingers[q].pending
                                                /\ SetIn(s, q, pingers[q].next)
                          \/ \E d \in Sessions : Waits(ssh'[d]) /\ SetIn(s, d, ssh'[d].next)
      BY <1>1, <1>7, <2>1 DEF Kept
    <3>2. \/ \E q \in Pingers : pingers[q].pending /\ SetIn(tm, q, pingers[q].next)
          \/ \E d \in Sessions : Waits(ssh[d]) /\ SetIn(tm, d, ssh[d].next)
      BY <1>1, <1>3, <1>7, <2>1, <3>1 DEF IndInv, Kept
    <3>3. ASSUME NEW q \in Pingers, SetIn(tm, q, pingers[q].next)
          PROVE  SetIn(s, q, pingers[q].next)
      BY <1>4, <3>3, ContextsDiffer
    <3>4. ASSUME NEW d \in Sessions, Waits(ssh[d]), SetIn(tm, d, ssh[d].next)
          PROVE  Waits(ssh'[d]) /\ SetIn(s, d, ssh'[d].next)
      <4>1. CASE d = c
        BY <1>4, <1>9, <2>1, <3>4, <4>1 DEF k
      <4>2. CASE d # c
        BY <1>4, <1>9, <3>4, <4>2
      <4> QED
        BY <4>1, <4>2
    <3> QED
      BY <3>2, <3>3, <3>4
  <2>2. CASE Waits(k2) /\ SetIn(s2, c, k2.next)
    BY <1>7, <1>9, <2>2 DEF Kept
  <2> QED
    BY <1>7, <2>1, <2>2
<1> QED
  BY <1>8, <1>10, <1>13, <1>14, <1>15, <1>16 DEF IndInv

\* So does its end, which sets the timer anew.
LEMMA EndKexKeeps ==
  ASSUME IndInv, NEW c \in Sessions, EndKex(c)
  PROVE  IndInv'
<1>1. /\ ~running /\ changes' \in 0 .. MaxChanges
      /\ UNCHANGED <<clock, running, late, pingers>> /\ ssh[c].alive
  BY Pieces DEF EndKex
<1> DEFINE k == [ssh[c] EXCEPT !.kex = FALSE, !.last = clock, !.age = 0]
<1>2. /\ k \in SshTypes /\ k.alive /\ k.time = ssh[c].time /\ k.age = 0 /\ k.last = clock
  <2>1. FALSE \in BOOLEAN /\ clock \in Clocks /\ 0 \in 0 .. Wrap
    BY Pieces, ClockNumbers
  <2> QED
    BY <1>1, <2>1, Pieces DEF SshTypes
<1>3. Minus(clock, clock) = 0
  <2>1. clock \in Clocks /\ clock \in Int
    BY Pieces, TimesAre
  <2>2. Minus(clock, clock) = IF clock < clock THEN clock - clock + Wrap ELSE clock - clock
    BY <2>1, DifferenceIs
  <2> QED
    BY <2>1, <2>2
<1>4. CASE k.time = 0
  <2>1. ssh' = [ssh EXCEPT ![c] = k] /\ tm' = tm
    BY <1>4 DEF EndKex
  <2> HIDE DEF k
  <2>2. KeySet(c, k, tm)
    BY <1>2, <1>3, <1>4 DEF KeySet
  <2> QED
    BY <1>1, <1>2, <2>1, <2>2, GrowsNot, Pieces, SessionHandlerKeeps
<1>5. CASE k.time # 0
  <2> DEFINE l == [k EXCEPT !.next = when(k.time)]
             s == scheduleTimer(tm, k.time, "ssh2_timer", c)
  <2>1. ssh' = [ssh EXCEPT ![c] = l] /\ tm' = s
    BY <1>5 DEF EndKex
  <2> HIDE DEF k
  <2>2. k.time \in Delays /\ MaxDelay > 0
    BY <1>2, <1>5, ClockNumbers DEF SshTypes, Delays
  <2>3. when(k.time) \in Clocks
    BY <2>2, Pieces, WhenIs
  <2>4. /\ l \in SshTypes /\ l.alive /\ l.time = k.time /\ l.age = 0 /\ l.last = clock
        /\ l.next = when(k.time)
    BY <1>2, <2>3 DEF SshTypes
  <2> HIDE DEF l
  <2>5. l.age + k.time <= l.time
    BY <2>2, <2>4 DEF Delays
  <2>6. s \in TimerStates /\ Fits(s) /\ Grows(s, tm, c) /\ KeySet(c, l, s)
    BY <1>3, <2>2, <2>4, <2>5, Pieces, KeyScheduleSets
  <2> HIDE DEF s
  <2> QED
    BY <1>1, <2>1, <2>4, <2>6, SessionHandlerKeeps
<1> QED
  BY <1>4, <1>5

\* What is left of a time of which some is over.
LEMMA RestIs ==
  ASSUME NEW l \in Clocks, NEW c \in Clocks, NEW time \in Delays, Minus(c, l) <= time
  PROVE  /\ Minus(Minus(l, -time), c) = time - Minus(c, l)
         /\ time - Minus(c, l) \in Delays
<1> DEFINE e == Minus(l, -time)
<1>1. time \in Int /\ 0 <= time /\ time < Wrap /\ MaxDelay \in Nat /\ time <= MaxDelay
  BY ClockNumbers DEF Delays
<1>2. -time \in Int /\ -Wrap <= -time /\ -time <= Wrap /\ Wrap \in Nat
  BY <1>1, ClockNumbers
<1>3. /\ e = IF l < -time THEN l - (-time) + Wrap
             ELSE IF l - (-time) < Wrap THEN l - (-time) ELSE l - (-time) - Wrap
      /\ e \in Clocks
  BY <1>2, MinusIs
<1>4. /\ l \in Int /\ 0 <= l /\ l < Wrap /\ c \in Int /\ 0 <= c /\ c < Wrap
  BY TimesAre
<1> HIDE DEF e
<1>5. e = IF l + time < Wrap THEN l + time ELSE l + time - Wrap
  BY <1>1, <1>2, <1>3, <1>4
<1>6. /\ Minus(e, c) = IF e < c THEN e - c + Wrap ELSE e - c
      /\ Minus(c, l) = IF c < l THEN c - l + Wrap ELSE c - l
  BY <1>3, DifferenceIs
<1>7. Minus(e, c) = time - Minus(c, l) /\ 0 <= Minus(c, l) /\ Minus(c, l) \in Int
  BY <1>1, <1>2, <1>4, <1>5, <1>6
<1> QED
  BY <1>1, <1>7 DEF e, Delays

\* So does ssh_reconfig, which sets the time left, or begins at once.
LEMMA SshReconfigKeeps ==
  ASSUME IndInv, NEW c \in Sessions, sshReconfig(c)
  PROVE  IndInv'
<1>1. /\ ~running /\ changes' \in 0 .. MaxChanges
      /\ UNCHANGED <<clock, running, late, pingers>> /\ ssh[c].alive /\ ssh[c].age < Wrap
  BY ChangeCounts DEF sshReconfig
<1> DEFINE K(time) == [ssh[c] EXCEPT !.time = time]
           Rest(time) == Minus(Minus(K(time).last, -time), clock)
<1>2. PICK time \in Delays :
        IF time = 0
        THEN ssh' = [ssh EXCEPT ![c] = K(time)] /\ tm' = tm
        ELSE IF Minus(clock, K(time).last) > time
        THEN Goes(c, IF K(time).kex THEN [k |-> K(time), s |-> tm]
                     ELSE Rekey(c, K(time), tm))
        ELSE /\ ssh' = [ssh EXCEPT ![c] = [K(time) EXCEPT !.next = when(Rest(time))]]
             /\ tm' = scheduleTimer(tm, Rest(time), "ssh2_timer", c)
  BY DEF sshReconfig
<1> DEFINE k == K(time)
           rest == Rest(time)
<1>3. /\ k \in SshTypes /\ k.alive /\ k.time = time /\ k.age < Wrap
      /\ (~k.kex /\ ~k.bug => Minus(clock, k.last) = k.age)
  <2>1. k \in SshTypes /\ k.alive = ssh[c].alive /\ k.time = time /\ k.age = ssh[c].age
        /\ k.kex = ssh[c].kex /\ k.bug = ssh[c].bug /\ k.last = ssh[c].last
    BY Pieces DEF SshTypes
  <2>2. KeySet(c, ssh[c], tm)
    BY Pieces
  <2> HIDE DEF k
  <2> QED
    BY <1>1, <2>1, <2>2 DEF KeySet
<1>4. CASE time = 0
  <2>1. ssh' = [ssh EXCEPT ![c] = k] /\ tm' = tm
    BY <1>2, <1>4
  <2> HIDE DEF k
  <2>2. KeySet(c, k, tm)
    BY <1>3, <1>4 DEF KeySet
  <2> QED
    BY <1>1, <1>3, <2>1, <2>2, GrowsNot, Pieces, SessionHandlerKeeps
<1>5. CASE time # 0 /\ Minus(clock, k.last) > time
  <2>1. Goes(c, IF k.kex THEN [k |-> k, s |-> tm] ELSE Rekey(c, k, tm))
    BY <1>2, <1>5
  <2> HIDE DEF k
  <2>2. CASE k.kex
    <3>1. ssh' = [ssh EXCEPT ![c] = k] /\ tm' = tm
      BY <2>1, <2>2, GoesTo
    <3>2. KeySet(c, k, tm)
      BY <2>2 DEF KeySet
    <3> QED
      BY <1>1, <1>3, <3>1, <3>2, GrowsNot, Pieces, SessionHandlerKeeps
  <2>3. CASE ~k.kex
    <3> DEFINE x == Rekey(c, k, tm)
    <3>1. ssh' = [ssh EXCEPT ![c] = x.k] /\ tm' = x.s
      BY <2>1, <2>3, GoesTo
    <3>2. /\ x.k \in SshTypes /\ x.k.alive /\ x.s \in TimerStates /\ Fits(x.s)
          /\ Grows(x.s, tm, c) /\ KeySet(c, x.k, x.s)
      BY <1>3, <2>3, Pieces, RekeySets
    <3> HIDE DEF x
    <3> QED
      BY <1>1, <3>1, <3>2, SessionHandlerKeeps
  <2> QED
    BY <2>2, <2>3
<1>6. CASE time # 0 /\ ~(Minus(clock, k.last) > time)
  <2> DEFINE l == [k EXCEPT !.next = when(rest)]
             s == scheduleTimer(tm, rest, "ssh2_timer", c)
  <2>1. ssh' = [ssh EXCEPT ![c] = l] /\ tm' = s
    BY <1>2, <1>6
  <2>2. rest = Minus(Minus(k.last, -time), clock)
    OBVIOUS
  <2> HIDE DEF k, rest
  <2>3. k.last \in Clocks /\ clock \in Clocks
    BY <1>3, Pieces DEF SshTypes
  <2>4. Minus(clock, k.last) \in Int /\ time \in Int /\ MaxDelay > 0
    BY <1>6, <2>3, DifferenceIs, TimesAre, ClockNumbers DEF Delays
  <2>5. Minus(clock, k.last) <= time
    BY <1>6, <2>4
  <2>6. rest = time - Minus(clock, k.last) /\ rest \in Delays
    BY <2>2, <2>3, <2>5, RestIs
  <2>7. when(rest) \in Clocks
    BY <2>4, <2>6, Pieces, WhenIs
  <2>8. /\ l \in SshTypes /\ l.alive /\ l.time = time /\ l.age = k.age /\ l.last = k.last
        /\ l.next = when(rest) /\ l.kex = k.kex /\ l.bug = k.bug /\ k.age \in Int
    BY <1>3, <2>7 DEF SshTypes
  <2> HIDE DEF l
  <2>9. CASE l.kex
    <3>1. s \in TimerStates /\ Fits(s) /\ Grows(s, tm, c)
      <4>1. "ssh2_timer" \in Fns /\ c \in Contexts
        BY ContextsDiffer
      <4> QED
        BY <2>4, <2>6, <4>1, Pieces, ScheduleFits, ScheduleSets
    <3> HIDE DEF s
    <3>2. KeySet(c, l, s)
      BY <2>9 DEF KeySet
    <3> QED
      BY <1>1, <2>1, <2>8, <3>1, <3>2, SessionHandlerKeeps
  <2>10. CASE ~l.kex
    <3>1. ~l.bug => Minus(clock, l.last) = l.age
      BY <1>3, <2>8, <2>10
    <3>2. l.bug \/ l.age + rest <= l.time
      BY <2>4, <2>6, <2>8, <3>1
    <3>3. s \in TimerStates /\ Fits(s) /\ Grows(s, tm, c) /\ KeySet(c, l, s)
      BY <2>4, <2>6, <2>8, <3>1, <3>2, Pieces, KeyScheduleSets
    <3> HIDE DEF s
    <3> QED
      BY <1>1, <2>1, <2>8, <3>3, SessionHandlerKeeps
  <2> QED
    BY <2>9, <2>10
<1> QED
  BY <1>4, <1>5, <1>6

\* So does the passing of time.
LEMMA TickKeeps ==
  ASSUME IndInv, Tick
  PROVE  IndInv'
<1>1. Passes /\ UNCHANGED <<pingers, changes>> /\ running' = running
  BY DEF Tick, Passes
<1>2. TimeTypes' /\ tm' \in TimerStates /\ Fits(tm)'
  BY <1>1, Pieces, TickFits
<1>3. clock' = Minus(clock, -1)
  BY <1>1 DEF Passes
<1>4. /\ tm'.timers = tm.timers /\ tm'.contexts = tm.contexts /\ tm'.lost = tm.lost
      /\ tm'.wake.on = tm.wake.on
  BY <1>1, Pieces DEF Passes, TimerStates
<1>5. \A c, n : SetIn(tm', c, n) <=> SetIn(tm, c, n)
  BY <1>4 DEF SetIn
<1>6. ASSUME NEW c \in Sessions
      PROVE  ssh'[c] \in SshTypes /\ ssh'[c].alive = ssh[c].alive /\ KeySet(c, ssh[c], tm)'
  <2> DEFINE k == ssh[c]
             l == ssh'[c]
  <2>1. l = IF k.alive /\ ~k.bug /\ k.age < Wrap THEN [k EXCEPT !.age = @ + 1] ELSE k
    BY DEF Tick
  <2>2. k \in SshTypes /\ KeySet(c, k, tm) /\ Wrap \in Nat
    BY Pieces, ClockNumbers
  <2> HIDE DEF k, l
  <2>3. /\ l \in SshTypes /\ l.alive = k.alive /\ l.kex = k.kex /\ l.time = k.time
        /\ l.next = k.next /\ l.last = k.last /\ l.bug = k.bug
        /\ l.age = IF k.alive /\ ~k.bug /\ k.age < Wrap THEN k.age + 1 ELSE k.age
        /\ k.age \in 0 .. Wrap /\ k.last \in Clocks /\ k.time \in Int
    BY <2>1, <2>2, ClockNumbers DEF SshTypes, Delays
  <2>4. ASSUME c \notin tm.lost, l.alive, ~l.kex, l.time # 0
        PROVE  /\ SetIn(tm, c, l.next)
               /\ l.bug \/ l.age + Signed(l.next, clock') <= l.time + 1
    <3>1. /\ SetIn(tm, c, k.next)
          /\ k.bug \/ k.age + Signed(k.next, clock) <= k.time + 1
      BY <2>2, <2>3, <2>4 DEF KeySet
    <3>2. /\ k.next \in Clocks /\ Signed(k.next, clock) \in Int
          /\ Signed(k.next, clock) > -Half
      BY <3>1, Pieces, SetIsNear
    <3>3. Signed(k.next, clock') = Signed(k.next, clock) - 1
      BY <1>3, <3>2, Pieces, TickMoves
    <3>4. l.age \in {k.age, k.age + 1} /\ k.age \in Int
      BY <2>3
    <3> QED
      BY <2>3, <3>1, <3>2, <3>3, <3>4
  <2>5. ASSUME l.alive, ~l.kex, ~l.bug, l.age < Wrap
        PROVE  Minus(clock', l.last) = l.age
    <3>1. k.age < Wrap /\ l.age = k.age + 1 /\ k.age \in Int
      BY <2>2, <2>3, <2>5
    <3>2. Minus(clock, k.last) = k.age
      BY <2>2, <2>3, <2>5, <3>1 DEF KeySet
    <3>3. Minus(clock, k.last) < Wrap - 1
      BY <2>2, <2>5, <3>1, <3>2
    <3>4. Minus(clock', k.last) = Minus(clock, k.last) + 1
      BY <1>3, <2>3, <3>3, Pieces, TickMoves
    <3> QED
      BY <2>3, <3>1, <3>2, <3>4
  <2>6. KeySet(c, ssh[c], tm)'
    BY <1>4, <1>5, <2>4, <2>5 DEF KeySet, l
  <2> QED
    BY <2>3, <2>6 DEF k, l
<1>7. ssh' \in [Sessions -> SshTypes]
  <2>1. ssh' = [c \in Sessions |-> ssh'[c]]
    BY DEF Tick
  <2> QED
    BY <1>6, <2>1
<1>8. Types'
  BY <1>1, <1>2, <1>7, Pieces DEF Types
<1>9. Pinging'
  <2>1. ASSUME NEW q \in Pingers PROVE PingSet(q, pingers[q], tm')
    <3>1. PingSet(q, pingers[q], tm)
      BY Pieces
    <3> QED
      BY <1>4, <1>5, <3>1 DEF PingSet
  <2> QED
    BY <1>1, <2>1 DEF Pinging
<1>10. Rekeying'
  BY <1>6 DEF Rekeying
<1>11. Owned'
  <2>1. ASSUME NEW c \in tm.contexts \cup tm.lost PROVE Alive(c)'
    <3>1. Alive(c)
      BY Pieces
    <3> QED
      BY <1>1, <1>6, <3>1 DEF Alive
  <2> QED
    BY <1>4, <2>1 DEF Owned
<1>12. Kept'
  <2>1. Kept
    BY DEF IndInv
  <2>2. \A c \in Sessions : Waits(ssh[c]) => ssh'[c] = ssh[c]
    BY DEF Tick, Waits
  <2> QED
    BY <1>1, <1>4, <1>5, <2>1, <2>2 DEF Kept
<1> QED
  BY <1>2, <1>8, <1>9, <1>10, <1>11, <1>12 DEF IndInv

\* The front end, between the callbacks.
LEMMA FrontEndKeeps ==
  ASSUME IndInv, FrontEnd
  PROVE  IndInv'
<1>1. UNCHANGED <<pingers, ssh, changes>> /\ clock' = clock
  BY DEF FrontEnd, OnTimeout, DropExpired, RunEnds
<1>2. ASSUME TimeTypes', tm' \in TimerStates, Fits(tm)',
             tm'.contexts = tm.contexts, tm'.lost = tm.lost,
             \A c, n : SetIn(tm, c, n) => SetIn(tm', c, n), Kept'
      PROVE  IndInv'
  <2>1. Types'
    BY <1>1, <1>2, Pieces DEF Types
  <2>2. Pinging'
    <3>1. ASSUME NEW q \in Pingers PROVE PingSet(q, pingers[q], tm')
      <4>1. PingSet(q, pingers[q], tm)
        BY Pieces
      <4> QED
        BY <1>2, <4>1 DEF PingSet
    <3> QED
      BY <1>1, <3>1 DEF Pinging
  <2>3. Rekeying'
    <3>1. ASSUME NEW c \in Sessions PROVE KeySet(c, ssh[c], tm)'
      <4>1. KeySet(c, ssh[c], tm)
        BY Pieces
      <4> QED
        BY <1>1, <1>2, <4>1 DEF KeySet
    <3> QED
      BY <3>1 DEF Rekeying
  <2>4. Owned'
    <3>1. ASSUME NEW c \in tm.contexts \cup tm.lost PROVE Alive(c)'
      <4>1. Alive(c)
        BY Pieces
      <4> QED
        BY <1>1, <4>1 DEF Alive
    <3> QED
      BY <1>2, <3>1 DEF Owned
  <2> QED
    BY <1>2, <2>1, <2>2, <2>3, <2>4 DEF IndInv
<1>3. CASE OnTimeout
  <2>1. /\ TimeTypes' /\ tm' \in TimerStates /\ Fits(tm)' /\ ~tm'.wake.on
        /\ tm'.timers = tm.timers /\ tm'.contexts = tm.contexts /\ tm'.lost = tm.lost
    BY <1>3, Pieces, TimeoutFits
  <2>2. \A c, n : SetIn(tm, c, n) => SetIn(tm', c, n)
    BY <2>1 DEF SetIn
  <2>3. Kept'
    BY <2>1 DEF Kept
  <2> QED
    BY <1>2, <2>1, <2>2, <2>3
<1>4. CASE DropExpired
  <2> DEFINE s == [tm EXCEPT !.timers = Tail(@)]
  <2>1. /\ running /\ tm.timers # <<>> /\ Head(tm.timers).ctx \notin tm.contexts /\ tm' = s
        /\ UNCHANGED <<clock, running, late>>
    BY <1>4 DEF DropExpired, IsDead
  <2>2. s \in TimerStates /\ Fits(s)
    BY <2>1, Pieces, PopFits
  <2>3. s.contexts = tm.contexts /\ s.lost = tm.lost /\ s.wake = tm.wake
    BY <2>1, Pieces, PopIs
  <2>4. ASSUME NEW c, NEW n, SetIn(tm, c, n) PROVE SetIn(s, c, n)
    <3>1. c \in tm.contexts
      BY <2>4 DEF SetIn
    <3>2. ~(Head(tm.timers).ctx = c /\ Head(tm.timers).now = n)
      BY <2>1, <3>1
    <3> QED
      BY <2>1, <2>4, <3>2, Pieces, PopSets
  <2> HIDE DEF s
  <2>5. TimeTypes' /\ tm' \in TimerStates /\ Fits(tm)'
    BY <2>1, <2>2, Pieces, HandlerEnds
  <2>6. Kept'
    <3>1. Kept
      BY DEF IndInv
    <3> QED
      BY <1>1, <2>1, <2>3, <2>4, <3>1 DEF Kept
  <2> QED
    BY <1>2, <2>1, <2>3, <2>4, <2>5, <2>6
<1>5. CASE RunEnds
  <2>1. tm.wake.on => tm.timers # <<>>
    <3> SUFFICES ASSUME tm.wake.on, tm.timers = <<>> PROVE FALSE
      OBVIOUS
    <3>1. PICK p, next : SetIn(tm, p, next)
      BY <1>5 DEF IndInv, Kept, RunEnds
    <3>2. DOMAIN tm.timers = {}
      OBVIOUS
    <3> QED
      BY <3>1, <3>2 DEF SetIn
  <2>2. /\ TimeTypes' /\ tm' \in TimerStates /\ Fits(tm)'
        /\ tm'.timers = tm.timers /\ tm'.contexts = tm.contexts /\ tm'.lost = tm.lost
    BY <1>5, <2>1, Pieces, RunEndsFits
  <2>3. \A c, n : SetIn(tm, c, n) => SetIn(tm', c, n)
    BY <2>2 DEF SetIn
  <2>4. Kept'
    BY <1>5 DEF Kept, RunEnds
  <2> QED
    BY <1>2, <2>2, <2>3, <2>4
<1> QED
  BY <1>3, <1>4, <1>5 DEF FrontEnd

\* It holds at the start: no timer is set and no client is there.
LEMMA InitInv == Init => IndInv
<1> SUFFICES ASSUME Init PROVE IndInv
  OBVIOUS
<1>1. /\ clock \in Clocks /\ running = FALSE /\ late = 0 /\ changes = 0
      /\ tm = [now |-> clock, timers |-> <<>>, contexts |-> {}, wake |-> Asleep, lost |-> {}]
      /\ pingers = [p \in Pingers |-> NoPinger] /\ ssh = [c \in Sessions |-> NoSession]
  BY DEF Init, TimingInit
<1>2. /\ FALSE \in BOOLEAN /\ 0 \in Clocks /\ 0 \in Delays /\ 0 \in 0 .. Wrap /\ 0 \in 0 .. Lag
      /\ 0 \in 0 .. MaxChanges /\ MaxDelay \in Nat /\ Lag \in Nat
  BY TimesAre, ClockNumbers, ContextsAssumption DEF Delays
<1>3. TimeTypes
  BY <1>1, <1>2 DEF TimeTypes
<1>4. tm \in TimerStates
  <2>1. Asleep \in [on : BOOLEAN, left : Int]
    BY <1>2 DEF Asleep
  <2>2. <<>> \in Seq(Timers)
    OBVIOUS
  <2> QED
    BY <1>1, <2>1, <2>2 DEF TimerStates
<1>5. NoPinger \in PingerTypes /\ NoSession \in SshTypes
  BY <1>2 DEF NoPinger, NoSession, PingerTypes, SshTypes
<1>6. ~NoPinger.alive /\ ~NoPinger.pending /\ ~NoSession.alive
  BY DEF NoPinger, NoSession
<1>7. Types
  BY <1>1, <1>2, <1>3, <1>4, <1>5 DEF Types
<1>8. DOMAIN tm.timers = {} /\ tm.wake.left = 0 /\ tm.contexts = {} /\ tm.lost = {}
  BY <1>1 DEF Asleep
<1>9. Fits(tm)
  BY <1>1, <1>2, <1>8 DEF Fits, Sound, Sorted, Punctual, Wakes
<1>10. Owned /\ Kept
  BY <1>1, <1>8 DEF Owned, Kept
<1>11. Pinging
  BY <1>1, <1>6 DEF Pinging, PingSet
<1>12. Rekeying
  BY <1>1, <1>6 DEF Rekeying, KeySet
<1> QED
  BY <1>7, <1>9, <1>10, <1>11, <1>12 DEF IndInv

\* Every step keeps the invariant.
LEMMA NextKeeps == IndInv /\ [Next]_vars => IndInv'
<1> SUFFICES ASSUME IndInv, [Next]_vars PROVE IndInv'
  OBVIOUS
<1>1. CASE UNCHANGED vars
  <2>1. /\ clock' = clock /\ tm' = tm /\ running' = running /\ late' = late
        /\ pingers' = pingers /\ ssh' = ssh /\ changes' = changes
    BY <1>1 DEF vars
  <2>2. /\ Fits(tm)' /\ TimeTypes' /\ tm' \in TimerStates
        /\ \A c, k : KeySet(c, k, tm) => KeySet(c, k, tm)'
    BY <2>1, Pieces, HandlerEnds
  <2>3. Types' /\ Pinging' /\ Owned' /\ Kept'
    BY <2>1, <2>2 DEF IndInv, Types, Pinging, Owned, Kept, Alive
  <2>4. Rekeying'
    BY <2>1, <2>2, Pieces DEF Rekeying
  <2> QED
    BY <2>2, <2>3, <2>4 DEF IndInv
<1>2. CASE Tick
  BY <1>2, TickKeeps
<1>3. CASE FrontEnd
  BY <1>3, FrontEndKeeps
<1>4. ASSUME NEW p \in Pingers,
             pingerNew(p) \/ pingerReconfig(p) \/ pingerFree(p) \/ pingerTimer(p)
      PROVE  IndInv'
  BY <1>4, PingerNewKeeps, PingerReconfigKeeps, PingerFreeKeeps, PingerTimerKeeps
<1>5. ASSUME NEW c \in Sessions,
             \/ sshBegins(c) \/ sshDoClose(c) \/ BeginKex(c) \/ EndKex(c)
             \/ sshReconfig(c) \/ ssh2Timer(c)
      PROVE  IndInv'
  BY <1>5, SshBeginsKeeps, SshDoCloseKeeps, BeginKexKeeps, EndKexKeeps, SshReconfigKeeps,
     Ssh2TimerKeeps
<1> QED
  BY <1>1, <1>2, <1>3, <1>4, <1>5 DEF Next

\* The inductive invariant holds in every behaviour.
LEMMA Invariance == Spec => []IndInv
BY InitInv, NextKeeps, PTL DEF Spec

-----------------------------------------------------------------------------
(* What it means for those who use the timers.                             *)

\* The state is well typed, and the front end is never later than Lag.
THEOREM TimersTypes == Spec => []TypeOK
<1>1. IndInv => TypeOK
  <2> SUFFICES ASSUME IndInv PROVE TypeOK
    OBVIOUS
  <2>1. /\ clock \in Clocks /\ running \in BOOLEAN /\ late \in 0 .. Lag
        /\ changes \in 0 .. MaxChanges
    BY DEF IndInv, Types, TimeTypes
  <2>2. /\ tm.now \in Clocks /\ tm.timers \in Seq(Timers) /\ tm.contexts \subseteq Contexts
    BY Pieces, TreeParts
  <2>3. tm.wake \in [on : BOOLEAN, left : -Lag .. MaxDelay + 1]
    <3>1. tm.wake \in [on : BOOLEAN, left : Int]
      BY Pieces DEF TimerStates
    <3>2. tm.wake.left >= -late /\ tm.wake.left <= MaxDelay + 1
      BY DEF IndInv, Fits, Wakes
    <3>3. tm.wake.left \in -Lag .. MaxDelay + 1
      BY <2>1, <3>1, <3>2, ClockNumbers
    <3> QED
      BY <3>1, <3>3
  <2> QED
    BY <2>1, <2>2, <2>3, Pieces DEF TypeOK, PingerTypes, SshTypes
<1> QED
  BY <1>1, Invariance, PTL

\* No timer of timing.c is forgotten: the tree stays sorted under a clock that moves
\* and wraps, the front end sleeps no longer than until the first is due, and none
\* is called later than MaxLate.
THEOREM NoTimerForgotten == Spec => []NothingForgotten
<1>1. IndInv => NothingForgotten
  <2> SUFFICES ASSUME IndInv PROVE NothingForgotten
    OBVIOUS
  <2>1. \A i \in DOMAIN tm.timers : tm.timers[i] \in Timers
    BY Pieces, TreeParts
  <2>2. ASSUME NEW i \in DOMAIN tm.timers, NEW j \in DOMAIN tm.timers, i < j
        PROVE  /\ Left(tm.timers[i]) <= Left(tm.timers[j])
               /\ ~sameTimer(tm.timers[i], tm.timers[j])
    <3>1. compareTimers(tm.timers[i], tm.timers[j], clock)
      BY <2>2 DEF IndInv, Fits, Sorted
    <3> QED
      BY <2>1, <3>1, Pieces, OrderIsTotal
  <2>3. ASSUME NEW i \in DOMAIN tm.timers
        PROVE  /\ Left(tm.timers[i]) >= -MaxLate
               /\ running \/ (tm.wake.on /\ tm.wake.left <= Max1(Left(tm.timers[i])))
    <3> DEFINE t == tm.timers[i]
    <3>1. Left(t) \in Int /\ late \in Nat /\ late <= Lag /\ Lag \in Nat
      BY <2>1, Pieces, TimesOfTimer, ClockNumbers DEF TimeTypes
    <3>2. CASE running
      <4>1. Left(t) >= -(Lag + 1) - late
        BY <3>2 DEF IndInv, Fits, Punctual
      <4> HIDE DEF t
      <4>2. Left(t) >= -MaxLate
        BY <3>1, <4>1 DEF MaxLate
      <4> QED
        BY <3>2, <4>2 DEF t
    <3>3. CASE ~running
      <4>1. /\ tm.wake.on /\ tm.wake.left <= Max1(Left(t))
            /\ Left(t) >= IF tm.wake.left > 0 THEN -Lag ELSE -(Lag + 1) - late
        BY <3>3 DEF IndInv, Fits, Punctual
      <4> HIDE DEF t
      <4>2. Left(t) >= -MaxLate
        BY <3>1, <4>1 DEF MaxLate
      <4> QED
        BY <4>1, <4>2 DEF t
    <3> QED
      BY <3>2, <3>3
  <2> QED
    BY <2>2, <2>3 DEF NothingForgotten
<1> QED
  BY <1>1, Invariance, PTL

\* A connection with keepalives on has a ping to come, unless its timer was taken for
\* that of a dead one (pinger.c).
THEOREM PingsAreSet == Spec => []PingIsSet
<1>1. IndInv => PingIsSet
  BY Pieces DEF PingIsSet, PingSet, SetIn, IsSet
<1> QED
  BY <1>1, Invariance, PTL

\* Keys get no older than the time that was set, but for the lateness of timers and
\* with the same exception (ssh2_timer, ssh_reconfig), unless the server has
\* BUG_SSH2_REKEY; the timer that counts is in the tree either way.
THEOREM KeysStayFresh == Spec => []KeysAreFresh
<1>1. IndInv => KeysAreFresh
  <2> SUFFICES ASSUME IndInv, NEW c \in Sessions, c \notin tm.lost,
                      ssh[c].alive, ~ssh[c].kex, ssh[c].time # 0
               PROVE  /\ ssh[c].bug \/ ssh[c].age <= ssh[c].time + MaxLate + 1
                      /\ IsSet(c, ssh[c].next)
    BY DEF KeysAreFresh
  <2> DEFINE k == ssh[c]
  <2>1. k \in SshTypes /\ KeySet(c, k, tm)
    BY Pieces
  <2>2. k.age \in Int /\ k.time \in Int
    BY <2>1, ClockNumbers DEF SshTypes, Delays
  <2>3. SetIn(tm, c, k.next) /\ (k.bug \/ k.age + Signed(k.next, clock) <= k.time + 1)
    BY <2>1 DEF KeySet
  <2>4. Signed(k.next, clock) \in Int /\ Signed(k.next, clock) >= -MaxLate
    BY <2>3, Pieces, SetIsNear
  <2>5. MaxLate \in Int
    BY ClockNumbers DEF MaxLate
  <2> HIDE DEF k
  <2>6. k.bug \/ k.age <= k.time + MaxLate + 1
    BY <2>2, <2>3, <2>4, <2>5
  <2>7. IsSet(c, k.next)
    BY <2>3 DEF IsSet, SetIn
  <2> QED
    BY <2>6, <2>7 DEF k
<1> QED
  BY <1>1, Invariance, PTL

\* run_timers calls back only what is due, and only clients that are there.
THEOREM CallsAreDue == Spec => CallsWhenDue
<1>1. ASSUME IndInv, Calls
      PROVE  Left(Head(tm.timers)) < 0 /\ Alive(Head(tm.timers).ctx)
  <2> DEFINE h == Head(tm.timers)
  <2>1. running /\ tm.timers # <<>> /\ h.ctx \in tm.contexts /\ isDue(h, tm.now)
    BY <1>1 DEF Calls, IsDead
  <2>2. h = tm.timers[1] /\ 1 \in DOMAIN tm.timers
    BY <1>1, <2>1, Pieces, PopIs
  <2>3. Left(h) < -Age(tm) /\ Age(tm) \in Int /\ 0 <= Age(tm)
    BY <1>1, <2>1, <2>2, Pieces, DueIs
  <2>4. Left(h) \in Int
    BY <1>1, <2>2, Pieces, TreeParts, TimesOfTimer
  <2> HIDE DEF h
  <2>5. Left(h) < 0
    BY <2>3, <2>4
  <2> QED
    BY <1>1, <2>1, <2>5, Pieces DEF h
<1>2. IndInv =>
        [/\ \A p \in Pingers :
              pingerTimer(p) => Left(Head(tm.timers)) < 0 /\ pingers[p].alive
         /\ \A c \in Sessions :
              ssh2Timer(c) => Left(Head(tm.timers)) < 0 /\ ssh[c].alive]_vars
  <2> SUFFICES ASSUME IndInv
               PROVE  /\ \A p \in Pingers :
                           pingerTimer(p) => Left(Head(tm.timers)) < 0 /\ pingers[p].alive
                      /\ \A c \in Sessions :
                           ssh2Timer(c) => Left(Head(tm.timers)) < 0 /\ ssh[c].alive
    OBVIOUS
  <2>1. ASSUME NEW p \in Pingers, pingerTimer(p)
        PROVE  Left(Head(tm.timers)) < 0 /\ pingers[p].alive
    BY <1>1, <2>1, ContextsDiffer DEF pingerTimer, Alive
  <2>2. ASSUME NEW c \in Sessions, ssh2Timer(c)
        PROVE  Left(Head(tm.timers)) < 0 /\ ssh[c].alive
    BY <1>1, <2>2, ContextsDiffer DEF ssh2Timer, Alive
  <2> QED
    BY <2>1, <2>2
<1> QED
  BY <1>2, Invariance, PTL DEF CallsWhenDue
=============================================================================
