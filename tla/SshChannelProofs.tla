--------------------------- MODULE SshChannelProofs ---------------------------
(***************************************************************************)
(* What the operators that the handlers of SshChannel are built from do to  *)
(* its invariant, and that the handlers keep it; then what follows from it, *)
(* for any sizes, bounds and servers: the safety invariants that the runs   *)
(* check on small instances.                                                *)
(*                                                                         *)
(* A lemma says of one operator that it keeps Base and Others, or which     *)
(* part of them it changes, and how.                                        *)
(***************************************************************************)
EXTENDS SshChannelInvariant, WellFoundedInduction, NaturalsInduction,
        SequenceTheorems, TLAPS

-----------------------------------------------------------------------------
(* Totals.                                                                 *)

\* f holds the sums of the first 0, 1, ..., n elements of s.
IsSums(f, s, n) ==
  f = [i \in 0 .. n |-> IF i = 0 THEN 0 ELSE f[i - 1] + s[i]]

\* Induction over the natural numbers, for a set.
LEMMA Induction ==
  ASSUME NEW S, 0 \in S, \A n \in Nat : n \in S => n + 1 \in S
  PROVE  \A n \in Nat : n \in S
<1> SUFFICES ASSUME NEW n \in Nat, n \notin S PROVE FALSE
  OBVIOUS
<1> DEFINE R == {p \in Nat \X Nat : p[1] < p[2]}
           Rest == {i \in Nat : i \notin S}
<1>1. PICK m \in Rest : \A k \in Rest : <<k, m>> \notin R
  <2>1. IsWellFoundedOn(R, Nat)
    BY NatLessThanWellFounded DEF OpToRel
  <2>2. Rest \subseteq Nat /\ Rest # {}
    OBVIOUS
  <2> HIDE DEF Rest, R
  <2> QED
    BY Zenon, <2>1, <2>2, WFMin
<1>2. m \in Nat /\ m \notin S /\ m # 0
  OBVIOUS
<1>3. m - 1 \in Nat /\ (m - 1) + 1 = m
  BY <1>2
<1>4. <<m - 1, m>> \in R
  BY <1>2, <1>3
<1>5. m - 1 \in S
  BY <1>1, <1>3, <1>4
<1> QED
  BY <1>2, <1>3, <1>5

\* There is one function of sums at most, so that Total is well defined.
LEMMA SumsUnique ==
  ASSUME NEW s, NEW n \in Nat, NEW f, NEW g, IsSums(f, s, n), IsSums(g, s, n)
  PROVE  f = g
<1> DEFINE S == {i \in Nat : i \in 0 .. n => f[i] = g[i]}
<1>1. 0 \in S
  BY DEF IsSums
<1>2. \A i \in Nat : i \in S => i + 1 \in S
  <2> SUFFICES ASSUME NEW i \in Nat, i \in S, i + 1 \in 0 .. n PROVE f[i + 1] = g[i + 1]
    OBVIOUS
  <2>1. i \in 0 .. n /\ f[i] = g[i] /\ i + 1 # 0 /\ (i + 1) - 1 = i
    OBVIOUS
  <2>2. f[i + 1] = f[i] + s[i + 1]
    BY <2>1 DEF IsSums
  <2>3. g[i + 1] = g[i] + s[i + 1]
    BY <2>1 DEF IsSums
  <2> QED
    BY <2>1, <2>2, <2>3
<1> HIDE DEF S
<1>3. \A i \in Nat : i \in S
  BY <1>1, <1>2, Induction
<1>4. \A i \in 0 .. n : f[i] = g[i]
  BY <1>3 DEF S
<1> QED
  BY <1>4 DEF IsSums

\* There is one.
LEMMA SumsExist ==
  ASSUME NEW s
  PROVE  \A n \in Nat : \E f : IsSums(f, s, n)
<1> DEFINE S == {n \in Nat : \E f : IsSums(f, s, n)}
<1>1. 0 \in S
  <2> DEFINE f == [i \in 0 .. 0 |-> 0]
  <2>1. IsSums(f, s, 0)
    BY DEF IsSums
  <2> QED
    BY <2>1
<1>2. \A n \in Nat : n \in S => n + 1 \in S
  <2> SUFFICES ASSUME NEW n \in Nat, NEW f, IsSums(f, s, n)
               PROVE  \E g : IsSums(g, s, n + 1)
    OBVIOUS
  <2> DEFINE g == [i \in 0 .. n + 1 |-> IF i = n + 1 THEN f[n] + s[n + 1] ELSE f[i]]
  <2>1. \A i \in 0 .. n + 1 : g[i] = IF i = 0 THEN 0 ELSE g[i - 1] + s[i]
    BY DEF IsSums
  <2>2. g = [i \in 0 .. n + 1 |-> g[i]]
    OBVIOUS
  <2> HIDE DEF g
  <2>3. IsSums(g, s, n + 1)
    BY Zenon, <2>1, <2>2 DEF IsSums
  <2> QED
    BY <2>3
<1> HIDE DEF S
<1>3. \A n \in Nat : n \in S
  BY <1>1, <1>2, Induction
<1> QED
  BY <1>3 DEF S

\* Total is the last of the sums.
LEMMA TotalIs ==
  ASSUME NEW s, Len(s) \in Nat, NEW f, IsSums(f, s, Len(s))
  PROVE  Total(s) = f[Len(s)]
<1> DEFINE g == CHOOSE g : IsSums(g, s, Len(s))
<1>1. IsSums(g, s, Len(s))
  BY SumsExist
<1>2. Total(s) = g[Len(s)]
  BY DEF Total, IsSums
<1> QED
  BY <1>1, <1>2, SumsUnique

\* Total of the sequence s, from any function of its sums.
LEMMA TotalBy ==
  ASSUME NEW s, Len(s) \in Nat, NEW f, f[0] = 0,
         \A i \in 1 .. Len(s) : f[i] = f[i - 1] + s[i]
  PROVE  Total(s) = f[Len(s)]
<1> DEFINE g == [i \in 0 .. Len(s) |-> f[i]]
<1>1. \A i \in 0 .. Len(s) : g[i] = IF i = 0 THEN 0 ELSE g[i - 1] + s[i]
  OBVIOUS
<1>2. g = [i \in 0 .. Len(s) |-> g[i]] /\ g[Len(s)] = f[Len(s)]
  OBVIOUS
<1> HIDE DEF g
<1>3. IsSums(g, s, Len(s))
  BY Zenon, <1>1, <1>2 DEF IsSums
<1> QED
  BY <1>2, <1>3, TotalIs

\* What the induction over the numbers needs of Total.
LEMMA TotalSums ==
  ASSUME NEW s \in Seq(Int)
  PROVE  \E f \in [0 .. Len(s) -> Int] :
            /\ f[0] = 0 /\ \A i \in 1 .. Len(s) : f[i] = f[i - 1] + s[i]
            /\ Total(s) = f[Len(s)]
<1>0. Len(s) \in Nat
  OBVIOUS
<1>1. PICK f : IsSums(f, s, Len(s))
  BY Zenon, <1>0, SumsExist
<1>2. f[0] = 0 /\ \A i \in 1 .. Len(s) : f[i] = f[i - 1] + s[i]
  <2>1. \A i \in 0 .. Len(s) : f[i] = IF i = 0 THEN 0 ELSE f[i - 1] + s[i]
    BY Zenon, <1>1 DEF IsSums
  <2> QED
    BY <2>1, <1>0
<1>3. Total(s) = f[Len(s)]
  BY <1>0, <1>1, TotalIs
<1> DEFINE S == {i \in Nat : i \in 0 .. Len(s) => f[i] \in Int}
<1>4. 0 \in S
  BY <1>2
<1>5. \A i \in Nat : i \in S => i + 1 \in S
  <2> SUFFICES ASSUME NEW i \in Nat, i \in S, i + 1 \in 0 .. Len(s)
               PROVE  f[i + 1] \in Int
    OBVIOUS
  <2>1. f[i] \in Int /\ i + 1 \in 1 .. Len(s) /\ (i + 1) - 1 = i
    OBVIOUS
  <2>2. f[i + 1] = f[i] + s[i + 1]
    BY <1>2, <2>1
  <2> QED
    BY <2>1, <2>2
<1> HIDE DEF S
<1>6. \A i \in Nat : i \in S
  BY Zenon, <1>4, <1>5, Induction
<1>7. \A i \in 0 .. Len(s) : f[i] \in Int
  BY <1>6 DEF S
<1>8. f \in [0 .. Len(s) -> Int]
  BY Zenon, <1>1, <1>7 DEF IsSums
<1> QED
  BY <1>2, <1>3, <1>8

\* Nothing is in an empty queue.
LEMMA TotalEmpty == Total(<<>>) = 0
<1>1. <<>> \in Seq(Int) /\ Len(<<>>) = 0
  OBVIOUS
<1> QED
  BY Zenon, <1>1, TotalSums

\* What is put at the end of a queue adds to its total.
LEMMA TotalAppend ==
  ASSUME NEW s \in Seq(Int), NEW n \in Int
  PROVE  Total(Append(s, n)) = Total(s) + n
<1> DEFINE t == Append(s, n)
<1>1. PICK f \in [0 .. Len(s) -> Int] :
        /\ f[0] = 0 /\ \A i \in 1 .. Len(s) : f[i] = f[i - 1] + s[i]
        /\ Total(s) = f[Len(s)]
  BY TotalSums
<1> DEFINE g == [i \in 0 .. Len(s) + 1 |-> IF i = Len(s) + 1 THEN f[Len(s)] + n ELSE f[i]]
<1>2. Len(t) = Len(s) + 1 /\ t[Len(s) + 1] = n /\ \A i \in 1 .. Len(s) : t[i] = s[i]
  OBVIOUS
<1>3. g[0] = 0
  BY <1>1
<1>4. \A i \in 1 .. Len(t) : g[i] = g[i - 1] + t[i]
  BY <1>1, <1>2
<1>5. g[Len(t)] = Total(s) + n
  BY <1>1, <1>2
<1> HIDE DEF g, t
<1>6. Total(t) = g[Len(t)]
  BY <1>2, <1>3, <1>4, TotalBy
<1> QED
  BY <1>5, <1>6 DEF t

\* What is taken from the front of a queue is missing in its total.
LEMMA TotalTail ==
  ASSUME NEW s \in Seq(Int), s # <<>>
  PROVE  Total(s) = Head(s) + Total(Tail(s))
<1> DEFINE t == Tail(s)
<1>1. t \in Seq(Int) /\ Len(t) = Len(s) - 1 /\ Len(s) \in Nat \ {0}
      /\ \A i \in 1 .. Len(t) : t[i] = s[i + 1]
  OBVIOUS
<1>2. Head(s) = s[1] /\ s[1] \in Int
  BY <1>1
<1> HIDE DEF t
<1>3. PICK f \in [0 .. Len(t) -> Int] :
        /\ f[0] = 0 /\ \A i \in 1 .. Len(t) : f[i] = f[i - 1] + t[i]
        /\ Total(t) = f[Len(t)]
  BY Zenon, <1>1, TotalSums
<1> DEFINE g == [i \in 0 .. Len(s) |-> IF i = 0 THEN 0 ELSE s[1] + f[i - 1]]
<1>4. g[0] = 0 /\ g[Len(s)] = s[1] + Total(t)
  BY <1>1, <1>3
<1>5. \A i \in 1 .. Len(s) : g[i] = g[i - 1] + s[i]
  <2> SUFFICES ASSUME NEW i \in 1 .. Len(s) PROVE g[i] = g[i - 1] + s[i]
    BY Zenon
  <2>1. CASE i = 1
    BY <2>1, <1>1, <1>2, <1>3
  <2>2. CASE i # 1
    <3>1. i - 1 \in 1 .. Len(t) /\ (i - 1) - 1 \in 0 .. Len(t) /\ i - 1 # 0
      BY <2>2, <1>1
    <3>2. f[i - 1] = f[(i - 1) - 1] + t[i - 1] /\ t[i - 1] = s[i]
      <4>1. f[i - 1] = f[(i - 1) - 1] + t[i - 1]
        BY Zenon, <3>1, <1>3
      <4>2. t[i - 1] = s[(i - 1) + 1]
        BY Zenon, <3>1, <1>1
      <4>3. (i - 1) + 1 = i
        OBVIOUS
      <4> QED
        BY <4>1, <4>2, <4>3
    <3>3. s[i] \in Int /\ f[(i - 1) - 1] \in Int
      <4>1. (i - 1) - 1 \in 0 .. Len(t)
        BY <3>1
      <4>2. f[(i - 1) - 1] \in Int
        BY Zenon, <4>1, <1>3
      <4> QED
        BY <4>2
    <3> QED
      BY SMTT(60), <3>1, <3>2, <3>3, <1>2, <1>1
  <2> QED
    BY <2>1, <2>2
<1> HIDE DEF g
<1>6. Total(s) = g[Len(s)]
  BY Zenon, <1>1, <1>4, <1>5, TotalBy
<1> QED
  BY <1>2, <1>4, <1>6 DEF t

\* The total of sizes is a size, and no element is larger.
LEMMA TotalNat ==
  ASSUME NEW s \in Seq(Nat)
  PROVE  Total(s) \in Nat /\ \A i \in 1 .. Len(s) : s[i] <= Total(s)
<1>0. s \in Seq(Int)
  OBVIOUS
<1>1. PICK f \in [0 .. Len(s) -> Int] :
        /\ f[0] = 0 /\ \A i \in 1 .. Len(s) : f[i] = f[i - 1] + s[i]
        /\ Total(s) = f[Len(s)]
  BY <1>0, TotalSums
<1> DEFINE S == {i \in Nat : i \in 0 .. Len(s) =>
                   f[i] >= 0 /\ \A j \in 1 .. i : s[j] <= f[i]}
<1>2. 0 \in S
  BY <1>1
<1>3. \A i \in Nat : i \in S => i + 1 \in S
  <2> SUFFICES ASSUME NEW i \in Nat, i \in S, i + 1 \in 0 .. Len(s)
               PROVE  f[i + 1] >= 0 /\ \A j \in 1 .. i + 1 : s[j] <= f[i + 1]
    OBVIOUS
  <2>1. i + 1 \in 1 .. Len(s) /\ (i + 1) - 1 = i /\ i \in 0 .. Len(s)
    OBVIOUS
  <2>2. f[i + 1] = f[i] + s[i + 1]
    BY <2>1, <1>1
  <2>5. s[i + 1] \in Nat
    BY <2>1
  <2>6. f[i] \in Int
    BY Zenon, <2>1
  <2>3. f[i] >= 0 /\ \A j \in 1 .. i : s[j] <= f[i]
    BY <2>1
  <2>4. \A j \in 1 .. i + 1 : s[j] \in Int
    BY <2>1
  <2> QED
    BY SMTT(60), <2>2, <2>3, <2>4, <2>5, <2>6
<1> HIDE DEF S
<1>4. \A i \in Nat : i \in S
  BY <1>2, <1>3, Induction
<1>5. Len(s) \in S
  BY <1>4
<1> QED
  BY <1>1, <1>5 DEF S

-----------------------------------------------------------------------------
(* The packets under way.                                                  *)

\* What is under way of one type, counted and summed, bounds each packet of it.
LEMMA Amounts ==
  ASSUME NEW types, NEW q \in Packets(types), NEW type
  PROVE  /\ InFlight(q, type) \in Nat
         /\ \A i \in DOMAIN q : q[i].type = type => q[i].n <= InFlight(q, type)
         /\ Count(q, type) \in Nat
         /\ Count(q, type) = 0 => \A i \in DOMAIN q : q[i].type # type
<1> DEFINE s == [i \in DOMAIN q |-> IF q[i].type = type THEN q[i].n ELSE 0]
           c == [i \in DOMAIN q |-> IF q[i].type = type THEN 1 ELSE 0]
<1>1. q \in Seq([type : types, n : Nat])
  BY DEF Packets
<1>2. DOMAIN q = 1 .. Len(q) /\ Len(q) \in Nat
  BY <1>1
<1>3. \A i \in DOMAIN q : q[i].n \in Nat
  <2> SUFFICES ASSUME NEW i \in DOMAIN q PROVE q[i].n \in Nat
    OBVIOUS
  <2>1. q[i] \in [type : types, n : Nat]
    BY Zenon, <1>1, <1>2, ElementOfSeq
  <2> QED
    BY <2>1
<1>4. s \in Seq(Nat) /\ Len(s) = Len(q)
  BY <1>2, <1>3
<1>5. c \in Seq(Nat) /\ Len(c) = Len(q)
  BY <1>2
<1>6. \A i \in DOMAIN q : q[i].type = type => s[i] = q[i].n /\ c[i] = 1
  OBVIOUS
<1>7. Total(s) = InFlight(q, type) /\ Total(c) = Count(q, type)
  BY DEF InFlight, Count
<1> HIDE DEF s, c
<1>8. Total(s) \in Nat /\ \A i \in 1 .. Len(q) : s[i] <= Total(s)
  BY <1>4, TotalNat
<1>9. Total(c) \in Nat /\ \A i \in 1 .. Len(q) : c[i] <= Total(c)
  BY <1>5, TotalNat
<1> QED
  BY <1>2, <1>6, <1>7, <1>8, <1>9

\* Nothing is under way in an empty queue.
LEMMA AmountsOfNone ==
  ASSUME NEW type
  PROVE  InFlight(<<>>, type) = 0 /\ Count(<<>>, type) = 0
<1>1. [i \in DOMAIN <<>> |-> IF <<>>[i].type = type THEN <<>>[i].n ELSE 0] = <<>>
  OBVIOUS
<1>2. [i \in DOMAIN <<>> |-> IF <<>>[i].type = type THEN 1 ELSE 0] = <<>>
  OBVIOUS
<1> QED
  BY <1>1, <1>2, TotalEmpty DEF InFlight, Count

\* A packet that is sent is under way.
LEMMA AmountsAppend ==
  ASSUME NEW types, NEW q \in Packets(types), NEW p \in [type : types, n : Nat], NEW type
  PROVE  /\ Append(q, p) \in Packets(types)
         /\ InFlight(Append(q, p), type)
              = InFlight(q, type) + (IF p.type = type THEN p.n ELSE 0)
         /\ Count(Append(q, p), type)
              = Count(q, type) + (IF p.type = type THEN 1 ELSE 0)
<1> DEFINE r == Append(q, p)
           s == [i \in DOMAIN q |-> IF q[i].type = type THEN q[i].n ELSE 0]
           c == [i \in DOMAIN q |-> IF q[i].type = type THEN 1 ELSE 0]
           n == IF p.type = type THEN p.n ELSE 0
           m == IF p.type = type THEN 1 ELSE 0
<1>1. q \in Seq([type : types, n : Nat])
  BY DEF Packets
<1>2. /\ DOMAIN q = 1 .. Len(q) /\ Len(q) \in Nat
      /\ r \in Seq([type : types, n : Nat])
      /\ DOMAIN r = 1 .. Len(q) + 1 /\ Len(r) = Len(q) + 1
      /\ r[Len(q) + 1] = p /\ \A i \in 1 .. Len(q) : r[i] = q[i]
  BY <1>1
<1>3. \A i \in DOMAIN q : q[i].n \in Nat
  <2> SUFFICES ASSUME NEW i \in DOMAIN q PROVE q[i].n \in Nat
    OBVIOUS
  <2>1. q[i] \in [type : types, n : Nat]
    BY Zenon, <1>1, <1>2, ElementOfSeq
  <2> QED
    BY <2>1
<1>4. s \in Seq(Int) /\ c \in Seq(Int) /\ Len(s) = Len(q) /\ Len(c) = Len(q)
  BY <1>2, <1>3
<1>5. n \in Int /\ m \in Int
  OBVIOUS
<1>6. [i \in DOMAIN r |-> IF r[i].type = type THEN r[i].n ELSE 0] = Append(s, n)
  BY <1>2, <1>4
<1>7. [i \in DOMAIN r |-> IF r[i].type = type THEN 1 ELSE 0] = Append(c, m)
  BY <1>2, <1>4
<1>8. Total(Append(s, n)) = Total(s) + n /\ Total(Append(c, m)) = Total(c) + m
  BY <1>4, <1>5, TotalAppend
<1>9. r \in Packets(types)
  BY <1>2 DEF Packets
<1> QED
  BY Zenon, <1>6, <1>7, <1>8, <1>9 DEF InFlight, Count

\* A packet that is taken no longer is.
LEMMA AmountsTail ==
  ASSUME NEW types, NEW q \in Packets(types), q # <<>>, NEW type
  PROVE  /\ Head(q) \in [type : types, n : Nat] /\ Tail(q) \in Packets(types)
         /\ InFlight(q, type)
              = (IF Head(q).type = type THEN Head(q).n ELSE 0) + InFlight(Tail(q), type)
         /\ Count(q, type)
              = (IF Head(q).type = type THEN 1 ELSE 0) + Count(Tail(q), type)
<1> DEFINE r == Tail(q)
           s == [i \in DOMAIN q |-> IF q[i].type = type THEN q[i].n ELSE 0]
           c == [i \in DOMAIN q |-> IF q[i].type = type THEN 1 ELSE 0]
<1>1. q \in Seq([type : types, n : Nat])
  BY DEF Packets
<1>2. /\ DOMAIN q = 1 .. Len(q) /\ Len(q) \in Nat \ {0}
      /\ r \in Seq([type : types, n : Nat])
      /\ DOMAIN r = 1 .. Len(q) - 1 /\ Len(r) = Len(q) - 1
      /\ Head(q) = q[1] /\ q[1] \in [type : types, n : Nat]
      /\ \A i \in 1 .. Len(q) - 1 : r[i] = q[i + 1]
  <2>1. DOMAIN q = 1 .. Len(q) /\ Len(q) \in Nat \ {0}
    BY <1>1
  <2>2. r \in Seq([type : types, n : Nat]) /\ Len(r) = Len(q) - 1
    BY <1>1
  <2>3. Head(q) = q[1] /\ q[1] \in [type : types, n : Nat]
    <3>1. 1 \in 1 .. Len(q)
      BY <2>1
    <3>2. q[1] \in [type : types, n : Nat]
      BY Zenon, <1>1, <3>1, ElementOfSeq
    <3> QED
      BY <3>2
  <2>4. DOMAIN r = 1 .. Len(q) - 1 /\ \A i \in 1 .. Len(q) - 1 : r[i] = q[i + 1]
    BY <1>1, <2>1, <2>2
  <2> QED
    BY <2>1, <2>2, <2>3, <2>4
<1>3. \A i \in DOMAIN q : q[i].n \in Nat
  <2> SUFFICES ASSUME NEW i \in DOMAIN q PROVE q[i].n \in Nat
    OBVIOUS
  <2>1. q[i] \in [type : types, n : Nat]
    BY Zenon, <1>1, <1>2, ElementOfSeq
  <2> QED
    BY <2>1
<1>4. s \in Seq(Int) /\ c \in Seq(Int) /\ Len(s) = Len(q) /\ Len(c) = Len(q)
  BY <1>2, <1>3
<1>5. s # <<>> /\ c # <<>> /\ s[1] = Head(s) /\ c[1] = Head(c)
  BY <1>2, <1>4
<1>6. [i \in DOMAIN r |-> IF r[i].type = type THEN r[i].n ELSE 0] = Tail(s)
  BY SMTT(60), <1>2, <1>4
<1>7. [i \in DOMAIN r |-> IF r[i].type = type THEN 1 ELSE 0] = Tail(c)
  BY SMTT(60), <1>2, <1>4
<1>8. Total(s) = Head(s) + Total(Tail(s)) /\ Total(c) = Head(c) + Total(Tail(c))
  BY <1>4, <1>5, TotalTail
<1>9. s[1] = (IF Head(q).type = type THEN Head(q).n ELSE 0)
      /\ c[1] = (IF Head(q).type = type THEN 1 ELSE 0)
  BY <1>2
<1>10. r \in Packets(types)
  BY <1>2 DEF Packets
<1> QED
  BY Zenon, <1>2, <1>5, <1>6, <1>7, <1>8, <1>9, <1>10 DEF InFlight, Count

\* A queue stays in order when what is sent may follow all there is.
LEMMA OrderAppend ==
  ASSUME NEW types, NEW q \in Packets(types), NEW p, NEW R, Ordered(q, R),
         \A i \in DOMAIN q : <<q[i].type, p.type>> \in R
  PROVE  Ordered(Append(q, p), R)
<1> DEFINE r == Append(q, p)
<1>1. /\ DOMAIN q = 1 .. Len(q) /\ Len(q) \in Nat /\ DOMAIN r = 1 .. Len(q) + 1
      /\ r[Len(q) + 1] = p /\ \A i \in 1 .. Len(q) : r[i] = q[i]
  BY DEF Packets
<1> HIDE DEF r
<1>2. ASSUME NEW i \in DOMAIN r, NEW j \in DOMAIN r, i < j
      PROVE  <<r[i].type, r[j].type>> \in R
  <2>1. i \in DOMAIN q /\ r[i] = q[i]
    BY <1>1, <1>2
  <2>2. CASE j = Len(q) + 1
    BY <1>1, <2>1, <2>2
  <2>3. CASE j # Len(q) + 1
    BY <1>1, <1>2, <2>1, <2>3 DEF Ordered
  <2> QED
    BY <2>2, <2>3
<1> QED
  BY <1>2 DEF Ordered, r

\* It stays in order when its first packet is taken, and what was behind that
\* one is what may follow it.
LEMMA OrderTail ==
  ASSUME NEW types, NEW q \in Packets(types), q # <<>>, NEW R, Ordered(q, R)
  PROVE  /\ Ordered(Tail(q), R)
         /\ \A i \in DOMAIN Tail(q) : <<Head(q).type, Tail(q)[i].type>> \in R
<1> DEFINE r == Tail(q)
<1>1. /\ DOMAIN q = 1 .. Len(q) /\ Len(q) \in Nat \ {0}
      /\ DOMAIN r = 1 .. Len(q) - 1 /\ Head(q) = q[1]
      /\ \A i \in 1 .. Len(q) - 1 : r[i] = q[i + 1]
  BY DEF Packets
<1> HIDE DEF r
<1>2. ASSUME NEW i \in DOMAIN r, NEW j \in DOMAIN r, i < j
      PROVE  <<r[i].type, r[j].type>> \in R
  <2>1. i + 1 \in DOMAIN q /\ j + 1 \in DOMAIN q /\ i + 1 < j + 1
    BY <1>1, <1>2
  <2>2. <<q[i + 1].type, q[j + 1].type>> \in R
    BY <2>1 DEF Ordered
  <2> QED
    BY Zenon, <1>1, <2>2
<1>3. ASSUME NEW i \in DOMAIN r PROVE <<Head(q).type, r[i].type>> \in R
  <2>1. 1 \in DOMAIN q /\ i + 1 \in DOMAIN q /\ 1 < i + 1
    BY <1>1
  <2>2. <<q[1].type, q[i + 1].type>> \in R
    BY <2>1 DEF Ordered
  <2> QED
    BY <1>1, <2>2
<1> QED
  BY <1>2, <1>3 DEF Ordered, r

\* A queue without packets of some types stays so, whatever else is sent,
LEMMA LacksAppend ==
  ASSUME NEW types, NEW q \in Packets(types), NEW p, NEW some, Lacks(q, some), p.type \notin some
  PROVE  Lacks(Append(q, p), some)
<1>1. /\ DOMAIN q = 1 .. Len(q) /\ Len(q) \in Nat /\ DOMAIN Append(q, p) = 1 .. Len(q) + 1
      /\ Append(q, p)[Len(q) + 1] = p /\ \A i \in 1 .. Len(q) : Append(q, p)[i] = q[i]
  BY DEF Packets
<1> QED
  BY <1>1 DEF Lacks

\* and when a packet is taken.
LEMMA LacksTail ==
  ASSUME NEW types, NEW q \in Packets(types), q # <<>>, NEW some, Lacks(q, some)
  PROVE  Head(q).type \notin some /\ Lacks(Tail(q), some)
<1>1. /\ DOMAIN q = 1 .. Len(q) /\ Len(q) \in Nat \ {0}
      /\ DOMAIN Tail(q) = 1 .. Len(q) - 1 /\ Head(q) = q[1]
      /\ \A i \in 1 .. Len(q) - 1 : Tail(q)[i] = q[i + 1]
  BY DEF Packets
<1> QED
  BY <1>1 DEF Lacks

-----------------------------------------------------------------------------
(* What the handlers do to the channel, the packets and the books.         *)

\* What Send does to the queue and to the amounts in it.
LEMMA Sending ==
  ASSUME NEW w \in Works, NEW type \in UpTypes, NEW n \in Nat
  PROVE  LET v == Send(w, type, n)
         IN /\ v \in Works /\ v = [w EXCEPT !.tx = v.tx]
            /\ v.tx = Append(w.tx, Packet(type, n))
            /\ \A t : /\ InFlight(v.tx, t) = InFlight(w.tx, t) + (IF type = t THEN n ELSE 0)
                      /\ Count(v.tx, t) = Count(w.tx, t) + (IF type = t THEN 1 ELSE 0)
            /\ \A t : InFlight(w.tx, t) \in Nat /\ Count(w.tx, t) \in Nat
            /\ \A some : Lacks(w.tx, some) /\ type \notin some => Lacks(v.tx, some)
<1>1. Packet(type, n) \in [type : UpTypes, n : Nat]
  BY DEF Packet
<1>2. Packet(type, n).type = type /\ Packet(type, n).n = n
  BY DEF Packet
<1>3. w.tx \in Packets(UpTypes)
  BY DEF Works
<1> DEFINE tx == Append(w.tx, Packet(type, n))
<1>4. tx \in Packets(UpTypes)
  BY <1>1, <1>3, AmountsAppend
<1>5. \A t : /\ InFlight(tx, t) = InFlight(w.tx, t) + (IF type = t THEN n ELSE 0)
             /\ Count(tx, t) = Count(w.tx, t) + (IF type = t THEN 1 ELSE 0)
  BY <1>1, <1>2, <1>3, AmountsAppend
<1>6. \A t : InFlight(w.tx, t) \in Nat /\ Count(w.tx, t) \in Nat
  BY <1>3, Amounts
<1>7. \A some : Lacks(w.tx, some) /\ type \notin some => Lacks(tx, some)
  BY <1>2, <1>3, LacksAppend
<1> HIDE DEF tx
<1>8. Send(w, type, n) = [w EXCEPT !.tx = tx]
  BY DEF Send, tx
<1>9. [w EXCEPT !.tx = tx] \in Works /\ [w EXCEPT !.tx = tx].tx = tx
  BY <1>4 DEF Works
<1> QED
  BY <1>5, <1>6, <1>7, <1>8, <1>9 DEF tx

\* A packet that is not data may be sent before EOF, anything before CLOSE.
LEMMA OrderUpSending ==
  ASSUME NEW q \in Packets(UpTypes), NEW type \in UpTypes, NEW n,
         Ordered(q, UpOrder), Lacks(q, {"close"}),
         type \in {"data", "eof"} => Lacks(q, {"eof"})
  PROVE  Ordered(Append(q, Packet(type, n)), UpOrder)
<1>1. \A i \in DOMAIN q : <<q[i].type, type>> \in UpOrder
  <2> SUFFICES ASSUME NEW i \in DOMAIN q PROVE <<q[i].type, type>> \in UpOrder
    OBVIOUS
  <2>1. q[i].type \in UpTypes
    <3>1. i \in 1 .. Len(q)
      BY DEF Packets
    <3>2. q[i] \in [type : UpTypes, n : Nat]
      BY Zenon, <3>1, ElementOfSeq DEF Packets
    <3> QED
      BY <3>2
  <2>2. q[i].type # "close" /\ (type \in {"data", "eof"} => q[i].type # "eof")
    BY DEF Lacks
  <2> QED
    BY <2>1, <2>2 DEF UpOrder
<1>2. Packet(type, n).type = type
  BY DEF Packet
<1> QED
  BY <1>1, <1>2, OrderAppend

\* The channel winds up: CLOSE goes out.
LEMMA ClosingKeepsBase ==
  ASSUME NEW w, NEW cl, NEW sv, Base(w, cl, sv), w.chan.live, ~w.chan.halfopen,
         WindUp(w.chan)
  PROVE  LET v == [Send(w, "close", 0)
                     EXCEPT !.chan.closes = @ \cup {"SENT_EOF", "SENT_CLOSE"}]
         IN /\ Base(v, cl, sv)
            /\ v.chan = [w.chan EXCEPT !.closes = @ \cup {"SENT_EOF", "SENT_CLOSE"}]
            /\ v.sock = w.sock /\ v.pf = w.pf /\ v.ssh = w.ssh
<1> DEFINE u == Send(w, "close", 0)
           v == [u EXCEPT !.chan.closes = @ \cup {"SENT_EOF", "SENT_CLOSE"}]
<1>0. w \in Works /\ w.tx \in Packets(UpTypes)
  BY DEF Base, Works
<1>1. /\ u \in Works /\ u = [w EXCEPT !.tx = u.tx]
      /\ u.tx = Append(w.tx, Packet("close", 0))
      /\ \A t : /\ InFlight(u.tx, t) = InFlight(w.tx, t) + (IF "close" = t THEN 0 ELSE 0)
                /\ Count(u.tx, t) = Count(w.tx, t) + (IF "close" = t THEN 1 ELSE 0)
      /\ \A t : InFlight(w.tx, t) \in Nat /\ Count(w.tx, t) \in Nat
      /\ \A some : Lacks(w.tx, some) /\ "close" \notin some => Lacks(u.tx, some)
  BY Zenon, <1>0, Sending DEF UpTypes
<1>2. /\ InFlight(u.tx, "data") = InFlight(w.tx, "data")
      /\ InFlight(u.tx, "adjust") = InFlight(w.tx, "adjust")
      /\ Count(u.tx, "winadj") = Count(w.tx, "winadj")
  BY <1>1
<1>3. Ordered(w.tx, UpOrder) /\ Lacks(w.tx, {"close"}) => Ordered(u.tx, UpOrder)
  BY Zenon, <1>0, <1>1, OrderUpSending DEF UpTypes
<1> HIDE DEF u
<1>4. /\ v \in Works
      /\ v.chan = [w.chan EXCEPT !.closes = @ \cup {"SENT_EOF", "SENT_CLOSE"}]
      /\ v.sock = w.sock /\ v.pf = w.pf /\ v.ssh = w.ssh /\ v.tx = u.tx
      /\ w.chan \in Chans
  BY Zenon, <1>0, <1>1 DEF Works, Chans
<1> HIDE DEF v
<1>5. Sides(v)
  BY <1>4 DEF Base, Sides, Chans, WindUp, Forwards
<1>6. ~Late(v) => SentUp(v, sv)
  BY <1>1, <1>2, <1>3, <1>4, SMTT(30) DEF Base, SentUp, Chans, WindUp, Late
<1>7. SentDown(v, cl, sv)
  BY <1>4 DEF Base, SentDown, Chans, Late
<1>8. Opening(v, cl, sv)
  BY <1>4 DEF Base, Opening, Chans
<1>9. Books(v, cl, sv)
  BY <1>2, <1>4 DEF Base, Books, Chans, RoomOf, Late
<1>10. Gone(v, cl, sv)
  BY <1>4 DEF Base, Gone, Chans
<1> QED
  BY <1>4, <1>5, <1>6, <1>7, <1>8, <1>9, <1>10 DEF Base, u, v

\* A queue that has packets of no type is empty.
LEMMA NothingLeft ==
  ASSUME NEW types, NEW q \in Packets(types), NEW some
  PROVE  /\ Lacks(q, types) => q = <<>>
         /\ Lacks(q, types \ {some}) /\ Count(q, some) = 0 => q = <<>>
<1>1. q # <<>> => Len(q) \in Nat \ {0} /\ 1 \in DOMAIN q /\ 1 \in 1 .. Len(q)
  BY DEF Packets
<1>2. q # <<>> => q[1] \in [type : types, n : Nat]
  BY Zenon, <1>1, ElementOfSeq DEF Packets
<1>3. Count(q, some) = 0 => \A i \in DOMAIN q : q[i].type # some
  BY Amounts
<1> QED
  BY <1>1, <1>2, <1>3 DEF Lacks

\* What the closing of a channel leaves as it was.
Kept(w, v) ==
  /\ v.pf = w.pf /\ v.ssh = w.ssh
  /\ v.sock.live => w.sock.live
  /\ v.sock.frozen = w.sock.frozen /\ v.sock.output = w.sock.output
  /\ v.chan.halfopen = w.chan.halfopen /\ v.chan.type = w.chan.type
  /\ v.chan.throttling_conn = w.chan.throttling_conn
  /\ v.chan.outbuffer = w.chan.outbuffer /\ v.chan.remwindow = w.chan.remwindow
  /\ v.chan.locwindow = w.chan.locwindow /\ v.chan.locmaxwin = w.chan.locmaxwin
  /\ v.chan.chanreqs = w.chan.chanreqs
  /\ w.chan.closes \subseteq v.chan.closes
  /\ "RCVD_EOF" \in v.chan.closes => "RCVD_EOF" \in w.chan.closes
  /\ "RCVD_CLOSE" \in v.chan.closes => "RCVD_CLOSE" \in w.chan.closes
  /\ v.chan.live \/ "RCVD_CLOSE" \in w.chan.closes
  /\ v.chan.pending_eof => w.chan.pending_eof
  /\ v.sock.live /\ "SENT_EOF" \in v.chan.closes =>
       "SENT_EOF" \in w.chan.closes \/ (w.chan.pending_eof /\ w.chan.outbuffer = 0)

\* ssh_channel_destroy, when CLOSE has gone both ways.
LEMMA DestroyKeepsBase ==
  ASSUME NEW w, NEW cl, NEW sv, Base(w, cl, sv), w.chan.live, ~w.chan.halfopen,
         Done(w.chan)
  PROVE  LET v == Destroy(Asserting(w, w.chan.chanreqs = <<>>))
         IN Base(v, cl, sv) /\ Kept(w, v) /\ ~v.chan.live
            /\ v.chan.pending_eof = w.chan.pending_eof
<1> DEFINE v == Destroy(Asserting(w, w.chan.chanreqs = <<>>))
<1>0. /\ w \in Works /\ w.chan \in Chans /\ w.sock \in Socks /\ w.tx \in Packets(UpTypes)
      /\ cl \in Packets(DownTypes)
  BY DEF Base, Works
<1>1. w.chan.chanreqs = <<>> /\ {"SENT_CLOSE", "RCVD_CLOSE", "SENT_EOF", "RCVD_EOF"} \subseteq w.chan.closes
  BY DEF Base, Sides, Done
<1>2. v = IF w.chan.type = "SOCKDATA"
          THEN [w EXCEPT !.sock.live = FALSE, !.chan.live = FALSE]
          ELSE [w EXCEPT !.chan.live = FALSE]
  BY Zenon, <1>0, <1>1, FALSE \in BOOLEAN DEF Destroy, PfdClose, Asserting, Works
<1> HIDE DEF v
<1>3. /\ v \in Works /\ v.chan = [w.chan EXCEPT !.live = FALSE]
      /\ v.pf = w.pf /\ v.ssh = w.ssh /\ v.tx = w.tx
      /\ ~v.sock.live
      /\ v.sock.frozen = w.sock.frozen /\ v.sock.output = w.sock.output
      /\ v.sock.outgoingeof = w.sock.outgoingeof /\ v.sock.writable = w.sock.writable
  <2>1. w.chan.type # "SOCKDATA" => ~w.sock.live
    BY <1>0 DEF Base, Sides, Forwards, Chans
  <2>2. CASE w.chan.type = "SOCKDATA"
    <3>1. v = [w EXCEPT !.sock.live = FALSE, !.chan.live = FALSE]
      BY <1>2, <2>2
    <3> QED
      BY ZenonT(60), <1>0, <3>1 DEF Works, Chans, Socks
  <2>3. CASE w.chan.type # "SOCKDATA"
    <3>1. v = [w EXCEPT !.chan.live = FALSE]
      BY <1>2, <2>3
    <3> QED
      BY Zenon, <1>0, <2>1, <2>3, <3>1 DEF Works, Chans, Socks
  <2> QED
    BY <2>2, <2>3
<1>4. ~v.chan.live
  BY <1>0, <1>3 DEF Chans
<1>5. Sides(v)
  BY <1>0, <1>3 DEF Base, Sides, Chans, Forwards
<1>6. ~Late(v) => SentUp(v, sv)
  BY <1>0, <1>3 DEF Base, SentUp, Chans, Late
<1>7. SentDown(v, cl, sv)
  BY <1>0, <1>3 DEF Base, SentDown, Chans, Late
<1>8. Opening(v, cl, sv)
  BY <1>0, <1>3 DEF Base, Opening, Chans
<1>9. Books(v, cl, sv)
  BY <1>4 DEF Books
<1>10. sv.sentClose /\ (Late(w) => Count(w.tx, "winadj") = 0 /\ Count(cl, "reply") = 0)
  <2>1. Count(w.tx, "winadj") \in Nat /\ Count(cl, "reply") \in Nat
    BY <1>0, Amounts
  <2>2. Late(w) => 0 = Count(w.tx, "winadj") + Count(cl, "reply")
    <3>1. Len(w.chan.chanreqs) = 0
      BY <1>1
    <3> QED
      BY <3>1 DEF Base, Books
  <2>3. sv.sentClose
    BY <1>1 DEF Base, SentDown, Servers
  <2> QED
    BY <2>1, <2>2, <2>3
<1>11. cl = <<>>
  BY Zenon, <1>0, <1>1, <1>10, NothingLeft DEF Base, SentDown
<1>12. Gone(v, cl, sv)
  BY <1>3, <1>4, <1>10, <1>11 DEF Gone, Late
<1>13. Kept(w, v) /\ v.chan.pending_eof = w.chan.pending_eof
  BY <1>0, <1>1, <1>3 DEF Kept, Chans
<1>14. Base(v, cl, sv)
  BY <1>3, <1>5, <1>6, <1>7, <1>8, <1>9, <1>12 DEF Base
<1> QED
  BY <1>4, <1>13, <1>14 DEF v

\* ssh2_channel_check_close
LEMMA CheckCloseKeepsBase ==
  ASSUME NEW w, NEW cl, NEW sv, Base(w, cl, sv), w.chan.live
  PROVE  LET v == CheckClose(w)
         IN /\ Base(v, cl, sv) /\ Kept(w, v)
            /\ v.chan.pending_eof = w.chan.pending_eof
            /\ v.chan.live => ~Done(v.chan)
            /\ {"SENT_EOF", "RCVD_EOF", "RCVD_CLOSE"} \subseteq w.chan.closes
               /\ w.chan.chanreqs = <<>> => ~v.chan.live
<1> DEFINE u == [Send(w, "close", 0)
                   EXCEPT !.chan.closes = @ \cup {"SENT_EOF", "SENT_CLOSE"}]
           z == IF WindUp(w.chan) THEN u ELSE w
           d == Destroy(Asserting(z, z.chan.chanreqs = <<>>))
<1>0. w \in Works /\ w.chan \in Chans /\ w.sock \in Socks
  BY DEF Base, Works
<1>1. CASE w.chan.halfopen
  <2>1. CheckClose(w) = w
    BY <1>1 DEF CheckClose
  <2>2. w.chan.closes = {}
    BY <1>1 DEF Base, Sides, HalfOpened
  <2> QED
    BY Zenon, <1>0, <1>1, <2>1, <2>2 DEF Kept, Done
<1>2. CASE ~w.chan.halfopen
  <2>1. /\ Base(z, cl, sv) /\ z.sock = w.sock /\ z.pf = w.pf /\ z.ssh = w.ssh
        /\ z.chan.live /\ ~z.chan.halfopen /\ z.chan.chanreqs = w.chan.chanreqs
        /\ z.chan.pending_eof = w.chan.pending_eof
        /\ Kept(w, z)
        /\ {"SENT_EOF", "RCVD_EOF", "RCVD_CLOSE"} \subseteq w.chan.closes
               /\ w.chan.chanreqs = <<>> => Done(z.chan)
    <3>1. CASE WindUp(w.chan)
      <4>1. /\ Base(u, cl, sv) /\ u.sock = w.sock
            /\ u.chan = [w.chan EXCEPT !.closes = @ \cup {"SENT_EOF", "SENT_CLOSE"}]
            /\ u.pf = w.pf /\ u.ssh = w.ssh
        BY <1>2, <3>1, ClosingKeepsBase
      <4>2. z = u
        BY <3>1
      <4> HIDE DEF u, z
      <4>3. w.chan.type = "ZOMBIE" => ~w.sock.live
        BY DEF Base, Sides, Forwards
      <4> QED
        BY SMTT(60), <1>0, <1>2, <3>1, <4>1, <4>2, <4>3 DEF Kept, Chans, Done, WindUp
    <3>2. CASE ~WindUp(w.chan)
      <4>1. z = w
        BY <3>2
      <4> HIDE DEF u, z
      <4> QED
        BY <1>0, <1>2, <3>2, <4>1 DEF Kept, Chans, Done, WindUp
    <3> QED
      BY <3>1, <3>2
  <2>2. CheckClose(w) = IF Done(z.chan) THEN d ELSE z
    BY <1>2, <2>1 DEF CheckClose
  <2>3. CASE Done(z.chan)
    <3>1. Base(d, cl, sv) /\ Kept(z, d) /\ ~d.chan.live /\ d.chan.pending_eof = z.chan.pending_eof
      BY Zenon, <2>1, <2>3, DestroyKeepsBase
    <3>2. CheckClose(w) = d
      BY <2>2, <2>3
    <3> HIDE DEF u, z, d
    <3>3. "RCVD_CLOSE" \in w.chan.closes
      BY <2>1, <2>3 DEF Done, Kept
    <3>4. Kept(w, d)
      BY <2>1, <3>1, <3>3 DEF Kept
    <3> QED
      BY <2>1, <3>1, <3>2, <3>4
  <2>4. CASE ~Done(z.chan)
    <3>1. CheckClose(w) = z
      BY <2>2, <2>4
    <3> HIDE DEF u, z, d
    <3> QED
      BY <2>1, <2>4, <3>1
  <2> QED
    BY <2>3, <2>4
<1> QED
  BY <1>1, <1>2

\* EOF goes out behind the data.
LEMMA SendingEofKeepsBase ==
  ASSUME NEW w, NEW cl, NEW sv, Base(w, cl, sv), w.chan.live, ~w.chan.halfopen,
         "SENT_EOF" \notin w.chan.closes
  PROVE  LET v == [Send(w, "eof", 0)
                     EXCEPT !.chan.pending_eof = FALSE,
                            !.chan.closes = @ \cup {"SENT_EOF"}]
         IN /\ Base(v, cl, sv)
            /\ v.chan = [w.chan EXCEPT !.pending_eof = FALSE, !.closes = @ \cup {"SENT_EOF"}]
            /\ v.sock = w.sock /\ v.pf = w.pf /\ v.ssh = w.ssh
<1> DEFINE u == Send(w, "eof", 0)
           v == [u EXCEPT !.chan.pending_eof = FALSE,
                          !.chan.closes = @ \cup {"SENT_EOF"}]
<1>0. w \in Works /\ w.tx \in Packets(UpTypes) /\ w.chan \in Chans
  BY DEF Base, Works
<1>1. /\ u \in Works /\ u = [w EXCEPT !.tx = u.tx]
      /\ u.tx = Append(w.tx, Packet("eof", 0))
      /\ \A t : /\ InFlight(u.tx, t) = InFlight(w.tx, t) + (IF "eof" = t THEN 0 ELSE 0)
                /\ Count(u.tx, t) = Count(w.tx, t) + (IF "eof" = t THEN 1 ELSE 0)
      /\ \A t : InFlight(w.tx, t) \in Nat /\ Count(w.tx, t) \in Nat
      /\ \A some : Lacks(w.tx, some) /\ "eof" \notin some => Lacks(u.tx, some)
  BY Zenon, <1>0, Sending DEF UpTypes
<1>2. /\ InFlight(u.tx, "data") = InFlight(w.tx, "data")
      /\ InFlight(u.tx, "adjust") = InFlight(w.tx, "adjust")
      /\ Count(u.tx, "winadj") = Count(w.tx, "winadj")
  BY <1>1
<1>3. ASSUME Ordered(w.tx, UpOrder), Lacks(w.tx, {"close"}), Lacks(w.tx, {"eof"})
      PROVE  Ordered(u.tx, UpOrder)
  <2>1. "eof" \in UpTypes
    BY DEF UpTypes
  <2>2. Ordered(Append(w.tx, Packet("eof", 0)), UpOrder)
    BY <1>0, <1>3, <2>1, OrderUpSending
  <2> QED
    BY Zenon, <1>1, <2>2
<1> HIDE DEF u
<1>4. /\ v \in Works
      /\ v.chan = [w.chan EXCEPT !.pending_eof = FALSE, !.closes = @ \cup {"SENT_EOF"}]
      /\ v.sock = w.sock /\ v.pf = w.pf /\ v.ssh = w.ssh /\ v.tx = u.tx
  BY Zenon, <1>0, <1>1 DEF Works, Chans
<1>6. w.chan.closes \cap {"SENT_CLOSE", "RCVD_CLOSE"} = {}
  BY DEF Base, Sides
<1> HIDE DEF v
<1>7. Sides(v)
  BY <1>0, <1>4, <1>6 DEF Base, Sides, Chans, Forwards
<1>8. ~Late(v) => SentUp(v, sv)
  BY <1>0, <1>1, <1>2, <1>3, <1>4, <1>6, SMTT(30) DEF Base, SentUp, Chans, Late
<1>9. SentDown(v, cl, sv)
  BY <1>0, <1>4, <1>6 DEF Base, SentDown, Chans, Late
<1>10. Opening(v, cl, sv)
  BY <1>0, <1>4, <1>6 DEF Base, Opening, Chans
<1>11. Books(v, cl, sv)
  BY <1>0, <1>2, <1>4, <1>6 DEF Base, Books, Chans, RoomOf, Late
<1>12. Gone(v, cl, sv)
  BY <1>0, <1>4, <1>6 DEF Base, Gone, Chans
<1> QED
  BY <1>4, <1>7, <1>8, <1>9, <1>10, <1>11, <1>12 DEF Base, u, v

\* Two states of the handlers are the same when their parts are.
LEMMA SameWork ==
  ASSUME NEW a \in Works, NEW b \in Works, a.chan = b.chan, a.pf = b.pf, a.sock = b.sock,
         a.ssh = b.ssh, a.tx = b.tx, a.pipe = b.pipe, a.fault = b.fault
  PROVE  a = b
BY DEF Works

\* The note that EOF is due, made again, changes nothing.
LEMMA PendingAgain ==
  ASSUME NEW w \in Works, w.chan.pending_eof
  PROVE  [w EXCEPT !.chan.pending_eof = TRUE] = w
<1>1. w.chan \in Chans
  BY DEF Works
<1>2. w.chan.pending_eof = TRUE
  BY <1>1 DEF Chans
<1>3. [w.chan EXCEPT !.pending_eof = TRUE] = w.chan
  BY Zenon, <1>1, <1>2 DEF Chans
<1>4. [w EXCEPT !.chan = w.chan] = w
  BY DEF Works
<1> QED
  BY <1>3, <1>4

\* What ssh_channel_try_eof sends when nothing is in its way.
LEMMA TryEofSends ==
  ASSUME NEW w0 \in Works, NEW b \in BOOLEAN
  PROVE  LET w == [w0 EXCEPT !.chan.pending_eof = b]
         IN [Send(w, "eof", 0)
               EXCEPT !.chan.pending_eof = FALSE, !.chan.closes = @ \cup {"SENT_EOF"}]
            = [Send(w0, "eof", 0)
                 EXCEPT !.chan.pending_eof = FALSE, !.chan.closes = @ \cup {"SENT_EOF"}]
<1> DEFINE w == [w0 EXCEPT !.chan.pending_eof = b]
<1>1. w0.chan \in Chans
  BY DEF Works
<1>2. /\ w \in Works /\ w.chan = [w0.chan EXCEPT !.pending_eof = b] /\ w.tx = w0.tx
      /\ w.pf = w0.pf /\ w.sock = w0.sock /\ w.ssh = w0.ssh /\ w.pipe = w0.pipe
      /\ w.fault = w0.fault
  BY Zenon, <1>1 DEF Works, Chans
<1> DEFINE tx == Append(w0.tx, Packet("eof", 0))
           x == [w EXCEPT !.tx = tx, !.chan.pending_eof = FALSE,
                          !.chan.closes = @ \cup {"SENT_EOF"}]
           y == [w0 EXCEPT !.tx = tx, !.chan.pending_eof = FALSE,
                           !.chan.closes = @ \cup {"SENT_EOF"}]
<1> HIDE DEF w
<1>3. tx \in Packets({"data", "adjust", "winadj", "eof", "close"})
  BY AmountsAppend DEF Works, Packet, UpTypes
<1> HIDE DEF tx
<1>4. x \in Works
  BY Zenon, <1>1, <1>2, <1>3 DEF Works, Chans, UpTypes
<1>5. y \in Works
  BY Zenon, <1>1, <1>2, <1>3 DEF Works, Chans, UpTypes
<1>6. x.chan = y.chan
  BY ZenonT(60), <1>1, <1>2 DEF Works, Chans
<1>7. /\ x.pf = y.pf /\ x.sock = y.sock /\ x.ssh = y.ssh /\ x.tx = y.tx
      /\ x.pipe = y.pipe /\ x.fault = y.fault
  BY <1>1, <1>2 DEF Works, Chans
<1>8. x = y
  BY Zenon, <1>4, <1>5, <1>6, <1>7, SameWork
<1> QED
  BY <1>2, <1>8 DEF Send, tx, w

\* ssh_channel_try_eof up to ssh2_channel_check_close
LEMMA EofKeepsBase ==
  ASSUME NEW w, NEW cl, NEW sv, Base(w, cl, sv), w.chan.live, ~w.chan.halfopen,
         "SENT_EOF" \notin w.chan.closes, w.chan.outbuffer = 0
  PROVE  LET p == [w EXCEPT !.chan.pending_eof = TRUE]
             v == TryEof(p)
         IN /\ Base(v, cl, sv) /\ Kept(p, v)
            /\ v.chan.live /\ ~Done(v.chan) /\ ~v.chan.pending_eof
            /\ "SENT_EOF" \in v.chan.closes
<1> DEFINE p == [w EXCEPT !.chan.pending_eof = TRUE]
           u == [Send(w, "eof", 0)
                   EXCEPT !.chan.pending_eof = FALSE, !.chan.closes = @ \cup {"SENT_EOF"}]
           up == [Send(p, "eof", 0)
                   EXCEPT !.chan.pending_eof = FALSE, !.chan.closes = @ \cup {"SENT_EOF"}]
<1>0. w \in Works /\ w.chan \in Chans
  BY DEF Base, Works
<1>1. /\ Base(u, cl, sv)
      /\ u.chan = [w.chan EXCEPT !.pending_eof = FALSE, !.closes = @ \cup {"SENT_EOF"}]
      /\ u.sock = w.sock /\ u.pf = w.pf /\ u.ssh = w.ssh
  BY Zenon, SendingEofKeepsBase
<1>2. up = u
  BY Zenon, <1>0, TryEofSends
<1>3. /\ p.chan = [w.chan EXCEPT !.pending_eof = TRUE]
      /\ p.sock = w.sock /\ p.pf = w.pf /\ p.ssh = w.ssh
  BY <1>0 DEF Works, Chans
<1>4. TryEof(p) = CheckClose(up)
  <2>1. p.chan.pending_eof /\ ~(p.chan.halfopen \/ p.chan.outbuffer > 0)
    BY SMTT(60), <1>0, <1>3 DEF Chans
  <2> HIDE DEF p
  <2>2. Asserting(p, p.chan.pending_eof) = p
    BY <2>1 DEF Asserting
  <2> QED
    BY Zenon, <2>1, <2>2 DEF TryEof
<1>5. "RCVD_CLOSE" \notin w.chan.closes
  BY DEF Base, Sides
<1> HIDE DEF u, up, p
<1>6. u.chan.live /\ "RCVD_CLOSE" \notin u.chan.closes
  BY <1>0, <1>1, <1>5 DEF Chans
<1> DEFINE v == CheckClose(u)
<1>7. /\ Base(v, cl, sv) /\ Kept(u, v)
      /\ v.chan.pending_eof = u.chan.pending_eof
      /\ v.chan.live => ~Done(v.chan)
  BY Zenon, <1>1, <1>6, CheckCloseKeepsBase
<1> HIDE DEF v
<1>8. Kept(p, v)
  BY <1>0, <1>1, <1>3, <1>7 DEF Kept, Chans
<1>9. v.chan.live /\ ~v.chan.pending_eof /\ "SENT_EOF" \in v.chan.closes
  BY <1>0, <1>1, <1>6, <1>7 DEF Kept, Chans
<1> QED
  BY <1>2, <1>4, <1>7, <1>8, <1>9 DEF v, p

\* sshfwd_write_eof
LEMMA WriteEofKeepsBase ==
  ASSUME NEW w, NEW cl, NEW sv, Base(w, cl, sv), w.chan.live,
         w.chan.type # "ZOMBIE" \/ (w.chan.outbuffer = 0 /\ ~w.chan.halfopen),
         ~Done(w.chan)
  PROVE  LET v == WriteEof(w)
         IN /\ Base(v, cl, sv)
            /\ Kept([w EXCEPT !.chan.pending_eof = TRUE], v)
            /\ v.chan.live /\ ~Done(v.chan)
            /\ v.chan.pending_eof => w.chan.halfopen \/ w.chan.outbuffer > 0
            /\ w.chan.outbuffer = 0 /\ ~w.chan.halfopen => "SENT_EOF" \in v.chan.closes
<1> DEFINE p == [w EXCEPT !.chan.pending_eof = TRUE]
<1>0. w \in Works /\ w.chan \in Chans /\ w.sock \in Socks
  BY DEF Base, Works
<1>1. /\ p \in Works /\ p.chan = [w.chan EXCEPT !.pending_eof = TRUE]
      /\ p.sock = w.sock /\ p.pf = w.pf /\ p.ssh = w.ssh /\ p.tx = w.tx
      /\ p.chan \in Chans /\ p.chan.pending_eof
  BY Zenon, <1>0 DEF Works, Chans
<1>2. CASE SentEof(w.chan)
  <2>1. WriteEof(w) = w
    BY <1>2 DEF WriteEof
  <2> HIDE DEF p
  <2>2. ~w.chan.pending_eof
    BY <1>2, <1>0 DEF Base, Sides, SentEof, Chans
  <2>3. Kept(p, w)
    BY <1>0, <1>1, <1>2, <2>2 DEF Kept, Chans, SentEof
  <2> QED
    BY <1>2, <2>1, <2>2, <2>3 DEF SentEof, p
<1>3. CASE ~SentEof(w.chan)
  <2>1. WriteEof(w) = TryEof(p)
    BY <1>3 DEF WriteEof
  <2> HIDE DEF p
  <2>2. CASE w.chan.halfopen \/ w.chan.outbuffer > 0
    <3>1. TryEof(p) = p
      BY <1>0, <1>1, <2>2 DEF TryEof, Asserting, Chans
    <3>2. w.chan.type # "ZOMBIE"
      BY <1>0, <2>2 DEF Chans
    <3>3. Sides(p)
      BY <1>0, <1>1, <1>3, <3>2 DEF Base, Sides, Chans, SentEof, Forwards, HalfOpened
    <3>4. ~Late(p) => SentUp(p, sv)
      BY <1>0, <1>1 DEF Base, SentUp, Chans, Late
    <3>5. SentDown(p, cl, sv) /\ Opening(p, cl, sv)
      BY <1>0, <1>1 DEF Base, SentDown, Opening, Chans, Late
    <3>6. Books(p, cl, sv) /\ Gone(p, cl, sv)
      BY <1>0, <1>1 DEF Base, Books, Gone, Chans, RoomOf, Late
    <3>7. Kept(p, p) /\ p.chan.live /\ ~Done(p.chan)
      BY <1>0, <1>1, <1>3 DEF Kept, Chans, Done, SentEof
    <3>8. Base(p, cl, sv)
      BY <1>1, <3>3, <3>4, <3>5, <3>6 DEF Base
    <3>9. WriteEof(w) = p
      BY <2>1, <3>1
    <3> QED
      BY <1>0, <2>2, <3>7, <3>8, <3>9 DEF p, Chans
  <2>3. CASE ~w.chan.halfopen /\ ~(w.chan.outbuffer > 0)
    <3>1. w.chan.outbuffer = 0 /\ "SENT_EOF" \notin w.chan.closes
      BY <1>0, <1>3, <2>3 DEF Chans, SentEof
    <3>2. LET v == TryEof(p)
          IN /\ Base(v, cl, sv) /\ Kept(p, v)
             /\ v.chan.live /\ ~Done(v.chan) /\ ~v.chan.pending_eof
             /\ "SENT_EOF" \in v.chan.closes
      BY <2>3, <3>1, EofKeepsBase DEF p
    <3> QED
      BY <2>1, <3>2 DEF p
  <2> QED
    BY <2>2, <2>3
<1> QED
  BY <1>2, <1>3

\* sshfwd_unclean_close
LEMMA UncleanCloseKeepsBase ==
  ASSUME NEW w, NEW cl, NEW sv, Base(w, cl, sv), w.chan.live
  PROVE  LET v == UncleanClose(w)
         IN /\ Base(v, cl, sv) /\ ~v.sock.live
            /\ v.pf = w.pf /\ v.ssh = w.ssh
            /\ v.chan.live => ~Done(v.chan)
            /\ "RCVD_CLOSE" \in v.chan.closes => "RCVD_CLOSE" \in w.chan.closes
            /\ v.chan.outbuffer = w.chan.outbuffer /\ v.chan.remwindow = w.chan.remwindow
            /\ v.chan.halfopen = w.chan.halfopen /\ ~v.chan.pending_eof
            /\ w.chan.closes \subseteq v.chan.closes
            /\ v.chan.throttling_conn = w.chan.throttling_conn
<1> DEFINE x == IF Forwards(w.chan) THEN PfdClose(w) ELSE w
           u == [x EXCEPT !.chan.type = "ZOMBIE", !.chan.pending_eof = FALSE]
<1>0. w \in Works /\ w.chan \in Chans /\ w.sock \in Socks
  BY DEF Base, Works
<1>1. UncleanClose(w) = CheckClose(u)
  BY DEF UncleanClose
<1>2. /\ x \in Works /\ ~x.sock.live /\ x.chan = w.chan
      /\ x.pf = w.pf /\ x.ssh = w.ssh /\ x.tx = w.tx
      /\ x.sock.output = w.sock.output /\ x.sock.outgoingeof = w.sock.outgoingeof
      /\ x.sock.writable = w.sock.writable
  <2>1. CASE Forwards(w.chan)
    <3>1. x = [w EXCEPT !.sock.live = FALSE]
      BY <2>1 DEF PfdClose
    <3> HIDE DEF x
    <3> QED
      BY Zenon, <1>0, <3>1 DEF Works, Socks
  <2>2. CASE ~Forwards(w.chan)
    <3>1. x = w /\ ~w.sock.live
      BY <2>2 DEF Base, Sides
    <3> HIDE DEF x
    <3> QED
      BY <1>0, <3>1
  <2> QED
    BY <2>1, <2>2
<1> HIDE DEF x
<1>3. /\ u \in Works /\ u.chan = [w.chan EXCEPT !.type = "ZOMBIE", !.pending_eof = FALSE]
      /\ u.sock = x.sock /\ u.pf = w.pf /\ u.ssh = w.ssh /\ u.tx = w.tx
  BY Zenon, <1>0, <1>2 DEF Works, Chans
<1> HIDE DEF u
<1>4. Sides(u)
  BY <1>0, <1>2, <1>3 DEF Base, Sides, Chans, Forwards, HalfOpened
<1>5. ~Late(u) => SentUp(u, sv)
  BY <1>0, <1>3 DEF Base, SentUp, Chans, Late
<1>6. SentDown(u, cl, sv) /\ Opening(u, cl, sv)
  BY <1>0, <1>3 DEF Base, SentDown, Opening, Chans, Late
<1>7. Books(u, cl, sv) /\ Gone(u, cl, sv)
  BY <1>0, <1>3 DEF Base, Books, Gone, Chans, RoomOf, Late
<1>8. Base(u, cl, sv) /\ u.chan.live
  BY <1>0, <1>3, <1>4, <1>5, <1>6, <1>7 DEF Base, Chans
<1> DEFINE v == CheckClose(u)
<1>9. /\ Base(v, cl, sv) /\ Kept(u, v)
      /\ v.chan.pending_eof = u.chan.pending_eof
      /\ v.chan.live => ~Done(v.chan)
  BY <1>8, CheckCloseKeepsBase
<1> HIDE DEF v
<1>10. ~v.sock.live /\ ~v.chan.pending_eof
  BY <1>0, <1>2, <1>3, <1>9 DEF Kept, Chans
<1>11. /\ v.pf = w.pf /\ v.ssh = w.ssh
       /\ "RCVD_CLOSE" \in v.chan.closes => "RCVD_CLOSE" \in w.chan.closes
       /\ v.chan.outbuffer = w.chan.outbuffer /\ v.chan.remwindow = w.chan.remwindow
       /\ v.chan.halfopen = w.chan.halfopen
       /\ w.chan.closes \subseteq v.chan.closes
       /\ v.chan.throttling_conn = w.chan.throttling_conn
  BY <1>0, <1>3, <1>9 DEF Kept, Chans
<1> QED
  BY <1>1, <1>9, <1>10, <1>11 DEF v

\* TrySend takes n units from the outbuffer, and from the window.
LEMMA SendingDataKeepsBase ==
  ASSUME NEW w, NEW cl, NEW sv, Base(w, cl, sv), w.chan.live, ~w.chan.halfopen,
         "SENT_EOF" \notin w.chan.closes \/ Late(w)
  PROVE  LET n == Smaller(w.chan.remwindow, w.chan.outbuffer)
             s == [w EXCEPT !.chan.outbuffer = @ - n, !.chan.remwindow = @ - n]
             v == IF n > 0 THEN Send(s, "data", n) ELSE s
         IN /\ Base(v, cl, sv) /\ n \in Nat
            /\ v.chan = [w.chan EXCEPT !.outbuffer = @ - n, !.remwindow = @ - n]
            /\ v.sock = w.sock /\ v.pf = w.pf /\ v.ssh = w.ssh
            /\ v.chan.outbuffer > 0 => v.chan.remwindow = 0
<1> DEFINE n == Smaller(w.chan.remwindow, w.chan.outbuffer)
           s == [w EXCEPT !.chan.outbuffer = @ - n, !.chan.remwindow = @ - n]
           u == Send(s, "data", n)
           v == IF n > 0 THEN u ELSE s
<1>0. w \in Works /\ w.chan \in Chans /\ w.chan.outbuffer \in Nat /\ w.chan.remwindow \in Nat
  BY DEF Base, Works, Chans
<1>1. /\ n \in Nat /\ w.chan.outbuffer - n \in Nat /\ w.chan.remwindow - n \in Nat
      /\ w.chan.outbuffer - n > 0 => w.chan.remwindow - n = 0
  BY <1>0 DEF Smaller
<1> HIDE DEF n
<1>2. /\ s \in Works /\ s.chan = [w.chan EXCEPT !.outbuffer = @ - n, !.remwindow = @ - n]
      /\ s.sock = w.sock /\ s.pf = w.pf /\ s.ssh = w.ssh /\ s.tx = w.tx
  BY Zenon, <1>0, <1>1 DEF Works, Chans
<1> HIDE DEF s
<1>3. /\ u \in Works /\ u = [s EXCEPT !.tx = u.tx]
      /\ u.tx = Append(s.tx, Packet("data", n))
      /\ \A t : /\ InFlight(u.tx, t) = InFlight(s.tx, t) + (IF "data" = t THEN n ELSE 0)
                /\ Count(u.tx, t) = Count(s.tx, t) + (IF "data" = t THEN 1 ELSE 0)
      /\ \A t : InFlight(s.tx, t) \in Nat /\ Count(s.tx, t) \in Nat
      /\ \A some : Lacks(s.tx, some) /\ "data" \notin some => Lacks(u.tx, some)
  <2>1. "data" \in UpTypes
    BY DEF UpTypes
  <2> QED
    BY Zenon, <1>1, <1>2, <2>1, Sending
<1> HIDE DEF u
<1>4. /\ v \in Works /\ v.chan = [w.chan EXCEPT !.outbuffer = @ - n, !.remwindow = @ - n]
      /\ v.sock = w.sock /\ v.pf = w.pf /\ v.ssh = w.ssh
      /\ v.tx = IF n > 0 THEN u.tx ELSE w.tx
  BY Zenon, <1>2, <1>3 DEF Works
<1>5. /\ InFlight(v.tx, "data") = InFlight(w.tx, "data") + n
      /\ InFlight(v.tx, "adjust") = InFlight(w.tx, "adjust")
      /\ Count(v.tx, "winadj") = Count(w.tx, "winadj")
      /\ InFlight(w.tx, "data") \in Nat
  <2>3. /\ InFlight(u.tx, "data") = InFlight(w.tx, "data") + n
        /\ InFlight(u.tx, "adjust") = InFlight(w.tx, "adjust") + 0
        /\ Count(u.tx, "winadj") = Count(w.tx, "winadj") + 0
        /\ InFlight(w.tx, "data") \in Nat /\ InFlight(w.tx, "adjust") \in Nat
        /\ Count(w.tx, "winadj") \in Nat
    BY Zenon, <1>2, <1>3
  <2>1. CASE n > 0
    <3>1. v.tx = u.tx
      BY <1>4, <2>1
    <3> HIDE DEF v
    <3> QED
      BY <2>3, <3>1
  <2>2. CASE ~(n > 0)
    <3>1. v.tx = w.tx /\ n = 0
      BY <1>1, <1>4, <2>2
    <3> HIDE DEF v
    <3> QED
      BY <2>3, <3>1
  <2> QED
    BY <2>1, <2>2
<1> HIDE DEF v
<1>6. Sides(v)
  BY <1>0, <1>1, <1>4 DEF Base, Sides, Chans, Forwards
<1>7. InFlight(cl, "adjust") \in Nat
  BY Amounts DEF Base
<1>8. ASSUME ~Late(v) PROVE SentUp(v, sv)
  <2>1. ~Late(w) /\ "SENT_EOF" \notin w.chan.closes /\ "SENT_CLOSE" \notin w.chan.closes
    BY <1>4, <1>8 DEF Late, Base, Sides
  <2>2. SentUp(w, sv) /\ Lacks(w.tx, {"eof"}) /\ Lacks(w.tx, {"close"}) /\ ~sv.gotEof /\ ~sv.gotClose
    BY <2>1 DEF Base, SentUp
  <2>3. InFlight(v.tx, "data") <= sv.room
    <3>1. sv.room = w.chan.remwindow + InFlight(cl, "adjust") + InFlight(w.tx, "data")
      BY <2>1 DEF Base, Books, RoomOf
    <3> QED
      BY <1>0, <1>1, <1>5, <1>7, <3>1
  <2>4. Lacks(v.tx, {"eof"}) /\ Lacks(v.tx, {"close"}) /\ Ordered(v.tx, UpOrder)
    <3>1. Ordered(w.tx, UpOrder) /\ w.tx \in Packets(UpTypes)
      BY <2>2, <1>0 DEF SentUp, Works
    <3>2. "data" \in UpTypes
      BY DEF UpTypes
    <3>3. Ordered(Append(w.tx, Packet("data", n)), UpOrder)
      BY <2>2, <3>1, <3>2, OrderUpSending
    <3> QED
      BY <1>2, <1>3, <1>4, <2>2, <3>1, <3>3
  <2> QED
    BY <1>0, <1>4, <2>1, <2>2, <2>3, <2>4 DEF SentUp, Chans
<1>9. SentDown(v, cl, sv)
  BY <1>0, <1>4 DEF Base, SentDown, Chans, Late
<1>10. Opening(v, cl, sv)
  BY <1>0, <1>4 DEF Base, Opening, Chans
<1>11. Books(v, cl, sv)
  <2>1. /\ v.chan.live = w.chan.live /\ v.chan.locwindow = w.chan.locwindow
        /\ v.chan.closes = w.chan.closes /\ v.chan.chanreqs = w.chan.chanreqs
        /\ v.chan.halfopen = w.chan.halfopen /\ v.chan.remwindow = w.chan.remwindow - n
        /\ Late(v) = Late(w)
    BY Zenon, <1>0, <1>4 DEF Chans, Late
  <2>2. "SENT_EOF" \notin v.chan.closes =>
          sv.room = RoomOf(v.chan) + InFlight(cl, "adjust") + InFlight(v.tx, "data")
    <3>1. w.chan.live => ("SENT_EOF" \notin w.chan.closes =>
          sv.room = w.chan.remwindow + InFlight(cl, "adjust") + InFlight(w.tx, "data"))
      BY DEF Base, Books, RoomOf
    <3>2. RoomOf(v.chan) = w.chan.remwindow - n
      BY <2>1 DEF RoomOf
    <3> QED
      BY <1>0, <1>1, <1>5, <1>7, <2>1, <3>1, <3>2
  <2> QED
    BY <1>5, <2>1, <2>2 DEF Base, Books
<1>12. Gone(v, cl, sv)
  BY <1>0, <1>4 DEF Base, Gone, Chans
<1>13. v.chan.outbuffer > 0 => v.chan.remwindow = 0
  BY <1>0, <1>1, <1>4 DEF Chans
<1> QED
  BY Zenon, <1>1, <1>4, <1>6, <1>8, <1>9, <1>10, <1>11, <1>12, <1>13 DEF Base, v, u, s, n

\* What the sending of data leaves as it was.
Written(w, v) ==
  /\ v.pf = w.pf /\ v.ssh = w.ssh
  /\ v.sock.live => w.sock.live
  /\ v.sock.frozen = w.sock.frozen /\ v.sock.output = w.sock.output
  /\ v.chan.halfopen = w.chan.halfopen /\ v.chan.type = w.chan.type
  /\ v.chan.throttling_conn = w.chan.throttling_conn
  /\ v.chan.locwindow = w.chan.locwindow /\ v.chan.locmaxwin = w.chan.locmaxwin
  /\ w.chan.closes \subseteq v.chan.closes
  /\ "RCVD_CLOSE" \in v.chan.closes => "RCVD_CLOSE" \in w.chan.closes
  /\ v.chan.live /\ ~Done(v.chan)
  /\ v.chan.outbuffer > 0 => v.chan.remwindow = 0
  /\ v.chan.pending_eof => w.chan.pending_eof /\ v.chan.outbuffer > 0
  /\ "SENT_EOF" \in v.chan.closes =>
       "SENT_EOF" \in w.chan.closes \/ (w.chan.pending_eof /\ v.chan.outbuffer = 0)

\* ssh2_try_send
LEMMA TrySendKeepsBase ==
  ASSUME NEW w, NEW cl, NEW sv, Base(w, cl, sv), w.chan.live, ~w.chan.halfopen,
         "SENT_EOF" \notin w.chan.closes \/ Late(w), ~Done(w.chan)
  PROVE  LET v == TrySend(w)
         IN Base(v, cl, sv) /\ Written(w, v)
<1> DEFINE n == Smaller(w.chan.remwindow, w.chan.outbuffer)
           s == [w EXCEPT !.chan.outbuffer = @ - n, !.chan.remwindow = @ - n]
           u == IF n > 0 THEN Send(s, "data", n) ELSE s
           p == [u EXCEPT !.chan.pending_eof = TRUE]
<1>0. w \in Works /\ w.chan \in Chans
  BY DEF Base, Works
<1>1. /\ Base(u, cl, sv) /\ n \in Nat
      /\ u.chan = [w.chan EXCEPT !.outbuffer = @ - n, !.remwindow = @ - n]
      /\ u.sock = w.sock /\ u.pf = w.pf /\ u.ssh = w.ssh
      /\ u.chan.outbuffer > 0 => u.chan.remwindow = 0
  BY Zenon, SendingDataKeepsBase
<1>2. TrySend(w) = IF u.chan.outbuffer = 0 /\ u.chan.pending_eof THEN TryEof(u) ELSE u
  BY DEF TrySend
<1> HIDE DEF n, s, u
<1>3. /\ u.chan.live /\ ~u.chan.halfopen /\ u.chan.closes = w.chan.closes
      /\ u.chan.pending_eof = w.chan.pending_eof /\ u.chan.type = w.chan.type
      /\ u.chan.halfopen = w.chan.halfopen
      /\ u.chan.throttling_conn = w.chan.throttling_conn
      /\ u.chan.locwindow = w.chan.locwindow /\ u.chan.locmaxwin = w.chan.locmaxwin
      /\ u.chan \in Chans /\ u \in Works
  BY Zenon, <1>0, <1>1 DEF Chans, Base, Works
<1>4. CASE u.chan.outbuffer = 0 /\ u.chan.pending_eof
  <2>1. "SENT_EOF" \notin u.chan.closes
    BY <1>1, <1>4 DEF Base, Sides
  <2>2. p = u
    BY <1>3, <1>4, PendingAgain
  <2>3. LET v == TryEof(p)
        IN /\ Base(v, cl, sv) /\ Kept(p, v)
           /\ v.chan.live /\ ~Done(v.chan) /\ ~v.chan.pending_eof
           /\ "SENT_EOF" \in v.chan.closes
    BY Zenon, <1>1, <1>3, <1>4, <2>1, EofKeepsBase
  <2> DEFINE v == TryEof(u)
  <2>4. /\ Base(v, cl, sv) /\ Kept(u, v)
        /\ v.chan.live /\ ~Done(v.chan) /\ ~v.chan.pending_eof
        /\ "SENT_EOF" \in v.chan.closes
    BY Zenon, <2>2, <2>3
  <2>5. TrySend(w) = v
    BY <1>2, <1>4
  <2> HIDE DEF v
  <2>6. v.chan.outbuffer = 0
    BY <1>4, <2>4 DEF Kept
  <2>7. Written(w, v)
    BY <1>1, <1>3, <1>4, <2>4, <2>6 DEF Kept, Written
  <2> QED
    BY <2>4, <2>5, <2>7
<1>5. CASE ~(u.chan.outbuffer = 0 /\ u.chan.pending_eof)
  <2>1. TrySend(w) = u
    BY <1>2, <1>5
  <2>2. u.chan.outbuffer \in Nat
    BY <1>3 DEF Chans
  <2>3. ~Done(u.chan)
    BY <1>3 DEF Done
  <2> QED
    <3>1. u.chan.pending_eof => u.chan.outbuffer > 0
      BY <1>5, <2>2
    <3>2. Written(w, u)
      BY <1>1, <1>3, <2>3, <3>1 DEF Written
    <3> QED
      BY <1>1, <2>1, <3>2
<1> QED
  BY <1>4, <1>5

\* sshfwd_write
LEMMA WriteKeepsBase ==
  ASSUME NEW w, NEW cl, NEW sv, Base(w, cl, sv), w.chan.live, ~w.chan.halfopen,
         "SENT_EOF" \notin w.chan.closes \/ Late(w), ~Done(w.chan), NEW n \in Nat
  PROVE  LET v == Write(w, n)
         IN Base(v, cl, sv) /\ Written(w, v)
<1> DEFINE u == [w EXCEPT !.chan.outbuffer = @ + n]
<1>0. w \in Works /\ w.chan \in Chans
  BY DEF Base, Works
<1>1. /\ u \in Works /\ u.chan = [w.chan EXCEPT !.outbuffer = @ + n]
      /\ u.sock = w.sock /\ u.pf = w.pf /\ u.ssh = w.ssh /\ u.tx = w.tx
  <2>1. w.chan.outbuffer + n \in Nat
    BY <1>0 DEF Chans
  <2> QED
    BY Zenon, <1>0, <2>1 DEF Works, Chans
<1> HIDE DEF u
<1>2. Base(u, cl, sv)
  <2>1. Sides(u)
    BY <1>0, <1>1 DEF Base, Sides, Chans, Forwards
  <2>2. ~Late(u) => SentUp(u, sv)
    BY <1>0, <1>1 DEF Base, SentUp, Chans, Late
  <2>3. SentDown(u, cl, sv) /\ Opening(u, cl, sv)
    BY <1>0, <1>1 DEF Base, SentDown, Opening, Chans, Late
  <2>4. Books(u, cl, sv) /\ Gone(u, cl, sv)
    BY <1>0, <1>1 DEF Base, Books, Gone, Chans, RoomOf, Late
  <2> QED
    BY <1>1, <2>1, <2>2, <2>3, <2>4 DEF Base
<1>3. /\ u.chan.live /\ ~u.chan.halfopen /\ u.chan.closes = w.chan.closes
      /\ u.chan.halfopen = w.chan.halfopen /\ u.chan.type = w.chan.type
      /\ u.chan.throttling_conn = w.chan.throttling_conn
      /\ u.chan.locwindow = w.chan.locwindow /\ u.chan.locmaxwin = w.chan.locmaxwin
      /\ u.chan.pending_eof = w.chan.pending_eof
  BY <1>0, <1>1 DEF Chans
<1>4. ("SENT_EOF" \notin u.chan.closes \/ Late(u)) /\ ~Done(u.chan)
  BY <1>1, <1>3 DEF Late, Done
<1> DEFINE v == TrySend(u)
<1>5. Base(v, cl, sv) /\ Written(u, v)
  BY <1>2, <1>3, <1>4, TrySendKeepsBase
<1>6. Write(w, n) = v
  BY DEF Write, u
<1> HIDE DEF v
<1> QED
  BY <1>1, <1>3, <1>5, <1>6 DEF Written

-----------------------------------------------------------------------------
(* The socket.                                                             *)

\* The assumptions on the constants, one by one.
LEMMA Sizes ==
  /\ WinSize \in Nat \ {0} /\ MaxWin \in Nat \ {0} /\ RemWindow \in Nat \ {0}
  /\ PipeSize \in Nat \ {0} /\ MaxChunk \in Nat \ {0}
  /\ MaxUp \in Nat /\ MaxDown \in Nat /\ MaxUnits \in Nat /\ MaxEarly \in Nat /\ Excess \in Nat
BY SizeAssumption

\* A step of the socket, of the PortForwarding or of the connection.
LEMMA SocketStepKeepsBase ==
  ASSUME NEW w, NEW v, NEW cl, NEW sv, Base(w, cl, sv), v \in Works,
         v.chan = w.chan, v.tx = w.tx, v.sock.live = w.sock.live,
         v.ssh.remote_bugs = w.ssh.remote_bugs, v.ssh.open = w.ssh.open,
         v.ssh.conn_throttle_count = w.ssh.conn_throttle_count,
         v.sock.live /\ v.sock.outgoingeof # "NO" => "RCVD_EOF" \in w.chan.closes,
         w.chan.halfopen => HalfOpened(v)
  PROVE  Base(v, cl, sv)
<1>1. Sides(v)
  BY DEF Base, Sides, Forwards
<1>2. ~Late(v) => SentUp(v, sv)
  BY DEF Base, SentUp, Late
<1>3. SentDown(v, cl, sv) /\ Opening(v, cl, sv)
  BY DEF Base, SentDown, Opening, Late
<1>4. Books(v, cl, sv) /\ Gone(v, cl, sv)
  BY DEF Base, Books, Gone, Late
<1> QED
  BY <1>1, <1>2, <1>3, <1>4 DEF Base

\* try_send of the local socket
LEMMA TrySendSocketKeeps ==
  ASSUME NEW w \in Works
  PROVE  LET v == TrySendSocket(w)
         IN /\ v \in Works /\ v.chan = w.chan /\ v.pf = w.pf /\ v.ssh = w.ssh /\ v.tx = w.tx
            /\ v.sock.live = w.sock.live /\ v.sock.frozen = w.sock.frozen
            /\ v.sock.output <= w.sock.output
            /\ v.sock.outgoingeof = "NO" <=> w.sock.outgoingeof = "NO"
            /\ w.sock.output = 0 /\ w.sock.writable => v.sock.writable
<1> DEFINE s == w.sock
           n == Smaller(s.output, PipeSize - w.pipe.data)
           shuts == Shuts(s, n)
           writable == s.writable /\ s.output = n
           shut == w.pipe.shut \/ shuts
           a == [w EXCEPT !.sock.pending_error = TRUE]
           b == [w EXCEPT !.sock.output = @ - n,
                          !.pipe.data = @ + n,
                          !.pipe.shut = @ \/ shuts,
                          !.sock.writable = @ /\ s.output = n,
                          !.sock.outgoingeof = IF shuts THEN "SENT" ELSE @]
           v == TrySendSocket(w)
<1>0. /\ w.sock \in Socks /\ w.pipe \in Pipes /\ w.sock.output \in Nat
      /\ w.pipe.data \in 0 .. PipeSize /\ w.pipe.shut \in BOOLEAN
      /\ w.sock.writable \in BOOLEAN
      /\ w.sock.outgoingeof \in {"NO", "PENDING", "SENT"}
  BY DEF Works, Socks, Pipes
<1>1. v = IF s.output > 0 /\ app.reset THEN a ELSE b
  BY DEF TrySendSocket
<1>2. /\ n \in Nat /\ s.output - n \in Nat /\ w.pipe.data + n \in 0 .. PipeSize
      /\ s.output = 0 => n = 0
  BY <1>0, Sizes DEF Smaller
<1>3. CASE v = a
  <2>1. /\ a \in Works /\ a.chan = w.chan /\ a.pf = w.pf /\ a.ssh = w.ssh /\ a.tx = w.tx
        /\ a.sock = [w.sock EXCEPT !.pending_error = TRUE]
    BY Zenon, <1>0 DEF Works, Socks
  <2> HIDE DEF a, v
  <2>2. /\ v.sock.live = s.live /\ v.sock.frozen = s.frozen
        /\ v.sock.output = s.output /\ v.sock.writable = s.writable
        /\ v.sock.outgoingeof = s.outgoingeof /\ s.output <= s.output
    BY <1>0, <1>3, <2>1 DEF Socks
  <2> QED
    BY <1>3, <2>1, <2>2 DEF v
<1>4. CASE v = b
  <2>1. shuts => s.outgoingeof = "PENDING"
    BY DEF Shuts
  <2>2. writable \in BOOLEAN /\ shut \in BOOLEAN
    OBVIOUS
  <2>3. w.sock.output = 0 /\ w.sock.writable => writable
    BY <1>2
  <2> DEFINE oe == IF shuts THEN "SENT" ELSE s.outgoingeof
  <2>4. oe \in {"NO", "PENDING", "SENT"} /\ (oe = "NO" <=> s.outgoingeof = "NO")
    BY <1>0, <2>1
  <2>5. b = [w EXCEPT !.sock = [s EXCEPT !.output = s.output - n, !.writable = writable,
                                         !.outgoingeof = oe],
                      !.pipe = [w.pipe EXCEPT !.data = @ + n, !.shut = shut]]
    BY ZenonT(60), <1>0 DEF Works, Socks, Pipes
  <2> HIDE DEF n, shuts, writable, shut, oe, b, v
  <2>6. v.sock = [s EXCEPT !.output = s.output - n, !.writable = writable,
                           !.outgoingeof = oe]
        /\ v.pipe = [w.pipe EXCEPT !.data = @ + n, !.shut = shut]
        /\ v.chan = w.chan /\ v.pf = w.pf /\ v.ssh = w.ssh /\ v.tx = w.tx /\ v.fault = w.fault
    BY <1>4, <2>5 DEF Works
  <2>7. v.sock \in Socks /\ v.pipe \in Pipes
    BY Zenon, <1>0, <1>2, <2>2, <2>4, <2>6 DEF Socks, Pipes
  <2>8. v \in Works
    BY Zenon, <1>4, <2>5, <2>6, <2>7 DEF Works
  <2>9. /\ v.sock.live = s.live /\ v.sock.frozen = s.frozen
        /\ v.sock.output = s.output - n /\ v.sock.writable = writable
        /\ v.sock.outgoingeof = oe
    BY <1>0, <2>6 DEF Socks
  <2>10. v.sock.output <= w.sock.output
    BY <1>0, <1>2, <2>9
  <2>11. v.sock.outgoingeof = "NO" <=> w.sock.outgoingeof = "NO"
    BY <2>4, <2>9
  <2>12. w.sock.output = 0 /\ w.sock.writable => v.sock.writable
    BY <2>3, <2>9
  <2> QED
    BY <2>6, <2>8, <2>9, <2>10, <2>11, <2>12 DEF v
<1> QED
  BY <1>1, <1>3, <1>4

\* ... when the socket is writable
LEMMA IfWritableKeeps ==
  ASSUME NEW w \in Works
  PROVE  LET v == IfWritable(w)
         IN /\ v \in Works /\ v.chan = w.chan /\ v.pf = w.pf /\ v.ssh = w.ssh /\ v.tx = w.tx
            /\ v.sock.live = w.sock.live /\ v.sock.frozen = w.sock.frozen
            /\ v.sock.output <= w.sock.output
            /\ v.sock.outgoingeof = "NO" <=> w.sock.outgoingeof = "NO"
            /\ w.sock.output = 0 /\ w.sock.writable => v.sock.writable
<1>1. CASE w.sock.writable
  BY <1>1, TrySendSocketKeeps DEF IfWritable
<1>2. CASE ~w.sock.writable
  <2>1. w.sock.output \in Nat
    BY DEF Works, Socks
  <2> QED
    BY <1>2, <2>1 DEF IfWritable
<1> QED
  BY <1>1, <1>2

\* sk_tcp_write
LEMMA SkWriteKeepsBase ==
  ASSUME NEW w, NEW cl, NEW sv, Base(w, cl, sv), w.sock.live, ~w.chan.halfopen,
         "RCVD_EOF" \notin w.chan.closes, NEW n \in Nat
  PROVE  LET v == SkWrite(w, n)
         IN /\ Base(v, cl, sv) /\ v.chan = w.chan /\ v.pf = w.pf /\ v.ssh = w.ssh
            /\ v.sock.live /\ v.sock.frozen = w.sock.frozen
            /\ v.sock.output <= w.sock.output + n
<1> DEFINE u == [w EXCEPT !.sock.output = @ + n]
           v == IfWritable(u)
<1>0. w \in Works /\ w.sock \in Socks /\ w.sock.output + n \in Nat
  BY DEF Base, Works, Socks
<1>1. w.sock.outgoingeof = "NO"
  BY DEF Base, Sides
<1>2. SkWrite(w, n) = v
  BY <1>1 DEF SkWrite, Asserting
<1>3. u \in Works /\ u.chan = w.chan /\ u.pf = w.pf /\ u.ssh = w.ssh /\ u.tx = w.tx
      /\ u.sock = [w.sock EXCEPT !.output = @ + n]
  BY <1>0 DEF Works, Socks
<1> HIDE DEF u
<1>4. /\ v \in Works /\ v.chan = u.chan /\ v.pf = u.pf /\ v.ssh = u.ssh /\ v.tx = u.tx
      /\ v.sock.live = u.sock.live /\ v.sock.frozen = u.sock.frozen
      /\ v.sock.output <= u.sock.output
      /\ v.sock.outgoingeof = "NO" <=> u.sock.outgoingeof = "NO"
  BY Zenon, <1>3, IfWritableKeeps
<1> HIDE DEF v
<1>5. /\ v.sock.live = w.sock.live /\ v.sock.frozen = w.sock.frozen
      /\ v.sock.output <= w.sock.output + n
      /\ v.sock.outgoingeof = "NO"
  BY Zenon, <1>0, <1>1, <1>3, <1>4 DEF Socks
<1>6. Base(v, cl, sv)
  BY <1>3, <1>4, <1>5, SocketStepKeepsBase
<1> QED
  BY <1>2, <1>3, <1>4, <1>5, <1>6 DEF v

\* sk_tcp_write_eof, for an EOF that has come from the server
LEMMA SkWriteEofKeepsBase ==
  ASSUME NEW w, NEW cl, NEW sv, Base(w, cl, sv), w.sock.live, ~w.chan.halfopen,
         w.sock.outgoingeof = "NO", "RCVD_EOF" \in w.chan.closes
  PROVE  LET v == SkWriteEof(w)
         IN /\ Base(v, cl, sv) /\ v.chan = w.chan /\ v.pf = w.pf /\ v.ssh = w.ssh
            /\ v.sock.live /\ v.sock.frozen = w.sock.frozen
            /\ v.sock.output <= w.sock.output
<1> DEFINE u == [w EXCEPT !.sock.outgoingeof = "PENDING"]
           v == IfWritable(u)
<1>0. w \in Works /\ w.sock \in Socks /\ w.sock.output \in Nat
  BY DEF Base, Works, Socks
<1>2. SkWriteEof(w) = v
  BY DEF SkWriteEof, Asserting
<1>3. u \in Works /\ u.chan = w.chan /\ u.pf = w.pf /\ u.ssh = w.ssh /\ u.tx = w.tx
      /\ u.sock = [w.sock EXCEPT !.outgoingeof = "PENDING"]
  BY <1>0 DEF Works, Socks
<1> HIDE DEF u
<1>4. /\ v \in Works /\ v.chan = u.chan /\ v.pf = u.pf /\ v.ssh = u.ssh /\ v.tx = u.tx
      /\ v.sock.live = u.sock.live /\ v.sock.frozen = u.sock.frozen
      /\ v.sock.output <= u.sock.output
  BY Zenon, <1>3, IfWritableKeeps
<1> HIDE DEF v
<1>5. /\ v.sock.live = w.sock.live /\ v.sock.frozen = w.sock.frozen
      /\ v.sock.output <= w.sock.output
  BY Zenon, <1>0, <1>3, <1>4 DEF Socks
<1>6. Base(v, cl, sv)
  BY <1>3, <1>4, <1>5, SocketStepKeepsBase
<1> QED
  BY <1>2, <1>3, <1>4, <1>5, <1>6 DEF v

-----------------------------------------------------------------------------
(* The window that PuTTY grants.                                           *)

\* A request for an answer goes out, and is put on the list.
LEMMA AskingKeepsBase ==
  ASSUME NEW w, NEW cl, NEW sv, Base(w, cl, sv), w.chan.live, ~w.chan.halfopen,
         "SENT_CLOSE" \notin w.chan.closes, NEW more \in Nat
  PROVE  LET v == [Send(w, "winadj", 0)
                     EXCEPT !.chan.chanreqs = Append(@, more),
                            !.chan.throttle_state =
                              IF @ = "UNTHROTTLED" THEN @ ELSE "UNTHROTTLING"]
         IN /\ Base(v, cl, sv)
            /\ v.chan = [w.chan EXCEPT !.chanreqs = v.chan.chanreqs,
                                       !.throttle_state = v.chan.throttle_state]
            /\ v.sock = w.sock /\ v.pf = w.pf /\ v.ssh = w.ssh
<1> DEFINE u == Send(w, "winadj", 0)
           reqs == Append(w.chan.chanreqs, more)
           state == IF w.chan.throttle_state = "UNTHROTTLED"
                    THEN w.chan.throttle_state ELSE "UNTHROTTLING"
           v == [u EXCEPT !.chan.chanreqs = Append(@, more),
                          !.chan.throttle_state =
                            IF @ = "UNTHROTTLED" THEN @ ELSE "UNTHROTTLING"]
<1>0. w \in Works /\ w.tx \in Packets(UpTypes) /\ w.chan \in Chans
  BY DEF Base, Works
<1>1. /\ u \in Works /\ u = [w EXCEPT !.tx = u.tx]
      /\ u.tx = Append(w.tx, Packet("winadj", 0))
      /\ \A t : /\ InFlight(u.tx, t) = InFlight(w.tx, t) + (IF "winadj" = t THEN 0 ELSE 0)
                /\ Count(u.tx, t) = Count(w.tx, t) + (IF "winadj" = t THEN 1 ELSE 0)
      /\ \A t : InFlight(w.tx, t) \in Nat /\ Count(w.tx, t) \in Nat
      /\ \A some : Lacks(w.tx, some) /\ "winadj" \notin some => Lacks(u.tx, some)
  BY Zenon, <1>0, Sending DEF UpTypes
<1>2. /\ InFlight(u.tx, "data") = InFlight(w.tx, "data")
      /\ InFlight(u.tx, "adjust") = InFlight(w.tx, "adjust")
      /\ Count(u.tx, "winadj") = Count(w.tx, "winadj") + 1
      /\ Count(w.tx, "winadj") \in Nat
  BY <1>1
<1>3. ASSUME Ordered(w.tx, UpOrder), Lacks(w.tx, {"close"})
      PROVE  Ordered(u.tx, UpOrder)
  <2>1. "winadj" \in UpTypes
    BY DEF UpTypes
  <2>2. Ordered(Append(w.tx, Packet("winadj", 0)), UpOrder)
    BY <1>0, <1>3, <2>1, OrderUpSending
  <2> QED
    BY Zenon, <1>1, <2>2
<1>4. /\ reqs \in Seq(Nat) /\ Len(reqs) = Len(w.chan.chanreqs) + 1
      /\ Len(w.chan.chanreqs) \in Nat
      /\ state \in {"UNTHROTTLED", "THROTTLED", "UNTHROTTLING"}
  BY <1>0 DEF Chans
<1>5. v = [u EXCEPT !.chan = [w.chan EXCEPT !.chanreqs = reqs, !.throttle_state = state]]
  BY Zenon, <1>0, <1>1 DEF Works, Chans
<1> HIDE DEF u, reqs, state
<1>6. [w.chan EXCEPT !.chanreqs = reqs, !.throttle_state = state] \in Chans
  BY Zenon, <1>0, <1>4 DEF Chans
<1> HIDE DEF v
<1>7. /\ v \in Works /\ v.chan = [w.chan EXCEPT !.chanreqs = reqs, !.throttle_state = state]
      /\ v.sock = w.sock /\ v.pf = w.pf /\ v.ssh = w.ssh /\ v.tx = u.tx
  BY <1>0, <1>1, <1>5, <1>6 DEF Works
<1>8. Sides(v)
  BY <1>0, <1>7 DEF Base, Sides, Chans, Forwards
<1>9. ~Late(v) => SentUp(v, sv)
  <2> SUFFICES ASSUME ~Late(v) PROVE SentUp(v, sv)
    OBVIOUS
  <2>1. SentUp(w, sv)
    BY <1>7 DEF Base, Late
  <2>2. Lacks(w.tx, {"close"}) /\ ~sv.gotClose /\ Ordered(w.tx, UpOrder)
    BY <2>1 DEF SentUp
  <2>3. /\ Lacks(w.tx, {"eof"}) => Lacks(v.tx, {"eof"})
        /\ Lacks(w.tx, {"data", "eof"}) => Lacks(v.tx, {"data", "eof"})
        /\ Lacks(v.tx, {"close"}) /\ Ordered(v.tx, UpOrder)
    BY <1>1, <1>3, <1>7, <2>2
  <2> QED
    BY <1>0, <1>2, <1>7, <2>1, <2>2, <2>3 DEF SentUp, Chans
<1>10. SentDown(v, cl, sv) /\ Opening(v, cl, sv)
  BY <1>0, <1>7 DEF Base, SentDown, Opening, Chans, Late
<1>11. Count(cl, "reply") \in Nat
  BY Amounts DEF Base
<1>12. Books(v, cl, sv)
  <2>1. /\ v.chan.chanreqs = reqs /\ v.chan.live = w.chan.live
        /\ v.chan.locwindow = w.chan.locwindow /\ v.chan.closes = w.chan.closes
        /\ RoomOf(v.chan) = RoomOf(w.chan)
    BY Zenon, <1>0, <1>7 DEF Chans, RoomOf
  <2>2. Books(w, cl, sv)
    BY DEF Base
  <2>3. Len(reqs) >= Count(cl, "reply")
    BY <1>4, <1>11, <2>2 DEF Books
  <2>4. Late(w) \/ ~sv.sentClose =>
          Len(reqs) = Count(v.tx, "winadj") + Count(cl, "reply")
    <3> SUFFICES ASSUME Late(w) \/ ~sv.sentClose
                 PROVE  Len(reqs) = Count(v.tx, "winadj") + Count(cl, "reply")
      OBVIOUS
    <3>1. Len(w.chan.chanreqs) = Count(w.tx, "winadj") + Count(cl, "reply")
      BY <2>2 DEF Books
    <3>2. Count(v.tx, "winadj") = Count(w.tx, "winadj") + 1
      BY <1>2, <1>7
    <3> QED
      BY <1>2, <1>4, <1>11, <3>1, <3>2
  <2> QED
    BY <1>2, <1>7, <2>1, <2>2, <2>3, <2>4 DEF Books, Late
<1>13. Gone(v, cl, sv)
  BY <1>0, <1>7 DEF Base, Gone, Chans
<1>14. v.chan = [w.chan EXCEPT !.chanreqs = v.chan.chanreqs,
                              !.throttle_state = v.chan.throttle_state]
  BY <1>0, <1>7 DEF Chans
<1> QED
  BY <1>7, <1>8, <1>9, <1>10, <1>12, <1>13, <1>14 DEF Base, v, u

\* The window grows by what the adjustment says.
LEMMA AdjustingKeepsBase ==
  ASSUME NEW w, NEW cl, NEW sv, Base(w, cl, sv), w.chan.live, ~w.chan.halfopen,
         "SENT_CLOSE" \notin w.chan.closes, NEW newwin \in Nat,
         w.chan.locwindow <= newwin
  PROVE  LET v == [Send(w, "adjust", newwin - w.chan.locwindow)
                     EXCEPT !.chan.locwindow = newwin]
         IN /\ Base(v, cl, sv)
            /\ v.chan = [w.chan EXCEPT !.locwindow = newwin]
            /\ v.sock = w.sock /\ v.pf = w.pf /\ v.ssh = w.ssh
<1> DEFINE more == newwin - w.chan.locwindow
           u == Send(w, "adjust", more)
           v == [u EXCEPT !.chan.locwindow = newwin]
<1>0. /\ w \in Works /\ w.tx \in Packets(UpTypes) /\ w.chan \in Chans
      /\ w.chan.locwindow \in Int /\ more \in Nat
  BY DEF Base, Works, Chans
<1> HIDE DEF more
<1>1. /\ u \in Works /\ u = [w EXCEPT !.tx = u.tx]
      /\ u.tx = Append(w.tx, Packet("adjust", more))
      /\ \A t : /\ InFlight(u.tx, t) = InFlight(w.tx, t) + (IF "adjust" = t THEN more ELSE 0)
                /\ Count(u.tx, t) = Count(w.tx, t) + (IF "adjust" = t THEN 1 ELSE 0)
      /\ \A t : InFlight(w.tx, t) \in Nat /\ Count(w.tx, t) \in Nat
      /\ \A some : Lacks(w.tx, some) /\ "adjust" \notin some => Lacks(u.tx, some)
  <2>1. "adjust" \in UpTypes
    BY DEF UpTypes
  <2> QED
    BY Zenon, <1>0, <2>1, Sending
<1>2. /\ InFlight(u.tx, "data") = InFlight(w.tx, "data")
      /\ InFlight(u.tx, "adjust") = InFlight(w.tx, "adjust") + more
      /\ Count(u.tx, "winadj") = Count(w.tx, "winadj")
      /\ InFlight(w.tx, "adjust") \in Nat
  BY <1>1
<1>3. ASSUME Ordered(w.tx, UpOrder), Lacks(w.tx, {"close"})
      PROVE  Ordered(u.tx, UpOrder)
  <2>1. "adjust" \in UpTypes
    BY DEF UpTypes
  <2>2. Ordered(Append(w.tx, Packet("adjust", more)), UpOrder)
    BY <1>0, <1>3, <2>1, OrderUpSending
  <2> QED
    BY Zenon, <1>1, <2>2
<1> HIDE DEF u
<1>4. /\ v \in Works /\ v.chan = [w.chan EXCEPT !.locwindow = newwin]
      /\ v.sock = w.sock /\ v.pf = w.pf /\ v.ssh = w.ssh /\ v.tx = u.tx
  <2>1. newwin \in Int
    OBVIOUS
  <2>2. u \in Works /\ u.chan = w.chan /\ u.sock = w.sock /\ u.pf = w.pf /\ u.ssh = w.ssh
    BY <1>0, <1>1 DEF Works
  <2> QED
    BY Zenon, <1>0, <2>1, <2>2 DEF Works, Chans
<1> HIDE DEF v
<1>5. Sides(v)
  BY <1>0, <1>4 DEF Base, Sides, Chans, Forwards
<1>6. ~Late(v) => SentUp(v, sv)
  <2> SUFFICES ASSUME ~Late(v) PROVE SentUp(v, sv)
    OBVIOUS
  <2>1. SentUp(w, sv)
    BY <1>4 DEF Base, Late
  <2>2. Lacks(w.tx, {"close"}) /\ ~sv.gotClose /\ Ordered(w.tx, UpOrder)
    BY <2>1 DEF SentUp
  <2>3. /\ Lacks(w.tx, {"eof"}) => Lacks(v.tx, {"eof"})
        /\ Lacks(w.tx, {"data", "eof"}) => Lacks(v.tx, {"data", "eof"})
        /\ Lacks(v.tx, {"close"}) /\ Ordered(v.tx, UpOrder)
    BY <1>1, <1>3, <1>4, <2>2
  <2> QED
    BY <1>0, <1>2, <1>4, <2>1, <2>2, <2>3 DEF SentUp, Chans
<1>7. SentDown(v, cl, sv) /\ Opening(v, cl, sv)
  BY <1>0, <1>4 DEF Base, SentDown, Opening, Chans, Late
<1>8. Books(v, cl, sv)
  <2>1. InFlight(cl, "data") \in Nat /\ sv.win \in Int
    BY Amounts DEF Base, Servers
  <2>2. newwin = sv.win + InFlight(v.tx, "adjust") + InFlight(cl, "data")
    <3>1. w.chan.locwindow = sv.win + InFlight(w.tx, "adjust") + InFlight(cl, "data")
      BY DEF Base, Books
    <3> QED
      BY <1>0, <1>2, <1>4, <2>1, <3>1 DEF more
  <2> QED
    BY <1>0, <1>2, <1>4, <2>2 DEF Base, Books, Chans, RoomOf, Late
<1>9. Gone(v, cl, sv)
  BY <1>0, <1>4 DEF Base, Gone, Chans
<1> QED
  BY <1>4, <1>5, <1>6, <1>7, <1>8, <1>9 DEF Base, v, u, more

\* A change of the channel that nothing above depends on.
LEMMA ChanStepKeepsBase ==
  ASSUME NEW w, NEW v, NEW cl, NEW sv, Base(w, cl, sv), v \in Works,
         v.chan = [w.chan EXCEPT !.remlocwin = v.chan.remlocwin,
                                 !.throttle_state = v.chan.throttle_state,
                                 !.locmaxwin = v.chan.locmaxwin],
         v.tx = w.tx, v.sock = w.sock, v.pf = w.pf, v.ssh = w.ssh
  PROVE  Base(v, cl, sv)
<1>0. /\ w \in Works /\ w.chan \in Chans /\ v.chan \in Chans
  BY DEF Base, Works
<1>1. /\ v.chan.live = w.chan.live /\ v.chan.halfopen = w.chan.halfopen
      /\ v.chan.type = w.chan.type /\ v.chan.closes = w.chan.closes
      /\ v.chan.pending_eof = w.chan.pending_eof
      /\ v.chan.throttling_conn = w.chan.throttling_conn
      /\ v.chan.outbuffer = w.chan.outbuffer /\ v.chan.remwindow = w.chan.remwindow
      /\ v.chan.locwindow = w.chan.locwindow /\ v.chan.chanreqs = w.chan.chanreqs
  BY Zenon, <1>0 DEF Chans
<1>2. Sides(v)
  BY <1>1 DEF Base, Sides, Forwards, HalfOpened
<1>3. ~Late(v) => SentUp(v, sv)
  BY <1>1 DEF Base, SentUp, Late
<1>4. SentDown(v, cl, sv) /\ Opening(v, cl, sv)
  BY <1>1 DEF Base, SentDown, Opening, Late
<1>5. Books(v, cl, sv) /\ Gone(v, cl, sv)
  BY <1>1 DEF Base, Books, Gone, RoomOf, Late
<1> QED
  BY <1>2, <1>3, <1>4, <1>5 DEF Base

\* What the setting of the window changes.
Windowed(w, v, wanted) ==
  /\ v.sock = w.sock /\ v.pf = w.pf /\ v.ssh = w.ssh
  /\ v.chan.live = w.chan.live /\ v.chan.halfopen = w.chan.halfopen
  /\ v.chan.type = w.chan.type /\ v.chan.closes = w.chan.closes
  /\ v.chan.pending_eof = w.chan.pending_eof
  /\ v.chan.throttling_conn = w.chan.throttling_conn
  /\ v.chan.outbuffer = w.chan.outbuffer /\ v.chan.remwindow = w.chan.remwindow
  /\ v.chan.locmaxwin = w.chan.locmaxwin
  /\ \/ v.chan.locwindow = w.chan.locwindow
     \/ /\ v.chan.locwindow \in 0 .. wanted
        /\ w.chan.locwindow <= v.chan.locwindow \div 2

\* ssh2_set_window
LEMMA SetWindowKeepsBase ==
  ASSUME NEW w, NEW cl, NEW sv, Base(w, cl, sv), w.chan.live, ~w.chan.halfopen,
         NEW wanted \in Nat
  PROVE  LET v == SetWindow(w, wanted)
         IN Base(v, cl, sv) /\ Windowed(w, v, wanted)
<1> DEFINE c == w.chan
           newwin == IF Has("BUG_SSH2_MAXPKT") THEN Smaller(wanted, WinSize) ELSE wanted
           asks == newwin = c.locmaxwin /\ ~Has("BUG_CHOKES_ON_WINADJ")
           more == newwin - c.locwindow
           holds == c.closes \cap {"SENT_CLOSE", "RCVD_CLOSE"} = {}
           a == [Send(w, "winadj", 0)
                   EXCEPT !.chan.chanreqs = Append(@, more),
                          !.chan.throttle_state =
                            IF @ = "UNTHROTTLED" THEN @ ELSE "UNTHROTTLING"]
           b == [w EXCEPT !.chan.remlocwin = newwin,
                          !.chan.throttle_state = "THROTTLED"]
           z == IF asks THEN a ELSE b
           stays == \/ {"RCVD_EOF", "SENT_CLOSE"} \cap c.closes # {}
                    \/ newwin \div 2 < c.locwindow
           v == [Send(z, "adjust", more) EXCEPT !.chan.locwindow = newwin]
<1>0. w \in Works /\ w.chan \in Chans /\ w.chan.locwindow \in Int
  BY DEF Base, Works, Chans
<1>1. newwin \in Nat /\ newwin <= wanted
  BY Sizes DEF Smaller
<1>2. CASE stays
  <2>1. SetWindow(w, wanted) = w
    BY Zenon, <1>2 DEF SetWindow
  <2> QED
    BY Zenon, <2>1 DEF Windowed
<1>3. CASE ~stays
  <2>1. /\ "RCVD_EOF" \notin c.closes /\ "SENT_CLOSE" \notin c.closes
        /\ ~(newwin \div 2 < c.locwindow)
    BY <1>3
  <2>2. holds
    BY <2>1 DEF Base, Sides
  <2>3. SetWindow(w, wanted) = v
    BY <1>3, <2>2 DEF SetWindow, Asserting
  <2> HIDE DEF newwin
  <2>4. newwin \div 2 \in Nat /\ newwin \div 2 <= newwin
    BY <1>1
  <2>5. c.locwindow <= newwin \div 2 /\ c.locwindow <= newwin /\ more \in Nat
    BY <1>0, <1>1, <2>1, <2>4
  <2>6. /\ Base(z, cl, sv)
        /\ z.chan = [w.chan EXCEPT !.chanreqs = z.chan.chanreqs,
                                   !.remlocwin = z.chan.remlocwin,
                                   !.throttle_state = z.chan.throttle_state]
        /\ z.sock = w.sock /\ z.pf = w.pf /\ z.ssh = w.ssh
    <3>1. CASE asks
      <4>1. /\ Base(a, cl, sv)
            /\ a.chan = [w.chan EXCEPT !.chanreqs = a.chan.chanreqs,
                                       !.throttle_state = a.chan.throttle_state]
            /\ a.sock = w.sock /\ a.pf = w.pf /\ a.ssh = w.ssh
        BY Zenon, <2>1, <2>5, AskingKeepsBase
      <4>2. z = a
        BY <3>1
      <4> HIDE DEF a, z
      <4> QED
        BY Zenon, <1>0, <4>1, <4>2 DEF Chans
    <3>2. CASE ~asks
      <4>1. z = b
        BY <3>2
      <4>2. /\ b \in Works /\ b.chan = [w.chan EXCEPT !.remlocwin = newwin,
                                                     !.throttle_state = "THROTTLED"]
            /\ b.sock = w.sock /\ b.pf = w.pf /\ b.ssh = w.ssh /\ b.tx = w.tx
        <5>1. newwin \in Int
          BY <1>1
        <5> QED
          BY Zenon, <1>0, <5>1 DEF Works, Chans
      <4> HIDE DEF b, z
      <4>3. b.chan = [w.chan EXCEPT !.remlocwin = b.chan.remlocwin,
                                    !.throttle_state = b.chan.throttle_state,
                                    !.locmaxwin = b.chan.locmaxwin]
        BY Zenon, <1>0, <4>2 DEF Chans
      <4>4. Base(b, cl, sv)
        BY Zenon, <4>2, <4>3, ChanStepKeepsBase
      <4> QED
        BY Zenon, <1>0, <4>1, <4>2, <4>4 DEF Chans
    <3> QED
      BY <3>1, <3>2
  <2> HIDE DEF z
  <2>7. /\ z.chan.live /\ ~z.chan.halfopen /\ z.chan.closes = w.chan.closes
        /\ z.chan.locwindow = w.chan.locwindow
        /\ z.chan.halfopen = w.chan.halfopen /\ z.chan.live = w.chan.live
        /\ z.chan.type = w.chan.type /\ z.chan.pending_eof = w.chan.pending_eof
        /\ z.chan.throttling_conn = w.chan.throttling_conn
        /\ z.chan.outbuffer = w.chan.outbuffer /\ z.chan.remwindow = w.chan.remwindow
        /\ z.chan.locmaxwin = w.chan.locmaxwin
        /\ z.chan \in Chans
    BY ZenonT(60), <1>0, <2>6 DEF Chans, Base, Works
  <2>8. /\ Base(v, cl, sv) /\ v.chan = [z.chan EXCEPT !.locwindow = newwin]
        /\ v.sock = z.sock /\ v.pf = z.pf /\ v.ssh = z.ssh
    <3>1. v = [Send(z, "adjust", newwin - z.chan.locwindow) EXCEPT !.chan.locwindow = newwin]
      BY <2>7
    <3>2. "SENT_CLOSE" \notin z.chan.closes /\ z.chan.locwindow <= newwin
      BY <2>1, <2>5, <2>7
    <3> HIDE DEF v
    <3> QED
      BY <1>1, <2>6, <2>7, <3>1, <3>2, AdjustingKeepsBase
  <2> HIDE DEF v
  <2>9. Windowed(w, v, wanted)
    <3>1. v.chan.locwindow = newwin
      BY <2>7, <2>8 DEF Chans
    <3>2. /\ v.chan.locwindow \in 0 .. wanted
          /\ w.chan.locwindow <= v.chan.locwindow \div 2
      BY <1>0, <1>1, <2>5, <3>1
    <3>3. /\ v.chan.live = z.chan.live /\ v.chan.halfopen = z.chan.halfopen
          /\ v.chan.type = z.chan.type /\ v.chan.closes = z.chan.closes
          /\ v.chan.pending_eof = z.chan.pending_eof
          /\ v.chan.throttling_conn = z.chan.throttling_conn
          /\ v.chan.outbuffer = z.chan.outbuffer /\ v.chan.remwindow = z.chan.remwindow
          /\ v.chan.locmaxwin = z.chan.locmaxwin
      BY Zenon, <2>7, <2>8 DEF Chans
    <3> QED
      BY Zenon, <2>6, <2>7, <2>8, <3>2, <3>3 DEF Windowed
  <2> QED
    BY <2>3, <2>8, <2>9
<1> QED
  BY <1>2, <1>3

\* The connection is frozen for this channel, or no longer.
LEMMA ThrottleConnKeepsBase ==
  ASSUME NEW w, NEW cl, NEW sv, Base(w, cl, sv), w.chan.live, ~w.chan.halfopen,
         NEW freeze \in BOOLEAN, w.chan.throttling_conn # freeze
  PROVE  LET v == ThrottleConn([w EXCEPT !.chan.throttling_conn = freeze],
                               IF freeze THEN 1 ELSE -1)
         IN /\ Base(v, cl, sv)
            /\ v.chan = [w.chan EXCEPT !.throttling_conn = freeze]
            /\ v.sock = w.sock /\ v.pf = w.pf
            /\ v.ssh = [w.ssh EXCEPT !.conn_throttle_count = IF freeze THEN 1 ELSE 0]
<1> DEFINE u == [w EXCEPT !.chan.throttling_conn = freeze]
           adjust == IF freeze THEN 1 ELSE -1
           count == IF freeze THEN 1 ELSE 0
           v == ThrottleConn(u, adjust)
<1>0. /\ w \in Works /\ w.chan \in Chans /\ w.ssh \in Sshs
      /\ w.chan.throttling_conn \in BOOLEAN
  BY DEF Base, Works, Chans
<1>1. w.ssh.conn_throttle_count + adjust = count /\ count \in Nat
  BY <1>0 DEF Base, Sides
<1>2. /\ u \in Works /\ u.chan = [w.chan EXCEPT !.throttling_conn = freeze]
      /\ u.sock = w.sock /\ u.pf = w.pf /\ u.ssh = w.ssh /\ u.tx = w.tx
  BY Zenon, <1>0 DEF Works, Chans
<1> HIDE DEF u, adjust, count
<1>3. v = [u EXCEPT !.ssh.conn_throttle_count = count]
  BY <1>0, <1>1, <1>2 DEF ThrottleConn, Asserting, Works
<1> HIDE DEF v
<1>4. /\ v \in Works /\ v.chan = [w.chan EXCEPT !.throttling_conn = freeze]
      /\ v.sock = w.sock /\ v.pf = w.pf /\ v.tx = w.tx
      /\ v.ssh = [w.ssh EXCEPT !.conn_throttle_count = count]
  BY <1>0, <1>1, <1>2, <1>3 DEF Works, Sshs
<1>5. Sides(v)
  BY <1>0, <1>4 DEF Base, Sides, Chans, Sshs, Forwards, count
<1>6. ~Late(v) => SentUp(v, sv)
  BY <1>0, <1>4 DEF Base, SentUp, Chans, Late, Sshs
<1>7. SentDown(v, cl, sv) /\ Opening(v, cl, sv)
  BY <1>0, <1>4 DEF Base, SentDown, Opening, Chans, Late, Sshs
<1>8. Books(v, cl, sv) /\ Gone(v, cl, sv)
  BY <1>0, <1>4 DEF Base, Books, Gone, Chans, RoomOf, Late, Sshs
<1> QED
  BY <1>4, <1>5, <1>6, <1>7, <1>8 DEF Base, v, u, adjust, count

\* What may come for the local program fits into the channel's window.
LEMMA SetWindowWithin ==
  ASSUME NEW w \in Works, NEW v \in Works, NEW n \in Nat,
         Windowed(w, v, WindowFor(w, n)), Within(w), w.sock.live => n = w.sock.output,
         w.chan.locwindow >= 0
  PROVE  Within(v) /\ (w.sock.live => n <= v.chan.locmaxwin)
<1>1. /\ w.chan.locmaxwin \in Nat /\ w.chan.locwindow \in Int /\ w.sock.output \in Nat
  BY Zenon DEF Works, Chans, Socks
<1>2. /\ v.sock = w.sock /\ v.ssh = w.ssh /\ v.chan.locmaxwin = w.chan.locmaxwin
      /\ \/ v.chan.locwindow = w.chan.locwindow
         \/ /\ v.chan.locwindow \in 0 .. WindowFor(w, n)
            /\ w.chan.locwindow <= v.chan.locwindow \div 2
  BY DEF Windowed
<1>3. CASE v.chan.locwindow = w.chan.locwindow
  BY <1>1, <1>2, <1>3 DEF Within
<1>4. CASE /\ v.chan.locwindow \in 0 .. WindowFor(w, n)
           /\ w.chan.locwindow <= v.chan.locwindow \div 2
  <2>1. CASE n < w.chan.locmaxwin
    BY <1>1, <1>2, <1>4, <2>1 DEF Within, WindowFor
  <2>2. CASE ~(n < w.chan.locmaxwin)
    <3>1. v.chan.locwindow = 0
      BY <1>4, <2>2 DEF WindowFor
    <3> QED
      BY <1>1, <1>2, <3>1 DEF Within
  <2> QED
    BY <2>1, <2>2
<1> QED
  BY <1>2, <1>3, <1>4

\* What a change of the window, or of the freeze, leaves alone.
Granted(w, v) ==
  /\ v.sock = w.sock /\ v.pf = w.pf
  /\ v.ssh = [w.ssh EXCEPT !.conn_throttle_count = v.ssh.conn_throttle_count]
  /\ v.chan.live = w.chan.live /\ v.chan.halfopen = w.chan.halfopen
  /\ v.chan.type = w.chan.type /\ v.chan.closes = w.chan.closes
  /\ v.chan.pending_eof = w.chan.pending_eof
  /\ v.chan.outbuffer = w.chan.outbuffer /\ v.chan.remwindow = w.chan.remwindow

\* The window that is asked for is never negative.
LEMMA WindowForNat ==
  ASSUME NEW w \in Works, NEW n \in Nat
  PROVE  WindowFor(w, n) \in Nat
BY DEF Works, Chans, WindowFor

\* sshfwd_unthrottle
LEMMA SshfwdUnthrottleKeepsBase ==
  ASSUME NEW w, NEW cl, NEW sv, Base(w, cl, sv), w.chan.live, ~w.chan.halfopen,
         NEW n \in Nat
  PROVE  LET v == SshfwdUnthrottle(w, n)
         IN /\ Base(v, cl, sv) /\ Granted(w, v)
            /\ Within(w) /\ (w.sock.live => n = w.sock.output) /\ w.chan.locwindow >= 0
                 => Within(v)
<1> DEFINE u == SetWindow(w, WindowFor(w, n))
           z == ThrottleConn([u EXCEPT !.chan.throttling_conn = FALSE], -1)
<1>0. w \in Works /\ WindowFor(w, n) \in Nat /\ w.ssh \in Sshs
  BY WindowForNat DEF Base, Works
<1>1. Base(u, cl, sv) /\ Windowed(w, u, WindowFor(w, n))
  BY <1>0, SetWindowKeepsBase
<1>2. SshfwdUnthrottle(w, n)
        = IF u.chan.throttling_conn /\ n <= w.chan.locmaxwin THEN z ELSE u
  BY DEF SshfwdUnthrottle
<1> HIDE DEF u
<1>3. u \in Works
  BY <1>1 DEF Base
<1>4. Within(w) /\ (w.sock.live => n = w.sock.output) /\ w.chan.locwindow >= 0
        => Within(u)
  BY <1>0, <1>1, <1>3, SetWindowWithin
<1>5. Granted(w, u)
  BY <1>0, <1>1 DEF Windowed, Granted, Sshs
<1>6. CASE u.chan.throttling_conn
  <2>1. u.chan.throttling_conn = TRUE /\ u.chan.live /\ ~u.chan.halfopen
    BY <1>1, <1>3, <1>6 DEF Windowed, Works, Chans
  <2>2. /\ Base(z, cl, sv)
        /\ z.chan = [u.chan EXCEPT !.throttling_conn = FALSE]
        /\ z.sock = u.sock /\ z.pf = u.pf
        /\ z.ssh = [u.ssh EXCEPT !.conn_throttle_count = 0]
    BY Zenon, <1>1, <2>1, ThrottleConnKeepsBase
  <2> HIDE DEF z
  <2>3. Granted(w, z)
    <3>1. u.ssh = w.ssh /\ u.chan \in Chans
      BY <1>1, <1>3 DEF Windowed, Works
    <3>2. z.ssh = [w.ssh EXCEPT !.conn_throttle_count = z.ssh.conn_throttle_count]
      BY <1>0, <2>2, <3>1 DEF Sshs
    <3>3. /\ z.chan.live = u.chan.live /\ z.chan.halfopen = u.chan.halfopen
          /\ z.chan.type = u.chan.type /\ z.chan.closes = u.chan.closes
          /\ z.chan.pending_eof = u.chan.pending_eof
          /\ z.chan.outbuffer = u.chan.outbuffer /\ z.chan.remwindow = u.chan.remwindow
      BY <2>2, <3>1 DEF Chans
    <3> QED
      BY Zenon, <1>5, <2>2, <3>2, <3>3 DEF Granted
  <2>4. ~Within(w)
    BY <1>1, <2>1 DEF Windowed, Within, Base, Sides
  <2> QED
    BY <1>1, <1>2, <1>4, <1>5, <2>2, <2>3, <2>4
<1>7. CASE ~u.chan.throttling_conn
  BY <1>1, <1>2, <1>4, <1>5, <1>7
<1> QED
  BY <1>6, <1>7

\* ssh2_try_send_and_unthrottle
LEMMA TrySendAndUnthrottleKeepsBase ==
  ASSUME NEW w, NEW cl, NEW sv, Base(w, cl, sv), w.chan.live, ~w.chan.halfopen,
         "SENT_EOF" \notin w.chan.closes, Held([w EXCEPT !.chan.remwindow = 0])
  PROVE  LET v == TrySendAndUnthrottle(w)
         IN /\ Base(v, cl, sv)
            /\ v.chan.live /\ ~Done(v.chan) /\ "RCVD_CLOSE" \notin v.chan.closes
            /\ v.chan.locwindow = w.chan.locwindow /\ v.chan.locmaxwin = w.chan.locmaxwin
            /\ v.ssh = w.ssh /\ v.sock.output = w.sock.output
            /\ v.sock.live => w.sock.live
            /\ v.chan.pending_eof \/ "SENT_EOF" \in v.chan.closes => w.chan.pending_eof
            /\ Held(v)
<1> DEFINE u == TrySend(w)
           over == u.pf.throttle_override
           z == SetFrozen([u EXCEPT !.pf.throttled = FALSE], over)
<1>0. w \in Works /\ w.chan \in Chans /\ w.sock \in Socks /\ w.pf \in Pfs
  BY DEF Base, Works
<1>1. "RCVD_CLOSE" \notin w.chan.closes /\ ~Done(w.chan)
  BY DEF Base, Sides, Done
<1>2. Base(u, cl, sv) /\ Written(w, u)
  BY <1>1, TrySendKeepsBase
<1>3. TrySendAndUnthrottle(w)
        = IF u.chan.outbuffer = 0 /\ u.chan.type = "SOCKDATA" THEN z ELSE u
  <2>1. Touch(u) = u
    BY <1>2 DEF Touch, Written
  <2> HIDE DEF u
  <2>2. TrySendAndUnthrottle(w)
          = LET v == Touch(TrySend(w))
            IN IF v.chan.outbuffer = 0 /\ v.chan.type = "SOCKDATA"
               THEN SetFrozen([v EXCEPT !.pf.throttled = FALSE], v.pf.throttle_override)
               ELSE v
    BY DEF TrySendAndUnthrottle, SentEof
  <2> QED
    BY <2>1, <2>2 DEF u
<1> HIDE DEF u
<1>4. u \in Works /\ u.chan \in Chans /\ u.sock \in Socks /\ u.pf \in Pfs
  BY <1>2 DEF Base, Works
<1>5. /\ u.chan.live /\ ~Done(u.chan) /\ "RCVD_CLOSE" \notin u.chan.closes
      /\ u.chan.locwindow = w.chan.locwindow /\ u.chan.locmaxwin = w.chan.locmaxwin
      /\ u.ssh = w.ssh /\ u.sock.output = w.sock.output
      /\ u.sock.live => w.sock.live
      /\ u.chan.pending_eof \/ "SENT_EOF" \in u.chan.closes => w.chan.pending_eof
  BY <1>1, <1>2 DEF Written
<1>6. /\ u.chan.outbuffer > 0 => u.chan.remwindow = 0
      /\ u.chan.pending_eof => u.chan.outbuffer > 0
      /\ u.sock.frozen = w.sock.frozen /\ u.pf = w.pf
      /\ ~u.chan.halfopen
      /\ "SENT_EOF" \in u.chan.closes => u.chan.outbuffer = 0
  BY <1>2 DEF Written
<1>7. /\ w.pf.ready /\ w.sock.live =>
           /\ w.pf.throttled => w.sock.frozen
           /\ w.sock.frozen => w.pf.throttled \/ w.pf.throttle_override
           /\ w.pf.throttle_override => w.ssh.throttled_all
      /\ w.sock.live => w.pf.ready
  <2> DEFINE x == [w EXCEPT !.chan.remwindow = 0]
  <2>1. /\ x.pf = w.pf /\ x.sock = w.sock /\ x.ssh = w.ssh
        /\ x.chan = [w.chan EXCEPT !.remwindow = 0]
    BY <1>0 DEF Works
  <2> HIDE DEF x
  <2>2. /\ x.chan.closes = w.chan.closes /\ x.chan.live = w.chan.live
        /\ x.chan.halfopen = w.chan.halfopen
    BY Zenon, <1>0, <2>1 DEF Chans
  <2>3. Held(x)
    BY DEF x
  <2> QED
    BY <1>1, <2>1, <2>2, <2>3 DEF Held
<1>8. u.sock.live => u.chan.type = "SOCKDATA"
  BY <1>2, <1>4, <1>6 DEF Base, Sides, Forwards, Chans
<1>9. u.chan.outbuffer \in Nat
  BY <1>4 DEF Chans
<1>10. CASE u.chan.outbuffer = 0 /\ u.chan.type = "SOCKDATA"
  <2>1. TrySendAndUnthrottle(w) = z
    BY <1>3, <1>10
  <2>2. over \in BOOLEAN
    BY <1>4 DEF Pfs
  <2>3. /\ z \in Works /\ z.chan = u.chan /\ z.tx = u.tx /\ z.ssh = u.ssh
        /\ z.pf = [u.pf EXCEPT !.throttled = FALSE]
        /\ z.sock = [u.sock EXCEPT !.frozen = over]
    BY Zenon, <1>4, <2>2, FALSE \in BOOLEAN DEF SetFrozen, Works, Pfs, Socks
  <2> HIDE DEF z
  <2>4. /\ z.sock.live = u.sock.live /\ z.sock.outgoingeof = u.sock.outgoingeof
        /\ z.sock.output = u.sock.output /\ z.sock.frozen = over
        /\ ~z.pf.throttled /\ z.pf.throttle_override = over /\ z.pf.ready = u.pf.ready
    BY <1>4, <2>3 DEF Pfs, Socks
  <2>5. Base(z, cl, sv)
    <3>1. z.sock.live /\ z.sock.outgoingeof # "NO" => "RCVD_EOF" \in u.chan.closes
      BY <1>2, <2>4 DEF Base, Sides
    <3> QED
      BY Zenon, <1>2, <1>6, <2>3, <2>4, <3>1, SocketStepKeepsBase
  <2>6. Held(z)
    BY <1>5, <1>6, <1>7, <1>10, <2>3, <2>4 DEF Held, over
  <2> QED
    BY <1>5, <2>1, <2>3, <2>4, <2>5, <2>6
<1>11. CASE ~(u.chan.outbuffer = 0 /\ u.chan.type = "SOCKDATA")
  <2>1. TrySendAndUnthrottle(w) = u
    BY <1>3, <1>11
  <2>2. u.sock.live => u.chan.outbuffer > 0
    BY <1>8, <1>9, <1>11
  <2>3. Held(u)
    BY <1>5, <1>6, <1>7, <1>9, <2>2 DEF Held, SentEof
  <2> QED
    BY <1>2, <1>5, <2>1, <2>3
<1> QED
  BY <1>10, <1>11

-----------------------------------------------------------------------------
(* Packets that are taken from the network.                                *)

\* What is first in the queue from the server, and what is left behind it.
LEMMA TakenFacts ==
  ASSUME NEW q \in Packets(DownTypes), q # <<>>, NEW w, Ordered(q, DownOrder(Late(w)))
  PROVE  LET h == Head(q)
             r == Tail(q)
         IN /\ h \in [type : DownTypes, n : Nat] /\ r \in Packets(DownTypes)
            /\ Ordered(r, DownOrder(Late(w)))
            /\ \A some : Lacks(q, some) => Lacks(r, some) /\ h.type \notin some
            /\ Lacks(r, {"confirm", "failure"})
            /\ h.type = "failure" => r = <<>>
            /\ h.type = "eof" => Lacks(r, {"data", "eof"})
            /\ h.type = "close" => Lacks(r, DownTypes \ {"reply"}) /\ (Late(w) \/ r = <<>>)
<1> DEFINE h == Head(q)
           r == Tail(q)
<1>1. h \in [type : DownTypes, n : Nat] /\ r \in Packets(DownTypes)
  BY Zenon, AmountsTail
<1>2. /\ Ordered(r, DownOrder(Late(w)))
      /\ \A i \in DOMAIN r : <<h.type, r[i].type>> \in DownOrder(Late(w))
  BY OrderTail
<1>3. \A some : Lacks(q, some) => Lacks(r, some) /\ h.type \notin some
  BY LacksTail
<1> HIDE DEF h, r
<1>4. \A i \in DOMAIN r : /\ r[i].type \notin {"confirm", "failure"}
                          /\ h.type # "failure"
                          /\ h.type = "eof" => r[i].type \notin {"data", "eof"}
                          /\ h.type = "close" => Late(w) /\ r[i].type = "reply"
  BY Zenon, <1>2 DEF DownOrder
<1>5. Lacks(r, {"confirm", "failure"})
  BY <1>4 DEF Lacks
<1>6. h.type = "eof" => Lacks(r, {"data", "eof"})
  BY <1>4 DEF Lacks
<1>7. h.type = "close" => Lacks(r, DownTypes \ {"reply"}) /\ (Late(w) \/ r = <<>>)
  <2>1. h.type = "close" => Lacks(r, DownTypes \ {"reply"})
    BY <1>4 DEF Lacks
  <2>2. h.type = "close" /\ ~Late(w) => Lacks(r, DownTypes)
    BY <1>4 DEF Lacks
  <2> QED
    BY Zenon, <1>1, <2>1, <2>2, NothingLeft
<1>8. h.type = "failure" => r = <<>>
  <2>1. h.type = "failure" => Lacks(r, DownTypes)
    BY <1>4 DEF Lacks
  <2> QED
    BY Zenon, <1>1, <2>1, NothingLeft
<1> QED
  BY <1>1, <1>2, <1>3, <1>5, <1>6, <1>7, <1>8 DEF h, r

\* EOF, CLOSE, or an adjustment nobody needs is taken.
LEMMA TakeOther ==
  ASSUME NEW w, NEW q, NEW sv, Base(w, q, sv), q # <<>>, w.chan.live, ~w.chan.halfopen,
         \/ Head(q).type \in {"eof", "close"}
         \/ Head(q).type = "adjust" /\ "SENT_EOF" \in w.chan.closes
  PROVE  LET h == Head(q)
             r == Tail(q)
         IN /\ Base(w, r, sv)
            /\ "RCVD_CLOSE" \in w.chan.closes => h.type \notin {"eof", "close"}
            /\ h.type = "eof" => sv.sentEof /\ Lacks(r, {"data", "eof"})
            /\ h.type = "close" => sv.sentClose
                 /\ Lacks(r, IF Late(w) THEN DownTypes \ {"reply"} ELSE DownTypes)
<1> DEFINE h == Head(q)
           r == Tail(q)
<1>0. q \in Packets(DownTypes) /\ Ordered(q, DownOrder(Late(w)))
  BY DEF Base, SentDown
<1>1. /\ h \in [type : DownTypes, n : Nat] /\ r \in Packets(DownTypes)
      /\ Ordered(r, DownOrder(Late(w)))
      /\ \A some : Lacks(q, some) => Lacks(r, some) /\ h.type \notin some
      /\ Lacks(r, {"confirm", "failure"})
      /\ h.type = "eof" => Lacks(r, {"data", "eof"})
  BY <1>0, TakenFacts
<1>1a. h.type = "close" =>
         Lacks(r, IF Late(w) THEN DownTypes \ {"reply"} ELSE DownTypes)
  <2>1. h.type = "close" => Lacks(r, DownTypes \ {"reply"}) /\ (Late(w) \/ r = <<>>)
    BY Zenon, <1>0, TakenFacts
  <2>2. r = <<>> => Lacks(r, DownTypes)
    BY DEF Lacks
  <2> QED
    BY <2>1, <2>2
<1>2. /\ InFlight(q, "data") = (IF h.type = "data" THEN h.n ELSE 0) + InFlight(r, "data")
      /\ InFlight(q, "adjust") = (IF h.type = "adjust" THEN h.n ELSE 0) + InFlight(r, "adjust")
      /\ Count(q, "reply") = (IF h.type = "reply" THEN 1 ELSE 0) + Count(r, "reply")
  BY <1>0, AmountsTail
<1>3. /\ InFlight(r, "data") \in Nat /\ InFlight(r, "adjust") \in Nat
      /\ Count(r, "reply") \in Nat
  BY <1>1, Amounts
<1> HIDE DEF h, r
<1>4. /\ InFlight(q, "data") = InFlight(r, "data") /\ Count(q, "reply") = Count(r, "reply")
      /\ "SENT_EOF" \notin w.chan.closes => InFlight(q, "adjust") = InFlight(r, "adjust")
  BY <1>2, <1>3 DEF h
<1>5. SentDown(w, r, sv)
  BY <1>1 DEF Base, SentDown
<1>6. Opening(w, r, sv)
  BY <1>1 DEF Opening
<1>7. Books(w, r, sv)
  BY <1>4 DEF Base, Books
<1>8. Gone(w, r, sv)
  BY DEF Gone
<1>9. Base(w, r, sv)
  BY <1>1, <1>5, <1>6, <1>7, <1>8 DEF Base
<1>10. h.type = "eof" => sv.sentEof
  <2>1. ~sv.sentEof => Lacks(q, {"eof"})
    BY DEF Base, SentDown
  <2> QED
    BY <1>1, <2>1
<1>11. h.type = "close" => sv.sentClose
  <2>1. ~sv.sentClose => Lacks(q, {"close"})
    BY DEF Base, SentDown
  <2> QED
    BY <1>1, <2>1
<1>12. "RCVD_CLOSE" \in w.chan.closes => h.type \notin {"eof", "close"}
  <2>1. "RCVD_CLOSE" \in w.chan.closes =>
           Lacks(q, IF Late(w) THEN DownTypes \ {"reply"} ELSE DownTypes)
    BY DEF Base, SentDown
  <2> QED
    BY <1>1, <2>1 DEF DownTypes
<1> QED
  BY <1>1, <1>1a, <1>9, <1>10, <1>11, <1>12 DEF h, r

\* WINDOW_ADJUST is taken, and its units are added to remwindow.
LEMMA TakeAdjust ==
  ASSUME NEW w, NEW q, NEW sv, Base(w, q, sv), q # <<>>, w.chan.live, ~w.chan.halfopen,
         Head(q).type = "adjust", "SENT_EOF" \notin w.chan.closes
  PROVE  LET v == [w EXCEPT !.chan.remwindow = @ + Head(q).n]
         IN /\ Base(v, Tail(q), sv) /\ v.sock = w.sock /\ v.pf = w.pf /\ v.ssh = w.ssh
            /\ v.chan = [w.chan EXCEPT !.remwindow = @ + Head(q).n]
<1> DEFINE h == Head(q)
           r == Tail(q)
           v == [w EXCEPT !.chan.remwindow = @ + h.n]
<1>0. /\ q \in Packets(DownTypes) /\ Ordered(q, DownOrder(Late(w)))
      /\ w \in Works /\ w.chan \in Chans /\ w.chan.remwindow \in Nat
  BY DEF Base, SentDown, Works, Chans
<1>1. /\ h \in [type : DownTypes, n : Nat] /\ r \in Packets(DownTypes)
      /\ Ordered(r, DownOrder(Late(w)))
      /\ \A some : Lacks(q, some) => Lacks(r, some) /\ h.type \notin some
      /\ Lacks(r, {"confirm", "failure"})
  BY <1>0, TakenFacts
<1>2. /\ InFlight(q, "data") = (IF h.type = "data" THEN h.n ELSE 0) + InFlight(r, "data")
      /\ InFlight(q, "adjust") = (IF h.type = "adjust" THEN h.n ELSE 0) + InFlight(r, "adjust")
      /\ Count(q, "reply") = (IF h.type = "reply" THEN 1 ELSE 0) + Count(r, "reply")
  BY <1>0, AmountsTail
<1>3. /\ InFlight(r, "data") \in Nat /\ InFlight(r, "adjust") \in Nat
      /\ Count(r, "reply") \in Nat /\ InFlight(w.tx, "data") \in Nat
  BY <1>0, <1>1, Amounts DEF Works
<1> DEFINE room == w.chan.remwindow + h.n
<1>4. /\ InFlight(q, "data") = InFlight(r, "data") /\ Count(q, "reply") = Count(r, "reply")
      /\ InFlight(q, "adjust") = h.n + InFlight(r, "adjust")
      /\ h.n \in Nat /\ room \in Nat
  BY <1>0, <1>1, <1>2, <1>3
<1>5. v = [w EXCEPT !.chan.remwindow = room]
  BY DEF Base
<1> HIDE DEF h, r, room, v
<1>6. /\ v \in Works /\ v.chan = [w.chan EXCEPT !.remwindow = room]
      /\ v.sock = w.sock /\ v.pf = w.pf /\ v.ssh = w.ssh /\ v.tx = w.tx
  BY Zenon, <1>0, <1>4, <1>5 DEF Works, Chans
<1>7. Sides(v)
  BY <1>0, <1>6 DEF Base, Sides, Chans, Forwards
<1>8. ~Late(v) => SentUp(v, sv)
  BY <1>0, <1>6 DEF Base, SentUp, Chans, Late
<1>9. SentDown(v, r, sv)
  <2>1. SentDown(w, r, sv)
    BY <1>1 DEF Base, SentDown
  <2> QED
    BY <1>0, <1>6, <2>1 DEF SentDown, Chans, Late
<1>10. Opening(v, r, sv) /\ Gone(v, r, sv)
  BY <1>0, <1>1, <1>6 DEF Opening, Gone, Chans
<1>11. Books(v, r, sv)
  <2>1. sv.room = room + InFlight(r, "adjust") + InFlight(w.tx, "data")
    <3>1. sv.room = w.chan.remwindow + InFlight(q, "adjust") + InFlight(w.tx, "data")
      BY DEF Base, Books, RoomOf
    <3> QED
      BY SMTT(60), <1>0, <1>3, <1>4, <3>1 DEF room
  <2> QED
    BY <1>0, <1>4, <1>6, <2>1 DEF Base, Books, Chans, RoomOf, Late
<1>12. v.chan = [w.chan EXCEPT !.remwindow = @ + h.n]
  BY <1>0, <1>6 DEF Chans, room
<1> QED
  BY <1>1, <1>6, <1>7, <1>8, <1>9, <1>10, <1>11, <1>12 DEF Base, h, r, v

\* CHANNEL_DATA is taken, and accounted for.
LEMMA TakeData ==
  ASSUME NEW w, NEW q, NEW sv, Base(w, q, sv), q # <<>>, w.chan.live, ~w.chan.halfopen,
         Head(q).type = "data"
  PROVE  LET v == Accounts(w, Head(q).n)
         IN /\ Base(v, Tail(q), sv) /\ v.sock = w.sock /\ v.pf = w.pf /\ v.ssh = w.ssh
            /\ v.chan = [w.chan EXCEPT !.locwindow = @ - Head(q).n, !.remlocwin = @ - Head(q).n]
            /\ Head(q).n \in Nat /\ "RCVD_EOF" \notin w.chan.closes
            /\ sv.win >= 0 => v.chan.locwindow >= 0
<1> DEFINE h == Head(q)
           r == Tail(q)
           v == Accounts(w, h.n)
<1>0. /\ q \in Packets(DownTypes) /\ Ordered(q, DownOrder(Late(w)))
      /\ w \in Works /\ w.chan \in Chans /\ w.chan.locwindow \in Int /\ w.chan.remlocwin \in Int
      /\ sv.win \in Int
  BY Zenon DEF Base, SentDown, Works, Chans, Servers
<1>1. /\ h \in [type : DownTypes, n : Nat] /\ r \in Packets(DownTypes)
      /\ Ordered(r, DownOrder(Late(w)))
      /\ \A some : Lacks(q, some) => Lacks(r, some) /\ h.type \notin some
      /\ Lacks(r, {"confirm", "failure"})
  BY <1>0, TakenFacts
<1>2. /\ InFlight(q, "data") = (IF h.type = "data" THEN h.n ELSE 0) + InFlight(r, "data")
      /\ InFlight(q, "adjust") = (IF h.type = "adjust" THEN h.n ELSE 0) + InFlight(r, "adjust")
      /\ Count(q, "reply") = (IF h.type = "reply" THEN 1 ELSE 0) + Count(r, "reply")
  BY <1>0, AmountsTail
<1>3. /\ InFlight(r, "data") \in Nat /\ InFlight(r, "adjust") \in Nat
      /\ Count(r, "reply") \in Nat /\ InFlight(w.tx, "adjust") \in Nat
  BY <1>0, <1>1, Amounts DEF Works
<1> DEFINE win == w.chan.locwindow - h.n
           rem == w.chan.remlocwin - h.n
<1>4. /\ InFlight(q, "data") = h.n + InFlight(r, "data")
      /\ Count(q, "reply") = Count(r, "reply")
      /\ InFlight(q, "adjust") = InFlight(r, "adjust")
      /\ h.n \in Nat /\ win \in Int /\ rem \in Int
  BY <1>0, <1>1, <1>2, <1>3
<1>5. v = [w EXCEPT !.chan.locwindow = win, !.chan.remlocwin = rem]
  BY DEF Accounts
<1> HIDE DEF h, r, win, rem, v
<1>6. /\ v \in Works /\ v.chan = [w.chan EXCEPT !.locwindow = win, !.remlocwin = rem]
      /\ v.sock = w.sock /\ v.pf = w.pf /\ v.ssh = w.ssh /\ v.tx = w.tx
  BY Zenon, <1>0, <1>4, <1>5 DEF Works, Chans
<1>7. Sides(v)
  BY <1>0, <1>6 DEF Base, Sides, Chans, Forwards
<1>8. ~Late(v) => SentUp(v, sv)
  BY <1>0, <1>6 DEF Base, SentUp, Chans, Late
<1>9. SentDown(v, r, sv)
  <2>1. SentDown(w, r, sv)
    BY <1>1 DEF Base, SentDown
  <2> QED
    BY <1>0, <1>6, <2>1 DEF SentDown, Chans, Late
<1>10. Opening(v, r, sv) /\ Gone(v, r, sv)
  BY <1>0, <1>1, <1>6 DEF Opening, Gone, Chans
<1>11. win = sv.win + InFlight(w.tx, "adjust") + InFlight(r, "data")
  <2>1. w.chan.locwindow = sv.win + InFlight(w.tx, "adjust") + InFlight(q, "data")
    BY DEF Base, Books
  <2> QED
    BY SMTT(60), <1>0, <1>3, <1>4, <2>1 DEF win
<1>12. Books(v, r, sv)
  BY <1>0, <1>4, <1>6, <1>11 DEF Base, Books, Chans, RoomOf, Late
<1>13. v.chan = [w.chan EXCEPT !.locwindow = @ - h.n, !.remlocwin = @ - h.n]
  BY <1>0, <1>6 DEF Chans, win, rem
<1>14. "RCVD_EOF" \notin w.chan.closes
  <2>1. "RCVD_EOF" \in w.chan.closes => Lacks(q, {"data", "eof"})
    BY DEF Base, SentDown
  <2> QED
    BY <1>1, <2>1 DEF h
<1>15. sv.win >= 0 => v.chan.locwindow >= 0
  BY <1>0, <1>3, <1>4, <1>6, <1>11 DEF Chans
<1> QED
  BY <1>1, <1>4, <1>6, <1>7, <1>8, <1>9, <1>10, <1>12, <1>13, <1>14, <1>15 DEF Base, h, r, v

\* The reply to the first request on the list is taken.
LEMMA TakeReply ==
  ASSUME NEW w, NEW q, NEW sv, Base(w, q, sv), q # <<>>, w.chan.live, ~w.chan.halfopen,
         Head(q).type = "reply"
  PROVE  LET v == Answered(w)
         IN /\ Base(v, Tail(q), sv) /\ v.sock = w.sock /\ v.pf = w.pf /\ v.ssh = w.ssh
            /\ v.chan = [w.chan EXCEPT !.remlocwin = v.chan.remlocwin,
                                       !.throttle_state = v.chan.throttle_state,
                                       !.chanreqs = Tail(w.chan.chanreqs)]
            /\ w.chan.chanreqs # <<>>
<1> DEFINE h == Head(q)
           r == Tail(q)
           v == Answered(w)
           reqs == w.chan.chanreqs
<1>0. /\ q \in Packets(DownTypes) /\ Ordered(q, DownOrder(Late(w)))
      /\ w \in Works /\ w.chan \in Chans /\ w.chan.remlocwin \in Int
      /\ reqs \in Seq(Nat)
  BY DEF Base, SentDown, Works, Chans
<1>1. /\ h \in [type : DownTypes, n : Nat] /\ r \in Packets(DownTypes)
      /\ Ordered(r, DownOrder(Late(w)))
      /\ \A some : Lacks(q, some) => Lacks(r, some) /\ h.type \notin some
      /\ Lacks(r, {"confirm", "failure"})
  BY <1>0, TakenFacts
<1>2. /\ InFlight(q, "data") = (IF h.type = "data" THEN h.n ELSE 0) + InFlight(r, "data")
      /\ InFlight(q, "adjust") = (IF h.type = "adjust" THEN h.n ELSE 0) + InFlight(r, "adjust")
      /\ Count(q, "reply") = (IF h.type = "reply" THEN 1 ELSE 0) + Count(r, "reply")
  BY <1>0, AmountsTail
<1>3. /\ InFlight(r, "data") \in Nat /\ InFlight(r, "adjust") \in Nat
      /\ Count(r, "reply") \in Nat /\ Count(w.tx, "winadj") \in Nat
  BY <1>0, <1>1, Amounts DEF Works
<1>4. /\ InFlight(q, "data") = InFlight(r, "data")
      /\ InFlight(q, "adjust") = InFlight(r, "adjust")
      /\ Count(q, "reply") = 1 + Count(r, "reply")
  BY <1>2, <1>3
<1>5. Len(reqs) >= 1 + Count(r, "reply")
  BY <1>4 DEF Base, Books
<1>6. reqs # <<>> /\ Head(reqs) \in Nat /\ Tail(reqs) \in Seq(Nat) /\ Len(Tail(reqs)) = Len(reqs) - 1
  <2>1. Len(reqs) \in Nat /\ Len(reqs) >= 1
    BY <1>0, <1>3, <1>5
  <2>2. Head(reqs) = reqs[1] /\ 1 \in 1 .. Len(reqs) /\ reqs # <<>>
    BY <1>0, <2>1
  <2>3. reqs[1] \in Nat
    BY Zenon, <1>0, <2>2, ElementOfSeq
  <2> QED
    BY <1>0, <2>1, <2>2, <2>3
<1> DEFINE rem == w.chan.remlocwin + Head(reqs)
           state == IF w.chan.throttle_state = "UNTHROTTLING" THEN "UNTHROTTLED"
                    ELSE w.chan.throttle_state
           rest == Tail(reqs)
<1>7. /\ rem \in Int /\ rest \in Seq(Nat)
      /\ state \in {"UNTHROTTLED", "THROTTLED", "UNTHROTTLING"}
  BY <1>0, <1>6 DEF Chans
<1>8. v = [w EXCEPT !.chan.remlocwin = rem, !.chan.throttle_state = state,
                    !.chan.chanreqs = rest]
  BY DEF Answered
<1>9. Len(rest) = Len(reqs) - 1 /\ rest = Tail(w.chan.chanreqs)
  BY <1>6
<1> HIDE DEF h, r, v, rem, state, rest
<1>10. /\ v \in Works
       /\ v.chan = [w.chan EXCEPT !.remlocwin = rem, !.throttle_state = state, !.chanreqs = rest]
       /\ v.sock = w.sock /\ v.pf = w.pf /\ v.ssh = w.ssh /\ v.tx = w.tx
  BY Zenon, <1>0, <1>7, <1>8 DEF Works, Chans
<1>11. "SENT_CLOSE" \notin w.chan.closes
  BY <1>6 DEF Base, Sides
<1>12. Sides(v)
  BY <1>0, <1>10, <1>11 DEF Base, Sides, Chans, Forwards
<1>13. ~Late(v) => SentUp(v, sv)
  BY <1>0, <1>10 DEF Base, SentUp, Chans, Late
<1>14. SentDown(v, r, sv)
  <2>1. SentDown(w, r, sv)
    BY <1>1 DEF Base, SentDown
  <2> QED
    BY <1>0, <1>10, <2>1 DEF SentDown, Chans, Late
<1>15. Opening(v, r, sv) /\ Gone(v, r, sv)
  BY <1>0, <1>1, <1>10 DEF Opening, Gone, Chans
<1>16. Books(v, r, sv)
  <2>1. Len(rest) >= Count(r, "reply")
    BY <1>0, <1>3, <1>5, <1>9
  <2>2. Late(w) \/ ~sv.sentClose => Len(rest) = Count(w.tx, "winadj") + Count(r, "reply")
    <3> SUFFICES ASSUME Late(w) \/ ~sv.sentClose
                 PROVE  Len(rest) = Count(w.tx, "winadj") + Count(r, "reply")
      OBVIOUS
    <3>1. Len(reqs) = Count(w.tx, "winadj") + (1 + Count(r, "reply"))
      BY <1>4 DEF Base, Books
    <3>2. Len(reqs) \in Nat
      BY <1>0
    <3> HIDE DEF reqs
    <3> QED
      BY <1>3, <1>9, <3>1, <3>2
  <2> QED
    BY <1>0, <1>4, <1>10, <2>1, <2>2 DEF Base, Books, Chans, RoomOf, Late
<1>17. v.chan = [w.chan EXCEPT !.remlocwin = v.chan.remlocwin,
                               !.throttle_state = v.chan.throttle_state,
                               !.chanreqs = rest]
  BY <1>0, <1>10 DEF Chans
<1> QED
  BY <1>1, <1>6, <1>9, <1>10, <1>12, <1>13, <1>14, <1>15, <1>16, <1>17 DEF Base, r, v

\* The confirmation is taken, and opens the channel.
LEMMA TakeConfirm ==
  ASSUME NEW w, NEW q, NEW sv, Base(w, q, sv), q # <<>>, w.chan.live,
         Head(q).type = "confirm"
  PROVE  LET type == IF w.chan.type = "SOCKDATA_DORMANT" THEN "SOCKDATA" ELSE w.chan.type
             v == [w EXCEPT !.chan.halfopen = FALSE, !.chan.remwindow = Head(q).n,
                            !.chan.type = type]
         IN /\ Base(v, Tail(q), sv) /\ v.sock = w.sock /\ v.pf = w.pf /\ v.ssh = w.ssh
            /\ v.chan = [w.chan EXCEPT !.halfopen = FALSE, !.remwindow = Head(q).n, !.type = type]
            /\ w.chan.halfopen /\ HalfOpened(w) /\ Head(q).n \in Nat
<1> DEFINE h == Head(q)
           r == Tail(q)
           type == IF w.chan.type = "SOCKDATA_DORMANT" THEN "SOCKDATA" ELSE w.chan.type
           v == [w EXCEPT !.chan.halfopen = FALSE, !.chan.remwindow = h.n, !.chan.type = type]
<1>0. /\ q \in Packets(DownTypes) /\ Ordered(q, DownOrder(Late(w)))
      /\ w \in Works /\ w.chan \in Chans
  BY DEF Base, SentDown, Works
<1>1. /\ h \in [type : DownTypes, n : Nat] /\ r \in Packets(DownTypes)
      /\ Ordered(r, DownOrder(Late(w)))
      /\ \A some : Lacks(q, some) => Lacks(r, some) /\ h.type \notin some
      /\ Lacks(r, {"confirm", "failure"})
  BY <1>0, TakenFacts
<1>2. /\ InFlight(q, "data") = (IF h.type = "data" THEN h.n ELSE 0) + InFlight(r, "data")
      /\ InFlight(q, "adjust") = (IF h.type = "adjust" THEN h.n ELSE 0) + InFlight(r, "adjust")
      /\ Count(q, "reply") = (IF h.type = "reply" THEN 1 ELSE 0) + Count(r, "reply")
  BY <1>0, AmountsTail
<1>3. /\ InFlight(r, "data") \in Nat /\ InFlight(r, "adjust") \in Nat
      /\ Count(r, "reply") \in Nat
  BY <1>0, <1>1, Amounts
<1>4. /\ InFlight(q, "data") = InFlight(r, "data")
      /\ InFlight(q, "adjust") = InFlight(r, "adjust")
      /\ Count(q, "reply") = Count(r, "reply")
      /\ h.n \in Nat
  BY <1>1, <1>2, <1>3
<1>5. w.chan.halfopen /\ HalfOpened(w)
  <2>1. ~w.chan.halfopen => Lacks(q, {"confirm", "failure"})
    BY DEF Base, Opening
  <2> QED
    BY <1>1, <2>1 DEF Base, Sides
<1>6. sv.state = "open" /\ h = Packet("confirm", RemWindow)
  <2>1. sv.state \in {"asked", "open", "refused"}
    BY DEF Base, Servers
  <2> QED
    BY <1>5, <2>1 DEF Base, Opening, Packet
<1>7. h.n = RemWindow
  BY <1>6 DEF Packet
<1>8. type \in {"SOCKDATA", "ZOMBIE"} /\ type # "SOCKDATA_DORMANT"
      /\ (type = "ZOMBIE" <=> w.chan.type = "ZOMBIE")
  BY <1>0 DEF Chans
<1>8a. type = "ZOMBIE" <=> w.chan.type \notin {"SOCKDATA", "SOCKDATA_DORMANT"}
  BY <1>0 DEF Chans
<1> HIDE DEF h, r, v, type
<1>9. /\ v \in Works
      /\ v.chan = [w.chan EXCEPT !.halfopen = FALSE, !.remwindow = h.n, !.type = type]
      /\ v.sock = w.sock /\ v.pf = w.pf /\ v.ssh = w.ssh /\ v.tx = w.tx
  <2>1. v = [w EXCEPT !.chan = [w.chan EXCEPT !.halfopen = FALSE, !.remwindow = h.n, !.type = type]]
    BY Zenon, <1>0 DEF v, Works
  <2>2. [w.chan EXCEPT !.halfopen = FALSE, !.remwindow = h.n, !.type = type] \in Chans
    <3>1. FALSE \in BOOLEAN
      OBVIOUS
    <3> QED
      BY Zenon, <1>0, <1>4, <1>8, <3>1 DEF Chans
  <2> QED
    BY <1>0, <2>1, <2>2 DEF Works
<1>10. Sides(v)
  BY <1>0, <1>5, <1>8, <1>8a, <1>9 DEF Base, Sides, HalfOpened, Chans, Forwards
<1>11. ~Late(v) => SentUp(v, sv)
  BY <1>0, <1>9 DEF Base, SentUp, Chans, Late
<1>12. SentDown(v, r, sv)
  <2>1. SentDown(w, r, sv)
    BY <1>1 DEF Base, SentDown
  <2> QED
    BY <1>0, <1>6, <1>9, <2>1 DEF SentDown, Chans, Late
<1>13. Opening(v, r, sv) /\ Gone(v, r, sv)
  BY <1>0, <1>1, <1>9 DEF Opening, Gone, Chans
<1>14. Books(v, r, sv)
  BY <1>0, <1>4, <1>5, <1>7, <1>9 DEF Base, Books, Chans, RoomOf, Late
<1> QED
  BY <1>1, <1>4, <1>5, <1>9, <1>10, <1>11, <1>12, <1>13, <1>14 DEF Base, h, r, v, type

\* The refusal is taken, and the channel goes.
LEMMA TakeFailure ==
  ASSUME NEW w, NEW q, NEW sv, Base(w, q, sv), q # <<>>, w.chan.live,
         Head(q).type = "failure"
  PROVE  LET u == [w EXCEPT !.chan.live = FALSE]
             v == IF Forwards(w.chan) THEN PfdClose(u) ELSE u
         IN /\ Base(v, Tail(q), sv) /\ ~v.sock.live /\ ~v.chan.live
            /\ v.ssh = w.ssh
<1> DEFINE h == Head(q)
           r == Tail(q)
           v == [w EXCEPT !.chan.live = FALSE, !.sock.live = FALSE]
<1>0. /\ q \in Packets(DownTypes) /\ Ordered(q, DownOrder(Late(w)))
      /\ w \in Works /\ w.chan \in Chans /\ w.sock \in Socks
  BY DEF Base, SentDown, Works
<1>1. /\ h \in [type : DownTypes, n : Nat] /\ r \in Packets(DownTypes)
      /\ Ordered(r, DownOrder(Late(w)))
      /\ \A some : Lacks(q, some) => Lacks(r, some) /\ h.type \notin some
      /\ Lacks(r, {"confirm", "failure"}) /\ r = <<>>
  BY <1>0, TakenFacts
<1>2. w.chan.halfopen /\ HalfOpened(w)
  <2>1. ~w.chan.halfopen => Lacks(q, {"confirm", "failure"})
    BY DEF Base, Opening
  <2> QED
    BY <1>1, <2>1 DEF Base, Sides
<1>3. sv.state = "refused"
  <2>1. sv.state # "refused" => Lacks(q, {"failure"})
    BY DEF Base, SentDown
  <2> QED
    BY <1>1, <2>1
<1>4. (IF Forwards(w.chan) THEN PfdClose([w EXCEPT !.chan.live = FALSE])
       ELSE [w EXCEPT !.chan.live = FALSE]) = v
  <2>1. CASE Forwards(w.chan)
    BY <2>1 DEF PfdClose
  <2>2. CASE ~Forwards(w.chan)
    <3>1. w.sock.live = FALSE
      BY <1>0, <2>2 DEF Base, Sides, Socks
    <3>2. [w EXCEPT !.chan.live = FALSE] \in Works /\ v \in Works
      BY ZenonT(60), <1>0 DEF Works, Chans, Socks
    <3>3. [w EXCEPT !.chan.live = FALSE].sock = v.sock
      BY <1>0, <3>1 DEF Works, Socks
    <3> QED
      BY Zenon, <1>0, <2>2, <3>2, <3>3, SameWork DEF Works
  <2> QED
    BY <2>1, <2>2
<1> HIDE DEF h, r, v
<1>5. /\ v \in Works
      /\ v.chan = [w.chan EXCEPT !.live = FALSE]
      /\ v.sock = [w.sock EXCEPT !.live = FALSE] /\ v.pf = w.pf /\ v.ssh = w.ssh /\ v.tx = w.tx
  BY Zenon, <1>0 DEF v, Works, Chans, Socks
<1>6. Sides(v)
  BY <1>0, <1>2, <1>5 DEF Base, Sides, HalfOpened, Chans, Socks, Forwards
<1>7. ~Late(v) => SentUp(v, sv)
  BY <1>0, <1>5 DEF Base, SentUp, Chans, Late
<1>8. SentDown(v, r, sv)
  <2>1. SentDown(w, r, sv)
    BY <1>1 DEF Base, SentDown
  <2> QED
    BY <1>0, <1>5, <2>1 DEF SentDown, Chans, Late
<1>9. Opening(v, r, sv) /\ Books(v, r, sv)
  BY <1>0, <1>2, <1>5 DEF Opening, Books, Chans
<1>10. Gone(v, r, sv)
  BY <1>0, <1>1, <1>2, <1>3, <1>5 DEF Gone, HalfOpened, Works
<1>11. ~v.sock.live /\ ~v.chan.live
  BY <1>0, <1>5 DEF Chans, Socks
<1> QED
  BY Zenon, <1>1, <1>4, <1>5, <1>6, <1>7, <1>8, <1>9, <1>10, <1>11 DEF Base, r

-----------------------------------------------------------------------------
(* The handlers keep the invariant.                                        *)

\* What Others needs of the records, by type.
LEMMA Fields ==
  ASSUME NEW w \in Works
  PROVE  /\ w.chan \in Chans /\ w.pf \in Pfs /\ w.sock \in Socks /\ w.ssh \in Sshs
         /\ w.chan.outbuffer \in Nat /\ w.chan.remwindow \in Nat
         /\ w.chan.locwindow \in Int /\ w.chan.locmaxwin \in Nat
         /\ w.sock.output \in Nat /\ w.tx \in Packets(UpTypes)
         /\ w.chan.type \in {"SOCKDATA_DORMANT", "SOCKDATA", "ZOMBIE"}
         /\ w.chan.halfopen \in BOOLEAN /\ w.chan.live \in BOOLEAN
         /\ w.fault = "none"
BY DEF Works, Chans, Pfs, Socks, Sshs

\* What closing a channel does keeps what does not depend on packets.
LEMMA KeptOthers ==
  ASSUME NEW w \in Works, NEW v \in Works, NEW sv, NEW ap, Others(w, sv, ap), Kept(w, v),
         w.chan.live, v.chan.live => ~Done(v.chan)
  PROVE  Others(v, sv, ap)
<1>1. Settled(v)
  BY DEF Others, Settled, Kept, Late
<1>2. AppDone(v, ap)
  BY DEF Others, AppDone, Kept
<1>3. sv.excess = 0 => Within(v)
  BY DEF Others, Within, Kept
<1>4. Held(v)
  <2>1. "RCVD_CLOSE" \notin v.chan.closes => "RCVD_CLOSE" \notin w.chan.closes
    BY DEF Kept
  <2>2. w.chan.outbuffer \in Nat
    BY Fields
  <2>3. v.chan.live /\ ~v.chan.halfopen =>
       /\ v.sock.live => v.pf.ready
       /\ v.chan.outbuffer > 0 => v.chan.remwindow = 0 \/ SentEof(v.chan)
       /\ v.chan.pending_eof => v.chan.outbuffer > 0
    BY DEF Others, Held, Kept, SentEof
  <2>4. v.chan.live /\ ~v.chan.halfopen =>
       (v.pf.throttled /\ v.sock.live /\ "RCVD_CLOSE" \notin v.chan.closes => ~SentEof(v.chan))
    BY <2>1, <2>2 DEF Others, Held, Kept, SentEof
  <2> QED
    BY <2>1, <2>3, <2>4 DEF Others, Held, Kept
<1> QED
  BY <1>1, <1>2, <1>3, <1>4 DEF Others

\* A step of the socket that leaves less on it.
LEMMA SocketOthers ==
  ASSUME NEW w \in Works, NEW v \in Works, NEW sv, NEW ap, Others(w, sv, ap),
         v.chan = w.chan, v.pf = w.pf, v.sock.live = w.sock.live,
         v.sock.frozen = w.sock.frozen, v.sock.output <= w.sock.output,
         v.ssh.conn_throttle_count = w.ssh.conn_throttle_count,
         v.ssh.throttled_all = w.ssh.throttled_all,
         v.ssh.remote_bugs = w.ssh.remote_bugs
  PROVE  Others(v, sv, ap)
<1>1. Settled(v) /\ AppDone(v, ap) /\ Held(v)
  BY DEF Others, Settled, AppDone, Held, Late
<1>2. sv.excess = 0 => Within(v)
  BY Fields DEF Others, Within
<1> QED
  BY <1>1, <1>2 DEF Others

\* ssh2_channel_check_close keeps it.
LEMMA CheckCloseKeepsOthers ==
  ASSUME NEW w, NEW cl, NEW sv, NEW ap, Base(w, cl, sv), Others(w, sv, ap), w.chan.live
  PROVE  Base(CheckClose(w), cl, sv) /\ Others(CheckClose(w), sv, ap)
<1> DEFINE v == CheckClose(w)
<1>1. Base(v, cl, sv) /\ Kept(w, v) /\ (v.chan.live => ~Done(v.chan))
  BY CheckCloseKeepsBase
<1> HIDE DEF v
<1>2. w \in Works /\ v \in Works
  BY <1>1 DEF Base
<1> QED
  BY <1>1, <1>2, KeptOthers DEF v

\* ssh2_channel_got_eof, when the EOF or the CLOSE has been taken.
LEMMA GotEofKeeps ==
  ASSUME NEW w, NEW cl, NEW sv, NEW ap, Base(w, cl, sv), Others(w, sv, ap),
         w.chan.live, ~w.chan.halfopen, "RCVD_CLOSE" \notin w.chan.closes,
         sv.sentEof \/ sv.sentClose, Lacks(cl, {"data", "eof"})
  PROVE  LET v == GotEof(w)
         IN /\ Base(v, cl, sv) /\ Others(v, sv, ap)
            /\ v.chan.live /\ ~v.chan.halfopen /\ "RCVD_CLOSE" \notin v.chan.closes
            /\ "RCVD_EOF" \in v.chan.closes /\ v.ssh = w.ssh
<1> DEFINE x == [w EXCEPT !.chan.closes = @ \cup {"RCVD_EOF"}]
           y == IF w.chan.type = "SOCKDATA" THEN SkWriteEof(x) ELSE x
           v == CheckClose(y)
<1>0. w \in Works /\ w.chan \in Chans
  BY DEF Base, Works
<1>1. CASE "RCVD_EOF" \in w.chan.closes
  BY <1>1 DEF GotEof
<1>2. CASE "RCVD_EOF" \notin w.chan.closes
  <2>1. /\ x \in Works /\ x.chan = [w.chan EXCEPT !.closes = @ \cup {"RCVD_EOF"}]
        /\ x.sock = w.sock /\ x.pf = w.pf /\ x.ssh = w.ssh /\ x.tx = w.tx
    BY Zenon, <1>0 DEF Works, Chans
  <2>2. GotEof(w) = v
    BY <1>2 DEF GotEof
  <2> HIDE DEF x
  <2>3. Base(x, cl, sv)
    <3>1. Sides(x)
      BY <1>0, <1>2, <2>1 DEF Base, Sides, Chans, Forwards
    <3>2. ~Late(x) => SentUp(x, sv)
      BY <1>0, <2>1 DEF Base, SentUp, Chans, Late
    <3>3. SentDown(x, cl, sv)
      BY <1>0, <2>1 DEF Base, SentDown, Chans, Late
    <3>4. Opening(x, cl, sv) /\ Gone(x, cl, sv)
      BY <1>0, <2>1 DEF Base, Opening, Gone, Chans, Late
    <3>5. Books(x, cl, sv)
      BY <1>0, <2>1 DEF Base, Books, Chans, RoomOf, Late
    <3> QED
      BY <2>1, <3>1, <3>2, <3>3, <3>4, <3>5 DEF Base
  <2>4. /\ x.chan.live = w.chan.live /\ x.chan.halfopen = w.chan.halfopen
        /\ x.chan.closes = w.chan.closes \cup {"RCVD_EOF"}
        /\ x.chan.type = w.chan.type
        /\ x.chan.pending_eof = w.chan.pending_eof
        /\ x.chan.outbuffer = w.chan.outbuffer /\ x.chan.remwindow = w.chan.remwindow
        /\ x.chan.locwindow = w.chan.locwindow /\ x.chan.locmaxwin = w.chan.locmaxwin
    BY Zenon, <1>0, <2>1 DEF Chans
  <2>5. Others(x, sv, ap)
    BY <2>1, <2>4 DEF Others, Settled, Done, AppDone, Within, Held, SentEof, Late
  <2>6. Base(y, cl, sv) /\ Others(y, sv, ap) /\ y.chan = x.chan /\ y.ssh = x.ssh
    <3>1. CASE w.chan.type = "SOCKDATA"
      <4>1. w.sock.live /\ w.sock.outgoingeof = "NO"
        <5>1. w.sock.live
          BY <3>1 DEF Base, Sides, Forwards
        <5>2. w.sock.outgoingeof # "NO" => "RCVD_EOF" \in w.chan.closes
          BY <5>1 DEF Base, Sides
        <5> QED
          BY <1>2, <5>1, <5>2
      <4>2. /\ Base(y, cl, sv) /\ y.chan = x.chan /\ y.pf = x.pf /\ y.ssh = x.ssh
            /\ y.sock.live /\ y.sock.frozen = x.sock.frozen
            /\ y.sock.output <= x.sock.output
        BY Zenon, <2>1, <2>3, <2>4, <3>1, <4>1, SkWriteEofKeepsBase
      <4> HIDE DEF y
      <4>3. y \in Works /\ y.sock.live = x.sock.live
        <5>1. x.sock.live \in BOOLEAN /\ y.sock.live \in BOOLEAN
          BY <2>1, <4>2 DEF Base, Works, Socks
        <5> QED
          BY <2>1, <4>1, <4>2, <5>1 DEF Base
      <4>4. Others(y, sv, ap)
        BY <2>1, <2>5, <4>2, <4>3, SocketOthers
      <4> QED
        BY <4>2, <4>4
    <3>2. CASE w.chan.type # "SOCKDATA"
      BY <2>3, <2>5, <3>2
    <3> QED
      BY <3>1, <3>2
  <2> HIDE DEF y
  <2>7. Base(v, cl, sv) /\ Kept(y, v) /\ (v.chan.live => ~Done(v.chan))
    BY Zenon, <2>4, <2>6, CheckCloseKeepsBase
  <2> HIDE DEF v
  <2>8. Others(v, sv, ap)
    BY Zenon, <2>4, <2>6, <2>7, KeptOthers DEF Base
  <2>9. /\ v.chan.live /\ ~v.chan.halfopen /\ "RCVD_CLOSE" \notin v.chan.closes
        /\ "RCVD_EOF" \in v.chan.closes /\ v.ssh = w.ssh
    BY <2>1, <2>4, <2>6, <2>7 DEF Kept
  <2> QED
    BY <2>2, <2>7, <2>8, <2>9
<1> QED
  BY <1>1, <1>2

\* The list of requests is forgotten with a server that keeps silent after CLOSE.
LEMMA ForgetKeeps ==
  ASSUME NEW w, NEW cl, NEW sv, NEW ap, Base(w, cl, sv), Others(w, sv, ap),
         w.chan.live, ~w.chan.halfopen, sv.sentClose,
         Lacks(cl, IF Late(w) THEN DownTypes \ {"reply"} ELSE DownTypes),
         w.ssh.remote_bugs = ssh.remote_bugs
  PROVE  LET v == ForgetRequests(w)
         IN /\ Base(v, cl, sv) /\ Others(v, sv, ap)
            /\ v.chan = [w.chan EXCEPT !.remlocwin = v.chan.remlocwin,
                                       !.throttle_state = v.chan.throttle_state,
                                       !.chanreqs = v.chan.chanreqs]
            /\ v.ssh = w.ssh /\ v.sock = w.sock /\ v.pf = w.pf
            /\ ~Late(w) => v.chan.chanreqs = <<>>
<1>0. w \in Works /\ w.chan \in Chans /\ w.chan.chanreqs \in Seq(Nat) /\ w.chan.remlocwin \in Int
  BY DEF Base, Works, Chans
<1>1. Late(w) <=> LateReplies
  BY DEF Late, LateReplies, Has
<1>2. CASE LateReplies
  <2>1. ForgetRequests(w) = w
    BY <1>2 DEF ForgetRequests
  <2>2. w.chan = [w.chan EXCEPT !.remlocwin = w.chan.remlocwin,
                                !.throttle_state = w.chan.throttle_state,
                                !.chanreqs = w.chan.chanreqs]
    BY Zenon, <1>0 DEF Chans
  <2> QED
    BY <1>1, <1>2, <2>1, <2>2
<1>3. CASE ~LateReplies
  <2> DEFINE rem == w.chan.remlocwin + Total(w.chan.chanreqs)
             state == IF w.chan.throttle_state = "UNTHROTTLING" /\ w.chan.chanreqs # <<>>
                      THEN "UNTHROTTLED" ELSE w.chan.throttle_state
             v == [w EXCEPT !.chan.remlocwin = rem, !.chan.throttle_state = state,
                            !.chan.chanreqs = <<>>]
  <2>1. ForgetRequests(w) = v
    BY <1>3 DEF ForgetRequests
  <2>2. rem \in Int
    <3>1. Total(w.chan.chanreqs) \in Nat
      BY <1>0, TotalNat
    <3> QED
      BY <1>0, <3>1
  <2>3. state \in {"UNTHROTTLED", "THROTTLED", "UNTHROTTLING"}
    BY <1>0 DEF Chans
  <2> HIDE DEF rem, state
  <2>4. /\ v \in Works
        /\ v.chan = [w.chan EXCEPT !.remlocwin = rem, !.throttle_state = state, !.chanreqs = <<>>]
        /\ v.sock = w.sock /\ v.pf = w.pf /\ v.ssh = w.ssh /\ v.tx = w.tx
    <3>1. <<>> \in Seq(Nat)
      OBVIOUS
    <3> QED
      BY Zenon, <1>0, <2>2, <2>3, <3>1 DEF Works, Chans
  <2> HIDE DEF v
  <2>5. /\ v.chan.live = w.chan.live /\ v.chan.halfopen = w.chan.halfopen
        /\ v.chan.closes = w.chan.closes
        /\ v.chan.type = w.chan.type /\ v.chan.chanreqs = <<>>
        /\ v.chan.pending_eof = w.chan.pending_eof
        /\ v.chan.throttling_conn = w.chan.throttling_conn
        /\ v.chan.outbuffer = w.chan.outbuffer /\ v.chan.remwindow = w.chan.remwindow
        /\ v.chan.locwindow = w.chan.locwindow /\ v.chan.locmaxwin = w.chan.locmaxwin
    BY Zenon, <1>0, <2>4 DEF Chans
  <2>6. cl = <<>>
    BY Zenon, <1>1, <1>3, NothingLeft DEF Base
  <2>7. Base(v, cl, sv)
    <3>1. Sides(v)
      BY <2>4, <2>5 DEF Base, Sides, Forwards
    <3>2. ~Late(v) => SentUp(v, sv)
      BY <2>4, <2>5 DEF Base, SentUp, Late
    <3>3. SentDown(v, cl, sv)
      BY <2>4, <2>5 DEF Base, SentDown, Late
    <3>4. Opening(v, cl, sv) /\ Gone(v, cl, sv)
      BY <2>4, <2>5 DEF Base, Opening, Gone, Late
    <3>5. Books(v, cl, sv)
      <4>1. Count(cl, "reply") = 0 /\ Len(v.chan.chanreqs) = 0
        BY <2>5, <2>6, AmountsOfNone
      <4>2. ~Late(v) /\ sv.sentClose
        BY <1>1, <1>3, <2>4 DEF Late
      <4>3. Len(v.chan.chanreqs) >= Count(cl, "reply")
        BY <4>1
      <4> QED
        BY <2>4, <2>5, <4>2, <4>3 DEF Base, Books, RoomOf
    <3> QED
      BY <2>4, <3>1, <3>2, <3>3, <3>4, <3>5 DEF Base
  <2>8. Others(v, sv, ap)
    BY <2>4, <2>5 DEF Others, Settled, Done, AppDone, Within, Held, SentEof, Late
  <2>9. v.chan = [w.chan EXCEPT !.remlocwin = v.chan.remlocwin,
                                !.throttle_state = v.chan.throttle_state,
                                !.chanreqs = v.chan.chanreqs]
    BY <1>0, <2>4 DEF Chans
  <2> QED
    BY <2>1, <2>4, <2>5, <2>7, <2>8, <2>9
<1> QED
  BY <1>2, <1>3

\* pfd_override_throttle touches nothing but whether the socket is read.
LEMMA OverrideKeepsBase ==
  ASSUME NEW w, NEW cl, NEW sv, Base(w, cl, sv), ~w.chan.halfopen, NEW enable \in BOOLEAN
  PROVE  LET v == OverrideThrottle(w, enable)
         IN /\ Base(v, cl, sv) /\ v.chan = w.chan /\ v.ssh = w.ssh
            /\ v.sock = [w.sock EXCEPT !.frozen = w.pf.throttled \/ enable]
            /\ v.pf = [w.pf EXCEPT !.throttle_override = enable]
<1> DEFINE v == OverrideThrottle(w, enable)
           f == w.pf.throttled \/ enable
<1>0. w \in Works /\ w.pf \in Pfs /\ w.sock \in Socks
  BY DEF Base, Works
<1>1. f \in BOOLEAN
  OBVIOUS
<1>2. v = [w EXCEPT !.pf.throttle_override = enable, !.sock.frozen = f]
  BY <1>0 DEF OverrideThrottle, SetFrozen, Works
<1> HIDE DEF v, f
<1>3. /\ v \in Works /\ v.chan = w.chan /\ v.ssh = w.ssh /\ v.tx = w.tx
      /\ v.sock = [w.sock EXCEPT !.frozen = f]
      /\ v.pf = [w.pf EXCEPT !.throttle_override = enable]
  BY Zenon, <1>0, <1>1, <1>2 DEF Works, Pfs, Socks
<1>4. v.sock.live = w.sock.live /\ v.sock.outgoingeof = w.sock.outgoingeof
  BY <1>0, <1>3 DEF Socks
<1>5. v.sock.live /\ v.sock.outgoingeof # "NO" => "RCVD_EOF" \in w.chan.closes
  BY <1>4 DEF Base, Sides
<1>6. Base(v, cl, sv)
  BY Zenon, <1>3, <1>4, <1>5, SocketStepKeepsBase
<1> QED
  BY <1>3, <1>6 DEF v, f

\* What still waited in the outbuffer is thrown away.
LEMMA EmptyingKeepsBase ==
  ASSUME NEW w, NEW cl, NEW sv, Base(w, cl, sv), ~w.chan.halfopen
  PROVE  LET v == [w EXCEPT !.chan.outbuffer = 0]
         IN /\ Base(v, cl, sv) /\ v.chan = [w.chan EXCEPT !.outbuffer = 0]
            /\ v.ssh = w.ssh /\ v.sock = w.sock /\ v.pf = w.pf
<1> DEFINE v == [w EXCEPT !.chan.outbuffer = 0]
<1>0. w \in Works /\ w.chan \in Chans
  BY DEF Base, Works
<1>1. /\ v \in Works /\ v.chan = [w.chan EXCEPT !.outbuffer = 0]
      /\ v.sock = w.sock /\ v.pf = w.pf /\ v.ssh = w.ssh /\ v.tx = w.tx
  BY Zenon, <1>0 DEF Works, Chans
<1> HIDE DEF v
<1>2. Sides(v)
  BY <1>0, <1>1 DEF Base, Sides, Chans, Forwards
<1>3. ~Late(v) => SentUp(v, sv)
  BY <1>0, <1>1 DEF Base, SentUp, Chans, Late
<1>4. SentDown(v, cl, sv)
  BY <1>0, <1>1 DEF Base, SentDown, Chans, Late
<1>5. Opening(v, cl, sv) /\ Gone(v, cl, sv)
  BY <1>0, <1>1 DEF Base, Opening, Gone, Chans, Late
<1>6. Books(v, cl, sv)
  BY <1>0, <1>1 DEF Base, Books, Chans, RoomOf, Late
<1> QED
  BY <1>1, <1>2, <1>3, <1>4, <1>5, <1>6 DEF Base, v

\* What the CLOSE does before it is noted.
LEMMA StopSendingKeeps ==
  ASSUME NEW w, NEW cl, NEW sv, NEW ap, Base(w, cl, sv), Others(w, sv, ap),
         w.chan.live, ~w.chan.halfopen, "RCVD_CLOSE" \notin w.chan.closes
  PROVE  LET v == StopSending(w)
         IN /\ Base(v, cl, sv)
            /\ v.chan.live /\ ~v.chan.halfopen /\ ~Done(v.chan)
            /\ "SENT_EOF" \in v.chan.closes /\ ~v.chan.pending_eof
            /\ w.chan.closes \subseteq v.chan.closes
            /\ "RCVD_CLOSE" \notin v.chan.closes
            /\ v.chan.chanreqs = w.chan.chanreqs /\ v.ssh = w.ssh
            /\ sv.excess = 0 => Within(v)
            /\ v.pf.ready = w.pf.ready /\ (v.sock.live => w.sock.live)
<1> DEFINE x == IF w.chan.type = "SOCKDATA" THEN OverrideThrottle(w, TRUE) ELSE w
           y == [x EXCEPT !.chan.outbuffer = 0]
           p == [y EXCEPT !.chan.pending_eof = TRUE]
           v == WriteEof(y)
<1>0. w \in Works /\ w.chan \in Chans /\ w.sock \in Socks /\ w.pf \in Pfs
  BY DEF Base, Works
<1>1. ~Done(w.chan)
  BY DEF Done
<1>2. CASE "SENT_EOF" \in w.chan.closes
  <2>1. StopSending(w) = w
    BY <1>2 DEF StopSending, SentEof
  <2>2. ~w.chan.pending_eof
    BY <1>2 DEF Base, Sides
  <2> QED
    BY <1>1, <1>2, <2>1, <2>2 DEF Others
<1>3. CASE "SENT_EOF" \notin w.chan.closes
  <2>1. StopSending(w) = Touch(v)
    BY <1>3 DEF StopSending, SentEof
  <2>2. /\ Base(x, cl, sv) /\ x.chan = w.chan /\ x.ssh = w.ssh
        /\ x.sock.live = w.sock.live /\ x.sock.output = w.sock.output
        /\ x.pf.ready = w.pf.ready
    <3>1. CASE w.chan.type = "SOCKDATA"
      <4>1. TRUE \in BOOLEAN
        OBVIOUS
      <4>2. /\ Base(x, cl, sv) /\ x.chan = w.chan /\ x.ssh = w.ssh
            /\ x.sock = [w.sock EXCEPT !.frozen = w.pf.throttled \/ TRUE]
            /\ x.pf = [w.pf EXCEPT !.throttle_override = TRUE]
        BY Zenon, <3>1, <4>1, OverrideKeepsBase
      <4> QED
        BY Zenon, <1>0, <4>2 DEF Socks, Pfs
    <3>2. CASE w.chan.type # "SOCKDATA"
      BY <3>2
    <3> QED
      BY Zenon, <3>1, <3>2
  <2> HIDE DEF x
  <2>3. /\ Base(y, cl, sv) /\ y.chan = [w.chan EXCEPT !.outbuffer = 0]
        /\ y.ssh = w.ssh /\ y.sock = x.sock /\ y.pf = x.pf
    BY <2>2, EmptyingKeepsBase
  <2> HIDE DEF y
  <2>4. /\ y.chan.live /\ ~y.chan.halfopen /\ y.chan.outbuffer = 0
        /\ y.chan.closes = w.chan.closes /\ y.chan.chanreqs = w.chan.chanreqs
        /\ y.chan.locwindow = w.chan.locwindow /\ y.chan.locmaxwin = w.chan.locmaxwin
    BY <1>0, <2>3 DEF Chans
  <2>5. ~Done(y.chan)
    BY <1>1, <2>4 DEF Done
  <2>6. /\ Base(v, cl, sv) /\ Kept(p, v) /\ v.chan.live /\ ~Done(v.chan)
        /\ v.chan.pending_eof => y.chan.halfopen \/ y.chan.outbuffer > 0
        /\ "SENT_EOF" \in v.chan.closes
    BY Zenon, <2>3, <2>4, <2>5, WriteEofKeepsBase
  <2>7. y \in Works /\ y.chan \in Chans
    BY <2>3 DEF Base, Works
  <2>8. /\ p.pf = y.pf /\ p.ssh = y.ssh /\ p.sock = y.sock
        /\ p.chan = [y.chan EXCEPT !.pending_eof = TRUE]
    BY <2>7 DEF Works
  <2>9. /\ p.chan.halfopen = y.chan.halfopen /\ p.chan.closes = y.chan.closes
        /\ p.chan.chanreqs = y.chan.chanreqs
        /\ p.chan.locwindow = y.chan.locwindow /\ p.chan.locmaxwin = y.chan.locmaxwin
    BY <2>7, <2>8 DEF Chans
  <2> HIDE DEF v, p
  <2>10. Touch(v) = v
    BY <2>6 DEF Touch
  <2>11. sv.excess = 0 => Within(v)
    <3>1. sv.excess = 0 => Within(w)
      BY DEF Others
    <3> QED
      BY <2>2, <2>3, <2>4, <2>6, <2>8, <2>9, <3>1 DEF Within, Kept
  <2>12. ~v.chan.pending_eof
    BY <2>4, <2>6
  <2>13. /\ ~v.chan.halfopen /\ w.chan.closes \subseteq v.chan.closes
         /\ "RCVD_CLOSE" \notin v.chan.closes
         /\ v.chan.chanreqs = w.chan.chanreqs /\ v.ssh = w.ssh
         /\ v.pf.ready = w.pf.ready /\ (v.sock.live => w.sock.live)
    BY <2>2, <2>3, <2>4, <2>6, <2>8, <2>9 DEF Kept
  <2> QED
    BY <2>1, <2>6, <2>10, <2>11, <2>12, <2>13
<1> QED
  BY <1>2, <1>3

\* ssh2_msg_channel_close, when the CLOSE has been taken.
LEMMA GotCloseKeeps ==
  ASSUME NEW w, NEW cl, NEW sv, NEW ap, Base(w, cl, sv), Others(w, sv, ap),
         w.chan.live, ~w.chan.halfopen, "RCVD_CLOSE" \notin w.chan.closes,
         sv.sentClose,
         Lacks(cl, IF Late(w) THEN DownTypes \ {"reply"} ELSE DownTypes),
         w.ssh.remote_bugs = ssh.remote_bugs
  PROVE  Base(GotClose(w), cl, sv) /\ Others(GotClose(w), sv, ap)
<1> DEFINE a == GotEof(w)
           b == ForgetRequests(a)
           c == StopSending(b)
           d == [c EXCEPT !.chan.closes = @ \cup {"RCVD_CLOSE"}]
           v == CheckClose(d)
<1>0. Lacks(cl, {"data", "eof"})
  BY DEF Lacks, DownTypes
<1>1. /\ Base(a, cl, sv) /\ Others(a, sv, ap)
      /\ a.chan.live /\ ~a.chan.halfopen /\ "RCVD_CLOSE" \notin a.chan.closes
      /\ "RCVD_EOF" \in a.chan.closes /\ a.ssh = w.ssh
  BY <1>0, GotEofKeeps
<1>2. Touch(a) = a
  BY <1>1 DEF Touch
<1> HIDE DEF a
<1>3. a.chan \in Chans /\ (Late(a) <=> Late(w))
  BY <1>1 DEF Base, Works, Late
<1>4. /\ Base(b, cl, sv) /\ Others(b, sv, ap)
      /\ b.chan = [a.chan EXCEPT !.remlocwin = b.chan.remlocwin,
                                 !.throttle_state = b.chan.throttle_state,
                                 !.chanreqs = b.chan.chanreqs]
      /\ b.ssh = a.ssh
      /\ ~Late(a) => b.chan.chanreqs = <<>>
  <2>1. Lacks(cl, IF Late(a) THEN DownTypes \ {"reply"} ELSE DownTypes)
    BY <1>3
  <2> QED
    BY Zenon, <1>1, <2>1, ForgetKeeps
<1> HIDE DEF b
<1>5. /\ b.chan.live /\ ~b.chan.halfopen /\ "RCVD_CLOSE" \notin b.chan.closes
      /\ "RCVD_EOF" \in b.chan.closes
  BY Zenon, <1>1, <1>3, <1>4 DEF Chans
<1>6. /\ Base(c, cl, sv)
      /\ c.chan.live /\ ~c.chan.halfopen /\ ~Done(c.chan)
      /\ "SENT_EOF" \in c.chan.closes /\ ~c.chan.pending_eof
      /\ b.chan.closes \subseteq c.chan.closes
      /\ "RCVD_CLOSE" \notin c.chan.closes
      /\ c.chan.chanreqs = b.chan.chanreqs /\ c.ssh = b.ssh
      /\ sv.excess = 0 => Within(c)
      /\ c.pf.ready = b.pf.ready /\ (c.sock.live => b.sock.live)
  BY Zenon, <1>4, <1>5, StopSendingKeeps
<1> HIDE DEF c
<1>7. c \in Works /\ c.chan \in Chans
  BY <1>6 DEF Base, Works
<1>8. /\ d \in Works /\ d.chan = [c.chan EXCEPT !.closes = @ \cup {"RCVD_CLOSE"}]
      /\ d.sock = c.sock /\ d.pf = c.pf /\ d.ssh = c.ssh /\ d.tx = c.tx
  BY Zenon, <1>7 DEF Works, Chans
<1> HIDE DEF d
<1>9. /\ d.chan.live /\ ~d.chan.halfopen
      /\ d.chan.closes = c.chan.closes \cup {"RCVD_CLOSE"}
      /\ d.chan.pending_eof = c.chan.pending_eof /\ d.chan.chanreqs = c.chan.chanreqs
      /\ d.chan.locwindow = c.chan.locwindow /\ d.chan.locmaxwin = c.chan.locmaxwin
  BY <1>6, <1>7, <1>8 DEF Chans
<1>10. {"SENT_EOF", "RCVD_EOF", "RCVD_CLOSE"} \subseteq d.chan.closes
  BY <1>5, <1>6, <1>9
<1>11. Late(c) <=> Late(w)
  BY <1>1, <1>4, <1>6 DEF Late
<1>12. Base(d, cl, sv)
  <2>1. Sides(d)
    BY <1>6, <1>7, <1>8, <1>10 DEF Base, Sides, Chans, Forwards
  <2>2. ~Late(d) => SentUp(d, sv)
    BY <1>6, <1>7, <1>8 DEF Base, SentUp, Chans, Late
  <2>3. SentDown(d, cl, sv)
    <3>1. Lacks(cl, IF Late(d) THEN DownTypes \ {"reply"} ELSE DownTypes)
      BY <1>8, <1>11 DEF Late
    <3>2. /\ Ordered(cl, DownOrder(Late(d)))
          /\ ~sv.sentEof => Lacks(cl, {"eof"})
          /\ sv.state # "refused" => Lacks(cl, {"failure"})
          /\ sv.state # "open" => ~sv.sentClose /\ ~sv.sentEof /\ d.chan.halfopen
      BY <1>6, <1>8 DEF Base, SentDown, Late
    <3> QED
      BY <1>0, <3>1, <3>2 DEF SentDown
  <2>4. Opening(d, cl, sv) /\ Gone(d, cl, sv)
    BY <1>6, <1>7, <1>8 DEF Base, Opening, Gone, Chans, Late
  <2>5. Books(d, cl, sv)
    BY <1>6, <1>7, <1>8 DEF Base, Books, Chans, RoomOf, Late
  <2> QED
    BY <1>6, <1>8, <2>1, <2>2, <2>3, <2>4, <2>5 DEF Base
<1>13. GotClose(w) = v
  BY <1>2, <1>6 DEF GotClose, a, b, c, d
<1>14. /\ Base(v, cl, sv) /\ Kept(d, v)
       /\ v.chan.live => ~Done(v.chan)
       /\ d.chan.chanreqs = <<>> => ~v.chan.live
       /\ v.chan.pending_eof = d.chan.pending_eof
  BY Zenon, <1>9, <1>10, <1>12, CheckCloseKeepsBase
<1> HIDE DEF v
<1>15. "RCVD_CLOSE" \in v.chan.closes /\ "SENT_EOF" \in v.chan.closes /\ ~v.chan.pending_eof
  BY <1>6, <1>9, <1>10, <1>14 DEF Kept
<1>16. Settled(v)
  <2>1. v.chan.live => Late(v)
    BY <1>3, <1>4, <1>6, <1>8, <1>9, <1>11, <1>14 DEF Kept, Late
  <2> QED
    BY <1>14, <2>1 DEF Settled
<1>17. AppDone(v, ap)
  BY <1>15 DEF AppDone
<1>18. sv.excess = 0 => Within(v)
  BY <1>6, <1>8, <1>9, <1>14 DEF Within, Kept
<1>19. Held(v)
  <2>1. v.sock.live => v.pf.ready
    BY <1>4, <1>5, <1>6, <1>8, <1>14 DEF Kept, Others, Held
  <2> QED
    BY <1>15, <2>1 DEF Held, SentEof
<1> QED
  BY <1>13, <1>14, <1>16, <1>17, <1>18, <1>19 DEF Others

\* locmaxwin grows.
LEMMA GrowKeepsBase ==
  ASSUME NEW w, NEW cl, NEW sv, Base(w, cl, sv), NEW grows \in BOOLEAN
  PROVE  LET v == [w EXCEPT !.chan.locmaxwin = IF grows THEN @ + WinSize ELSE @]
         IN /\ Base(v, cl, sv) /\ v.sock = w.sock /\ v.pf = w.pf /\ v.ssh = w.ssh
            /\ v.chan = [w.chan EXCEPT !.locmaxwin = v.chan.locmaxwin]
            /\ v.chan.locmaxwin \in Nat /\ w.chan.locmaxwin <= v.chan.locmaxwin
<1> DEFINE max == IF grows THEN w.chan.locmaxwin + WinSize ELSE w.chan.locmaxwin
           v == [w EXCEPT !.chan.locmaxwin = max]
<1>0. w \in Works /\ w.chan \in Chans /\ w.chan.locmaxwin \in Nat
  BY DEF Base, Works, Chans
<1>1. max \in Nat /\ w.chan.locmaxwin <= max
  BY <1>0, Sizes
<1>2. [w EXCEPT !.chan.locmaxwin = IF grows THEN @ + WinSize ELSE @] = v
  OBVIOUS
<1> HIDE DEF max
<1>3. /\ v \in Works /\ v.chan = [w.chan EXCEPT !.locmaxwin = max]
      /\ v.sock = w.sock /\ v.pf = w.pf /\ v.ssh = w.ssh /\ v.tx = w.tx
  BY Zenon, <1>0, <1>1 DEF Works, Chans
<1> HIDE DEF v
<1>4. v.chan.locmaxwin = max
  BY <1>0, <1>3 DEF Chans
<1>5. v.chan = [w.chan EXCEPT !.remlocwin = v.chan.remlocwin,
                              !.throttle_state = v.chan.throttle_state,
                              !.locmaxwin = v.chan.locmaxwin]
  BY Zenon, <1>0, <1>3 DEF Chans
<1>6. Base(v, cl, sv)
  BY Zenon, <1>3, <1>5, ChanStepKeepsBase
<1> QED
  BY Zenon, <1>1, <1>2, <1>3, <1>4, <1>6

\* The frozen socket and what waits in the outbuffer are none of the window's.
LEMMA GrantedOthers ==
  ASSUME NEW w \in Works, NEW v \in Works, NEW sv, NEW ap, Others(w, sv, ap), Granted(w, v),
         sv.excess = 0 => Within(v)
  PROVE  Others(v, sv, ap)
<1>1. w.ssh \in Sshs
  BY DEF Works
<1>2. v.ssh.throttled_all = w.ssh.throttled_all /\ v.ssh.remote_bugs = w.ssh.remote_bugs
  BY <1>1 DEF Granted, Sshs
<1>3. Settled(v) /\ AppDone(v, ap) /\ Held(v)
  BY <1>2 DEF Others, Settled, Done, AppDone, Held, SentEof, Late, Granted
<1> QED
  BY <1>3 DEF Others

\* ssh2_msg_channel_data
LEMMA GotDataKeeps ==
  ASSUME NEW w, NEW q, NEW sv, NEW ap, Base(w, q, sv), Others(w, sv, ap), q # <<>>,
         w.chan.live, ~w.chan.halfopen, Head(q).type = "data"
  PROVE  LET v == GotData(w, Head(q).n)
         IN Base(v, Tail(q), sv) /\ Others(v, sv, ap)
<1> DEFINE n == Head(q).n
           cl == Tail(q)
           a == Accounts(w, n)
           b == IF w.chan.type = "SOCKDATA" THEN SkWrite(a, n) ELSE a
           size == IF w.chan.type = "SOCKDATA" THEN b.sock.output ELSE 0
           grows == /\ b.chan.remlocwin <= 0
                    /\ b.chan.throttle_state = "UNTHROTTLED"
                    /\ b.chan.locmaxwin < MaxWin
           t == [b EXCEPT !.chan.locmaxwin = IF grows THEN @ + WinSize ELSE @]
           r == SetWindow(t, WindowFor(t, size))
           z == ThrottleConn([r EXCEPT !.chan.throttling_conn = TRUE], 1)
           v == GotData(w, n)
<1>0. w \in Works /\ w.chan \in Chans /\ w.chan.type \in {"SOCKDATA_DORMANT", "SOCKDATA", "ZOMBIE"}
      /\ w.chan.locwindow \in Int /\ w.chan.locmaxwin \in Nat /\ w.sock.output \in Nat
      /\ sv.excess \in Nat /\ sv.win \in Int
  BY Fields DEF Base, Servers
<1>1. /\ Base(a, cl, sv) /\ a.sock = w.sock /\ a.pf = w.pf /\ a.ssh = w.ssh
      /\ a.chan = [w.chan EXCEPT !.locwindow = @ - n, !.remlocwin = @ - n]
      /\ n \in Nat /\ "RCVD_EOF" \notin w.chan.closes
      /\ sv.win >= 0 => a.chan.locwindow >= 0
  BY Zenon, TakeData
<1> HIDE DEF a, n, cl
<1>2. /\ a.chan.live /\ ~a.chan.halfopen /\ a.chan.type = w.chan.type
      /\ a.chan.closes = w.chan.closes /\ a.chan.locwindow = w.chan.locwindow - n
      /\ a.chan.locmaxwin = w.chan.locmaxwin /\ a.chan.pending_eof = w.chan.pending_eof
      /\ a.chan.outbuffer = w.chan.outbuffer /\ a.chan.remwindow = w.chan.remwindow
  BY <1>0, <1>1 DEF Chans
<1>3. w.sock.live <=> w.chan.type = "SOCKDATA"
  BY <1>0 DEF Base, Sides, Forwards
<1>4. /\ Base(b, cl, sv) /\ b.chan = a.chan /\ b.pf = w.pf /\ b.ssh = w.ssh
      /\ b.sock.live = w.sock.live /\ b.sock.frozen = w.sock.frozen
      /\ b.sock.output <= w.sock.output + n
  <2>1. CASE w.chan.type = "SOCKDATA"
    <3>1. a.sock.live /\ "RCVD_EOF" \notin a.chan.closes
      BY <1>1, <1>2, <1>3, <2>1
    <3>2. /\ Base(b, cl, sv) /\ b.chan = a.chan /\ b.pf = a.pf /\ b.ssh = a.ssh
          /\ b.sock.live /\ b.sock.frozen = a.sock.frozen
          /\ b.sock.output <= a.sock.output + n
      <4>1. b = SkWrite(a, n)
        BY <2>1
      <4> HIDE DEF b
      <4>2. Base(a, cl, sv) /\ a.sock.live /\ ~a.chan.halfopen
            /\ "RCVD_EOF" \notin a.chan.closes /\ n \in Nat
        BY <1>1, <1>2, <3>1
      <4>3. /\ Base(SkWrite(a, n), cl, sv) /\ SkWrite(a, n).chan = a.chan
            /\ SkWrite(a, n).pf = a.pf /\ SkWrite(a, n).ssh = a.ssh
            /\ SkWrite(a, n).sock.live /\ SkWrite(a, n).sock.frozen = a.sock.frozen
            /\ SkWrite(a, n).sock.output <= a.sock.output + n
        BY <4>2, SkWriteKeepsBase
      <4> QED
        BY <4>1, <4>3
    <3> HIDE DEF b
    <3>3. b.sock.live = w.sock.live
      <4>1. b.sock.live \in BOOLEAN /\ w.sock.live \in BOOLEAN
        BY <1>0, <3>2 DEF Base, Works, Socks
      <4> QED
        BY Zenon, <1>3, <2>1, <3>2, <4>1
    <3> QED
      BY Zenon, <1>1, <3>2, <3>3
  <2>2. CASE w.chan.type # "SOCKDATA"
    BY <1>0, <1>1, <2>2
  <2> QED
    BY <2>1, <2>2
<1> HIDE DEF b
<1>5. b \in Works /\ b.sock.output \in Nat /\ b.chan \in Chans
  BY <1>4, Fields DEF Base
<1>6. size \in Nat
  BY <1>5
<1>7. grows \in BOOLEAN
  OBVIOUS
<1> HIDE DEF grows
<1>8. /\ Base(t, cl, sv) /\ t.sock = b.sock /\ t.pf = b.pf /\ t.ssh = b.ssh
      /\ t.chan = [b.chan EXCEPT !.locmaxwin = t.chan.locmaxwin]
      /\ t.chan.locmaxwin \in Nat /\ b.chan.locmaxwin <= t.chan.locmaxwin
  BY SMTT(60), <1>4, <1>7, GrowKeepsBase
<1> HIDE DEF t
<1>9. /\ t.chan.live /\ ~t.chan.halfopen /\ t.chan.type = w.chan.type
      /\ t.chan.closes = w.chan.closes /\ t.chan.locwindow = w.chan.locwindow - n
      /\ w.chan.locmaxwin <= t.chan.locmaxwin /\ t.chan.pending_eof = w.chan.pending_eof
      /\ t.chan.outbuffer = w.chan.outbuffer /\ t.chan.remwindow = w.chan.remwindow
  <2>1. /\ t.chan.live = b.chan.live /\ t.chan.halfopen = b.chan.halfopen
        /\ t.chan.type = b.chan.type /\ t.chan.closes = b.chan.closes
        /\ t.chan.locwindow = b.chan.locwindow
        /\ t.chan.pending_eof = b.chan.pending_eof
        /\ t.chan.outbuffer = b.chan.outbuffer /\ t.chan.remwindow = b.chan.remwindow
    BY Zenon, <1>5, <1>8 DEF Chans
  <2>2. w.chan.locmaxwin <= t.chan.locmaxwin
    BY <1>2, <1>4, <1>8
  <2> QED
    BY <1>2, <1>4, <2>1, <2>2
<1>10. t \in Works /\ WindowFor(t, size) \in Nat
  BY <1>6, <1>8, WindowForNat DEF Base
<1>11. Base(r, cl, sv) /\ Windowed(t, r, WindowFor(t, size))
  BY <1>8, <1>9, <1>10, SetWindowKeepsBase
<1> HIDE DEF r
<1>12. r \in Works /\ r.chan \in Chans /\ r.ssh \in Sshs /\ r.chan.throttling_conn \in BOOLEAN
  BY <1>11 DEF Base, Works, Chans
<1>13. v = IF size > r.chan.locmaxwin /\ ~r.chan.throttling_conn THEN z ELSE r
  <2>1. Touch(b) = b
    BY <1>2, <1>4 DEF Touch
  <2> QED
    BY ZenonT(60), <1>1, <2>1 DEF GotData, a, b, t, r, grows
<1> HIDE DEF v
<1>14. sv.excess = 0 => Within(r) /\ (w.sock.live => size <= r.chan.locmaxwin)
  <2> SUFFICES ASSUME sv.excess = 0
               PROVE  Within(r) /\ (w.sock.live => size <= r.chan.locmaxwin)
    OBVIOUS
  <2>1. Within(w) /\ sv.win >= 0
    BY <1>0 DEF Others
  <2>2. t.chan.locwindow >= 0
    BY <1>1, <1>2, <1>9, <2>1
  <2>3. Within(t)
    <3>1. t.sock.live => t.sock.output <= w.sock.output + n /\ w.sock.live
      BY <1>4, <1>8
    <3>2. t.ssh.conn_throttle_count = 0
      BY <1>4, <1>8, <2>1 DEF Within
    <3>3. t.sock.output \in Nat /\ t.chan.locmaxwin \in Nat
      BY <1>10, Fields
    <3> QED
      BY SMTT(60), <1>0, <1>1, <1>9, <2>1, <3>1, <3>2, <3>3 DEF Within
  <2>4. t.sock.live => size = t.sock.output
    BY <1>3, <1>4, <1>8
  <2>5. Within(r) /\ (t.sock.live => size <= r.chan.locmaxwin)
    BY <1>6, <1>10, <1>11, <1>12, <2>2, <2>3, <2>4, SetWindowWithin
  <2> QED
    BY <1>4, <1>8, <2>5
<1>15. ASSUME ~(size > r.chan.locmaxwin /\ ~r.chan.throttling_conn)
       PROVE  Base(v, cl, sv) /\ Others(v, sv, ap)
  <2>1. v = r
    BY <1>13, <1>15
  <2>2. Settled(r) /\ AppDone(r, ap) /\ Held(r)
    BY <1>4, <1>8, <1>9, <1>11 DEF Others, Settled, Done, AppDone, Held, SentEof, Late, Windowed
  <2> QED
    BY <1>11, <1>14, <2>1, <2>2 DEF Others
<1>16. ASSUME size > r.chan.locmaxwin, ~r.chan.throttling_conn
       PROVE  Base(v, cl, sv) /\ Others(v, sv, ap)
  <2>1. v = z
    BY <1>13, <1>16
  <2>2. r.chan.live /\ ~r.chan.halfopen
    BY <1>9, <1>11 DEF Windowed
  <2>3. /\ Base(z, cl, sv)
        /\ z.chan = [r.chan EXCEPT !.throttling_conn = TRUE]
        /\ z.sock = r.sock /\ z.pf = r.pf
        /\ z.ssh = [r.ssh EXCEPT !.conn_throttle_count = 1]
    <3> DEFINE freeze == TRUE
               zz == ThrottleConn([r EXCEPT !.chan.throttling_conn = freeze],
                                  IF freeze THEN 1 ELSE -1)
    <3>1. freeze \in BOOLEAN /\ r.chan.throttling_conn # freeze
      BY Zenon, <1>12, <1>16
    <3>2. /\ Base(zz, cl, sv)
          /\ zz.chan = [r.chan EXCEPT !.throttling_conn = freeze]
          /\ zz.sock = r.sock /\ zz.pf = r.pf
          /\ zz.ssh = [r.ssh EXCEPT !.conn_throttle_count = IF freeze THEN 1 ELSE 0]
      <4> HIDE DEF freeze
      <4> QED
        BY SMTT(60), <1>11, <2>2, <3>1, ThrottleConnKeepsBase
    <3> QED
      BY <3>2
  <2> HIDE DEF z
  <2>4. /\ z.chan.live = r.chan.live /\ z.chan.halfopen = r.chan.halfopen
        /\ z.chan.closes = r.chan.closes /\ z.chan.pending_eof = r.chan.pending_eof
        /\ z.chan.outbuffer = r.chan.outbuffer /\ z.chan.remwindow = r.chan.remwindow
        /\ z.ssh.throttled_all = r.ssh.throttled_all /\ z.ssh.remote_bugs = r.ssh.remote_bugs
    BY <1>12, <2>3 DEF Chans, Sshs
  <2>5. Settled(z) /\ AppDone(z, ap) /\ Held(z)
    BY <1>4, <1>8, <1>9, <1>11, <2>3, <2>4
    DEF Others, Settled, Done, AppDone, Held, SentEof, Late, Windowed
  <2>6. sv.excess # 0
    <3>1. r.chan.locmaxwin \in Nat
      BY <1>12, Fields
    <3>2. w.sock.live \/ size = 0
      BY <1>3
    <3>3. sv.excess = 0 => size <= r.chan.locmaxwin
      BY <1>6, <1>14, <3>1, <3>2
    <3> QED
      BY <1>6, <1>16, <3>1, <3>3
  <2> QED
    BY <2>1, <2>3, <2>5, <2>6 DEF Others
<1> QED
  BY <1>15, <1>16 DEF v, n, cl

\* ssh2_msg_channel_window_adjust
LEMMA AdjustKeeps ==
  ASSUME NEW w, NEW q, NEW sv, NEW ap, Base(w, q, sv), Others(w, sv, ap), q # <<>>,
         w.chan.live, ~w.chan.halfopen, Head(q).type = "adjust", "SENT_EOF" \notin w.chan.closes
  PROVE  LET v == TrySendAndUnthrottle([w EXCEPT !.chan.remwindow = @ + Head(q).n])
         IN Base(v, Tail(q), sv) /\ Others(v, sv, ap)
<1> DEFINE cl == Tail(q)
           x == [w EXCEPT !.chan.remwindow = @ + Head(q).n]
           o == [x EXCEPT !.chan.remwindow = 0]
           v == TrySendAndUnthrottle(x)
<1>1. /\ Base(x, cl, sv) /\ x.sock = w.sock /\ x.pf = w.pf /\ x.ssh = w.ssh
      /\ x.chan = [w.chan EXCEPT !.remwindow = @ + Head(q).n]
  BY TakeAdjust
<1> HIDE DEF x, cl
<1>2. w.chan \in Chans /\ x.chan \in Chans /\ x \in Works /\ w \in Works
  BY <1>1 DEF Base, Works
<1>3. /\ x.chan.live /\ ~x.chan.halfopen /\ x.chan.closes = w.chan.closes
      /\ x.chan.locwindow = w.chan.locwindow /\ x.chan.locmaxwin = w.chan.locmaxwin
      /\ x.chan.pending_eof = w.chan.pending_eof /\ x.chan.outbuffer = w.chan.outbuffer
  BY <1>1, <1>2 DEF Chans
<1>4. /\ o.pf = x.pf /\ o.sock = x.sock /\ o.ssh = x.ssh
      /\ o.chan = [x.chan EXCEPT !.remwindow = 0]
  BY <1>2 DEF Works
<1> HIDE DEF o
<1>5. /\ o.chan.live = x.chan.live /\ o.chan.halfopen = x.chan.halfopen
      /\ o.chan.closes = x.chan.closes /\ o.chan.remwindow = 0
      /\ o.chan.pending_eof = x.chan.pending_eof /\ o.chan.outbuffer = x.chan.outbuffer
  BY <1>2, <1>4 DEF Chans
<1>6. Held(o)
  BY <1>1, <1>3, <1>4, <1>5 DEF Others, Held, SentEof
<1>7. /\ Base(v, cl, sv)
      /\ v.chan.live /\ ~Done(v.chan) /\ "RCVD_CLOSE" \notin v.chan.closes
      /\ v.chan.locwindow = x.chan.locwindow /\ v.chan.locmaxwin = x.chan.locmaxwin
      /\ v.ssh = x.ssh /\ v.sock.output = x.sock.output
      /\ v.sock.live => x.sock.live
      /\ v.chan.pending_eof \/ "SENT_EOF" \in v.chan.closes => x.chan.pending_eof
      /\ Held(v)
  BY Zenon, <1>1, <1>3, <1>6, TrySendAndUnthrottleKeepsBase DEF o
<1> HIDE DEF v
<1>8. "RCVD_CLOSE" \notin w.chan.closes
  BY DEF Base, Sides
<1>9. Settled(v) /\ AppDone(v, ap)
  BY <1>1, <1>3, <1>7, <1>8 DEF Others, Settled, AppDone
<1>10. sv.excess = 0 => Within(v)
  BY <1>1, <1>3, <1>7 DEF Others, Within
<1> QED
  BY <1>7, <1>9, <1>10 DEF Others, v, x, cl

\* ssh2_msg_channel_response
LEMMA ResponseKeeps ==
  ASSUME NEW w, NEW q, NEW sv, NEW ap, Base(w, q, sv), Others(w, sv, ap), q # <<>>,
         w.chan.live, ~w.chan.halfopen, Head(q).type = "reply"
  PROVE  LET v == CheckClose(Answered(w))
         IN /\ Base(v, Tail(q), sv) /\ Others(v, sv, ap)
            /\ w.chan.chanreqs # <<>>
<1> DEFINE cl == Tail(q)
           x == Answered(w)
<1>1. /\ Base(x, cl, sv) /\ x.sock = w.sock /\ x.pf = w.pf /\ x.ssh = w.ssh
      /\ x.chan = [w.chan EXCEPT !.remlocwin = x.chan.remlocwin,
                                 !.throttle_state = x.chan.throttle_state,
                                 !.chanreqs = Tail(w.chan.chanreqs)]
      /\ w.chan.chanreqs # <<>>
  BY Zenon, TakeReply
<1> HIDE DEF x, cl
<1>2. w.chan \in Chans
  BY DEF Base, Works
<1>3. /\ x.chan.live /\ ~x.chan.halfopen /\ x.chan.closes = w.chan.closes
      /\ x.chan.locwindow = w.chan.locwindow /\ x.chan.locmaxwin = w.chan.locmaxwin
      /\ x.chan.pending_eof = w.chan.pending_eof /\ x.chan.outbuffer = w.chan.outbuffer
      /\ x.chan.remwindow = w.chan.remwindow
  BY Zenon, <1>1, <1>2 DEF Chans
<1>4. Others(x, sv, ap)
  BY <1>1, <1>3 DEF Others, Settled, Done, AppDone, Within, Held, SentEof, Late
<1> QED
  BY <1>1, <1>3, <1>4, CheckCloseKeepsOthers DEF x, cl

\* ssh2_msg_channel_open_failure
LEMMA FailureKeeps ==
  ASSUME NEW w, NEW q, NEW sv, NEW ap, Base(w, q, sv), Others(w, sv, ap), q # <<>>,
         w.chan.live, Head(q).type = "failure"
  PROVE  LET u == [w EXCEPT !.chan.live = FALSE]
             v == IF Forwards(w.chan) THEN PfdClose(u) ELSE u
         IN Base(v, Tail(q), sv) /\ Others(v, sv, ap)
<1> DEFINE cl == Tail(q)
           u == [w EXCEPT !.chan.live = FALSE]
           v == IF Forwards(w.chan) THEN PfdClose(u) ELSE u
<1>1. Base(v, cl, sv) /\ ~v.sock.live /\ ~v.chan.live /\ v.ssh = w.ssh
  BY Zenon, TakeFailure
<1> HIDE DEF v, cl
<1>2. Settled(v) /\ AppDone(v, ap) /\ Held(v)
  BY <1>1 DEF Settled, AppDone, Held
<1>3. sv.excess = 0 => Within(v)
  BY <1>1 DEF Others, Within
<1> QED
  BY <1>1, <1>2, <1>3 DEF Others, v, cl

\* The half-open channel of a zombie, or of a forwarding that may begin.
LEMMA ConfirmKeeps ==
  ASSUME NEW w, NEW q, NEW sv, NEW ap, Base(w, q, sv), Others(w, sv, ap), q # <<>>,
         w.chan.live, Head(q).type = "confirm"
  PROVE  LET v == Confirmed(w, Head(q).n)
         IN Base(v, Tail(q), sv) /\ Others(v, sv, ap)
<1> DEFINE n == Head(q).n
           cl == Tail(q)
           type == IF w.chan.type = "SOCKDATA_DORMANT" THEN "SOCKDATA" ELSE w.chan.type
           x == [w EXCEPT !.chan.halfopen = FALSE, !.chan.remwindow = n, !.chan.type = type]
           a == [w EXCEPT !.chan.halfopen = FALSE, !.chan.remwindow = n]
           v == Confirmed(w, n)
<1>0. w \in Works /\ w.chan \in Chans /\ w.pf \in Pfs /\ w.sock \in Socks
  BY DEF Base, Works
<1>1. /\ Base(x, cl, sv) /\ x.sock = w.sock /\ x.pf = w.pf /\ x.ssh = w.ssh
      /\ x.chan = [w.chan EXCEPT !.halfopen = FALSE, !.remwindow = n, !.type = type]
      /\ w.chan.halfopen /\ HalfOpened(w) /\ n \in Nat
  BY Zenon, TakeConfirm
<1> HIDE DEF n, cl
<1>2. x.chan \in Chans /\ x \in Works
  BY Zenon, <1>1 DEF Base, Works
<1>3. /\ x.chan.live /\ ~x.chan.halfopen /\ x.chan.closes = w.chan.closes
      /\ x.chan.type = type
      /\ x.chan.locwindow = w.chan.locwindow /\ x.chan.locmaxwin = w.chan.locmaxwin
      /\ x.chan.pending_eof = w.chan.pending_eof /\ x.chan.outbuffer = w.chan.outbuffer
  <2> HIDE DEF x, type
  <2> QED
    BY <1>0, <1>1 DEF Chans
<1>4. w.chan.closes = {} /\ w.chan.outbuffer = 0 /\ w.sock.output = 0 /\ ~w.pf.throttled
      /\ ~w.pf.throttle_override
  BY <1>1 DEF HalfOpened
<1>5. ASSUME w.chan.type = "ZOMBIE"
      PROVE  Base(v, cl, sv) /\ Others(v, sv, ap)
  <2>1. a = x
    <3>1. /\ a \in Works /\ a.sock = w.sock /\ a.pf = w.pf /\ a.ssh = w.ssh
          /\ a.tx = w.tx /\ a.pipe = w.pipe /\ a.fault = w.fault
          /\ a.chan = [w.chan EXCEPT !.halfopen = FALSE, !.remwindow = n]
      BY Zenon, <1>0, <1>1, FALSE \in BOOLEAN DEF Works, Chans
    <3>2. x.tx = w.tx /\ x.pipe = w.pipe /\ x.fault = w.fault
      BY <1>0 DEF Works
    <3>3. type = w.chan.type
      BY <1>5
    <3> HIDE DEF a, x, type
    <3>4. a.chan = x.chan
      <4>1. x.chan = [w.chan EXCEPT !.halfopen = FALSE, !.remwindow = n, !.type = w.chan.type]
        BY <1>1, <3>3
      <4>2. [w.chan EXCEPT !.halfopen = FALSE, !.remwindow = n, !.type = w.chan.type]
              = [w.chan EXCEPT !.halfopen = FALSE, !.remwindow = n]
        BY Zenon, <1>0 DEF Chans
      <4> QED
        BY <3>1, <4>1, <4>2
    <3> QED
      BY <1>1, <1>2, <3>1, <3>2, <3>4, SameWork
  <2>2. Asserting(a, w.chan.type = "ZOMBIE") = a
    BY <1>5 DEF Asserting
  <2> HIDE DEF x
  <2>3. ~x.sock.live /\ ~x.chan.pending_eof
    BY <1>0, <1>1, <1>3, <1>5 DEF Base, Sides, Forwards
  <2>4. Others(x, sv, ap)
    BY <1>1, <1>3, <1>4, <2>3 DEF Others, Settled, Done, AppDone, Within, Held, SentEof, Late
  <2>5. Base(CheckClose(x), cl, sv) /\ Others(CheckClose(x), sv, ap)
    BY Zenon, <1>1, <1>3, <2>4, CheckCloseKeepsOthers
  <2>6. CheckClose(x).chan.pending_eof = x.chan.pending_eof
    BY Zenon, <1>1, <1>3, CheckCloseKeepsBase
  <2>7. v = CheckClose(x)
    BY <1>5, <2>1, <2>2, <2>3, <2>6 DEF Confirmed
  <2> QED
    BY <2>5, <2>7
<1>6. ASSUME w.chan.type # "ZOMBIE"
      PROVE  Base(v, cl, sv) /\ Others(v, sv, ap)
  <2> DEFINE b == [x EXCEPT !.pf.ready = TRUE, !.pf.buffer = 0]
             c == SetFrozen(b, FALSE)
             d == SkWrite(c, 0)
             u == IF x.pf.buffer > 0 THEN Write(d, x.pf.buffer) ELSE d
  <2>1. w.chan.type = "SOCKDATA_DORMANT"
    BY <1>0, <1>1, <1>6 DEF HalfOpened, Chans
  <2>2. [a EXCEPT !.chan.type = "SOCKDATA"] = x
    BY <1>0, <2>1 DEF Works, Chans
  <2>3. v = IF u.chan.pending_eof THEN TryEof(u) ELSE u
    BY <2>1, <2>2 DEF Confirmed, PfdConfirm
  <2>4. x.sock.live
    BY <1>0, <1>1, <2>1 DEF Base, Sides, Forwards
  <2> HIDE DEF x
  <2>5. x.pf \in Pfs /\ x.sock \in Socks
    BY <1>2 DEF Works
  <2>6. /\ c \in Works /\ c.chan = x.chan /\ c.ssh = x.ssh /\ c.tx = x.tx
        /\ c.pf = [x.pf EXCEPT !.ready = TRUE, !.buffer = 0]
        /\ c.sock = [x.sock EXCEPT !.frozen = FALSE]
    BY Zenon, <1>2, <2>5, FALSE \in BOOLEAN DEF SetFrozen, Works, Pfs, Socks
  <2> HIDE DEF c
  <2>7. /\ c.sock.live = x.sock.live /\ c.sock.output = x.sock.output
        /\ c.sock.outgoingeof = x.sock.outgoingeof /\ ~c.sock.frozen
        /\ c.pf.ready /\ c.pf.throttled = x.pf.throttled
        /\ c.pf.throttle_override = x.pf.throttle_override
    BY <2>5, <2>6 DEF Pfs, Socks
  <2>8. Base(c, cl, sv)
    <3>1. c.sock.live /\ c.sock.outgoingeof # "NO" => "RCVD_EOF" \in x.chan.closes
      BY <1>1, <2>7 DEF Base, Sides
    <3> QED
      BY Zenon, <1>1, <1>3, <2>6, <2>7, <3>1, SocketStepKeepsBase
  <2>9. /\ Base(d, cl, sv) /\ d.chan = c.chan /\ d.pf = c.pf /\ d.ssh = c.ssh
        /\ d.sock.live /\ d.sock.frozen = c.sock.frozen
        /\ d.sock.output <= c.sock.output + 0
    <3>1. c.sock.live /\ ~c.chan.halfopen /\ "RCVD_EOF" \notin c.chan.closes
      BY <1>3, <1>4, <2>4, <2>6, <2>7
    <3>2. 0 \in Nat
      OBVIOUS
    <3> QED
      BY <2>8, <3>1, <3>2, SkWriteKeepsBase
  <2> HIDE DEF d
  <2>10. /\ d.chan = x.chan /\ d.pf.ready /\ ~d.pf.throttled /\ ~d.pf.throttle_override
         /\ d.ssh = w.ssh /\ ~d.sock.frozen /\ d.sock.output <= 0
    BY <1>1, <1>4, <2>6, <2>7, <2>9
  <2>11. AppDone(w, ap) /\ (sv.excess = 0 => Within(w)) /\ w.sock.live
    BY <1>1, <2>4 DEF Others
  <2>12. x.chan.locwindow \in Int /\ x.chan.locmaxwin \in Nat /\ d.sock.output \in Nat
         /\ x.pf.buffer \in Nat
    BY <1>2, <2>5, <2>9, Fields DEF Base, Pfs
  <2>13. /\ Base(v, cl, sv) /\ v.pf = d.pf /\ v.ssh = d.ssh
         /\ v.sock.frozen = d.sock.frozen /\ v.sock.output = d.sock.output
         /\ v.chan.locwindow = d.chan.locwindow /\ v.chan.locmaxwin = d.chan.locmaxwin
         /\ v.chan.live /\ "RCVD_CLOSE" \notin v.chan.closes
         /\ v.chan.outbuffer > 0 => v.chan.remwindow = 0
         /\ v.chan.pending_eof => v.chan.outbuffer > 0
         /\ v.chan.pending_eof \/ "SENT_EOF" \in v.chan.closes => w.chan.pending_eof
    <3>1. CASE x.pf.buffer > 0
      <4>1. u = Write(d, x.pf.buffer)
        BY <3>1
      <4>2. "SENT_EOF" \notin d.chan.closes /\ ~Done(d.chan) /\ d.chan.live /\ ~d.chan.halfopen
        BY <1>3, <1>4, <2>10 DEF Done
      <4>3. Base(u, cl, sv) /\ Written(d, u)
        <5>1. Base(Write(d, x.pf.buffer), cl, sv) /\ Written(d, Write(d, x.pf.buffer))
          BY <2>9, <2>12, <4>2, WriteKeepsBase
        <5> QED
          BY <4>1, <5>1
      <4> HIDE DEF u
      <4>4. v = u
        <5>1. CASE u.chan.pending_eof
          <6>1. u.chan.outbuffer > 0
            BY <4>3, <5>1 DEF Written
          <6>2. TryEof(u) = u
            BY <5>1, <6>1 DEF TryEof, Asserting
          <6> QED
            BY <2>3, <5>1, <6>2
        <5>2. CASE ~u.chan.pending_eof
          BY <2>3, <5>2
        <5> QED
          BY <5>1, <5>2
      <4> QED
        BY <1>3, <1>4, <2>10, <4>3, <4>4 DEF Written
    <3>2. CASE ~(x.pf.buffer > 0)
      <4>1. u = d
        BY <3>2
      <4> HIDE DEF u
      <4>2. CASE d.chan.pending_eof
        <5> DEFINE p == [d EXCEPT !.chan.pending_eof = TRUE]
        <5>1. p = d
          BY <2>9, <4>2, PendingAgain DEF Base
        <5>2. v = TryEof(p)
          BY Zenon, <2>3, <4>1, <4>2, <5>1
        <5>3. /\ Base(TryEof(p), cl, sv) /\ Kept(p, TryEof(p))
              /\ TryEof(p).chan.live /\ ~Done(TryEof(p).chan) /\ ~TryEof(p).chan.pending_eof
          BY Zenon, <1>3, <1>4, <2>9, <2>10, EofKeepsBase
        <5>4. /\ Base(v, cl, sv) /\ Kept(d, v)
              /\ v.chan.live /\ ~Done(v.chan) /\ ~v.chan.pending_eof
          BY Zenon, <5>1, <5>2, <5>3
        <5>5. d.chan.pending_eof = w.chan.pending_eof
          BY <1>3, <2>10
        <5> HIDE DEF p, v
        <5> QED
          BY <1>3, <1>4, <2>9, <2>10, <4>2, <5>4, <5>5 DEF Kept
      <4>3. CASE ~d.chan.pending_eof
        <5>1. v = d
          BY <2>3, <4>1, <4>3
        <5> QED
          BY <1>3, <1>4, <2>9, <2>10, <4>3, <5>1
      <4> QED
        BY <4>2, <4>3
    <3> QED
      BY <3>1, <3>2
  <2> HIDE DEF v
  <2>14. Settled(v)
    BY <2>13 DEF Settled, Done
  <2>15. AppDone(v, ap)
    BY <1>4, <2>11, <2>13 DEF AppDone
  <2>16. sv.excess = 0 => Within(v)
    <3>1. sv.excess = 0 => 0 + w.chan.locwindow <= w.chan.locmaxwin /\ w.ssh.conn_throttle_count = 0
      BY <1>4, <2>11 DEF Within
    <3> QED
      BY <1>3, <2>10, <2>12, <2>13, <3>1 DEF Within
  <2>17. Held(v)
    BY <2>10, <2>13 DEF Held
  <2> QED
    BY <2>13, <2>14, <2>15, <2>16, <2>17 DEF Others
<1>7. Base(v, cl, sv) /\ Others(v, sv, ap)
  BY <1>5, <1>6
<1> QED
  BY <1>7 DEF v, n, cl

-----------------------------------------------------------------------------
(* Events of the local socket.                                             *)

\* A socket that lives belongs to a channel that does, past its opening or not.
LEMMA LiveSocket ==
  ASSUME NEW w, NEW cl, NEW sv, Base(w, cl, sv), w.sock.live
  PROVE  /\ w.chan.live /\ w.chan.type # "ZOMBIE"
         /\ ~w.chan.halfopen => w.chan.type = "SOCKDATA"
BY Fields DEF Base, Sides, Forwards

\* pfd_receive
LEMMA ReadKeeps ==
  ASSUME NEW w, NEW cl, NEW sv, NEW ap, Base(w, cl, sv), Others(w, sv, ap),
         w.sock.live, ~w.sock.frozen, NEW n \in 1 .. ap.unread
  PROVE  /\ Base(PfdReceive(w, n), cl, sv) /\ PfdReceive(w, n).sock.live
         /\ Others(PfdReceive(w, n), sv, [ap EXCEPT !.unread = @ - n])
<1> DEFINE u == Write(w, n)
           z == SetFrozen([u EXCEPT !.pf.throttled = TRUE], TRUE)
           v == PfdReceive(w, n)
           left == [ap EXCEPT !.unread = @ - n]
<1>0. /\ w \in Works /\ ap \in Apps /\ w.chan.live
      /\ ap.unread \in Nat /\ n \in Nat /\ n > 0 /\ n <= ap.unread
  BY LiveSocket DEF Base, Others, Apps
<1>1. left \in Apps
  <2>1. ap.unread - n \in Nat
    BY <1>0
  <2> QED
    BY <1>0, <2>1 DEF Apps
<1>2. "RCVD_CLOSE" \notin w.chan.closes => "SENT_EOF" \notin w.chan.closes /\ ~w.chan.pending_eof
  BY <1>0 DEF Others, AppDone
<1>3. CASE ~w.pf.ready
  <2>1. v = w
    BY <1>3 DEF PfdReceive
  <2>2. AppDone(w, left)
    BY <1>2 DEF AppDone
  <2> QED
    BY <1>1, <2>1, <2>2 DEF Others
<1>4. CASE w.pf.ready
  <2>1. ~w.chan.halfopen
    BY <1>4 DEF Base, Sides, HalfOpened
  <2>2. "SENT_EOF" \notin w.chan.closes \/ Late(w)
    BY <1>0, <1>2 DEF Others, Settled
  <2>3. ~Done(w.chan)
    BY <1>0 DEF Others, Settled
  <2>4. Base(u, cl, sv) /\ Written(w, u)
    BY <1>0, <2>1, <2>2, <2>3, WriteKeepsBase
  <2>5. v = IF u.chan.outbuffer > 0 THEN z ELSE u
    BY <1>4 DEF PfdReceive
  <2> HIDE DEF u
  <2>6. u \in Works /\ u.pf \in Pfs /\ u.sock \in Socks
    BY <2>4 DEF Base, Works
  <2>7. u.chan.outbuffer \in Nat
    BY <2>6, Fields
  <2>8. Settled(u)
    BY <1>0, <2>4 DEF Others, Settled, Written, Late
  <2>9. "RCVD_CLOSE" \notin u.chan.closes =>
           /\ "RCVD_CLOSE" \notin w.chan.closes
           /\ "SENT_EOF" \notin u.chan.closes /\ ~u.chan.pending_eof
    BY <1>2, <2>4 DEF Written
  <2>10. sv.excess = 0 => Within(u)
    BY <2>4 DEF Others, Within, Written
  <2>11. /\ u.chan.outbuffer > 0 => u.chan.remwindow = 0
         /\ u.chan.pending_eof => u.chan.outbuffer > 0
         /\ u.pf = w.pf /\ u.ssh = w.ssh /\ ~u.sock.frozen
         /\ u.sock.live => w.sock.live
    BY <2>4 DEF Written
  <2>12. w.pf.ready /\ "RCVD_CLOSE" \notin w.chan.closes =>
            ~w.pf.throttled /\ (w.pf.throttle_override => w.ssh.throttled_all)
    BY DEF Others, Held
  <2>15. u.sock.live
    <3>1. w.chan.type # "ZOMBIE"
      BY LiveSocket
    <3> QED
      BY <2>4, <2>6, <3>1, Fields DEF Base, Sides, Forwards, Written
  <2>13. CASE u.chan.outbuffer > 0
    <3>1. /\ z \in Works /\ z.chan = u.chan /\ z.ssh = u.ssh /\ z.tx = u.tx
          /\ z.pf = [u.pf EXCEPT !.throttled = TRUE] /\ z.sock = [u.sock EXCEPT !.frozen = TRUE]
      BY Zenon, <2>6 DEF SetFrozen, Works, Pfs, Socks
    <3>2. v = z
      BY Zenon, <2>5, <2>13
    <3> HIDE DEF z, v
    <3>3. /\ z.sock.live = u.sock.live /\ z.sock.outgoingeof = u.sock.outgoingeof
          /\ z.sock.output = u.sock.output /\ z.sock.frozen
          /\ z.pf.throttled /\ z.pf.throttle_override = u.pf.throttle_override
          /\ z.pf.ready = u.pf.ready
      BY <2>6, <3>1 DEF Pfs, Socks
    <3>4. Base(z, cl, sv)
      <4>1. z.sock.live /\ z.sock.outgoingeof # "NO" => "RCVD_EOF" \in u.chan.closes
        BY <2>4, <3>3 DEF Base, Sides
      <4>2. ~u.chan.halfopen
        BY <2>1, <2>4 DEF Written
      <4> QED
        BY Zenon, <2>4, <3>1, <3>3, <4>1, <4>2, SocketStepKeepsBase
    <3>5. Settled(z) /\ AppDone(z, left)
      BY <2>8, <2>9, <3>1, <3>3 DEF Settled, AppDone, Late
    <3>6. sv.excess = 0 => Within(z)
      BY <2>10, <3>1, <3>3 DEF Within
    <3>7. Held(z)
      BY <1>4, <2>9, <2>11, <2>12, <2>13, <3>1, <3>3 DEF Held, SentEof
    <3> QED
      BY <1>1, <2>15, <3>2, <3>3, <3>4, <3>5, <3>6, <3>7 DEF Others, v
  <2>14. CASE ~(u.chan.outbuffer > 0)
    <3>1. v = u
      BY Zenon, <2>5, <2>14
    <3>2. AppDone(u, left)
      BY <2>9 DEF AppDone
    <3>3. Held(u)
      BY <1>4, <2>9, <2>11, <2>12, <2>14 DEF Held, SentEof
    <3> QED
      BY <1>1, <2>4, <2>8, <2>10, <2>15, <3>1, <3>2, <3>3 DEF Others
  <2> QED
    BY <2>13, <2>14
<1> QED
  BY <1>3, <1>4

\* Where nothing is left to be read, nothing is in the way of EOF.
LEMMA NothingUnread ==
  ASSUME NEW w, NEW sv, NEW ap, Others(w, sv, ap)
  PROVE  Others(w, sv, [ap EXCEPT !.unread = 0])
<1> DEFINE none == [ap EXCEPT !.unread = 0]
<1>1. ap \in Apps
  BY DEF Others
<1>2. none \in Apps /\ none.unread = 0 /\ none.fin = ap.fin /\ none.reset = ap.reset
  BY <1>1 DEF Apps
<1> HIDE DEF none
<1>3. AppDone(w, none)
  BY <1>2 DEF Others, AppDone
<1>4. Others(w, sv, none)
  BY <1>2, <1>3 DEF Others
<1> QED
  BY <1>4 DEF none

\* What FD_CLOSE reads first.
Drains(w, n) == IF n > 0 THEN PfdReceive(w, n) ELSE w

\* It keeps the invariant, and the socket, with nothing left to be read.
LEMMA DrainsKeeps ==
  ASSUME NEW w, NEW cl, NEW sv, NEW ap, Base(w, cl, sv), Others(w, sv, ap),
         w.sock.live, ap.unread = 0 \/ ~w.sock.frozen
  PROVE  /\ Base(Drains(w, ap.unread), cl, sv) /\ Drains(w, ap.unread).sock.live
         /\ Others(Drains(w, ap.unread), sv, [ap EXCEPT !.unread = 0])
<1>1. ap \in Apps /\ ap.unread \in Nat
  BY DEF Others, Apps
<1>2. CASE ap.unread > 0
  <2>1. ap.unread \in 1 .. ap.unread /\ ~w.sock.frozen /\ ap.unread - ap.unread = 0
    BY <1>1, <1>2
  <2>2. [ap EXCEPT !.unread = @ - ap.unread] = [ap EXCEPT !.unread = 0]
    BY <1>1, <2>1 DEF Apps
  <2>3. Drains(w, ap.unread) = PfdReceive(w, ap.unread)
    BY <1>2 DEF Drains
  <2>4. /\ Base(PfdReceive(w, ap.unread), cl, sv) /\ PfdReceive(w, ap.unread).sock.live
        /\ Others(PfdReceive(w, ap.unread), sv, [ap EXCEPT !.unread = @ - ap.unread])
    BY <2>1, ReadKeeps
  <2> QED
    BY <2>2, <2>3, <2>4
<1>3. CASE ~(ap.unread > 0)
  BY <1>3, NothingUnread DEF Drains
<1> QED
  BY <1>2, <1>3

\* FD_WRITE with pfd_sent
Sent(w) ==
  LET v == TrySendSocket([w EXCEPT !.sock.writable = TRUE])
  IN IF v.sock.output < w.sock.output
     THEN SshfwdUnthrottle(v, v.sock.output)
     ELSE v

\* It keeps the invariant.
LEMMA SentKeeps ==
  ASSUME NEW w, NEW cl, NEW sv, NEW ap, Base(w, cl, sv), Others(w, sv, ap),
         w.sock.live, ~w.sock.writable
  PROVE  Base(Sent(w), cl, sv) /\ Others(Sent(w), sv, ap)
<1> DEFINE x == [w EXCEPT !.sock.writable = TRUE]
           u == TrySendSocket(x)
           z == SshfwdUnthrottle(u, u.sock.output)
<1>0. /\ w \in Works /\ w.chan \in Chans /\ w.sock \in Socks /\ w.chan.live
      /\ sv.win \in Int /\ sv.excess \in Nat
  BY LiveSocket DEF Base, Works, Servers
<1>1. ~w.chan.halfopen
  BY DEF Base, Sides, HalfOpened
<1>2. /\ x \in Works /\ x.chan = w.chan /\ x.pf = w.pf /\ x.ssh = w.ssh /\ x.tx = w.tx
      /\ x.sock = [w.sock EXCEPT !.writable = TRUE]
  BY Zenon, <1>0 DEF Works, Socks
<1> HIDE DEF x
<1>3. /\ x.sock.live = w.sock.live /\ x.sock.frozen = w.sock.frozen
      /\ x.sock.output = w.sock.output /\ x.sock.outgoingeof = w.sock.outgoingeof
  BY Zenon, <1>0, <1>2 DEF Socks
<1>4. /\ u \in Works /\ u.chan = x.chan /\ u.pf = x.pf /\ u.ssh = x.ssh /\ u.tx = x.tx
      /\ u.sock.live = x.sock.live /\ u.sock.frozen = x.sock.frozen
      /\ u.sock.output <= x.sock.output
      /\ u.sock.outgoingeof = "NO" <=> x.sock.outgoingeof = "NO"
  BY Zenon, <1>2, TrySendSocketKeeps
<1>5. Sent(w) = IF u.sock.output < w.sock.output THEN z ELSE u
  BY DEF Sent, x
<1> HIDE DEF u
<1>6. Base(u, cl, sv)
  <2>1. u.sock.live /\ u.sock.outgoingeof # "NO" => "RCVD_EOF" \in w.chan.closes
    BY <1>2, <1>3, <1>4 DEF Base, Sides
  <2> QED
    BY <1>1, <1>2, <1>3, <1>4, <2>1, SocketStepKeepsBase
<1>7. Others(u, sv, ap)
  BY <1>0, <1>2, <1>3, <1>4, SocketOthers
<1>8. u.sock.output \in Nat
  BY <1>4, Fields
<1>9. /\ Base(z, cl, sv) /\ Granted(u, z)
      /\ Within(u) /\ (u.sock.live => u.sock.output = u.sock.output) /\ u.chan.locwindow >= 0
            => Within(z)
  <2>1. u.chan.live /\ ~u.chan.halfopen
    BY <1>0, <1>1, <1>2, <1>4
  <2> QED
    BY <1>6, <1>8, <2>1, SshfwdUnthrottleKeepsBase
<1> HIDE DEF z
<1>10. sv.excess = 0 => u.chan.locwindow >= 0
  <2>1. w.chan.locwindow = sv.win + InFlight(w.tx, "adjust") + InFlight(cl, "data")
    BY <1>0 DEF Base, Books
  <2>2. InFlight(w.tx, "adjust") \in Nat /\ InFlight(cl, "data") \in Nat
    BY <1>0, Fields, Amounts DEF Base
  <2>3. sv.win >= -sv.excess
    BY DEF Others
  <2> QED
    BY <1>0, <1>2, <1>4, <2>1, <2>2, <2>3
<1>11. Others(z, sv, ap)
  <2>1. sv.excess = 0 => Within(z)
    BY <1>7, <1>9, <1>10 DEF Others
  <2>2. z \in Works
    BY <1>9 DEF Base
  <2> QED
    BY <1>4, <1>7, <1>9, <2>1, <2>2, GrantedOthers
<1> QED
  BY <1>5, <1>6, <1>7, <1>9, <1>11

\* pfd_closing after an orderly end
LEMMA WriteEofKeeps ==
  ASSUME NEW w, NEW cl, NEW sv, NEW ap, Base(w, cl, sv), Others(w, sv, ap),
         w.sock.live, ap.unread = 0, ap.fin \/ ap.reset
  PROVE  Base(WriteEof(w), cl, sv) /\ Others(WriteEof(w), sv, ap)
<1> DEFINE p == [w EXCEPT !.chan.pending_eof = TRUE]
           v == WriteEof(w)
<1>0. /\ w \in Works /\ w.chan \in Chans /\ w.chan.live /\ w.chan.type # "ZOMBIE"
      /\ ~Done(w.chan) /\ w.chan.outbuffer \in Nat
  BY LiveSocket, Fields DEF Base, Others, Settled
<1>1. /\ p.pf = w.pf /\ p.ssh = w.ssh /\ p.sock = w.sock
      /\ p.chan = [w.chan EXCEPT !.pending_eof = TRUE]
  BY <1>0 DEF Works
<1> HIDE DEF p
<1>2. /\ p.chan.live = w.chan.live /\ p.chan.halfopen = w.chan.halfopen
      /\ p.chan.closes = w.chan.closes /\ p.chan.outbuffer = w.chan.outbuffer
      /\ p.chan.remwindow = w.chan.remwindow
      /\ p.chan.locwindow = w.chan.locwindow /\ p.chan.locmaxwin = w.chan.locmaxwin
  BY Zenon, <1>0, <1>1 DEF Chans
<1>3. /\ Base(v, cl, sv) /\ Kept(p, v) /\ v.chan.live /\ ~Done(v.chan)
      /\ v.chan.pending_eof => w.chan.halfopen \/ w.chan.outbuffer > 0
  <2>1. w.chan.type # "ZOMBIE" \/ (w.chan.outbuffer = 0 /\ ~w.chan.halfopen)
    BY <1>0
  <2>2. /\ Base(WriteEof(w), cl, sv) /\ Kept([w EXCEPT !.chan.pending_eof = TRUE], WriteEof(w))
        /\ WriteEof(w).chan.live /\ ~Done(WriteEof(w).chan)
        /\ WriteEof(w).chan.pending_eof => w.chan.halfopen \/ w.chan.outbuffer > 0
    BY <1>0, <2>1, WriteEofKeepsBase
  <2> QED
    BY <2>2 DEF p
<1> HIDE DEF v
<1>4. Settled(v)
  BY <1>0, <1>1, <1>2, <1>3 DEF Others, Settled, Kept, Late
<1>5. AppDone(v, ap)
  BY DEF AppDone
<1>6. sv.excess = 0 => Within(v)
  BY <1>1, <1>2, <1>3 DEF Others, Within, Kept
<1>7. Held(v)
  <2>1. /\ v.pf = w.pf /\ v.ssh = w.ssh /\ v.sock.frozen = w.sock.frozen
        /\ v.sock.live => w.sock.live
        /\ v.chan.halfopen = w.chan.halfopen
        /\ v.chan.outbuffer = w.chan.outbuffer /\ v.chan.remwindow = w.chan.remwindow
        /\ w.chan.closes \subseteq v.chan.closes
        /\ v.sock.live /\ "SENT_EOF" \in v.chan.closes =>
             "SENT_EOF" \in w.chan.closes \/ w.chan.outbuffer = 0
    BY <1>1, <1>2, <1>3 DEF Kept
  <2>2. "RCVD_CLOSE" \notin v.chan.closes => "RCVD_CLOSE" \notin w.chan.closes
    BY <2>1
  <2>3. ~v.chan.halfopen /\ v.pf.throttled /\ v.sock.live /\ "RCVD_CLOSE" \notin v.chan.closes
          => ~SentEof(v.chan)
    BY <1>0, <2>1, <2>2 DEF Others, Held, SentEof
  <2>4. ~v.chan.halfopen => (v.chan.pending_eof => v.chan.outbuffer > 0)
    BY <1>3, <2>1
  <2> QED
    BY <1>0, <2>1, <2>2, <2>3, <2>4 DEF Others, Held, SentEof
<1> QED
  BY <1>3, <1>4, <1>5, <1>6, <1>7 DEF Others, v

\* pfd_closing after an error
LEMMA UncleanCloseKeeps ==
  ASSUME NEW w, NEW cl, NEW sv, NEW ap, Base(w, cl, sv), Others(w, sv, ap), w.sock.live
  PROVE  Base(UncleanClose(w), cl, sv) /\ Others(UncleanClose(w), sv, ap)
<1> DEFINE v == UncleanClose(w)
<1>0. w.chan.live
  BY LiveSocket
<1>1. /\ Base(v, cl, sv) /\ ~v.sock.live
      /\ v.pf = w.pf /\ v.ssh = w.ssh
      /\ v.chan.live => ~Done(v.chan)
      /\ "RCVD_CLOSE" \in v.chan.closes => "RCVD_CLOSE" \in w.chan.closes
      /\ v.chan.outbuffer = w.chan.outbuffer /\ v.chan.remwindow = w.chan.remwindow
      /\ v.chan.halfopen = w.chan.halfopen /\ ~v.chan.pending_eof
      /\ w.chan.closes \subseteq v.chan.closes
  BY <1>0, UncleanCloseKeepsBase
<1> HIDE DEF v
<1>2. Settled(v) /\ AppDone(v, ap)
  BY <1>0, <1>1 DEF Others, Settled, AppDone, Late
<1>3. sv.excess = 0 => Within(v)
  BY <1>1 DEF Others, Within
<1>4. Held(v)
  BY <1>0, <1>1 DEF Others, Held, SentEof
<1> QED
  BY <1>1, <1>2, <1>3, <1>4 DEF Others, v

\* ssh_throttle_all
LEMMA ThrottleAllKeeps ==
  ASSUME NEW w, NEW cl, NEW sv, NEW ap, Base(w, cl, sv), Others(w, sv, ap),
         NEW enable \in BOOLEAN, w.chan = chan
  PROVE  Base(ThrottleAll(w, enable), cl, sv) /\ Others(ThrottleAll(w, enable), sv, ap)
<1> DEFINE x == [w EXCEPT !.ssh.throttled_all = enable]
           z == OverrideThrottle(x, enable)
<1>0. w \in Works /\ w.ssh \in Sshs /\ w.sock \in Socks /\ w.pf \in Pfs
  BY DEF Base, Works
<1>1. /\ x \in Works /\ x.chan = w.chan /\ x.pf = w.pf /\ x.sock = w.sock /\ x.tx = w.tx
      /\ x.ssh = [w.ssh EXCEPT !.throttled_all = enable]
  BY <1>0 DEF Works, Sshs
<1>2. ThrottleAll(w, enable) = IF w.chan.live /\ w.chan.type = "SOCKDATA" THEN z ELSE x
  BY DEF ThrottleAll
<1> HIDE DEF x
<1>3. /\ x.ssh.open = w.ssh.open /\ x.ssh.remote_bugs = w.ssh.remote_bugs
      /\ x.ssh.conn_throttle_count = w.ssh.conn_throttle_count
      /\ x.ssh.throttled_all = enable
  BY <1>0, <1>1 DEF Sshs
<1>4. Base(x, cl, sv)
  <2>1. x.sock.live /\ x.sock.outgoingeof # "NO" => "RCVD_EOF" \in w.chan.closes
    BY <1>1 DEF Base, Sides
  <2>2. w.chan.halfopen => HalfOpened(x)
    BY <1>1 DEF Base, Sides, HalfOpened
  <2> QED
    BY Zenon, <1>1, <1>3, <2>1, <2>2, SocketStepKeepsBase
<1>5. Settled(x) /\ AppDone(x, ap)
  BY <1>1, <1>3 DEF Others, Settled, AppDone, Late
<1>6. sv.excess = 0 => Within(x)
  BY <1>1, <1>3 DEF Others, Within
<1>7. CASE w.chan.live /\ w.chan.type = "SOCKDATA"
  <2>1. ~w.chan.halfopen
    BY <1>7 DEF Base, Sides, HalfOpened
  <2>2. /\ Base(z, cl, sv) /\ z.chan = x.chan /\ z.ssh = x.ssh
        /\ z.sock = [x.sock EXCEPT !.frozen = x.pf.throttled \/ enable]
        /\ z.pf = [x.pf EXCEPT !.throttle_override = enable]
    BY <1>1, <1>4, <2>1, OverrideKeepsBase
  <2> HIDE DEF z
  <2>3. /\ z.sock.live = w.sock.live /\ z.sock.output = w.sock.output
        /\ z.sock.frozen = (w.pf.throttled \/ enable)
        /\ z.pf.throttled = w.pf.throttled /\ z.pf.ready = w.pf.ready
        /\ z.pf.throttle_override = enable
    BY <1>0, <1>1, <2>2 DEF Socks, Pfs
  <2>4. Settled(z) /\ AppDone(z, ap)
    BY <1>5, <2>2, <1>1, <2>3 DEF Settled, AppDone, Late
  <2>5. sv.excess = 0 => Within(z)
    BY <1>1, <1>6, <2>2, <2>3 DEF Within
  <2>6. Held(z)
    BY ZenonT(60), <1>1, <1>3, <2>2, <2>3 DEF Others, Held
  <2> QED
    BY <1>2, <1>7, <2>2, <2>4, <2>5, <2>6 DEF Others
<1>8. CASE ~(w.chan.live /\ w.chan.type = "SOCKDATA")
  <2>1. ~w.sock.live \/ w.chan.halfopen
    BY <1>8, LiveSocket
  <2>2. ~w.sock.live \/ ~w.pf.ready
    BY <2>1 DEF Base, Sides, HalfOpened
  <2>3. Held(x)
    BY <1>1, <2>2 DEF Others, Held
  <2> QED
    BY <1>2, <1>4, <1>5, <1>6, <1>8, <2>3 DEF Others
<1> QED
  BY <1>7, <1>8

-----------------------------------------------------------------------------
(* The server.                                                             *)

\* What the server adds to what it has sent.
LEMMA Telling ==
  ASSUME NEW w, NEW cl, NEW sv, Base(w, cl, sv), sv.state = "open", w.chan.live,
         NEW type \in DownTypes, NEW n \in Nat, type \notin {"confirm", "failure"},
         type \in {"data", "eof"} => ~sv.sentEof,
         ~sv.sentClose \/ (Late(w) /\ type = "reply"),
         NEW sv2, sv2.state = "open",
         sv2.sentEof <=> sv.sentEof \/ type = "eof",
         sv2.sentClose <=> sv.sentClose \/ type = "close"
  PROVE  LET q == Append(cl, Packet(type, n))
         IN /\ q \in Packets(DownTypes)
            /\ SentDown(w, q, sv2) /\ Opening(w, q, sv2) /\ Gone(w, q, sv2)
            /\ InFlight(q, "data") = InFlight(cl, "data") + (IF type = "data" THEN n ELSE 0)
            /\ InFlight(q, "adjust") = InFlight(cl, "adjust") + (IF type = "adjust" THEN n ELSE 0)
            /\ Count(q, "reply") = Count(cl, "reply") + (IF type = "reply" THEN 1 ELSE 0)
<1> DEFINE p == Packet(type, n)
           q == Append(cl, p)
<1>0. /\ cl \in Packets(DownTypes) /\ Ordered(cl, DownOrder(Late(w)))
      /\ p \in [type : DownTypes, n : Nat] /\ p.type = type /\ p.n = n
  BY DEF Base, SentDown, Packet
<1>1. /\ q \in Packets(DownTypes)
      /\ InFlight(q, "data") = InFlight(cl, "data") + (IF p.type = "data" THEN p.n ELSE 0)
      /\ InFlight(q, "adjust") = InFlight(cl, "adjust") + (IF p.type = "adjust" THEN p.n ELSE 0)
      /\ Count(q, "reply") = Count(cl, "reply") + (IF p.type = "reply" THEN 1 ELSE 0)
  BY <1>0, AmountsAppend
<1> HIDE DEF p
<1>2. \A some : Lacks(cl, some) /\ type \notin some => Lacks(q, some)
  BY <1>0, LacksAppend
<1>3. Ordered(q, DownOrder(Late(w)))
  <2>1. /\ ~sv.sentEof => Lacks(cl, {"eof"})
        /\ ~sv.sentClose => Lacks(cl, {"close"})
        /\ Lacks(cl, {"failure"})
    BY DEF Base, SentDown
  <2>2. ASSUME NEW i \in DOMAIN cl PROVE <<cl[i].type, type>> \in DownOrder(Late(w))
    <3>1. cl[i].type \in DownTypes
      <4>1. cl[i] \in [type : DownTypes, n : Nat]
        <5>1. cl \in Seq([type : DownTypes, n : Nat]) /\ i \in 1 .. Len(cl)
          BY <1>0 DEF Packets
        <5> QED
          BY Zenon, <5>1, ElementOfSeq
      <4> QED
        BY <4>1
    <3>2. /\ cl[i].type # "failure"
          /\ cl[i].type = "eof" => sv.sentEof
          /\ cl[i].type = "close" => sv.sentClose
      BY <2>1 DEF Lacks
    <3> DEFINE t == cl[i].type
    <3> HIDE DEF t
    <3>3. /\ t \in DownTypes /\ t # "failure" /\ (t = "eof" => type \notin {"data", "eof"})
          /\ t = "close" => Late(w) /\ type = "reply"
      BY <3>1, <3>2 DEF t
    <3>4. <<t, type>> \in DownOrder(Late(w))
      BY <3>3 DEF DownOrder
    <3> QED
      BY <3>4 DEF t
  <2> HIDE DEF q
  <2>3. Ordered(Append(cl, p), DownOrder(Late(w)))
    BY <1>0, <2>2, OrderAppend
  <2> QED
    BY <2>3 DEF q
<1>4. q # <<>> /\ (cl # <<>> => Head(q) = Head(cl))
  BY <1>0 DEF Packets
<1> HIDE DEF q
<1>5. Opening(w, q, sv2)
  BY <1>2, <1>4 DEF Base, Opening
<1>6. Gone(w, q, sv2)
  BY DEF Gone
<1>7. SentDown(w, q, sv2)
  <2>1. ~sv2.sentClose => Lacks(q, {"close"}) /\ "RCVD_CLOSE" \notin w.chan.closes
    BY <1>2 DEF Base, SentDown
  <2>2. ~sv2.sentEof => Lacks(q, {"eof"})
    BY <1>2 DEF Base, SentDown
  <2>3. "RCVD_EOF" \in w.chan.closes =>
          (sv2.sentEof \/ sv2.sentClose) /\ Lacks(q, {"data", "eof"})
    <3> SUFFICES ASSUME "RCVD_EOF" \in w.chan.closes
                 PROVE  (sv2.sentEof \/ sv2.sentClose) /\ Lacks(q, {"data", "eof"})
      OBVIOUS
    <3>1. (sv.sentEof \/ sv.sentClose) /\ Lacks(cl, {"data", "eof"})
      BY DEF Base, SentDown
    <3>2. type \notin {"data", "eof"}
      BY <3>1
    <3> QED
      BY <1>2, <3>1, <3>2
  <2>4. "RCVD_CLOSE" \in w.chan.closes =>
          Lacks(q, IF Late(w) THEN DownTypes \ {"reply"} ELSE DownTypes)
    <3> SUFFICES ASSUME "RCVD_CLOSE" \in w.chan.closes
                 PROVE  Lacks(q, IF Late(w) THEN DownTypes \ {"reply"} ELSE DownTypes)
      OBVIOUS
    <3>1. sv.sentClose
      BY DEF Base, SentDown
    <3>2. Lacks(cl, DownTypes \ {"reply"}) /\ type = "reply" /\ Late(w)
      BY <3>1 DEF Base, SentDown
    <3> QED
      BY <1>2, <3>2
  <2>5. Lacks(q, {"failure"})
    BY <1>2 DEF Base, SentDown
  <2> QED
    BY <1>3, <2>1, <2>2, <2>3, <2>4, <2>5 DEF SentDown
<1> QED
  BY <1>0, <1>1, <1>5, <1>6, <1>7 DEF p, q

\* What follows for the invariant, when nothing is taken from the server's queue.
LEMMA TellingKeeps ==
  ASSUME NEW w, NEW cl, NEW sv, NEW ap, Base(w, cl, sv), Others(w, sv, ap),
         w.ssh.open, sv.state = "open", ~sv.sentClose,
         NEW type \in {"data", "adjust", "eof", "close"}, NEW n \in Nat,
         type \in {"data", "eof"} => ~sv.sentEof,
         NEW sv2 \in Servers, sv2.state = "open",
         sv2.sentEof <=> sv.sentEof \/ type = "eof",
         sv2.sentClose <=> sv.sentClose \/ type = "close",
         sv2.gotEof = sv.gotEof, sv2.gotClose = sv.gotClose,
         sv2.offended = sv.offended, sv2.excess = sv.excess,
         sv2.win = sv.win - (IF type = "data" THEN n ELSE 0), sv2.win >= -sv.excess,
         sv2.room = sv.room + (IF type = "adjust" THEN n ELSE 0)
  PROVE  LET q == Append(cl, Packet(type, n))
         IN Base(w, q, sv2) /\ Others(w, sv2, ap)
<1> DEFINE q == Append(cl, Packet(type, n))
<1>0. /\ w \in Works /\ cl \in Packets(DownTypes) /\ w.tx \in Packets(UpTypes)
      /\ sv.win \in Int /\ sv.room \in Int
  BY Fields DEF Base, Servers
<1>1. w.chan.live
  BY DEF Base, Gone
<1>2. /\ q \in Packets(DownTypes)
      /\ SentDown(w, q, sv2) /\ Opening(w, q, sv2) /\ Gone(w, q, sv2)
      /\ InFlight(q, "data") = InFlight(cl, "data") + (IF type = "data" THEN n ELSE 0)
      /\ InFlight(q, "adjust") = InFlight(cl, "adjust") + (IF type = "adjust" THEN n ELSE 0)
      /\ Count(q, "reply") = Count(cl, "reply") + (IF type = "reply" THEN 1 ELSE 0)
  <2>1. type \in DownTypes /\ type \notin {"confirm", "failure"}
    BY DEF DownTypes
  <2> QED
    BY <1>1, <2>1, Telling
<1> HIDE DEF q
<1>3. /\ InFlight(cl, "data") \in Nat /\ InFlight(cl, "adjust") \in Nat
      /\ Count(cl, "reply") \in Nat
      /\ InFlight(w.tx, "data") \in Nat /\ InFlight(w.tx, "adjust") \in Nat
  BY <1>0, Amounts
<1>4. ~Late(w) => SentUp(w, sv2)
  <2> SUFFICES ASSUME ~Late(w) PROVE SentUp(w, sv2)
    OBVIOUS
  <2>1. SentUp(w, sv)
    BY DEF Base
  <2>2. InFlight(w.tx, "data") <= sv2.room
    BY <1>0, <1>3, <2>1 DEF SentUp
  <2> QED
    BY <2>1, <2>2 DEF SentUp
<1>5. Books(w, q, sv2)
  <2>1. w.chan.locwindow = sv2.win + InFlight(w.tx, "adjust") + InFlight(q, "data")
    <3>1. w.chan.locwindow = sv.win + InFlight(w.tx, "adjust") + InFlight(cl, "data")
      BY <1>1 DEF Base, Books
    <3> QED
      BY <1>0, <1>2, <1>3, <3>1
  <2>2. "SENT_EOF" \notin w.chan.closes =>
          sv2.room = RoomOf(w.chan) + InFlight(q, "adjust") + InFlight(w.tx, "data")
    <3>1. RoomOf(w.chan) \in Nat
      BY <1>0, Fields, Sizes DEF RoomOf
    <3>2. "SENT_EOF" \notin w.chan.closes =>
          sv.room = RoomOf(w.chan) + InFlight(cl, "adjust") + InFlight(w.tx, "data")
      BY <1>1 DEF Base, Books
    <3> QED
      BY <1>0, <1>2, <1>3, <3>1, <3>2
  <2>3. Count(q, "reply") = Count(cl, "reply")
    BY <1>2, <1>3
  <2>4. Late(w) \/ ~sv2.sentClose => Late(w) \/ ~sv.sentClose
    OBVIOUS
  <2> QED
    BY <1>1, <2>1, <2>2, <2>3, <2>4 DEF Base, Books
<1>6. Base(w, q, sv2)
  BY <1>2, <1>4, <1>5 DEF Base
<1>7. Others(w, sv2, ap)
  BY DEF Others
<1> QED
  BY <1>6, <1>7 DEF q

\* The answer to the CHANNEL_OPEN.
LEMMA AnswerKeeps ==
  ASSUME NEW w, NEW cl, NEW sv, NEW ap, Base(w, cl, sv), Others(w, sv, ap),
         w.ssh.open, sv.state = "asked", NEW state \in {"open", "refused"}, NEW p,
         p = IF state = "open" THEN Packet("confirm", RemWindow) ELSE Packet("failure", 0)
  PROVE  LET q == Append(cl, p)
             sv2 == [sv EXCEPT !.state = state]
         IN Base(w, q, sv2) /\ Others(w, sv2, ap)
<1> DEFINE q == Append(cl, p)
           sv2 == [sv EXCEPT !.state = state]
<1>0. w \in Works /\ sv \in Servers /\ w.tx \in Packets(UpTypes)
  BY Fields DEF Base
<1>1. /\ sv2 \in Servers /\ sv2.state = state
      /\ sv2.sentEof = sv.sentEof /\ sv2.sentClose = sv.sentClose
      /\ sv2.gotEof = sv.gotEof /\ sv2.gotClose = sv.gotClose
      /\ sv2.offended = sv.offended /\ sv2.excess = sv.excess
      /\ sv2.win = sv.win /\ sv2.room = sv.room
  BY <1>0 DEF Servers
<1> HIDE DEF sv2
<1>2. ~sv.sentClose /\ ~sv.sentEof /\ w.chan.halfopen /\ HalfOpened(w)
  BY DEF Base, SentDown, Sides
<1>3. w.chan.live /\ cl = <<>>
  BY <1>2 DEF Base, Gone, Opening
<1>4. p \in [type : DownTypes, n : Nat] /\ p.type = (IF state = "open" THEN "confirm" ELSE "failure")
  BY Sizes DEF Packet, DownTypes
<1>5. /\ q = <<p>> /\ q # <<>> /\ Head(q) = p /\ q \in Packets(DownTypes)
      /\ DOMAIN q = {1} /\ q[1] = p
  BY <1>3, <1>4 DEF Packets
<1>6. /\ InFlight(q, "data") = InFlight(cl, "data")
      /\ InFlight(q, "adjust") = InFlight(cl, "adjust")
      /\ Count(q, "reply") = Count(cl, "reply")
  <2>1. cl \in Packets(DownTypes) /\ p.type \notin {"data", "adjust", "reply"}
    BY <1>4 DEF Base
  <2>2. /\ InFlight(q, "data") = InFlight(cl, "data") + (IF p.type = "data" THEN p.n ELSE 0)
        /\ InFlight(q, "adjust") = InFlight(cl, "adjust") + (IF p.type = "adjust" THEN p.n ELSE 0)
        /\ Count(q, "reply") = Count(cl, "reply") + (IF p.type = "reply" THEN 1 ELSE 0)
    BY <1>4, <2>1, AmountsAppend
  <2>3. InFlight(cl, "data") \in Nat /\ InFlight(cl, "adjust") \in Nat /\ Count(cl, "reply") \in Nat
    BY <2>1, Amounts
  <2> QED
    BY <2>1, <2>2, <2>3
<1> HIDE DEF q
<1>7. Ordered(q, DownOrder(Late(w)))
  BY <1>5 DEF Ordered
<1>8. /\ Lacks(q, {"close"}) /\ Lacks(q, {"eof"})
      /\ state = "open" => Lacks(q, {"failure"})
  BY <1>4, <1>5 DEF Lacks
<1>9. w.chan.closes = {}
  BY <1>2 DEF HalfOpened
<1>10. SentDown(w, q, sv2)
  BY <1>1, <1>2, <1>7, <1>8, <1>9 DEF SentDown
<1>11. Opening(w, q, sv2) /\ Gone(w, q, sv2)
  BY <1>1, <1>2, <1>3, <1>5 DEF Opening, Gone
<1>12. Books(w, q, sv2)
  BY <1>1, <1>6 DEF Base, Books
<1>13. ~Late(w) => SentUp(w, sv2)
  BY <1>1 DEF Base, SentUp
<1>14. Others(w, sv2, ap)
  BY <1>1 DEF Others
<1>15. Base(w, q, sv2)
  BY <1>1, <1>5, <1>10, <1>11, <1>12, <1>13 DEF Base
<1> QED
  BY <1>14, <1>15 DEF q, sv2

\* What is first on the way to the server.
LEMMA UpFacts ==
  ASSUME NEW q \in Packets(UpTypes), q # <<>>
  PROVE  LET h == Head(q)
             r == Tail(q)
         IN /\ h \in [type : UpTypes, n : Nat] /\ r \in Packets(UpTypes)
            /\ \A some : Lacks(q, some) => Lacks(r, some) /\ h.type \notin some
            /\ InFlight(q, "data") = (IF h.type = "data" THEN h.n ELSE 0) + InFlight(r, "data")
            /\ InFlight(q, "adjust") = (IF h.type = "adjust" THEN h.n ELSE 0) + InFlight(r, "adjust")
            /\ Count(q, "winadj") = (IF h.type = "winadj" THEN 1 ELSE 0) + Count(r, "winadj")
            /\ InFlight(r, "data") \in Nat /\ InFlight(r, "adjust") \in Nat
            /\ Count(r, "winadj") \in Nat
            /\ Ordered(q, UpOrder) =>
                 /\ Ordered(r, UpOrder)
                 /\ h.type = "eof" => Lacks(r, {"data", "eof"})
                 /\ h.type = "close" => r = <<>>
<1> DEFINE h == Head(q)
           r == Tail(q)
<1>1. h \in [type : UpTypes, n : Nat] /\ r \in Packets(UpTypes)
  BY AmountsTail
<1>2. /\ InFlight(q, "data") = (IF h.type = "data" THEN h.n ELSE 0) + InFlight(r, "data")
      /\ InFlight(q, "adjust") = (IF h.type = "adjust" THEN h.n ELSE 0) + InFlight(r, "adjust")
      /\ Count(q, "winadj") = (IF h.type = "winadj" THEN 1 ELSE 0) + Count(r, "winadj")
  BY AmountsTail
<1>3. \A some : Lacks(q, some) => Lacks(r, some) /\ h.type \notin some
  BY LacksTail
<1>4. /\ InFlight(r, "data") \in Nat /\ InFlight(r, "adjust") \in Nat
      /\ Count(r, "winadj") \in Nat
  BY <1>1, Amounts
<1>5. Ordered(q, UpOrder) =>
        /\ Ordered(r, UpOrder)
        /\ \A i \in DOMAIN r : <<h.type, r[i].type>> \in UpOrder
  BY OrderTail
<1> HIDE DEF h, r
<1>6. ASSUME Ordered(q, UpOrder)
      PROVE  /\ Ordered(r, UpOrder)
             /\ h.type = "eof" => Lacks(r, {"data", "eof"})
             /\ h.type = "close" => r = <<>>
  <2>1. \A i \in DOMAIN r : /\ h.type # "close"
                            /\ h.type = "eof" => r[i].type \notin {"data", "eof"}
    BY Zenon, <1>5, <1>6 DEF UpOrder
  <2>2. h.type = "close" => Lacks(r, UpTypes)
    BY <2>1 DEF Lacks
  <2>3. h.type = "close" => r = <<>>
    BY Zenon, <1>1, <2>2, NothingLeft
  <2>4. h.type = "eof" => Lacks(r, {"data", "eof"})
    BY <2>1 DEF Lacks
  <2> QED
    BY <1>5, <1>6, <2>3, <2>4
<1> QED
  BY <1>1, <1>2, <1>3, <1>4, <1>6 DEF h, r

\* The server takes a packet, and answers a request as it answers them.
LEMMA ReceivingKeeps ==
  ASSUME NEW w, NEW cl, NEW sv, NEW ap, Base(w, cl, sv), Others(w, sv, ap),
         w.ssh.open, w.tx # <<>>, NEW q2, NEW sv2 \in Servers,
         sv2.state = sv.state, sv2.sentEof = sv.sentEof, sv2.sentClose = sv.sentClose,
         sv2.excess = sv.excess,
         sv2.offended <=> \/ sv.offended
                          \/ sv.gotClose
                          \/ Head(w.tx).type \in {"data", "eof"} /\ sv.gotEof
                          \/ Head(w.tx).type = "data" /\ sv.room < Head(w.tx).n,
         sv2.gotEof <=> sv.gotEof \/ Head(w.tx).type = "eof",
         sv2.gotClose <=> sv.gotClose \/ Head(w.tx).type = "close",
         sv2.win = sv.win + (IF Head(w.tx).type = "adjust" THEN Head(w.tx).n ELSE 0),
         sv2.room = sv.room - (IF Head(w.tx).type = "data" THEN Head(w.tx).n ELSE 0),
         q2 = IF Head(w.tx).type = "winadj" /\ (~sv.sentClose \/ Late(w))
              THEN Append(cl, Packet("reply", 0)) ELSE cl
  PROVE  LET v == [w EXCEPT !.tx = Tail(@)]
         IN Base(v, q2, sv2) /\ Others(v, sv2, ap)
<1> DEFINE h == Head(w.tx)
           r == Tail(w.tx)
           v == [w EXCEPT !.tx = r]
           asks == h.type = "winadj" /\ (~sv.sentClose \/ Late(w))
<1>0. /\ w \in Works /\ w.chan \in Chans /\ cl \in Packets(DownTypes)
      /\ w.tx \in Packets(UpTypes) /\ sv.win \in Int /\ sv.room \in Int /\ sv.excess \in Nat
      /\ w.chan.chanreqs \in Seq(Nat) /\ Len(w.chan.chanreqs) \in Nat
  BY SMTT(60), Fields DEF Base, Servers, Chans
<1>1. /\ h \in [type : UpTypes, n : Nat] /\ r \in Packets(UpTypes)
      /\ \A some : Lacks(w.tx, some) => Lacks(r, some) /\ h.type \notin some
      /\ InFlight(w.tx, "data") = (IF h.type = "data" THEN h.n ELSE 0) + InFlight(r, "data")
      /\ InFlight(w.tx, "adjust") = (IF h.type = "adjust" THEN h.n ELSE 0) + InFlight(r, "adjust")
      /\ Count(w.tx, "winadj") = (IF h.type = "winadj" THEN 1 ELSE 0) + Count(r, "winadj")
      /\ InFlight(r, "data") \in Nat /\ InFlight(r, "adjust") \in Nat
      /\ Count(r, "winadj") \in Nat
      /\ Ordered(w.tx, UpOrder) =>
           /\ Ordered(r, UpOrder)
           /\ h.type = "eof" => Lacks(r, {"data", "eof"})
           /\ h.type = "close" => r = <<>>
  BY Zenon, <1>0, UpFacts
<1> HIDE DEF h, r
<1>2. h.n \in Nat /\ h.type \in UpTypes
  BY <1>1
<1>3. /\ v \in Works /\ v.chan = w.chan /\ v.pf = w.pf /\ v.sock = w.sock /\ v.ssh = w.ssh
      /\ v.tx = r
  BY Zenon, <1>0, <1>1 DEF Works
<1> HIDE DEF v
<1>4. ~w.chan.halfopen /\ sv.state = "open"
  <2>1. ~w.chan.halfopen
    BY DEF Base, Sides, HalfOpened
  <2> QED
    BY <2>1 DEF Base, SentDown
<1>5. Sides(v)
  BY <1>3, <1>4 DEF Base, Sides, Forwards
<1>6. ~Late(v) => SentUp(v, sv2)
  <2> SUFFICES ASSUME ~Late(v) PROVE SentUp(v, sv2)
    OBVIOUS
  <2>1. SentUp(w, sv)
    BY <1>3 DEF Base, Late
  <2>2. ~sv.offended /\ ~sv.gotClose /\ Ordered(w.tx, UpOrder) /\ InFlight(w.tx, "data") <= sv.room
        /\ (sv.gotEof => h.type \notin {"data", "eof"} /\ Lacks(r, {"data", "eof"}))
    BY <1>1, <2>1 DEF SentUp
  <2>3. ~(h.type = "data" /\ sv.room < h.n)
    BY <1>0, <1>1, <1>2, <2>2
  <2>4. ~sv2.offended
    BY <2>2, <2>3 DEF h
  <2>5. InFlight(r, "data") <= sv2.room
    <3>1. sv2.room = sv.room - (IF h.type = "data" THEN h.n ELSE 0)
      BY DEF h
    <3> QED
      BY <1>0, <1>1, <1>2, <2>2, <3>1
  <2>6. "SENT_EOF" \notin w.chan.closes => Lacks(r, {"eof"}) /\ ~sv2.gotEof
    <3>1. "SENT_EOF" \notin w.chan.closes => Lacks(w.tx, {"eof"}) /\ ~sv.gotEof
      BY <2>1 DEF SentUp
    <3> QED
      BY <1>1, <3>1 DEF h
  <2>7. "SENT_CLOSE" \notin w.chan.closes => Lacks(r, {"close"}) /\ ~sv2.gotClose
    <3>1. "SENT_CLOSE" \notin w.chan.closes => Lacks(w.tx, {"close"}) /\ ~sv.gotClose
      BY <2>1 DEF SentUp
    <3> QED
      BY <1>1, <3>1 DEF h
  <2>8. sv2.gotEof => Lacks(r, {"data", "eof"})
    BY <1>1, <2>2 DEF h
  <2>9. sv2.gotClose => r = <<>>
    BY <1>1, <2>2 DEF h
  <2> QED
    BY <1>1, <1>3, <2>2, <2>4, <2>5, <2>6, <2>7, <2>8, <2>9 DEF SentUp
<1>7. asks => w.chan.live
  <2> SUFFICES ASSUME asks, ~w.chan.live PROVE FALSE
    BY <1>0, Fields
  <2>1. sv.sentClose /\ (Late(w) => Count(w.tx, "winadj") = 0)
    BY <1>4 DEF Base, Gone
  <2>2. Count(w.tx, "winadj") # 0
    BY <1>1
  <2> QED
    BY <2>1, <2>2
<1>8. /\ q2 \in Packets(DownTypes)
      /\ SentDown(w, q2, sv2) /\ Opening(w, q2, sv2)
      /\ InFlight(q2, "data") = InFlight(cl, "data")
      /\ InFlight(q2, "adjust") = InFlight(cl, "adjust")
      /\ Count(q2, "reply") = Count(cl, "reply") + (IF asks THEN 1 ELSE 0)
  <2>0. /\ InFlight(cl, "data") \in Nat /\ InFlight(cl, "adjust") \in Nat
        /\ Count(cl, "reply") \in Nat
    BY <1>0, Amounts
  <2>1. CASE asks
    <3>1. q2 = Append(cl, Packet("reply", 0))
      BY <2>1 DEF h
    <3>2. /\ w.chan.live /\ "reply" \in DownTypes /\ 0 \in Nat
          /\ sv2.state = "open" /\ (~sv.sentClose \/ (Late(w) /\ "reply" = "reply"))
          /\ sv2.sentEof <=> sv.sentEof \/ "reply" = "eof"
          /\ sv2.sentClose <=> sv.sentClose \/ "reply" = "close"
      BY <1>4, <1>7, <2>1 DEF DownTypes
    <3> DEFINE type == "reply"
               z == Append(cl, Packet(type, 0))
    <3>3. /\ type \in DownTypes /\ type \notin {"confirm", "failure"} /\ type \notin {"data", "eof"}
          /\ type = "reply" /\ type # "close" /\ type # "adjust" /\ type # "eof"
      BY DEF DownTypes
    <3> HIDE DEF type
    <3>4. /\ z \in Packets(DownTypes)
          /\ SentDown(w, z, sv2) /\ Opening(w, z, sv2) /\ Gone(w, z, sv2)
          /\ InFlight(z, "data") = InFlight(cl, "data") + (IF type = "data" THEN 0 ELSE 0)
          /\ InFlight(z, "adjust") = InFlight(cl, "adjust") + (IF type = "adjust" THEN 0 ELSE 0)
          /\ Count(z, "reply") = Count(cl, "reply") + (IF type = "reply" THEN 1 ELSE 0)
      BY <1>4, <3>2, <3>3, Telling
    <3>5. z = q2
      BY <3>1, <3>3
    <3> HIDE DEF z
    <3> QED
      BY <2>0, <2>1, <3>3, <3>4, <3>5
  <2>2. CASE ~asks
    <3>1. q2 = cl
      BY <2>2 DEF h
    <3>2. SentDown(w, cl, sv2) /\ Opening(w, cl, sv2)
      BY DEF Base, SentDown, Opening
    <3> QED
      BY <1>0, <2>0, <2>2, <3>1, <3>2
  <2> QED
    BY <2>1, <2>2
<1>9. asks => h.type = "winadj" /\ (Late(w) \/ ~sv.sentClose)
  OBVIOUS
<1>9a. h.type = "winadj" /\ (Late(w) \/ ~sv.sentClose) => asks
  OBVIOUS
<1>10. Count(cl, "reply") \in Nat /\ InFlight(cl, "data") \in Nat /\ InFlight(cl, "adjust") \in Nat
  BY <1>0, Amounts
<1> HIDE DEF asks
<1>11. SentDown(v, q2, sv2) /\ Opening(v, q2, sv2)
  BY <1>3, <1>8 DEF SentDown, Opening, Late
<1>12. Books(v, q2, sv2)
  <2> SUFFICES ASSUME w.chan.live PROVE Books(v, q2, sv2)
    BY <1>3 DEF Books
  <2>1. w.chan.locwindow = sv2.win + InFlight(r, "adjust") + InFlight(q2, "data")
    <3>1. w.chan.locwindow = sv.win + InFlight(w.tx, "adjust") + InFlight(cl, "data")
      BY DEF Base, Books
    <3>2. sv2.win = sv.win + (IF h.type = "adjust" THEN h.n ELSE 0)
      BY DEF h
    <3> QED
      BY SMTT(60), <1>0, <1>1, <1>2, <1>8, <1>10, <3>1, <3>2
  <2>2. "SENT_EOF" \notin w.chan.closes =>
          sv2.room = RoomOf(w.chan) + InFlight(q2, "adjust") + InFlight(r, "data")
    <3>1. RoomOf(w.chan) \in Nat
      BY <1>0, Fields, Sizes DEF RoomOf
    <3>2. "SENT_EOF" \notin w.chan.closes =>
          sv.room = RoomOf(w.chan) + InFlight(cl, "adjust") + InFlight(w.tx, "data")
      BY DEF Base, Books
    <3>3. sv2.room = sv.room - (IF h.type = "data" THEN h.n ELSE 0)
      BY DEF h
    <3> QED
      BY <1>0, <1>1, <1>2, <1>8, <1>10, <3>1, <3>2, <3>3
  <2>3. Late(w) \/ ~sv.sentClose =>
          Len(w.chan.chanreqs) = Count(r, "winadj") + Count(q2, "reply")
    <3> SUFFICES ASSUME Late(w) \/ ~sv.sentClose
                 PROVE  Len(w.chan.chanreqs) = Count(r, "winadj") + Count(q2, "reply")
      OBVIOUS
    <3>1. Len(w.chan.chanreqs) = Count(w.tx, "winadj") + Count(cl, "reply")
      BY DEF Base, Books
    <3>2. CASE h.type = "winadj"
      <4>1. asks
        BY <1>9a, <3>2
      <4> QED
        BY <1>0, <1>1, <1>8, <1>10, <3>1, <3>2, <4>1
    <3>3. CASE h.type # "winadj"
      <4>1. ~asks
        BY <1>9, <3>3
      <4> QED
        BY <1>0, <1>1, <1>8, <1>10, <3>1, <3>3, <4>1
    <3> QED
      BY <3>2, <3>3
  <2>4. Len(w.chan.chanreqs) >= Count(q2, "reply")
    <3>1. CASE asks
      BY <1>0, <1>1, <1>8, <1>9, <1>10, <2>3, <3>1
    <3>2. CASE ~asks
      <4>1. Len(w.chan.chanreqs) >= Count(cl, "reply")
        BY DEF Base, Books
      <4> QED
        BY <1>0, <1>8, <1>10, <3>2, <4>1
    <3> QED
      BY <3>1, <3>2
  <2> QED
    BY <1>3, <2>1, <2>2, <2>3, <2>4 DEF Books, Late
<1>13. Gone(v, q2, sv2)
  <2> SUFFICES ASSUME ~w.chan.live PROVE Gone(v, q2, sv2)
    BY <1>3 DEF Gone
  <2>1. /\ cl = <<>> /\ sv.sentClose /\ (Late(w) => Count(w.tx, "winadj") = 0)
    BY <1>4 DEF Base, Gone
  <2>2. q2 = cl
    BY <1>7, <1>8 DEF asks, h
  <2>3. Count(w.tx, "winadj") = 0 => Count(r, "winadj") = 0
    BY <1>1
  <2> QED
    BY <1>3, <2>1, <2>2, <2>3 DEF Gone, Late
<1>14. Base(v, q2, sv2)
  BY <1>3, <1>5, <1>6, <1>8, <1>11, <1>12, <1>13 DEF Base
<1>15. Others(v, sv2, ap)
  <2>1. sv2.win >= -sv2.excess
    <3>1. sv.win >= -sv.excess /\ sv2.win = sv.win + (IF h.type = "adjust" THEN h.n ELSE 0)
      BY DEF Others, h
    <3> QED
      BY <1>0, <1>2, <3>1
  <2>2. Settled(v) /\ AppDone(v, ap) /\ Held(v)
    BY <1>3 DEF Others, Settled, AppDone, Held, Late
  <2>3. sv2.excess = 0 => Within(v)
    BY <1>3 DEF Others, Within
  <2> QED
    BY <2>1, <2>2, <2>3 DEF Others
<1> QED
  BY <1>14, <1>15 DEF v, r

-----------------------------------------------------------------------------
(* Every action keeps the invariant.                                       *)

\* The parts of the state the handlers work on.
LEMMA NowIs ==
  /\ Now.chan = chan /\ Now.pf = pf /\ Now.sock = sock /\ Now.ssh = ssh
  /\ Now.tx = toServer /\ Now.pipe = pipe /\ Now.fault = fault
BY DEF Now

\* A handler that leaves a state of the invariant leaves the variables in it.
LEMMA Becoming ==
  ASSUME NEW w \in Works, Become(w), Base(w, toClient', server'), Others(w, server', app')
  PROVE  IndInv'
<1>1. Now' = w
  BY DEF Now, Works, Become
<1>2. Base(Now', toClient', server') /\ Others(Now', server', app')
  BY <1>1
<1> QED
  BY <1>2 DEF IndInv

\* So does one that was run for a packet, whether the rest of its chunk is gone
\* through at once or not.
LEMMA Handling ==
  ASSUME NEW w, Handled(w), Base(w, Tail(toClient), server), Others(w, server, app)
  PROVE  IndInv'
<1> DEFINE b == w.ssh.queued > 0 /\ w.ssh.conn_throttle_count = 0
           v == [w EXCEPT !.ssh.reading = b]
<1>1. w \in Works /\ w.ssh \in Sshs
  BY DEF Base, Works
<1>2. b \in BOOLEAN
  OBVIOUS
<1>3. Become(v) /\ toClient' = Tail(toClient) /\ app' = app /\ server' = server
  BY DEF Handled
<1> HIDE DEF b
<1>4. /\ v \in Works /\ v.chan = w.chan /\ v.pf = w.pf /\ v.sock = w.sock /\ v.tx = w.tx
      /\ v.ssh = [w.ssh EXCEPT !.reading = b]
  BY <1>1, <1>2 DEF Works, Sshs
<1> HIDE DEF v
<1>5. /\ v.ssh.open = w.ssh.open /\ v.ssh.remote_bugs = w.ssh.remote_bugs
      /\ v.ssh.conn_throttle_count = w.ssh.conn_throttle_count
      /\ v.ssh.throttled_all = w.ssh.throttled_all
  BY <1>1, <1>4 DEF Sshs
<1>6. Base(v, Tail(toClient), server)
  <2>1. v.sock.live /\ v.sock.outgoingeof # "NO" => "RCVD_EOF" \in w.chan.closes
    BY <1>4 DEF Base, Sides
  <2>2. w.chan.halfopen => HalfOpened(v)
    BY <1>4 DEF Base, Sides, HalfOpened
  <2> QED
    BY Zenon, <1>4, <1>5, <2>1, <2>2, SocketStepKeepsBase
<1>7. Others(v, server, app)
  <2>1. v.sock.output <= w.sock.output
    BY <1>1, <1>4, Fields
  <2> QED
    BY Zenon, <1>1, <1>4, <1>5, <2>1, SocketOthers
<1> QED
  BY <1>3, <1>4, <1>6, <1>7, Becoming

\* Going on in the chunk keeps the invariant.
LEMMA TakingIs ==
  ASSUME IndInv, NEW left \in Left, Takes
  PROVE  LET w == Taking(left)
         IN /\ Base(w, toClient, server) /\ Others(w, server, app)
            /\ w.chan = chan /\ w.ssh.remote_bugs = ssh.remote_bugs
            /\ toClient # <<>>
<1> DEFINE w == Now
           v == [w EXCEPT !.ssh.queued = left]
<1>1. w \in Works /\ w.ssh \in Sshs /\ Base(w, toClient, server) /\ Others(w, server, app)
  BY DEF IndInv, Base, Works
<1>2. left \in Nat
  <2>1. ssh.queued \in Nat
    BY <1>1, NowIs DEF Sshs
  <2>2. CASE ssh.queued > 0
    BY <2>1, <2>2 DEF Left
  <2>3. CASE ~(ssh.queued > 0)
    <3>1. left \in 0 .. Smaller(MaxChunk, Len(toClient)) - 1
      BY <2>3 DEF Left
    <3> QED
      BY <3>1
  <2> QED
    BY <2>2, <2>3
<1>3. Taking(left) = v
  BY DEF Taking
<1> HIDE DEF w
<1>4. /\ v \in Works /\ v.chan = w.chan /\ v.pf = w.pf /\ v.sock = w.sock /\ v.tx = w.tx
      /\ v.ssh = [w.ssh EXCEPT !.queued = left]
  BY <1>1, <1>2 DEF Works, Sshs
<1> HIDE DEF v
<1>5. /\ v.ssh.open = w.ssh.open /\ v.ssh.remote_bugs = w.ssh.remote_bugs
      /\ v.ssh.conn_throttle_count = w.ssh.conn_throttle_count
      /\ v.ssh.throttled_all = w.ssh.throttled_all
  BY <1>1, <1>4 DEF Sshs
<1>6. Base(v, toClient, server)
  <2>1. v.sock.live /\ v.sock.outgoingeof # "NO" => "RCVD_EOF" \in w.chan.closes
    BY <1>1, <1>4 DEF Base, Sides
  <2>2. w.chan.halfopen => HalfOpened(v)
    BY <1>1, <1>4 DEF Base, Sides, HalfOpened
  <2> QED
    BY Zenon, <1>1, <1>4, <1>5, <2>1, <2>2, SocketStepKeepsBase
<1>7. Others(v, server, app)
  <2>1. v.sock.output <= w.sock.output
    BY <1>1, <1>4, Fields
  <2> QED
    BY Zenon, <1>1, <1>4, <1>5, <2>1, SocketOthers
<1>8. w.chan = chan /\ w.ssh = ssh
  BY NowIs DEF w
<1> QED
  BY <1>3, <1>4, <1>5, <1>6, <1>7, <1>8 DEF Takes

\* A handler that is run for the packet at the head of the queue.
LEMMA Receiving ==
  ASSUME IndInv, Receive
  PROVE  IndInv'
<1>1. CASE OpenConfirmation
  <2>1. PICK left \in Left : Handled(Confirmed(Taking(left), Head(toClient).n))
    BY <1>1 DEF OpenConfirmation
  <2>2. Takes /\ Head(toClient).type = "confirm" /\ chan.live
    BY <1>1 DEF OpenConfirmation, Arrives, Knows
  <2> DEFINE w == Taking(left)
  <2>3. /\ Base(w, toClient, server) /\ Others(w, server, app)
        /\ w.chan = chan /\ toClient # <<>>
    BY <2>2, TakingIs
  <2> HIDE DEF w
  <2>4. /\ Base(Confirmed(w, Head(toClient).n), Tail(toClient), server)
        /\ Others(Confirmed(w, Head(toClient).n), server, app)
    BY <2>2, <2>3, ConfirmKeeps
  <2> QED
    BY <2>1, <2>4, Handling DEF w
<1>2. CASE OpenFailure
  <2>1. PICK left \in Left :
          LET w == [Taking(left) EXCEPT !.chan.live = FALSE]
          IN Handled(IF Forwards(chan) THEN PfdClose(w) ELSE w)
    BY Zenon, <1>2 DEF OpenFailure
  <2>2. Takes /\ Head(toClient).type = "failure" /\ chan.live
    BY <1>2 DEF OpenFailure, Arrives, Knows
  <2> DEFINE w == Taking(left)
             u == [w EXCEPT !.chan.live = FALSE]
             v == IF Forwards(w.chan) THEN PfdClose(u) ELSE u
  <2>3. /\ Base(w, toClient, server) /\ Others(w, server, app)
        /\ w.chan = chan /\ toClient # <<>>
    BY <2>2, TakingIs
  <2>4. Handled(v)
    BY <2>1, <2>3
  <2> HIDE DEF w
  <2>5. Base(v, Tail(toClient), server) /\ Others(v, server, app)
    BY <2>2, <2>3, FailureKeeps
  <2> HIDE DEF v
  <2> QED
    BY <2>4, <2>5, Handling
<1>3. CASE WindowAdjust
  <2>1. PICK left \in Left :
          Handled(IF SentEof(chan) THEN Taking(left)
                  ELSE TrySendAndUnthrottle([Taking(left)
                         EXCEPT !.chan.remwindow = @ + Head(toClient).n]))
    BY <1>3 DEF WindowAdjust
  <2>2. Takes /\ Head(toClient).type = "adjust" /\ chan.live /\ ~chan.halfopen
    BY <1>3 DEF WindowAdjust, Arrives, Knows
  <2> DEFINE w == Taking(left)
             u == TrySendAndUnthrottle([w EXCEPT !.chan.remwindow = @ + Head(toClient).n])
  <2>3. /\ Base(w, toClient, server) /\ Others(w, server, app)
        /\ w.chan = chan /\ toClient # <<>>
    BY <2>2, TakingIs
  <2>4. Handled(IF SentEof(chan) THEN w ELSE u)
    BY <2>1
  <2> HIDE DEF w
  <2>5. CASE SentEof(chan)
    <3>1. Base(w, Tail(toClient), server)
      BY <2>2, <2>3, <2>5, TakeOther DEF SentEof
    <3> QED
      BY <2>3, <2>4, <2>5, <3>1, Handling
  <2>6. CASE ~SentEof(chan)
    <3>1. Base(u, Tail(toClient), server) /\ Others(u, server, app)
      BY <2>2, <2>3, <2>6, AdjustKeeps DEF SentEof
    <3> HIDE DEF u
    <3> QED
      BY <2>4, <2>6, <3>1, Handling
  <2> QED
    BY <2>5, <2>6
<1>4. CASE ChannelData
  <2>1. PICK left \in Left : Handled(GotData(Taking(left), Head(toClient).n))
    BY <1>4 DEF ChannelData
  <2>2. Takes /\ Head(toClient).type = "data" /\ chan.live /\ ~chan.halfopen
    BY <1>4 DEF ChannelData, Arrives, Knows
  <2> DEFINE w == Taking(left)
             v == GotData(w, Head(toClient).n)
  <2>3. /\ Base(w, toClient, server) /\ Others(w, server, app)
        /\ w.chan = chan /\ toClient # <<>>
    BY <2>2, TakingIs
  <2>4. Handled(v)
    BY <2>1
  <2> HIDE DEF w
  <2>5. Base(v, Tail(toClient), server) /\ Others(v, server, app)
    BY <2>2, <2>3, GotDataKeeps
  <2> HIDE DEF v
  <2> QED
    BY <2>4, <2>5, Handling
<1>5. CASE ChannelResponse
  <2>1. PICK left \in Left :
          Handled(IF chan.chanreqs = <<>> THEN Fail(Taking(left), "unexpected")
                  ELSE CheckClose(Answered(Taking(left))))
    BY <1>5 DEF ChannelResponse
  <2>2. Takes /\ Head(toClient).type = "reply" /\ chan.live /\ ~chan.halfopen
    BY <1>5 DEF ChannelResponse, Arrives, Knows
  <2> DEFINE w == Taking(left)
             v == CheckClose(Answered(w))
  <2>3. /\ Base(w, toClient, server) /\ Others(w, server, app)
        /\ w.chan = chan /\ toClient # <<>>
    BY <2>2, TakingIs
  <2>4. Handled(IF chan.chanreqs = <<>> THEN Fail(w, "unexpected") ELSE v)
    BY <2>1
  <2> HIDE DEF w
  <2>5. /\ Base(v, Tail(toClient), server) /\ Others(v, server, app)
        /\ w.chan.chanreqs # <<>>
    BY <2>2, <2>3, ResponseKeeps
  <2> HIDE DEF v
  <2> QED
    BY <2>3, <2>4, <2>5, Handling
<1>6. CASE ChannelEof
  <2>1. PICK left \in Left : Handled(GotEof(Taking(left)))
    BY <1>6 DEF ChannelEof
  <2>2. Takes /\ Head(toClient).type = "eof" /\ chan.live /\ ~chan.halfopen
    BY <1>6 DEF ChannelEof, Arrives, Knows
  <2> DEFINE w == Taking(left)
             v == GotEof(w)
  <2>3. /\ Base(w, toClient, server) /\ Others(w, server, app)
        /\ w.chan = chan /\ toClient # <<>>
    BY <2>2, TakingIs
  <2>4. Handled(v)
    BY <2>1
  <2> HIDE DEF w
  <2>5. /\ Base(w, Tail(toClient), server)
        /\ "RCVD_CLOSE" \notin w.chan.closes
        /\ server.sentEof /\ Lacks(Tail(toClient), {"data", "eof"})
    BY <2>2, <2>3, TakeOther
  <2>6. Base(v, Tail(toClient), server) /\ Others(v, server, app)
    BY <2>2, <2>3, <2>5, GotEofKeeps
  <2> HIDE DEF v
  <2> QED
    BY <2>4, <2>6, Handling
<1>7. CASE ChannelClose
  <2>1. PICK left \in Left : Handled(GotClose(Taking(left)))
    BY <1>7 DEF ChannelClose
  <2>2. Takes /\ Head(toClient).type = "close" /\ chan.live /\ ~chan.halfopen
    BY <1>7 DEF ChannelClose, Arrives, Knows
  <2> DEFINE w == Taking(left)
             v == GotClose(w)
  <2>3. /\ Base(w, toClient, server) /\ Others(w, server, app)
        /\ w.chan = chan /\ toClient # <<>> /\ w.ssh.remote_bugs = ssh.remote_bugs
    BY <2>2, TakingIs
  <2>4. Handled(v)
    BY <2>1
  <2> HIDE DEF w
  <2>5. /\ Base(w, Tail(toClient), server)
        /\ "RCVD_CLOSE" \notin w.chan.closes
        /\ server.sentClose
        /\ Lacks(Tail(toClient), IF Late(w) THEN DownTypes \ {"reply"} ELSE DownTypes)
    BY Zenon, <2>2, <2>3, TakeOther
  <2>6. Base(v, Tail(toClient), server) /\ Others(v, server, app)
    BY Zenon, <2>2, <2>3, <2>5, GotCloseKeeps
  <2> HIDE DEF v
  <2> QED
    BY <2>4, <2>6, Handling
<1> QED
  BY <1>1, <1>2, <1>3, <1>4, <1>5, <1>6, <1>7 DEF Receive

\* What the invariant says of the variables.
LEMMA InvHolds ==
  ASSUME IndInv
  PROVE  /\ Base(Now, toClient, server) /\ Others(Now, server, app)
         /\ Now \in Works /\ ssh \in Sshs /\ sock \in Socks /\ chan \in Chans /\ pf \in Pfs
         /\ server \in Servers /\ app \in Apps /\ pipe \in Pipes
<1>1. Now \in Works
  BY DEF IndInv, Base
<1>2. ssh \in Sshs /\ sock \in Socks /\ chan \in Chans /\ pf \in Pfs /\ pipe \in Pipes
  BY <1>1, NowIs DEF Works
<1> QED
  BY <1>1, <1>2 DEF IndInv, Base, Others

\* So does one that was run for an event of this side.
LEMMA LocalSteps ==
  ASSUME NEW w, LocalStep(w), Base(w, toClient, server), Others(w, server, app')
  PROVE  IndInv'
<1>1. Become(w) /\ toClient' = toClient /\ server' = server
  BY DEF LocalStep
<1>2. Base(w, toClient', server') /\ Others(w, server', app') /\ w \in Works
  BY <1>1 DEF Base
<1> QED
  BY <1>1, <1>2, Becoming

\* What the messages of the local socket do.
LEMMA SocketEvents ==
  ASSUME IndInv, SocketEvent
  PROVE  IndInv'
<1> DEFINE w == Now
<1>0. /\ Base(w, toClient, server) /\ Others(w, server, app) /\ w \in Works
      /\ w.sock = sock /\ w.pf = pf /\ w.chan = chan /\ app \in Apps
  BY InvHolds, NowIs
<1> HIDE DEF w
<1>1. CASE FdRead
  <2>1. PICK n \in 1 .. app.unread :
          /\ LocalStep(PfdReceive(Now, n))
          /\ app' = [app EXCEPT !.unread = @ - n]
    BY Zenon, <1>1 DEF FdRead
  <2>2. LocalStep(PfdReceive(w, n))
    BY <2>1 DEF w
  <2>3. w.sock.live /\ ~w.sock.frozen
    BY <1>0, <1>1 DEF FdRead, ReadDue
  <2>4. Base(PfdReceive(w, n), toClient, server) /\ Others(PfdReceive(w, n), server, app')
    BY <1>0, <2>1, <2>3, ReadKeeps
  <2> QED
    BY <2>2, <2>4, LocalSteps
<1>2. CASE FdWrite
  <2>1. LocalStep(Sent(w)) /\ app' = app
    BY <1>0, <1>2 DEF FdWrite, Sent, w
  <2>2. w.sock.live /\ ~w.sock.writable
    BY <1>0, <1>2 DEF FdWrite, WriteDue
  <2>3. Base(Sent(w), toClient, server) /\ Others(Sent(w), server, app')
    BY <1>0, <2>1, <2>2, SentKeeps
  <2> QED
    BY <2>1, <2>3, LocalSteps
<1>3. CASE FdClose
  <2> DEFINE x == [w EXCEPT !.sock.closed = TRUE]
           r == Drains(x, app.unread)
  <2>1. /\ LocalStep(IF app.reset THEN UncleanClose(x) ELSE WriteEof(r))
        /\ app' = [app EXCEPT !.unread = 0]
    BY <1>3 DEF FdClose, Drains, w
  <2>2. w.sock.live /\ (app.reset \/ (app.fin /\ (app.unread = 0 \/ ~w.sock.frozen)))
    BY <1>0, <1>3 DEF FdClose, CloseDue
  <2>3. /\ x \in Works /\ x.chan = w.chan /\ x.pf = w.pf /\ x.ssh = w.ssh /\ x.tx = w.tx
        /\ x.sock = [w.sock EXCEPT !.closed = TRUE] /\ w.sock \in Socks
    BY Zenon, <1>0 DEF Works, Socks
  <2> HIDE DEF x
  <2>4. /\ x.sock.live = w.sock.live /\ x.sock.frozen = w.sock.frozen
        /\ x.sock.output = w.sock.output /\ x.sock.outgoingeof = w.sock.outgoingeof
        /\ x.sock.writable = w.sock.writable
    BY <2>3 DEF Socks
  <2>5. Base(x, toClient, server)
    <3>1. x.sock.live /\ x.sock.outgoingeof # "NO" => "RCVD_EOF" \in w.chan.closes
      BY <1>0, <2>4 DEF Base, Sides
    <3>2. w.chan.halfopen => HalfOpened(x)
      BY <1>0, <2>3, <2>4 DEF Base, Sides, HalfOpened
    <3> QED
      BY Zenon, <1>0, <2>3, <2>4, <3>1, <3>2, SocketStepKeepsBase
  <2>6. Others(x, server, app)
    <3>1. x.sock.output <= w.sock.output
      BY <1>0, <2>4, Fields
    <3> QED
      BY Zenon, <1>0, <2>3, <2>4, <3>1, SocketOthers
  <2>7. CASE app.reset
    <3>1. Others(x, server, app')
      BY <2>1, <2>6, NothingUnread
    <3>2. Base(UncleanClose(x), toClient, server) /\ Others(UncleanClose(x), server, app')
      BY Zenon, <2>2, <2>4, <2>5, <3>1, UncleanCloseKeeps
    <3> QED
      BY <2>1, <2>7, <3>2, LocalSteps
  <2>8. CASE ~app.reset
    <3>1. /\ Base(r, toClient, server) /\ r.sock.live
          /\ Others(r, server, [app EXCEPT !.unread = 0])
      BY <2>2, <2>4, <2>5, <2>6, <2>8, DrainsKeeps
    <3> HIDE DEF r
    <3>2. app'.unread = 0 /\ app'.fin = app.fin
      BY <1>0, <2>1 DEF Apps
    <3>3. Others(r, server, app')
      BY <2>1, <3>1
    <3>4. Base(WriteEof(r), toClient, server) /\ Others(WriteEof(r), server, app')
      BY <2>2, <2>8, <3>1, <3>2, <3>3, WriteEofKeeps
    <3> QED
      BY <2>1, <2>8, <3>4, LocalSteps
  <2> QED
    BY <2>7, <2>8
<1>4. CASE SocketErrorCallback
  <2> DEFINE x == [w EXCEPT !.sock.pending_error = FALSE]
  <2>1. LocalStep(IF sock.live THEN UncleanClose(x) ELSE x) /\ app' = app
    BY <1>4 DEF SocketErrorCallback, w
  <2>3. /\ x \in Works /\ x.chan = w.chan /\ x.pf = w.pf /\ x.ssh = w.ssh /\ x.tx = w.tx
        /\ x.sock = [w.sock EXCEPT !.pending_error = FALSE] /\ w.sock \in Socks
    BY Zenon, <1>0, FALSE \in BOOLEAN DEF Works, Socks
  <2> HIDE DEF x
  <2>4. /\ x.sock.live = w.sock.live /\ x.sock.frozen = w.sock.frozen
        /\ x.sock.output = w.sock.output /\ x.sock.outgoingeof = w.sock.outgoingeof
        /\ x.sock.writable = w.sock.writable
    BY <2>3 DEF Socks
  <2>5. Base(x, toClient, server)
    <3>1. x.sock.live /\ x.sock.outgoingeof # "NO" => "RCVD_EOF" \in w.chan.closes
      BY <1>0, <2>4 DEF Base, Sides
    <3>2. w.chan.halfopen => HalfOpened(x)
      BY <1>0, <2>3, <2>4 DEF Base, Sides, HalfOpened
    <3> QED
      BY Zenon, <1>0, <2>3, <2>4, <3>1, <3>2, SocketStepKeepsBase
  <2>6. Others(x, server, app)
    <3>1. x.sock.output <= w.sock.output
      BY <1>0, <2>4, Fields
    <3> QED
      BY Zenon, <1>0, <2>3, <2>4, <3>1, SocketOthers
  <2>7. CASE sock.live
    <3>1. Base(UncleanClose(x), toClient, server) /\ Others(UncleanClose(x), server, app')
      BY Zenon, <1>0, <2>1, <2>4, <2>5, <2>6, <2>7, UncleanCloseKeeps
    <3> QED
      BY <2>1, <2>7, <3>1, LocalSteps
  <2>8. CASE ~sock.live
    BY <2>1, <2>5, <2>6, <2>8, LocalSteps
  <2> QED
    BY <2>7, <2>8
<1> QED
  BY <1>1, <1>2, <1>3, <1>4 DEF SocketEvent

\* What concerns the connection as a whole.
LEMMA Connections ==
  ASSUME IndInv, Connection
  PROVE  IndInv'
<1> DEFINE w == Now
<1>0. /\ Base(w, toClient, server) /\ Others(w, server, app) /\ w \in Works
      /\ w.sock = sock /\ w.pf = pf /\ w.chan = chan /\ w.ssh = ssh /\ w.pipe = pipe
      /\ w.tx = toServer /\ w.fault = fault /\ app \in Apps
      /\ ssh \in Sshs /\ sock \in Socks /\ chan \in Chans
  BY InvHolds, NowIs
<1> HIDE DEF w
<1>1. CASE QueueResumes
  <2>1. PICK n \in 1 .. Smaller(MaxChunk, Len(toClient) - ssh.queued) :
          ssh' = [ssh EXCEPT !.queued = @ + n, !.reading = TRUE]
    BY Zenon, <1>1 DEF QueueResumes
  <2>2. UNCHANGED <<chan, pf, sock, toServer, toClient, pipe, app, server, fault>>
    BY <1>1 DEF QueueResumes
  <2> DEFINE v == [w EXCEPT !.ssh = ssh']
  <2>3. ssh.queued + n \in Nat
    BY <1>0 DEF Sshs
  <2>4. /\ ssh' \in Sshs /\ ssh'.open = ssh.open /\ ssh'.remote_bugs = ssh.remote_bugs
        /\ ssh'.conn_throttle_count = ssh.conn_throttle_count
        /\ ssh'.throttled_all = ssh.throttled_all
    BY Zenon, <1>0, <2>1, <2>3 DEF Sshs
  <2>5. /\ v \in Works /\ v.chan = w.chan /\ v.pf = w.pf /\ v.sock = w.sock /\ v.tx = w.tx
        /\ v.ssh = ssh' /\ v.pipe = w.pipe /\ v.fault = w.fault
    BY <1>0, <2>4 DEF Works
  <2> HIDE DEF v
  <2>6. Become(v)
    BY <1>0, <2>2, <2>5 DEF Become
  <2>7. Base(v, toClient, server)
    <3>1. v.sock.live /\ v.sock.outgoingeof # "NO" => "RCVD_EOF" \in w.chan.closes
      BY <1>0, <2>5 DEF Base, Sides
    <3>2. w.chan.halfopen => HalfOpened(v)
      BY <1>0, <2>5 DEF Base, Sides, HalfOpened
    <3> QED
      BY <1>0, <2>4, <2>5, <3>1, <3>2, SocketStepKeepsBase
  <2>8. Others(v, server, app)
    <3>1. v.sock.output <= w.sock.output
      BY <1>0, <2>5, Fields
    <3> QED
      BY <1>0, <2>4, <2>5, <3>1, SocketOthers
  <2> QED
    BY <2>2, <2>5, <2>6, <2>7, <2>8, Becoming
<1>2. CASE BacklogHigh
  <2>1. LocalStep(ThrottleAll(w, TRUE)) /\ app' = app
    BY Zenon, <1>2 DEF BacklogHigh, w
  <2>2. Base(ThrottleAll(w, TRUE), toClient, server) /\ Others(ThrottleAll(w, TRUE), server, app')
    BY Zenon, <1>0, <2>1, ThrottleAllKeeps
  <2> QED
    BY Zenon, <2>1, <2>2, LocalSteps
<1>3. CASE BacklogLow
  <2>1. LocalStep(ThrottleAll(w, FALSE)) /\ app' = app
    BY Zenon, <1>3 DEF BacklogLow, w
  <2>2. Base(ThrottleAll(w, FALSE), toClient, server) /\ Others(ThrottleAll(w, FALSE), server, app')
    BY Zenon, <1>0, <2>1, ThrottleAllKeeps, FALSE \in BOOLEAN
  <2> QED
    BY Zenon, <2>1, <2>2, LocalSteps
<1>4. CASE DoClose
  <2> DEFINE c == [chan EXCEPT !.live = FALSE]
             s == [sock EXCEPT !.live = @ /\ ~(chan.live /\ Forwards(chan))]
             h == [ssh EXCEPT !.open = FALSE, !.queued = 0]
             v == [w EXCEPT !.chan = c, !.sock = s, !.ssh = h, !.tx = <<>>]
  <2>1. /\ chan' = c /\ sock' = s /\ ssh' = h /\ toServer' = <<>> /\ toClient' = <<>>
        /\ UNCHANGED <<pf, pipe, app, server, fault>>
    BY <1>4 DEF DoClose
  <2>2. /\ c \in Chans /\ ~c.live /\ c.halfopen = chan.halfopen /\ c.type = chan.type
        /\ c.closes = chan.closes /\ c.chanreqs = chan.chanreqs
        /\ c.throttling_conn = chan.throttling_conn /\ c.outbuffer = chan.outbuffer
        /\ c.pending_eof = chan.pending_eof
    BY Zenon, <1>0, FALSE \in BOOLEAN DEF Chans
  <2>3. sock.live => chan.live /\ Forwards(chan)
    BY <1>0 DEF Base, Sides
  <2>4. /\ s \in Socks /\ ~s.live /\ s.output = sock.output /\ s.outgoingeof = sock.outgoingeof
        /\ s.writable = sock.writable
    BY Zenon, <1>0, <2>3 DEF Socks
  <2>5. /\ h \in Sshs /\ ~h.open /\ h.remote_bugs = ssh.remote_bugs
        /\ h.conn_throttle_count = ssh.conn_throttle_count
    BY Zenon, <1>0, FALSE \in BOOLEAN DEF Sshs
  <2>6. <<>> \in Packets(UpTypes) /\ <<>> \in Packets(DownTypes)
    BY DEF Packets
  <2> HIDE DEF c, s, h
  <2>7. /\ v \in Works /\ v.chan = c /\ v.sock = s /\ v.ssh = h /\ v.tx = <<>>
        /\ v.pf = w.pf /\ v.pipe = w.pipe /\ v.fault = w.fault
    BY Zenon, <1>0, <2>2, <2>4, <2>5, <2>6 DEF Works
  <2> HIDE DEF v
  <2>8. Become(v)
    BY <1>0, <2>1, <2>7 DEF Become
  <2>9. Lacks(<<>>, {}) /\ \A some : Lacks(<<>>, some)
    BY DEF Lacks
  <2>10. Sides(v)
    BY <1>0, <2>2, <2>3, <2>4, <2>5, <2>7 DEF Base, Sides, HalfOpened, Forwards
  <2>11. ~Late(v) => SentUp(v, server)
    <3> SUFFICES ASSUME ~Late(v) PROVE SentUp(v, server)
      OBVIOUS
    <3>1. SentUp(w, server)
      BY <1>0, <2>5, <2>7 DEF Base, Late
    <3>2. InFlight(<<>>, "data") <= server.room
      <4>1. InFlight(w.tx, "data") \in Nat /\ InFlight(<<>>, "data") = 0 /\ server.room \in Int
        BY <1>0, Fields, Amounts, AmountsOfNone DEF Base, Servers
      <4> QED
        BY <3>1, <4>1 DEF SentUp
    <3>3. Ordered(<<>>, UpOrder)
      BY DEF Ordered
    <3> QED
      BY <1>0, <2>2, <2>7, <2>9, <3>1, <3>2, <3>3 DEF SentUp
  <2>12. SentDown(v, <<>>, server)
    <3>1. Ordered(<<>>, DownOrder(Late(v)))
      BY DEF Ordered
    <3> QED
      BY <1>0, <2>2, <2>7, <2>9, <3>1 DEF Base, SentDown
  <2>13. Opening(v, <<>>, server) /\ Books(v, <<>>, server) /\ Gone(v, <<>>, server)
    BY <2>2, <2>5, <2>7, <2>9 DEF Opening, Books, Gone
  <2>14. Base(v, <<>>, server)
    BY <1>0, <2>6, <2>7, <2>10, <2>11, <2>12, <2>13 DEF Base
  <2>15. Others(v, server, app)
    BY <1>0, <2>2, <2>4, <2>5, <2>7 DEF Others, Settled, AppDone, Within, Held
  <2> QED
    BY <2>1, <2>7, <2>8, <2>14, <2>15, Becoming
<1> QED
  BY <1>1, <1>2, <1>3, <1>4 DEF Connection

\* What the local program does, while the channel and its socket stay as they are.
LEMMA AppSteps ==
  ASSUME IndInv, App
  PROVE  IndInv'
<1> DEFINE w == Now
           v == [w EXCEPT !.pipe = pipe']
<1>0. /\ Base(w, toClient, server) /\ Others(w, server, app) /\ w \in Works
      /\ w.sock = sock /\ w.pf = pf /\ w.chan = chan /\ w.ssh = ssh /\ w.tx = toServer
      /\ w.pipe = pipe /\ w.fault = fault
      /\ app \in Apps /\ pipe \in Pipes
  BY InvHolds, NowIs
<1> HIDE DEF w
<1>1. AppStep
  BY DEF App, AppWrites, AppShuts, AppResets, AppReads, AppSeesEof
<1>2. pipe' \in Pipes
  <2>1. CASE AppReads
    <3>1. pipe' = [pipe EXCEPT !.data = @ - 1] /\ pipe.data > 0
      BY <2>1 DEF AppReads
    <3>2. pipe.data - 1 \in 0 .. PipeSize
      BY <1>0, <3>1, Sizes DEF Pipes
    <3> QED
      BY <1>0, <3>1, <3>2 DEF Pipes
  <2>2. CASE ~AppReads
    <3>1. pipe' = pipe
      BY <2>2 DEF App, AppWrites, AppShuts, AppResets, AppSeesEof
    <3> QED
      BY <1>0, <3>1
  <2> QED
    BY <2>1, <2>2
<1>3. /\ v \in Works /\ v.chan = w.chan /\ v.pf = w.pf /\ v.sock = w.sock /\ v.tx = w.tx
      /\ v.ssh = w.ssh /\ v.pipe = pipe' /\ v.fault = w.fault
  BY <1>0, <1>2 DEF Works
<1> HIDE DEF v
<1>4. Become(v) /\ toClient' = toClient /\ server' = server
  BY <1>0, <1>1, <1>3 DEF Become, AppStep
<1>5. Base(v, toClient, server)
  <2>1. v.sock.live /\ v.sock.outgoingeof # "NO" => "RCVD_EOF" \in w.chan.closes
    BY <1>0, <1>3 DEF Base, Sides
  <2>2. w.chan.halfopen => HalfOpened(v)
    BY <1>0, <1>3 DEF Base, Sides, HalfOpened
  <2> QED
    BY <1>0, <1>3, <2>1, <2>2, SocketStepKeepsBase
<1>6. Others(v, server, app)
  <2>1. v.sock.output <= w.sock.output
    BY <1>0, <1>3, Fields
  <2> QED
    BY <1>0, <1>3, <2>1, SocketOthers
<1>7. /\ app' \in Apps
      /\ \/ app'.unread = app.unread /\ (app.fin => app'.fin) /\ (app.reset => app'.reset)
         \/ app'.unread = 0 /\ app'.reset
         \/ ~app.fin /\ ~app.reset
  <2>1. CASE AppWrites
    <3>1. /\ app' = [app EXCEPT !.sent = @ + 1, !.unread = @ + 1]
          /\ ~app.fin /\ ~app.reset
      BY <2>1 DEF AppWrites
    <3>2. app.sent + 1 \in Nat /\ app.unread + 1 \in Nat
      BY <1>0 DEF Apps
    <3> QED
      BY Zenon, <1>0, <3>1, <3>2 DEF Apps
  <2>2. CASE AppShuts
    BY Zenon, <1>0, <2>2, TRUE \in BOOLEAN DEF AppShuts, Apps
  <2>3. CASE AppResets
    BY Zenon, <1>0, <2>3 DEF AppResets, Apps
  <2>4. CASE AppReads
    BY <1>0, <2>4 DEF AppReads, Apps
  <2>5. CASE AppSeesEof
    BY Zenon, <1>0, <2>5 DEF AppSeesEof, Apps
  <2> QED
    BY <2>1, <2>2, <2>3, <2>4, <2>5 DEF App
<1>8. Others(v, server, app')
  BY <1>6, <1>7 DEF Others, AppDone
<1> QED
  BY <1>3, <1>4, <1>5, <1>8, Becoming

\* What the server does: it changes only its own state and the packets under way.
LEMMA ServerSteps ==
  ASSUME IndInv, Server
  PROVE  IndInv'
<1> DEFINE w == Now
<1>0. /\ Base(w, toClient, server) /\ Others(w, server, app) /\ w \in Works
      /\ w.ssh = ssh /\ w.tx = toServer
      /\ server \in Servers /\ ssh \in Sshs
      /\ server.win \in Int /\ server.room \in Int /\ server.excess \in Nat
      /\ server.sent \in Nat /\ server.got \in Nat
  <2>1. server \in Servers
    BY InvHolds
  <2>2. /\ server.win \in Int /\ server.room \in Int /\ server.excess \in Nat
        /\ server.sent \in Nat /\ server.got \in Nat
    BY <2>1 DEF Servers
  <2> QED
    BY <2>2, InvHolds, NowIs
<1>1. /\ toServer' = toServer
      /\ UNCHANGED <<chan, pf, sock, ssh, pipe, app, fault>>
      => Now' = w /\ app' = app
  BY DEF Now
<1>2. CASE ServerOpens
  <2>1. /\ Now' = w /\ app' = app /\ ssh.open /\ server.state = "asked"
    BY <1>1, <1>2 DEF ServerOpens, ServerStep
  <2>2. PICK state \in {"open", "refused"} :
          /\ server' = [server EXCEPT !.state = state]
          /\ toClient' = Append(toClient, IF state = "open" THEN Packet("confirm", RemWindow)
                                          ELSE Packet("failure", 0))
    BY <1>2 DEF ServerOpens, Reply
  <2> HIDE DEF w
  <2>3. Base(w, toClient', server') /\ Others(w, server', app)
    BY Zenon, <1>0, <2>1, <2>2, AnswerKeeps
  <2> QED
    BY <2>1, <2>3 DEF IndInv
<1>3. ASSUME ServerTalks,
             NEW type \in {"data", "adjust", "eof", "close"}, NEW n \in Nat,
             toClient' = Append(toClient, Packet(type, n)),
             type \in {"data", "eof"} => ~server.sentEof,
             server' \in Servers, server'.state = server.state,
             server'.sentEof <=> server.sentEof \/ type = "eof",
             server'.sentClose <=> server.sentClose \/ type = "close",
             server'.gotEof = server.gotEof, server'.gotClose = server.gotClose,
             server'.offended = server.offended, server'.excess = server.excess,
             server'.win = server.win - (IF type = "data" THEN n ELSE 0),
             server'.win >= -server.excess,
             server'.room = server.room + (IF type = "adjust" THEN n ELSE 0)
      PROVE  IndInv'
  <2>1. Now' = w /\ app' = app /\ ssh.open /\ server.state = "open" /\ ~server.sentClose
    BY <1>1, <1>3 DEF ServerTalks, ServerStep
  <2> HIDE DEF w
  <2>2. Base(w, toClient', server') /\ Others(w, server', app)
    BY <1>0, <1>3, <2>1, TellingKeeps
  <2> QED
    BY <2>1, <2>2 DEF IndInv
<1>4. server.win >= -server.excess
  BY <1>0 DEF Others
<1>5. CASE ServerSends
  <2>1. /\ server' = [server EXCEPT !.sent = @ + 1, !.win = @ - 1]
        /\ toClient' = Append(toClient, Packet("data", 1))
        /\ ServerTalks /\ ~server.sentEof /\ server.win > -server.excess
    BY <1>5 DEF ServerSends, Reply
  <2>2. server.sent + 1 \in Nat /\ server.win - 1 \in Int /\ server.win - 1 >= -server.excess
    BY <1>0, <2>1
  <2>3. /\ server' \in Servers /\ server'.state = server.state
        /\ server'.sentEof = server.sentEof /\ server'.sentClose = server.sentClose
        /\ server'.gotEof = server.gotEof /\ server'.gotClose = server.gotClose
        /\ server'.offended = server.offended /\ server'.excess = server.excess
        /\ server'.win = server.win - 1 /\ server'.room = server.room
    BY Zenon, <1>0, <2>1, <2>2 DEF Servers
  <2> QED
    BY SMTT(60), <1>0, <1>3, <2>1, <2>2, <2>3
<1>6. CASE ServerEnds
  <2>1. /\ server' = [server EXCEPT !.sentEof = TRUE]
        /\ toClient' = Append(toClient, Packet("eof", 0))
        /\ ServerTalks /\ ~server.sentEof
    BY <1>6 DEF ServerEnds, Reply
  <2>3. /\ server' \in Servers /\ server'.state = server.state
        /\ server'.sentEof /\ server'.sentClose = server.sentClose
        /\ server'.gotEof = server.gotEof /\ server'.gotClose = server.gotClose
        /\ server'.offended = server.offended /\ server'.excess = server.excess
        /\ server'.win = server.win /\ server'.room = server.room
    BY Zenon, <1>0, <2>1 DEF Servers
  <2>4. server'.win = server.win - 0 /\ server'.room = server.room + 0
    BY <1>0, <2>3
  <2>5. 0 \in Nat /\ server'.win >= -server.excess
    BY <1>4, <2>3
  <2> QED
    BY Zenon, <1>3, <2>1, <2>3, <2>4, <2>5
<1>7. CASE ServerGrants
  <2>1. /\ server' = [server EXCEPT !.room = RemWindow]
        /\ toClient' = Append(toClient, Packet("adjust", RemWindow - server.room))
        /\ ServerTalks /\ server.room < RemWindow
    BY <1>7 DEF ServerGrants, Reply
  <2>2. RemWindow \in Nat /\ RemWindow - server.room \in Nat
    <3>1. RemWindow \in Nat /\ server.room \in Int /\ server.room < RemWindow
      BY Zenon, <1>0, <2>1, Sizes
    <3> QED
      BY <3>1
  <2>3. /\ server' \in Servers /\ server'.state = server.state
        /\ server'.sentEof = server.sentEof /\ server'.sentClose = server.sentClose
        /\ server'.gotEof = server.gotEof /\ server'.gotClose = server.gotClose
        /\ server'.offended = server.offended /\ server'.excess = server.excess
        /\ server'.win = server.win /\ server'.room = RemWindow
    <3>1. RemWindow \in Int
      BY <2>2
    <3> QED
      BY Zenon, <1>0, <2>1, <3>1 DEF Servers
  <2>4. server'.room = server.room + (RemWindow - server.room)
    BY <1>0, <2>2, <2>3
  <2> QED
    BY <1>0, <1>3, <1>4, <2>1, <2>2, <2>3, <2>4
<1>8. CASE ServerCloses \/ ServerAborts
  <2>1. /\ server' = [server EXCEPT !.sentClose = TRUE]
        /\ toClient' = Append(toClient, Packet("close", 0))
        /\ ServerTalks
    BY <1>8 DEF ServerCloses, ServerAborts, SendClose, Reply
  <2>3. /\ server' \in Servers /\ server'.state = server.state
        /\ server'.sentEof = server.sentEof /\ server'.sentClose
        /\ server'.gotEof = server.gotEof /\ server'.gotClose = server.gotClose
        /\ server'.offended = server.offended /\ server'.excess = server.excess
        /\ server'.win = server.win /\ server'.room = server.room
    BY Zenon, <1>0, <2>1 DEF Servers
  <2>4. server'.win = server.win - 0 /\ server'.room = server.room + 0
    BY <1>0, <2>3
  <2>5. 0 \in Nat /\ server'.win >= -server.excess
    BY <1>4, <2>3
  <2> QED
    BY Zenon, <1>3, <2>1, <2>3, <2>4, <2>5
<1>9. CASE ServerReceives
  <2> DEFINE p == Head(toServer)
             v == [w EXCEPT !.tx = Tail(@)]
             bad == \/ server.gotClose
                    \/ p.type \in {"data", "eof"} /\ server.gotEof
                    \/ p.type = "data" /\ server.room < p.n
  <2>1. /\ ssh.open /\ toServer # <<>> /\ toServer' = Tail(toServer)
        /\ UNCHANGED <<chan, pf, sock, ssh, pipe, app, fault>>
        /\ server' = [server EXCEPT
             !.offended = @ \/ bad,
             !.got = IF p.type = "data" THEN @ + p.n ELSE @,
             !.room = IF p.type = "data" THEN @ - p.n ELSE @,
             !.win = IF p.type = "adjust" THEN @ + p.n ELSE @,
             !.gotEof = @ \/ p.type = "eof",
             !.gotClose = @ \/ p.type = "close"]
        /\ IF p.type = "winadj" /\ (~server.sentClose \/ LateReplies)
           THEN toClient' = Append(toClient, Packet("reply", 0))
           ELSE toClient' = toClient
    BY <1>9 DEF ServerReceives, ServerStep, Reply
  <2>2. LateReplies <=> Late(w)
    BY <1>0 DEF LateReplies, Has, Late
  <2>3. /\ w.chan = chan /\ w.pf = pf /\ w.sock = sock /\ w.pipe = pipe /\ w.fault = fault
    BY NowIs
  <2>4. w.tx \in Packets(UpTypes) /\ p \in [type : UpTypes, n : Nat]
    BY <1>0, <2>1, Fields, UpFacts
  <2> HIDE DEF w
  <2>5. p.n \in Nat
    BY <2>4
  <2>9. p.type \in UpTypes
    BY <2>4
  <2> HIDE DEF p
  <2>6. /\ server' \in Servers /\ server'.state = server.state
        /\ server'.sentEof = server.sentEof /\ server'.sentClose = server.sentClose
        /\ server'.excess = server.excess
        /\ server'.offended = (server.offended \/ bad)
        /\ server'.gotEof = (server.gotEof \/ p.type = "eof")
        /\ server'.gotClose = (server.gotClose \/ p.type = "close")
        /\ server'.win = (IF p.type = "adjust" THEN server.win + p.n ELSE server.win)
        /\ server'.room = (IF p.type = "data" THEN server.room - p.n ELSE server.room)
    <3> DEFINE got == IF p.type = "data" THEN server.got + p.n ELSE server.got
               room == IF p.type = "data" THEN server.room - p.n ELSE server.room
               win == IF p.type = "adjust" THEN server.win + p.n ELSE server.win
               off == server.offended \/ bad
               eof == server.gotEof \/ p.type = "eof"
               close == server.gotClose \/ p.type = "close"
    <3>1. got \in Nat /\ room \in Int /\ win \in Int
      BY <1>0, <2>5
    <3>2. off \in BOOLEAN /\ eof \in BOOLEAN /\ close \in BOOLEAN
      OBVIOUS
    <3>3. server' = [server EXCEPT !.offended = off, !.got = got, !.room = room,
                       !.win = win, !.gotEof = eof, !.gotClose = close]
      BY <2>1
    <3> HIDE DEF got, room, win, off, eof, close
    <3>4. /\ server' \in Servers /\ server'.state = server.state
          /\ server'.sentEof = server.sentEof /\ server'.sentClose = server.sentClose
          /\ server'.excess = server.excess
          /\ server'.offended = off /\ server'.gotEof = eof
          /\ server'.gotClose = close /\ server'.win = win /\ server'.room = room
      BY ZenonT(60), <1>0, <3>1, <3>2, <3>3 DEF Servers
    <3> QED
      BY <3>4 DEF room, win, off, eof, close
  <2>7. toClient' = IF p.type = "winadj" /\ (~server.sentClose \/ Late(w))
                    THEN Append(toClient, Packet("reply", 0)) ELSE toClient
    BY <2>1, <2>2
  <2>8. Base(v, toClient', server') /\ Others(v, server', app)
    <3>1. server'.win = server.win + (IF p.type = "adjust" THEN p.n ELSE 0)
      BY <1>0, <2>6
    <3>2. server'.room = server.room - (IF p.type = "data" THEN p.n ELSE 0)
      BY <1>0, <2>6
    <3>3. p = Head(w.tx) /\ w.ssh.open /\ w.tx # <<>>
      BY <1>0, <2>1 DEF p
    <3> QED
      BY ZenonT(60), <1>0, <2>6, <2>7, <3>1, <3>2, <3>3, ReceivingKeeps
  <2>10. /\ v.chan = w.chan /\ v.pf = w.pf /\ v.sock = w.sock /\ v.ssh = w.ssh
         /\ v.pipe = w.pipe /\ v.fault = w.fault /\ v.tx = Tail(w.tx)
    BY <1>0 DEF Works
  <2> HIDE DEF v
  <2>11. Become(v) /\ v \in Works /\ app' = app
    BY <1>0, <2>1, <2>3, <2>8, <2>10 DEF Become, Base
  <2> QED
    BY <2>8, <2>11, Becoming
<1> QED
  BY <1>2, <1>5, <1>6, <1>7, <1>8, <1>9 DEF Server

\* Nothing happens.
LEMMA Stuttering ==
  ASSUME IndInv, UNCHANGED vars
  PROVE  IndInv'
<1>1. Now' = Now /\ toClient' = toClient /\ server' = server /\ app' = app
  BY DEF vars, Now
<1> QED
  BY <1>1 DEF IndInv

\* pfl_accepting has just sent the CHANNEL_OPEN.
LEMMA Initially ==
  ASSUME Init
  PROVE  IndInv
<1> DEFINE w == Now
<1>1. /\ Now.chan = chan /\ Now.pf = pf /\ Now.sock = sock /\ Now.ssh = ssh
      /\ Now.tx = <<>> /\ toClient = <<>>
  BY NowIs DEF Init
<1>2. PICK early \in 0 .. MaxEarly :
       /\ pf = [ready |-> FALSE, throttled |-> FALSE,
                throttle_override |-> FALSE, buffer |-> early]
       /\ app = [sent |-> early, unread |-> 0, fin |-> FALSE, reset |-> FALSE,
                 got |-> 0, sawEof |-> FALSE]
  BY Zenon DEF Init
<1>3. PICK bugs \in BugSets :
       ssh = [open |-> TRUE, conn_throttle_count |-> 0, throttled_all |-> FALSE,
              queued |-> 0, reading |-> FALSE, remote_bugs |-> bugs]
  BY Zenon DEF Init
<1>4. PICK excess \in 0 .. Excess :
       server = [state |-> "asked", win |-> WinSize, sent |-> 0,
                 room |-> RemWindow, got |-> 0, gotEof |-> FALSE,
                 sentEof |-> FALSE, gotClose |-> FALSE, sentClose |-> FALSE,
                 excess |-> excess, offended |-> FALSE]
  BY Zenon DEF Init
<1>5. chan = [live |-> TRUE, halfopen |-> TRUE, type |-> "SOCKDATA_DORMANT",
             closes |-> {}, pending_eof |-> FALSE, throttling_conn |-> FALSE,
             outbuffer |-> 0, remwindow |-> 0, locwindow |-> WinSize,
             locmaxwin |-> WinSize, remlocwin |-> WinSize, chanreqs |-> <<>>,
             throttle_state |-> "UNTHROTTLED"]
  BY DEF Init
<1>6. sock = [live |-> TRUE, frozen |-> TRUE, writable |-> TRUE, output |-> 0,
             outgoingeof |-> "NO", closed |-> FALSE, pending_error |-> FALSE]
  BY DEF Init
<1>7. pipe = [data |-> 0, shut |-> FALSE] /\ fault = "none" /\ toServer = <<>>
  BY DEF Init
<1>8. FALSE \in BOOLEAN /\ TRUE \in BOOLEAN /\ early \in Nat /\ excess \in Nat
  BY Sizes
<1>9. pf \in Pfs /\ app \in Apps
  BY <1>2, <1>8 DEF Pfs, Apps
<1>10. ssh \in Sshs
  BY <1>3, <1>8 DEF Sshs
<1>11. server \in Servers
  BY <1>4, <1>8, Sizes DEF Servers
<1>12. chan \in Chans
  <2>1. <<>> \in Seq(Nat) /\ {} \in SUBSET {"SENT_EOF", "RCVD_EOF", "SENT_CLOSE", "RCVD_CLOSE"}
    OBVIOUS
  <2> QED
    BY <1>5, <1>8, <2>1, Sizes DEF Chans
<1>13. sock \in Socks
  BY <1>6, <1>8 DEF Socks
<1>14. pipe \in Pipes
  BY <1>7, <1>8, Sizes DEF Pipes
<1>15. <<>> \in Packets(UpTypes) /\ <<>> \in Packets(DownTypes)
  BY DEF Packets
<1>16. w \in Works
  BY <1>7, <1>9, <1>10, <1>12, <1>13, <1>14, <1>15 DEF Now, Works
<1>17. /\ w.chan = chan /\ w.pf = pf /\ w.sock = sock /\ w.ssh = ssh /\ w.tx = <<>>
  BY <1>1
<1> HIDE DEF w
<1>18. /\ chan.live /\ chan.halfopen /\ chan.type = "SOCKDATA_DORMANT" /\ chan.closes = {}
       /\ ~chan.pending_eof /\ ~chan.throttling_conn /\ chan.outbuffer = 0
       /\ chan.locwindow = WinSize /\ chan.locmaxwin = WinSize /\ chan.chanreqs = <<>>
       /\ ~pf.ready /\ ~pf.throttled /\ ~pf.throttle_override
       /\ sock.live /\ sock.writable /\ sock.output = 0 /\ sock.outgoingeof = "NO"
       /\ ssh.open /\ ssh.conn_throttle_count = 0
       /\ server.state = "asked" /\ server.win = WinSize /\ server.room = RemWindow
       /\ ~server.gotEof /\ ~server.sentEof /\ ~server.gotClose /\ ~server.sentClose
       /\ ~server.offended /\ server.excess = excess
  BY <1>2, <1>3, <1>4, <1>5, <1>6
<1>19. /\ \A some : Lacks(<<>>, some) /\ \A R : Ordered(<<>>, R)
  BY DEF Lacks, Ordered
<1>20. /\ InFlight(<<>>, "data") = 0 /\ InFlight(<<>>, "adjust") = 0
       /\ Count(<<>>, "reply") = 0 /\ Count(<<>>, "winadj") = 0
  BY AmountsOfNone
<1>21. Sides(w)
  BY <1>17, <1>18 DEF Sides, HalfOpened, Forwards
<1>22. SentUp(w, server)
  BY SMTT(60), <1>17, <1>18, <1>19, <1>20, Sizes DEF SentUp
<1>23. SentDown(w, <<>>, server)
  BY <1>17, <1>18, <1>19 DEF SentDown
<1>24. Opening(w, <<>>, server) /\ Gone(w, <<>>, server)
  BY <1>17, <1>18 DEF Opening, Gone
<1>25. Books(w, <<>>, server)
  <2>1. Len(<<>>) = 0
    OBVIOUS
  <2> QED
    BY <1>17, <1>18, <1>20, <2>1, Sizes DEF Books, RoomOf
<1>26. Base(w, <<>>, server)
  BY <1>11, <1>15, <1>16, <1>21, <1>22, <1>23, <1>24, <1>25 DEF Base
<1>27. Others(w, server, app)
  BY <1>8, <1>9, <1>17, <1>18, Sizes DEF Others, Settled, Done, AppDone, Within, Held
<1> QED
  BY <1>1, <1>26, <1>27 DEF IndInv, w

\* Every step keeps the invariant.
LEMMA Steps ==
  ASSUME IndInv, [Next]_vars
  PROVE  IndInv'
<1>1. CASE Receive
  BY <1>1, Receiving
<1>2. CASE SocketEvent
  BY <1>2, SocketEvents
<1>3. CASE Connection
  BY <1>3, Connections
<1>4. CASE App
  BY <1>4, AppSteps
<1>5. CASE Server
  BY <1>5, ServerSteps
<1>6. CASE UNCHANGED vars
  BY <1>6, Stuttering
<1> QED
  BY <1>1, <1>2, <1>3, <1>4, <1>5, <1>6 DEF Next

-----------------------------------------------------------------------------
(* The theorems.                                                           *)

\* The invariant holds of every state the handlers, the server and the local
\* program can reach, for any sizes, any bounds and any servers.
THEOREM Inductive == Spec => []IndInv
<1>1. Init => IndInv
  BY Initially
<1>2. IndInv /\ [Next]_vars => IndInv'
  BY Steps
<1> QED
  BY <1>1, <1>2, PTL DEF Spec

\* The invariant implies the properties, one by one.
LEMMA SaysTypes ==
  ASSUME IndInv
  PROVE  TypeOK
<1>1. /\ ssh \in Sshs /\ sock \in Socks /\ chan \in Chans /\ pf \in Pfs /\ pipe \in Pipes
  BY InvHolds
<1>2. Now.tx \in Packets(UpTypes) /\ toClient \in Packets(DownTypes)
  BY InvHolds, Fields DEF Base
<1>3. toServer \in Packets(UpTypes)
  BY <1>2, NowIs
<1> QED
  BY <1>1, <1>2, <1>3
     DEF TypeOK, Chans, Pfs, Socks, Sshs, Pipes, UpTypes, DownTypes

\* A handler that fails has left the states of the invariant, and the first packet
\* of the queue is one for the channel as it is.
LEMMA SaysNoFault ==
  ASSUME IndInv
  PROVE  NoFault
<1> DEFINE w == Now
<1>0. /\ Base(w, toClient, server) /\ w \in Works
      /\ w.sock = sock /\ w.chan = chan /\ w.ssh = ssh /\ w.fault = fault
  BY InvHolds, NowIs
<1> HIDE DEF w
<1>1. fault = "none"
  BY <1>0, Fields
<1>2. sock.live <=> chan.live /\ Forwards(chan)
  BY <1>0 DEF Base, Sides
<1>3. ASSUME Takes PROVE Knows(Head(toClient).type)
  <2>1. ssh.open /\ toClient # <<>>
    BY <1>3 DEF Takes
  <2>2. chan.live
    BY <1>0, <2>1 DEF Base, Gone
  <2>3. ASSUME chan.halfopen PROVE Head(toClient).type \in {"confirm", "failure"}
    <3>1. server.state \in {"asked", "open", "refused"}
      BY <1>0 DEF Base, Servers
    <3>2. \/ Head(toClient) = Packet("confirm", RemWindow)
          \/ Head(toClient) = Packet("failure", 0)
      BY <1>0, <2>1, <2>2, <2>3, <3>1 DEF Base, Opening
    <3> QED
      BY <3>2 DEF Packet
  <2> QED
    BY <2>2, <2>3 DEF Knows
<1> QED
  BY <1>1, <1>2, <1>3 DEF NoFault

\* Without the bug of late replies SentUp holds.
LEMMA SaysSatisfied ==
  ASSUME IndInv
  PROVE  ServerSatisfied
<1>1. Base(Now, toClient, server) /\ Now.ssh = ssh
  BY InvHolds, NowIs
<1>2. ~Late(Now) => ~server.offended
  BY <1>1 DEF Base, SentUp
<1>3. LateReplies <=> Late(Now)
  BY <1>1 DEF LateReplies, Has, Late
<1> QED
  BY <1>2, <1>3 DEF ServerSatisfied

\* After the confirmation the window is the channel's remwindow.
LEMMA SaysBooks ==
  ASSUME IndInv
  PROVE  BooksAgree
<1> DEFINE w == Now
<1>0. /\ Base(w, toClient, server) /\ w.chan = chan /\ w.tx = toServer
  BY InvHolds, NowIs
<1> HIDE DEF w
<1> SUFFICES ASSUME chan.live
             PROVE  /\ chan.locwindow = server.win + InFlight(toServer, "adjust")
                                          + InFlight(toClient, "data")
                    /\ ~chan.halfopen /\ ~SentEof(chan) =>
                         server.room = chan.remwindow + InFlight(toClient, "adjust")
                                       + InFlight(toServer, "data")
                    /\ ~server.sentClose =>
                         Len(chan.chanreqs) = Count(toServer, "winadj") + Count(toClient, "reply")
                    /\ "SENT_CLOSE" \in chan.closes => chan.chanreqs = <<>>
  BY DEF BooksAgree
<1>1. /\ chan.locwindow = server.win + InFlight(toServer, "adjust")
                          + InFlight(toClient, "data")
      /\ "SENT_EOF" \notin chan.closes =>
           server.room = RoomOf(chan) + InFlight(toClient, "adjust") + InFlight(toServer, "data")
      /\ ~server.sentClose =>
           Len(chan.chanreqs) = Count(toServer, "winadj") + Count(toClient, "reply")
  BY <1>0 DEF Base, Books
<1>2. "SENT_CLOSE" \in chan.closes => chan.chanreqs = <<>>
  BY <1>0 DEF Base, Sides
<1> QED
  BY <1>1, <1>2 DEF RoomOf, SentEof

\* With a server that keeps to its window.
LEMMA SaysBounded ==
  ASSUME IndInv
  PROVE  BacklogBounded
<1>1. Others(Now, server, app) /\ Now.sock = sock /\ Now.chan = chan /\ Now.ssh = ssh
  BY InvHolds, NowIs
<1> QED
  BY <1>1 DEF Others, Within, BacklogBounded

\* The override is there only while everything is throttled or after CLOSE.
LEMMA SaysHeld ==
  ASSUME IndInv
  PROVE  HeldForAReason
<1> DEFINE w == Now
<1>0. /\ Base(w, toClient, server) /\ Others(w, server, app)
      /\ w.sock = sock /\ w.chan = chan /\ w.ssh = ssh /\ w.pf = pf
  BY InvHolds, NowIs
<1> HIDE DEF w
<1>1. /\ sock.live => chan.live
      /\ chan.halfopen => ~pf.ready
      /\ chan.pending_eof => ~SentEof(chan)
  BY <1>0 DEF Base, Sides, HalfOpened, SentEof
<1>2. /\ pf.ready /\ "RCVD_CLOSE" \notin chan.closes /\ sock.live =>
           /\ pf.throttled => sock.frozen /\ chan.outbuffer > 0
           /\ sock.frozen => pf.throttled \/ pf.throttle_override
           /\ pf.throttle_override => ssh.throttled_all
      /\ chan.live /\ ~chan.halfopen =>
           /\ chan.outbuffer > 0 => chan.remwindow = 0 \/ SentEof(chan)
           /\ chan.pending_eof => chan.outbuffer > 0
           /\ pf.throttled /\ sock.live /\ "RCVD_CLOSE" \notin chan.closes => ~SentEof(chan)
  BY <1>0 DEF Others, Held
<1> QED
  BY <1>1, <1>2 DEF HeldForAReason

\* The channel, its socket, the connection and the queues keep their types, and the
\* queues hold only packets of their direction (ssh.c:488-580).
THEOREM SshChannelTypes == Spec => []TypeOK
BY Inductive, SaysTypes, PTL

\* No assertion of the handlers fails, none touches a freed channel, no packet comes
\* for a channel that is gone or half open, and the socket lives exactly as long as
\* a channel that uses it (ssh.c:5310, 8284, 8702, 8747, winnet.c:1627).
THEOREM SshChannelNoFault == Spec => []NoFault
BY Inductive, SaysNoFault, PTL

\* Whatever the interleaving of handlers and packets, the server never receives
\* data beyond its window or after EOF, nor anything after CLOSE (ssh2_try_send,
\* ssh2_set_window, ssh2_channel_check_close).
THEOREM SshChannelSatisfies == Spec => []ServerSatisfied
BY Inductive, SaysSatisfied, PTL

\* The books of the channel agree with the packets under way in both directions
\* (locwindow, remwindow and the list chanreqs of ssh.c).
THEOREM SshChannelBooks == Spec => []BooksAgree
BY Inductive, SaysBooks, PTL

\* What waits for the local program and what may still come fit into locmaxwin, so
\* that a server that keeps to its window never makes PuTTY freeze the connection.
THEOREM SshChannelBacklog == Spec => []BacklogBounded
BY Inductive, SaysBounded, PTL

\* The local program is held back only while its data waits for window, all streams
\* are throttled or the server has closed the channel (pfd_unthrottle,
\* pfd_override_throttle, ssh2_try_send).
THEOREM SshChannelHeld == Spec => []HeldForAReason
BY Inductive, SaysHeld, PTL
=============================================================================
