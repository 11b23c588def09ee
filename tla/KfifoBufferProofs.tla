------------------------- MODULE KfifoBufferProofs -------------------------
(***************************************************************************)
(* Theorems about KfifoBuffer for every buffer size, index width, set of    *)
(* lengths and stream bound.                                                *)
(***************************************************************************)
EXTENDS KfifoBuffer, TLAPS

-----------------------------------------------------------------------------
(* Remainders.                                                             *)

\* A remainder lies below the modulus, and the quotient recovers the number.
LEMMA ModDivision ==
  ASSUME NEW x \in Int, NEW m \in Nat \ {0}
  PROVE  /\ (x % m) \in 0 .. m - 1
         /\ x \div m \in Int
         /\ x = (x \div m) * m + (x % m)
  OBVIOUS

\* A quotient and a remainder in range determine the remainder.
LEMMA ModUnique ==
  ASSUME NEW m \in Nat \ {0}, NEW q \in Int, NEW r \in 0 .. m - 1
  PROVE  (q * m + r) % m = r
  OBVIOUS

\* A number in range is its own remainder.
LEMMA ModSmall ==
  ASSUME NEW m \in Nat \ {0}, NEW r \in 0 .. m - 1
  PROVE  (r % m) = r
  OBVIOUS

\* Adding to a wrapped counter is adding to the counter and wrapping.
LEMMA ModAdd ==
  ASSUME NEW m \in Nat \ {0}, NEW a \in Int, NEW b \in Int
  PROVE  ((a % m) + b) % m = (a + b) % m
<1> DEFINE q == a \div m
           c == (a % m) + b
           p == c \div m
           r == (c % m)
<1>1. /\ q \in Int /\ (a % m) \in Int /\ a = q * m + (a % m)
  BY ModDivision
<1>2. /\ p \in Int /\ r \in 0 .. m - 1 /\ c = p * m + r
  BY <1>1, ModDivision
<1>3. a + b = q * m + c
  BY <1>1
<1>4. q * m + (p * m + r) = (q + p) * m + r
  BY <1>1, <1>2
<1>5. a + b = (q + p) * m + r
  BY <1>2, <1>3, <1>4
<1>6. ((q + p) * m + r) % m = r
  <2> HIDE DEF q, c, p, r
  <2>1. q + p \in Int
    BY <1>1, <1>2
  <2> QED
    BY <1>2, <2>1, ModUnique
<1> QED
  BY <1>5, <1>6

\* The difference of two wrapped counters is the wrapped difference.
LEMMA ModDifference ==
  ASSUME NEW m \in Nat \ {0}, NEW a \in Int, NEW b \in Int
  PROVE  ((a % m) - (b % m)) % m = (a - b) % m
<1> DEFINE q == b \div m
           d == a - (b % m)
           p == d \div m
           r == (d % m)
<1>1. /\ q \in Int /\ (b % m) \in Int /\ b = q * m + (b % m)
  BY ModDivision
<1>2. (a % m) - (b % m) = (a % m) + (0 - (b % m))
  BY <1>1, ModDivision
<1>3. ((a % m) + (0 - (b % m))) % m = (a + (0 - (b % m))) % m
  <2>1. 0 - (b % m) \in Int
    BY <1>1
  <2> QED
    BY <2>1, ModAdd
<1>4. a + (0 - (b % m)) = d
  BY <1>1
<1>5. /\ p \in Int /\ r \in 0 .. m - 1 /\ d = p * m + r
  BY <1>1, ModDivision
<1>6. a - b = d - q * m
  BY <1>1
<1>7. (p * m + r) - q * m = (p - q) * m + r
  BY <1>1, <1>5
<1>8. a - b = (p - q) * m + r
  BY <1>5, <1>6, <1>7
<1>9. ((p - q) * m + r) % m = r
  <2> HIDE DEF q, d, p, r
  <2>1. p - q \in Int
    BY <1>1, <1>5
  <2> QED
    BY <1>5, <2>1, ModUnique
<1> QED
  BY <1>2, <1>3, <1>4, <1>8, <1>9

\* Counters less than m apart do not share a remainder.
LEMMA ModDistinct ==
  ASSUME NEW m \in Nat \ {0}, NEW a \in Int, NEW b \in Int,
         a < b, b - a < m
  PROVE  (a % m) # (b % m)
<1> SUFFICES ASSUME (a % m) = (b % m) PROVE FALSE
  OBVIOUS
<1>1. ((b % m) - (a % m)) % m = (b - a) % m
  BY ModDifference
<1>2. (b - a) % m = b - a
  BY ModSmall
<1>3. ((b % m) - (a % m)) % m = 0
  BY ModDivision, ModSmall
<1> QED
  BY <1>1, <1>2, <1>3

\* Wrapping at a multiple of the buffer size does not change the slot.
LEMMA ModMultiple ==
  ASSUME NEW m \in Nat \ {0}, NEW M \in Nat \ {0}, (M % m) = 0, NEW a \in Int
  PROVE  (a % M) % m = (a % m)
<1> DEFINE k == M \div m
           q == a \div M
           p == (a % M) \div m
           r == (a % M) % m
<1>1. k \in Int /\ M = k * m
  BY ModDivision
<1>2. q \in Int /\ (a % M) \in Int /\ a = q * M + (a % M)
  BY ModDivision
<1>3. p \in Int /\ r \in 0 .. m - 1 /\ (a % M) = p * m + r
  BY <1>2, ModDivision
<1>4. q * (k * m) + (p * m + r) = (q * k + p) * m + r
  <2> HIDE DEF k, q, p, r
  <2>1. \A x, y, z, u, v \in Int : x * (y * z) + (u * z + v) = (x * y + u) * z + v
    OBVIOUS
  <2> QED
    BY <1>1, <1>2, <1>3, <2>1
<1>5. a = (q * k + p) * m + r
  BY <1>1, <1>2, <1>3, <1>4
<1>6. q * k + p \in Int
  BY <1>1, <1>2, <1>3
<1>7. ((q * k + p) * m + r) % m = r
  BY <1>3, <1>6, ModUnique
<1> QED
  BY <1>5, <1>7

\* The offset the two memcpy calls use for byte i of a copy that starts at
\* stream position n is the slot of stream position n + i.
LEMMA CopyOffsetIsSlot ==
  ASSUME NEW n \in Nat, NEW i \in 0 .. sizeM - 1
  PROVE  CopyOffset(n % Modulus, i) = (n + i) % sizeM
<1> DEFINE s == n % sizeM
           q == n \div sizeM
<1>1. sizeM \in Nat \ {0} /\ Modulus \in Nat \ {0} /\ (Modulus % sizeM) = 0
  BY SizeAssumption
<1>2. Slot(n % Modulus) = s
  <2>1. n \in Int
    OBVIOUS
  <2>2. ((n % Modulus) % sizeM) = n % sizeM
    BY <1>1, <2>1, ModMultiple
  <2> QED
    BY <2>2 DEF Slot
<1>3. q \in Int /\ s \in 0 .. sizeM - 1 /\ n = q * sizeM + s
  <2>1. n \in Int
    OBVIOUS
  <2> QED
    BY <1>1, <2>1, ModDivision
<1> HIDE DEF s, q
<1>4. CASE i < sizeM - s
  <2>1. n + i = q * sizeM + (s + i)
    BY <1>1, <1>3
  <2>2. s + i \in 0 .. sizeM - 1
    BY <1>1, <1>3, <1>4
  <2>3. (n + i) % sizeM = s + i
    BY <1>1, <1>3, <2>1, <2>2, ModUnique
  <2> QED
    BY <1>2, <1>4, <2>3 DEF CopyOffset
<1>5. CASE ~(i < sizeM - s)
  <2>1. n + i = (q + 1) * sizeM + (s + i - sizeM)
    BY <1>1, <1>3
  <2>2. s + i - sizeM \in 0 .. sizeM - 1 /\ q + 1 \in Int
    BY <1>1, <1>3, <1>5
  <2> DEFINE t == s + i - sizeM
             u == q + 1
  <2>3. (n + i) % sizeM = t
    <3>1. t \in 0 .. sizeM - 1 /\ u \in Int /\ n + i = u * sizeM + t
      BY <2>1, <2>2
    <3> HIDE DEF t, u
    <3>2. (u * sizeM + t) % sizeM = t
      BY <1>1, <3>1, ModUnique
    <3> QED
      BY <3>1, <3>2
  <2>4. s + i - sizeM = i - (sizeM - s)
    BY <1>1, <1>3
  <2> QED
    BY <1>2, <1>5, <2>3, <2>4 DEF CopyOffset
<1> QED
  BY <1>4, <1>5

\* The unsigned difference of the two wrapped counters is the occupancy.
LEMMA WrappedSize ==
  ASSUME NEW w \in Nat, NEW r \in Nat, w - r \in 0 .. sizeM
  PROVE  /\ USub(w % Modulus, r % Modulus) = w - r
         /\ UAdd(USub(sizeM, w % Modulus), r % Modulus) = sizeM - (w - r)
<1>1. sizeM \in Nat \ {0} /\ Modulus \in Nat \ {0} /\ sizeM < Modulus
  BY SizeAssumption
<1>2. w - r \in 0 .. Modulus - 1 /\ sizeM - (w - r) \in 0 .. Modulus - 1
  BY <1>1
<1>3. USub(w % Modulus, r % Modulus) = w - r
  <2>1. w \in Int /\ r \in Int
    OBVIOUS
  <2>2. ((w % Modulus) - (r % Modulus)) % Modulus = (w - r) % Modulus
    BY <1>1, <2>1, ModDifference
  <2>3. (w - r) % Modulus = w - r
    BY <1>1, <1>2, ModSmall
  <2> QED
    BY <2>2, <2>3 DEF USub
<1> DEFINE W == w % Modulus
           R == r % Modulus
<1>4. W \in Int /\ R \in Int
  BY <1>1, ModDivision
<1>5. (W - R) % Modulus = w - r
  BY <1>3 DEF USub
<1>6. (((sizeM - W) % Modulus) + R) % Modulus = (sizeM - W + R) % Modulus
  <2>1. sizeM - W \in Int
    BY <1>1, <1>4
  <2> HIDE DEF W, R
  <2> QED
    BY <1>1, <1>4, <2>1, ModAdd
<1>7. (sizeM - W + R) % Modulus = (sizeM - (w - r)) % Modulus
  <2> HIDE DEF W, R
  <2>1. (sizeM % Modulus) = sizeM
    BY <1>1, ModSmall
  <2>2. (((sizeM % Modulus)) - ((W - R) % Modulus)) % Modulus
          = (sizeM - (W - R)) % Modulus
    <3>1. W - R \in Int /\ sizeM \in Int
      BY <1>1, <1>4
    <3> QED
      BY <1>1, <3>1, ModDifference
  <2>3. sizeM - (W - R) = sizeM - W + R
    BY <1>1, <1>4
  <2> QED
    BY <1>5, <2>1, <2>2, <2>3
<1>8. (sizeM - (w - r)) % Modulus = sizeM - (w - r)
  BY <1>1, <1>2, ModSmall
<1> QED
  BY <1>3, <1>6, <1>7, <1>8 DEF UAdd, USub

-----------------------------------------------------------------------------
(* The inductive invariant.  The indices are the wrapped stream counters,   *)
(* no call under way claims more than there was when it looked, and every   *)
(* byte from the reader's index to the producer's copy is in its slot.      *)

WindowLoaded ==
  \A p \in consumed .. produced + put.done - 1 : rawM[p % sizeM] = p

IndInv ==
  /\ TypeOK
  /\ writeIndexM = produced % Modulus
  /\ readIndexM = consumed % Modulus
  /\ consumed <= produced /\ produced - consumed <= sizeM
  /\ put.done <= put.len /\ put.len <= sizeM - (produced - consumed)
  /\ get.done <= get.len /\ get.len <= produced - consumed
  /\ ~get.active => get = IdleGet /\ out = {}
  /\ peeked <= produced - consumed
  /\ WindowLoaded
  /\ CopiedInOrder

\* What the two indices say of the occupancy, wrapped or not.
LEMMA SizeFacts ==
  ASSUME IndInv
  PROVE  size = produced - consumed /\ leftSize = sizeM - (produced - consumed)
<1>1. produced \in Nat /\ consumed \in Nat /\ sizeM \in Nat
  BY SizeAssumption DEF IndInv, TypeOK
<1>2. produced - consumed \in 0 .. sizeM
  BY <1>1 DEF IndInv
<1> QED
  BY <1>1, <1>2, WrappedSize DEF IndInv, size, leftSize

\* The empty buffer.
LEMMA InitInv == Init => IndInv
<1> SUFFICES ASSUME Init PROVE IndInv
  OBVIOUS
<1>1. sizeM \in Nat \ {0} /\ Modulus \in Nat \ {0}
  BY SizeAssumption
<1>2. 0 % Modulus = 0
  BY <1>1, ModSmall
<1> QED
  BY <1>1, <1>2 DEF Init, IndInv, TypeOK, WindowLoaded, CopiedInOrder,
       IdlePut, IdleGet, NoByte

\* Starting a put claims at most the free space.
LEMMA StartPutInv ==
  ASSUME IndInv, NEW n \in Nat, n <= leftSize, ~put.active, StartPut(n)
  PROVE  IndInv'
<1>1. n <= sizeM - (produced - consumed)
  BY SizeFacts
<1>2. produced \in Nat /\ consumed \in Nat /\ sizeM \in Nat
  BY SizeAssumption DEF IndInv, TypeOK
<1>3. WindowLoaded'
  <2>1. produced - 1 <= produced + put.done - 1
    BY <1>2 DEF IndInv, TypeOK
  <2>2. (produced + put.done - 1)' = produced - 1
    BY <1>2 DEF StartPut, indexVars
  <2>3. consumed' = consumed /\ rawM' = rawM
    BY DEF StartPut, indexVars
  <2>4. put.done \in Nat
    BY DEF IndInv, TypeOK
  <2> QED
    BY <1>2, <2>1, <2>2, <2>3, <2>4 DEF IndInv, WindowLoaded
<1> QED
  BY <1>1, <1>2, <1>3 DEF IndInv, TypeOK, StartPut, indexVars, CopiedInOrder

\* Starting a get or a peek claims at most the bytes there are.
LEMMA StartGetInv ==
  ASSUME IndInv, NEW n \in Nat, NEW moves \in BOOLEAN, n <= size,
         StartGet(n, moves)
  PROVE  IndInv'
<1>1. n <= produced - consumed
  BY SizeFacts
<1>2. produced \in Nat /\ consumed \in Nat
  BY DEF IndInv, TypeOK
<1>3. WindowLoaded'
  BY DEF IndInv, WindowLoaded, StartGet, indexVars
<1> QED
  BY <1>1, <1>2, <1>3 DEF IndInv, TypeOK, StartGet, indexVars, CopiedInOrder

\* A byte the producer copies goes to the slot of its stream position, which
\* no unread byte uses.
LEMMA PutByteSlot ==
  ASSUME IndInv, PutByte
  PROVE  /\ rawM' = [rawM EXCEPT ![(produced + put.done) % sizeM]
                                   = produced + put.done]
         /\ produced + put.done - consumed < sizeM
<1>1. /\ produced \in Nat /\ consumed \in Nat /\ sizeM \in Nat \ {0}
      /\ put.done \in Nat /\ put.len \in Nat /\ put.done < put.len
      /\ put.len <= sizeM - (produced - consumed)
      /\ consumed <= produced
  BY SizeAssumption DEF IndInv, TypeOK, PutByte
<1>2. put.done \in 0 .. sizeM - 1
  BY <1>1
<1>3. CopyOffset(writeIndexM, put.done) = (produced + put.done) % sizeM
  BY <1>1, <1>2, CopyOffsetIsSlot DEF IndInv
<1> QED
  BY <1>1, <1>3 DEF PutByte

\* One byte is copied into the free part of the ring, which holds nothing unread.
LEMMA PutByteInv ==
  ASSUME IndInv, PutByte
  PROVE  IndInv'
<1> DEFINE w == produced + put.done
<1>1. /\ produced \in Nat /\ consumed \in Nat
      /\ put \in [active : BOOLEAN, len : Nat, done : Nat]
      /\ put.done < put.len
      /\ rawM \in [0 .. sizeM - 1 -> Nat \cup {NoByte}]
  BY DEF IndInv, TypeOK, PutByte
<1>2. put' = [put EXCEPT !.done = @ + 1]
  BY DEF PutByte
<1>3. put'.done = put.done + 1 /\ put'.len = put.len
      /\ put' \in [active : BOOLEAN, len : Nat, done : Nat]
  BY <1>1, <1>2
<1>4. /\ w \in Nat /\ w - consumed < sizeM
      /\ rawM' = [rawM EXCEPT ![w % sizeM] = w]
      /\ rawM' \in [0 .. sizeM - 1 -> Nat \cup {NoByte}]
  BY <1>1, PutByteSlot
<1>5. WindowLoaded'
  <2> SUFFICES ASSUME NEW p \in consumed .. w
               PROVE  rawM'[p % sizeM] = p
    BY <1>1, <1>3 DEF PutByte, indexVars, WindowLoaded
  <2>0. (w % sizeM) \in 0 .. sizeM - 1 /\ sizeM \in Nat \ {0}
    <3>1. w \in Int /\ sizeM \in Nat \ {0}
      BY <1>4, SizeAssumption
    <3> QED
      BY <3>1, ModDivision
  <2>1. CASE p = w
    BY <1>1, <1>4, <2>0, <2>1
  <2>2. CASE p # w
    <3>1. p \in consumed .. w - 1
      BY <1>1, <2>2
    <3>2. p \in Int /\ w \in Int /\ p < w /\ w - p < sizeM
      <4>1. w \in Nat /\ consumed <= p /\ p \in Int /\ p <= w - 1
        BY <1>1, <1>4, <3>1
      <4>2. w - consumed < sizeM /\ sizeM \in Nat
        BY <1>4, SizeAssumption
      <4> HIDE DEF w
      <4> QED
        BY <1>1, <4>1, <4>2
    <3>3. rawM[p % sizeM] = p
      BY <1>1, <3>1 DEF IndInv, WindowLoaded
    <3> HIDE DEF w
    <3>4. (p % sizeM) \in 0 .. sizeM - 1
      BY <2>0, <3>2, ModDivision
    <3>5. (p % sizeM) # (w % sizeM)
      BY <2>0, <3>2, ModDistinct
    <3> QED
      BY <1>1, <1>4, <3>3, <3>4, <3>5
  <2> QED
    BY <2>1, <2>2
<1>6. put'.done <= put'.len
  BY <1>1, <1>3
<1> QED
  BY <1>1, <1>3, <1>4, <1>5, <1>6
     DEF IndInv, TypeOK, PutByte, indexVars, CopiedInOrder

\* The producer moves its index over what it has copied.
LEMMA PutCommitInv ==
  ASSUME IndInv, PutCommit
  PROVE  IndInv'
<1>1. /\ produced \in Nat /\ consumed \in Nat
      /\ put.done \in Nat /\ put.len = put.done
      /\ put.len <= sizeM - (produced - consumed)
      /\ sizeM \in Nat \ {0} /\ Modulus \in Nat \ {0}
  BY SizeAssumption DEF IndInv, TypeOK, PutCommit
<1>2. /\ produced' = produced + put.len /\ consumed' = consumed
      /\ put' = [active |-> FALSE, len |-> 0, done |-> 0]
      /\ writeIndexM' = UAdd(writeIndexM, put.len)
      /\ rawM' = rawM /\ readIndexM' = readIndexM
      /\ get' = get /\ out' = out /\ peeked' = peeked
  BY DEF PutCommit, IdlePut
<1>3. writeIndexM' = produced' % Modulus
  <2>1. produced \in Int /\ put.len \in Int
    BY <1>1
  <2> QED
    BY <1>1, <1>2, <2>1, ModAdd DEF UAdd, IndInv
<1>4. writeIndexM' \in 0 .. Modulus - 1
  <2>1. produced' \in Int
    BY <1>1, <1>2
  <2> QED
    BY <1>1, <1>3, <2>1, ModDivision
<1>5. WindowLoaded'
  <2>1. (produced + put.done - 1)' = produced + put.done - 1
    BY <1>1, <1>2
  <2> QED
    BY <1>1, <1>2, <2>1 DEF IndInv, WindowLoaded
<1>6. TypeOK'
  BY <1>1, <1>2, <1>4 DEF IndInv, TypeOK
<1>7. /\ consumed' <= produced' /\ produced' - consumed' <= sizeM
      /\ get'.len <= produced' - consumed' /\ peeked' <= produced' - consumed'
  <2>1. /\ consumed <= produced /\ produced - consumed <= sizeM
        /\ get.len <= produced - consumed /\ peeked <= produced - consumed
        /\ get.len \in Nat /\ peeked \in Nat
    BY DEF IndInv, TypeOK
  <2>2. get'.len = get.len
    BY <1>2
  <2> QED
    BY <1>1, <1>2, <2>1, <2>2
<1>8. /\ put'.done = 0 /\ put'.len = 0
      /\ 0 <= sizeM - (produced' - consumed')
  BY <1>1, <1>2
<1> QED
  BY <1>2, <1>3, <1>5, <1>6, <1>7, <1>8 DEF IndInv, CopiedInOrder

\* A byte the consumer copies is the byte of the stream at that place.
LEMMA GetByteInv ==
  ASSUME IndInv, GetByte
  PROVE  IndInv'
<1>1. /\ produced \in Nat /\ consumed \in Nat /\ put.done \in Nat
      /\ get \in [active : BOOLEAN, moves : BOOLEAN, len : Nat, done : Nat]
      /\ get.active /\ get.done < get.len /\ get.len <= produced - consumed
      /\ produced - consumed <= sizeM /\ sizeM \in Nat \ {0}
  BY SizeAssumption DEF IndInv, TypeOK, GetByte
<1>2. /\ get' = [get EXCEPT !.done = @ + 1]
      /\ rawM' = rawM /\ put' = put /\ peeked' = peeked
      /\ readIndexM' = readIndexM /\ writeIndexM' = writeIndexM
      /\ produced' = produced /\ consumed' = consumed
      /\ out' = out \cup {<<get.done, rawM[CopyOffset(readIndexM, get.done)]>>}
  BY DEF GetByte, indexVars
<1>3. rawM[CopyOffset(readIndexM, get.done)] = consumed + get.done
  <2>1. get.done \in 0 .. sizeM - 1
    BY <1>1
  <2>2. CopyOffset(readIndexM, get.done) = (consumed + get.done) % sizeM
    BY <1>1, <2>1, CopyOffsetIsSlot DEF IndInv
  <2>3. consumed + get.done \in consumed .. produced + put.done - 1
    BY <1>1
  <2> QED
    BY <2>2, <2>3 DEF IndInv, WindowLoaded
<1>4. out' = out \cup {<<get.done, consumed + get.done>>}
  BY <1>2, <1>3
<1>5. consumed + get.done \in Nat /\ get.done \in Nat
  BY <1>1
<1>6. /\ get'.active /\ get'.len = get.len /\ get'.done = get.done + 1
      /\ get' \in [active : BOOLEAN, moves : BOOLEAN, len : Nat, done : Nat]
  BY <1>1, <1>2
<1>7. CopiedInOrder'
  BY <1>2, <1>4, <1>5 DEF IndInv, CopiedInOrder
<1>8. WindowLoaded'
  BY <1>2 DEF IndInv, WindowLoaded
<1>9. TypeOK'
  BY <1>2, <1>4, <1>5, <1>6 DEF IndInv, TypeOK
<1> QED
  BY <1>1, <1>2, <1>6, <1>7, <1>8, <1>9 DEF IndInv

\* Moving the reader's index by n bytes it may take keeps the rest.
LEMMA MoveReadIndexInv ==
  ASSUME IndInv, NEW n \in Nat, n <= produced - consumed,
         readIndexM' = UAdd(readIndexM, n), consumed' = consumed + n,
         rawM' = rawM, writeIndexM' = writeIndexM, produced' = produced,
         put' = put, get' = IdleGet, out' = {}, peeked' = 0
  PROVE  IndInv'
<1>1. /\ produced \in Nat /\ consumed \in Nat /\ put.done \in Nat
      /\ put.len \in Nat /\ consumed <= produced
      /\ sizeM \in Nat \ {0} /\ Modulus \in Nat \ {0}
  BY SizeAssumption DEF IndInv, TypeOK
<1>2. readIndexM' = consumed' % Modulus
  <2>1. consumed \in Int /\ n \in Int
    BY <1>1
  <2> QED
    BY <1>1, <2>1, ModAdd DEF UAdd, IndInv
<1>3. readIndexM' \in 0 .. Modulus - 1
  <2>1. consumed' \in Int
    BY <1>1
  <2> QED
    BY <1>1, <1>2, <2>1, ModDivision
<1>4. WindowLoaded'
  <2>1. consumed <= consumed + n /\ consumed + n \in Nat
    BY <1>1
  <2> QED
    BY <1>1, <2>1 DEF IndInv, WindowLoaded
<1> QED
  BY <1>1, <1>2, <1>3, <1>4 DEF IndInv, TypeOK, CopiedInOrder, IdleGet

\* The consumer moves its index over what it has copied out.
LEMMA GetCommitInv ==
  ASSUME IndInv, GetCommit
  PROVE  IndInv'
<1>1. get.len \in Nat /\ get.len <= produced - consumed
  BY DEF IndInv, TypeOK
<1>2. CASE get.moves
  BY <1>1, <1>2, MoveReadIndexInv DEF GetCommit
<1>3. CASE ~get.moves
  <2>1. WindowLoaded'
    BY <1>3 DEF IndInv, WindowLoaded, GetCommit
  <2>2. 0 <= produced - consumed
    BY DEF IndInv, TypeOK
  <2> QED
    BY <1>1, <1>3, <2>1, <2>2
       DEF IndInv, TypeOK, GetCommit, CopiedInOrder, IdleGet
<1> QED
  BY <1>2, <1>3

\* commitRead moves the index without copying.
LEMMA CommitReadInv ==
  ASSUME IndInv, NEW n \in Nat, CommitRead(n)
  PROVE  IndInv'
<1>1. n <= produced - consumed
  BY DEF IndInv, TypeOK, CommitRead
<1>2. get' = IdleGet /\ out' = {}
  BY DEF IndInv, CommitRead
<1> QED
  BY <1>1, <1>2, MoveReadIndexInv DEF CommitRead

\* Every step of the producer and of the consumer keeps the invariant.
LEMMA NextInv == IndInv /\ [Next]_vars => IndInv'
<1> SUFFICES ASSUME IndInv, [Next]_vars PROVE IndInv'
  OBVIOUS
<1>1. /\ leftSize \in Nat /\ size \in Nat
  BY SizeAssumption, SizeFacts DEF IndInv, TypeOK
<1>2. ASSUME NEW n \in Lengths, Put(n) PROVE IndInv'
  BY <1>1, <1>2, LengthAssumption, StartPutInv DEF Put, Smaller
<1>3. ASSUME NEW n \in Lengths, Putn(n) PROVE IndInv'
  BY <1>3, LengthAssumption, StartPutInv DEF Putn
<1>4. CASE PutByte
  BY <1>4, PutByteInv
<1>5. CASE PutCommit
  BY <1>5, PutCommitInv
<1>6. ASSUME NEW n \in Lengths, Get(n) \/ Peek(n) PROVE IndInv'
  <2>1. n \in Nat
    BY LengthAssumption
  <2>2. Smaller(n, size) \in Nat /\ Smaller(n, size) <= size
    BY <1>1, <2>1 DEF Smaller
  <2>3. \E moves \in BOOLEAN : StartGet(Smaller(n, size), moves)
    BY <1>6 DEF Get, Peek
  <2> QED
    BY <2>2, <2>3, StartGetInv
<1>7. ASSUME NEW n \in Lengths, Getn(n) \/ Peekn(n) PROVE IndInv'
  BY <1>7, LengthAssumption, StartGetInv DEF Getn, Peekn
<1>8. ASSUME NEW n \in Lengths, CommitRead(n) PROVE IndInv'
  BY <1>8, LengthAssumption, CommitReadInv
<1>9. CASE GetByte
  BY <1>9, GetByteInv
<1>10. CASE GetCommit
  BY <1>10, GetCommitInv
<1>11. CASE UNCHANGED vars
  BY <1>11 DEF vars, IndInv, TypeOK, WindowLoaded, CopiedInOrder
<1> QED
  BY <1>2, <1>3, <1>4, <1>5, <1>6, <1>7, <1>8, <1>9, <1>10, <1>11
     DEF Next, Producer, Consumer

\* The inductive invariant holds of every behaviour of the two threads.
THEOREM Invariant == Spec => []IndInv
  BY InitInv, NextInv, PTL DEF Spec

\* The variables keep their types; in particular both indices stay unsigned.
THEOREM TypeCorrect == Spec => []TypeOK
<1>1. IndInv => TypeOK
  BY DEF IndInv
<1> QED
  BY <1>1, Invariant, PTL

\* For every buffer size, index width and interleaving of the two threads,
\* KfifoBuffer::get, getn, peek and peekn return the bytes of the stream in
\* order and complete.
THEOREM ReadsAreInOrder == Spec => []CopiedInOrder
<1>1. IndInv => CopiedInOrder
  BY DEF IndInv
<1> QED
  BY <1>1, Invariant, PTL

\* writeIndexM - readIndexM is the number of bytes in the buffer, whatever the
\* number of times the indices have wrapped, and never exceeds sizeM.
THEOREM OccupancyIsExact == Spec => []OccupancyExact
<1>1. IndInv => OccupancyExact
  BY SizeFacts DEF IndInv, OccupancyExact
<1> QED
  BY <1>1, Invariant, PTL

\* The producer's memcpy never reaches a byte that the consumer may still be
\* reading, for every buffer size and width of the indices.
THEOREM NeverOverwrites == Spec => NeverOverwritesUnread
<1> DEFINE Keeps(p) == rawM[p % sizeM] = p => rawM'[p % sizeM] = p
<1>1. ASSUME IndInv, [Next]_vars, NEW p \in consumed .. produced - 1
      PROVE  Keeps(p)
  <2>1. PutByte \/ rawM' = rawM
    BY <1>1 DEF Next, Producer, Consumer, Put, Putn, PutCommit, Get, Getn, Peek,
         Peekn, CommitRead, GetByte, GetCommit, StartPut, StartGet, vars
  <2>2. CASE PutByte
    <3>1. /\ IndInv' /\ consumed' = consumed /\ produced' = produced
          /\ put'.done = put.done + 1
      BY <1>1, <2>2, PutByteInv DEF IndInv, TypeOK, PutByte, indexVars
    <3>2. put.done \in Nat /\ produced \in Nat /\ consumed \in Nat
      BY <1>1 DEF IndInv, TypeOK
    <3>3. p \in consumed .. produced + (put.done + 1) - 1
      BY <3>2
    <3> QED
      BY <3>1, <3>3 DEF IndInv, WindowLoaded
  <2> QED
    BY <2>1, <2>2
<1>2. IndInv /\ [Next]_vars =>
        [\A p \in consumed .. produced - 1 : Keeps(p)]_vars
  BY <1>1
<1> QED
  BY <1>2, Invariant, PTL DEF Spec, NeverOverwritesUnread

\* KfifoBuffer implements the atomic FIFO: a put takes effect when it moves
\* writeIndexM, a get or commitRead when it moves readIndexM.
THEOREM RefinesFifo == Spec => ImplementsFifo
<1>1. Init => Fifo!Init
  BY DEF Init, Fifo!Init
<1>2. IndInv /\ [Next]_vars => [Fifo!Next]_(Fifo!fifoVars)
  <2> SUFFICES ASSUME IndInv, [Next]_vars, ~UNCHANGED <<produced, consumed>>
               PROVE  Fifo!Next
    BY DEF Fifo!fifoVars
  <2>1. /\ produced \in Nat /\ consumed \in Nat /\ put.len \in Nat
        /\ get.len \in Nat /\ peeked \in Nat /\ sizeM \in Nat
    BY SizeAssumption DEF IndInv, TypeOK
  <2>2. PutCommit \/ GetCommit \/ \E n \in Lengths : CommitRead(n)
    BY DEF Next, Producer, Consumer, Put, Putn, PutByte, Get, Getn, Peek,
           Peekn, GetByte, StartPut, StartGet, indexVars, vars
  <2>3. CASE PutCommit
    <3>1. put.len \in 0 .. sizeM - (produced - consumed)
      BY <2>1 DEF IndInv
    <3> QED
      BY <2>3, <3>1 DEF PutCommit, Fifo!Next, Fifo!Put
  <2>4. CASE GetCommit
    <3>1. get.len \in 0 .. produced - consumed
      BY <2>1 DEF IndInv
    <3> QED
      BY <2>4, <3>1 DEF GetCommit, Fifo!Next, Fifo!Take
  <2>5. ASSUME NEW n \in Lengths, CommitRead(n) PROVE Fifo!Next
    <3>1. n \in 0 .. produced - consumed
      BY <2>1, <2>5, LengthAssumption DEF IndInv, CommitRead
    <3> QED
      BY <2>5, <3>1 DEF CommitRead, Fifo!Next, Fifo!Take
  <2> QED
    BY <2>2, <2>3, <2>4, <2>5
<1> QED
  BY <1>1, <1>2, Invariant, PTL DEF Spec, ImplementsFifo, Fifo!Spec
=============================================================================
