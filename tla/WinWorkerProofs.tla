-------------------------- MODULE WinWorkerProofs --------------------------
(***************************************************************************)
(* Theorems about WinWorker for any number of posting threads, any jobs, any *)
(* queue capacity, any width of the indices and any timers.                  *)
(***************************************************************************)
EXTENDS WinWorker, TLAPS

-----------------------------------------------------------------------------
(* Remainders.                                                             *)

\* A remainder lies below the modulus, and the quotient recovers the number.
LEMMA ModDivision ==
  ASSUME NEW x \in Int, NEW m \in Nat \ {0}
  PROVE  /\ (x % m) \in 0 .. m - 1
         /\ x \div m \in Int
         /\ x = (x \div m) * m + (x % m)
  OBVIOUS

\* A quotient and a remainder in range determine the remainder.
LEMMA ModUnique ==
  ASSUME NEW m \in Nat \ {0}, NEW q \in Int, NEW r \in 0 .. m - 1
  PROVE  (q * m + r) % m = r
  OBVIOUS

\* A number in range is its own remainder.
LEMMA ModSmall ==
  ASSUME NEW m \in Nat \ {0}, NEW r \in 0 .. m - 1
  PROVE  (r % m) = r
  OBVIOUS

\* Adding to a wrapped counter is adding to the counter and wrapping.
LEMMA ModAdd ==
  ASSUME NEW m \in Nat \ {0}, NEW a \in Int, NEW b \in Int
  PROVE  ((a % m) + b) % m = (a + b) % m
<1> DEFINE q == a \div m
           c == (a % m) + b
           p == c \div m
           r == (c % m)
<1>1. /\ q \in Int /\ (a % m) \in Int /\ a = q * m + (a % m)
  BY ModDivision
<1>2. /\ p \in Int /\ r \in 0 .. m - 1 /\ c = p * m + r
  BY <1>1, ModDivision
<1>3. a + b = q * m + c
  BY <1>1
<1>4. q * m + (p * m + r) = (q + p) * m + r
  BY <1>1, <1>2
<1>5. a + b = (q + p) * m + r
  BY <1>2, <1>3, <1>4
<1>6. ((q + p) * m + r) % m = r
  <2> HIDE DEF q, c, p, r
  <2>1. q + p \in Int
    BY <1>1, <1>2
  <2> QED
    BY <1>2, <2>1, ModUnique
<1> QED
  BY <1>5, <1>6

\* The difference of two wrapped counters is the wrapped difference.
LEMMA ModDifference ==
  ASSUME NEW m \in Nat \ {0}, NEW a \in Int, NEW b \in Int
  PROVE  ((a % m) - (b % m)) % m = (a - b) % m
<1> DEFINE q == b \div m
           d == a - (b % m)
           p == d \div m
           r == (d % m)
<1>1. /\ q \in Int /\ (b % m) \in Int /\ b = q * m + (b % m)
  BY ModDivision
<1>2. (a % m) - (b % m) = (a % m) + (0 - (b % m))
  BY <1>1, ModDivision
<1>3. ((a % m) + (0 - (b % m))) % m = (a + (0 - (b % m))) % m
  <2>1. 0 - (b % m) \in Int
    BY <1>1
  <2> QED
    BY <2>1, ModAdd
<1>4. a + (0 - (b % m)) = d
  BY <1>1
<1>5. /\ p \in Int /\ r \in 0 .. m - 1 /\ d = p * m + r
  BY <1>1, ModDivision
<1>6. a - b = d - q * m
  BY <1>1
<1>7. (p * m + r) - q * m = (p - q) * m + r
  BY <1>1, <1>5
<1>8. a - b = (p - q) * m + r
  BY <1>5, <1>6, <1>7
<1>9. ((p - q) * m + r) % m = r
  <2> HIDE DEF q, d, p, r
  <2>1. p - q \in Int
    BY <1>1, <1>5
  <2> QED
    BY <1>5, <2>1, ModUnique
<1> QED
  BY <1>2, <1>3, <1>4, <1>8, <1>9

\* Counters less than m apart do not share a remainder.
LEMMA ModDistinct ==
  ASSUME NEW m \in Nat \ {0}, NEW a \in Int, NEW b \in Int,
         a < b, b - a < m
  PROVE  (a % m) # (b % m)
<1> SUFFICES ASSUME (a % m) = (b % m) PROVE FALSE
  OBVIOUS
<1>1. ((b % m) - (a % m)) % m = (b - a) % m
  BY ModDifference
<1>2. (b - a) % m = b - a
  BY ModSmall
<1>3. ((b % m) - (a % m)) % m = 0
  BY ModDivision, ModSmall
<1> QED
  BY <1>1, <1>2, <1>3

\* Wrapping at a multiple of the buffer size does not change the slot.
LEMMA ModMultiple ==
  ASSUME NEW m \in Nat \ {0}, NEW M \in Nat \ {0}, (M % m) = 0, NEW a \in Int
  PROVE  (a % M) % m = (a % m)
<1> DEFINE k == M \div m
           q == a \div M
           p == (a % M) \div m
           r == (a % M) % m
<1>1. k \in Int /\ M = k * m
  BY ModDivision
<1>2. q \in Int /\ (a % M) \in Int /\ a = q * M + (a % M)
  BY ModDivision
<1>3. p \in Int /\ r \in 0 .. m - 1 /\ (a % M) = p * m + r
  BY <1>2, ModDivision
<1>4. q * (k * m) + (p * m + r) = (q * k + p) * m + r
  <2> HIDE DEF k, q, p, r
  <2>1. \A x, y, z, u, v \in Int : x * (y * z) + (u * z + v) = (x * y + u) * z + v
    OBVIOUS
  <2> QED
    BY <1>1, <1>2, <1>3, <2>1
<1>5. a = (q * k + p) * m + r
  BY <1>1, <1>2, <1>3, <1>4
<1>6. q * k + p \in Int
  BY <1>1, <1>2, <1>3
<1>7. ((q * k + p) * m + r) % m = r
  BY <1>3, <1>6, ModUnique
<1> QED
  BY <1>5, <1>7

-----------------------------------------------------------------------------
(* The ring: what the indices say of its slots.                            *)

\* The difference of the wrapped indices leads from one to the other.
LEMMA IndexFromUsed ==
  ASSUME NEW r \in 0 .. Modulus - 1, NEW w \in 0 .. Modulus - 1
  PROVE  /\ ((w - r) % Modulus) \in 0 .. Modulus - 1
         /\ w = (r + ((w - r) % Modulus)) % Modulus
         /\ ((w - r) % Modulus) = 0 <=> w = r
<1> DEFINE u == ((w - r) % Modulus)
<1>1. Modulus \in Nat \ {0}
  BY QueueAssumption
<1>2. r \in Int /\ w \in Int /\ w - r \in Int
  OBVIOUS
<1>3. u \in 0 .. Modulus - 1
  BY <1>1, <1>2, ModDivision
<1>4. (((w - r) % Modulus) + r) % Modulus = ((w - r) + r) % Modulus
  BY <1>1, <1>2, ModAdd
<1>5. (w - r) + r = w
  BY <1>2
<1>6. w % Modulus = w /\ r % Modulus = r
  BY <1>1, ModSmall
<1>7. w = (u + r) % Modulus
  BY <1>4, <1>5, <1>6
<1>8. u + r = r + u
  BY <1>2, <1>3
<1>9. w = (r + u) % Modulus
  BY <1>7, <1>8
<1>10. u = 0 => w = r
  BY <1>2, <1>6, <1>9
<1>11. w = r => u = 0
  <2> SUFFICES ASSUME w = r PROVE u = 0
    OBVIOUS
  <2>1. w - r = 0 /\ 0 \in 0 .. Modulus - 1
    BY <1>1
  <2> QED
    BY <1>1, <2>1, ModSmall
<1> QED
  BY <1>3, <1>9, <1>10, <1>11

\* One more job.
LEMMA UsedUp ==
  ASSUME NEW r \in 0 .. Modulus - 1, NEW w \in 0 .. Modulus - 1,
         ((w - r) % Modulus) < Capacity
  PROVE  /\ ((w + 1) % Modulus) \in 0 .. Modulus - 1
         /\ (((w + 1) % Modulus) - r) % Modulus = ((w - r) % Modulus) + 1
<1> DEFINE u == ((w - r) % Modulus)
<1>1. /\ Modulus \in Nat \ {0} /\ Capacity \in Nat /\ Capacity < Modulus
  BY QueueAssumption
<1>2. /\ r \in Int /\ w \in Int /\ w - r \in Int /\ w + 1 \in Int
      /\ (w + 1) - r = (w - r) + 1
  OBVIOUS
<1>3. u \in 0 .. Modulus - 1
  BY <1>1, <1>2, ModDivision
<1>4. (((w + 1) % Modulus) - (r % Modulus)) % Modulus = ((w + 1) - r) % Modulus
  BY <1>1, <1>2, ModDifference
<1>5. (((w - r) % Modulus) + 1) % Modulus = ((w - r) + 1) % Modulus
  <2> DEFINE a == w - r
             b == 1
  <2>1. a \in Int /\ b \in Int
    BY <1>2
  <2>2. ((a % Modulus) + b) % Modulus = (a + b) % Modulus
    <3> HIDE DEF a, b
    <3> QED
      BY <1>1, <2>1, ModAdd
  <2> QED
    BY <2>2
<1>6. r % Modulus = r
  BY <1>1, ModSmall
<1>7. u + 1 \in 0 .. Modulus - 1
  BY <1>1, <1>3
<1>8. (u + 1) % Modulus = u + 1
  BY <1>1, <1>7, ModSmall
<1>9. ((w + 1) % Modulus) \in 0 .. Modulus - 1
  BY <1>1, <1>2, ModDivision
<1> QED
  BY <1>2, <1>4, <1>5, <1>6, <1>8, <1>9

\* One job less.
LEMMA UsedDown ==
  ASSUME NEW r \in 0 .. Modulus - 1, NEW w \in 0 .. Modulus - 1, w # r
  PROVE  /\ ((r + 1) % Modulus) \in 0 .. Modulus - 1
         /\ ((w - r) % Modulus) > 0
         /\ (w - ((r + 1) % Modulus)) % Modulus = ((w - r) % Modulus) - 1
<1> DEFINE u == ((w - r) % Modulus)
<1>1. Modulus \in Nat \ {0}
  BY QueueAssumption
<1>2. /\ r \in Int /\ w \in Int /\ w - r \in Int /\ r + 1 \in Int
      /\ w - (r + 1) = (w - r) + (0 - 1) /\ 0 - 1 \in Int
  OBVIOUS
<1>3. u \in 0 .. Modulus - 1 /\ u # 0
  BY IndexFromUsed
<1>4. ((w % Modulus) - ((r + 1) % Modulus)) % Modulus = (w - (r + 1)) % Modulus
  BY <1>1, <1>2, ModDifference
<1>5. (((w - r) % Modulus) + (0 - 1)) % Modulus = ((w - r) + (0 - 1)) % Modulus
  BY <1>1, <1>2, ModAdd
<1>6. w % Modulus = w
  BY <1>1, ModSmall
<1>7. u + (0 - 1) \in 0 .. Modulus - 1 /\ u + (0 - 1) = u - 1
  BY <1>1, <1>3
<1>8. (u + (0 - 1)) % Modulus = u + (0 - 1)
  BY <1>1, <1>7, ModSmall
<1>9. ((r + 1) % Modulus) \in 0 .. Modulus - 1
  BY <1>1, <1>2, ModDivision
<1>10. u > 0
  BY <1>3
<1> QED
  BY <1>2, <1>4, <1>5, <1>6, <1>7, <1>8, <1>9, <1>10

\* The slot that a new job gets holds none of the jobs that wait.
LEMMA FreshSlot ==
  ASSUME NEW r \in 0 .. Modulus - 1, NEW w \in 0 .. Modulus - 1,
         ((w - r) % Modulus) < Capacity,
         NEW i \in 1 .. ((w - r) % Modulus)
  PROVE  Slot(r + (i - 1)) # Slot(w)
<1> DEFINE u == ((w - r) % Modulus)
<1>1. /\ Modulus \in Nat \ {0} /\ Capacity \in Nat \ {0} /\ (Modulus % Capacity) = 0
  BY QueueAssumption
<1>2. u \in 0 .. Modulus - 1 /\ w = (r + u) % Modulus
  BY IndexFromUsed
<1>3. r + u \in Int /\ r + (i - 1) \in Int
  BY <1>2
<1>4. ((r + u) % Modulus) % Capacity = (r + u) % Capacity
  BY <1>1, <1>3, ModMultiple
<1>5. w % Capacity = (r + u) % Capacity
  BY <1>2, <1>4
<1>6. r + (i - 1) < r + u /\ (r + u) - (r + (i - 1)) < Capacity
  <2> HIDE DEF u
  <2>1. i \in 1 .. u /\ u < Capacity
    BY DEF u
  <2> QED
    BY <1>1, <1>2, <2>1
<1>7. (r + (i - 1)) % Capacity # (r + u) % Capacity
  <2> HIDE DEF u
  <2> QED
    BY <1>1, <1>3, <1>6, ModDistinct
<1> QED
  BY <1>5, <1>7 DEF Slot

\* The job that was last put is the last that waits.
LEMMA LastSlot ==
  ASSUME NEW r \in 0 .. Modulus - 1, NEW w \in 0 .. Modulus - 1
  PROVE  Slot(r + ((w - r) % Modulus)) = Slot(w)
<1> DEFINE u == ((w - r) % Modulus)
<1>1. /\ Modulus \in Nat \ {0} /\ Capacity \in Nat \ {0} /\ (Modulus % Capacity) = 0
  BY QueueAssumption
<1>2. u \in 0 .. Modulus - 1 /\ w = (r + u) % Modulus
  BY IndexFromUsed
<1>3. r + u \in Int
  BY <1>2
<1>4. ((r + u) % Modulus) % Capacity = (r + u) % Capacity
  BY <1>1, <1>3, ModMultiple
<1> QED
  BY <1>2, <1>4 DEF Slot

\* Once the first job is out, the others keep their slots.
LEMMA NextSlot ==
  ASSUME NEW r \in 0 .. Modulus - 1, NEW i \in Nat
  PROVE  Slot(((r + 1) % Modulus) + i) = Slot(r + 1 + i)
<1> DEFINE x == ((r + 1) % Modulus)
<1>1. /\ Modulus \in Nat \ {0} /\ Capacity \in Nat \ {0} /\ (Modulus % Capacity) = 0
  BY QueueAssumption
<1>2. r + 1 \in Int /\ i \in Int
  OBVIOUS
<1>3. x \in Int
  BY <1>1, <1>2, ModDivision
<1>4. x % Capacity = (r + 1) % Capacity
  BY <1>1, <1>2, ModMultiple
<1>5. ((x % Capacity) + i) % Capacity = (x + i) % Capacity
  <2> HIDE DEF x
  <2> QED
    BY <1>1, <1>2, <1>3, ModAdd
<1>6. (((r + 1) % Capacity) + i) % Capacity = (r + 1 + i) % Capacity
  BY <1>1, <1>2, ModAdd
<1> QED
  BY <1>4, <1>5, <1>6 DEF Slot

\* Slots are places of the ring.
LEMMA SlotRange ==
  ASSUME NEW i \in Int
  PROVE  Slot(i) \in 0 .. Capacity - 1
  BY QueueAssumption, ModDivision DEF Slot

-----------------------------------------------------------------------------
(***************************************************************************)
(* The inductive invariant.  What SleepsOnlyWhenIdle says of a sleeping     *)
(* worker has to be known one step earlier, when it is about to sleep with  *)
(* the mutex in hand, and of a thread that holds the mutex and has looked   *)
(* at the queue but not put its job yet.  Ring says which slots hold the    *)
(* jobs that wait, also between the two steps in which a pointer goes in    *)
(* and the two in which it comes out.                                       *)
(***************************************************************************)
Posting(t) == post[t] \in {"locked", "copied"}

MutexHeld ==
  /\ \A t \in Threads : Posting(t) => lock = t
  /\ pc \in {"test", "enterWait"} => lock = Worker

Waiting == \A i \in 1 .. Used : slots[Slot(readIndexM + (i - 1))] \in Jobs

Copied(t) ==
  post[t] = "copied" => Used < Capacity /\ slots[Slot(writeIndexM)] = theJob[t]

Ring ==
  /\ Waiting
  /\ \A t \in Threads : Posting(t) <=> theJob[t] \in Jobs
  /\ \A t \in Threads : Copied(t)
  /\ pc = "taken" => ~queueEmpty /\ job = slots[Slot(readIndexM)]
  /\ pc \in {"taken", "job"} <=> job \in Jobs

WorkerPostsFromJobs == post[Worker] # "idle" => pc \in {"job", "callback"}

ReadyToSleep == pc = "enterWait" => heapEmpty /\ queueEmpty

WaitsInWait == waiting => pc \in {"wait", "timedWait"}

PutWillSignal ==
  pc = "wait" /\ waiting =>
    \A t \in Threads : Posting(t) => wasEmpty[t] \/ SignalPending

IndInv ==
  /\ TypeOK
  /\ MutexHeld
  /\ Ring
  /\ WorkerPostsFromJobs
  /\ ReadyToSleep
  /\ WaitsInWait
  /\ PutWillSignal
  /\ SleepsOnlyWhenIdle

\* A queue whose indices agree is empty.
LEMMA EmptyUsed ==
  ASSUME readIndexM \in 0 .. Modulus - 1, writeIndexM \in 0 .. Modulus - 1
  PROVE  /\ Used \in Nat
         /\ Used = 0 <=> queueEmpty
<1>1. /\ (writeIndexM - readIndexM) % Modulus \in 0 .. Modulus - 1
      /\ (writeIndexM - readIndexM) % Modulus = 0 <=> writeIndexM = readIndexM
  BY IndexFromUsed
<1>2. \A x \in 0 .. Modulus - 1 : x \in Nat
  OBVIOUS
<1> QED
  BY <1>1, <1>2 DEF Used, queueEmpty

\* The worker begins with an empty ring and a free mutex.
LEMMA InitInv == Init => IndInv
<1> SUFFICES ASSUME Init PROVE IndInv
  OBVIOUS
<1>1. timers \subseteq [id : Nat, due : Nat]
  <2>1. [id |-> ReactorTimer, due |-> 1] \in [id : Nat, due : Nat]
    BY DEF ReactorTimer
  <2>2. timers = {} \/ timers = {[id |-> ReactorTimer, due |-> 1]}
    BY DEF Init
  <2> QED
    BY <2>1, <2>2
<1>2. /\ readIndexM \in 0 .. Modulus - 1 /\ writeIndexM \in 0 .. Modulus - 1
      /\ Capacity \in Nat /\ queueEmpty
  BY QueueAssumption DEF Init, queueEmpty
<1>3. Used = 0 /\ Used <= Capacity
  BY <1>2, EmptyUsed
<1>4. TypeOK
  <2>1. /\ job = NoJob /\ lock = NoThread
        /\ waiting = FALSE /\ pc = "loop" /\ isToStopM = FALSE
        /\ stopper = "running" /\ timeNowM = 0 /\ clock = 1
        /\ calling = NoTimer
    BY DEF Init
  <2>2. /\ slots \in [0 .. Capacity - 1 -> Jobs \cup {NoJob}]
        /\ theJob \in [Threads -> Jobs \cup {NoJob}]
    BY DEF Init
  <2>3. post \in [Threads -> {"idle", "locked", "copied", "put"}]
    BY DEF Init
  <2>4. wasEmpty \in [Threads -> BOOLEAN]
    BY DEF Init
  <2>5. waiting \in BOOLEAN /\ isToStopM \in BOOLEAN
    BY ONLY <2>1
  <2>6. timeNowM \in Nat /\ clock \in Nat /\ calling \in Nat \cup {NoTimer}
    BY <2>1 DEF NoTimer
  <2>7. lock \in Threads \cup {NoThread} /\ job \in Jobs \cup {NoJob}
    BY <2>1
  <2> QED
    BY <1>1, <1>2, <1>3, <2>1, <2>2, <2>3, <2>4, <2>5, <2>6, <2>7 DEF TypeOK
<1>5. /\ \A t \in Threads : post[t] = "idle" /\ theJob[t] = NoJob
      /\ pc = "loop" /\ waiting = FALSE /\ job = NoJob
  BY DEF Init
<1>6. Worker \in Threads /\ NoJob \notin Jobs
  BY JobAssumption DEF Threads
<1>7. Waiting
  <2>1. 1 .. 0 = {}
    OBVIOUS
  <2> QED
    BY <1>3, <2>1 DEF Waiting
<1>8. Ring
  BY <1>5, <1>6, <1>7 DEF Ring, Posting, Copied
<1> QED
  BY <1>4, <1>5, <1>6, <1>8
     DEF IndInv, MutexHeld, WorkerPostsFromJobs, ReadyToSleep, WaitsInWait,
         PutWillSignal, SleepsOnlyWhenIdle, Posting

-----------------------------------------------------------------------------
(* Types and the ring.                                                     *)

\* Nothing that Ring speaks of changes.
LEMMA RingKept ==
  ASSUME Ring, UNCHANGED <<slots, readIndexM, writeIndexM, job, post, theJob>>,
         pc' = "taken" <=> pc = "taken",
         pc' = "job" <=> pc = "job"
  PROVE  Ring'
  BY DEF Ring, Waiting, Copied, Posting, Used, queueEmpty, Slot

\* Taking the mutex does not touch the ring.
LEMMA PostLockRing ==
  ASSUME TypeOK, MutexHeld, Ring, NEW t \in Threads, PostLock(t)
  PROVE  TypeOK' /\ Ring'
<1>1. TypeOK'
  BY DEF TypeOK, PostLock, PostKeeps, queueEmpty, stopVars, timerVars, Used
<1>2. PICK some \in Jobs : theJob' = [theJob EXCEPT ![t] = some]
  BY DEF PostLock
<1>3. /\ post'[t] = "locked" /\ theJob'[t] = some
      /\ \A u \in Threads \ {t} : post'[u] = post[u] /\ theJob'[u] = theJob[u]
  BY <1>2 DEF TypeOK, PostLock
<1>4. UNCHANGED <<slots, readIndexM, writeIndexM, job, pc>>
  BY DEF PostLock, PostKeeps
<1>5. Waiting' /\ (queueEmpty' <=> queueEmpty)
  BY <1>4 DEF Ring, Waiting, Used, Slot, queueEmpty
<1>6. \A u \in Threads : Posting(u)' <=> theJob'[u] \in Jobs
  BY <1>3 DEF Ring, Posting
<1>7. \A u \in Threads : Copied(u)'
  BY <1>3, <1>4 DEF Ring, Copied, Used, Slot
<1> QED
  BY <1>1, <1>4, <1>5, <1>6, <1>7 DEF Ring, Slot

\* A copy of the job to a free slot leaves the jobs of the ring alone.
LEMMA PostCopyRing ==
  ASSUME TypeOK, MutexHeld, Ring, NEW t \in Threads, PostCopy(t)
  PROVE  TypeOK' /\ Ring'
<1>1. /\ post[t] = "locked" /\ Used < Capacity
      /\ slots' = [slots EXCEPT ![Slot(writeIndexM)] = theJob[t]]
      /\ post' = [post EXCEPT ![t] = "copied"]
      /\ UNCHANGED <<readIndexM, writeIndexM, job, pc, theJob, lock>>
  BY DEF PostCopy, PostKeeps
<1>2. readIndexM \in 0 .. Modulus - 1 /\ writeIndexM \in 0 .. Modulus - 1
  BY DEF TypeOK
<1>3. Slot(writeIndexM) \in 0 .. Capacity - 1
  BY <1>2, SlotRange
<1>4. TypeOK'
  BY <1>1, <1>3 DEF TypeOK, PostCopy, PostKeeps, stopVars, timerVars, Used
<1>5. /\ post'[t] = "copied"
      /\ \A u \in Threads \ {t} : post'[u] = post[u]
      /\ slots'[Slot(writeIndexM)] = theJob[t]
  BY <1>1, <1>3 DEF TypeOK
<1>6. Used' = Used /\ (queueEmpty' <=> queueEmpty)
  BY <1>1 DEF Used, queueEmpty
<1>7. ASSUME NEW i \in 1 .. Used
      PROVE  slots'[Slot(readIndexM + (i - 1))] = slots[Slot(readIndexM + (i - 1))]
  <2>1. Slot(readIndexM + (i - 1)) # Slot(writeIndexM)
    BY <1>1, <1>2, FreshSlot DEF Used
  <2>2. Used \in Nat
    BY <1>2, EmptyUsed
  <2>3. readIndexM + (i - 1) \in Int
    BY <1>2, <2>2
  <2>4. Slot(readIndexM + (i - 1)) \in 0 .. Capacity - 1
    BY <2>3, SlotRange
  <2> QED
    BY <1>1, <2>1, <2>4 DEF TypeOK
<1>8. Waiting'
  <2>1. readIndexM' = readIndexM
    BY <1>1
  <2>2. \A i \in 1 .. Used : slots'[Slot(readIndexM + (i - 1))] \in Jobs
    BY <1>7 DEF Ring, Waiting
  <2> QED
    BY <1>6, <2>1, <2>2 DEF Waiting, Slot
<1>9. \A u \in Threads : Posting(u)' <=> theJob'[u] \in Jobs
  BY <1>1, <1>5 DEF Ring, Posting
<1>10. \A u \in Threads : Copied(u)'
  <2> SUFFICES ASSUME NEW u \in Threads, post'[u] = "copied" PROVE Copied(u)'
    BY DEF Copied
  <2>1. u = t
    BY <1>1, <1>5 DEF MutexHeld, Posting
  <2> QED
    BY <1>1, <1>5, <1>6, <2>1 DEF Copied, Slot
<1>11. pc' = "taken" => ~queueEmpty' /\ job' = slots'[Slot(readIndexM')]
  <2> SUFFICES ASSUME pc = "taken"
               PROVE  ~queueEmpty' /\ job' = slots'[Slot(readIndexM')]
    BY <1>1
  <2>1. ~queueEmpty /\ job = slots[Slot(readIndexM)]
    BY DEF Ring
  <2>2. Used \in Nat /\ Used # 0
    BY <1>2, <2>1, EmptyUsed
  <2>3. 1 \in 1 .. Used /\ readIndexM + (1 - 1) = readIndexM
    BY <1>2, <2>2
  <2>4. slots'[Slot(readIndexM)] = slots[Slot(readIndexM)]
    BY <1>7, <2>3
  <2> QED
    BY <1>1, <1>6, <2>1, <2>4
<1> QED
  BY <1>1, <1>4, <1>8, <1>9, <1>10, <1>11 DEF Ring

\* Moving the write index adds the copied job at the end.
LEMMA PostPutRing ==
  ASSUME TypeOK, MutexHeld, Ring, NEW t \in Threads, PostPut(t)
  PROVE  /\ TypeOK' /\ Ring' /\ Used < Capacity /\ Used' = Used + 1
         /\ theJob[t] \in Jobs
         /\ slots'[Slot(readIndexM' + Used)] = theJob[t]
<1>1. /\ post[t] = "copied" /\ writeIndexM' = (writeIndexM + 1) % Modulus
      /\ post' = [post EXCEPT ![t] = "put"]
      /\ theJob' = [theJob EXCEPT ![t] = NoJob]
      /\ UNCHANGED <<slots, readIndexM, job, pc>>
  BY DEF PostPut, Unlock, PostKeeps
<1>2. /\ readIndexM \in 0 .. Modulus - 1 /\ writeIndexM \in 0 .. Modulus - 1
      /\ Used \in Nat
  BY EmptyUsed DEF TypeOK
<1>3. Used < Capacity /\ slots[Slot(writeIndexM)] = theJob[t]
  BY <1>1 DEF Ring, Copied
<1>4. /\ ((writeIndexM + 1) % Modulus) \in 0 .. Modulus - 1
      /\ (((writeIndexM + 1) % Modulus) - readIndexM) % Modulus
           = ((writeIndexM - readIndexM) % Modulus) + 1
  BY <1>2, <1>3, UsedUp DEF Used
<1>5. writeIndexM' \in 0 .. Modulus - 1 /\ Used' = Used + 1
  BY <1>1, <1>4 DEF Used
<1>6. Capacity \in Nat
  BY QueueAssumption
<1>7. Used' <= Capacity
  BY <1>2, <1>3, <1>5, <1>6
<1>8. TypeOK'
  BY <1>1, <1>5, <1>7 DEF TypeOK, PostPut, Unlock, PostKeeps, stopVars, timerVars
<1>9. /\ post'[t] = "put" /\ theJob'[t] = NoJob
      /\ \A u \in Threads \ {t} : post'[u] = post[u] /\ theJob'[u] = theJob[u]
  BY <1>1 DEF TypeOK
<1>10. theJob[t] \in Jobs
  BY <1>1 DEF Ring, Posting
<1>11. Slot(readIndexM + Used) = Slot(writeIndexM)
  BY <1>2, LastSlot DEF Used
<1>12. slots[Slot(readIndexM + Used)] = theJob[t]
  BY <1>3, <1>11
<1>13. \A i \in 1 .. Used + 1 : slots[Slot(readIndexM + (i - 1))] \in Jobs
  <2> SUFFICES ASSUME NEW i \in 1 .. Used + 1
               PROVE  slots[Slot(readIndexM + (i - 1))] \in Jobs
    OBVIOUS
  <2>1. i \in 1 .. Used \/ i - 1 = Used
    BY <1>2
  <2> QED
    BY <1>10, <1>12, <2>1 DEF Ring, Waiting
<1>14. Waiting'
  BY <1>1, <1>5, <1>13 DEF Waiting, Slot
<1>15. \A u \in Threads : Posting(u)' <=> theJob'[u] \in Jobs
  BY <1>9, JobAssumption DEF Ring, Posting
<1>16. \A u \in Threads : Copied(u)'
  <2> SUFFICES ASSUME NEW u \in Threads, post'[u] = "copied" PROVE FALSE
    BY DEF Copied
  <2>1. u # t /\ post[u] = "copied"
    BY <1>9
  <2> QED
    BY <1>1, <2>1 DEF MutexHeld, Posting
<1>17. ~queueEmpty'
  <2>1. Used' # 0
    BY <1>2, <1>5
  <2>2. readIndexM' \in 0 .. Modulus - 1
    BY <1>1, <1>2
  <2>3. (writeIndexM' - readIndexM') % Modulus = 0 <=> writeIndexM' = readIndexM'
    BY <1>5, <2>2, IndexFromUsed
  <2> QED
    BY <2>1, <2>3 DEF Used, queueEmpty
<1> QED
  BY <1>1, <1>3, <1>5, <1>8, <1>10, <1>12, <1>14, <1>15, <1>16, <1>17
     DEF Ring, Slot

\* A full ring is left as it is.
LEMMA PostFullRing ==
  ASSUME TypeOK, MutexHeld, Ring, NEW t \in Threads, PostFull(t)
  PROVE  TypeOK' /\ Ring'
<1>1. /\ post[t] = "locked"
      /\ post' = [post EXCEPT ![t] = "put"]
      /\ theJob' = [theJob EXCEPT ![t] = NoJob]
      /\ UNCHANGED <<slots, readIndexM, writeIndexM, job, pc>>
  BY DEF PostFull, Unlock, PostKeeps
<1>2. TypeOK'
  BY DEF TypeOK, PostFull, Unlock, PostKeeps, stopVars, timerVars, Used
<1>3. /\ post'[t] = "put" /\ theJob'[t] = NoJob
      /\ \A u \in Threads \ {t} : post'[u] = post[u] /\ theJob'[u] = theJob[u]
  BY <1>1 DEF TypeOK
<1>4. Waiting' /\ (queueEmpty' <=> queueEmpty)
  BY <1>1 DEF Ring, Waiting, Used, Slot, queueEmpty
<1>5. \A u \in Threads : Posting(u)' <=> theJob'[u] \in Jobs
  BY <1>3, JobAssumption DEF Ring, Posting
<1>6. \A u \in Threads : Copied(u)'
  BY <1>1, <1>3 DEF Ring, Copied, Used, Slot
<1> QED
  BY <1>1, <1>2, <1>4, <1>5, <1>6 DEF Ring, Slot

\* So it is by the signal after the mutex is released.
LEMMA PostSignalRing ==
  ASSUME TypeOK, MutexHeld, Ring, NEW t \in Threads, PostSignal(t)
  PROVE  TypeOK' /\ Ring'
<1>1. /\ post[t] = "put"
      /\ post' = [post EXCEPT ![t] = "idle"]
      /\ UNCHANGED <<slots, readIndexM, writeIndexM, job, pc, theJob>>
  BY DEF PostSignal, PostKeeps
<1>2. waiting' \in BOOLEAN
  <2>1. waiting' = FALSE \/ waiting' = waiting
    BY DEF PostSignal, Signal
  <2>2. waiting \in BOOLEAN
    BY DEF TypeOK
  <2> QED
    BY ONLY <2>1, <2>2
<1>3. wasEmpty' \in [Threads -> BOOLEAN]
  BY DEF TypeOK, PostSignal
<1>4. TypeOK'
  BY <1>2, <1>3 DEF TypeOK, PostSignal, PostKeeps, stopVars, timerVars, Used
<1>5. /\ post'[t] = "idle"
      /\ \A u \in Threads \ {t} : post'[u] = post[u]
  BY <1>1 DEF TypeOK
<1>6. Waiting' /\ (queueEmpty' <=> queueEmpty)
  BY <1>1 DEF Ring, Waiting, Used, Slot, queueEmpty
<1>7. \A u \in Threads : Posting(u)' <=> theJob'[u] \in Jobs
  BY <1>1, <1>5 DEF Ring, Posting
<1>8. \A u \in Threads : Copied(u)'
  BY <1>1, <1>5 DEF Ring, Copied, Used, Slot
<1> QED
  BY <1>1, <1>4, <1>6, <1>7, <1>8 DEF Ring, Slot

\* The time of the first timer is a number.
LEMMA BaseTimeType ==
  ASSUME TypeOK
  PROVE  BaseTime \in Nat
  BY DEF TypeOK, BaseTime

\* The worker copies the first job out.
LEMMA TakeJobRing ==
  ASSUME TypeOK, Ring, TakeJob
  PROVE  TypeOK' /\ Ring'
<1>1. /\ ~queueEmpty /\ job' = slots[Slot(readIndexM)] /\ pc' = "taken"
      /\ UNCHANGED <<slots, readIndexM, writeIndexM, post, theJob>>
  BY DEF TakeJob, Goto, WorkerKeeps, postVars
<1>2. readIndexM \in 0 .. Modulus - 1 /\ writeIndexM \in 0 .. Modulus - 1
  BY DEF TypeOK
<1>3. Used \in Nat /\ Used # 0
  BY <1>1, <1>2, EmptyUsed
<1>4. 1 \in 1 .. Used /\ readIndexM + (1 - 1) = readIndexM
  BY <1>2, <1>3
<1>5. job' \in Jobs
  BY <1>1, <1>4 DEF Ring, Waiting
<1>6. TypeOK'
  BY <1>1, <1>5 DEF TypeOK, TakeJob, WorkerKeeps, postVars, stopVars, timerVars, Used
<1>7. Waiting' /\ (queueEmpty' <=> queueEmpty)
  BY <1>1 DEF Ring, Waiting, Used, Slot, queueEmpty
<1>8. \A t \in Threads : Copied(t)' /\ (Posting(t)' <=> theJob'[t] \in Jobs)
  BY <1>1 DEF Ring, Posting, Copied, Used, Slot
<1> QED
  BY <1>1, <1>5, <1>6, <1>7, <1>8 DEF Ring, Slot

\* Moving the read index drops the first job, which is the one copied out.
LEMMA FreeSlotRing ==
  ASSUME TypeOK, Ring, FreeSlot
  PROVE  /\ TypeOK' /\ Ring' /\ Used > 0 /\ Used' = Used - 1
         /\ job \in Jobs /\ slots[Slot(readIndexM)] = job
         /\ \A i \in Nat : Slot(readIndexM' + i) = Slot(readIndexM + 1 + i)
<1>1. /\ pc = "taken" /\ pc' = "job" /\ readIndexM' = (readIndexM + 1) % Modulus
      /\ UNCHANGED <<slots, writeIndexM, job, post, theJob>>
  BY DEF FreeSlot, Goto, WorkerKeeps, postVars
<1>2. /\ readIndexM \in 0 .. Modulus - 1 /\ writeIndexM \in 0 .. Modulus - 1
      /\ Used \in Nat /\ Used <= Capacity /\ Capacity \in Nat
  BY EmptyUsed, QueueAssumption DEF TypeOK
<1>3. writeIndexM # readIndexM /\ job = slots[Slot(readIndexM)] /\ job \in Jobs
  BY <1>1 DEF Ring, queueEmpty
<1>4. /\ ((readIndexM + 1) % Modulus) \in 0 .. Modulus - 1
      /\ ((writeIndexM - readIndexM) % Modulus) > 0
      /\ (writeIndexM - ((readIndexM + 1) % Modulus)) % Modulus
           = ((writeIndexM - readIndexM) % Modulus) - 1
  BY <1>2, <1>3, UsedDown
<1>5. readIndexM' \in 0 .. Modulus - 1 /\ Used > 0 /\ Used' = Used - 1
  BY <1>1, <1>4 DEF Used
<1>6. Used' <= Capacity /\ Used' < Capacity
  BY <1>2, <1>5
<1>7. TypeOK'
  BY <1>1, <1>5, <1>6 DEF TypeOK, FreeSlot, WorkerKeeps, postVars, stopVars, timerVars
<1>8. \A i \in Nat : Slot(((readIndexM + 1) % Modulus) + i) = Slot(readIndexM + 1 + i)
  BY <1>2, NextSlot
<1>9. \A i \in Nat : Slot(readIndexM' + i) = Slot(readIndexM + 1 + i)
  BY <1>1, <1>8
<1>10. ASSUME NEW i \in 1 .. Used - 1
       PROVE  slots[Slot(readIndexM' + (i - 1))] \in Jobs
  <2>1. /\ i - 1 \in Nat /\ i + 1 \in 1 .. Used
        /\ readIndexM + 1 + (i - 1) = readIndexM + ((i + 1) - 1)
    BY <1>2
  <2>2. Slot(readIndexM' + (i - 1)) = Slot(readIndexM + ((i + 1) - 1))
    BY <1>9, <2>1
  <2> QED
    BY <2>1, <2>2 DEF Ring, Waiting
<1>11. Waiting'
  BY <1>1, <1>5, <1>10 DEF Waiting, Slot
<1>12. \A t \in Threads : Copied(t)' /\ (Posting(t)' <=> theJob'[t] \in Jobs)
  BY <1>1, <1>6 DEF Ring, Posting, Copied, Slot
<1> QED
  BY <1>1, <1>3, <1>5, <1>7, <1>9, <1>11, <1>12 DEF Ring

\* Running a job does not touch the ring.
LEMMA EndJobRing ==
  ASSUME TypeOK, Ring, EndJob
  PROVE  TypeOK' /\ Ring'
<1>1. /\ job' = NoJob /\ pc' = "jobs"
      /\ UNCHANGED <<slots, readIndexM, writeIndexM, post, theJob>>
  BY DEF EndJob, Goto, WorkerKeeps, postVars
<1>2. TypeOK'
  BY <1>1 DEF TypeOK, EndJob, WorkerKeeps, postVars, stopVars, timerVars, Used
<1>3. Waiting'
  BY <1>1 DEF Ring, Waiting, Used, Slot
<1>4. \A t \in Threads : Copied(t)' /\ (Posting(t)' <=> theJob'[t] \in Jobs)
  BY <1>1 DEF Ring, Posting, Copied, Used, Slot
<1> QED
  BY <1>1, <1>2, <1>3, <1>4, JobAssumption DEF Ring

\* The steps of run() that leave the ring alone.
LEMMA RunRing ==
  ASSUME TypeOK, Ring, Run
  PROVE  TypeOK' /\ Ring'
<1>0. CASE TakeJob \/ FreeSlot \/ EndJob
  BY <1>0, TakeJobRing, FreeSlotRing, EndJobRing
<1>a. ASSUME ~TakeJob, ~FreeSlot, ~EndJob PROVE TypeOK' /\ Ring'
  <2> SUFFICES Ring' /\ TypeOK'
    OBVIOUS
  <2> USE DEF WorkerKeeps, postVars, stopVars, timerVars, Goto
  <2>0. /\ UNCHANGED <<slots, readIndexM, writeIndexM, job, post, theJob, wasEmpty,
                       isToStopM, stopper, clock>>
        /\ pc \notin {"taken", "job"} /\ pc' \notin {"taken", "job"}
    BY <1>a DEF Run, LoopTest, NoMoreJobs, FireTimer, EndCallback,
           NoDueTimer, ChooseWait, TimedWait, TimedWaitEnds, LockForWait,
           TestWait, EnterWait, WaitEnds
  <2>1. Ring'
    BY <2>0, RingKept
  <2>2. Used' = Used
    BY <2>0 DEF Used
  <2>3. CASE LoopTest
    BY <2>0, <2>1, <2>2, <2>3 DEF TypeOK, LoopTest
  <2>4. CASE NoMoreJobs
    BY <2>0, <2>1, <2>2, <2>4 DEF TypeOK, NoMoreJobs
  <2>5. CASE FireTimer
    BY <2>0, <2>1, <2>2, <2>5 DEF TypeOK, FireTimer
  <2>6. CASE EndCallback
    <3>1. BaseTime \in Nat
      BY BaseTimeType
    <3>2. [id |-> ReactorTimer, due |-> BaseTime + 1] \in [id : Nat, due : Nat]
      BY <3>1 DEF ReactorTimer
    <3>3. timers' \subseteq [id : Nat, due : Nat] /\ timeNowM' \in Nat
      BY <2>6, <3>1, <3>2 DEF TypeOK, EndCallback
    <3>4. waiting' \in BOOLEAN
      <4>1. waiting' = FALSE \/ waiting' = waiting
        BY <2>6 DEF EndCallback, Signal
      <4>2. waiting \in BOOLEAN
        BY DEF TypeOK
      <4> QED
        BY ONLY <4>1, <4>2
    <3> QED
      BY <2>0, <2>1, <2>2, <2>6, <3>3, <3>4 DEF TypeOK, EndCallback
  <2>7. CASE NoDueTimer
    BY <2>0, <2>1, <2>2, <2>7 DEF TypeOK, NoDueTimer
  <2>8. CASE ChooseWait
    BY <2>0, <2>1, <2>2, <2>8 DEF TypeOK, ChooseWait
  <2>9. CASE TimedWait
    BY <2>0, <2>1, <2>2, <2>9 DEF TypeOK, TimedWait
  <2>10. CASE TimedWaitEnds
    BY <2>0, <2>1, <2>2, <2>10 DEF TypeOK, TimedWaitEnds
  <2>11. CASE LockForWait
    BY <2>0, <2>1, <2>2, <2>11 DEF TypeOK, LockForWait, Threads
  <2>12. CASE TestWait
    BY <2>0, <2>1, <2>2, <2>12 DEF TypeOK, TestWait
  <2>13. CASE EnterWait
    BY <2>0, <2>1, <2>2, <2>13 DEF TypeOK, EnterWait
  <2>14. CASE WaitEnds
    BY <2>0, <2>1, <2>2, <2>14 DEF TypeOK, WaitEnds, Threads
  <2> QED
    BY <1>a, <2>1, <2>3, <2>4, <2>5, <2>6, <2>7, <2>8, <2>9, <2>10, <2>11,
       <2>12, <2>13, <2>14 DEF Run
<1> QED
  BY <1>0, <1>a

\* The steps outside process() and run().
LEMMA OtherRing ==
  ASSUME TypeOK, Ring,
         AddLocalTimer \/ CancelLocalTimer \/ SpuriousWake \/ Stop \/ Tick
  PROVE  TypeOK' /\ Ring'
<1> USE DEF WorkerKeeps, postVars, queueVars, stopVars, timerVars
<1>0. UNCHANGED <<slots, readIndexM, writeIndexM, job, post, theJob, pc, wasEmpty, lock>>
  BY DEF AddLocalTimer, CancelLocalTimer, SpuriousWake, Stop, StopSet,
         StopSignal, StopJoin, Tick
<1>1. Ring' /\ Used' = Used
  BY <1>0, RingKept DEF Used
<1>2. CASE AddLocalTimer
  <2>1. PICK id \in TimerIds, interval \in Intervals :
          timers' = timers \cup {[id |-> id, due |-> BaseTime + interval]}
    BY <1>2 DEF AddLocalTimer
  <2>2. BaseTime \in Nat /\ interval \in Nat /\ id \in Nat
    BY BaseTimeType, TimerAssumption
  <2>3. timers' \subseteq [id : Nat, due : Nat]
    BY <2>1, <2>2 DEF TypeOK
  <2>4. waiting' \in BOOLEAN
    <3>1. waiting' = FALSE \/ waiting' = waiting
      BY <1>2 DEF AddLocalTimer, Signal
    <3>2. waiting \in BOOLEAN
      BY DEF TypeOK
    <3> QED
      BY ONLY <3>1, <3>2
  <2> QED
    BY <1>0, <1>1, <1>2, <2>2, <2>3, <2>4 DEF TypeOK, AddLocalTimer
<1>3. CASE CancelLocalTimer
  BY <1>0, <1>1, <1>3 DEF TypeOK, CancelLocalTimer
<1>4. CASE SpuriousWake
  BY <1>0, <1>1, <1>4 DEF TypeOK, SpuriousWake
<1>5. CASE Stop
  BY <1>0, <1>1, <1>5 DEF TypeOK, Stop, StopSet, StopSignal, StopJoin, Signal
<1>6. CASE Tick
  BY <1>0, <1>1, <1>6 DEF TypeOK, Tick
<1> QED
  BY <1>2, <1>3, <1>4, <1>5, <1>6

-----------------------------------------------------------------------------
(* The inductive step.                                                     *)

\* A pending signal survives every step but the one that gives it.
LEMMA PendingKept ==
  ASSUME NEW t \in Threads, post[t] # "put", SignalPending,
         \A u \in Threads \ {t} : post'[u] = post[u] /\ wasEmpty'[u] = wasEmpty[u]
  PROVE  SignalPending'
  BY DEF SignalPending

\* A posting thread takes the mutex.
LEMMA PostLockInv ==
  ASSUME IndInv, NEW t \in Threads, PostLock(t)
  PROVE  IndInv'
<1>1. TypeOK' /\ Ring'
  BY PostLockRing DEF IndInv
<1>2. /\ post[t] = "idle" /\ lock = NoThread /\ lock' = t
      /\ post' = [post EXCEPT ![t] = "locked"]
      /\ wasEmpty' = [wasEmpty EXCEPT ![t] = queueEmpty]
      /\ pc' = pc /\ waiting' = waiting /\ timers' = timers
      /\ writeIndexM' = writeIndexM /\ readIndexM' = readIndexM
      /\ t = Worker => pc \in {"job", "callback"}
  BY DEF PostLock, PostKeeps, timerVars, MayPost
<1>3. /\ post'[t] = "locked" /\ wasEmpty'[t] = queueEmpty
      /\ \A u \in Threads \ {t} :
           post'[u] = post[u] /\ wasEmpty'[u] = wasEmpty[u]
  BY <1>2 DEF IndInv, TypeOK
<1>4. NoThread \notin Threads /\ Worker \in Threads
  BY ThreadAssumption DEF Threads
<1>5. MutexHeld'
  BY <1>2, <1>3, <1>4 DEF IndInv, MutexHeld, Posting
<1>6. WorkerPostsFromJobs'
  BY <1>2, <1>3, <1>4 DEF IndInv, WorkerPostsFromJobs
<1>7. ReadyToSleep' /\ WaitsInWait'
  BY <1>2 DEF IndInv, ReadyToSleep, WaitsInWait, heapEmpty, queueEmpty
<1>8. SignalPending => SignalPending'
  BY <1>2, <1>3, PendingKept
<1>9. SleepsOnlyWhenIdle'
  BY <1>2, <1>8 DEF IndInv, SleepsOnlyWhenIdle, heapEmpty, queueEmpty
<1>10. PutWillSignal'
  BY <1>2, <1>3, <1>8 DEF IndInv, PutWillSignal, SleepsOnlyWhenIdle, Posting
<1> QED
  BY <1>1, <1>5, <1>6, <1>7, <1>9, <1>10 DEF IndInv

\* It copies its job, with the mutex held.
LEMMA PostCopyInv ==
  ASSUME IndInv, NEW t \in Threads, PostCopy(t)
  PROVE  IndInv'
<1>1. TypeOK' /\ Ring'
  BY PostCopyRing DEF IndInv
<1>2. /\ post[t] = "locked" /\ lock' = lock
      /\ post' = [post EXCEPT ![t] = "copied"] /\ wasEmpty' = wasEmpty
      /\ pc' = pc /\ waiting' = waiting /\ timers' = timers
      /\ writeIndexM' = writeIndexM /\ readIndexM' = readIndexM
  BY DEF PostCopy, PostKeeps, timerVars
<1>3. /\ post'[t] = "copied"
      /\ \A u \in Threads \ {t} : post'[u] = post[u]
  BY <1>2 DEF IndInv, TypeOK
<1>4. \A u \in Threads : Posting(u)' <=> Posting(u)
  BY <1>2, <1>3 DEF Posting
<1>5. MutexHeld'
  BY <1>2, <1>4 DEF IndInv, MutexHeld
<1>6. WorkerPostsFromJobs'
  BY <1>2, <1>3 DEF IndInv, WorkerPostsFromJobs
<1>7. ReadyToSleep' /\ WaitsInWait'
  BY <1>2 DEF IndInv, ReadyToSleep, WaitsInWait, heapEmpty, queueEmpty
<1>8. SignalPending => SignalPending'
  BY <1>2, <1>3, PendingKept
<1>9. SleepsOnlyWhenIdle' /\ PutWillSignal'
  BY <1>2, <1>4, <1>8
     DEF IndInv, SleepsOnlyWhenIdle, PutWillSignal, heapEmpty, queueEmpty
<1> QED
  BY <1>1, <1>5, <1>6, <1>7, <1>9 DEF IndInv

\* The step that ends the lock, with or without the job.
LEMMA UnlockInv ==
  ASSUME IndInv, NEW t \in Threads, Posting(t), Unlock(t), TypeOK', Ring',
         UNCHANGED <<pc, timers, readIndexM>>
  PROVE  IndInv'
<1>2. /\ lock' = NoThread /\ lock = t /\ post[t] \in {"locked", "copied"}
      /\ post' = [post EXCEPT ![t] = "put"] /\ wasEmpty' = wasEmpty
      /\ pc' = pc /\ waiting' = waiting /\ timers' = timers
  BY DEF Unlock, IndInv, MutexHeld, Posting
<1>3. /\ post'[t] = "put"
      /\ \A u \in Threads \ {t} : post'[u] = post[u]
  BY <1>2 DEF IndInv, TypeOK
<1>4. NoThread \notin Threads /\ Worker \in Threads
  BY ThreadAssumption DEF Threads
<1>5. pc \notin {"test", "enterWait"}
  BY <1>2, <1>4 DEF IndInv, MutexHeld, WorkerPostsFromJobs
<1>6. \A u \in Threads : ~Posting(u)'
  BY <1>2, <1>3 DEF IndInv, MutexHeld, Posting
<1>7. MutexHeld' /\ WorkerPostsFromJobs'
  BY <1>2, <1>3, <1>4, <1>5, <1>6 DEF IndInv, MutexHeld, WorkerPostsFromJobs
<1>8. ReadyToSleep' /\ WaitsInWait'
  BY <1>2, <1>5 DEF IndInv, ReadyToSleep, WaitsInWait
<1>9. SignalPending => SignalPending'
  BY <1>2, <1>3, PendingKept
<1>10. wasEmpty[t] => SignalPending'
  BY <1>2, <1>3 DEF SignalPending
<1>11. pc = "wait" /\ waiting => SignalPending'
  BY <1>2, <1>9, <1>10 DEF IndInv, PutWillSignal
<1>12. SleepsOnlyWhenIdle' /\ PutWillSignal'
  BY <1>2, <1>11 DEF IndInv, SleepsOnlyWhenIdle, PutWillSignal, heapEmpty
<1> QED
  BY <1>7, <1>8, <1>12 DEF IndInv

\* It signals the worker, with the mutex released.
LEMMA PostSignalInv ==
  ASSUME IndInv, NEW t \in Threads, PostSignal(t)
  PROVE  IndInv'
<1>1. TypeOK' /\ Ring'
  BY PostSignalRing DEF IndInv
<1>2. /\ post[t] = "put" /\ lock' = lock
      /\ post' = [post EXCEPT ![t] = "idle"]
      /\ wasEmpty' = [wasEmpty EXCEPT ![t] = FALSE]
      /\ pc' = pc /\ timers' = timers
      /\ waiting' = (IF wasEmpty[t] THEN FALSE ELSE waiting)
      /\ writeIndexM' = writeIndexM /\ readIndexM' = readIndexM
  BY DEF PostSignal, PostKeeps, timerVars, Signal
<1>3. /\ post'[t] = "idle"
      /\ \A u \in Threads \ {t} : post'[u] = post[u] /\ wasEmpty'[u] = wasEmpty[u]
  BY <1>2 DEF IndInv, TypeOK
<1>4. MutexHeld' /\ WorkerPostsFromJobs'
  BY <1>2, <1>3 DEF IndInv, MutexHeld, WorkerPostsFromJobs, Posting
<1>5. ReadyToSleep' /\ WaitsInWait'
  BY <1>2 DEF IndInv, ReadyToSleep, WaitsInWait, heapEmpty, queueEmpty
<1>6. waiting' => waiting /\ ~wasEmpty[t]
  BY <1>2
<1>7. waiting' /\ SignalPending => SignalPending'
  BY <1>2, <1>3, <1>6 DEF SignalPending
<1>8. SleepsOnlyWhenIdle'
  BY <1>2, <1>6, <1>7 DEF IndInv, SleepsOnlyWhenIdle, heapEmpty, queueEmpty
<1>9. PutWillSignal'
  BY <1>2, <1>3, <1>6, <1>7 DEF IndInv, PutWillSignal, Posting
<1> QED
  BY <1>1, <1>4, <1>5, <1>8, <1>9 DEF IndInv

\* So every step of process() keeps the invariant.
LEMMA ProcessInv ==
  ASSUME IndInv, NEW t \in Threads, Process(t)
  PROVE  IndInv'
<1>1. CASE PostPut(t)
  <2>1. TypeOK' /\ Ring'
    BY <1>1, PostPutRing DEF IndInv
  <2>2. Posting(t) /\ Unlock(t) /\ UNCHANGED <<pc, timers, readIndexM>>
    BY <1>1 DEF PostPut, Posting, PostKeeps, timerVars
  <2> QED
    BY <2>1, <2>2, UnlockInv
<1>2. CASE PostFull(t)
  <2>1. TypeOK' /\ Ring'
    BY <1>2, PostFullRing DEF IndInv
  <2>2. Posting(t) /\ Unlock(t) /\ UNCHANGED <<pc, timers, readIndexM>>
    BY <1>2 DEF PostFull, Posting, PostKeeps, timerVars
  <2> QED
    BY <2>1, <2>2, UnlockInv
<1> QED
  BY <1>1, <1>2, PostLockInv, PostCopyInv, PostSignalInv DEF Process, Put

\* A step of the worker in run().
LEMMA RunInv ==
  ASSUME IndInv, Run
  PROVE  IndInv'
<1> USE DEF WorkerKeeps, postVars, stopVars, timerVars, Goto
<1>1. TypeOK' /\ Ring'
  BY RunRing DEF IndInv
<1>2. post' = post /\ wasEmpty' = wasEmpty /\ writeIndexM' = writeIndexM
  BY DEF Run, LoopTest, TakeJob, FreeSlot, NoMoreJobs, EndJob, FireTimer,
         EndCallback, NoDueTimer, ChooseWait, TimedWait, TimedWaitEnds,
         LockForWait, TestWait, EnterWait, WaitEnds
<1>3. /\ NoThread \notin Threads /\ Worker \in Threads
      /\ pc \notin {"job", "callback"} => post[Worker] = "idle"
  BY ThreadAssumption DEF Threads, IndInv, WorkerPostsFromJobs
<1>0. \A t \in Threads : Posting(t)' <=> Posting(t)
  BY <1>2 DEF Posting
<1> DEFINE Elsewhere == pc' \notin {"test", "enterWait", "wait", "timedWait"}
<1>4. ASSUME Elsewhere, post[Worker] = "idle", lock' = lock,
             waiting' = FALSE
      PROVE  IndInv'
  BY <1>0, <1>1, <1>2, <1>3, <1>4
     DEF IndInv, MutexHeld, WorkerPostsFromJobs, ReadyToSleep, WaitsInWait,
         PutWillSignal, SleepsOnlyWhenIdle
<1>5. pc \notin {"wait", "timedWait"} => waiting = FALSE
  BY DEF IndInv, WaitsInWait, TypeOK
<1>6. CASE LoopTest \/ TakeJob \/ FreeSlot \/ NoMoreJobs \/ NoDueTimer \/ ChooseWait
  BY <1>3, <1>4, <1>5, <1>6
     DEF LoopTest, TakeJob, FreeSlot, NoMoreJobs, NoDueTimer, ChooseWait
<1>7. CASE EndJob \/ FireTimer
  BY <1>3, <1>4, <1>5, <1>7 DEF EndJob, FireTimer
<1>8. CASE EndCallback
  BY <1>3, <1>4, <1>5, <1>8 DEF EndCallback, Signal
<1>9. CASE TimedWaitEnds
  BY <1>3, <1>4, <1>9 DEF TimedWaitEnds
<1>10. CASE TimedWait
  BY <1>0, <1>1, <1>2, <1>3, <1>10
     DEF TimedWait, IndInv, MutexHeld, WorkerPostsFromJobs, ReadyToSleep,
         WaitsInWait, PutWillSignal, SleepsOnlyWhenIdle
<1>11. ASSUME lock = NoThread, lock' = Worker, pc' = "test",
              waiting' = FALSE, post[Worker] = "idle"
       PROVE  IndInv'
  <2>1. \A t \in Threads : ~Posting(t)
    BY <1>3, <1>11 DEF IndInv, MutexHeld
  <2> QED
    BY <1>0, <1>1, <1>2, <1>11, <2>1
       DEF IndInv, MutexHeld, WorkerPostsFromJobs, ReadyToSleep, WaitsInWait,
           PutWillSignal, SleepsOnlyWhenIdle
<1>12. CASE LockForWait
  BY <1>3, <1>5, <1>11, <1>12 DEF LockForWait
<1>13. CASE WaitEnds
  BY <1>3, <1>11, <1>13 DEF WaitEnds, IndInv, TypeOK
<1>14. CASE TestWait
  <2>1. lock = Worker /\ waiting = FALSE /\ waiting' = waiting
        /\ timers' = timers /\ readIndexM' = readIndexM
        /\ post[Worker] = "idle"
    BY <1>3, <1>5, <1>14 DEF TestWait, IndInv, MutexHeld
  <2>2. \A t \in Threads : ~Posting(t)
    BY <1>3, <1>14, <2>1 DEF IndInv, MutexHeld, TestWait, Posting
  <2>3. CASE MustWait
    BY <1>0, <1>1, <1>2, <1>3, <1>14, <2>1, <2>2, <2>3
       DEF TestWait, MustWait, IndInv, MutexHeld, WorkerPostsFromJobs,
           ReadyToSleep, WaitsInWait, PutWillSignal, SleepsOnlyWhenIdle,
           heapEmpty, queueEmpty
  <2>4. CASE ~MustWait
    BY <1>0, <1>1, <1>2, <1>3, <1>14, <2>1, <2>2, <2>4
       DEF TestWait, IndInv, MutexHeld, WorkerPostsFromJobs,
           ReadyToSleep, WaitsInWait, PutWillSignal, SleepsOnlyWhenIdle
  <2> QED
    BY <2>3, <2>4
<1>15. CASE EnterWait
  <2>1. lock = Worker /\ post[Worker] = "idle" /\ heapEmpty /\ queueEmpty
    BY <1>3, <1>15 DEF EnterWait, IndInv, MutexHeld, ReadyToSleep
  <2>2. \A t \in Threads : ~Posting(t)
    BY <2>1 DEF IndInv, MutexHeld, Posting
  <2>3. heapEmpty' /\ queueEmpty'
    BY <1>2, <1>15, <2>1 DEF EnterWait, heapEmpty, queueEmpty
  <2> QED
    BY <1>0, <1>1, <1>2, <1>15, <2>1, <2>2, <2>3
       DEF EnterWait, IndInv, MutexHeld, WorkerPostsFromJobs,
           ReadyToSleep, WaitsInWait, PutWillSignal, SleepsOnlyWhenIdle
<1> QED
  BY <1>6, <1>7, <1>8, <1>9, <1>10, <1>12, <1>13, <1>14, <1>15 DEF Run

\* The steps outside process() and run() that touch neither.
LEMMA OtherInv ==
  ASSUME IndInv,
         AddLocalTimer \/ CancelLocalTimer \/ SpuriousWake \/ Stop \/ Tick
  PROVE  IndInv'
<1> USE DEF WorkerKeeps, postVars, queueVars, stopVars, timerVars, Signal
<1>1. TypeOK' /\ Ring'
  BY OtherRing DEF IndInv
<1>2. /\ post' = post /\ wasEmpty' = wasEmpty /\ lock' = lock /\ pc' = pc
      /\ writeIndexM' = writeIndexM /\ readIndexM' = readIndexM
      /\ waiting' => waiting
  BY DEF AddLocalTimer, CancelLocalTimer, SpuriousWake, Stop, StopSet,
         StopSignal, StopJoin, Tick
<1>3. timers' = timers \/ pc \in {"job", "callback"}
  BY DEF AddLocalTimer, CancelLocalTimer, SpuriousWake, Stop, StopSet,
         StopSignal, StopJoin, Tick
<1> QED
  BY <1>1, <1>2, <1>3
     DEF IndInv, MutexHeld, WorkerPostsFromJobs, ReadyToSleep, WaitsInWait, Posting,
         PutWillSignal, SleepsOnlyWhenIdle, SignalPending, heapEmpty, queueEmpty

\* A step in which nothing changes.
LEMMA StutterInv ==
  ASSUME IndInv, UNCHANGED vars
  PROVE  IndInv'
<1>1. TypeOK'
  BY DEF vars, IndInv, TypeOK, Used
<1>2. Ring'
  BY RingKept DEF vars, IndInv
<1> QED
  BY <1>1, <1>2
     DEF vars, IndInv, MutexHeld, WorkerPostsFromJobs, Posting,
         ReadyToSleep, WaitsInWait, PutWillSignal, SleepsOnlyWhenIdle,
         SignalPending, heapEmpty, queueEmpty

\* Every step of the threads keeps the invariant.
LEMMA NextInv == IndInv /\ [Next]_vars => IndInv'
  BY ProcessInv, RunInv, OtherInv, StutterInv DEF Next

\* The inductive invariant holds of every behaviour.
THEOREM Invariant == Spec => []IndInv
  BY InitInv, NextInv, PTL DEF Spec

\* Every variable keeps its type, and the ring never holds more jobs than fit,
\* although the worker and the posting threads each move their own index and the
\* test of the size is not under a mutex that both hold.
THEOREM TypeCorrect == Spec => []TypeOK
<1>1. IndInv => TypeOK
  BY DEF IndInv
<1> QED
  BY <1>1, Invariant, PTL

\* No wakeup of a job is lost: a worker in an untimed wait has an empty queue
\* or a thread that is about to signal it, for any number of posting threads
\* and whatever the jobs do, and no timer is armed.
THEOREM NeverSleepsOnWork == Spec => []SleepsOnlyWhenIdle
<1>1. IndInv => SleepsOnlyWhenIdle
  BY DEF IndInv
<1> QED
  BY <1>1, Invariant, PTL

-----------------------------------------------------------------------------
(* The queue that the threads see.                                         *)

Running == IF pc = "taken" THEN NoJob ELSE job

\* The waiting jobs are a sequence of jobs as long as the indices are apart.
LEMMA QueuedJobs ==
  ASSUME TypeOK, Ring
  PROVE  /\ Used \in Nat /\ Queued \in Seq(Jobs) /\ Len(Queued) = Used
         /\ \A i \in 1 .. Used : Queued[i] = slots[Slot(readIndexM + (i - 1))]
<1>1. Used \in Nat
  BY EmptyUsed DEF TypeOK
<1>2. \A i \in 1 .. Used : slots[Slot(readIndexM + (i - 1))] \in Jobs
  BY DEF Ring, Waiting
<1>3. Queued \in [1 .. Used -> Jobs]
  BY <1>2 DEF Queued
<1> QED
  BY <1>1, <1>3 DEF Queued

\* A step that leaves the ring and the posted jobs alone is a stutter.
LEMMA QueuedKept ==
  ASSUME UNCHANGED <<slots, readIndexM, writeIndexM>>
  PROVE  Queued' = Queued
  BY DEF Queued, Used, Slot

\* The pointer that is copied into the ring is not yet in the queue.
LEMMA CopyHidden ==
  ASSUME TypeOK, Ring, NEW t \in Threads, PostCopy(t)
  PROVE  Queued' = Queued
<1>1. /\ Used < Capacity
      /\ slots' = [slots EXCEPT ![Slot(writeIndexM)] = theJob[t]]
      /\ UNCHANGED <<readIndexM, writeIndexM>>
  BY DEF PostCopy, PostKeeps
<1>2. readIndexM \in 0 .. Modulus - 1 /\ writeIndexM \in 0 .. Modulus - 1
  BY DEF TypeOK
<1>3. Used \in Nat /\ Used' = Used
  BY <1>1, <1>2, EmptyUsed DEF Used
<1>4. ASSUME NEW i \in 1 .. Used
      PROVE  slots'[Slot(readIndexM + (i - 1))] = slots[Slot(readIndexM + (i - 1))]
  <2>1. Slot(readIndexM + (i - 1)) # Slot(writeIndexM)
    BY <1>1, <1>2, FreshSlot DEF Used
  <2>2. readIndexM + (i - 1) \in Int
    BY <1>2, <1>3
  <2>3. Slot(readIndexM + (i - 1)) \in 0 .. Capacity - 1
    BY <2>2, SlotRange
  <2> QED
    BY <1>1, <2>1, <2>3 DEF TypeOK
<1>5. Queued' = [i \in 1 .. Used |-> slots'[Slot(readIndexM + (i - 1))]]
  BY <1>1, <1>3 DEF Queued, Slot
<1> QED
  BY <1>4, <1>5 DEF Queued

\* A job that is put goes to the end of the queue.
LEMMA PutAppends ==
  ASSUME TypeOK, MutexHeld, Ring, NEW t \in Threads, PostPut(t)
  PROVE  Queued' = Append(Queued, theJob[t]) /\ Len(Queued) < Capacity
<1>1. /\ TypeOK' /\ Ring' /\ Used < Capacity /\ Used' = Used + 1
      /\ theJob[t] \in Jobs /\ slots'[Slot(readIndexM' + Used)] = theJob[t]
  BY PostPutRing
<1>2. /\ Used \in Nat /\ Queued \in Seq(Jobs) /\ Len(Queued) = Used
      /\ \A i \in 1 .. Used : Queued[i] = slots[Slot(readIndexM + (i - 1))]
  BY QueuedJobs
<1>3. UNCHANGED <<slots, readIndexM>>
  BY DEF PostPut, PostKeeps
<1>4. Queued' = [i \in 1 .. Used + 1 |-> slots[Slot(readIndexM + (i - 1))]]
  BY <1>1, <1>3 DEF Queued, Slot
<1>5. Append(Queued, theJob[t])
        = [i \in 1 .. Used + 1 |-> IF i = Used + 1 THEN theJob[t] ELSE Queued[i]]
  BY <1>1, <1>2
<1>6. ASSUME NEW i \in 1 .. Used + 1
      PROVE  slots[Slot(readIndexM + (i - 1))]
               = IF i = Used + 1 THEN theJob[t] ELSE Queued[i]
  <2>1. CASE i = Used + 1
    <3>1. i - 1 = Used
      BY <1>2, <2>1
    <3> QED
      BY <1>1, <1>3, <2>1, <3>1 DEF Slot
  <2>2. CASE i # Used + 1
    <3>1. i \in 1 .. Used
      BY <1>2, <2>2
    <3> QED
      BY <1>2, <2>2, <3>1
  <2> QED
    BY <2>1, <2>2
<1> QED
  BY <1>1, <1>2, <1>4, <1>5, <1>6

\* What Tail is.
LEMMA TailIs ==
  ASSUME NEW S, NEW s \in Seq(S), s # <<>>
  PROVE  Tail(s) = [i \in 1 .. Len(s) - 1 |-> s[i + 1]]
<1>1. /\ Tail(s) \in Seq(S) /\ Len(Tail(s)) = Len(s) - 1
      /\ \A i \in 1 .. Len(s) - 1 : Tail(s)[i] = s[i + 1]
  OBVIOUS
<1>2. ASSUME NEW q \in Seq(S)
      PROVE  q = [i \in 1 .. Len(q) |-> q[i]]
  OBVIOUS
<1>3. Tail(s) = [i \in 1 .. Len(s) - 1 |-> Tail(s)[i]]
  BY <1>1, <1>2
<1> QED
  BY <1>1, <1>3

\* The place given back was that of the first job.
LEMMA FreeTails ==
  ASSUME TypeOK, Ring, FreeSlot
  PROVE  Queued # <<>> /\ Head(Queued) = job /\ Queued' = Tail(Queued)
<1>1. /\ Used > 0 /\ Used' = Used - 1
      /\ job \in Jobs /\ slots[Slot(readIndexM)] = job
      /\ \A i \in Nat : Slot(readIndexM' + i) = Slot(readIndexM + 1 + i)
  BY FreeSlotRing
<1>2. /\ Used \in Nat /\ Queued \in Seq(Jobs) /\ Len(Queued) = Used
      /\ \A i \in 1 .. Used : Queued[i] = slots[Slot(readIndexM + (i - 1))]
  BY QueuedJobs
<1>3. slots' = slots /\ readIndexM \in Int
  BY DEF FreeSlot, WorkerKeeps, TypeOK
<1>4. Queued' = [i \in 1 .. Used - 1 |-> slots[Slot(readIndexM' + (i - 1))]]
  BY <1>1, <1>3 DEF Queued, Slot
<1>5. Queued # <<>> /\ Head(Queued) = Queued[1]
  BY <1>1, <1>2
<1>6. Queued[1] = job
  <2>1. 1 \in 1 .. Used /\ readIndexM + (1 - 1) = readIndexM
    BY <1>1, <1>2, <1>3
  <2> QED
    BY <1>1, <1>2, <2>1
<1>7. Tail(Queued) = [i \in 1 .. Used - 1 |-> Queued[i + 1]]
  <2>1. Tail(Queued) = [i \in 1 .. Len(Queued) - 1 |-> Queued[i + 1]]
    BY <1>2, <1>5, TailIs
  <2> QED
    BY <1>2, <2>1
<1>8. ASSUME NEW i \in 1 .. Used - 1
      PROVE  slots[Slot(readIndexM' + (i - 1))] = Queued[i + 1]
  <2>1. /\ i - 1 \in Nat /\ i + 1 \in 1 .. Used
        /\ readIndexM + 1 + (i - 1) = readIndexM + ((i + 1) - 1)
    BY <1>2, <1>3
  <2>2. Slot(readIndexM' + (i - 1)) = Slot(readIndexM + ((i + 1) - 1))
    BY <1>1, <2>1
  <2> QED
    BY <1>2, <2>1, <2>2
<1> QED
  BY <1>4, <1>5, <1>6, <1>7, <1>8

\* A call of process is a call, an acceptance or a refusal of the queue, or changes
\* nothing that its callers see.
LEMMA ProcessRefines ==
  ASSUME TypeOK, MutexHeld, Ring, NEW t \in Threads, Process(t)
  PROVE  Abstract!Next \/ UNCHANGED <<Queued, theJob, Running>>
<1>1. UNCHANGED <<pc, job, readIndexM>>
  BY DEF Process, Put, PostLock, PostCopy, PostPut, PostFull, PostSignal, PostKeeps
<1>2. Running' = Running
  BY <1>1 DEF Running
<1>3. CASE PostLock(t)
  <2>1. theJob[t] = NoJob
    <3>1. theJob[t] \notin Jobs /\ theJob[t] \in Jobs \cup {NoJob}
      BY <1>3 DEF TypeOK, Ring, Posting, PostLock
    <3> QED
      BY <3>1
  <2>2. \E some \in Jobs : theJob' = [theJob EXCEPT ![t] = some]
    BY <1>3 DEF PostLock
  <2>3. Queued' = Queued
    BY <1>1, <1>3, QueuedKept DEF PostLock
  <2>4. Abstract!Call(t)
    BY <1>2, <2>1, <2>2, <2>3 DEF Abstract!Call, Running
  <2> QED
    BY <2>4 DEF Abstract!Next
<1>4. CASE PostCopy(t)
  BY <1>2, <1>4, CopyHidden DEF PostCopy
<1>5. CASE PostPut(t)
  <2>1. Queued' = Append(Queued, theJob[t]) /\ Len(Queued) < Capacity
    BY <1>5, PutAppends
  <2>2. theJob[t] # NoJob
    BY <1>5, PostPutRing, JobAssumption
  <2>3. theJob' = [theJob EXCEPT ![t] = NoJob]
    BY <1>5 DEF PostPut, Unlock
  <2>4. Abstract!Accept(t)
    BY <1>2, <2>1, <2>2, <2>3 DEF Abstract!Accept, Abstract!Posted, Running
  <2> QED
    BY <2>4 DEF Abstract!Next
<1>6. CASE PostFull(t)
  <2>1. Queued' = Queued
    BY <1>1, <1>6, QueuedKept DEF PostFull
  <2>2. theJob[t] # NoJob
    BY <1>6, JobAssumption DEF PostFull, Ring, Posting
  <2>3. theJob' = [theJob EXCEPT ![t] = NoJob]
    BY <1>6 DEF PostFull, Unlock
  <2>4. Len(Queued) = Capacity
    <3>1. Used \in Nat /\ Len(Queued) = Used
      BY QueuedJobs
    <3>2. Used >= Capacity /\ Used <= Capacity /\ Capacity \in Nat
      BY <1>6, QueueAssumption DEF PostFull, TypeOK
    <3> QED
      BY <3>1, <3>2
  <2>5. Abstract!Refuse(t)
    BY <1>2, <2>1, <2>2, <2>3, <2>4 DEF Abstract!Refuse, Abstract!Posted, Running
  <2> QED
    BY <2>5 DEF Abstract!Next
<1>7. CASE PostSignal(t)
  BY <1>1, <1>2, <1>7, QueuedKept DEF PostSignal
<1> QED
  BY <1>3, <1>4, <1>5, <1>6, <1>7 DEF Process, Put

\* A step of the worker starts the first job, ends the running one or changes
\* nothing that the callers of process see.
LEMMA RunRefines ==
  ASSUME TypeOK, Ring, Run
  PROVE  Abstract!Next \/ UNCHANGED <<Queued, theJob, Running>>
<1> USE DEF WorkerKeeps, postVars, timerVars, Goto
<1>1. theJob' = theJob
  BY DEF Run, LoopTest, TakeJob, FreeSlot, NoMoreJobs, EndJob, FireTimer,
         EndCallback, NoDueTimer, ChooseWait, TimedWait, TimedWaitEnds,
         LockForWait, TestWait, EnterWait, WaitEnds
<1>2. pc \notin {"taken", "job"} => job = NoJob
  BY DEF TypeOK, Ring
<1>3. CASE TakeJob
  <2>1. Running' = NoJob /\ Running = NoJob
    BY <1>2, <1>3 DEF TakeJob, Running
  <2>2. Queued' = Queued
    BY <1>3, QueuedKept DEF TakeJob
  <2> QED
    BY <1>1, <2>1, <2>2
<1>4. CASE FreeSlot
  <2>1. Queued # <<>> /\ Head(Queued) = job /\ Queued' = Tail(Queued)
    BY <1>4, FreeTails
  <2>2. Running = NoJob /\ Running' = job
    BY <1>4 DEF FreeSlot, Running
  <2>3. Abstract!Start
    BY <1>1, <2>1, <2>2 DEF Abstract!Start, Running
  <2> QED
    BY <2>3 DEF Abstract!Next
<1>5. CASE EndJob
  <2>1. Running \in Jobs /\ Running' = NoJob
    BY <1>5 DEF EndJob, Running, Ring
  <2>2. Queued' = Queued
    BY <1>5, QueuedKept DEF EndJob
  <2>3. Abstract!Finish
    BY <1>1, <2>1, <2>2, JobAssumption DEF Abstract!Finish, Running
  <2> QED
    BY <2>3 DEF Abstract!Next
<1>6. ASSUME ~TakeJob, ~FreeSlot, ~EndJob
      PROVE  UNCHANGED <<Queued, theJob, Running>>
  <2>1. /\ UNCHANGED <<slots, readIndexM, writeIndexM, job>>
        /\ pc # "taken" /\ pc' # "taken"
    BY <1>6 DEF Run, LoopTest, NoMoreJobs, FireTimer, EndCallback,
           NoDueTimer, ChooseWait, TimedWait, TimedWaitEnds, LockForWait,
           TestWait, EnterWait, WaitEnds
  <2>2. Queued' = Queued
    BY <2>1, QueuedKept
  <2> QED
    BY <1>1, <2>1, <2>2 DEF Running
<1> QED
  BY <1>3, <1>4, <1>5, <1>6

\* The jobs that process accepts run in that order, each as often as it was
\* accepted and one at a time, and a job is dropped only when the queue is full: for
\* any number of posting threads, although the worker copies pointers out of the
\* ring without the mutex under which the others copy theirs in.
THEOREM RefinesJobQueue == Spec => ImplementsJobQueue
<1>1. Init => Abstract!Init
  <2> SUFFICES ASSUME Init PROVE Abstract!Init
    OBVIOUS
  <2>1. IndInv
    BY InitInv
  <2>2. Queued \in Seq(Jobs) /\ Len(Queued) = Used
    BY <2>1, QueuedJobs DEF IndInv
  <2>3. Used = 0
    BY <2>1, EmptyUsed DEF IndInv, TypeOK, Init, queueEmpty
  <2>4. Queued = <<>>
    BY <2>2, <2>3
  <2> QED
    BY <2>4 DEF Init, Abstract!Init
<1>2. IndInv /\ [Next]_vars => [Abstract!Next]_(Abstract!jobVars)
  <2> SUFFICES ASSUME IndInv, [Next]_vars
               PROVE  Abstract!Next \/ UNCHANGED <<Queued, theJob, Running>>
    BY DEF Abstract!jobVars, Running
  <2>1. TypeOK /\ MutexHeld /\ Ring
    BY DEF IndInv
  <2>2. CASE \E t \in Threads : Process(t)
    BY <2>1, <2>2, ProcessRefines
  <2>3. CASE Run
    BY <2>1, <2>3, RunRefines
  <2>4. ASSUME UNCHANGED <<slots, readIndexM, writeIndexM, job, theJob, pc>>
        PROVE  UNCHANGED <<Queued, theJob, Running>>
    BY <2>4, QueuedKept DEF Running
  <2>5. CASE AddLocalTimer \/ CancelLocalTimer \/ SpuriousWake \/ Stop \/ Tick
    BY <2>4, <2>5
       DEF AddLocalTimer, CancelLocalTimer, SpuriousWake, Stop, StopSet, StopSignal,
           StopJoin, Tick, WorkerKeeps, queueVars, postVars
  <2>6. CASE UNCHANGED vars
    BY <2>4, <2>6 DEF vars
  <2> QED
    BY <2>2, <2>3, <2>5, <2>6 DEF Next
<1> QED
  BY <1>1, <1>2, Invariant, PTL DEF Spec, ImplementsJobQueue, Abstract!Spec
=============================================================================
