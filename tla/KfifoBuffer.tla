----------------------------- MODULE KfifoBuffer -----------------------------
(***************************************************************************)
(* The ring buffer of fsm/KfifoBuffer.cpp, used without a lock by one       *)
(* producer thread and one consumer thread (the job queue of WinWorker, the *)
(* input and output queues of SocketConnection).                            *)
(*                                                                         *)
(* readIndexM and writeIndexM are unsigned: they are never reset, run past  *)
(* sizeM and wrap at Modulus (2^32 in the code).  A call reads the other    *)
(* thread's index once, copies with two memcpy calls and then moves its own *)
(* index; the model takes one step for each of these, and one for each byte *)
(* copied, and interleaves the two threads between any two of them.         *)
(*                                                                         *)
(* The byte at stream position p is the number p.  The variables produced   *)
(* and consumed count the bytes committed by each side; no action reads     *)
(* them except to number the bytes.                                         *)
(***************************************************************************)
EXTENDS Integers

CONSTANTS sizeM,        \* bytes in rawM, a power of two
          Modulus,      \* 2^width of unsigned, a larger power of two
          Lengths,      \* values of theLen the callers pass
          MaxStream     \* bound on the bytes put in a behaviour

ASSUME SizeAssumption ==
  /\ sizeM \in Nat \ {0}
  /\ Modulus \in Nat /\ Modulus > sizeM /\ Modulus % sizeM = 0
ASSUME LengthAssumption == Lengths \subseteq Nat
ASSUME StreamAssumption == MaxStream \in Nat

NoByte == -1            \* what new char[sizeM] leaves in rawM

VARIABLES rawM, readIndexM, writeIndexM,
          put,          \* the producer's call: [len, done, active]
          get,          \* the consumer's call: [len, done, moves, active]
          out,          \* theBuffer of the consumer's call: <<offset, byte>>
          peeked,       \* bytes the last peek returned and commitRead may drop
          produced, consumed

indexVars == <<readIndexM, writeIndexM, produced, consumed>>
vars == <<rawM, readIndexM, writeIndexM, put, get, out, peeked,
          produced, consumed>>

\* Arithmetic on unsigned.
UAdd(a, b) == (a + b) % Modulus
USub(a, b) == (a - b) % Modulus

\* index & maskM, sizeM being a power of two.
Slot(index) == index % sizeM

size == USub(writeIndexM, readIndexM)
empty == writeIndexM = readIndexM
leftSizePlusOne == UAdd(UAdd(USub(sizeM, writeIndexM), readIndexM), 1)
leftSize == UAdd(USub(sizeM, writeIndexM), readIndexM)

\* Offset into rawM of byte i of a copy starting at index: the first memcpy
\* fills up to the end of rawM, the second one starts again at rawM[0].
CopyOffset(index, i) ==
  LET toEnd == sizeM - Slot(index)
  IN  IF i < toEnd THEN Slot(index) + i ELSE i - toEnd

Smaller(a, b) == IF a < b THEN a ELSE b

IdlePut == [active |-> FALSE, len |-> 0, done |-> 0]
IdleGet == [active |-> FALSE, moves |-> FALSE, len |-> 0, done |-> 0]

Init ==
  /\ rawM = [s \in 0 .. sizeM - 1 |-> NoByte]
  /\ readIndexM = 0 /\ writeIndexM = 0
  /\ put = IdlePut /\ get = IdleGet
  /\ out = {} /\ peeked = 0
  /\ produced = 0 /\ consumed = 0

-----------------------------------------------------------------------------
(* The producer.                                                           *)

StartPut(putLen) ==
  /\ produced + putLen <= MaxStream
  /\ put' = [active |-> TRUE, len |-> putLen, done |-> 0]
  /\ UNCHANGED <<rawM, indexVars, get, out, peeked>>

\* put stores what fits of theLen bytes.
Put(theLen) ==
  /\ ~put.active
  /\ StartPut(Smaller(theLen, leftSize))

\* Faulty putn: the check against leftSize is missing.
PutnUnchecked(theLen) == ~put.active /\ theLen <= sizeM /\ StartPut(theLen)

\* putn stores theLen bytes or returns 0 and stores none.
Putn(theLen) ==
  /\ ~put.active
  /\ theLen <= leftSize
  /\ StartPut(theLen)

\* One byte of the two memcpy calls of put and putn.
PutByte ==
  /\ put.active /\ put.done < put.len
  /\ rawM' = [rawM EXCEPT ![CopyOffset(writeIndexM, put.done)]
                            = produced + put.done]
  /\ put' = [put EXCEPT !.done = @ + 1]
  /\ UNCHANGED <<indexVars, get, out, peeked>>

\* writeIndexM += putLen.
PutCommit ==
  /\ put.active /\ put.done = put.len
  /\ writeIndexM' = UAdd(writeIndexM, put.len)
  /\ produced' = produced + put.len
  /\ put' = IdlePut
  /\ UNCHANGED <<rawM, readIndexM, consumed, get, out, peeked>>

-----------------------------------------------------------------------------
(* The consumer.                                                           *)

StartGet(getLen, moves) ==
  /\ get' = [active |-> TRUE, moves |-> moves, len |-> getLen, done |-> 0]
  /\ out' = {} /\ peeked' = 0
  /\ UNCHANGED <<rawM, indexVars, put>>

\* get and peek copy what there is of theLen bytes; get also moves the index.
Get(theLen)  == ~get.active /\ StartGet(Smaller(theLen, size), TRUE)
Peek(theLen) == ~get.active /\ StartGet(Smaller(theLen, size), FALSE)

\* Faulty getn: the check against usedSize is missing.
GetnUnchecked(theLen) == ~get.active /\ theLen <= sizeM /\ StartGet(theLen, TRUE)

\* getn and peekn copy theLen bytes or return 0.
Getn(theLen)  == ~get.active /\ theLen <= size /\ StartGet(theLen, TRUE)
Peekn(theLen) == ~get.active /\ theLen <= size /\ StartGet(theLen, FALSE)

\* One byte of the two memcpy calls of the consumer.
GetByte ==
  /\ get.active /\ get.done < get.len
  /\ out' = out \cup {<<get.done, rawM[CopyOffset(readIndexM, get.done)]>>}
  /\ get' = [get EXCEPT !.done = @ + 1]
  /\ UNCHANGED <<rawM, indexVars, put, peeked>>

\* readIndexM += getLen, or the return of a peek.
GetCommit ==
  /\ get.active /\ get.done = get.len
  /\ get' = IdleGet
  /\ out' = {}
  /\ IF get.moves
     THEN /\ readIndexM' = UAdd(readIndexM, get.len)
          /\ consumed' = consumed + get.len
          /\ peeked' = 0
     ELSE peeked' = get.len /\ UNCHANGED <<readIndexM, consumed>>
  /\ UNCHANGED <<rawM, writeIndexM, produced, put>>

\* commitRead checks nothing: SocketConnection::onWrite passes the number of
\* bytes write() took of those the preceding peek returned.
CommitRead(theLen) ==
  /\ ~get.active /\ theLen <= peeked
  /\ readIndexM' = UAdd(readIndexM, theLen)
  /\ consumed' = consumed + theLen
  /\ peeked' = 0
  /\ UNCHANGED <<rawM, writeIndexM, produced, put, get, out>>

-----------------------------------------------------------------------------
Producer == (\E n \in Lengths : Put(n) \/ Putn(n)) \/ PutByte \/ PutCommit

Consumer ==
  \/ \E n \in Lengths :
       Get(n) \/ Getn(n) \/ Peek(n) \/ Peekn(n) \/ CommitRead(n)
  \/ GetByte
  \/ GetCommit

Next == Producer \/ Consumer

Spec == Init /\ [][Next]_vars
-----------------------------------------------------------------------------
TypeOK ==
  /\ rawM \in [0 .. sizeM - 1 -> Nat \cup {NoByte}]
  /\ readIndexM \in 0 .. Modulus - 1
  /\ writeIndexM \in 0 .. Modulus - 1
  /\ put \in [active : BOOLEAN, len : Nat, done : Nat]
  /\ get \in [active : BOOLEAN, moves : BOOLEAN, len : Nat, done : Nat]
  /\ out \subseteq (Nat \X (Nat \cup {NoByte}))
  /\ peeked \in Nat
  /\ produced \in Nat
  /\ consumed \in Nat

\* Every byte a get or a peek has copied so far is the byte of the stream at
\* that place: nothing is skipped, repeated, torn or read before the producer
\* wrote it, though the producer may be copying at the same time and either
\* index may have wrapped.
CopiedInOrder == \A c \in out : c[2] = consumed + c[1]

\* The producer never writes a byte of rawM that the consumer may still read,
\* although leftSize was computed from an index the consumer has moved since.
NeverOverwritesUnread ==
  [][\A p \in consumed .. produced - 1 :
       rawM[p % sizeM] = p => rawM'[p % sizeM] = p]_vars

\* The occupancy the indices give, across their wrap, is the number of bytes
\* in the buffer and at most sizeM: full and empty are never confused.
OccupancyExact == size = produced - consumed /\ produced - consumed <= sizeM

\* KfifoBuffer implements the atomic bounded FIFO.
Fifo == INSTANCE ByteFifo WITH Capacity <- sizeM
ImplementsFifo == Fifo!Spec
=============================================================================
