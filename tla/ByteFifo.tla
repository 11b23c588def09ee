------------------------------ MODULE ByteFifo ------------------------------
(***************************************************************************)
(* What a KfifoBuffer promises its two users: a bounded FIFO of bytes, in   *)
(* which putting, getting and discarding each happen at one instant.  A     *)
(* byte is represented by its position in the stream the producer put, so   *)
(* the content of the FIFO is the range of positions put and not yet taken. *)
(***************************************************************************)
EXTENDS Naturals

CONSTANT Capacity        \* bytes the FIFO can hold

VARIABLES produced,      \* bytes put since the start
          consumed       \* bytes taken since the start

fifoVars == <<produced, consumed>>

\* Bytes put and not taken yet, as a set of stream positions.
Content == {p \in 0 .. produced : consumed <= p /\ p < produced}

Init == produced = 0 /\ consumed = 0

Put == \E n \in 0 .. Capacity - (produced - consumed) :
         produced' = produced + n /\ consumed' = consumed

Take == \E n \in 0 .. produced - consumed :
          consumed' = consumed + n /\ produced' = produced

Next == Put \/ Take

Spec == Init /\ [][Next]_fifoVars
=============================================================================
