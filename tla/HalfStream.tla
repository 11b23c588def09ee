----------------------------- MODULE HalfStream -----------------------------
(***************************************************************************)
(* What a forwarded connection promises in one direction: what is taken at  *)
(* the far end was given at the near end, and the far end sees the end of   *)
(* the stream only after the near end has ended it and everything given has *)
(* been taken, unless the stream was stopped short before.                  *)
(***************************************************************************)
EXTENDS Naturals

VARIABLES given, taken, ended, stopped, seen

vars == <<given, taken, ended, stopped, seen>>

Init ==
  /\ given \in Nat
  /\ taken = 0
  /\ ended = FALSE /\ stopped = FALSE /\ seen = FALSE

Give == ~ended /\ given' = given + 1 /\ UNCHANGED <<taken, ended, stopped, seen>>

Take ==
  /\ ~seen
  /\ taken' \in taken + 1 .. given
  /\ UNCHANGED <<given, ended, stopped, seen>>

End == ~ended /\ ended' = TRUE /\ UNCHANGED <<given, taken, stopped, seen>>

Stop == ~stopped /\ stopped' = TRUE /\ UNCHANGED <<given, taken, ended, seen>>

See ==
  /\ ~seen
  /\ stopped \/ (ended /\ taken = given)
  /\ seen' = TRUE
  /\ UNCHANGED <<given, taken, ended, stopped>>

Next == Give \/ Take \/ End \/ Stop \/ See

Spec == Init /\ [][Next]_vars
=============================================================================
