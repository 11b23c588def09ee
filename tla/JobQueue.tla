------------------------------ MODULE JobQueue ------------------------------
(***************************************************************************)
(* What a WinWorker promises to the threads that post jobs: one thread runs *)
(* the jobs, one at a time, in the order in which they were accepted, each  *)
(* as often as it was accepted; a job is refused only when the queue is     *)
(* full.                                                                   *)
(***************************************************************************)
EXTENDS Naturals, Sequences

CONSTANTS Threads, Jobs, NoJob, Capacity

VARIABLES queue,         \* the accepted jobs, first the next to be run
          posting,       \* posting[t]: what thread t is posting
          running        \* the job that runs

jobVars == <<queue, posting, running>>

Init ==
  /\ queue = <<>>
  /\ posting = [t \in Threads |-> NoJob]
  /\ running = NoJob

Call(t) ==
  /\ posting[t] = NoJob
  /\ \E job \in Jobs : posting' = [posting EXCEPT ![t] = job]
  /\ UNCHANGED <<queue, running>>

Posted(t) == posting[t] # NoJob /\ posting' = [posting EXCEPT ![t] = NoJob]

Accept(t) ==
  /\ Posted(t)
  /\ Len(queue) < Capacity
  /\ queue' = Append(queue, posting[t])
  /\ UNCHANGED running

Refuse(t) ==
  /\ Posted(t)
  /\ Len(queue) = Capacity
  /\ UNCHANGED <<queue, running>>

Start ==
  /\ running = NoJob /\ queue # <<>>
  /\ running' = Head(queue)
  /\ queue' = Tail(queue)
  /\ UNCHANGED posting

Finish == running # NoJob /\ running' = NoJob /\ UNCHANGED <<queue, posting>>

Next ==
  \/ \E t \in Threads : Call(t) \/ Accept(t) \/ Refuse(t)
  \/ Start \/ Finish

Spec == Init /\ [][Next]_jobVars
=============================================================================
