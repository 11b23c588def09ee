------------------------------ MODULE WinWorker ------------------------------
(***************************************************************************)
(* A worker thread of fsm/WinWorker.cpp with the threads that post jobs to  *)
(* it and the thread that stops it (WinProcessor::stop, from at_exit).      *)
(*                                                                         *)
(* The job queue is a KfifoBuffer of pointers: the worker takes from it     *)
(* without the mutex that the posting threads hold.  A pointer is a slot of  *)
(* the ring here, and the indices count pointers; KfifoBuffer has the bytes. *)
(* isToStopM is written and read without the mutex.  Every read or write of *)
(* shared state that another thread can fall between is a step of its own.  *)
(* The condition variable is external (library base): Wait releases the     *)
(* mutex and starts waiting in one step, Signal wakes a waiting worker and  *)
(* is lost when there is none.                                             *)
(*                                                                         *)
(* Jobs are posted without end, the same ones again.  A timer is a record   *)
(* of its identity and the time it is due; the reactor's timer re-arms      *)
(* itself, as loop_in_bg_processor does.                                    *)
(***************************************************************************)
EXTENDS Integers, Sequences, FiniteSets

CONSTANTS Posters,       \* threads other than the worker that call process
          Worker,        \* the worker thread itself, whose jobs post jobs
          NoThread,      \* nobody holds queueMutexM
          Jobs,          \* the jobs
          NoJob,         \* the null pointer
          Capacity,      \* jobs the queue holds
          Modulus,       \* what the indices are counted modulo
          TimerIds,      \* the timers that jobs may have armed at one time
          Intervals,     \* intervals of those timers, in ticks of 10 ms
          MaxTime        \* bound on the clock

Threads == Posters \cup {Worker}

ReactorTimer == 0
NoTimer == -1

ASSUME ThreadAssumption ==
  Worker \notin Posters /\ NoThread \notin Threads
ASSUME JobAssumption == NoJob \notin Jobs
ASSUME QueueAssumption ==
  /\ Capacity \in Nat \ {0} /\ Modulus \in Nat
  /\ Capacity < Modulus /\ (Modulus % Capacity) = 0
ASSUME TimerAssumption ==
  /\ MaxTime \in Nat
  /\ TimerIds \subseteq Nat \ {ReactorTimer} /\ Intervals \subseteq Nat \ {0}

VARIABLES
  slots,              \* rawM of bufferJobQueueM
  readIndexM,
  writeIndexM,
  job,                \* the job that handle_jobs has taken
  lock,               \* holder of queueMutexM
  waiting,            \* the worker is in the wait set of queueCondM
  post,               \* post[t]: where thread t is in process()
  theJob,             \* theJob[t]: what that call has still to put
  wasEmpty,           \* wasEmpty[t]: jobQueueEmpty of that call
  pc,                 \* where the worker is in run()
  isToStopM,
  stopper,            \* where the stopping thread is in WinProcessor::stop
  timers,             \* timerHeapM: a set of [id, due]
  timeNowM,           \* the time the worker last read
  clock,              \* the time
  calling             \* the timer whose callback runs

queueVars == <<slots, readIndexM, writeIndexM, job>>
postVars  == <<post, theJob, wasEmpty>>
timerVars == <<timers, timeNowM, calling>>
stopVars  == <<isToStopM, stopper>>
vars == <<slots, readIndexM, writeIndexM, job, lock, waiting, post, theJob,
          wasEmpty, pc, isToStopM, stopper, timers, timeNowM, clock, calling>>

Slot(index) == (index % Capacity)

\* usedSize of KfifoBuffer: the difference of the indices, which wrap.
Used == (writeIndexM - readIndexM) % Modulus

queueEmpty == writeIndexM = readIndexM
heapEmpty  == timers = {}

\* A Reactor may exist: its callback ran a tick ago and armed its timer.
Init ==
  /\ slots = [i \in 0 .. Capacity - 1 |-> NoJob]
  /\ readIndexM = 0 /\ writeIndexM = 0 /\ job = NoJob
  /\ lock = NoThread /\ waiting = FALSE
  /\ post = [t \in Threads |-> "idle"]
  /\ theJob = [t \in Threads |-> NoJob]
  /\ wasEmpty = [t \in Threads |-> FALSE]
  /\ pc = "loop"
  /\ isToStopM = FALSE /\ stopper = "running"
  /\ timers \in {{}, {[id |-> ReactorTimer, due |-> 1]}}
  /\ timeNowM = 0 /\ clock = 1
  /\ calling = NoTimer

\* queueCondM.Signal().
Signal == waiting' = FALSE

-----------------------------------------------------------------------------
(* process(): called by any poster, and by a job on the worker itself.     *)

\* The worker posts only from a job or a timer's callback.
MayPost(t) == t = Worker => pc \in {"job", "callback"}

\* In process nothing changes but what the call itself does.
PostKeeps == UNCHANGED <<readIndexM, job, pc, stopVars, timerVars, clock>>

\* Faulty: process does not take the mutex.
PostUnlocked(t) ==
  /\ post[t] = "idle" /\ MayPost(t)
  /\ post' = [post EXCEPT ![t] = "locked"]
  /\ \E some \in Jobs : theJob' = [theJob EXCEPT ![t] = some]
  /\ wasEmpty' = [wasEmpty EXCEPT ![t] = queueEmpty]
  /\ PostKeeps /\ UNCHANGED <<slots, writeIndexM, lock, waiting>>

\* Take the mutex and look whether the queue is empty.
PostLock(t) ==
  /\ post[t] = "idle" /\ MayPost(t)
  /\ lock = NoThread
  /\ lock' = t
  /\ post' = [post EXCEPT ![t] = "locked"]
  /\ \E some \in Jobs : theJob' = [theJob EXCEPT ![t] = some]
  /\ wasEmpty' = [wasEmpty EXCEPT ![t] = queueEmpty]
  /\ PostKeeps /\ UNCHANGED <<slots, writeIndexM, waiting>>

\* The end of putn and of the lock.
Unlock(t) ==
  /\ post' = [post EXCEPT ![t] = "put"]
  /\ theJob' = [theJob EXCEPT ![t] = NoJob]
  /\ lock' = NoThread
  /\ UNCHANGED <<wasEmpty, waiting>>

\* putn copies the pointer into the ring ...
PostCopy(t) ==
  /\ post[t] = "locked" /\ Used < Capacity
  /\ slots' = [slots EXCEPT ![Slot(writeIndexM)] = theJob[t]]
  /\ post' = [post EXCEPT ![t] = "copied"]
  /\ PostKeeps /\ UNCHANGED <<writeIndexM, lock, waiting, theJob, wasEmpty>>

\* ... and makes it visible to the worker.
PostPut(t) ==
  /\ post[t] = "copied"
  /\ writeIndexM' = (writeIndexM + 1) % Modulus
  /\ Unlock(t)
  /\ PostKeeps /\ UNCHANGED slots

\* When the queue is full the assertion on len stops a debug build; without it
\* the job is dropped.
PostFull(t) ==
  /\ post[t] = "locked" /\ Used >= Capacity
  /\ Unlock(t)
  /\ PostKeeps /\ UNCHANGED <<slots, writeIndexM>>

\* Signal, after the mutex was released, when the queue was empty.
PostSignal(t) ==
  /\ post[t] = "put"
  /\ post' = [post EXCEPT ![t] = "idle"]
  /\ wasEmpty' = [wasEmpty EXCEPT ![t] = FALSE]
  /\ IF wasEmpty[t] THEN Signal ELSE UNCHANGED waiting
  /\ PostKeeps /\ UNCHANGED <<slots, writeIndexM, lock, theJob>>

-----------------------------------------------------------------------------
(* run() and handle_jobs().                                                *)

\* The worker's own steps outside process() leave these alone.
WorkerKeeps == UNCHANGED <<slots, writeIndexM, postVars, stopVars, clock>>

Goto(to) == pc' = to

LoopTest ==
  /\ pc = "loop"
  /\ Goto(IF isToStopM THEN "exited" ELSE "jobs")
  /\ WorkerKeeps /\ UNCHANGED <<readIndexM, job, lock, waiting, timerVars>>

\* Faulty handle_jobs: the result of getn is not tested.
TakeJobUntested ==
  /\ pc = "jobs"
  /\ job' = slots[Slot(readIndexM)]
  /\ Goto("taken")
  /\ WorkerKeeps /\ UNCHANGED <<readIndexM, lock, waiting, timerVars>>

\* getn copies the next job out of the ring, or finds none, and handle_jobs goes
\* on to the timers ...
TakeJob ==
  /\ pc = "jobs" /\ ~queueEmpty
  /\ job' = slots[Slot(readIndexM)]
  /\ Goto("taken")
  /\ WorkerKeeps /\ UNCHANGED <<readIndexM, lock, waiting, timerVars>>

\* ... and gives its place back.
FreeSlot ==
  /\ pc = "taken"
  /\ readIndexM' = (readIndexM + 1) % Modulus
  /\ Goto("job")
  /\ WorkerKeeps /\ UNCHANGED <<job, lock, waiting, timerVars>>

\* Faulty handleLocalTimer: the time is not read.
NoMoreJobsOldTime ==
  /\ pc = "jobs" /\ queueEmpty
  /\ Goto("timers")
  /\ WorkerKeeps /\ UNCHANGED <<readIndexM, job, lock, waiting, timerVars>>

\* gettimeofday once, when there is a timer.
NoMoreJobs ==
  /\ pc = "jobs" /\ queueEmpty
  /\ timeNowM' = IF heapEmpty THEN timeNowM ELSE clock
  /\ Goto("timers")
  /\ WorkerKeeps /\ UNCHANGED <<readIndexM, job, lock, waiting, timers, calling>>

\* The time a new timer counts from: that of the first one is read, the
\* others reuse what handleLocalTimer read last.
BaseTime == IF heapEmpty THEN clock ELSE timeNowM

\* addLocalTimer, called by a job or a callback.  Its Signal, given when the
\* heap was empty, finds no one waiting: the caller is the worker.
AddLocalTimer ==
  /\ pc \in {"job", "callback"} /\ post[Worker] = "idle"
  /\ \E id \in TimerIds \ {calling}, interval \in Intervals :
       /\ \A timer \in timers : timer.id # id
       /\ timers' = timers \cup {[id |-> id, due |-> BaseTime + interval]}
  /\ timeNowM' = BaseTime
  /\ IF heapEmpty THEN Signal ELSE UNCHANGED waiting
  /\ WorkerKeeps /\ UNCHANGED <<readIndexM, job, lock, pc, calling>>

\* cancelLocalTimer of a timer that is in the heap.
CancelLocalTimer ==
  /\ pc \in {"job", "callback"} /\ post[Worker] = "idle"
  /\ \E timer \in timers :
       timer.id # ReactorTimer /\ timers' = timers \ {timer}
  /\ WorkerKeeps /\ UNCHANGED <<readIndexM, job, lock, waiting, timeNowM, calling, pc>>

EndJob ==
  /\ pc = "job" /\ post[Worker] = "idle"
  /\ job' = NoJob
  /\ Goto("jobs")
  /\ WorkerKeeps /\ UNCHANGED <<readIndexM, lock, waiting, timerVars>>

Earliest(timer) == \A other \in timers : timer.due <= other.due

\* handleLocalTimer pops the earliest timer while it is due and calls it.
FireTimer ==
  /\ pc = "timers"
  /\ \E timer \in timers :
       /\ Earliest(timer) /\ timer.due <= timeNowM
       /\ timers' = timers \ {timer}
       /\ calling' = timer.id
  /\ Goto("callback")
  /\ WorkerKeeps /\ UNCHANGED <<readIndexM, job, lock, waiting, timeNowM>>

\* Faulty loop_in_bg_processor: the timer is not armed again.
EndCallbackWithoutRearm ==
  /\ pc = "callback" /\ post[Worker] = "idle"
  /\ calling' = NoTimer
  /\ Goto("timers")
  /\ WorkerKeeps
  /\ UNCHANGED <<readIndexM, job, lock, waiting, timers, timeNowM>>

\* The callback returns.  The reactor's, loop_in_bg_processor, has last armed
\* its timer again.
EndCallback ==
  /\ pc = "callback" /\ post[Worker] = "idle"
  /\ calling' = NoTimer
  /\ IF calling = ReactorTimer
     THEN /\ timers' = timers \cup {[id |-> ReactorTimer, due |-> BaseTime + 1]}
          /\ timeNowM' = BaseTime
          /\ IF heapEmpty THEN Signal ELSE UNCHANGED waiting
     ELSE UNCHANGED <<timers, timeNowM, waiting>>
  /\ Goto("timers")
  /\ WorkerKeeps /\ UNCHANGED <<readIndexM, job, lock>>

NoDueTimer ==
  /\ pc = "timers"
  /\ \A timer \in timers : ~(Earliest(timer) /\ timer.due <= timeNowM)
  /\ Goto("choose")
  /\ WorkerKeeps /\ UNCHANGED <<readIndexM, job, lock, waiting, timerVars>>

\* The test in run() that reads the queue without the mutex.
ChooseWait ==
  /\ pc = "choose"
  /\ Goto(IF ~isToStopM /\ queueEmpty /\ ~heapEmpty
          THEN "timedLock" ELSE "lock")
  /\ WorkerKeeps /\ UNCHANGED <<readIndexM, job, lock, waiting, timerVars>>

\* TimedWait of 10 ms: no test follows the mutex.
TimedWait ==
  /\ pc = "timedLock" /\ lock = NoThread
  /\ waiting' = TRUE
  /\ Goto("timedWait")
  /\ WorkerKeeps /\ UNCHANGED <<readIndexM, job, lock, timerVars>>

\* It ends by Signal or after 10 ms, with the mutex, which is then released.
TimedWaitEnds ==
  /\ pc = "timedWait" /\ lock = NoThread
  /\ waiting' = FALSE
  /\ Goto("loop")
  /\ WorkerKeeps /\ UNCHANGED <<readIndexM, job, lock, timerVars>>

LockForWait ==
  /\ pc = "lock" /\ lock = NoThread
  /\ lock' = Worker
  /\ Goto("test")
  /\ WorkerKeeps /\ UNCHANGED <<readIndexM, job, waiting, timerVars>>

\* Faulty run: the queue is not looked at again under the mutex.
MustWaitIgnoringQueue == ~isToStopM /\ heapEmpty

\* The condition of the while loop, read with the mutex held.
MustWait == ~isToStopM /\ queueEmpty /\ heapEmpty

TestWait ==
  /\ pc = "test"
  /\ IF MustWait
     THEN Goto("enterWait") /\ UNCHANGED lock
     ELSE Goto("loop") /\ lock' = NoThread
  /\ WorkerKeeps /\ UNCHANGED <<readIndexM, job, waiting, timerVars>>

\* Wait releases the mutex and starts waiting.
EnterWait ==
  /\ pc = "enterWait"
  /\ lock' = NoThread /\ waiting' = TRUE
  /\ Goto("wait")
  /\ WorkerKeeps /\ UNCHANGED <<readIndexM, job, timerVars>>

\* A worker that was signalled takes the mutex back and tests again.
WaitEnds ==
  /\ pc = "wait" /\ ~waiting /\ lock = NoThread
  /\ lock' = Worker
  /\ Goto("test")
  /\ WorkerKeeps /\ UNCHANGED <<readIndexM, job, waiting, timerVars>>

\* The condition variable may wake a worker nobody signalled.
SpuriousWake ==
  /\ waiting /\ waiting' = FALSE
  /\ UNCHANGED <<queueVars, lock, postVars, pc, stopVars, timerVars, clock>>

-----------------------------------------------------------------------------
(* WinProcessor::stop, which sets the flag and signals without the mutex    *)
(* and then joins the thread.                                              *)

StopSet ==
  /\ stopper = "running"
  /\ stopper' = "set" /\ isToStopM' = TRUE
  /\ UNCHANGED <<queueVars, lock, waiting, postVars, pc, timerVars, clock>>

StopSignal ==
  /\ stopper = "set"
  /\ stopper' = "joining" /\ Signal
  /\ UNCHANGED <<queueVars, lock, postVars, pc, isToStopM, timerVars, clock>>

\* joinThread returns and the workers are deleted.
StopJoin ==
  /\ stopper = "joining" /\ pc = "exited"
  /\ stopper' = "joined"
  /\ UNCHANGED <<queueVars, lock, waiting, postVars, pc, isToStopM, timerVars,
                 clock>>

Tick ==
  /\ clock < MaxTime
  /\ clock' = clock + 1
  /\ UNCHANGED <<queueVars, lock, waiting, postVars, pc, stopVars, timerVars>>

-----------------------------------------------------------------------------
Put(t) == PostCopy(t) \/ PostPut(t) \/ PostFull(t) \/ PostSignal(t)

Process(t) == PostLock(t) \/ Put(t)

Run ==
  \/ LoopTest \/ TakeJob \/ FreeSlot \/ EndJob \/ NoMoreJobs
  \/ FireTimer \/ EndCallback \/ NoDueTimer
  \/ ChooseWait \/ TimedWait \/ TimedWaitEnds
  \/ LockForWait \/ TestWait \/ EnterWait \/ WaitEnds

Stop == StopSet \/ StopSignal \/ StopJoin

Next ==
  \/ \E t \in Threads : Process(t)
  \/ Run \/ AddLocalTimer \/ CancelLocalTimer \/ SpuriousWake
  \/ Stop \/ Tick

Spec == Init /\ [][Next]_vars

\* The scheduler runs every thread that can run: the worker, a thread inside
\* process() and the stopping thread.  The worker gets the mutex in the end however
\* often others take it, and a job or a callback returns whatever it posts or arms
\* before: hence strong fairness.  Nothing makes a thread post or stop, and nothing
\* makes the condition variable wake the worker by itself.
Fairness ==
  /\ SF_vars(Run)
  /\ \A t \in Threads : WF_vars(Put(t))
  /\ WF_vars(StopSignal \/ StopJoin)

FairSpec == Spec /\ Fairness
-----------------------------------------------------------------------------
TypeOK ==
  /\ slots \in [0 .. Capacity - 1 -> Jobs \cup {NoJob}]
  /\ readIndexM \in 0 .. Modulus - 1 /\ writeIndexM \in 0 .. Modulus - 1
  /\ Used <= Capacity
  /\ job \in Jobs \cup {NoJob}
  /\ lock \in Threads \cup {NoThread}
  /\ waiting \in BOOLEAN
  /\ post \in [Threads -> {"idle", "locked", "copied", "put"}]
  /\ theJob \in [Threads -> Jobs \cup {NoJob}]
  /\ wasEmpty \in [Threads -> BOOLEAN]
  /\ pc \in {"loop", "jobs", "taken", "job", "timers", "callback", "choose",
             "timedLock", "timedWait", "lock", "test", "enterWait", "wait",
             "exited"}
  /\ isToStopM \in BOOLEAN
  /\ stopper \in {"running", "set", "joining", "joined"}
  /\ timers \subseteq [id : Nat, due : Nat]
  /\ timeNowM \in Nat /\ clock \in Nat
  /\ calling \in Nat \cup {NoTimer}

\* A thread that has put a job on a queue it saw empty has yet to signal.
SignalPending == \E t \in Threads : post[t] = "put" /\ wasEmpty[t]

\* The worker never sleeps without a time limit while a job waits that nobody
\* is about to signal, or while a timer is armed, although process() signals
\* only when it saw the queue empty, after it released the mutex, and the
\* worker takes jobs without the mutex.
SleepsOnlyWhenIdle ==
  pc = "wait" /\ waiting => heapEmpty /\ (queueEmpty \/ SignalPending)

\* The jobs in the ring, from the next one to be taken.
Queued == [i \in 1 .. Used |-> slots[Slot(readIndexM + (i - 1))]]

\* The jobs that process() accepted are run in that order, each as often as it was
\* accepted, and one at a time; process() drops a job only when the queue is full.
\* Several threads post at once, and the worker copies a pointer out of the ring
\* without the mutex under which they copy theirs in.
Abstract == INSTANCE JobQueue WITH
  queue <- Queued, posting <- theJob, running <- IF pc = "taken" THEN NoJob ELSE job
ImplementsJobQueue == Abstract!Spec

\* The worker is in the loop of handle_jobs.
InJobs == pc \in {"jobs", "taken", "job"}

\* Every accepted job is run, unless the worker is told to stop: no number of timers
\* and no further jobs hold it back.
JobsRun ==
  \A some \in Jobs :
    (\E i \in DOMAIN Queued : Queued[i] = some) ~> (job = some \/ isToStopM)

\* A timer that has come due fires or is cancelled, unless the worker is told to
\* stop.  Only jobs that keep coming starve it: handle_jobs leaves its loop when it
\* has found the queue empty (WinWorker.cpp:256).
DueTimersFire ==
  \A id \in TimerIds \cup {ReactorTimer} :
    (\E timer \in timers : timer.id = id /\ timer.due <= clock)
      ~> (isToStopM \/ (\A timer \in timers : timer.id # id) \/ []InJobs)
WorkIsDone == JobsRun /\ DueTimersFire

\* If a Reactor armed its timer at the start, WinProcessor::stop returns, although
\* it sets isToStopM and signals without the mutex: the 10 ms wait that the timer
\* imposes ends by itself.  Only jobs that keep coming hold it up, as handle_jobs
\* does not look at isToStopM.
StopReturns ==
  (\E timer \in timers : timer.id = ReactorTimer)
    => (stopper = "set" ~> (stopper = "joined" \/ []InJobs))
=============================================================================
