-------------------------- MODULE SocketConnection --------------------------
(***************************************************************************)
(* One connection of fsm/SocketConnection.cpp between its accept and its    *)
(* destruction, with the two threads that use it: the background worker,    *)
(* which runs the reactor and the connection's jobs one after another, and  *)
(* the UI worker, which runs the jobs posted to the protocol (the handlers  *)
(* of GoogleDriveFsmSession).  A step of one thread can fall between any    *)
(* two steps of the other.                                                 *)
(*                                                                         *)
(* Data is counted in units: the bytes are KfifoBuffer's business.  A job   *)
(* bound to `this' is raw; a job bound to selfM holds a reference.  The     *)
(* connection is destroyed when selfM and every reference are gone.  What   *)
(* the code may not survive (a job on a destroyed connection, an event that *)
(* delEvent has freed) ends the behaviour in a crash that names it.         *)
(***************************************************************************)
EXTENDS Naturals, Sequences

CONSTANTS InCapacity,     \* units in inputQueueM
          HighWater,      \* a fuller queue has status BufferHighE
          LowWater,       \* a queue no fuller has status BufferLowE
          OutCapacity,    \* units in outputQueueM
          MaxData,        \* bound on the units the peer sends
          MaxSend,        \* bound on the replies the protocol sends
          MaxQueue        \* jobs beyond which a failed event_add or recv is not tried again

ASSUME WaterAssumption ==
  /\ LowWater \in Nat /\ HighWater \in Nat /\ InCapacity \in Nat
  /\ LowWater < HighWater /\ HighWater < InCapacity
ASSUME BoundAssumption ==
  OutCapacity \in Nat \ {0} /\ MaxData \in Nat /\ MaxSend \in Nat
  /\ MaxQueue \in Nat

VARIABLES
  statusM, stopReadingM,
  inLen, outLen,          \* units in inputQueueM and outputQueueM
  selfM,                  \* selfM is not empty
  readEvt, writeEvt,      \* "off", "armed" or "deleted"
  heartbeat,              \* heartbeatTimerEvtM is in the heap
  bgJobs, uiJobs,         \* the two workers' job queues
  bg, ui,                 \* where each thread is in its job
  bgHolds,                \* the job bg runs holds a reference
  drained,                \* the getInput call under way found nothing
  dispatching,            \* bg runs timers and events, not jobs
  peer,                   \* [unread, sent, end]: the other end, and how it ended
  sends,                  \* replies sent
  crash                   \* what the program died of, or "none"

socketVars == <<statusM, stopReadingM, inLen, outLen>>
eventVars  == <<readEvt, writeEvt, heartbeat>>
jobVars    == <<bgJobs, uiJobs>>
vars == <<statusM, stopReadingM, inLen, outLen, selfM, readEvt, writeEvt,
          heartbeat, bgJobs, uiJobs, bg, ui, bgHolds, drained, dispatching,
          peer, sends, crash>>

InStatus ==
  IF inLen > HighWater THEN "High" ELSE IF inLen > LowWater THEN "Ok" ELSE "Low"

\* A job names the method; ref is FALSE when it is bound to `this'; by is who
\* posted it.
Job(op, ref, by) == [op |-> op, ref |-> ref, by |-> by]

\* Somebody still holds a reference to the connection.
Alive ==
  \/ selfM
  \/ bgHolds
  \/ ui # "idle"
  \/ uiJobs # <<>>
  \/ \E i \in 1 .. Len(bgJobs) : bgJobs[i].ref

\* The constructor, run by TcpServer::onAccept on the background worker.  Its
\* event_add may fail, and addReadEvent is then posted.
Init ==
  /\ statusM = "Active" /\ stopReadingM = FALSE
  /\ inLen = 0 /\ outLen = 0
  /\ selfM = TRUE
  /\ writeEvt = "off" /\ heartbeat = FALSE
  /\ \/ /\ readEvt = "armed"
        /\ bgJobs = <<Job("startHeartbeat", FALSE, "self")>>
     \/ /\ readEvt = "off"
        /\ bgJobs = <<Job("addRead", FALSE, "self"),
                       Job("startHeartbeat", FALSE, "self")>>
  /\ uiJobs = <<"connected">>
  /\ bg = "idle" /\ ui = "idle" /\ bgHolds = FALSE
  /\ drained = FALSE /\ dispatching = FALSE
  /\ peer = [unread |-> 0, sent |-> 0, end |-> "open"]
  /\ sends = 0
  /\ crash = "none"

PostBg(job) == bgJobs' = Append(bgJobs, job)
PostUi(what) == uiJobs' = Append(uiJobs, what)
Crash(what) == crash' = what

-----------------------------------------------------------------------------
(* The peer: a browser that sends a request and may go away.               *)

PeerSends ==
  /\ peer.end = "open" /\ peer.sent < MaxData
  /\ peer' = [unread |-> peer.unread + 1, sent |-> peer.sent + 1, end |-> "open"]
  /\ UNCHANGED <<socketVars, selfM, eventVars, jobVars, bg, ui, bgHolds,
                 drained, dispatching, sends, crash>>

\* An orderly end comes after what was sent; a reset or any other failure of the
\* connection loses what was not read yet.
PeerCloses ==
  /\ peer.end = "open"
  /\ \/ peer' = [peer EXCEPT !.end = "closed"]
     \/ peer' = [unread |-> 0, sent |-> peer.sent, end |-> "reset"]
  /\ UNCHANGED <<socketVars, selfM, eventVars, jobVars, bg, ui, bgHolds,
                 drained, dispatching, sends, crash>>

-----------------------------------------------------------------------------
(* The background worker: jobs first, then timers, of which the reactor's   *)
(* dispatches the libevent events and the heartbeat's arms itself again.    *)

BgKeeps == UNCHANGED <<ui, drained, peer, sends>>

StartDispatch ==
  /\ bg = "idle" /\ ~dispatching /\ bgJobs = <<>>
  /\ dispatching' = TRUE
  /\ BgKeeps
  /\ UNCHANGED <<socketVars, selfM, eventVars, jobVars, bg, bgHolds, crash>>

EndDispatch ==
  /\ dispatching
  /\ dispatching' = FALSE
  /\ BgKeeps
  /\ UNCHANGED <<socketVars, selfM, eventVars, jobVars, bg, bgHolds, crash>>

\* on_read and asynRead; the event is not persistent.
FireRead ==
  /\ dispatching /\ readEvt = "armed"
  /\ peer.unread > 0 \/ peer.end # "open"
  /\ readEvt' = "off"
  /\ PostBg(Job("onRead", FALSE, "reactor"))
  /\ BgKeeps
  /\ UNCHANGED <<socketVars, selfM, writeEvt, heartbeat, uiJobs, bg, bgHolds,
                 dispatching, crash>>

\* on_write and asynWrite, which posts nothing once the status is CloseE.
FireWrite ==
  /\ dispatching /\ writeEvt = "armed"
  /\ writeEvt' = "off"
  /\ IF statusM = "Close" THEN UNCHANGED bgJobs
     ELSE PostBg(Job("onWrite", FALSE, "reactor"))
  /\ BgKeeps
  /\ UNCHANGED <<socketVars, selfM, readEvt, heartbeat, uiJobs, bg, bgHolds,
                 dispatching, crash>>

\* onHeartbeat arms the timer again; no protocol of the program asks for
\* heartbeats, so nothing is posted.
FireHeartbeat ==
  /\ dispatching /\ heartbeat
  /\ IF Alive THEN UNCHANGED crash ELSE Crash("timerOnFreed")
  /\ BgKeeps
  /\ UNCHANGED <<socketVars, selfM, eventVars, jobVars, bg, bgHolds,
                 dispatching>>

\* Take the next job; it is the death of the program when a raw job finds the
\* connection destroyed.
TakeJob ==
  /\ bg = "idle" /\ ~dispatching /\ bgJobs # <<>>
  /\ bgJobs' = Tail(bgJobs)
  /\ LET job == Head(bgJobs)
     IN  IF ~Alive
         THEN /\ Crash(IF job.by = "upper" THEN "upperJobOnFreed"
                       ELSE "jobOnFreed")
              /\ UNCHANGED <<bg, bgHolds>>
         ELSE bg' = job.op /\ bgHolds' = job.ref /\ UNCHANGED crash
  /\ BgKeeps
  /\ UNCHANGED <<socketVars, selfM, eventVars, uiJobs, dispatching>>

BgGoto(step) == bg' = step
EndJob == bg' = "idle" /\ bgHolds' = FALSE

StartHeartbeatTimer ==
  /\ bg = "startHeartbeat"
  /\ heartbeat' = TRUE
  /\ EndJob /\ BgKeeps
  /\ UNCHANGED <<socketVars, selfM, readEvt, writeEvt, jobVars, dispatching, crash>>

\* event_add: it may fail, and the job is then posted again bound to `this'.
AddEvent(event, op) ==
  \/ event = "deleted" /\ Crash("addOnDeleted")
     /\ UNCHANGED <<eventVars, bgJobs>>
  \/ /\ event # "deleted"
     /\ IF op = "addRead" THEN readEvt' = "armed" /\ UNCHANGED writeEvt
        ELSE writeEvt' = "armed" /\ UNCHANGED readEvt
     /\ UNCHANGED <<heartbeat, bgJobs, crash>>
  \/ /\ event # "deleted" /\ Len(bgJobs) < MaxQueue
     /\ PostBg(Job(op, FALSE, "self"))
     /\ UNCHANGED <<eventVars, crash>>

\* addReadEvent and addWriteEvent.
AddReadEvent ==
  IF statusM = "Close" THEN UNCHANGED <<eventVars, bgJobs, crash>>
  ELSE AddEvent(readEvt, "addRead")

AddWriteEvent ==
  IF statusM = "Close" THEN UNCHANGED <<eventVars, bgJobs, crash>>
  ELSE AddEvent(writeEvt, "addWrite")

AddEventJob ==
  /\ \/ bg = "addRead" /\ AddReadEvent
     \/ bg = "addWrite" /\ AddWriteEvent
  /\ EndJob /\ BgKeeps
  /\ UNCHANGED <<socketVars, selfM, uiJobs, dispatching>>
-----------------------------------------------------------------------------
(* onRead.                                                                 *)

\* asynHandleInput with a copy of selfM.
NotifyInput ==
  IF selfM THEN PostUi("input") /\ UNCHANGED crash
  ELSE Crash("emptySelf") /\ UNCHANGED uiJobs

\* No room: stop reading and let the protocol drain the queue.
ReadNoRoom ==
  /\ bg = "onRead" /\ inLen = InCapacity
  /\ BgGoto("readStop")
  /\ BgKeeps
  /\ UNCHANGED <<socketVars, selfM, eventVars, jobVars, bgHolds, dispatching, crash>>

\* Faulty onRead: the -1 of a recv that failed is taken for a count.
ReceiveUnchecked(room) ==
  IF peer.unread > 0
  THEN \E n \in 1 .. room :
         /\ n <= peer.unread
         /\ peer' = [peer EXCEPT !.unread = @ - n]
         /\ inLen' = inLen + n
  ELSE inLen' = inLen - 1 /\ UNCHANGED peer

\* recv, which may return any part of what there is.
Receive(room) ==
  \E n \in 1 .. room :
    /\ n <= peer.unread
    /\ peer' = [peer EXCEPT !.unread = @ - n]
    /\ inLen' = inLen + n

ReadFirst ==
  /\ bg = "onRead" /\ inLen < InCapacity
  /\ Receive(InCapacity - inLen)
  /\ BgGoto("readMore")
  /\ UNCHANGED <<ui, drained, sends, statusM, stopReadingM, outLen, selfM, eventVars,
                 jobVars, bgHolds, dispatching, crash>>

\* The peer has closed, and recv returns 0, or recv failed.  Winsock leaves errno
\* alone, so that a read that failed, for whatever reason, is taken for the end of
\* the connection or for EWOULDBLOCK according to what errno last held.
ReadFails ==
  /\ bg = "onRead" /\ inLen < InCapacity
  /\ peer.unread = 0
  /\ BgGoto("close")
  /\ BgKeeps
  /\ UNCHANGED <<socketVars, selfM, eventVars, jobVars, bgHolds, dispatching, crash>>

ReadWouldBlock ==
  /\ bg = "onRead" /\ inLen < InCapacity
  /\ peer.unread = 0 /\ peer.end # "closed" /\ Len(uiJobs) < MaxQueue
  /\ BgGoto("readEnd")
  /\ BgKeeps
  /\ UNCHANGED <<socketVars, selfM, eventVars, jobVars, bgHolds, dispatching, crash>>

\* The loop reads on while the queue's status is not BufferHighE.
ReadMore ==
  /\ bg = "readMore" /\ InStatus # "High"
  /\ Receive(InCapacity - inLen)
  /\ UNCHANGED <<ui, drained, sends, statusM, stopReadingM, outLen, selfM, eventVars,
                 jobVars, bg, bgHolds, dispatching, crash>>

ReadStops ==
  /\ bg = "readMore"
  /\ InStatus = "High" \/ peer.unread = 0
  /\ BgGoto("readEnd")
  /\ BgKeeps
  /\ UNCHANGED <<socketVars, selfM, eventVars, jobVars, bgHolds, dispatching, crash>>

\* Flow control: a full queue stops the reading, else the event is armed.  The
\* UI worker may take from the queue between the test and what follows it.
ReadEnd ==
  /\ bg = "readEnd"
  /\ BgGoto(IF InStatus = "High" THEN "readStop" ELSE "readArm")
  /\ BgKeeps
  /\ UNCHANGED <<socketVars, selfM, eventVars, jobVars, bgHolds, dispatching, crash>>

\* Faulty onRead: with a full queue the event is neither armed nor remembered.
ReadStopForgetful ==
  /\ bg = "readStop"
  /\ BgGoto("readNotify")
  /\ BgKeeps
  /\ UNCHANGED <<socketVars, selfM, eventVars, jobVars, bgHolds, dispatching, crash>>

ReadStop ==
  /\ bg = "readStop"
  /\ stopReadingM' = TRUE
  /\ BgGoto("readNotify")
  /\ BgKeeps
  /\ UNCHANGED <<statusM, inLen, outLen, selfM, eventVars, jobVars, bgHolds,
                 dispatching, crash>>

ReadArm ==
  /\ bg = "readArm"
  /\ AddReadEvent
  /\ BgGoto("readNotify")
  /\ BgKeeps
  /\ UNCHANGED <<socketVars, selfM, uiJobs, bgHolds, dispatching>>

ReadNotify ==
  /\ bg = "readNotify"
  /\ NotifyInput
  /\ EndJob /\ BgKeeps
  /\ UNCHANGED <<socketVars, selfM, eventVars, bgJobs, dispatching>>

-----------------------------------------------------------------------------
(* onWrite.                                                                *)

\* One write and the commitRead of what it took.
WriteSome ==
  /\ bg = "onWrite" /\ statusM # "Close"
  /\ \E n \in 1 .. outLen : outLen' = outLen - n
  /\ BgKeeps
  /\ UNCHANGED <<statusM, stopReadingM, inLen, selfM, eventVars, jobVars, bg,
                 bgHolds, dispatching, crash>>

\* write failed: with errno EAGAIN the loop ends, otherwise, and whenever errno
\* does not show the Winsock error, the connection is closed.
WriteFails ==
  /\ bg = "onWrite" /\ statusM # "Close" /\ outLen > 0
  /\ BgGoto("writeRearm") \/ BgGoto("close")
  /\ BgKeeps
  /\ UNCHANGED <<socketVars, selfM, eventVars, jobVars, bgHolds, dispatching, crash>>

WriteStops ==
  /\ bg = "onWrite" /\ (statusM = "Close" \/ outLen = 0)
  /\ BgGoto("writeRearm")
  /\ BgKeeps
  /\ UNCHANGED <<socketVars, selfM, eventVars, jobVars, bgHolds, dispatching, crash>>

WriteRearm ==
  /\ bg = "writeRearm"
  /\ IF statusM # "Close" /\ outLen > 0 THEN AddWriteEvent
     ELSE UNCHANGED <<eventVars, bgJobs, crash>>
  /\ BgGoto("writeClose")
  /\ BgKeeps
  /\ UNCHANGED <<socketVars, selfM, uiJobs, bgHolds, dispatching>>

\* Everything was sent: close() posts _close to this same thread.
WriteClose ==
  /\ bg = "writeClose"
  /\ IF statusM = "CloseAfterSent" /\ outLen = 0
     THEN PostBg(Job("close", FALSE, "self")) ELSE UNCHANGED bgJobs
  /\ EndJob /\ BgKeeps
  /\ UNCHANGED <<socketVars, selfM, eventVars, uiJobs, dispatching, crash>>

-----------------------------------------------------------------------------
(* _close and _release.                                                    *)

CloseAgain ==
  /\ bg = "close" /\ statusM = "Close"
  /\ EndJob /\ BgKeeps
  /\ UNCHANGED <<socketVars, selfM, eventVars, jobVars, dispatching, crash>>

CloseMark ==
  /\ bg = "close" /\ statusM # "Close"
  /\ statusM' = "Close"
  /\ BgGoto("closeRest")
  /\ BgKeeps
  /\ UNCHANGED <<stopReadingM, inLen, outLen, selfM, eventVars, jobVars,
                 bgHolds, dispatching, crash>>

\* Faulty _close: the events are not deleted.
CloseRestKeepsEvents ==
  /\ bg = "closeRest"
  /\ heartbeat' = FALSE
  /\ PostUi("closed")
  /\ PostBg(Job("release", FALSE, "self"))
  /\ EndJob /\ BgKeeps
  /\ UNCHANGED <<socketVars, selfM, readEvt, writeEvt, dispatching, crash>>

\* Cancel the timer, notify the protocol, delete the events, post _release.
\* The pointer to the cancelled timer is kept: a second time it is freed again.
CloseRest ==
  /\ bg = "closeRest"
  /\ IF readEvt = "deleted"
     THEN Crash("secondClose")
          /\ UNCHANGED <<eventVars, jobVars, bg, bgHolds>>
     ELSE /\ heartbeat' = FALSE
          /\ PostUi("closed")
          /\ readEvt' = "deleted" /\ writeEvt' = "deleted"
          /\ PostBg(Job("release", FALSE, "self"))
          /\ EndJob /\ UNCHANGED crash
  /\ BgKeeps
  /\ UNCHANGED <<socketVars, selfM, dispatching>>

Release ==
  /\ bg = "release"
  /\ selfM' = FALSE
  /\ EndJob /\ BgKeeps
  /\ UNCHANGED <<socketVars, eventVars, jobVars, dispatching,
                 crash>>
-----------------------------------------------------------------------------
(* The UI worker and GoogleDriveFsmSession::handleInput.                   *)

UiKeeps == UNCHANGED <<selfM, eventVars, bg, bgHolds, dispatching, peer, crash>>
UiGoto(step) == ui' = step

\* handleConnected and handleClose do nothing.
UiTakeNotice ==
  /\ ui = "idle" /\ uiJobs # <<>> /\ Head(uiJobs) # "input"
  /\ uiJobs' = Tail(uiJobs)
  /\ UiKeeps
  /\ UNCHANGED <<socketVars, bgJobs, ui, drained, sends>>

\* handleInput reads the request only while the machine waits for the code the
\* browser brings; in any other state it closes the connection.
UiTakeInput ==
  /\ ui = "idle" /\ uiJobs # <<>> /\ Head(uiJobs) = "input"
  /\ uiJobs' = Tail(uiJobs)
  /\ UiGoto("getInput") \/ UiGoto("close")
  /\ drained' = FALSE
  /\ UiKeeps
  /\ UNCHANGED <<socketVars, bgJobs, sends>>

\* close() tests the status and then posts _close bound to `this'.
UiCloseTest ==
  /\ ui = "close"
  /\ UiGoto(IF statusM = "Close" THEN "idle" ELSE "postClose")
  /\ UiKeeps
  /\ UNCHANGED <<socketVars, jobVars, drained, sends>>

UiPostClose ==
  /\ ui = "postClose"
  /\ PostBg(Job("close", FALSE, "upper"))
  /\ UiGoto("idle")
  /\ UiKeeps
  /\ UNCHANGED <<socketVars, uiJobs, drained, sends>>

\* getInput takes some of the queue, or finds it empty.
UiGet ==
  /\ ui = "getInput"
  /\ \/ \E n \in 1 .. inLen : inLen' = inLen - n /\ drained' = FALSE
     \/ inLen = 0 /\ drained' = TRUE /\ UNCHANGED inLen
  /\ UiGoto("flow")
  /\ UiKeeps
  /\ UNCHANGED <<statusM, stopReadingM, outLen, jobVars, sends>>

AfterGet == IF drained THEN "reply" ELSE "getInput"

\* Faulty getInput: reading is resumed only when the queue is above low water.
MayResumeWrongSide ==
  stopReadingM /\ statusM # "Close" /\ InStatus = "Ok"

\* Faulty getInput: reading is resumed whether or not it was stopped.
MayResumeAnyhow == statusM # "Close" /\ InStatus = "Low"

MayResume == stopReadingM /\ statusM # "Close" /\ InStatus = "Low"

UiFlowTest ==
  /\ ui = "flow"
  /\ UiGoto(IF MayResume THEN "resume" ELSE AfterGet)
  /\ UiKeeps
  /\ UNCHANGED <<socketVars, jobVars, drained, sends>>

\* stopReadingM = false; the read itself is posted next, bound to `this'.
UiResume ==
  /\ ui = "resume"
  /\ stopReadingM' = FALSE
  /\ UiGoto("postRead")
  /\ UiKeeps
  /\ UNCHANGED <<statusM, inLen, outLen, jobVars, drained, sends>>

UiPostRead ==
  /\ ui = "postRead"
  /\ PostBg(Job("onRead", FALSE, "upper"))
  /\ UiGoto(AfterGet)
  /\ UiKeeps
  /\ UNCHANGED <<socketVars, uiJobs, drained, sends>>

\* The request may be complete, and is then answered.
UiReply ==
  /\ ui = "reply"
  /\ \/ UiGoto("idle") /\ UNCHANGED sends
     \/ sends < MaxSend /\ sends' = sends + 1 /\ UiGoto("sendn")
  /\ UiKeeps
  /\ UNCHANGED <<socketVars, jobVars, drained>>

\* sendn stores all or nothing, and nothing once the connection is closed.
UiSendn ==
  /\ ui = "sendn"
  /\ IF statusM = "Close"
     THEN UiGoto("afterSent") /\ UNCHANGED outLen
     ELSE /\ UiGoto("postWrite")
          /\ outLen' = IF outLen < OutCapacity THEN outLen + 1 ELSE outLen
  /\ UiKeeps
  /\ UNCHANGED <<statusM, stopReadingM, inLen, jobVars, drained, sends>>

\* addWriteEvent is bound to a copy of selfM, which may be empty by now.
UiPostWrite ==
  /\ ui = "postWrite"
  /\ PostBg(Job(IF selfM THEN "addWrite" ELSE "addWriteOnNull", selfM, "upper"))
  /\ UiGoto("afterSent")
  /\ UiKeeps
  /\ UNCHANGED <<socketVars, uiJobs, drained, sends>>

\* closeAfterSent overwrites whatever the status is.
UiCloseAfterSent ==
  /\ ui = "afterSent"
  /\ statusM' = "CloseAfterSent"
  /\ UiGoto("idle")
  /\ UiKeeps
  /\ UNCHANGED <<stopReadingM, inLen, outLen, jobVars, drained, sends>>

\* A job bound to an empty selfM calls a method of no object.
AddWriteOnNull ==
  /\ bg = "addWriteOnNull"
  /\ Crash("upperJobOnEmptySelf")
  /\ EndJob /\ BgKeeps
  /\ UNCHANGED <<socketVars, selfM, eventVars, jobVars, dispatching>>

-----------------------------------------------------------------------------
Peer == PeerSends \/ PeerCloses

Background ==
  \/ StartDispatch \/ EndDispatch \/ FireRead \/ FireWrite \/ FireHeartbeat
  \/ TakeJob \/ StartHeartbeatTimer \/ AddEventJob
  \/ ReadNoRoom \/ ReadFirst \/ ReadFails \/ ReadWouldBlock \/ ReadMore
  \/ ReadStops \/ ReadEnd \/ ReadStop \/ ReadArm \/ ReadNotify
  \/ WriteSome \/ WriteFails \/ WriteStops \/ WriteRearm \/ WriteClose
  \/ CloseAgain \/ CloseMark \/ CloseRest \/ Release \/ AddWriteOnNull

Upper ==
  \/ UiTakeNotice \/ UiTakeInput \/ UiCloseTest \/ UiPostClose \/ UiGet
  \/ UiFlowTest \/ UiResume \/ UiPostRead \/ UiReply \/ UiSendn \/ UiPostWrite
  \/ UiCloseAfterSent

\* A crash ends the program.
Next == crash = "none" /\ (Peer \/ Background \/ Upper)

Spec == Init /\ [][Next]_vars

\* event_add succeeds: the job is not posted again.
EventAdded == AddEventJob /\ bgJobs' = bgJobs

\* Both workers keep running; the background worker leaves a dispatch, which
\* does not go on for ever passing over a socket that is ready; event_add does
\* not fail for ever, and errno, which Winsock never sets, is not EWOULDBLOCK each
\* time that recv fails.
Fairness ==
  /\ WF_vars(crash = "none" /\ Upper)
  /\ WF_vars(crash = "none" /\ Background)
  /\ WF_vars(crash = "none" /\ EndDispatch)
  /\ SF_vars(crash = "none" /\ FireRead)
  /\ SF_vars(crash = "none" /\ FireWrite)
  /\ SF_vars(crash = "none" /\ EventAdded)
  /\ SF_vars(crash = "none" /\ ReadFails)

FairSpec == Spec /\ Fairness
-----------------------------------------------------------------------------
JobOps == {"startHeartbeat", "addRead", "addWrite", "onRead", "onWrite",
           "close", "release", "addWriteOnNull"}
BgSteps == JobOps \cup {"idle", "readMore", "readEnd", "readStop", "readArm",
                       "readNotify", "writeRearm", "writeClose", "closeRest"}
UiSteps == {"idle", "getInput", "flow", "resume", "postRead", "reply", "sendn",
            "postWrite", "afterSent", "close", "postClose"}

Deaths == {"jobOnFreed", "upperJobOnFreed",
           "upperJobOnEmptySelf", "timerOnFreed",
           "addOnDeleted", "emptySelf", "secondClose"}

TypeOK ==
  /\ statusM \in {"Active", "Close", "CloseAfterSent"}
  /\ stopReadingM \in BOOLEAN
  /\ inLen \in 0 .. InCapacity /\ outLen \in 0 .. OutCapacity
  /\ selfM \in BOOLEAN
  /\ readEvt \in {"off", "armed", "deleted"}
  /\ writeEvt \in {"off", "armed", "deleted"}
  /\ heartbeat \in BOOLEAN
  /\ bgJobs \in Seq([op : JobOps, ref : BOOLEAN,
                     by : {"self", "reactor", "upper"}])
  /\ uiJobs \in Seq({"connected", "input", "closed"})
  /\ bg \in BgSteps /\ ui \in UiSteps
  /\ bgHolds \in BOOLEAN /\ drained \in BOOLEAN /\ dispatching \in BOOLEAN
  /\ peer \in [unread : Nat, sent : Nat, end : {"open", "closed", "reset"}]
  /\ sends \in 0 .. MaxSend
  /\ crash \in Deaths \cup {"none"}

PendingJob(op) == \E i \in 1 .. Len(bgJobs) : bgJobs[i].op = op
JobIndices(ops) == {i \in 1 .. Len(bgJobs) : bgJobs[i].op \in ops}

\* closeAfterSent, called while _close runs or later, overwrites CloseE.
Revived == statusM # "Close" /\ (readEvt = "deleted" \/ bg = "closeRest")

\* After the connection is deleted no message of libevent reaches it: the jobs
\* the reactor posts are bound to `this', and yet _release always comes after
\* them, because _close frees the events in the job that posts _release.  A job
\* or a timer of the background worker itself, bound to `this' too, finds the
\* connection destroyed only when closeAfterSent has revived a closed one.
JobsFindConnection ==
  /\ \A i \in 1 .. Len(bgJobs) :
       bgJobs[i].by = "reactor" =>
         /\ selfM
         /\ \A j \in 1 .. i : bgJobs[j].op # "release"
  /\ crash \in {"jobOnFreed", "timerOnFreed"} => Revived

Reading == bg \in {"onRead", "readMore", "readEnd", "readStop", "readArm", "addRead"}

\* At most one read is armed, queued or under way, although both the reactor
\* and, when getInput resumes the reading, the UI thread can start one: two of
\* them would arm one event twice and write the input queue in turns.
SingleReader ==
  LET pending == JobIndices({"onRead", "addRead"})
      others  == readEvt = "armed" \/ Reading \/ ui = "postRead"
  IN  crash = "none" =>
        /\ \A i, j \in pending : i = j
        /\ pending # {} => ~others
        /\ Reading => readEvt # "armed" /\ ui # "postRead"
        /\ readEvt = "armed" => ui # "postRead"

Open == crash = "none" /\ statusM # "Close" /\ ~Revived

\* The protocol will look at the input queue once more, and resume the reading
\* or close the connection.
InputAwaited ==
  \/ \E i \in 1 .. Len(uiJobs) : uiJobs[i] = "input"
  \/ bg = "readNotify"
  \/ ui \in {"getInput", "flow", "resume"}

\* Reading: a read is armed, queued or
\* under way, or the reading was stopped by a full queue and the protocol has
\* yet to drain it, or somebody is about to close the connection.  stopReadingM
\* is set by one thread and tested and reset by the other.
ReadingGoesOn ==
  Open =>
    \/ readEvt = "armed" \/ PendingJob("onRead") \/ PendingJob("addRead")
    \/ Reading \/ ui = "postRead"
    \/ stopReadingM /\ InputAwaited
    \/ PendingJob("close") \/ bg = "close" \/ ui \in {"close", "postClose"}

\* Writing: somebody is to write what is in the output queue.
WritingGoesOn ==
  Open /\ outLen > 0 =>
    \/ writeEvt = "armed" \/ PendingJob("onWrite") \/ PendingJob("addWrite")
    \/ bg \in {"onWrite", "writeRearm", "addWrite", "close"}
    \/ ui = "postWrite"

\* An open connection never stalls: its reading goes on, or waits for the protocol
\* to make room, and what the protocol has sent is never left with nobody to
\* write it, though two threads start and stop both.
NeverStalls == ReadingGoesOn /\ WritingGoesOn

\* The connection is released after it is closed, whatever the upper protocol
\* does meanwhile, and after the peer has gone, even when the input queue was full
\* and the reading was stopped; unless the program dies.
ClosedIsReleased ==
  (statusM = "Close" \/ peer.end # "open") ~> ~selfM \/ crash # "none"

\* A message the upper protocol posts after the connection was deleted still
\* finds it, being bound to selfM (SocketConnection.h:150-152).
UpperJobsHoldSelf == crash # "upperJobOnFreed"
=============================================================================
