----------------------- MODULE SocketConnectionProofs -----------------------
(***************************************************************************)
(* Proofs about SocketConnection, for every size of the queues, every water *)
(* mark with LowWater < HighWater < InCapacity and every number of messages. *)
(* All the theorems follow from one inductive invariant, IndInv; the lemmas *)
(* ending in Step keep its parts one by one, each with a case per action.   *)
(***************************************************************************)
EXTENDS SocketConnection, TLAPS

\* The type invariant by kinds of variables: flags, which Zenon handles, the
\* scalars and the two queues, which SMT handles, and the peer.
JobSet == [op : JobOps, ref : BOOLEAN, by : {"self", "reactor", "upper"}]
FlagsOK ==
  /\ stopReadingM \in BOOLEAN /\ selfM \in BOOLEAN /\ heartbeat \in BOOLEAN
  /\ bgHolds \in BOOLEAN /\ drained \in BOOLEAN /\ dispatching \in BOOLEAN
RestOK ==
  /\ statusM \in {"Active", "Close", "CloseAfterSent"}
  /\ inLen \in 0 .. InCapacity /\ outLen \in 0 .. OutCapacity
  /\ readEvt \in {"off", "armed", "deleted"}
  /\ writeEvt \in {"off", "armed", "deleted"}
  /\ bg \in BgSteps /\ ui \in UiSteps
  /\ sends \in 0 .. MaxSend
  /\ crash \in Deaths \cup {"none"}
QueuesOK ==
  /\ bgJobs \in Seq(JobSet)
  /\ uiJobs \in Seq({"connected", "input", "closed"})
PeerOK == peer \in [unread : Nat, sent : Nat, end : {"open", "closed", "reset"}]

ReactorJobs ==
  { Job("onRead", FALSE, "reactor"), Job("onWrite", FALSE, "reactor") }
SelfJobs == { Job("addRead", FALSE, "self"), Job("addWrite", FALSE, "self"),
              Job("close", FALSE, "self"), Job("release", FALSE, "self") }
UpperJobs == { Job("onRead", FALSE, "upper"), Job("addWrite", TRUE, "upper"),
               Job("addWriteOnNull", FALSE, "upper"),
               Job("close", FALSE, "upper") }

\* Every job the code posts is one.
LEMMA JobsPosted ==
  ASSUME NEW q \in Seq(JobSet)
  PROVE  /\ Append(q, Job("onRead", FALSE, "reactor")) \in Seq(JobSet)
         /\ Append(q, Job("onRead", FALSE, "upper")) \in Seq(JobSet)
         /\ Append(q, Job("onWrite", FALSE, "reactor")) \in Seq(JobSet)
         /\ Append(q, Job("addRead", FALSE, "self")) \in Seq(JobSet)
         /\ Append(q, Job("addWrite", FALSE, "self")) \in Seq(JobSet)
         /\ Append(q, Job("addWrite", TRUE, "upper")) \in Seq(JobSet)
         /\ Append(q, Job("addWriteOnNull", FALSE, "upper")) \in Seq(JobSet)
         /\ Append(q, Job("close", FALSE, "self")) \in Seq(JobSet)
         /\ Append(q, Job("close", FALSE, "upper")) \in Seq(JobSet)
         /\ Append(q, Job("release", FALSE, "self")) \in Seq(JobSet)
<1>1. \A job \in JobSet : Append(q, job) \in Seq(JobSet)
  OBVIOUS
<1>2. ASSUME NEW op \in JobOps, NEW by \in {"self", "reactor", "upper"},
             NEW ref \in BOOLEAN
      PROVE  Job(op, ref, by) \in JobSet
  BY Zenon DEF Job, JobSet
<1>3. TRUE \in BOOLEAN /\ FALSE \in BOOLEAN
  BY Zenon
<1>4. \A op \in JobOps, by \in {"self", "reactor", "upper"} :
        /\ Job(op, FALSE, by) \in JobSet
        /\ Job(op, TRUE, by) \in JobSet
  BY <1>2, <1>3, Zenon
<1>5. {"onRead", "onWrite", "addRead", "addWrite", "addWriteOnNull", "close",
       "release"} \subseteq JobOps
  BY DEF JobOps
<1> QED
  BY <1>1, <1>4, <1>5

\* Each part of the type invariant is kept by every step.
LEMMA FlagsStep ==
  ASSUME FlagsOK, QueuesOK, [Next]_vars
  PROVE  FlagsOK'
<1> USE DEF FlagsOK, PostBg, PostUi, Crash, BgKeeps, UiKeeps, BgGoto, UiGoto,
        EndJob, socketVars, eventVars, jobVars
<1>1. CASE PeerSends
  BY <1>1, Zenon DEF PeerSends
<1>2. CASE PeerCloses
  BY <1>2, Zenon DEF PeerCloses
<1>3. CASE StartDispatch
  BY <1>3, Zenon DEF StartDispatch
<1>4. CASE EndDispatch
  BY <1>4, Zenon DEF EndDispatch
<1>5. CASE FireRead
  BY <1>5, Zenon DEF FireRead
<1>6. CASE FireWrite
  BY <1>6, Zenon DEF FireWrite
<1>7. CASE FireHeartbeat
  BY <1>7, Zenon DEF FireHeartbeat
<1>8. CASE TakeJob
  <2>1. Head(bgJobs) \in JobSet
    BY <1>8 DEF TakeJob, QueuesOK
  <2>2. Head(bgJobs).op \in JobOps /\ Head(bgJobs).op \in BgSteps
          /\ Head(bgJobs).ref \in BOOLEAN
    BY <2>1 DEF JobSet, BgSteps
  <2> QED
    BY <1>8, <2>2, Zenon DEF TakeJob
<1>9. CASE StartHeartbeatTimer
  BY <1>9, Zenon DEF StartHeartbeatTimer
<1>10. CASE AddEventJob
  BY <1>10, Zenon DEF AddEventJob, AddReadEvent, AddWriteEvent, AddEvent
<1>11. CASE ReadNoRoom
  BY <1>11, Zenon DEF ReadNoRoom
<1>12. CASE ReadFirst
  BY <1>12, Zenon DEF ReadFirst, Receive
<1>13. CASE ReadFails
  BY <1>13, Zenon DEF ReadFails
<1>14. CASE ReadWouldBlock
  BY <1>14, Zenon DEF ReadWouldBlock
<1>15. CASE ReadMore
  BY <1>15, Zenon DEF ReadMore, Receive
<1>16. CASE ReadStops
  BY <1>16, Zenon DEF ReadStops
<1>17. CASE ReadEnd
  BY <1>17, Zenon DEF ReadEnd
<1>42. CASE ReadStop
  BY <1>42, Zenon DEF ReadStop
<1>43. CASE ReadArm
  BY <1>43, Zenon DEF ReadArm, AddReadEvent, AddEvent
<1>18. CASE ReadNotify
  BY <1>18, Zenon DEF ReadNotify, NotifyInput
<1>19. CASE WriteSome
  BY <1>19, Zenon DEF WriteSome
<1>20. CASE WriteFails
  BY <1>20, Zenon DEF WriteFails
<1>21. CASE WriteStops
  BY <1>21, Zenon DEF WriteStops
<1>22. CASE WriteRearm
  BY <1>22, Zenon DEF WriteRearm, AddWriteEvent, AddEvent
<1>23. CASE WriteClose
  BY <1>23, Zenon DEF WriteClose
<1>24. CASE CloseAgain
  BY <1>24, Zenon DEF CloseAgain
<1>25. CASE CloseMark
  BY <1>25, Zenon DEF CloseMark
<1>26. CASE CloseRest
  BY <1>26, Zenon DEF CloseRest
<1>27. CASE Release
  BY <1>27, Zenon DEF Release
<1>28. CASE AddWriteOnNull
  BY <1>28, Zenon DEF AddWriteOnNull
<1>29. CASE UiTakeNotice
  BY <1>29, Zenon DEF UiTakeNotice
<1>30. CASE UiTakeInput
  BY <1>30, Zenon DEF UiTakeInput
<1>31. CASE UiCloseTest
  BY <1>31, Zenon DEF UiCloseTest
<1>32. CASE UiPostClose
  BY <1>32, Zenon DEF UiPostClose
<1>33. CASE UiGet
  BY <1>33, Zenon DEF UiGet
<1>34. CASE UiFlowTest
  BY <1>34, Zenon DEF UiFlowTest, AfterGet, MayResume, InStatus
<1>35. CASE UiResume
  BY <1>35, Zenon DEF UiResume
<1>36. CASE UiPostRead
  BY <1>36, Zenon DEF UiPostRead, AfterGet
<1>37. CASE UiReply
  BY <1>37, Zenon DEF UiReply
<1>38. CASE UiSendn
  BY <1>38, Zenon DEF UiSendn
<1>39. CASE UiPostWrite
  BY <1>39, Zenon DEF UiPostWrite
<1>40. CASE UiCloseAfterSent
  BY <1>40, Zenon DEF UiCloseAfterSent
<1>41. CASE UNCHANGED vars
  BY <1>41, Zenon DEF vars
<1> QED
  BY <1>1, <1>2, <1>3, <1>4, <1>5, <1>6, <1>7, <1>8, <1>9, <1>10, <1>11, <1>12,
     <1>13, <1>14, <1>15, <1>16, <1>17, <1>18, <1>19, <1>20, <1>21, <1>22,
     <1>23, <1>24, <1>25, <1>26, <1>27, <1>28, <1>29, <1>30, <1>31, <1>32,
     <1>33, <1>34, <1>35, <1>36, <1>37, <1>38, <1>39, <1>40, <1>41, <1>42,
     <1>43 DEF Next, Peer, Background, Upper

\* No step breaks the types of the status, the queues of data, the events and the threads.
LEMMA RestStep ==
  ASSUME RestOK, QueuesOK, [Next]_vars
  PROVE  RestOK'
<1> USE WaterAssumption, BoundAssumption DEF RestOK, BgSteps, JobOps, UiSteps,
        Deaths, PostBg, PostUi, Crash, BgKeeps, UiKeeps, BgGoto, UiGoto,
        EndJob, socketVars, eventVars, jobVars
<1>1. CASE PeerSends
  BY <1>1 DEF PeerSends
<1>2. CASE PeerCloses
  BY <1>2 DEF PeerCloses
<1>3. CASE StartDispatch
  BY <1>3 DEF StartDispatch
<1>4. CASE EndDispatch
  BY <1>4 DEF EndDispatch
<1>5. CASE FireRead
  BY <1>5 DEF FireRead
<1>6. CASE FireWrite
  BY <1>6 DEF FireWrite
<1>7. CASE FireHeartbeat
  BY <1>7 DEF FireHeartbeat
<1>8. CASE TakeJob
  <2>1. Head(bgJobs) \in JobSet
    BY <1>8 DEF TakeJob, QueuesOK
  <2>2. Head(bgJobs).op \in JobOps /\ Head(bgJobs).op \in BgSteps
          /\ Head(bgJobs).ref \in BOOLEAN
    BY <2>1 DEF JobSet, BgSteps
  <2> QED
    BY <1>8, <2>2 DEF TakeJob
<1>9. CASE StartHeartbeatTimer
  BY <1>9 DEF StartHeartbeatTimer
<1>10. CASE AddEventJob
  <2>1. CASE bg = "addRead" /\ AddReadEvent
    BY <1>10, <2>1 DEF AddEventJob, AddReadEvent, AddEvent
  <2>2. CASE bg = "addWrite" /\ AddWriteEvent
    BY <1>10, <2>2 DEF AddEventJob, AddWriteEvent, AddEvent
  <2> QED
    BY <1>10, <2>1, <2>2 DEF AddEventJob
<1>11. CASE ReadNoRoom
  BY <1>11 DEF ReadNoRoom
<1>12. CASE ReadFirst
  BY <1>12 DEF ReadFirst, Receive
<1>13. CASE ReadFails
  BY <1>13 DEF ReadFails
<1>14. CASE ReadWouldBlock
  BY <1>14 DEF ReadWouldBlock
<1>15. CASE ReadMore
  BY <1>15 DEF ReadMore, Receive
<1>16. CASE ReadStops
  BY <1>16 DEF ReadStops
<1>17. CASE ReadEnd
  BY <1>17 DEF ReadEnd
<1>42. CASE ReadStop
  BY <1>42 DEF ReadStop
<1>43. CASE ReadArm
  BY <1>43 DEF ReadArm, AddReadEvent, AddEvent
<1>18. CASE ReadNotify
  BY <1>18 DEF ReadNotify, NotifyInput
<1>19. CASE WriteSome
  BY <1>19 DEF WriteSome
<1>20. CASE WriteFails
  BY <1>20 DEF WriteFails
<1>21. CASE WriteStops
  BY <1>21 DEF WriteStops
<1>22. CASE WriteRearm
  BY <1>22 DEF WriteRearm, AddWriteEvent, AddEvent
<1>23. CASE WriteClose
  BY <1>23 DEF WriteClose
<1>24. CASE CloseAgain
  BY <1>24 DEF CloseAgain
<1>25. CASE CloseMark
  BY <1>25 DEF CloseMark
<1>26. CASE CloseRest
  BY <1>26 DEF CloseRest
<1>27. CASE Release
  BY <1>27 DEF Release
<1>28. CASE AddWriteOnNull
  BY <1>28 DEF AddWriteOnNull
<1>29. CASE UiTakeNotice
  BY <1>29 DEF UiTakeNotice
<1>30. CASE UiTakeInput
  BY <1>30 DEF UiTakeInput
<1>31. CASE UiCloseTest
  BY <1>31 DEF UiCloseTest
<1>32. CASE UiPostClose
  BY <1>32 DEF UiPostClose
<1>33. CASE UiGet
  BY <1>33 DEF UiGet
<1>34. CASE UiFlowTest
  BY <1>34 DEF UiFlowTest, AfterGet, MayResume, InStatus
<1>35. CASE UiResume
  BY <1>35 DEF UiResume
<1>36. CASE UiPostRead
  BY <1>36 DEF UiPostRead, AfterGet
<1>37. CASE UiReply
  BY <1>37 DEF UiReply
<1>38. CASE UiSendn
  BY <1>38 DEF UiSendn
<1>39. CASE UiPostWrite
  BY <1>39 DEF UiPostWrite
<1>40. CASE UiCloseAfterSent
  BY <1>40 DEF UiCloseAfterSent
<1>41. CASE UNCHANGED vars
  BY <1>41 DEF vars
<1> QED
  BY <1>1, <1>2, <1>3, <1>4, <1>5, <1>6, <1>7, <1>8, <1>9, <1>10, <1>11, <1>12,
     <1>13, <1>14, <1>15, <1>16, <1>17, <1>18, <1>19, <1>20, <1>21, <1>22,
     <1>23, <1>24, <1>25, <1>26, <1>27, <1>28, <1>29, <1>30, <1>31, <1>32,
     <1>33, <1>34, <1>35, <1>36, <1>37, <1>38, <1>39, <1>40, <1>41, <1>42,
     <1>43 DEF Next, Peer, Background, Upper

\* No step posts anything but a job of the connection.
LEMMA QueuesStep ==
  ASSUME FlagsOK, QueuesOK, [Next]_vars
  PROVE  QueuesOK'
<1> USE JobsPosted DEF QueuesOK, PostBg, PostUi, Crash, BgKeeps, UiKeeps,
        BgGoto, UiGoto, EndJob, socketVars, eventVars, jobVars
<1>1. CASE PeerSends
  BY <1>1 DEF PeerSends
<1>2. CASE PeerCloses
  BY <1>2 DEF PeerCloses
<1>3. CASE StartDispatch
  BY <1>3 DEF StartDispatch
<1>4. CASE EndDispatch
  BY <1>4 DEF EndDispatch
<1>5. CASE FireRead
  BY <1>5 DEF FireRead
<1>6. CASE FireWrite
  BY <1>6 DEF FireWrite
<1>7. CASE FireHeartbeat
  BY <1>7 DEF FireHeartbeat
<1>8. CASE TakeJob
  BY <1>8 DEF TakeJob
<1>9. CASE StartHeartbeatTimer
  BY <1>9 DEF StartHeartbeatTimer
<1>10. CASE AddEventJob
  <2>1. CASE bg = "addRead" /\ AddReadEvent
    BY <1>10, <2>1 DEF AddEventJob, AddReadEvent, AddEvent
  <2>2. CASE bg = "addWrite" /\ AddWriteEvent
    BY <1>10, <2>2 DEF AddEventJob, AddWriteEvent, AddEvent
  <2> QED
    BY <1>10, <2>1, <2>2 DEF AddEventJob
<1>11. CASE ReadNoRoom
  BY <1>11 DEF ReadNoRoom
<1>12. CASE ReadFirst
  BY <1>12 DEF ReadFirst, Receive
<1>13. CASE ReadFails
  BY <1>13 DEF ReadFails
<1>14. CASE ReadWouldBlock
  BY <1>14 DEF ReadWouldBlock
<1>15. CASE ReadMore
  BY <1>15 DEF ReadMore, Receive
<1>16. CASE ReadStops
  BY <1>16 DEF ReadStops
<1>17. CASE ReadEnd
  BY <1>17 DEF ReadEnd
<1>42. CASE ReadStop
  BY <1>42 DEF ReadStop
<1>43. CASE ReadArm
  BY <1>43 DEF ReadArm, AddReadEvent, AddEvent
<1>18. CASE ReadNotify
  BY <1>18 DEF ReadNotify, NotifyInput
<1>19. CASE WriteSome
  BY <1>19 DEF WriteSome
<1>20. CASE WriteFails
  BY <1>20 DEF WriteFails
<1>21. CASE WriteStops
  BY <1>21 DEF WriteStops
<1>22. CASE WriteRearm
  BY <1>22 DEF WriteRearm, AddWriteEvent, AddEvent
<1>23. CASE WriteClose
  BY <1>23 DEF WriteClose
<1>24. CASE CloseAgain
  BY <1>24 DEF CloseAgain
<1>25. CASE CloseMark
  BY <1>25 DEF CloseMark
<1>26. CASE CloseRest
  <2>1. /\ bgJobs' = bgJobs
             \/ bgJobs' = Append(bgJobs, Job("release", FALSE, "self"))
        /\ uiJobs' = uiJobs \/ uiJobs' = Append(uiJobs, "closed")
    BY <1>26 DEF CloseRest
  <2>2. bgJobs' \in Seq(JobSet)
    BY <2>1
  <2>3. uiJobs' \in Seq({"connected", "input", "closed"})
    BY <2>1
  <2> QED
    BY <2>2, <2>3
<1>27. CASE Release
  BY <1>27 DEF Release
<1>28. CASE AddWriteOnNull
  BY <1>28 DEF AddWriteOnNull
<1>29. CASE UiTakeNotice
  BY <1>29 DEF UiTakeNotice
<1>30. CASE UiTakeInput
  BY <1>30 DEF UiTakeInput
<1>31. CASE UiCloseTest
  BY <1>31 DEF UiCloseTest
<1>32. CASE UiPostClose
  BY <1>32 DEF UiPostClose
<1>33. CASE UiGet
  BY <1>33 DEF UiGet
<1>34. CASE UiFlowTest
  BY <1>34 DEF UiFlowTest, AfterGet, MayResume, InStatus
<1>35. CASE UiResume
  BY <1>35 DEF UiResume
<1>36. CASE UiPostRead
  BY <1>36 DEF UiPostRead, AfterGet
<1>37. CASE UiReply
  BY <1>37 DEF UiReply
<1>38. CASE UiSendn
  BY <1>38 DEF UiSendn
<1>39. CASE UiPostWrite
  <2>1. selfM = TRUE \/ selfM = FALSE
    BY DEF FlagsOK
  <2>2. CASE selfM = TRUE
    BY <1>39, <2>2 DEF UiPostWrite
  <2>3. CASE selfM = FALSE
    BY <1>39, <2>3 DEF UiPostWrite
  <2> QED
    BY <2>1, <2>2, <2>3
<1>40. CASE UiCloseAfterSent
  BY <1>40 DEF UiCloseAfterSent
<1>41. CASE UNCHANGED vars
  BY <1>41 DEF vars
<1> QED
  BY <1>1, <1>2, <1>3, <1>4, <1>5, <1>6, <1>7, <1>8, <1>9, <1>10, <1>11, <1>12,
     <1>13, <1>14, <1>15, <1>16, <1>17, <1>18, <1>19, <1>20, <1>21, <1>22,
     <1>23, <1>24, <1>25, <1>26, <1>27, <1>28, <1>29, <1>30, <1>31, <1>32,
     <1>33, <1>34, <1>35, <1>36, <1>37, <1>38, <1>39, <1>40, <1>41, <1>42,
     <1>43 DEF Next, Peer, Background, Upper

\* No step breaks the type of what the peer has sent.
LEMMA PeerStep ==
  ASSUME PeerOK, RestOK, [Next]_vars
  PROVE  PeerOK'
<1> USE WaterAssumption DEF PeerOK, PostBg, PostUi, Crash, BgKeeps, UiKeeps,
        BgGoto, UiGoto, EndJob, socketVars, eventVars, jobVars
<1>1. CASE PeerSends
  BY <1>1 DEF PeerSends
<1>2. CASE PeerCloses
  BY <1>2 DEF PeerCloses
<1>3. CASE StartDispatch
  BY <1>3 DEF StartDispatch
<1>4. CASE EndDispatch
  BY <1>4 DEF EndDispatch
<1>5. CASE FireRead
  BY <1>5 DEF FireRead
<1>6. CASE FireWrite
  BY <1>6 DEF FireWrite
<1>7. CASE FireHeartbeat
  BY <1>7 DEF FireHeartbeat
<1>8. CASE TakeJob
  BY <1>8 DEF TakeJob
<1>9. CASE StartHeartbeatTimer
  BY <1>9 DEF StartHeartbeatTimer
<1>10. CASE AddEventJob
  BY <1>10 DEF AddEventJob, AddReadEvent, AddWriteEvent, AddEvent
<1>11. CASE ReadNoRoom
  BY <1>11 DEF ReadNoRoom
<1>12. CASE ReadFirst
  BY <1>12 DEF ReadFirst, Receive
<1>13. CASE ReadFails
  BY <1>13 DEF ReadFails
<1>14. CASE ReadWouldBlock
  BY <1>14 DEF ReadWouldBlock
<1>15. CASE ReadMore
  BY <1>15 DEF ReadMore, Receive
<1>16. CASE ReadStops
  BY <1>16 DEF ReadStops
<1>17. CASE ReadEnd
  BY <1>17 DEF ReadEnd
<1>42. CASE ReadStop
  BY <1>42 DEF ReadStop
<1>43. CASE ReadArm
  BY <1>43 DEF ReadArm, AddReadEvent, AddEvent
<1>18. CASE ReadNotify
  BY <1>18 DEF ReadNotify, NotifyInput
<1>19. CASE WriteSome
  BY <1>19 DEF WriteSome
<1>20. CASE WriteFails
  BY <1>20 DEF WriteFails
<1>21. CASE WriteStops
  BY <1>21 DEF WriteStops
<1>22. CASE WriteRearm
  BY <1>22 DEF WriteRearm, AddWriteEvent, AddEvent
<1>23. CASE WriteClose
  BY <1>23 DEF WriteClose
<1>24. CASE CloseAgain
  BY <1>24 DEF CloseAgain
<1>25. CASE CloseMark
  BY <1>25 DEF CloseMark
<1>26. CASE CloseRest
  BY <1>26 DEF CloseRest
<1>27. CASE Release
  BY <1>27 DEF Release
<1>28. CASE AddWriteOnNull
  BY <1>28 DEF AddWriteOnNull
<1>29. CASE UiTakeNotice
  BY <1>29 DEF UiTakeNotice
<1>30. CASE UiTakeInput
  BY <1>30 DEF UiTakeInput
<1>31. CASE UiCloseTest
  BY <1>31 DEF UiCloseTest
<1>32. CASE UiPostClose
  BY <1>32 DEF UiPostClose
<1>33. CASE UiGet
  BY <1>33 DEF UiGet
<1>34. CASE UiFlowTest
  BY <1>34 DEF UiFlowTest, AfterGet, MayResume, InStatus
<1>35. CASE UiResume
  BY <1>35 DEF UiResume
<1>36. CASE UiPostRead
  BY <1>36 DEF UiPostRead, AfterGet
<1>37. CASE UiReply
  BY <1>37 DEF UiReply
<1>38. CASE UiSendn
  BY <1>38 DEF UiSendn
<1>39. CASE UiPostWrite
  BY <1>39 DEF UiPostWrite
<1>40. CASE UiCloseAfterSent
  BY <1>40 DEF UiCloseAfterSent
<1>41. CASE UNCHANGED vars
  BY <1>41 DEF vars
<1> QED
  BY <1>1, <1>2, <1>3, <1>4, <1>5, <1>6, <1>7, <1>8, <1>9, <1>10, <1>11, <1>12,
     <1>13, <1>14, <1>15, <1>16, <1>17, <1>18, <1>19, <1>20, <1>21, <1>22,
     <1>23, <1>24, <1>25, <1>26, <1>27, <1>28, <1>29, <1>30, <1>31, <1>32,
     <1>33, <1>34, <1>35, <1>36, <1>37, <1>38, <1>39, <1>40, <1>41, <1>42,
     <1>43 DEF Next, Peer, Background, Upper

\* TypeOK is the conjunction of its four parts.
LEMMA TypeSplit == TypeOK <=> FlagsOK /\ RestOK /\ QueuesOK /\ PeerOK
  BY Zenon DEF TypeOK, FlagsOK, RestOK, QueuesOK, PeerOK, JobSet

\* A new connection is well typed.
LEMMA TypeInit == Init => TypeOK
<1> SUFFICES ASSUME Init PROVE TypeOK
  OBVIOUS
<1>1. FlagsOK
  BY Zenon DEF Init, FlagsOK
<1>2. RestOK
  <2>1. /\ statusM = "Active" /\ inLen = 0 /\ outLen = 0 /\ sends = 0
        /\ readEvt \in {"armed", "off"} /\ writeEvt = "off"
        /\ bg = "idle" /\ ui = "idle" /\ crash = "none"
    BY Zenon DEF Init
  <2> QED
    BY <2>1, WaterAssumption, BoundAssumption DEF RestOK, BgSteps, UiSteps
<1>3. QueuesOK
  <2>1. /\ Job("startHeartbeat", FALSE, "self") \in JobSet
        /\ Job("addRead", FALSE, "self") \in JobSet
    BY Zenon DEF Job, JobSet, JobOps
  <2>2. \A job, k \in JobSet : <<job>> \in Seq(JobSet) /\ <<job, k>> \in Seq(JobSet)
    OBVIOUS
  <2>3. <<"connected">> \in Seq({"connected", "input", "closed"})
    OBVIOUS
  <2> QED
    BY <2>1, <2>2, <2>3 DEF Init, QueuesOK
<1>4. PeerOK
  <2>1. [unread |-> 0, sent |-> 0, end |-> "open"]
          \in [unread : Nat, sent : Nat, end : {"open", "closed", "reset"}]
    OBVIOUS
  <2> QED
    BY <2>1 DEF Init, PeerOK
<1> QED
  BY <1>1, <1>2, <1>3, <1>4, TypeSplit

\* Every step keeps the types.
LEMMA TypeStep == TypeOK /\ [Next]_vars => TypeOK'
<1> SUFFICES ASSUME TypeOK, [Next]_vars PROVE TypeOK'
  OBVIOUS
<1>1. FlagsOK /\ RestOK /\ QueuesOK /\ PeerOK
  BY TypeSplit
<1>2. FlagsOK' /\ RestOK' /\ QueuesOK' /\ PeerOK'
  BY <1>1, FlagsStep, RestStep, QueuesStep, PeerStep
<1> QED
  BY <1>2 DEF TypeOK, FlagsOK, RestOK, QueuesOK, PeerOK, JobSet

\* The read goes round as a token: the event is armed, or one job will read, or
\* the background worker reads, or the UI thread is about to post the read, or
\* the reading is stopped and whoever clears stopReadingM starts it again.
ReadOps == {"onRead", "addRead"}
NoRead(q) == \A i \in 1 .. Len(q) : q[i].op \notin ReadOps
OneRead(q) ==
  \A i, j \in 1 .. Len(q) :
    q[i].op \in ReadOps /\ q[j].op \in ReadOps => i = j

OneToken ==
  crash = "none" =>
    /\ OneRead(bgJobs)
    /\ ~NoRead(bgJobs) =>
         readEvt # "armed" /\ ~Reading /\ ui # "postRead" /\ ~stopReadingM
    /\ Reading => readEvt # "armed" /\ ui # "postRead" /\ ~stopReadingM
    /\ readEvt = "armed" => ui # "postRead" /\ ~stopReadingM
    /\ ui = "postRead" => ~stopReadingM
    /\ ui = "resume" => stopReadingM

\* What posting a job, and taking one, does to the reads in the queue.
LEMMA ReadAppended ==
  ASSUME NEW q \in Seq(JobSet), NEW job \in JobSet
  PROVE  /\ job.op \notin ReadOps /\ OneRead(q) => OneRead(Append(q, job))
         /\ job.op \notin ReadOps /\ NoRead(q) => NoRead(Append(q, job))
         /\ NoRead(q) => OneRead(Append(q, job))
<1>1. /\ Len(Append(q, job)) = Len(q) + 1
      /\ \A i \in 1 .. Len(q) : Append(q, job)[i] = q[i]
      /\ Append(q, job)[Len(q) + 1] = job
      /\ Len(q) \in Nat
  OBVIOUS
<1>2. \A i \in 1 .. Len(q) + 1 : i \in 1 .. Len(q) \/ i = Len(q) + 1
  BY <1>1
<1> QED
  BY <1>1, <1>2 DEF OneRead, NoRead

\* A queue with one job that reads has none left once that job is taken.
LEMMA ReadTaken ==
  ASSUME NEW q \in Seq(JobSet), q # <<>>, OneRead(q)
  PROVE  /\ OneRead(Tail(q))
         /\ NoRead(q) => NoRead(Tail(q)) /\ Head(q).op \notin ReadOps
         /\ Head(q).op \in ReadOps => NoRead(Tail(q))
<1>1. /\ Len(Tail(q)) = Len(q) - 1 /\ Len(q) \in Nat \ {0}
      /\ \A i \in 1 .. Len(q) - 1 : Tail(q)[i] = q[i + 1]
      /\ Head(q) = q[1]
  OBVIOUS
<1>2. \A i \in 1 .. Len(q) - 1 : i + 1 \in 1 .. Len(q) /\ i + 1 # 1
  BY <1>1
<1>3. 1 \in 1 .. Len(q)
  BY <1>1
<1> QED
  BY <1>1, <1>2, <1>3 DEF OneRead, NoRead

\* Posting another job leaves a queue with at most one job that reads.
LEMMA ReadPosted ==
  ASSUME NEW q \in Seq(JobSet), OneRead(q)
  PROVE  /\ NoRead(q) => /\ OneRead(Append(q, Job("onRead", FALSE, "reactor")))
                         /\ OneRead(Append(q, Job("onRead", FALSE, "upper")))
                         /\ OneRead(Append(q, Job("addRead", FALSE, "self")))
         /\ \A job \in { Job("onWrite", FALSE, "reactor"),
                          Job("addWrite", FALSE, "self"),
                          Job("addWrite", TRUE, "upper"),
                          Job("addWriteOnNull", FALSE, "upper"),
                          Job("close", FALSE, "self"),
                          Job("close", FALSE, "upper"),
                          Job("release", FALSE, "self") } :
              /\ OneRead(Append(q, job))
              /\ NoRead(q) => NoRead(Append(q, job))
<1>1. ASSUME NEW op \in JobOps, NEW by \in {"self", "reactor", "upper"},
             NEW ref \in BOOLEAN
      PROVE  Job(op, ref, by) \in JobSet /\ Job(op, ref, by).op = op
  BY Zenon DEF Job, JobSet
<1>2. TRUE \in BOOLEAN /\ FALSE \in BOOLEAN
  BY Zenon
<1>3. \A op \in JobOps, by \in {"self", "reactor", "upper"} :
        /\ Job(op, FALSE, by) \in JobSet /\ Job(op, FALSE, by).op = op
        /\ Job(op, TRUE, by) \in JobSet /\ Job(op, TRUE, by).op = op
  BY <1>1, <1>2, Zenon
<1>4. {"onRead", "onWrite", "addRead", "addWrite", "addWriteOnNull", "close",
       "release"} \subseteq JobOps
  BY DEF JobOps
<1>5. \A op \in {"onWrite", "addWrite", "addWriteOnNull", "close", "release"} :
        op \notin ReadOps
  BY DEF ReadOps
<1>6. \A job \in JobSet :
        /\ job.op \notin ReadOps => /\ OneRead(Append(q, job))
                                    /\ NoRead(q) => NoRead(Append(q, job))
        /\ NoRead(q) => OneRead(Append(q, job))
  BY ReadAppended
<1>7. \A op \in JobOps, by \in {"self", "reactor", "upper"} :
        /\ NoRead(q) => OneRead(Append(q, Job(op, FALSE, by)))
        /\ op \notin ReadOps => /\ OneRead(Append(q, Job(op, FALSE, by)))
                                /\ OneRead(Append(q, Job(op, TRUE, by)))
                                /\ NoRead(q) =>
                                     /\ NoRead(Append(q, Job(op, FALSE, by)))
                                     /\ NoRead(Append(q, Job(op, TRUE, by)))
  BY <1>3, <1>6
<1> QED
  BY <1>4, <1>5, <1>7

\* No step doubles the token.
LEMMA TokenStep ==
  ASSUME OneToken, FlagsOK, QueuesOK, crash = "none",
         [Next]_vars
  PROVE  OneToken'
<1> USE ReadPosted DEF OneToken, Reading, QueuesOK, PostBg, PostUi, Crash,
        BgKeeps, UiKeeps, BgGoto, UiGoto, EndJob, socketVars, eventVars,
        jobVars
<1>1. CASE PeerSends
  BY <1>1 DEF PeerSends
<1>2. CASE PeerCloses
  BY <1>2 DEF PeerCloses
<1>3. CASE StartDispatch
  BY <1>3 DEF StartDispatch
<1>4. CASE EndDispatch
  BY <1>4 DEF EndDispatch
<1>5. CASE FireRead
  BY <1>5 DEF FireRead
<1>6. CASE FireWrite
  BY <1>6 DEF FireWrite
<1>7. CASE FireHeartbeat
  BY <1>7 DEF FireHeartbeat
<1>8. CASE TakeJob
  <2> DEFINE job == Head(bgJobs)
  <2>1. job \in JobSet /\ bgJobs # <<>> /\ bgJobs' = Tail(bgJobs)
    BY <1>8 DEF TakeJob, QueuesOK
  <2>2. /\ OneRead(Tail(bgJobs))
        /\ NoRead(bgJobs) => NoRead(Tail(bgJobs)) /\ job.op \notin ReadOps
        /\ job.op \in ReadOps => NoRead(Tail(bgJobs))
    BY <2>1, ReadTaken
  <2>3. crash' = "none" => bg' = job.op
    BY <1>8 DEF TakeJob
  <2>4. bg = "idle" /\ UNCHANGED <<readEvt, ui, stopReadingM>>
    BY <1>8 DEF TakeJob
  <2> HIDE DEF job
  <2>5. CASE job.op \in ReadOps
    BY <2>1, <2>2, <2>3, <2>4, <2>5 DEF ReadOps
  <2>6. CASE job.op \notin ReadOps
    <3>1. job.op \in JobOps
      BY <2>1 DEF JobSet
    <3> QED
      BY <2>1, <2>2, <2>3, <2>4, <2>6, <3>1 DEF ReadOps, JobOps
  <2> QED
    BY <2>5, <2>6
<1>9. CASE StartHeartbeatTimer
  BY <1>9 DEF StartHeartbeatTimer
<1>10. CASE AddEventJob
  <2>1. CASE bg = "addRead" /\ AddReadEvent
    BY <1>10, <2>1 DEF AddEventJob, AddReadEvent, AddEvent
  <2>2. CASE bg = "addWrite" /\ AddWriteEvent
    BY <1>10, <2>2 DEF AddEventJob, AddWriteEvent, AddEvent
  <2> QED
    BY <1>10, <2>1, <2>2 DEF AddEventJob
<1>11. CASE ReadNoRoom
  BY <1>11 DEF ReadNoRoom
<1>12. CASE ReadFirst
  BY <1>12 DEF ReadFirst, Receive
<1>13. CASE ReadFails
  BY <1>13 DEF ReadFails
<1>14. CASE ReadWouldBlock
  BY <1>14 DEF ReadWouldBlock
<1>15. CASE ReadMore
  BY <1>15 DEF ReadMore, Receive
<1>16. CASE ReadStops
  BY <1>16 DEF ReadStops
<1>17. CASE ReadEnd
  BY <1>17 DEF ReadEnd
<1>42. CASE ReadStop
  BY <1>42 DEF ReadStop
<1>43. CASE ReadArm
  BY <1>43 DEF ReadArm, AddReadEvent, AddEvent
<1>18. CASE ReadNotify
  BY <1>18 DEF ReadNotify, NotifyInput
<1>19. CASE WriteSome
  BY <1>19 DEF WriteSome
<1>20. CASE WriteFails
  BY <1>20 DEF WriteFails
<1>21. CASE WriteStops
  BY <1>21 DEF WriteStops
<1>22. CASE WriteRearm
  BY <1>22 DEF WriteRearm, AddWriteEvent, AddEvent
<1>23. CASE WriteClose
  BY <1>23 DEF WriteClose
<1>24. CASE CloseAgain
  BY <1>24 DEF CloseAgain
<1>25. CASE CloseMark
  BY <1>25 DEF CloseMark
<1>26. CASE CloseRest
  BY <1>26 DEF CloseRest
<1>27. CASE Release
  BY <1>27 DEF Release
<1>28. CASE AddWriteOnNull
  BY <1>28 DEF AddWriteOnNull
<1>29. CASE UiTakeNotice
  BY <1>29 DEF UiTakeNotice
<1>30. CASE UiTakeInput
  BY <1>30 DEF UiTakeInput
<1>31. CASE UiCloseTest
  BY <1>31 DEF UiCloseTest
<1>32. CASE UiPostClose
  BY <1>32 DEF UiPostClose
<1>33. CASE UiGet
  BY <1>33 DEF UiGet
<1>34. CASE UiFlowTest
  BY <1>34 DEF UiFlowTest, AfterGet, MayResume, InStatus
<1>35. CASE UiResume
  BY <1>35 DEF UiResume
<1>36. CASE UiPostRead
  BY <1>36 DEF UiPostRead, AfterGet
<1>37. CASE UiReply
  BY <1>37 DEF UiReply
<1>38. CASE UiSendn
  BY <1>38 DEF UiSendn
<1>39. CASE UiPostWrite
  <2>1. selfM = TRUE \/ selfM = FALSE
    BY DEF FlagsOK
  <2>2. CASE selfM = TRUE
    BY <1>39, <2>2 DEF UiPostWrite
  <2>3. CASE selfM = FALSE
    BY <1>39, <2>3 DEF UiPostWrite
  <2> QED
    BY <2>1, <2>2, <2>3
<1>40. CASE UiCloseAfterSent
  BY <1>40 DEF UiCloseAfterSent
<1>41. CASE UNCHANGED vars
  BY <1>41 DEF vars
<1> QED
  BY <1>1, <1>2, <1>3, <1>4, <1>5, <1>6, <1>7, <1>8, <1>9, <1>10, <1>11, <1>12,
     <1>13, <1>14, <1>15, <1>16, <1>17, <1>18, <1>19, <1>20, <1>21, <1>22,
     <1>23, <1>24, <1>25, <1>26, <1>27, <1>28, <1>29, <1>30, <1>31, <1>32,
     <1>33, <1>34, <1>35, <1>36, <1>37, <1>38, <1>39, <1>40, <1>41, <1>42,
     <1>43 DEF Next, Peer, Background, Upper

\* The queue of the constructor: a connection whose event_add failed has the
\* addReadEvent posted ahead of the start of the heartbeat.
LEMMA InitJobs ==
  ASSUME Init
  PROVE  \/ /\ readEvt = "armed" /\ Len(bgJobs) = 1
            /\ bgJobs[1].op = "startHeartbeat" /\ bgJobs[1].by = "self"
         \/ /\ readEvt = "off" /\ Len(bgJobs) = 2
            /\ bgJobs[1].op = "addRead" /\ bgJobs[1].by = "self"
            /\ bgJobs[2].op = "startHeartbeat" /\ bgJobs[2].by = "self"
<1>1. /\ Job("startHeartbeat", FALSE, "self").op = "startHeartbeat"
      /\ Job("startHeartbeat", FALSE, "self").by = "self"
      /\ Job("addRead", FALSE, "self").op = "addRead"
      /\ Job("addRead", FALSE, "self").by = "self"
  BY Zenon DEF Job
<1>2. \A x, y : /\ Len(<<x>>) = 1 /\ <<x>>[1] = x
               /\ Len(<<x, y>>) = 2 /\ <<x, y>>[1] = x /\ <<x, y>>[2] = y
  OBVIOUS
<1>3. CASE /\ readEvt = "armed"
           /\ bgJobs = <<Job("startHeartbeat", FALSE, "self")>>
  BY <1>1, <1>2, <1>3
<1>4. CASE /\ readEvt = "off"
           /\ bgJobs = <<Job("addRead", FALSE, "self"), Job("startHeartbeat", FALSE, "self")>>
  <2>1. /\ Len(bgJobs) = 2 /\ bgJobs[1] = Job("addRead", FALSE, "self")
        /\ bgJobs[2] = Job("startHeartbeat", FALSE, "self")
    BY <1>2, <1>4
  <2> QED
    BY <1>1, <1>4, <2>1, Zenon
<1> QED
  BY <1>3, <1>4, Zenon DEF Init

\* At the start the reading is in one place only.
LEMMA TokenInit == Init => OneToken
<1> SUFFICES ASSUME Init PROVE OneToken
  OBVIOUS
<1>1. OneRead(bgJobs) /\ (~NoRead(bgJobs) => readEvt = "off")
  <2>1. CASE readEvt = "armed" /\ Len(bgJobs) = 1 /\ bgJobs[1].op = "startHeartbeat"
    BY <2>1 DEF OneRead, NoRead, ReadOps
  <2>2. CASE /\ readEvt = "off" /\ Len(bgJobs) = 2
             /\ bgJobs[1].op = "addRead" /\ bgJobs[2].op = "startHeartbeat"
    <3>1. \A i \in 1 .. Len(bgJobs) : i = 1 \/ bgJobs[i].op = "startHeartbeat"
      BY <2>2
    <3> QED
      BY <2>2, <3>1 DEF OneRead, ReadOps
  <2> QED
    BY InitJobs, <2>1, <2>2
<1> QED
  BY <1>1 DEF Init, OneToken, Reading

\* One token, one reader.
LEMMA TokenSingle == OneToken /\ QueuesOK => SingleReader
<1> SUFFICES ASSUME OneToken, QueuesOK, crash = "none" PROVE SingleReader
  BY DEF SingleReader
<1> DEFINE pending == JobIndices({"onRead", "addRead"})
<1>1. \A i : i \in pending
        <=> i \in 1 .. Len(bgJobs) /\ bgJobs[i].op \in ReadOps
  BY DEF JobIndices, ReadOps
<1>2. \A i, j \in pending : i = j
  BY <1>1 DEF OneToken, OneRead
<1>3. pending # {} => ~NoRead(bgJobs)
  BY <1>1 DEF NoRead
<1> HIDE DEF pending
<1>4. /\ \A i, j \in pending : i = j
      /\ pending # {} => ~(readEvt = "armed" \/ Reading \/ ui = "postRead")
      /\ Reading => readEvt # "armed" /\ ui # "postRead"
      /\ readEvt = "armed" => ui # "postRead"
  BY <1>2, <1>3 DEF OneToken
<1> QED
  BY <1>4, Zenon DEF SingleReader, pending

\* What the queue of the background worker holds.
Holds(q, ops) == \E i \in 1 .. Len(q) : q[i].op \in ops
WriteOps == {"onWrite", "addWrite"}
ReadQueued(q) == Holds(q, ReadOps)
WriteQueued(q) == Holds(q, WriteOps)
CloseQueued(q) == Holds(q, {"close"})
ReleaseQueued(q) == Holds(q, {"release"})
HasInput(q) == \E i \in 1 .. Len(q) : q[i] = "input"

\* What posting and taking do to the kinds of jobs in the queue.
LEMMA HoldsAppended ==
  ASSUME NEW q \in Seq(JobSet), NEW job \in JobSet, NEW ops
  PROVE  Holds(Append(q, job), ops) <=> Holds(q, ops) \/ job.op \in ops
<1>1. /\ Len(Append(q, job)) = Len(q) + 1
      /\ \A i \in 1 .. Len(q) : Append(q, job)[i] = q[i]
      /\ Append(q, job)[Len(q) + 1] = job
      /\ Len(q) \in Nat
  OBVIOUS
<1>2. \A i : i \in 1 .. Len(q) + 1 <=> i \in 1 .. Len(q) \/ i = Len(q) + 1
  BY <1>1
<1> QED
  BY <1>1, <1>2 DEF Holds

\* What the queue held is the job that was taken, or still there.
LEMMA HoldsTaken ==
  ASSUME NEW q \in Seq(JobSet), q # <<>>, NEW ops
  PROVE  Holds(q, ops) <=> Holds(Tail(q), ops) \/ Head(q).op \in ops
<1>1. /\ Len(Tail(q)) = Len(q) - 1 /\ Len(q) \in Nat \ {0}
      /\ \A i \in 1 .. Len(q) - 1 : Tail(q)[i] = q[i + 1]
      /\ Head(q) = q[1]
  OBVIOUS
<1>2. \A i \in 1 .. Len(q) - 1 : i + 1 \in 1 .. Len(q)
  BY <1>1
<1>3. \A i \in 1 .. Len(q) : i = 1 \/ (i - 1 \in 1 .. Len(q) - 1
        /\ (i - 1) + 1 = i)
  BY <1>1
<1>4. 1 \in 1 .. Len(q)
  BY <1>1
<1> QED
  BY <1>1, <1>2, <1>3, <1>4 DEF Holds

QueueFacts(q) ==
  /\ \A job \in ReactorJobs \cup UpperJobs
                 \cup { Job("addRead", FALSE, "self"),
                        Job("addWrite", FALSE, "self"),
                        Job("close", FALSE, "self") } :
       /\ ReadQueued(q) => ReadQueued(Append(q, job))
       /\ WriteQueued(q) => WriteQueued(Append(q, job))
       /\ CloseQueued(q) => CloseQueued(Append(q, job))
       /\ ReleaseQueued(Append(q, job)) => ReleaseQueued(q)
  /\ ReadQueued(Append(q, Job("onRead", FALSE, "reactor")))
  /\ ReadQueued(Append(q, Job("onRead", FALSE, "upper")))
  /\ ReadQueued(Append(q, Job("addRead", FALSE, "self")))
  /\ WriteQueued(Append(q, Job("onWrite", FALSE, "reactor")))
  /\ WriteQueued(Append(q, Job("addWrite", FALSE, "self")))
  /\ WriteQueued(Append(q, Job("addWrite", TRUE, "upper")))
  /\ CloseQueued(Append(q, Job("close", FALSE, "self")))
  /\ CloseQueued(Append(q, Job("close", FALSE, "upper")))

\* What a queue of jobs holds after another was posted.
LEMMA QueuePosted ==
  ASSUME NEW q \in Seq(JobSet)
  PROVE  QueueFacts(q)
<1>1. ASSUME NEW op \in JobOps, NEW by \in {"self", "reactor", "upper"},
             NEW ref \in BOOLEAN
      PROVE  Job(op, ref, by) \in JobSet /\ Job(op, ref, by).op = op
  BY Zenon DEF Job, JobSet
<1>2. TRUE \in BOOLEAN /\ FALSE \in BOOLEAN
  BY Zenon
<1>3. \A op \in JobOps, by \in {"self", "reactor", "upper"} :
        /\ Job(op, FALSE, by) \in JobSet /\ Job(op, FALSE, by).op = op
        /\ Job(op, TRUE, by) \in JobSet /\ Job(op, TRUE, by).op = op
  BY <1>1, <1>2, Zenon
<1>4. {"onRead", "onWrite", "addRead", "addWrite", "addWriteOnNull", "close",
       "release"} \subseteq JobOps
  BY DEF JobOps
<1>5. \A job \in JobSet :
        /\ ReadQueued(Append(q, job)) <=> ReadQueued(q) \/ job.op \in ReadOps
        /\ WriteQueued(Append(q, job))
             <=> WriteQueued(q) \/ job.op \in WriteOps
        /\ CloseQueued(Append(q, job)) <=> CloseQueued(q) \/ job.op = "close"
        /\ ReleaseQueued(Append(q, job))
             <=> ReleaseQueued(q) \/ job.op = "release"
  BY HoldsAppended DEF ReadQueued, WriteQueued, CloseQueued, ReleaseQueued
<1>6. ASSUME NEW op \in JobOps, NEW job \in JobSet, job.op = op
      PROVE  /\ ReadQueued(Append(q, job)) <=> ReadQueued(q) \/ op \in ReadOps
             /\ WriteQueued(Append(q, job))
                  <=> WriteQueued(q) \/ op \in WriteOps
             /\ CloseQueued(Append(q, job)) <=> CloseQueued(q) \/ op = "close"
             /\ ReleaseQueued(Append(q, job))
                  <=> ReleaseQueued(q) \/ op = "release"
  BY <1>5, <1>6, Zenon
<1>7. \A op \in JobOps, by \in {"self", "reactor", "upper"} :
        /\ ReadQueued(Append(q, Job(op, FALSE, by)))
             <=> ReadQueued(q) \/ op \in ReadOps
        /\ WriteQueued(Append(q, Job(op, FALSE, by)))
             <=> WriteQueued(q) \/ op \in WriteOps
        /\ CloseQueued(Append(q, Job(op, FALSE, by)))
             <=> CloseQueued(q) \/ op = "close"
        /\ ReleaseQueued(Append(q, Job(op, FALSE, by)))
             <=> ReleaseQueued(q) \/ op = "release"
  BY <1>3, <1>6, Zenon
<1>8. \A op \in JobOps, by \in {"self", "reactor", "upper"} :
        /\ ReadQueued(Append(q, Job(op, TRUE, by)))
             <=> ReadQueued(q) \/ op \in ReadOps
        /\ WriteQueued(Append(q, Job(op, TRUE, by)))
             <=> WriteQueued(q) \/ op \in WriteOps
        /\ CloseQueued(Append(q, Job(op, TRUE, by)))
             <=> CloseQueued(q) \/ op = "close"
        /\ ReleaseQueued(Append(q, Job(op, TRUE, by)))
             <=> ReleaseQueued(q) \/ op = "release"
  BY <1>3, <1>6, Zenon
<1> QED
  BY <1>4, <1>7, <1>8 DEF QueueFacts, ReadOps, WriteOps, ReactorJobs, UpperJobs

\* What a queue of jobs held before its first was taken.
LEMMA QueueTaken ==
  ASSUME NEW q \in Seq(JobSet), q # <<>>
  PROVE  /\ ReadQueued(q) <=> ReadQueued(Tail(q)) \/ Head(q).op \in ReadOps
         /\ WriteQueued(q) <=> WriteQueued(Tail(q)) \/ Head(q).op \in WriteOps
         /\ CloseQueued(q) <=> CloseQueued(Tail(q)) \/ Head(q).op = "close"
         /\ ReleaseQueued(q)
              <=> ReleaseQueued(Tail(q)) \/ Head(q).op = "release"
  BY HoldsTaken DEF ReadQueued, WriteQueued, CloseQueued, ReleaseQueued

\* The same of the notices of input in the queue of the UI worker.
InputFacts(q) ==
  /\ HasInput(Append(q, "input"))
  /\ HasInput(Append(q, "closed")) <=> HasInput(q)
  /\ q # <<>> => (HasInput(q) <=> HasInput(Tail(q)) \/ Head(q) = "input")

\* What the queue of the UI thread holds after another job was posted.
LEMMA InputPosted ==
  ASSUME NEW q \in Seq({"connected", "input", "closed"})
  PROVE  InputFacts(q)
<1>1. ASSUME NEW x \in {"connected", "input", "closed"}
      PROVE  HasInput(Append(q, x)) <=> HasInput(q) \/ x = "input"
  <2>1. /\ Len(Append(q, x)) = Len(q) + 1
        /\ \A i \in 1 .. Len(q) : Append(q, x)[i] = q[i]
        /\ Append(q, x)[Len(q) + 1] = x
        /\ Len(q) \in Nat
    OBVIOUS
  <2>2. \A i : i \in 1 .. Len(q) + 1 <=> i \in 1 .. Len(q) \/ i = Len(q) + 1
    BY <2>1
  <2> QED
    BY <2>1, <2>2 DEF HasInput
<1>2. q # <<>> => (HasInput(q) <=> HasInput(Tail(q)) \/ Head(q) = "input")
  <2> SUFFICES ASSUME q # <<>>
               PROVE  HasInput(q) <=> HasInput(Tail(q)) \/ Head(q) = "input"
    OBVIOUS
  <2>1. /\ Len(Tail(q)) = Len(q) - 1 /\ Len(q) \in Nat \ {0}
        /\ \A i \in 1 .. Len(q) - 1 : Tail(q)[i] = q[i + 1]
        /\ Head(q) = q[1]
    OBVIOUS
  <2>2. \A i \in 1 .. Len(q) - 1 : i + 1 \in 1 .. Len(q)
    BY <2>1
  <2>3. \A i \in 1 .. Len(q) : i = 1 \/ (i - 1 \in 1 .. Len(q) - 1
          /\ (i - 1) + 1 = i)
    BY <2>1
  <2>4. 1 \in 1 .. Len(q)
    BY <2>1
  <2>5. ASSUME HasInput(q) PROVE HasInput(Tail(q)) \/ Head(q) = "input"
    <3>1. PICK i \in 1 .. Len(q) : q[i] = "input"
      BY <2>5 DEF HasInput
    <3>2. CASE i = 1
      BY <3>1, <3>2, <2>1
    <3>3. CASE i # 1
      <4>1. i - 1 \in 1 .. Len(Tail(q)) /\ Tail(q)[i - 1] = "input"
        BY <3>1, <3>3, <2>1, <2>3
      <4> QED
        BY <4>1 DEF HasInput
    <3> QED
      BY <3>2, <3>3
  <2>6. ASSUME HasInput(Tail(q)) PROVE HasInput(q)
    BY <2>6, <2>1, <2>2 DEF HasInput
  <2>7. Head(q) = "input" => HasInput(q)
    BY <2>1, <2>4 DEF HasInput
  <2> QED
    BY <2>5, <2>6, <2>7
<1> QED
  BY <1>1, <1>2 DEF InputFacts

\* What closing leaves behind: the events are deleted together and for ever,
\* before the release is posted.
ClosedOnce ==
  /\ statusM = "Close" => readEvt = "deleted" \/ bg = "closeRest"
  /\ bg = "release" \/ ReleaseQueued(bgJobs) \/ ~selfM => readEvt = "deleted"
  /\ readEvt = "deleted" <=> writeEvt = "deleted"

\* ReadingGoesOn in terms of what the queues hold.
ReadOn ==
  Open =>
    \/ readEvt = "armed" \/ ReadQueued(bgJobs)
    \/ Reading \/ ui = "postRead"
    \/ stopReadingM /\ (HasInput(uiJobs) \/ bg = "readNotify"
         \/ ui \in {"getInput", "flow", "resume"})
    \/ CloseQueued(bgJobs) \/ bg = "close" \/ ui \in {"close", "postClose"}

\* getInput resumes the reading when it has found the queue empty, unless more
\* has come since, and then it will be called again.
DrainedIsLow ==
  crash = "none" /\ ui = "flow" /\ drained /\ stopReadingM =>
    inLen <= LowWater \/ HasInput(uiJobs) \/ bg = "readNotify"

\* WritingGoesOn in terms of what the queue holds.
WriteOn ==
  Open /\ outLen > 0 =>
    \/ writeEvt = "armed" \/ WriteQueued(bgJobs)
    \/ bg \in {"onWrite", "writeRearm", "addWrite", "close"}
    \/ ui = "postWrite"

\* Closing happens once, reading and writing go on.
LEMMA ClosedStep ==
  ASSUME ClosedOnce, FlagsOK, QueuesOK, [Next]_vars
  PROVE  ClosedOnce'
<1>0. QueueFacts(bgJobs) /\ InputFacts(uiJobs)
  BY QueuePosted, InputPosted DEF QueuesOK
<1> USE <1>0 DEF QueueFacts, InputFacts, ReactorJobs, UpperJobs, ClosedOnce,
        QueuesOK, PostBg, PostUi, Crash, BgKeeps, UiKeeps, BgGoto, UiGoto,
        EndJob, socketVars, eventVars, jobVars
<1>1. CASE PeerSends
  BY <1>1 DEF PeerSends
<1>2. CASE PeerCloses
  BY <1>2 DEF PeerCloses
<1>3. CASE StartDispatch
  BY <1>3 DEF StartDispatch
<1>4. CASE EndDispatch
  BY <1>4 DEF EndDispatch
<1>5. CASE FireRead
  BY <1>5 DEF FireRead
<1>6. CASE FireWrite
  BY <1>6 DEF FireWrite
<1>7. CASE FireHeartbeat
  BY <1>7 DEF FireHeartbeat
<1>8. CASE TakeJob
  <2> DEFINE job == Head(bgJobs)
  <2>1. job \in JobSet /\ bgJobs # <<>> /\ bgJobs' = Tail(bgJobs)
    BY <1>8 DEF TakeJob, QueuesOK
  <2>2. /\ ReadQueued(bgJobs) <=> ReadQueued(bgJobs') \/ job.op \in ReadOps
        /\ WriteQueued(bgJobs) <=> WriteQueued(bgJobs') \/ job.op \in WriteOps
        /\ CloseQueued(bgJobs) <=> CloseQueued(bgJobs') \/ job.op = "close"
        /\ ReleaseQueued(bgJobs)
             <=> ReleaseQueued(bgJobs') \/ job.op = "release"
    BY <2>1, QueueTaken DEF QueuesOK
  <2>3. crash' = "none" => bg' = job.op
    BY <1>8 DEF TakeJob
  <2>4. /\ bg = "idle" /\ job.op \in JobOps
        /\ bg' = job.op \/ bg' = bg
        /\ crash' = "none" => crash = "none"
        /\ UNCHANGED <<readEvt, writeEvt, statusM, ui, stopReadingM, selfM,
             inLen, outLen, uiJobs, drained>>
    BY <1>8, <2>1 DEF TakeJob, JobSet
  <2> HIDE DEF job
  <2>5. job.op \notin {"closeRest", "readMore", "readEnd", "readStop", "readArm", "readNotify",
          "writeRearm"}
    BY <2>4 DEF JobOps
  <2>6. CASE crash' # "none"
    BY <2>2, <2>4, <2>5, <2>6 DEF ReadOps, WriteOps
  <2>7. CASE crash' = "none"
    BY <2>2, <2>3, <2>4, <2>5, <2>7 DEF ReadOps, WriteOps
  <2> QED
    BY <2>6, <2>7
<1>9. CASE StartHeartbeatTimer
  BY <1>9 DEF StartHeartbeatTimer
<1>10. CASE AddEventJob
  <2>1. CASE bg = "addRead" /\ AddReadEvent
    BY <1>10, <2>1 DEF AddEventJob, AddReadEvent, AddEvent
  <2>2. CASE bg = "addWrite" /\ AddWriteEvent
    BY <1>10, <2>2 DEF AddEventJob, AddWriteEvent, AddEvent
  <2> QED
    BY <1>10, <2>1, <2>2 DEF AddEventJob
<1>11. CASE ReadNoRoom
  BY <1>11 DEF ReadNoRoom
<1>12. CASE ReadFirst
  BY <1>12 DEF ReadFirst, Receive
<1>13. CASE ReadFails
  BY <1>13 DEF ReadFails
<1>14. CASE ReadWouldBlock
  BY <1>14 DEF ReadWouldBlock
<1>15. CASE ReadMore
  BY <1>15 DEF ReadMore, Receive
<1>16. CASE ReadStops
  BY <1>16 DEF ReadStops
<1>17. CASE ReadEnd
  BY <1>17 DEF ReadEnd
<1>42. CASE ReadStop
  BY <1>42 DEF ReadStop
<1>43. CASE ReadArm
  BY <1>43 DEF ReadArm, AddReadEvent, AddEvent
<1>18. CASE ReadNotify
  BY <1>18 DEF ReadNotify, NotifyInput
<1>19. CASE WriteSome
  BY <1>19 DEF WriteSome
<1>20. CASE WriteFails
  BY <1>20 DEF WriteFails
<1>21. CASE WriteStops
  BY <1>21 DEF WriteStops
<1>22. CASE WriteRearm
  BY <1>22 DEF WriteRearm, AddWriteEvent, AddEvent
<1>23. CASE WriteClose
  BY <1>23 DEF WriteClose
<1>24. CASE CloseAgain
  BY <1>24 DEF CloseAgain
<1>25. CASE CloseMark
  BY <1>25 DEF CloseMark
<1>26. CASE CloseRest
  BY <1>26 DEF CloseRest
<1>27. CASE Release
  BY <1>27 DEF Release
<1>28. CASE AddWriteOnNull
  BY <1>28 DEF AddWriteOnNull
<1>29. CASE UiTakeNotice
  BY <1>29 DEF UiTakeNotice
<1>30. CASE UiTakeInput
  BY <1>30 DEF UiTakeInput
<1>31. CASE UiCloseTest
  BY <1>31 DEF UiCloseTest
<1>32. CASE UiPostClose
  BY <1>32 DEF UiPostClose
<1>33. CASE UiGet
  BY <1>33 DEF UiGet
<1>34. CASE UiFlowTest
  BY <1>34 DEF UiFlowTest, AfterGet, MayResume, InStatus
<1>35. CASE UiResume
  BY <1>35 DEF UiResume
<1>36. CASE UiPostRead
  BY <1>36 DEF UiPostRead, AfterGet
<1>37. CASE UiReply
  BY <1>37 DEF UiReply
<1>38. CASE UiSendn
  BY <1>38 DEF UiSendn
<1>39. CASE UiPostWrite
  <2>1. selfM = TRUE \/ selfM = FALSE
    BY DEF FlagsOK
  <2>2. CASE selfM = TRUE
    BY <1>39, <2>2 DEF UiPostWrite
  <2>3. CASE selfM = FALSE
    BY <1>39, <2>3 DEF UiPostWrite
  <2> QED
    BY <2>1, <2>2, <2>3
<1>40. CASE UiCloseAfterSent
  BY <1>40 DEF UiCloseAfterSent
<1>41. CASE UNCHANGED vars
  BY <1>41 DEF vars
<1> QED
  BY <1>1, <1>2, <1>3, <1>4, <1>5, <1>6, <1>7, <1>8, <1>9, <1>10, <1>11, <1>12,
     <1>13, <1>14, <1>15, <1>16, <1>17, <1>18, <1>19, <1>20, <1>21, <1>22,
     <1>23, <1>24, <1>25, <1>26, <1>27, <1>28, <1>29, <1>30, <1>31, <1>32,
     <1>33, <1>34, <1>35, <1>36, <1>37, <1>38, <1>39, <1>40, <1>41, <1>42,
     <1>43 DEF Next, Peer, Background, Upper

\* Every step keeps the reading going, or a reason for its rest.
LEMMA ReadOnStep ==
  ASSUME ReadOn, DrainedIsLow, ClosedOnce, FlagsOK, RestOK, QueuesOK,
         [Next]_vars
  PROVE  ReadOn'
<1>0. QueueFacts(bgJobs) /\ InputFacts(uiJobs)
  BY QueuePosted, InputPosted DEF QueuesOK
<1> USE <1>0, WaterAssumption DEF QueueFacts, InputFacts, ReactorJobs,
        UpperJobs, ReadOn, DrainedIsLow, ClosedOnce, Open, Revived, Reading,
        QueuesOK, PostBg, PostUi, Crash, BgKeeps, UiKeeps, BgGoto, UiGoto,
        EndJob, socketVars, eventVars, jobVars
<1>1. CASE PeerSends
  BY <1>1 DEF PeerSends
<1>2. CASE PeerCloses
  BY <1>2 DEF PeerCloses
<1>3. CASE StartDispatch
  BY <1>3 DEF StartDispatch
<1>4. CASE EndDispatch
  BY <1>4 DEF EndDispatch
<1>5. CASE FireRead
  BY <1>5 DEF FireRead
<1>6. CASE FireWrite
  BY <1>6 DEF FireWrite
<1>7. CASE FireHeartbeat
  BY <1>7 DEF FireHeartbeat
<1>8. CASE TakeJob
  <2> DEFINE job == Head(bgJobs)
  <2>1. job \in JobSet /\ bgJobs # <<>> /\ bgJobs' = Tail(bgJobs)
    BY <1>8 DEF TakeJob, QueuesOK
  <2>2. /\ ReadQueued(bgJobs) <=> ReadQueued(bgJobs') \/ job.op \in ReadOps
        /\ WriteQueued(bgJobs) <=> WriteQueued(bgJobs') \/ job.op \in WriteOps
        /\ CloseQueued(bgJobs) <=> CloseQueued(bgJobs') \/ job.op = "close"
        /\ ReleaseQueued(bgJobs)
             <=> ReleaseQueued(bgJobs') \/ job.op = "release"
    BY <2>1, QueueTaken DEF QueuesOK
  <2>3. crash' = "none" => bg' = job.op
    BY <1>8 DEF TakeJob
  <2>4. /\ bg = "idle" /\ job.op \in JobOps
        /\ bg' = job.op \/ bg' = bg
        /\ crash' = "none" => crash = "none"
        /\ UNCHANGED <<readEvt, writeEvt, statusM, ui, stopReadingM, selfM,
             inLen, outLen, uiJobs, drained>>
    BY <1>8, <2>1 DEF TakeJob, JobSet
  <2> HIDE DEF job
  <2>5. job.op \notin {"closeRest", "readMore", "readEnd", "readStop", "readArm", "readNotify",
          "writeRearm"}
    BY <2>4 DEF JobOps
  <2>6. CASE crash' # "none"
    BY <2>2, <2>4, <2>5, <2>6 DEF ReadOps, WriteOps
  <2>7. CASE crash' = "none"
    BY <2>2, <2>3, <2>4, <2>5, <2>7 DEF ReadOps, WriteOps
  <2> QED
    BY <2>6, <2>7
<1>9. CASE StartHeartbeatTimer
  BY <1>9 DEF StartHeartbeatTimer
<1>10. CASE AddEventJob
  <2>1. CASE bg = "addRead" /\ AddReadEvent
    BY <1>10, <2>1 DEF AddEventJob, AddReadEvent, AddEvent
  <2>2. CASE bg = "addWrite" /\ AddWriteEvent
    BY <1>10, <2>2 DEF AddEventJob, AddWriteEvent, AddEvent
  <2> QED
    BY <1>10, <2>1, <2>2 DEF AddEventJob
<1>11. CASE ReadNoRoom
  BY <1>11 DEF ReadNoRoom
<1>12. CASE ReadFirst
  BY <1>12 DEF ReadFirst, Receive
<1>13. CASE ReadFails
  BY <1>13 DEF ReadFails
<1>14. CASE ReadWouldBlock
  BY <1>14 DEF ReadWouldBlock
<1>15. CASE ReadMore
  BY <1>15 DEF ReadMore, Receive
<1>16. CASE ReadStops
  BY <1>16 DEF ReadStops
<1>17. CASE ReadEnd
  BY <1>17 DEF ReadEnd
<1>42. CASE ReadStop
  BY <1>42 DEF ReadStop
<1>43. CASE ReadArm
  BY <1>43 DEF ReadArm, AddReadEvent, AddEvent
<1>18. CASE ReadNotify
  BY <1>18 DEF ReadNotify, NotifyInput
<1>19. CASE WriteSome
  BY <1>19 DEF WriteSome
<1>20. CASE WriteFails
  BY <1>20 DEF WriteFails
<1>21. CASE WriteStops
  BY <1>21 DEF WriteStops
<1>22. CASE WriteRearm
  BY <1>22 DEF WriteRearm, AddWriteEvent, AddEvent
<1>23. CASE WriteClose
  BY <1>23 DEF WriteClose
<1>24. CASE CloseAgain
  BY <1>24 DEF CloseAgain
<1>25. CASE CloseMark
  BY <1>25 DEF CloseMark
<1>26. CASE CloseRest
  BY <1>26 DEF CloseRest
<1>27. CASE Release
  BY <1>27 DEF Release
<1>28. CASE AddWriteOnNull
  BY <1>28 DEF AddWriteOnNull
<1>29. CASE UiTakeNotice
  BY <1>29 DEF UiTakeNotice
<1>30. CASE UiTakeInput
  BY <1>30 DEF UiTakeInput
<1>31. CASE UiCloseTest
  BY <1>31 DEF UiCloseTest
<1>32. CASE UiPostClose
  BY <1>32 DEF UiPostClose
<1>33. CASE UiGet
  BY <1>33 DEF UiGet
<1>34. CASE UiFlowTest
  <2>1. drained \in BOOLEAN /\ inLen \in Nat /\ LowWater \in Nat
          /\ HighWater \in Nat
    BY WaterAssumption DEF FlagsOK, RestOK
  <2>2. inLen <= LowWater => InStatus = "Low"
    BY <2>1, WaterAssumption DEF InStatus
  <2>3. CASE MayResume
    BY <1>34, <2>3 DEF UiFlowTest, MayResume
  <2>4. CASE ~MayResume
    <3>1. CASE ~drained
      BY <1>34, <2>4, <3>1 DEF UiFlowTest, AfterGet
    <3>2. CASE drained
      <4>1. ui' = "reply" /\ UNCHANGED <<socketVars, jobVars, readEvt, bg,
              crash>>
        BY <1>34, <2>4, <3>2 DEF UiFlowTest, AfterGet
      <4>2. statusM # "Close" /\ stopReadingM => ~(inLen <= LowWater)
        BY <2>2, <2>4 DEF MayResume
      <4> QED
        BY <1>34, <4>1, <4>2, <3>2 DEF UiFlowTest
    <3> QED
      BY <3>1, <3>2
  <2> QED
    BY <2>3, <2>4
<1>35. CASE UiResume
  BY <1>35 DEF UiResume
<1>36. CASE UiPostRead
  BY <1>36 DEF UiPostRead, AfterGet
<1>37. CASE UiReply
  BY <1>37 DEF UiReply
<1>38. CASE UiSendn
  BY <1>38 DEF UiSendn
<1>39. CASE UiPostWrite
  <2>1. selfM = TRUE \/ selfM = FALSE
    BY DEF FlagsOK
  <2>2. CASE selfM = TRUE
    BY <1>39, <2>2 DEF UiPostWrite
  <2>3. CASE selfM = FALSE
    BY <1>39, <2>3 DEF UiPostWrite
  <2> QED
    BY <2>1, <2>2, <2>3
<1>40. CASE UiCloseAfterSent
  BY <1>40 DEF UiCloseAfterSent
<1>41. CASE UNCHANGED vars
  BY <1>41 DEF vars
<1> QED
  BY <1>1, <1>2, <1>3, <1>4, <1>5, <1>6, <1>7, <1>8, <1>9, <1>10, <1>11, <1>12,
     <1>13, <1>14, <1>15, <1>16, <1>17, <1>18, <1>19, <1>20, <1>21, <1>22,
     <1>23, <1>24, <1>25, <1>26, <1>27, <1>28, <1>29, <1>30, <1>31, <1>32,
     <1>33, <1>34, <1>35, <1>36, <1>37, <1>38, <1>39, <1>40, <1>41, <1>42,
     <1>43 DEF Next, Peer, Background, Upper

\* After every step, getInput that has drained the queue is right to resume the reading.
LEMMA DrainedStep ==
  ASSUME DrainedIsLow, OneToken, FlagsOK, RestOK, QueuesOK, crash = "none",
         [Next]_vars
  PROVE  DrainedIsLow'
<1>0. QueueFacts(bgJobs) /\ InputFacts(uiJobs)
  BY QueuePosted, InputPosted DEF QueuesOK
<1> USE <1>0, WaterAssumption DEF QueueFacts, InputFacts, ReactorJobs,
        UpperJobs, DrainedIsLow, OneToken, Reading, QueuesOK, PostBg, PostUi,
        Crash, BgKeeps, UiKeeps, BgGoto, UiGoto, EndJob, socketVars, eventVars,
        jobVars
<1>1. CASE PeerSends
  BY <1>1 DEF PeerSends
<1>2. CASE PeerCloses
  BY <1>2 DEF PeerCloses
<1>3. CASE StartDispatch
  BY <1>3 DEF StartDispatch
<1>4. CASE EndDispatch
  BY <1>4 DEF EndDispatch
<1>5. CASE FireRead
  BY <1>5 DEF FireRead
<1>6. CASE FireWrite
  BY <1>6 DEF FireWrite
<1>7. CASE FireHeartbeat
  BY <1>7 DEF FireHeartbeat
<1>8. CASE TakeJob
  <2> DEFINE job == Head(bgJobs)
  <2>1. job \in JobSet /\ bgJobs # <<>> /\ bgJobs' = Tail(bgJobs)
    BY <1>8 DEF TakeJob, QueuesOK
  <2>2. /\ ReadQueued(bgJobs) <=> ReadQueued(bgJobs') \/ job.op \in ReadOps
        /\ WriteQueued(bgJobs) <=> WriteQueued(bgJobs') \/ job.op \in WriteOps
        /\ CloseQueued(bgJobs) <=> CloseQueued(bgJobs') \/ job.op = "close"
        /\ ReleaseQueued(bgJobs)
             <=> ReleaseQueued(bgJobs') \/ job.op = "release"
    BY <2>1, QueueTaken DEF QueuesOK
  <2>3. crash' = "none" => bg' = job.op
    BY <1>8 DEF TakeJob
  <2>4. /\ bg = "idle" /\ job.op \in JobOps
        /\ bg' = job.op \/ bg' = bg
        /\ crash' = "none" => crash = "none"
        /\ UNCHANGED <<readEvt, writeEvt, statusM, ui, stopReadingM, selfM,
             inLen, outLen, uiJobs, drained>>
    BY <1>8, <2>1 DEF TakeJob, JobSet
  <2> HIDE DEF job
  <2>5. job.op \notin {"closeRest", "readMore", "readEnd", "readStop", "readArm", "readNotify",
          "writeRearm"}
    BY <2>4 DEF JobOps
  <2>6. CASE crash' # "none"
    BY <2>2, <2>4, <2>5, <2>6 DEF ReadOps, WriteOps
  <2>7. CASE crash' = "none"
    BY <2>2, <2>3, <2>4, <2>5, <2>7 DEF ReadOps, WriteOps
  <2> QED
    BY <2>6, <2>7
<1>9. CASE StartHeartbeatTimer
  BY <1>9 DEF StartHeartbeatTimer
<1>10. CASE AddEventJob
  <2>1. CASE bg = "addRead" /\ AddReadEvent
    BY <1>10, <2>1 DEF AddEventJob, AddReadEvent, AddEvent
  <2>2. CASE bg = "addWrite" /\ AddWriteEvent
    BY <1>10, <2>2 DEF AddEventJob, AddWriteEvent, AddEvent
  <2> QED
    BY <1>10, <2>1, <2>2 DEF AddEventJob
<1>11. CASE ReadNoRoom
  BY <1>11 DEF ReadNoRoom
<1>12. CASE ReadFirst
  BY <1>12 DEF ReadFirst, Receive
<1>13. CASE ReadFails
  BY <1>13 DEF ReadFails
<1>14. CASE ReadWouldBlock
  BY <1>14 DEF ReadWouldBlock
<1>15. CASE ReadMore
  BY <1>15 DEF ReadMore, Receive
<1>16. CASE ReadStops
  BY <1>16 DEF ReadStops
<1>17. CASE ReadEnd
  BY <1>17 DEF ReadEnd
<1>42. CASE ReadStop
  BY <1>42 DEF ReadStop
<1>43. CASE ReadArm
  BY <1>43 DEF ReadArm, AddReadEvent, AddEvent
<1>18. CASE ReadNotify
  BY <1>18 DEF ReadNotify, NotifyInput
<1>19. CASE WriteSome
  BY <1>19 DEF WriteSome
<1>20. CASE WriteFails
  BY <1>20 DEF WriteFails
<1>21. CASE WriteStops
  BY <1>21 DEF WriteStops
<1>22. CASE WriteRearm
  BY <1>22 DEF WriteRearm, AddWriteEvent, AddEvent
<1>23. CASE WriteClose
  BY <1>23 DEF WriteClose
<1>24. CASE CloseAgain
  BY <1>24 DEF CloseAgain
<1>25. CASE CloseMark
  BY <1>25 DEF CloseMark
<1>26. CASE CloseRest
  BY <1>26 DEF CloseRest
<1>27. CASE Release
  BY <1>27 DEF Release
<1>28. CASE AddWriteOnNull
  BY <1>28 DEF AddWriteOnNull
<1>29. CASE UiTakeNotice
  BY <1>29 DEF UiTakeNotice
<1>30. CASE UiTakeInput
  BY <1>30 DEF UiTakeInput
<1>31. CASE UiCloseTest
  BY <1>31 DEF UiCloseTest
<1>32. CASE UiPostClose
  BY <1>32 DEF UiPostClose
<1>33. CASE UiGet
  BY <1>33 DEF UiGet
<1>34. CASE UiFlowTest
  BY <1>34 DEF UiFlowTest, AfterGet, MayResume, InStatus
<1>35. CASE UiResume
  BY <1>35 DEF UiResume
<1>36. CASE UiPostRead
  BY <1>36 DEF UiPostRead, AfterGet
<1>37. CASE UiReply
  BY <1>37 DEF UiReply
<1>38. CASE UiSendn
  BY <1>38 DEF UiSendn
<1>39. CASE UiPostWrite
  <2>1. selfM = TRUE \/ selfM = FALSE
    BY DEF FlagsOK
  <2>2. CASE selfM = TRUE
    BY <1>39, <2>2 DEF UiPostWrite
  <2>3. CASE selfM = FALSE
    BY <1>39, <2>3 DEF UiPostWrite
  <2> QED
    BY <2>1, <2>2, <2>3
<1>40. CASE UiCloseAfterSent
  BY <1>40 DEF UiCloseAfterSent
<1>41. CASE UNCHANGED vars
  BY <1>41 DEF vars
<1> QED
  BY <1>1, <1>2, <1>3, <1>4, <1>5, <1>6, <1>7, <1>8, <1>9, <1>10, <1>11, <1>12,
     <1>13, <1>14, <1>15, <1>16, <1>17, <1>18, <1>19, <1>20, <1>21, <1>22,
     <1>23, <1>24, <1>25, <1>26, <1>27, <1>28, <1>29, <1>30, <1>31, <1>32,
     <1>33, <1>34, <1>35, <1>36, <1>37, <1>38, <1>39, <1>40, <1>41, <1>42,
     <1>43 DEF Next, Peer, Background, Upper

\* Every step keeps the writing going while there is something to write.
LEMMA WriteOnStep ==
  ASSUME WriteOn, ClosedOnce, FlagsOK, RestOK, QueuesOK, [Next]_vars
  PROVE  WriteOn'
<1>0. QueueFacts(bgJobs) /\ InputFacts(uiJobs)
  BY QueuePosted, InputPosted DEF QueuesOK
<1> USE <1>0, BoundAssumption DEF QueueFacts, InputFacts, ReactorJobs,
        UpperJobs, WriteOn, ClosedOnce, Open, Revived, QueuesOK, PostBg,
        PostUi, Crash, BgKeeps, UiKeeps, BgGoto, UiGoto, EndJob, socketVars,
        eventVars, jobVars
<1>1. CASE PeerSends
  BY <1>1 DEF PeerSends
<1>2. CASE PeerCloses
  BY <1>2 DEF PeerCloses
<1>3. CASE StartDispatch
  BY <1>3 DEF StartDispatch
<1>4. CASE EndDispatch
  BY <1>4 DEF EndDispatch
<1>5. CASE FireRead
  BY <1>5 DEF FireRead
<1>6. CASE FireWrite
  BY <1>6 DEF FireWrite
<1>7. CASE FireHeartbeat
  BY <1>7 DEF FireHeartbeat
<1>8. CASE TakeJob
  <2> DEFINE job == Head(bgJobs)
  <2>1. job \in JobSet /\ bgJobs # <<>> /\ bgJobs' = Tail(bgJobs)
    BY <1>8 DEF TakeJob, QueuesOK
  <2>2. /\ ReadQueued(bgJobs) <=> ReadQueued(bgJobs') \/ job.op \in ReadOps
        /\ WriteQueued(bgJobs) <=> WriteQueued(bgJobs') \/ job.op \in WriteOps
        /\ CloseQueued(bgJobs) <=> CloseQueued(bgJobs') \/ job.op = "close"
        /\ ReleaseQueued(bgJobs)
             <=> ReleaseQueued(bgJobs') \/ job.op = "release"
    BY <2>1, QueueTaken DEF QueuesOK
  <2>3. crash' = "none" => bg' = job.op
    BY <1>8 DEF TakeJob
  <2>4. /\ bg = "idle" /\ job.op \in JobOps
        /\ bg' = job.op \/ bg' = bg
        /\ crash' = "none" => crash = "none"
        /\ UNCHANGED <<readEvt, writeEvt, statusM, ui, stopReadingM, selfM,
             inLen, outLen, uiJobs, drained>>
    BY <1>8, <2>1 DEF TakeJob, JobSet
  <2> HIDE DEF job
  <2>5. job.op \notin {"closeRest", "readMore", "readEnd", "readStop", "readArm", "readNotify",
          "writeRearm"}
    BY <2>4 DEF JobOps
  <2>6. CASE crash' # "none"
    BY <2>2, <2>4, <2>5, <2>6 DEF ReadOps, WriteOps
  <2>7. CASE crash' = "none"
    BY <2>2, <2>3, <2>4, <2>5, <2>7 DEF ReadOps, WriteOps
  <2> QED
    BY <2>6, <2>7
<1>9. CASE StartHeartbeatTimer
  BY <1>9 DEF StartHeartbeatTimer
<1>10. CASE AddEventJob
  <2>1. CASE bg = "addRead" /\ AddReadEvent
    BY <1>10, <2>1 DEF AddEventJob, AddReadEvent, AddEvent
  <2>2. CASE bg = "addWrite" /\ AddWriteEvent
    BY <1>10, <2>2 DEF AddEventJob, AddWriteEvent, AddEvent
  <2> QED
    BY <1>10, <2>1, <2>2 DEF AddEventJob
<1>11. CASE ReadNoRoom
  BY <1>11 DEF ReadNoRoom
<1>12. CASE ReadFirst
  BY <1>12 DEF ReadFirst, Receive
<1>13. CASE ReadFails
  BY <1>13 DEF ReadFails
<1>14. CASE ReadWouldBlock
  BY <1>14 DEF ReadWouldBlock
<1>15. CASE ReadMore
  BY <1>15 DEF ReadMore, Receive
<1>16. CASE ReadStops
  BY <1>16 DEF ReadStops
<1>17. CASE ReadEnd
  BY <1>17 DEF ReadEnd
<1>42. CASE ReadStop
  BY <1>42 DEF ReadStop
<1>43. CASE ReadArm
  BY <1>43 DEF ReadArm, AddReadEvent, AddEvent
<1>18. CASE ReadNotify
  BY <1>18 DEF ReadNotify, NotifyInput
<1>19. CASE WriteSome
  BY <1>19 DEF WriteSome
<1>20. CASE WriteFails
  BY <1>20 DEF WriteFails
<1>21. CASE WriteStops
  BY <1>21 DEF WriteStops
<1>22. CASE WriteRearm
  BY <1>22 DEF WriteRearm, AddWriteEvent, AddEvent
<1>23. CASE WriteClose
  BY <1>23 DEF WriteClose
<1>24. CASE CloseAgain
  BY <1>24 DEF CloseAgain
<1>25. CASE CloseMark
  BY <1>25 DEF CloseMark
<1>26. CASE CloseRest
  BY <1>26 DEF CloseRest
<1>27. CASE Release
  BY <1>27 DEF Release
<1>28. CASE AddWriteOnNull
  BY <1>28 DEF AddWriteOnNull
<1>29. CASE UiTakeNotice
  BY <1>29 DEF UiTakeNotice
<1>30. CASE UiTakeInput
  BY <1>30 DEF UiTakeInput
<1>31. CASE UiCloseTest
  BY <1>31 DEF UiCloseTest
<1>32. CASE UiPostClose
  BY <1>32 DEF UiPostClose
<1>33. CASE UiGet
  BY <1>33 DEF UiGet
<1>34. CASE UiFlowTest
  BY <1>34 DEF UiFlowTest, AfterGet, MayResume, InStatus
<1>35. CASE UiResume
  BY <1>35 DEF UiResume
<1>36. CASE UiPostRead
  BY <1>36 DEF UiPostRead, AfterGet
<1>37. CASE UiReply
  BY <1>37 DEF UiReply
<1>38. CASE UiSendn
  BY <1>38 DEF UiSendn
<1>39. CASE UiPostWrite
  <2>1. selfM = TRUE \/ selfM = FALSE
    BY DEF FlagsOK
  <2>2. CASE selfM = TRUE
    BY <1>39, <2>2 DEF UiPostWrite
  <2>3. CASE selfM = FALSE
    BY <1>39, <2>3 DEF UiPostWrite
  <2> QED
    BY <2>1, <2>2, <2>3
<1>40. CASE UiCloseAfterSent
  BY <1>40 DEF UiCloseAfterSent
<1>41. CASE UNCHANGED vars
  BY <1>41 DEF vars
<1> QED
  BY <1>1, <1>2, <1>3, <1>4, <1>5, <1>6, <1>7, <1>8, <1>9, <1>10, <1>11, <1>12,
     <1>13, <1>14, <1>15, <1>16, <1>17, <1>18, <1>19, <1>20, <1>21, <1>22,
     <1>23, <1>24, <1>25, <1>26, <1>27, <1>28, <1>29, <1>30, <1>31, <1>32,
     <1>33, <1>34, <1>35, <1>36, <1>37, <1>38, <1>39, <1>40, <1>41, <1>42,
     <1>43 DEF Next, Peer, Background, Upper


\* The order of the raw jobs and of the release among them.
ReactorQueued(q) == \E i \in 1 .. Len(q) : q[i].by = "reactor"
ReactorBehind(q) ==
  \E i \in 1 .. Len(q) : q[i].by = "reactor"
    /\ \E j \in 1 .. i : q[j].op = "release"
SelfQueued(q) == \E i \in 1 .. Len(q) : q[i].by = "self"
SelfBehind(q) ==
  \E i \in 1 .. Len(q) : q[i].by = "self"
    /\ \E j \in 1 .. i - 1 : q[j].op = "release"
StartQueued(q) == \E i \in 1 .. Len(q) : q[i].op = "startHeartbeat"
StartFirst(q) ==
  \A i \in 1 .. Len(q) : q[i].op = "startHeartbeat"
    => \A j \in 1 .. i - 1 : q[j].op = "addRead"

\* A closed connection that closeAfterSent has opened again, or that is being
\* closed for the second time.
Doomed == Revived \/ (readEvt = "deleted" /\ bg = "closeRest")

\* Nothing the reactor posted stands behind a release or outlives the
\* connection; what the background worker posts to itself does only when the
\* connection was closed and opened again.  The heartbeat starts before
\* anything can close the connection.
InOrder ==
  /\ ~ReactorBehind(bgJobs)
  /\ bg = "release" \/ ~selfM => ~ReactorQueued(bgJobs)
  /\ SelfBehind(bgJobs) => Doomed
  /\ (bg = "release" \/ ~selfM) /\ SelfQueued(bgJobs) => Doomed
  /\ StartFirst(bgJobs)
  /\ StartQueued(bgJobs) => bg \in {"idle", "addRead"} /\ readEvt # "deleted"
  /\ bg = "startHeartbeat" \/ heartbeat => readEvt # "deleted"
  /\ crash \in {"jobOnFreed", "timerOnFreed"} => Revived

\* A job put last is behind what was there.
LEMMA OrderAppended ==
  ASSUME NEW q \in Seq(JobSet), NEW job \in JobSet
  PROVE  /\ ReactorQueued(Append(q, job))
              => ReactorQueued(q) \/ job.by = "reactor"
         /\ ReactorBehind(Append(q, job)) =>
              ReactorBehind(q) \/ (job.by = "reactor"
                /\ (ReleaseQueued(q) \/ job.op = "release"))
         /\ SelfQueued(Append(q, job)) => SelfQueued(q) \/ job.by = "self"
         /\ SelfBehind(Append(q, job))
              => SelfBehind(q) \/ (job.by = "self" /\ ReleaseQueued(q))
         /\ job.op # "startHeartbeat" =>
              /\ StartQueued(Append(q, job)) => StartQueued(q)
              /\ StartFirst(q) => StartFirst(Append(q, job))
<1> DEFINE r == Append(q, job)
<1>1. /\ Len(r) = Len(q) + 1
      /\ \A i \in 1 .. Len(q) : r[i] = q[i]
      /\ r[Len(q) + 1] = job
      /\ Len(q) \in Nat
  OBVIOUS
<1>2. \A i \in 1 .. Len(r) : i \in 1 .. Len(q) \/ i = Len(q) + 1
  BY <1>1
<1> HIDE DEF r
<1>3. ReactorQueued(r) => ReactorQueued(q) \/ job.by = "reactor"
  BY <1>1, <1>2 DEF ReactorQueued
<1>4. SelfQueued(r) => SelfQueued(q) \/ job.by = "self"
  BY <1>1, <1>2 DEF SelfQueued
<1>5. job.op # "startHeartbeat" => /\ StartQueued(r) => StartQueued(q)
                                   /\ StartFirst(q) => StartFirst(r)
  <2>1. \A i \in 1 .. Len(q) : \A j \in 1 .. i - 1 : j \in 1 .. Len(q)
    BY <1>1
  <2> QED
    BY <1>1, <1>2, <2>1 DEF StartQueued, StartFirst
<1>6. ReactorBehind(r) =>
        ReactorBehind(q) \/ (job.by = "reactor"
          /\ (ReleaseQueued(q) \/ job.op = "release"))
  <2> SUFFICES ASSUME NEW i \in 1 .. Len(r), r[i].by = "reactor",
                      NEW j \in 1 .. i, r[j].op = "release"
               PROVE  ReactorBehind(q) \/ (job.by = "reactor"
                        /\ (ReleaseQueued(q) \/ job.op = "release"))
    BY DEF ReactorBehind
  <2>1. CASE i \in 1 .. Len(q)
    <3>1. j \in 1 .. Len(q)
      BY <2>1, <1>1
    <3>2. q[i].by = "reactor" /\ q[j].op = "release"
      BY <2>1, <3>1, <1>1
    <3> QED
      BY <2>1, <3>2 DEF ReactorBehind
  <2>2. CASE i = Len(q) + 1
    <3>1. j \in 1 .. Len(r)
      BY <2>2, <1>1
    <3>2. ReleaseQueued(q) \/ job.op = "release"
      BY <3>1, <1>1, <1>2 DEF ReleaseQueued, Holds
    <3> QED
      BY <2>2, <3>2, <1>1
  <2> QED
    BY <2>1, <2>2, <1>2
<1>7. SelfBehind(r) => SelfBehind(q) \/ (job.by = "self" /\ ReleaseQueued(q))
  <2> SUFFICES ASSUME NEW i \in 1 .. Len(r), r[i].by = "self",
                      NEW j \in 1 .. i - 1, r[j].op = "release"
               PROVE  SelfBehind(q) \/ (job.by = "self" /\ ReleaseQueued(q))
    BY DEF SelfBehind
  <2>1. j \in 1 .. Len(q)
    BY <1>1
  <2>2. CASE i \in 1 .. Len(q)
    <3>1. q[i].by = "self" /\ q[j].op = "release"
      BY <2>1, <2>2, <1>1
    <3> QED
      BY <2>2, <3>1 DEF SelfBehind
  <2>3. CASE i = Len(q) + 1
    BY <2>1, <2>3, <1>1 DEF ReleaseQueued, Holds
  <2> QED
    BY <2>2, <2>3, <1>2
<1> QED
  BY <1>3, <1>4, <1>5, <1>6, <1>7 DEF r

\* A start of the heartbeat in the rest of the queue was in the queue.
LEMMA StartTaken ==
  ASSUME NEW q \in Seq(JobSet), q # <<>>, StartQueued(Tail(q))
  PROVE  StartQueued(q)
<1>1. \A i \in 1 .. Len(Tail(q)) : Tail(q)[i] = q[i + 1] /\ i + 1 \in 1 .. Len(q)
  OBVIOUS
<1> QED
  BY <1>1 DEF StartQueued

\* Taking the first job changes no order.
LEMMA OrderTaken ==
  ASSUME NEW q \in Seq(JobSet), q # <<>>
  PROVE  /\ ReactorQueued(Tail(q)) => ReactorQueued(q)
         /\ Head(q).by = "reactor" => ReactorQueued(q)
         /\ ReactorBehind(Tail(q)) => ReactorBehind(q)
         /\ Head(q).op = "release" /\ ReactorQueued(Tail(q))
              => ReactorBehind(q)
         /\ SelfQueued(Tail(q)) => SelfQueued(q)
         /\ Head(q).by = "self" => SelfQueued(q)
         /\ SelfBehind(Tail(q)) => SelfBehind(q)
         /\ Head(q).op = "release" /\ SelfQueued(Tail(q)) => SelfBehind(q)
         /\ Head(q).op = "startHeartbeat" => StartQueued(q)
         /\ StartFirst(q) => /\ StartFirst(Tail(q))
                             /\ StartQueued(Tail(q)) => Head(q).op = "addRead"
<1> DEFINE r == Tail(q)
<1>1. /\ Len(r) = Len(q) - 1 /\ Len(q) \in Nat \ {0}
      /\ \A i \in 1 .. Len(r) : r[i] = q[i + 1]
      /\ Head(q) = q[1]
  OBVIOUS
<1> HIDE DEF r
<1>2. \A i \in 1 .. Len(r) : i + 1 \in 1 .. Len(q) /\ i + 1 # 1
  BY <1>1
<1>3. 1 \in 1 .. Len(q)
  BY <1>1
<1>4. /\ ReactorQueued(r) => ReactorQueued(q)
      /\ Head(q).by = "reactor" => ReactorQueued(q)
  BY <1>1, <1>2, <1>3 DEF ReactorQueued
<1>5. /\ SelfQueued(r) => SelfQueued(q)
      /\ Head(q).by = "self" => SelfQueued(q)
  BY <1>1, <1>2, <1>3 DEF SelfQueued
<1>6. /\ Head(q).op = "startHeartbeat" => StartQueued(q)
      /\ StartFirst(q) => /\ StartFirst(r)
                          /\ StartQueued(r) => Head(q).op = "addRead"
  <2>1. /\ Head(q).op = "startHeartbeat" => StartQueued(q)
        /\ StartQueued(r) => \E i \in 1 .. Len(r) : q[i + 1].op = "startHeartbeat"
    BY <1>1, <1>3 DEF StartQueued
  <2>2. ASSUME StartFirst(q), NEW i \in 1 .. Len(r), q[i + 1].op = "startHeartbeat"
        PROVE  /\ Head(q).op = "addRead"
               /\ \A j \in 1 .. i - 1 : r[j].op = "addRead"
    <3>1. i + 1 \in 1 .. Len(q) /\ 1 \in 1 .. (i + 1) - 1
      BY <1>2, <1>1
    <3>2. \A j \in 1 .. i - 1 : j \in 1 .. Len(r) /\ j + 1 \in 1 .. (i + 1) - 1
      BY <1>1
    <3>3. \A j \in 1 .. (i + 1) - 1 : q[j].op = "addRead"
      BY <2>2, <3>1 DEF StartFirst
    <3> QED
      BY <3>1, <3>2, <3>3, <1>1
  <2>3. StartFirst(q) => StartFirst(r)
    BY <2>2, <1>1 DEF StartFirst
  <2> QED
    BY <2>1, <2>2, <2>3
<1>7. ReactorBehind(r) => ReactorBehind(q)
  <2> SUFFICES ASSUME NEW i \in 1 .. Len(r), r[i].by = "reactor",
                      NEW j \in 1 .. i, r[j].op = "release"
               PROVE  ReactorBehind(q)
    BY DEF ReactorBehind
  <2>1. j \in 1 .. Len(r) /\ j + 1 \in 1 .. i + 1
    BY <1>1
  <2> QED
    BY <2>1, <1>1, <1>2 DEF ReactorBehind
<1>8. Head(q).op = "release" /\ ReactorQueued(r) => ReactorBehind(q)
  <2> SUFFICES ASSUME Head(q).op = "release",
                      NEW i \in 1 .. Len(r), r[i].by = "reactor"
               PROVE  ReactorBehind(q)
    BY DEF ReactorQueued
  <2>1. 1 \in 1 .. i + 1
    BY <1>1
  <2> QED
    BY <2>1, <1>1, <1>2 DEF ReactorBehind
<1>9. SelfBehind(r) => SelfBehind(q)
  <2> SUFFICES ASSUME NEW i \in 1 .. Len(r), r[i].by = "self",
                      NEW j \in 1 .. i - 1, r[j].op = "release"
               PROVE  SelfBehind(q)
    BY DEF SelfBehind
  <2>1. j \in 1 .. Len(r) /\ j + 1 \in 1 .. (i + 1) - 1
    BY <1>1
  <2> QED
    BY <2>1, <1>1, <1>2 DEF SelfBehind
<1>10. Head(q).op = "release" /\ SelfQueued(r) => SelfBehind(q)
  <2> SUFFICES ASSUME Head(q).op = "release",
                      NEW i \in 1 .. Len(r), r[i].by = "self"
               PROVE  SelfBehind(q)
    BY DEF SelfQueued
  <2>1. 1 \in 1 .. (i + 1) - 1
    BY <1>1
  <2> QED
    BY <2>1, <1>1, <1>2 DEF SelfBehind
<1> QED
  BY <1>4, <1>5, <1>6, <1>7, <1>8, <1>9, <1>10 DEF r

OrderFacts(q) ==
  /\ \A job \in ReactorJobs :
       /\ ReactorBehind(Append(q, job)) => ReactorBehind(q) \/ ReleaseQueued(q)
       /\ SelfQueued(Append(q, job)) => SelfQueued(q)
       /\ SelfBehind(Append(q, job)) => SelfBehind(q)
       /\ StartQueued(Append(q, job)) => StartQueued(q)
       /\ StartFirst(q) => StartFirst(Append(q, job))
  /\ \A job \in SelfJobs :
       /\ ReactorQueued(Append(q, job)) => ReactorQueued(q)
       /\ ReactorBehind(Append(q, job)) => ReactorBehind(q)
       /\ SelfBehind(Append(q, job)) => SelfBehind(q) \/ ReleaseQueued(q)
       /\ StartQueued(Append(q, job)) => StartQueued(q)
       /\ StartFirst(q) => StartFirst(Append(q, job))
  /\ \A job \in UpperJobs :
       /\ ReactorQueued(Append(q, job)) => ReactorQueued(q)
       /\ ReactorBehind(Append(q, job)) => ReactorBehind(q)
       /\ SelfQueued(Append(q, job)) => SelfQueued(q)
       /\ SelfBehind(Append(q, job)) => SelfBehind(q)
       /\ StartQueued(Append(q, job)) => StartQueued(q)
       /\ StartFirst(q) => StartFirst(Append(q, job))

\* The same of each job the code posts.
LEMMA OrderPosted ==
  ASSUME NEW q \in Seq(JobSet)
  PROVE  OrderFacts(q)
<1>1. ASSUME NEW op \in JobOps, NEW by \in {"self", "reactor", "upper"},
             NEW ref \in BOOLEAN
      PROVE  /\ Job(op, ref, by) \in JobSet
             /\ Job(op, ref, by).op = op /\ Job(op, ref, by).by = by
  BY Zenon DEF Job, JobSet
<1>2. TRUE \in BOOLEAN /\ FALSE \in BOOLEAN
  BY Zenon
<1>3. \A op \in JobOps, by \in {"self", "reactor", "upper"} :
        /\ Job(op, FALSE, by) \in JobSet /\ Job(op, TRUE, by) \in JobSet
  BY <1>1, <1>2, Zenon
<1>4. {"onRead", "onWrite", "addRead", "addWrite", "addWriteOnNull", "close",
       "release"} \subseteq JobOps
  BY DEF JobOps
<1>11. /\ Job("onRead", FALSE, "reactor") \in JobSet
      /\ Job("onWrite", FALSE, "reactor") \in JobSet
      /\ Job("addRead", FALSE, "self") \in JobSet
      /\ Job("addWrite", FALSE, "self") \in JobSet
      /\ Job("close", FALSE, "self") \in JobSet
      /\ Job("release", FALSE, "self") \in JobSet
      /\ Job("onRead", FALSE, "upper") \in JobSet
      /\ Job("addWrite", TRUE, "upper") \in JobSet
      /\ Job("addWriteOnNull", FALSE, "upper") \in JobSet
      /\ Job("close", FALSE, "upper") \in JobSet
  BY <1>3, <1>4
<1>12. /\ Job("onRead", FALSE, "reactor").op = "onRead"
      /\ Job("onRead", FALSE, "reactor").by = "reactor"
      /\ Job("onWrite", FALSE, "reactor").op = "onWrite"
      /\ Job("onWrite", FALSE, "reactor").by = "reactor"
      /\ Job("addRead", FALSE, "self").op = "addRead"
      /\ Job("addRead", FALSE, "self").by = "self"
      /\ Job("addWrite", FALSE, "self").op = "addWrite"
      /\ Job("addWrite", FALSE, "self").by = "self"
      /\ Job("close", FALSE, "self").op = "close"
      /\ Job("close", FALSE, "self").by = "self"
      /\ Job("release", FALSE, "self").op = "release"
      /\ Job("release", FALSE, "self").by = "self"
      /\ Job("onRead", FALSE, "upper").op = "onRead"
      /\ Job("onRead", FALSE, "upper").by = "upper"
      /\ Job("addWrite", TRUE, "upper").op = "addWrite"
      /\ Job("addWrite", TRUE, "upper").by = "upper"
      /\ Job("addWriteOnNull", FALSE, "upper").op = "addWriteOnNull"
      /\ Job("addWriteOnNull", FALSE, "upper").by = "upper"
      /\ Job("close", FALSE, "upper").op = "close"
      /\ Job("close", FALSE, "upper").by = "upper"
  BY Zenon DEF Job
<1>5. ASSUME NEW job \in ReactorJobs
      PROVE  job \in JobSet /\ job.by = "reactor" /\ job.op \notin {"release",
               "startHeartbeat"}
  BY <1>11, <1>12 DEF ReactorJobs, SelfJobs, UpperJobs
<1>6. ASSUME NEW job \in SelfJobs
      PROVE  job \in JobSet /\ job.by = "self" /\ job.op # "startHeartbeat"
  BY <1>11, <1>12 DEF ReactorJobs, SelfJobs, UpperJobs
<1>7. ASSUME NEW job \in UpperJobs
      PROVE  job \in JobSet /\ job.by = "upper" /\ job.op # "startHeartbeat"
  BY <1>11, <1>12 DEF ReactorJobs, SelfJobs, UpperJobs
<1>8. ASSUME NEW job \in ReactorJobs
      PROVE  /\ ReactorBehind(Append(q, job))
                  => ReactorBehind(q) \/ ReleaseQueued(q)
             /\ SelfQueued(Append(q, job)) => SelfQueued(q)
             /\ SelfBehind(Append(q, job)) => SelfBehind(q)
             /\ StartQueued(Append(q, job)) => StartQueued(q)
             /\ StartFirst(q) => StartFirst(Append(q, job))
  BY <1>5, OrderAppended
<1>9. ASSUME NEW job \in SelfJobs
      PROVE  /\ ReactorQueued(Append(q, job)) => ReactorQueued(q)
             /\ ReactorBehind(Append(q, job)) => ReactorBehind(q)
             /\ SelfBehind(Append(q, job)) => SelfBehind(q) \/ ReleaseQueued(q)
             /\ StartQueued(Append(q, job)) => StartQueued(q)
             /\ StartFirst(q) => StartFirst(Append(q, job))
  BY <1>6, OrderAppended
<1>10. ASSUME NEW job \in UpperJobs
       PROVE  /\ ReactorQueued(Append(q, job)) => ReactorQueued(q)
              /\ ReactorBehind(Append(q, job)) => ReactorBehind(q)
              /\ SelfQueued(Append(q, job)) => SelfQueued(q)
              /\ SelfBehind(Append(q, job)) => SelfBehind(q)
              /\ StartQueued(Append(q, job)) => StartQueued(q)
              /\ StartFirst(q) => StartFirst(Append(q, job))
  BY <1>7, OrderAppended
<1> QED
  BY <1>8, <1>9, <1>10, Zenon DEF OrderFacts

\* No step puts a raw job behind the release.
LEMMA OrderStep ==
  ASSUME InOrder, ClosedOnce, FlagsOK, RestOK, QueuesOK, crash = "none",
         [Next]_vars
  PROVE  InOrder'
<1>0. OrderFacts(bgJobs) /\ QueueFacts(bgJobs)
  BY OrderPosted, QueuePosted DEF QueuesOK
<1> USE <1>0 DEF OrderFacts, QueueFacts, ReactorJobs, SelfJobs, UpperJobs,
        InOrder, ClosedOnce, Doomed, Revived, QueuesOK, PostBg, PostUi, Crash,
        BgKeeps, UiKeeps, BgGoto, UiGoto, EndJob, socketVars, eventVars,
        jobVars
<1>1. CASE PeerSends
  BY <1>1 DEF PeerSends
<1>2. CASE PeerCloses
  BY <1>2 DEF PeerCloses
<1>3. CASE StartDispatch
  BY <1>3 DEF StartDispatch
<1>4. CASE EndDispatch
  BY <1>4 DEF EndDispatch
<1>5. CASE FireRead
  BY <1>5 DEF FireRead
<1>6. CASE FireWrite
  BY <1>6 DEF FireWrite
<1>7. CASE FireHeartbeat
  BY <1>7 DEF FireHeartbeat, Alive
<1>8. CASE TakeJob
  <2> DEFINE job == Head(bgJobs)
  <2>1. job \in JobSet /\ bgJobs # <<>> /\ bgJobs' = Tail(bgJobs)
    BY <1>8 DEF TakeJob, QueuesOK
  <2>2. /\ ReactorQueued(bgJobs') => ReactorQueued(bgJobs)
        /\ job.by = "reactor" => ReactorQueued(bgJobs)
        /\ ReactorBehind(bgJobs') => ReactorBehind(bgJobs)
        /\ job.op = "release" /\ ReactorQueued(bgJobs')
             => ReactorBehind(bgJobs)
        /\ SelfQueued(bgJobs') => SelfQueued(bgJobs)
        /\ job.by = "self" => SelfQueued(bgJobs)
        /\ SelfBehind(bgJobs') => SelfBehind(bgJobs)
        /\ job.op = "release" /\ SelfQueued(bgJobs') => SelfBehind(bgJobs)
        /\ job.op = "startHeartbeat" => StartQueued(bgJobs)
        /\ StartFirst(bgJobs') /\ (StartQueued(bgJobs') => job.op = "addRead")
        /\ StartQueued(bgJobs') => StartQueued(bgJobs)
    BY <2>1, OrderTaken, StartTaken DEF QueuesOK, InOrder
  <2>3. /\ bg = "idle" /\ job.op \in JobOps
             /\ job.by \in {"self", "reactor", "upper"}
        /\ UNCHANGED <<readEvt, statusM, heartbeat, selfM>>
        /\ \/ ~selfM /\ bg' = bg
                /\ (job.by # "upper" \/ crash' = "upperJobOnFreed")
           \/ bg' = job.op /\ crash' = crash
    BY <1>8, <2>1 DEF TakeJob, JobSet, Alive
  <2>4. job.op # "closeRest"
    BY <2>3 DEF JobOps
  <2>5. /\ ~ReactorBehind(bgJobs') /\ StartFirst(bgJobs')
        /\ StartQueued(bgJobs') => StartQueued(bgJobs) /\ job.op = "addRead"
    BY <2>2
  <2>6. Doomed => Revived
    BY <2>3
  <2>7. Revived => Revived'
    BY <2>3
  <2> HIDE DEF job
  <2>8. CASE ~selfM /\ bg' = bg
               /\ (job.by # "upper" \/ crash' = "upperJobOnFreed")
    BY <2>2, <2>3, <2>5, <2>6, <2>7, <2>8
  <2>9. CASE bg' = job.op /\ crash' = crash
    BY <2>2, <2>3, <2>4, <2>5, <2>6, <2>7, <2>9
  <2> QED
    BY <2>3, <2>8, <2>9
<1>9. CASE StartHeartbeatTimer
  BY <1>9 DEF StartHeartbeatTimer
<1>10. CASE AddEventJob
  <2>1. CASE bg = "addRead" /\ AddReadEvent
    BY <1>10, <2>1 DEF AddEventJob, AddReadEvent, AddEvent
  <2>2. CASE bg = "addWrite" /\ AddWriteEvent
    BY <1>10, <2>2 DEF AddEventJob, AddWriteEvent, AddEvent
  <2> QED
    BY <1>10, <2>1, <2>2 DEF AddEventJob
<1>11. CASE ReadNoRoom
  BY <1>11 DEF ReadNoRoom
<1>12. CASE ReadFirst
  BY <1>12 DEF ReadFirst, Receive
<1>13. CASE ReadFails
  BY <1>13 DEF ReadFails
<1>14. CASE ReadWouldBlock
  BY <1>14 DEF ReadWouldBlock
<1>15. CASE ReadMore
  BY <1>15 DEF ReadMore, Receive
<1>16. CASE ReadStops
  BY <1>16 DEF ReadStops
<1>17. CASE ReadEnd
  BY <1>17 DEF ReadEnd
<1>42. CASE ReadStop
  BY <1>42 DEF ReadStop
<1>43. CASE ReadArm
  BY <1>43 DEF ReadArm, AddReadEvent, AddEvent
<1>18. CASE ReadNotify
  BY <1>18 DEF ReadNotify, NotifyInput
<1>19. CASE WriteSome
  BY <1>19 DEF WriteSome
<1>20. CASE WriteFails
  BY <1>20 DEF WriteFails
<1>21. CASE WriteStops
  BY <1>21 DEF WriteStops
<1>22. CASE WriteRearm
  BY <1>22 DEF WriteRearm, AddWriteEvent, AddEvent
<1>23. CASE WriteClose
  <2>1. statusM = "CloseAfterSent" /\ (ReleaseQueued(bgJobs) \/ ~selfM)
          => Revived
    BY DEF FlagsOK
  <2>2. Doomed' <=> Doomed
    BY <1>23 DEF WriteClose
  <2>3. CASE bgJobs' = bgJobs
    BY <1>23, <2>2, <2>3 DEF WriteClose
  <2>4. CASE statusM = "CloseAfterSent"
               /\ bgJobs' = Append(bgJobs, Job("close", FALSE, "self"))
    <3>1. SelfBehind(bgJobs') => Doomed
      BY <2>1, <2>4
    <3>2. ~ReactorBehind(bgJobs') /\ StartFirst(bgJobs')
            /\ (StartQueued(bgJobs') => StartQueued(bgJobs))
      BY <2>4
    <3>3. ReactorQueued(bgJobs') => ReactorQueued(bgJobs)
      BY <2>4
    <3>4. /\ bg = "writeClose" /\ bg' = "idle"
          /\ UNCHANGED <<statusM, readEvt, heartbeat, selfM, crash>>
      BY <1>23 DEF WriteClose
    <3> QED
      BY <2>1, <2>2, <2>4, <3>1, <3>2, <3>3, <3>4
  <2> QED
    BY <1>23, <2>3, <2>4 DEF WriteClose
<1>24. CASE CloseAgain
  BY <1>24 DEF CloseAgain
<1>25. CASE CloseMark
  BY <1>25 DEF CloseMark
<1>26. CASE CloseRest
  <2>1. CASE readEvt = "deleted"
    BY <1>26, <2>1 DEF CloseRest
  <2>2. CASE readEvt # "deleted"
    <3>1. /\ bgJobs' = Append(bgJobs, Job("release", FALSE, "self"))
          /\ bg' = "idle" /\ readEvt' = "deleted" /\ heartbeat' = FALSE
          /\ UNCHANGED <<statusM, selfM, crash>> /\ bg = "closeRest"
      BY <1>26, <2>2 DEF CloseRest
    <3>2. ~ReleaseQueued(bgJobs) /\ selfM /\ ~StartQueued(bgJobs)
      BY <2>2, <3>1
    <3>3. Revived => Revived'
      BY <3>1
    <3>4. ~ReactorBehind(bgJobs') /\ StartFirst(bgJobs')
            /\ ~StartQueued(bgJobs')
      BY <3>1, <3>2
    <3>5. SelfBehind(bgJobs') => Revived'
      BY <2>2, <3>1, <3>2, <3>3
    <3>6. crash' \in {"jobOnFreed", "timerOnFreed"} => Revived'
      BY <3>1, <3>3
    <3> QED
      BY <3>1, <3>2, <3>4, <3>5, <3>6
  <2> QED
    BY <2>1, <2>2
<1>27. CASE Release
  BY <1>27 DEF Release
<1>28. CASE AddWriteOnNull
  BY <1>28 DEF AddWriteOnNull
<1>29. CASE UiTakeNotice
  BY <1>29 DEF UiTakeNotice
<1>30. CASE UiTakeInput
  BY <1>30 DEF UiTakeInput
<1>31. CASE UiCloseTest
  BY <1>31 DEF UiCloseTest
<1>32. CASE UiPostClose
  BY <1>32 DEF UiPostClose
<1>33. CASE UiGet
  BY <1>33 DEF UiGet
<1>34. CASE UiFlowTest
  BY <1>34 DEF UiFlowTest, AfterGet, MayResume, InStatus
<1>35. CASE UiResume
  BY <1>35 DEF UiResume
<1>36. CASE UiPostRead
  BY <1>36 DEF UiPostRead, AfterGet
<1>37. CASE UiReply
  BY <1>37 DEF UiReply
<1>38. CASE UiSendn
  BY <1>38 DEF UiSendn
<1>39. CASE UiPostWrite
  <2>1. selfM = TRUE \/ selfM = FALSE
    BY DEF FlagsOK
  <2>2. CASE selfM = TRUE
    BY <1>39, <2>2 DEF UiPostWrite
  <2>3. CASE selfM = FALSE
    BY <1>39, <2>3 DEF UiPostWrite
  <2> QED
    BY <2>1, <2>2, <2>3
<1>40. CASE UiCloseAfterSent
  BY <1>40 DEF UiCloseAfterSent
<1>41. CASE UNCHANGED vars
  BY <1>41 DEF vars
<1> QED
  BY <1>1, <1>2, <1>3, <1>4, <1>5, <1>6, <1>7, <1>8, <1>9, <1>10, <1>11, <1>12,
     <1>13, <1>14, <1>15, <1>16, <1>17, <1>18, <1>19, <1>20, <1>21, <1>22,
     <1>23, <1>24, <1>25, <1>26, <1>27, <1>28, <1>29, <1>30, <1>31, <1>32,
     <1>33, <1>34, <1>35, <1>36, <1>37, <1>38, <1>39, <1>40, <1>41, <1>42,
     <1>43 DEF Next, Peer, Background, Upper

-----------------------------------------------------------------------------
\* The inductive invariant: the type, the token of the read, what closing
\* leaves behind, who goes on reading and writing, and the order of the raw
\* jobs.
IndInv ==
  /\ TypeOK /\ OneToken /\ ClosedOnce
  /\ ReadOn /\ DrainedIsLow /\ WriteOn
  /\ InOrder

\* A new connection satisfies the inductive invariant.
LEMMA IndInit == Init => IndInv
<1> SUFFICES ASSUME Init PROVE IndInv
  OBVIOUS
<1>1. TypeOK /\ OneToken
  BY TypeInit, TokenInit
<1>2. /\ \A k \in 1 .. Len(bgJobs) : /\ bgJobs[k].op \in {"addRead", "startHeartbeat"}
                                     /\ bgJobs[k].by = "self"
      /\ \A k \in 1 .. Len(bgJobs) : \A j \in 1 .. k - 1 : bgJobs[j].op = "addRead"
      /\ readEvt = "armed" \/ (readEvt = "off" /\ ReadQueued(bgJobs))
  <2>1. CASE /\ readEvt = "armed" /\ Len(bgJobs) = 1
             /\ bgJobs[1].op = "startHeartbeat" /\ bgJobs[1].by = "self"
    BY <2>1
  <2>2. CASE /\ readEvt = "off" /\ Len(bgJobs) = 2
             /\ bgJobs[1].op = "addRead" /\ bgJobs[1].by = "self"
             /\ bgJobs[2].op = "startHeartbeat" /\ bgJobs[2].by = "self"
    <3>1. \A k \in 1 .. Len(bgJobs) : k = 1 \/ k = 2
      BY <2>2
    <3>2. \A k \in 1 .. Len(bgJobs) : \A j \in 1 .. k - 1 : j = 1
      BY <2>2, <3>1
    <3>3. ReadQueued(bgJobs)
      BY <2>2 DEF ReadQueued, Holds, ReadOps
    <3> QED
      BY <2>2, <3>1, <3>2, <3>3
  <2> QED
    BY InitJobs, <2>1, <2>2
<1>3. /\ ~ReleaseQueued(bgJobs) /\ StartFirst(bgJobs)
      /\ ~ReactorBehind(bgJobs) /\ ~SelfBehind(bgJobs) /\ ~CloseQueued(bgJobs)
      /\ ~ReactorQueued(bgJobs)
  <2>1. ASSUME NEW i \in 1 .. Len(bgJobs), NEW j \in 1 .. i
        PROVE  j \in 1 .. Len(bgJobs)
    OBVIOUS
  <2> QED
    BY <1>2, <2>1 DEF ReleaseQueued, CloseQueued, ReactorQueued, Holds, StartFirst,
       ReactorBehind, SelfBehind
<1>4. ClosedOnce
  BY <1>3 DEF Init, ClosedOnce
<1>5. ReadOn /\ DrainedIsLow /\ WriteOn
  BY <1>2 DEF Init, ReadOn, DrainedIsLow, WriteOn
<1>6. InOrder
  BY <1>3 DEF Init, InOrder
<1> QED
  BY <1>1, <1>4, <1>5, <1>6 DEF IndInv

\* Every step keeps the inductive invariant.
LEMMA IndStep == IndInv /\ [Next]_vars => IndInv'
<1> SUFFICES ASSUME IndInv, [Next]_vars PROVE IndInv'
  OBVIOUS
<1>1. /\ FlagsOK /\ RestOK /\ QueuesOK /\ PeerOK /\ TypeOK'
  BY TypeSplit, TypeStep DEF IndInv
<1>2. ClosedOnce' /\ ReadOn' /\ WriteOn'
  BY <1>1, ClosedStep, ReadOnStep, WriteOnStep DEF IndInv
<1>3. CASE crash = "none"
  <2>1. OneToken' /\ DrainedIsLow' /\ InOrder'
    BY <1>1, <1>3, TokenStep, DrainedStep, OrderStep DEF IndInv
  <2> QED
    BY <1>1, <1>2, <2>1 DEF IndInv
<1>4. CASE crash # "none"
  <2>1. UNCHANGED vars
    BY <1>4 DEF Next
  <2>2. OneToken' /\ DrainedIsLow'
    BY <1>4, <2>1 DEF OneToken, DrainedIsLow, vars
  <2>3. InOrder'
    BY <2>1 DEF IndInv, InOrder, Doomed, Revived, vars
  <2> QED
    BY <1>1, <1>2, <2>2, <2>3 DEF IndInv
<1> QED
  BY <1>3, <1>4

\* The inductive invariant holds of every behaviour.
LEMMA IndInvariant == Spec => []IndInv
  BY IndInit, IndStep, PTL DEF Spec

\* Every variable of the connection keeps its type, for every capacity of the
\* queues, every water mark and every number of messages.
THEOREM TypeCorrect == Spec => []TypeOK
<1>1. IndInv => TypeOK
  BY DEF IndInv
<1> QED
  BY <1>1, IndInvariant, PTL

\* At most one read is armed, queued or under way (SingleReader), though the
\* reactor, onRead and getInput on the other thread can each start one.
THEOREM OneReaderAtATime == Spec => []SingleReader
<1>1. IndInv => SingleReader
  BY TokenSingle, TypeSplit DEF IndInv
<1> QED
  BY <1>1, IndInvariant, PTL

\* An open connection never stalls (NeverStalls): somebody is to read what the
\* peer sends and to write what the protocol has sent, whatever the two threads
\* interleave around stopReadingM.
THEOREM OpenConnectionGoesOn == Spec => []NeverStalls
<1>1. IndInv => NeverStalls
  <2> SUFFICES ASSUME IndInv PROVE ReadingGoesOn /\ WritingGoesOn
    BY DEF NeverStalls
  <2>1. /\ ReadQueued(bgJobs) => PendingJob("onRead") \/ PendingJob("addRead")
        /\ WriteQueued(bgJobs)
             => PendingJob("onWrite") \/ PendingJob("addWrite")
        /\ CloseQueued(bgJobs) => PendingJob("close")
    BY DEF ReadQueued, WriteQueued, CloseQueued, ReadOps, WriteOps, Holds,
       PendingJob
  <2>2. HasInput(uiJobs) \/ bg = "readNotify"
          \/ ui \in {"getInput", "flow", "resume"}
          => InputAwaited
    BY DEF HasInput, InputAwaited
  <2>3. ReadingGoesOn
    BY <2>1, <2>2 DEF IndInv, ReadOn, ReadingGoesOn
  <2>4. WritingGoesOn
    BY <2>1 DEF IndInv, WriteOn, WritingGoesOn
  <2> QED
    BY <2>3, <2>4
<1> QED
  BY <1>1, IndInvariant, PTL

\* The reactor's raw jobs always find the connection, and so do the background
\* worker's own unless closeAfterSent revived a closed one
\* (JobsFindConnection).
THEOREM JobsFindTheConnection == Spec => []JobsFindConnection
<1>1. IndInv => JobsFindConnection
  <2> SUFFICES ASSUME IndInv PROVE JobsFindConnection
    OBVIOUS
  <2>1. ASSUME NEW i \in 1 .. Len(bgJobs), bgJobs[i].by = "reactor"
        PROVE  selfM /\ \A j \in 1 .. i : bgJobs[j].op # "release"
    <3>1. ReactorQueued(bgJobs)
      BY <2>1 DEF ReactorQueued
    <3>2. selfM
      BY <3>1 DEF IndInv, InOrder
    <3>3. \A j \in 1 .. i : bgJobs[j].op # "release"
      BY <2>1 DEF IndInv, InOrder, ReactorBehind
    <3> QED
      BY <3>2, <3>3
  <2>2. crash \in {"jobOnFreed", "timerOnFreed"} => Revived
    BY DEF IndInv, InOrder
  <2> QED
    BY <2>1, <2>2 DEF JobsFindConnection
<1> QED
  BY <1>1, IndInvariant, PTL
=============================================================================
