-------------------------- MODULE DriveSessionProofs --------------------------
(***************************************************************************)
(* Theorems about DriveSession for any number of sessions, any size of a   *)
(* page and any faults.                                                    *)
(***************************************************************************)
EXTENDS DriveSession, FiniteSetTheorems, WellFoundedInduction, NaturalsInduction, TLAPS

Methods == {"GET", "POST", "PUT", "DELETE"}

\* The states whose entry asks for something of the drive.
Asking == States \ {"IDLE_STATE", "CHECK_ACTION", "GET_AUTH_CODE_STATE"}

\* What the lemmas need to know of the members: that they have these fields,
\* and that the jobs posted in a handler are requests.
Members(g) ==
  /\ {"state", "posted", "listening"} \subseteq DOMAIN g
  /\ g.state \in States
  /\ g.posted \in Seq(Methods)

(***************************************************************************)
(* A handler of the machine settles it: it is at rest, or its socket       *)
(* listens, or it has just posted a request.  This is said of every        *)
(* operator from the members before the handler alone, whatever the state, *)
(* the answer and the lists; so it holds of stale answers too.             *)
(***************************************************************************)
Settled(h) ==
  /\ Members(h)
  /\ \/ h.state \in {"IDLE_STATE", "CHECK_ACTION"}
     \/ h.state = "GET_AUTH_CODE_STATE" /\ h.listening
     \/ h.state \in Asking /\ h.posted # <<>>

-----------------------------------------------------------------------------
(* The operators of the machine settle it.                                 *)

\* A request posted from a handler settles the machine.
LEMMA AskSettles ==
  ASSUME NEW g, Members(g), NEW s \in Asking, NEW q
  PROVE  Settled(Ask(g, s, q))
<1>1. MethodOf(q.op) \in Methods
  BY DEF MethodOf, Methods
<1>2. /\ Append(g.posted, MethodOf(q.op)) \in Seq(Methods)
      /\ Append(g.posted, MethodOf(q.op)) # <<>>
  BY <1>1 DEF Members
<1>3. /\ Ask(g, s, q).state = s
      /\ Ask(g, s, q).posted = Append(g.posted, MethodOf(q.op))
      /\ DOMAIN Ask(g, s, q) = DOMAIN g
  BY DEF Ask, Members
<1> QED
  BY <1>2, <1>3 DEF Settled, Members, Asking

\* initAll keeps the state it is called in.
LEMMA InitAllMembers ==
  ASSUME NEW g, Members(g)
  PROVE  Members(initAll(g)) /\ initAll(g).state = g.state
BY DEF initAll, Members

\* Back to IDLE_STATE, nothing is waited for.
LEMMA IdleSettles ==
  ASSUME NEW g, Members(g)
  PROVE  Settled(Idle(g))
BY InitAllMembers DEF Idle, Settled, Members, States

\* getAuthCode leaves a socket that listens.
LEMMA GetAuthCodeSettles ==
  ASSUME NEW g, Members(g)
  PROVE  Settled(getAuthCode(g))
BY DEF getAuthCode, Settled, Members, States

\* refreshAccessToken posts its request or opens the socket.
LEMMA RefreshSettles ==
  ASSUME NEW g, Members(g),
         NEW s \in {"REFRESH_ACCESS_TOKEN_STATE", "REFRESH_ACCESS_TOKEN_STATE2"}
  PROVE  Settled(refreshAccessToken(g, s))
<1>1. s \in Asking
  BY DEF Asking, States
<1>2. Settled(Ask(g, s, [op |-> "refresh"]))
  BY <1>1, AskSettles
<1> QED
  BY <1>2, GetAuthCodeSettles DEF refreshAccessToken

\* Every entry of a state with a request posts it, or gives up.
LEMMA RequestsSettle ==
  ASSUME NEW g, Members(g)
  PROVE  /\ Settled(getAccessToken(g))
         /\ Settled(getSessionFolder(g))
         /\ Settled(createSessionFolder(g))
         /\ \A seen : Settled(List(g, seen))
         /\ Settled(downloadSession(g))
         /\ Settled(deleteSession(g))
         /\ Settled(uploadSession(g))
<1> {"GET_ACCESS_TOKEN_STATE", "GET_SESSION_FOLDER", "CREATE_SESSION_FOLDER",
     "GET_EXIST_SESSIONS_ID", "DOWNLOAD_SESSION", "DELETE_SESSIONS",
     "UPLOAD_SESSION"} \subseteq Asking
  BY DEF Asking, States
<1>1. \A s \in Asking : \A q : Settled(Ask(g, s, q))
  BY AskSettles
<1>2. Settled(getAccessToken(g))
  BY <1>1 DEF getAccessToken
<1>3. Settled(getSessionFolder(g)) /\ Settled(createSessionFolder(g))
  BY <1>1 DEF getSessionFolder, createSessionFolder
<1>4. \A seen : Settled(List(g, seen))
  BY <1>1 DEF List
<1>5. Settled(downloadSession(g)) /\ Settled(deleteSession(g))
  BY <1>1, IdleSettles DEF downloadSession, deleteSession
<1>6. Settled(uploadSession(g))
  BY <1>1 DEF uploadSession
<1> QED
  BY <1>2, <1>3, <1>4, <1>5, <1>6

\* checkAction posts a request for the next list, or rests.
LEMMA CheckActionSettles ==
  ASSUME NEW g, Members(g)
  PROVE  Settled(checkAction(g))
<1>1. Settled([g EXCEPT !.state = "CHECK_ACTION"])
  BY DEF Settled, Members, States
<1> QED
  BY <1>1, RequestsSettle DEF checkAction

\* An event without an action ends in checkAction all the same.
LEMMA UndefinedSettles ==
  ASSUME NEW g, Members(g)
  PROVE  Settled(Undefined(g))
<1> DEFINE h == IF g.state = "IDLE_STATE" THEN initAll(g) ELSE g
<1>1. Members(h)
  BY InitAllMembers
<1>2. Members([h EXCEPT !.undefined = TRUE])
  BY <1>1 DEF Members
<1> QED
  BY <1>2, CheckActionSettles DEF Undefined

\* FAILED_EVT, NEXT_EVT and RETRY_EVT settle the machine in every state.
LEMMA EventsSettle ==
  ASSUME NEW g, Members(g)
  PROVE  Settled(Failed(g)) /\ Settled(NextEvt(g)) /\ Settled(Retry(g))
<1>1. Settled(Failed(g))
  BY GetAuthCodeSettles, UndefinedSettles, IdleSettles DEF Failed
<1>2. Settled(NextEvt(g))
  BY InitAllMembers, RefreshSettles, RequestsSettle, CheckActionSettles,
     UndefinedSettles DEF NextEvt
<1>3. Settled(Retry(g))
  BY RefreshSettles, UndefinedSettles DEF Retry
<1> QED
  BY <1>1, <1>2, <1>3

\* parseAccessToken settles the machine whatever the answer is.
LEMMA ParseTokenSettles ==
  ASSUME NEW g0, Members(g0)
  PROVE  Settled(parseAccessToken(g0))
<1> DEFINE g == [g0 EXCEPT !.mAccessTokenHeader = FALSE]
           r == g.mHttpRsp
<1>0. Members(g)
  BY DEF Members
<1> HIDE DEF g
<1> DEFINE ok == [g EXCEPT !.mAccessToken = TRUE, !.mAccessTokenHeader = TRUE,
                           !.mRefreshToken = @ \/ r.refresh]
           short == [g EXCEPT !.mAccessToken = FALSE, !.mRefreshToken = @ \/ r.refresh]
           bad == [g EXCEPT !.mAccessToken = FALSE, !.mRefreshToken = FALSE]
           none == [g EXCEPT !.mAccessToken = FALSE,
                             !.mRefreshToken = @ /\ g.mAccessToken]
<1>1. Members(ok) /\ Members(short) /\ Members(bad) /\ Members(none)
  BY <1>0 DEF Members
<1>2. parseAccessToken(g0) \in {Failed(g), NextEvt(ok), Retry(short), Failed(bad), Retry(none)}
  BY DEF parseAccessToken, g
<1> HIDE DEF ok, short, bad, none
<1> QED
  BY <1>0, <1>1, <1>2, EventsSettle

\* So do the two parsers of the folder.
LEMMA ParseFolderSettles ==
  ASSUME NEW g, Members(g)
  PROVE  Settled(parseSessionFolderInfo(g)) /\ Settled(parseCreateSessionFolderInfo(g))
<1> DEFINE known(id) == [g EXCEPT !.mSessionFolderId = id]
<1>1. \A id : Members(known(id))
  BY DEF Members
<1>2. parseSessionFolderInfo(g)
        \in {NextEvt(known("folder")), NextEvt(known("file")), createSessionFolder(g), Failed(g)}
  BY DEF parseSessionFolderInfo
<1>3. parseCreateSessionFolderInfo(g)
        \in {checkAction(known("folder")), checkAction(known("file")), Failed(g)}
  BY DEF parseCreateSessionFolderInfo
<1> HIDE DEF known
<1> QED
  BY <1>1, <1>2, <1>3, EventsSettle, RequestsSettle, CheckActionSettles

\* So does parseSessionsId, page by page.
LEMMA ParseSessionsIdSettles ==
  ASSUME NEW g, Members(g)
  PROVE  Settled(parseSessionsId(g))
<1> DEFINE known(ids) == [g EXCEPT !.mExistSessionsId = ids]
<1>1. \A ids : Members(known(ids))
  BY DEF Members
<1>2. \/ \E ids, seen : parseSessionsId(g) \in {List(known(ids), seen), checkAction(known(ids))}
      \/ parseSessionsId(g) \in {checkAction(g), Failed(g)}
  BY DEF parseSessionsId
<1> HIDE DEF known
<1> QED
  BY <1>1, <1>2, EventsSettle, RequestsSettle, CheckActionSettles

\* So do the parsers that work off the lists.
LEMMA ParseListsSettle ==
  ASSUME NEW g, Members(g)
  PROVE  /\ Settled(parseDownloadSession(g))
         /\ Settled(parseDeleteSession(g))
         /\ Settled(parseUploadSession(g))
<1>1. Settled(parseDownloadSession(g))
  <2>1. PICK h : /\ Members(h)
                 /\ parseDownloadSession(g) \in {downloadSession(h), checkAction(h)}
    BY DEF parseDownloadSession, Members
  <2> QED
    BY <2>1, RequestsSettle, CheckActionSettles
<1>2. Settled(parseDeleteSession(g))
  <2>1. PICK h : /\ Members(h)
                 /\ parseDeleteSession(g) \in {Failed(g), deleteSession(h), checkAction(h)}
    BY DEF parseDeleteSession, Members
  <2> QED
    BY <2>1, EventsSettle, RequestsSettle, CheckActionSettles
<1>3. Settled(parseUploadSession(g))
  <2>1. PICK h : /\ Members(h)
                 /\ parseUploadSession(g) \in {Failed(g), uploadSession(h), checkAction(h)}
    BY DEF parseUploadSession, Members
  <2> QED
    BY <2>1, EventsSettle, RequestsSettle, CheckActionSettles
<1> QED
  BY <1>1, <1>2, <1>3

\* HTTP_SUCCESS_EVT and HTTP_FAILED_EVT settle the machine in every state.
LEMMA AnswersSettle ==
  ASSUME NEW g, Members(g)
  PROVE  Settled(HttpSuccess(g)) /\ Settled(HttpFailed(g))
<1>1. HttpSuccess(g)
        \in {parseAccessToken(g), parseSessionFolderInfo(g), parseCreateSessionFolderInfo(g),
             parseSessionsId(g), parseDownloadSession(g), parseDeleteSession(g),
             parseUploadSession(g), Undefined(g)}
  BY DEF HttpSuccess
<1>2. HttpFailed(g) \in {Undefined(g), Idle(g)}
  BY DEF HttpFailed
<1> QED
  BY <1>1, <1>2, ParseTokenSettles, ParseFolderSettles, ParseSessionsIdSettles,
     ParseListsSettle, UndefinedSettles, IdleSettles

-----------------------------------------------------------------------------
(* The invariant.                                                          *)

Jobs ==
  /\ jobs \in Seq(Methods)
  /\ running = {} \/ \E r : running = {r}
  /\ answers \in Nat

IndInv == Members(gd) /\ Jobs /\ WaitIsAnswered

\* A set of at most one element, as the worker's request is.
LEMMA OneRequestRuns ==
  ASSUME NEW S, S = {} \/ \E r : S = {r}
  PROVE  /\ Cardinality(S) \in {0, 1}
         /\ S # {} => Cardinality(S) = 1
BY FS_EmptySet, FS_Singleton

\* A handler that settles the machine commits a state that waits for its job.
LEMMA CommitWaits ==
  ASSUME Jobs, Jobs', NEW h, Settled(h), NEW b, Commit(h, b)
  PROVE  Members(gd)' /\ WaitIsAnswered'
<1>1. /\ gd'.state = h.state /\ gd'.listening = h.listening /\ gd'.posted = <<>>
      /\ DOMAIN gd' = DOMAIN h
  BY DEF Commit, Settled, Members
<1>2. Members(gd)'
  BY <1>1 DEF Members, Settled
<1>3. Len(jobs') = Len(jobs) + Len(h.posted) /\ Len(jobs) \in Nat /\ Len(h.posted) \in Nat
  BY DEF Commit, Jobs, Settled, Members
<1>4. h.posted # <<>> => InFlight' > 0
  <2>1. h.posted # <<>> => Len(h.posted) > 0
    BY DEF Settled, Members
  <2>2. Cardinality(running') \in {0, 1} /\ answers' \in Nat
    BY OneRequestRuns DEF Jobs
  <2> QED
    BY <1>3, <2>1, <2>2 DEF InFlight
<1> QED
  BY <1>1, <1>2, <1>4 DEF WaitIsAnswered, IsBusy, Settled, Asking

-----------------------------------------------------------------------------
(* Each step keeps it.                                                     *)

\* At the start nothing is waited for.
LEMMA InitInv == Init => IndInv
<1> SUFFICES ASSUME Init PROVE IndInv
  OBVIOUS
<1>1. Members(gd)
  BY DEF Init, Members, States
<1>2. Jobs
  BY DEF Init, Jobs
<1>3. gd.state = "IDLE_STATE"
  BY DEF Init
<1> QED
  BY <1>1, <1>2, <1>3 DEF IndInv, WaitIsAnswered, IsBusy

\* The handlers of the dialog and of the socket.
LEMMA UserKeepsInv ==
  ASSUME IndInv,
         LoadRemoteFile \/ ApplyChanges \/ \E good \in BOOLEAN : AuthInput(good)
  PROVE  IndInv'
<1>1. PICK h, b : Settled(h) /\ Commit(h, b)
  <2>1. CASE LoadRemoteFile
    <3>1. Members(IF gd.state = "IDLE_STATE" THEN gd ELSE Failed(gd))
      BY EventsSettle DEF IndInv, Settled
    <3> QED
      BY <2>1, <3>1, EventsSettle DEF LoadRemoteFile
  <2>2. CASE ApplyChanges
    BY <2>2, EventsSettle DEF ApplyChanges, ButtonsShown, IsBusy, IndInv
  <2>3. ASSUME NEW good \in BOOLEAN, AuthInput(good)
        PROVE  \E h, b : Settled(h) /\ Commit(h, b)
    <3>1. \A c : Members([gd EXCEPT !.mAuthCode = c])
      BY DEF IndInv, Members
    <3> QED
      BY <2>3, <3>1, EventsSettle DEF AuthInput
  <2> QED
    BY <2>1, <2>2, <2>3
<1>2. UNCHANGED <<running, answers>>
  BY DEF LoadRemoteFile, ApplyChanges, AuthInput
<1>3. Jobs'
  <2>1. jobs' \in Seq(Methods)
    BY <1>1 DEF Commit, Settled, Members, IndInv, Jobs
  <2> QED
    BY <1>2, <2>1 DEF IndInv, Jobs
<1> QED
  BY <1>1, <1>3, CommitWaits DEF IndInv

\* An answer is used up, whatever state it comes in.
LEMMA AnswerKeepsInv ==
  ASSUME IndInv, HandleHttpRsp
  PROVE  IndInv'
<1>1. PICK h, b : Settled(h) /\ Commit(h, b)
  BY AnswersSettle DEF HandleHttpRsp, IndInv
<1>2. Jobs'
  <2>1. jobs' \in Seq(Methods)
    BY <1>1 DEF Commit, Settled, Members, IndInv, Jobs
  <2>2. answers' \in Nat /\ UNCHANGED running
    BY DEF HandleHttpRsp, IndInv, Jobs
  <2> QED
    BY <2>1, <2>2 DEF IndInv, Jobs
<1> QED
  BY <1>1, <1>2, CommitWaits DEF IndInv

\* The lists are edited when nothing is waited for.
SameMachine(h) ==
  /\ DOMAIN h = DOMAIN gd
  /\ h.state = gd.state /\ h.posted = gd.posted /\ h.listening = gd.listening

\* The buttons of the dialog (GoogleDriveFsmSession's lists) post nothing.
LEMMA EditKeepsInv ==
  ASSUME IndInv, UserEdits
  PROVE  IndInv'
<1> USE DEF IndInv, Members, SameMachine
<1>1. PICK h : Edit(h) /\ SameMachine(h)
  <2>1. ASSUME NEW n \in Sessions, NEW to \in Sessions,
               UploadCloudSession(n) \/ DeleteCloudSession(n) \/ DownloadCloudSession(n, to)
        PROVE  \E h : Edit(h) /\ SameMachine(h)
    <3> DEFINE c == ClearInAllLists(gd, n)
    <3>1. SameMachine(c)
      BY DEF ClearInAllLists
    <3> HIDE DEF c
    <3>2. /\ SameMachine([c EXCEPT !.mUploadList[n] = n])
          /\ SameMachine([c EXCEPT !.mDeleteList = @ \cup {n}])
          /\ SameMachine([c EXCEPT !.mDownloadList = @ \cup {n}, !.saveAs[n] = to])
      BY <3>1
    <3>3. \/ Edit(c)
          \/ Edit([c EXCEPT !.mUploadList[n] = n])
          \/ Edit([c EXCEPT !.mDeleteList = @ \cup {n}])
          \/ Edit([c EXCEPT !.mDownloadList = @ \cup {n}, !.saveAs[n] = to])
      BY <2>1 DEF UploadCloudSession, DeleteCloudSession, DownloadCloudSession, c
    <3> QED
      BY <3>1, <3>2, <3>3
  <2>2. ASSUME NEW n \in Sessions, NEW to \in Sessions, RenameUpload(n, to)
        PROVE  \E h : Edit(h) /\ SameMachine(h)
    <3> DEFINE r == [gd EXCEPT !.mUploadList[to] = gd.mUploadList[n],
                               !.mUploadList[n] = None]
    <3>1. SameMachine(r)
      OBVIOUS
    <3>2. Edit(r)
      BY <2>2 DEF RenameUpload
    <3> QED
      BY <3>1, <3>2
  <2>3. ASSUME ResetChanges
        PROVE  \E h : Edit(h) /\ SameMachine(h)
    <3> DEFINE r == [gd EXCEPT !.mDownloadList = {}, !.saveAs = OwnNames, !.mDeleteList = {},
                               !.mUploadList = [n \in Sessions |-> None]]
    <3>1. SameMachine(r)
      OBVIOUS
    <3>2. Edit(r)
      BY <2>3 DEF ResetChanges
    <3> QED
      BY <3>1, <3>2
  <2> QED
    BY <2>1, <2>2, <2>3 DEF UserEdits
<1>2. gd' = h /\ gd.state = "CHECK_ACTION" /\ UNCHANGED <<jobs, running, answers>>
  BY <1>1 DEF Edit, ButtonsShown
<1> QED
  BY <1>1, <1>2 DEF Jobs, WaitIsAnswered, IsBusy

\* The worker passes the request on from its queue to itself to an answer.
LEMMA BackgroundKeepsInv ==
  ASSUME IndInv, Background
  PROVE  IndInv'
<1>1. /\ DOMAIN gd' = DOMAIN gd
      /\ gd'.state = gd.state /\ gd'.posted = gd.posted /\ gd'.listening = gd.listening
  BY DEF IndInv, Members, Background, BgStart, BgAnswered, BgLost, BgNoAddress, Leave
<1>2. Jobs' /\ InFlight' \in Nat /\ InFlight' >= InFlight
  <2>1. CASE BgStart
    <3>1. running = {} /\ answers' = answers /\ (\E r : running' = {r})
      BY <2>1 DEF BgStart
    <3>2. Cardinality(running) = 0 /\ Cardinality(running') = 1
      BY <3>1, FS_EmptySet, FS_Singleton
    <3>3. jobs \in Seq(Methods) /\ jobs # <<>> /\ jobs' = Tail(jobs) /\ answers \in Nat
      BY <2>1 DEF BgStart, IndInv, Jobs
    <3>4. Len(jobs) \in Nat /\ jobs' \in Seq(Methods) /\ Len(jobs') = Len(jobs) - 1
          /\ Len(jobs) > 0
      BY <3>3
    <3>5. Jobs'
      BY <3>1, <3>3, <3>4 DEF Jobs
    <3> QED
      BY <3>1, <3>2, <3>3, <3>4, <3>5 DEF InFlight
  <2>2. CASE \E r \in running : BgAnswered(r) \/ BgLost(r) \/ BgNoAddress(r)
    <3>1. /\ jobs' = jobs /\ running # {}
          /\ \/ running' = {} /\ answers' = answers + 1
             \/ (\E r : running' = {r}) /\ answers' = answers
      BY <2>2 DEF BgAnswered, BgLost, BgNoAddress, Leave
    <3>2. Cardinality(running) = 1
      BY <3>1, OneRequestRuns DEF IndInv, Jobs
    <3>3. /\ running' = {} => Cardinality(running') = 0
          /\ (\E r : running' = {r}) => Cardinality(running') = 1
      BY FS_EmptySet, FS_Singleton
    <3>4. Len(jobs) \in Nat /\ answers \in Nat /\ jobs \in Seq(Methods)
      BY DEF IndInv, Jobs
    <3>5. answers' \in Nat /\ (running' = {} \/ \E r : running' = {r})
      BY <3>1, <3>4
    <3>6. Jobs'
      BY <3>1, <3>4, <3>5 DEF Jobs
    <3>7. CASE running' = {} /\ answers' = answers + 1
      BY <3>1, <3>2, <3>3, <3>4, <3>6, <3>7 DEF InFlight
    <3>8. CASE (\E r : running' = {r}) /\ answers' = answers
      <4>1. Cardinality(running') = 1 /\ answers' = answers /\ jobs' = jobs
        BY <3>1, <3>3, <3>8
      <4> QED
        BY <3>2, <3>4, <3>6, <4>1 DEF InFlight
    <3> QED
      BY <3>1, <3>7, <3>8
  <2> QED
    BY <2>1, <2>2 DEF Background
<1>3. InFlight \in Nat
  <2>1. Cardinality(running) \in {0, 1}
    BY OneRequestRuns DEF IndInv, Jobs
  <2>2. Len(jobs) \in Nat /\ answers \in Nat
    BY DEF IndInv, Jobs
  <2> QED
    BY <2>1, <2>2 DEF InFlight
<1> QED
  BY <1>1, <1>2, <1>3 DEF IndInv, Members, WaitIsAnswered, IsBusy

\* Whatever the user does, whatever is lost and however often the dialog is closed
\* and opened in between, a busy cloud session always has a request under way or
\* a socket that listens (handleHttpRsp, bgHttpRequest).
THEOREM BusyIsAnswered == Spec => []WaitIsAnswered
<1>1. IndInv /\ [Next]_vars => IndInv'
  <2> SUFFICES ASSUME IndInv, [Next]_vars PROVE IndInv'
    OBVIOUS
  <2>1. CASE Next
    BY <2>1, UserKeepsInv, EditKeepsInv, BackgroundKeepsInv, AnswerKeepsInv DEF Next
  <2>2. CASE UNCHANGED vars
    BY <2>2 DEF vars, IndInv, Members, Jobs, WaitIsAnswered, IsBusy, InFlight
  <2> QED
    BY <2>1, <2>2
<1>2. IndInv => WaitIsAnswered
  BY DEF IndInv
<1> QED
  BY InitInv, <1>1, <1>2, PTL DEF Spec

-----------------------------------------------------------------------------
(* Types.  A place in the account that may be named before there is a      *)
(* folder is told apart: f says whether there is one.                      *)

FileIds == Ids \cup {None, FolderId}
Parents(f) == {"none", "file"} \cup (IF f THEN {"folder"} ELSE {})
Made(f) == Ids \cup (IF f THEN {FolderId} ELSE {})

\* What handleHttpRsp may find in mHttpRsp.
Answers(f) ==
  [kind : {"empty", "garbage", "noToken", "badToken", "noFolder", "error"}
          \cup (IF f THEN {"folder"} ELSE {})]
  \cup [kind : {"token", "short"}, refresh : BOOLEAN]
  \cup [kind : {"id"}, id : Made(f)]
  \cup [kind : {"session"}, body : Bodies]
  \cup [kind : {"page"}, items : SUBSET [id : Ids, name : Sessions], seen : SUBSET Ids,
        more : BOOLEAN]

\* What an action of the machine may write into mHttpUrl, mPostData and mHttpHeaders.
Requests(f) ==
  [op : {"none", "refresh"}]
  \cup [op : {"code"}, code : BOOLEAN]
  \cup [op : {"folder", "mkfolder"}, auth : BOOLEAN]
  \cup [op : {"list"}, auth : BOOLEAN, parent : Parents(f), seen : SUBSET Ids]
  \cup [op : {"get", "delete"}, auth : BOOLEAN, id : FileIds]
  \cup [op : {"update"}, auth : BOOLEAN, id : FileIds, body : Bodies]
  \cup [op : {"create"}, auth : BOOLEAN, parent : Parents(f), name : Sessions, body : Bodies]

MemberSet(f) ==
  [state : States, mAccessToken : BOOLEAN, mRefreshToken : BOOLEAN,
   mAccessTokenHeader : BOOLEAN, mAuthCode : BOOLEAN, listening : BOOLEAN,
   http : Requests(f), mHttpRsp : Answers(f), mHttpResult : BOOLEAN,
   mSessionFolderId : Parents(f), mExistSessionsId : [Sessions -> FileIds],
   mDownloadList : SUBSET Sessions, saveAs : [Sessions -> Sessions],
   mDeleteList : SUBSET Sessions,
   mUploadList : [Sessions -> Sessions \cup {None}], posted : Seq(Methods),
   local : [Sessions -> Bodies], undefined : BOOLEAN]

\* A state that works on the first entry of a list has one.
WorkLists(g) ==
  /\ g.state = "DOWNLOAD_SESSION" => g.mDownloadList # {}
  /\ g.state = "DELETE_SESSIONS" => g.mDeleteList # {}
  /\ g.state = "UPLOAD_SESSION" => Listed(g.mUploadList) # {}

Typed(g, f) == g \in MemberSet(f) /\ WorkLists(g)

-----------------------------------------------------------------------------
(* Sets of sessions and of files.                                          *)

\* The first entry of a list, as begin() of a std::map or std::set gives it.
LEMMA FirstOfList ==
  ASSUME NEW S \in SUBSET Nat, S # {}
  PROVE  Min(S) \in S /\ \A x \in S : Min(S) <= x
<1> DEFINE R == {p \in Nat \X Nat : p[1] < p[2]}
<1>1. IsWellFoundedOn(R, Nat)
  BY NatLessThanWellFounded DEF OpToRel
<1> HIDE DEF R
<1>2. PICK m \in S : \A k \in S : <<k, m>> \notin R
  BY <1>1, WFMin
<1>3. ASSUME NEW k \in S PROVE m <= k
  <2>1. k \in Nat /\ m \in Nat /\ <<k, m>> \notin R
    BY <1>2
  <2>2. ~(k < m)
    BY <2>1 DEF R
  <2> QED
    BY <2>1, <2>2
<1> QED
  BY <1>2, <1>3 DEF Min

\* The last id of a set of files, as a later entry of mExistSessionsId replaces an
\* earlier one.
LEMMA LastOfFiles ==
  ASSUME NEW S \in SUBSET Ids, S # {}
  PROVE  Max(S) \in S /\ \A y \in S : Max(S) >= y
<1> DEFINE T == {MaxFile - x : x \in S}
<1>1. \A x \in S : x \in Nat /\ x <= MaxFile /\ MaxFile \in Nat
  BY BoundsAssumption DEF Ids
<1>2. T \in SUBSET Nat /\ T # {}
  BY <1>1
<1>3. PICK x \in S : MaxFile - x = Min(T)
  BY <1>2, FirstOfList
<1>4. \A y \in S : x >= y
  BY <1>1, <1>2, <1>3, FirstOfList
<1> QED
  BY <1>3, <1>4 DEF Max

\* The last of a set of sessions is the last of it without its first.
LEMMA LastWithoutFirst ==
  ASSUME NEW S \in SUBSET Sessions, NEW n \in S, \A y \in S : n <= y, S # {n}
  PROVE  Max(S) = Max(S \ {n})
<1> DEFINE m == Max(S \ {n})
           k == Max(S)
<1>1. Sessions \subseteq Ids /\ Ids \subseteq Nat
  BY BoundsAssumption DEF Sessions, Ids
<1>2. m \in S \ {n} /\ \A y \in S \ {n} : m >= y
  <2>1. S \ {n} \in SUBSET Ids /\ S \ {n} # {}
    BY <1>1
  <2> QED
    BY <2>1, LastOfFiles
<1>3. k \in S /\ \A y \in S : k >= y
  <2>1. S \in SUBSET Ids /\ S # {}
    BY <1>1
  <2> QED
    BY <2>1, LastOfFiles
<1> HIDE DEF m, k
<1>4. m >= k /\ k >= m
  <2>1. k # n => m >= k
    BY <1>2, <1>3
  <2>2. k = n => m >= k
    BY <1>1, <1>2
  <2> QED
    BY <1>2, <1>3, <2>1, <2>2
<1>5. m \in Nat /\ k \in Nat
  BY <1>1, <1>2, <1>3
<1>6. m = k
  BY <1>4, <1>5
<1> QED
  BY <1>6 DEF m, k

\* Sessions and files are numbers, and what is no file is none of them.
LEMMA Numbers ==
  /\ Sessions \subseteq Nat /\ Sessions \subseteq Ids /\ Ids \subseteq Nat
  /\ None \notin Sessions /\ None \notin Ids
  /\ FolderId \notin Ids /\ FolderId # None
BY BoundsAssumption DEF Sessions, Ids, None, FolderId

\* The first entry of mUploadList is a session, and so is the one it is made from.
LEMMA ListedAre ==
  ASSUME NEW u \in [Sessions -> Sessions \cup {None}]
  PROVE  /\ Listed(u) \subseteq Sessions
         /\ Listed(u) # {} => Min(Listed(u)) \in Listed(u) /\ Min(Listed(u)) \in Sessions
                              /\ u[Min(Listed(u))] \in Sessions
<1>1. Listed(u) \subseteq Sessions
  BY DEF Listed
<1>2. Listed(u) # {} => Min(Listed(u)) \in Listed(u)
  BY <1>1, FirstOfList, Numbers
<1> QED
  BY <1>1, <1>2 DEF Listed

\* The settings sessions start with, and a refusal saved as settings.
LEMMA BodyHere ==
  /\ \A n \in Sessions : Body("here", n) \in Bodies /\ Body("there", n) \in Bodies
  /\ Junk \in Bodies
BY DEF Body, Bodies, Junk

-----------------------------------------------------------------------------
(* The operators of the machine keep the types.                            *)

\* A request of the right type leaves the members well typed.
LEMMA AskTypes ==
  ASSUME NEW f, NEW g \in MemberSet(f), NEW s \in States, NEW q \in Requests(f)
  PROVE  Ask(g, s, q) \in MemberSet(f)
<1> DEFINE m == MethodOf(q.op)
           p == Append(g.posted, m)
<1>1. m \in Methods
  BY DEF MethodOf, Methods
<1>2. g.posted \in Seq(Methods)
  BY DEF MemberSet
<1> HIDE DEF m
<1>3. p \in Seq(Methods)
  BY <1>1, <1>2
<1>4. Empty \in Answers(f) /\ TRUE \in BOOLEAN
  BY DEF Answers, Empty
<1>5. Ask(g, s, q) = [g EXCEPT !.state = s, !.http = q, !.mHttpRsp = Empty,
                               !.mHttpResult = TRUE, !.posted = p]
  BY DEF Ask, m, MemberSet
<1> HIDE DEF p
<1> QED
  BY <1>3, <1>4, <1>5 DEF MemberSet

\* What Ask changes, and all it leaves.
LEMMA AskIs ==
  ASSUME NEW f, NEW g \in MemberSet(f), NEW s, NEW q
  PROVE  /\ Ask(g, s, q).state = s /\ Ask(g, s, q).http = q
         /\ Ask(g, s, q).posted = Append(g.posted, MethodOf(q.op))
         /\ Ask(g, s, q).mExistSessionsId = g.mExistSessionsId
         /\ Ask(g, s, q).mDownloadList = g.mDownloadList
         /\ Ask(g, s, q).saveAs = g.saveAs
         /\ Ask(g, s, q).mDeleteList = g.mDeleteList
         /\ Ask(g, s, q).mUploadList = g.mUploadList
         /\ Ask(g, s, q).local = g.local
         /\ Ask(g, s, q).undefined = g.undefined
BY DEF Ask, MemberSet

\* initAll leaves the members well typed.
LEMMA InitAllTypes ==
  ASSUME NEW f, NEW g \in MemberSet(f)
  PROVE  initAll(g) \in MemberSet(f)
<1>1. /\ FALSE \in BOOLEAN /\ "none" \in Parents(f)
      /\ NoRequest \in Requests(f) /\ Empty \in Answers(f)
  BY DEF Parents, NoRequest, Requests, Empty, Answers
<1>2. /\ [n \in Sessions |-> None] \in [Sessions -> FileIds]
      /\ [n \in Sessions |-> None] \in [Sessions -> Sessions \cup {None}]
  BY DEF FileIds
<1> DEFINE none == [n \in Sessions |-> None]
<1>3. initAll(g) = [g EXCEPT !.mAuthCode = FALSE, !.listening = FALSE,
            !.mAccessTokenHeader = FALSE,
            !.http = NoRequest, !.mHttpRsp = Empty, !.mSessionFolderId = "none",
            !.mExistSessionsId = none,
            !.mDownloadList = {}, !.saveAs = OwnNames, !.mDeleteList = {},
            !.mUploadList = none]
  BY DEF initAll
<1> HIDE DEF none
<1>4. OwnNames \in [Sessions -> Sessions]
  BY DEF OwnNames
<1>5. none \in [Sessions -> FileIds] /\ none \in [Sessions -> Sessions \cup {None}]
  BY <1>2 DEF none
<1> QED
  <2> DEFINE h == [g EXCEPT !.mAuthCode = FALSE, !.listening = FALSE,
                            !.mAccessTokenHeader = FALSE,
                            !.http = NoRequest, !.mHttpRsp = Empty,
                            !.mSessionFolderId = "none"]
  <2>1. {} \in SUBSET Sessions
    OBVIOUS
  <2>2. h \in MemberSet(f)
    BY <1>1 DEF MemberSet
  <2>3. initAll(g) = [h EXCEPT !.mExistSessionsId = none, !.mDownloadList = {},
                               !.saveAs = OwnNames, !.mDeleteList = {},
                               !.mUploadList = none]
    BY <1>3 DEF MemberSet
  <2> HIDE DEF h
  <2>4. [h EXCEPT !.mExistSessionsId = none, !.mDownloadList = {}, !.saveAs = OwnNames,
                  !.mDeleteList = {}, !.mUploadList = none] \in MemberSet(f)
    BY <1>4, <1>5, <2>1, <2>2 DEF MemberSet
  <2> QED
    BY <2>2, <2>3, <2>4

\* Entering IDLE_STATE keeps the types.
LEMMA IdleTypes ==
  ASSUME NEW f, NEW g \in MemberSet(f)
  PROVE  Typed(Idle(g), f)
<1>1. initAll(g) \in MemberSet(f)
  BY InitAllTypes
<1>2. Idle(g) \in MemberSet(f) /\ Idle(g).state = "IDLE_STATE"
  BY <1>1 DEF Idle, MemberSet, States
<1> QED
  BY <1>2 DEF Typed, WorkLists

\* getAuthCode keeps the types.
LEMMA GetAuthCodeTypes ==
  ASSUME NEW f, NEW g \in MemberSet(f)
  PROVE  Typed(getAuthCode(g), f)
<1>1. getAuthCode(g) \in MemberSet(f) /\ getAuthCode(g).state = "GET_AUTH_CODE_STATE"
  <2>1. TRUE \in BOOLEAN /\ "GET_AUTH_CODE_STATE" \in States
    BY DEF States
  <2> QED
    BY <2>1 DEF getAuthCode, MemberSet
<1> QED
  BY <1>1 DEF Typed, WorkLists

\* refreshAccessToken keeps the types.
LEMMA RefreshTypes ==
  ASSUME NEW f, NEW g \in MemberSet(f),
         NEW s \in {"REFRESH_ACCESS_TOKEN_STATE", "REFRESH_ACCESS_TOKEN_STATE2"}
  PROVE  Typed(refreshAccessToken(g, s), f)
<1> DEFINE h == Ask(g, s, [op |-> "refresh"])
<1>1. s \in States /\ [op |-> "refresh"] \in Requests(f)
  BY DEF States, Requests
<1>2. h \in MemberSet(f) /\ h.state = s
  BY <1>1, AskTypes, AskIs
<1> HIDE DEF h
<1>3. Typed(h, f)
  BY <1>2 DEF Typed, WorkLists
<1>4. refreshAccessToken(g, s) \in {h, getAuthCode(g)}
  BY DEF refreshAccessToken, h
<1> QED
  BY <1>3, <1>4, GetAuthCodeTypes

\* Requests that no list stands behind.
LEMMA RequestTypes ==
  ASSUME NEW f, NEW g \in MemberSet(f)
  PROVE  /\ Typed(getAccessToken(g), f)
         /\ Typed(getSessionFolder(g), f)
         /\ Typed(createSessionFolder(g), f)
         /\ \A seen \in SUBSET Ids : Typed(List(g, seen), f)
<1>1. ASSUME NEW s \in {"GET_ACCESS_TOKEN_STATE", "GET_SESSION_FOLDER",
                        "CREATE_SESSION_FOLDER", "GET_EXIST_SESSIONS_ID"},
             NEW q \in Requests(f)
      PROVE  Typed(Ask(g, s, q), f)
  <2>1. s \in States
    BY DEF States
  <2>2. Ask(g, s, q) \in MemberSet(f) /\ Ask(g, s, q).state = s
    BY <2>1, AskTypes, AskIs
  <2> QED
    BY <2>2 DEF Typed, WorkLists
<1>2. g.mAuthCode \in BOOLEAN /\ g.mAccessTokenHeader \in BOOLEAN
      /\ g.mSessionFolderId \in Parents(f)
  BY DEF MemberSet
<1>3. /\ [op |-> "code", code |-> g.mAuthCode] \in Requests(f)
      /\ [op |-> "folder", auth |-> g.mAccessTokenHeader] \in Requests(f)
      /\ [op |-> "mkfolder", auth |-> g.mAccessTokenHeader] \in Requests(f)
  BY <1>2 DEF Requests
<1>4. \A seen \in SUBSET Ids :
        [op |-> "list", auth |-> g.mAccessTokenHeader,
         parent |-> g.mSessionFolderId, seen |-> seen] \in Requests(f)
  BY <1>2 DEF Requests
<1> QED
  BY <1>1, <1>3, <1>4 DEF getAccessToken, getSessionFolder, createSessionFolder, List

\* downloadSession, called with a list, keeps the types and the list.
LEMMA DownloadTypes ==
  ASSUME NEW f, NEW g \in MemberSet(f), g.mDownloadList # {}
  PROVE  Typed(downloadSession(g), f)
<1> DEFINE n == Min(g.mDownloadList)
           id == g.mExistSessionsId[n]
           q == [op |-> "get", auth |-> g.mAccessTokenHeader, id |-> id]
           h == Ask(g, "DOWNLOAD_SESSION", q)
<1>1. n \in Sessions
  BY FirstOfList, Numbers DEF MemberSet
<1>2. id \in FileIds /\ g.mAccessTokenHeader \in BOOLEAN
  BY <1>1 DEF MemberSet
<1>3. q \in Requests(f)
  BY <1>2 DEF Requests
<1>4. downloadSession(g) \in {Idle(g), h}
  BY DEF downloadSession
<1> HIDE DEF q
<1>5. h \in MemberSet(f) /\ h.state = "DOWNLOAD_SESSION" /\ h.mDownloadList # {}
  <2>1. "DOWNLOAD_SESSION" \in States
    BY DEF States
  <2> QED
    BY <1>3, <2>1, AskTypes, AskIs
<1>6. Typed(h, f)
  BY <1>5 DEF Typed, WorkLists
<1> QED
  BY <1>4, <1>6, IdleTypes

\* deleteSession, called with a list, keeps the types and the list.
LEMMA DeleteTypes ==
  ASSUME NEW f, NEW g \in MemberSet(f), g.mDeleteList # {}
  PROVE  Typed(deleteSession(g), f)
<1> DEFINE n == Min(g.mDeleteList)
           id == g.mExistSessionsId[n]
           q == [op |-> "delete", auth |-> g.mAccessTokenHeader, id |-> id]
           h == Ask(g, "DELETE_SESSIONS", q)
<1>1. n \in Sessions
  BY FirstOfList, Numbers DEF MemberSet
<1>2. id \in FileIds /\ g.mAccessTokenHeader \in BOOLEAN
  BY <1>1 DEF MemberSet
<1>3. q \in Requests(f)
  BY <1>2 DEF Requests
<1>4. deleteSession(g) \in {Idle(g), h}
  BY DEF deleteSession
<1> HIDE DEF q
<1>5. h \in MemberSet(f) /\ h.state = "DELETE_SESSIONS" /\ h.mDeleteList # {}
  <2>1. "DELETE_SESSIONS" \in States
    BY DEF States
  <2> QED
    BY <1>3, <2>1, AskTypes, AskIs
<1>6. Typed(h, f)
  BY <1>5 DEF Typed, WorkLists
<1> QED
  BY <1>4, <1>6, IdleTypes

\* uploadSession, called with a list, keeps the types and the list.
LEMMA UploadTypes ==
  ASSUME NEW f, NEW g \in MemberSet(f), Listed(g.mUploadList) # {}
  PROVE  Typed(uploadSession(g), f)
<1> DEFINE n == Min(Listed(g.mUploadList))
           id == g.mExistSessionsId[n]
           body == g.local[g.mUploadList[n]]
           u == [op |-> "update", auth |-> g.mAccessTokenHeader, id |-> id, body |-> body]
           c == [op |-> "create", auth |-> g.mAccessTokenHeader,
                 parent |-> g.mSessionFolderId, name |-> n, body |-> body]
           q == IF id # None THEN u ELSE c
           h == Ask(g, "UPLOAD_SESSION", q)
<1>1. n \in Sessions /\ g.mUploadList[n] \in Sessions
  BY ListedAre DEF MemberSet
<1>2. /\ id \in FileIds /\ g.mAccessTokenHeader \in BOOLEAN /\ body \in Bodies
      /\ g.mSessionFolderId \in Parents(f)
  BY <1>1 DEF MemberSet
<1>3. u \in Requests(f)
  <2> HIDE DEF id, body
  <2> QED
    BY <1>2 DEF Requests
<1>4. c \in Requests(f)
  <2> HIDE DEF n, body
  <2> QED
    BY <1>1, <1>2 DEF Requests
<1>5. q \in Requests(f)
  BY <1>3, <1>4
<1>6. uploadSession(g) = h
  BY DEF uploadSession
<1> HIDE DEF q
<1>7. h \in MemberSet(f) /\ h.state = "UPLOAD_SESSION" /\ Listed(h.mUploadList) # {}
  <2>1. "UPLOAD_SESSION" \in States
    BY DEF States
  <2> QED
    BY <1>5, <2>1, AskTypes, AskIs
<1>8. Typed(h, f)
  BY <1>7 DEF Typed, WorkLists
<1> QED
  BY <1>6, <1>8

\* checkAction calls each of them with a list.
LEMMA CheckActionTypes ==
  ASSUME NEW f, NEW g \in MemberSet(f)
  PROVE  Typed(checkAction(g), f)
<1> DEFINE h == [g EXCEPT !.state = "CHECK_ACTION"]
<1>1. h \in MemberSet(f) /\ h.state = "CHECK_ACTION"
  BY DEF MemberSet, States
<1>2. Typed(h, f)
  BY <1>1 DEF Typed, WorkLists
<1> HIDE DEF h
<1>3. \/ checkAction(g) = downloadSession(g) /\ g.mDownloadList # {}
      \/ checkAction(g) = deleteSession(g) /\ g.mDeleteList # {}
      \/ checkAction(g) = uploadSession(g) /\ Listed(g.mUploadList) # {}
      \/ checkAction(g) = h
  BY DEF checkAction, h
<1> QED
  BY <1>2, <1>3, DownloadTypes, DeleteTypes, UploadTypes

\* An event without an action keeps the types.
LEMMA UndefinedTypes ==
  ASSUME NEW f, NEW g \in MemberSet(f)
  PROVE  Typed(Undefined(g), f)
<1> DEFINE h == IF g.state = "IDLE_STATE" THEN initAll(g) ELSE g
<1>1. h \in MemberSet(f)
  BY InitAllTypes
<1>2. Undefined(g) = checkAction([h EXCEPT !.undefined = TRUE])
  BY DEF Undefined
<1> HIDE DEF h
<1>3. [h EXCEPT !.undefined = TRUE] \in MemberSet(f)
  BY <1>1 DEF MemberSet
<1> QED
  BY <1>2, <1>3, CheckActionTypes

\* FAILED_EVT, NEXT_EVT and RETRY_EVT keep the types.
LEMMA EventTypes ==
  ASSUME NEW f, NEW g \in MemberSet(f)
  PROVE  Typed(Failed(g), f) /\ Typed(NextEvt(g), f) /\ Typed(Retry(g), f)
<1>1. Typed(Failed(g), f)
  BY GetAuthCodeTypes, UndefinedTypes, IdleTypes DEF Failed
<1>2. Typed(Retry(g), f)
  BY RefreshTypes, UndefinedTypes DEF Retry
<1>3. Typed(NextEvt(g), f)
  <2>1. \/ NextEvt(g) = refreshAccessToken(initAll(g), "REFRESH_ACCESS_TOKEN_STATE")
        \/ NextEvt(g) = getAccessToken(g) \/ NextEvt(g) = getSessionFolder(g)
        \/ NextEvt(g) = List(g, {})
        \/ NextEvt(g) = refreshAccessToken(g, "REFRESH_ACCESS_TOKEN_STATE2")
        \/ NextEvt(g) = checkAction(g) \/ NextEvt(g) = Undefined(g)
    BY DEF NextEvt
  <2>2. initAll(g) \in MemberSet(f) /\ {} \in SUBSET Ids
    BY InitAllTypes
  <2> QED
    BY <2>1, <2>2, RefreshTypes, RequestTypes, CheckActionTypes, UndefinedTypes
<1> QED
  BY <1>1, <1>2, <1>3

\* What the kind of an answer says of it.
LEMMA AnswerFields ==
  ASSUME NEW f, NEW r \in Answers(f)
  PROVE  /\ r.kind \in {"token", "short"} => r.refresh \in BOOLEAN
         /\ r.kind = "id" => r.id \in Made(f)
         /\ r.kind = "session" => r.body \in Bodies
         /\ r.kind = "page" => /\ r.items \subseteq [id : Ids, name : Sessions]
                               /\ r.seen \subseteq Ids /\ r.more \in BOOLEAN
BY DEF Answers

\* parseAccessToken keeps the types whatever the answer is.
LEMMA ParseTokenTypes ==
  ASSUME NEW f, NEW g0 \in MemberSet(f)
  PROVE  Typed(parseAccessToken(g0), f)
<1> DEFINE g == [g0 EXCEPT !.mAccessTokenHeader = FALSE]
           r == g.mHttpRsp
<1>1. g \in MemberSet(f)
  BY DEF MemberSet
<1> DEFINE ok(b) == [g EXCEPT !.mAccessToken = TRUE, !.mAccessTokenHeader = TRUE,
                           !.mRefreshToken = b]
           no(b) == [g EXCEPT !.mAccessToken = FALSE, !.mRefreshToken = b]
<1>2. \/ parseAccessToken(g0) = Failed(g)
      \/ r.kind = "token" /\ parseAccessToken(g0) = NextEvt(ok(g.mRefreshToken \/ r.refresh))
      \/ r.kind = "short" /\ parseAccessToken(g0) = Retry(no(g.mRefreshToken \/ r.refresh))
      \/ parseAccessToken(g0) = Failed(no(FALSE))
      \/ parseAccessToken(g0) = Retry(no(g.mRefreshToken /\ g.mAccessToken))
  <2>1. g \in MemberSet(f)
    BY <1>1
  <2> QED
    BY <2>1 DEF parseAccessToken, MemberSet
<1> HIDE DEF g
<1>3. \A b \in BOOLEAN : ok(b) \in MemberSet(f) /\ no(b) \in MemberSet(f)
  BY <1>1 DEF MemberSet
<1>4. /\ g.mRefreshToken \in BOOLEAN /\ g.mAccessToken \in BOOLEAN /\ r \in Answers(f)
  BY <1>1 DEF MemberSet
<1>5. r.kind \in {"token", "short"} => r.refresh \in BOOLEAN
  BY <1>4, AnswerFields
<1>6. FALSE \in BOOLEAN /\ (g.mRefreshToken /\ g.mAccessToken) \in BOOLEAN
  BY <1>4
<1>7. r.kind \in {"token", "short"} => (g.mRefreshToken \/ r.refresh) \in BOOLEAN
  BY <1>4, <1>5
<1> HIDE DEF ok, no, r
<1> QED
  BY <1>1, <1>2, <1>3, <1>6, <1>7, EventTypes

\* parseSessionFolderInfo and parseCreateSessionFolderInfo keep the types.
LEMMA ParseFolderTypes ==
  ASSUME NEW f, NEW g \in MemberSet(f)
  PROVE  Typed(parseSessionFolderInfo(g), f) /\ Typed(parseCreateSessionFolderInfo(g), f)
<1> DEFINE r == g.mHttpRsp
           known(id) == [g EXCEPT !.mSessionFolderId = id]
<1>1. \A id \in Parents(f) : known(id) \in MemberSet(f)
  BY DEF MemberSet
<1>2. r \in Answers(f)
  BY DEF MemberSet
<1>3. /\ "file" \in Parents(f)
      /\ r.kind = "folder" => "folder" \in Parents(f)
      /\ r.kind = "id" /\ r.id = FolderId => "folder" \in Parents(f)
  BY <1>2, Numbers DEF Answers, Parents, Made
<1>4. \/ r.kind = "folder" /\ parseSessionFolderInfo(g) = NextEvt(known("folder"))
      \/ parseSessionFolderInfo(g) = NextEvt(known("file"))
      \/ parseSessionFolderInfo(g) = createSessionFolder(g)
      \/ parseSessionFolderInfo(g) = Failed(g)
  BY DEF parseSessionFolderInfo
<1>5. \/ /\ r.kind = "id" /\ r.id = FolderId
         /\ parseCreateSessionFolderInfo(g) = checkAction(known("folder"))
      \/ parseCreateSessionFolderInfo(g) = checkAction(known("file"))
      \/ parseCreateSessionFolderInfo(g) = Failed(g)
  BY DEF parseCreateSessionFolderInfo
<1> HIDE DEF known, r
<1>6. Typed(parseSessionFolderInfo(g), f)
  BY <1>1, <1>3, <1>4, EventTypes, RequestTypes
<1>7. Typed(parseCreateSessionFolderInfo(g), f)
  BY <1>1, <1>3, <1>5, EventTypes, CheckActionTypes
<1> QED
  BY <1>6, <1>7

\* The ids a page brings for a session, and the map with them.
Found(r, n) == {x.id : x \in {y \in r.items : y.name = n}}
Entered(g, r) ==
  [g EXCEPT !.mExistSessionsId =
     [n \in Sessions |-> IF Found(r, n) = {} THEN g.mExistSessionsId[n] ELSE Max(Found(r, n))]]

\* parseSessionsId enters a page, passes over none, or fails.
LEMMA ParseSessionsIdIs ==
  ASSUME NEW f, NEW g \in MemberSet(f)
  PROVE  LET r == g.mHttpRsp IN
         \/ /\ r.kind = "page" /\ r.more
            /\ parseSessionsId(g) = List(Entered(g, r), r.seen)
         \/ /\ r.kind = "page" /\ ~r.more
            /\ parseSessionsId(g) = checkAction(Entered(g, r))
         \/ /\ r.kind \in {"folder", "noFolder"} /\ parseSessionsId(g) = checkAction(g)
         \/ /\ r.kind \notin {"page", "folder", "noFolder"} /\ parseSessionsId(g) = Failed(g)
BY DEF parseSessionsId, Entered, Found, MemberSet

\* The ids of a page are ids of files.
LEMMA EnteredTypes ==
  ASSUME NEW f, NEW g \in MemberSet(f), NEW r \in Answers(f), r.kind = "page"
  PROVE  Entered(g, r) \in MemberSet(f)
<1> DEFINE map == [n \in Sessions |-> IF Found(r, n) = {} THEN g.mExistSessionsId[n]
                                                          ELSE Max(Found(r, n))]
<1>1. \A n \in Sessions : Found(r, n) \in SUBSET Ids
  <2>1. r.items \subseteq [id : Ids, name : Sessions]
    BY AnswerFields
  <2>2. \A y \in r.items : y.id \in Ids
    BY <2>1
  <2> QED
    BY <2>2 DEF Found
<1>2. \A n \in Sessions : Found(r, n) # {} => Max(Found(r, n)) \in Ids
  BY <1>1, LastOfFiles
<1>3. g.mExistSessionsId \in [Sessions -> FileIds] /\ Ids \subseteq FileIds
  BY DEF MemberSet, FileIds
<1>4. map \in [Sessions -> FileIds]
  BY <1>2, <1>3
<1>5. Entered(g, r) = [g EXCEPT !.mExistSessionsId = map]
  BY DEF Entered
<1> HIDE DEF map
<1> QED
  BY <1>4, <1>5 DEF MemberSet

\* parseSessionsId keeps the types.
LEMMA ParseSessionsIdTypes ==
  ASSUME NEW f, NEW g \in MemberSet(f)
  PROVE  Typed(parseSessionsId(g), f)
<1> DEFINE r == g.mHttpRsp
<1>1. r \in Answers(f)
  BY DEF MemberSet
<1>2. r.kind = "page" => Entered(g, r) \in MemberSet(f) /\ r.seen \in SUBSET Ids
  BY <1>1, EnteredTypes, AnswerFields
<1>3. \/ r.kind = "page" /\ parseSessionsId(g) = List(Entered(g, r), r.seen)
      \/ r.kind = "page" /\ parseSessionsId(g) = checkAction(Entered(g, r))
      \/ parseSessionsId(g) = checkAction(g) \/ parseSessionsId(g) = Failed(g)
  BY ParseSessionsIdIs
<1> HIDE DEF r
<1> QED
  BY <1>2, <1>3, EventTypes, RequestTypes, CheckActionTypes

\* The members once the first entry of a list has been struck off.
Saved(g) ==
  LET n == Min(g.mDownloadList)
  IN [g EXCEPT !.local[g.saveAs[n]] =
                 IF g.mHttpRsp.kind = "session" THEN g.mHttpRsp.body ELSE Junk,
               !.mDownloadList = @ \ {n}, !.saveAs[n] = n]
Struck(g) ==
  LET n == Min(g.mDeleteList)
  IN [g EXCEPT !.mExistSessionsId[n] = None, !.mDeleteList = @ \ {n}]
Put(g) ==
  LET n == Min(Listed(g.mUploadList))
  IN [g EXCEPT !.mExistSessionsId[n] = g.mHttpRsp.id, !.mUploadList[n] = None]

\* parseDownloadSession saves settings, or an error taken for settings.
LEMMA SavedTypes ==
  ASSUME NEW f, NEW g \in MemberSet(f), g.mDownloadList # {}
  PROVE  Saved(g) \in MemberSet(f)
<1> DEFINE n == Min(g.mDownloadList)
           b == IF g.mHttpRsp.kind = "session" THEN g.mHttpRsp.body ELSE Junk
<1>1. n \in Sessions
  BY FirstOfList, Numbers DEF MemberSet
<1>2. b \in Bodies
  BY AnswerFields, BodyHere DEF MemberSet
<1> DEFINE to == [g.local EXCEPT ![g.saveAs[n]] = b]
           rest == g.mDownloadList \ {n}
           names == [g.saveAs EXCEPT ![n] = n]
<1>3. Saved(g) = [g EXCEPT !.local = to, !.mDownloadList = rest, !.saveAs = names]
  BY DEF Saved, MemberSet
<1> HIDE DEF n, b
<1>4. /\ to \in [Sessions -> Bodies] /\ rest \in SUBSET Sessions
      /\ names \in [Sessions -> Sessions]
  BY <1>1, <1>2 DEF MemberSet
<1> HIDE DEF to, rest, names
<1> QED
  BY <1>3, <1>4 DEF MemberSet

\* parseDeleteSession forgets an id.
LEMMA StruckTypes ==
  ASSUME NEW f, NEW g \in MemberSet(f), g.mDeleteList # {}
  PROVE  Struck(g) \in MemberSet(f)
<1> DEFINE n == Min(g.mDeleteList)
<1>1. n \in Sessions
  BY FirstOfList, Numbers DEF MemberSet
<1>2. None \in FileIds
  BY DEF FileIds
<1> DEFINE map == [g.mExistSessionsId EXCEPT ![n] = None]
           rest == g.mDeleteList \ {n}
<1>3. Struck(g) = [g EXCEPT !.mExistSessionsId = map, !.mDeleteList = rest]
  BY DEF Struck, MemberSet
<1> HIDE DEF n
<1>4. map \in [Sessions -> FileIds] /\ rest \in SUBSET Sessions
  BY <1>1, <1>2 DEF MemberSet
<1> HIDE DEF map, rest
<1> QED
  BY <1>3, <1>4 DEF MemberSet

\* parseUploadSession enters the id it was answered.
LEMMA PutTypes ==
  ASSUME NEW f, NEW g \in MemberSet(f), Listed(g.mUploadList) # {}, g.mHttpRsp.kind = "id"
  PROVE  Put(g) \in MemberSet(f)
<1> DEFINE n == Min(Listed(g.mUploadList))
           id == g.mHttpRsp.id
<1>1. n \in Sessions
  BY ListedAre DEF MemberSet
<1>2. id \in FileIds
  BY AnswerFields DEF MemberSet, FileIds, Made
<1> DEFINE map == [g.mExistSessionsId EXCEPT ![n] = id]
           rest == [g.mUploadList EXCEPT ![n] = None]
<1>3. Put(g) = [g EXCEPT !.mExistSessionsId = map, !.mUploadList = rest]
  BY DEF Put, MemberSet
<1> HIDE DEF n, id
<1>4. map \in [Sessions -> FileIds] /\ rest \in [Sessions -> Sessions \cup {None}]
  BY <1>1, <1>2 DEF MemberSet
<1> HIDE DEF map, rest
<1> QED
  BY <1>3, <1>4 DEF MemberSet

\* What the parsers of the lists come to: the next entry, or checkAction.
LEMMA ParseListsAre ==
  ASSUME NEW f, NEW g \in MemberSet(f)
  PROVE  /\ \/ /\ Saved(g).mDownloadList # {}
               /\ parseDownloadSession(g) = downloadSession(Saved(g))
            \/ parseDownloadSession(g) = checkAction(Saved(g))
         /\ \/ g.mHttpRsp # Empty /\ parseDeleteSession(g) = Failed(g)
            \/ /\ g.mHttpRsp = Empty /\ Struck(g).mDeleteList # {}
               /\ parseDeleteSession(g) = deleteSession(Struck(g))
            \/ g.mHttpRsp = Empty /\ parseDeleteSession(g) = checkAction(Struck(g))
         /\ \/ g.mHttpRsp.kind # "id" /\ parseUploadSession(g) = Failed(g)
            \/ /\ g.mHttpRsp.kind = "id" /\ Listed(Put(g).mUploadList) # {}
               /\ parseUploadSession(g) = uploadSession(Put(g))
            \/ g.mHttpRsp.kind = "id" /\ parseUploadSession(g) = checkAction(Put(g))
BY DEF parseDownloadSession, parseDeleteSession, parseUploadSession, Saved, Struck, Put

\* The parsers of the lists, called with a list, keep the types.
LEMMA ParseListTypes ==
  ASSUME NEW f, NEW g \in MemberSet(f)
  PROVE  /\ g.mDownloadList # {} => Typed(parseDownloadSession(g), f)
         /\ g.mDeleteList # {} => Typed(parseDeleteSession(g), f)
         /\ Listed(g.mUploadList) # {} => Typed(parseUploadSession(g), f)
<1>1. g.mDownloadList # {} => Typed(parseDownloadSession(g), f)
  BY SavedTypes, ParseListsAre, DownloadTypes, CheckActionTypes
<1>2. g.mDeleteList # {} => Typed(parseDeleteSession(g), f)
  BY StruckTypes, ParseListsAre, DeleteTypes, CheckActionTypes, EventTypes
<1>3. Listed(g.mUploadList) # {} => Typed(parseUploadSession(g), f)
  BY PutTypes, ParseListsAre, UploadTypes, CheckActionTypes, EventTypes
<1> QED
  BY <1>1, <1>2, <1>3

\* The answer is handled in whatever state it comes.
LEMMA HandledTypes ==
  ASSUME NEW f, NEW g, Typed(g, f)
  PROVE  Typed(HttpSuccess(g), f) /\ Typed(HttpFailed(g), f)
<1>1. g \in MemberSet(f)
  BY DEF Typed
<1>2. /\ g.state = "DOWNLOAD_SESSION" => Typed(parseDownloadSession(g), f)
      /\ g.state = "DELETE_SESSIONS" => Typed(parseDeleteSession(g), f)
      /\ g.state = "UPLOAD_SESSION" => Typed(parseUploadSession(g), f)
  BY <1>1, ParseListTypes DEF Typed, WorkLists
<1>3. \/ HttpSuccess(g) = parseAccessToken(g) \/ HttpSuccess(g) = parseSessionFolderInfo(g)
      \/ HttpSuccess(g) = parseCreateSessionFolderInfo(g)
      \/ HttpSuccess(g) = parseSessionsId(g) \/ HttpSuccess(g) = Undefined(g)
      \/ g.state = "DOWNLOAD_SESSION" /\ HttpSuccess(g) = parseDownloadSession(g)
      \/ g.state = "DELETE_SESSIONS" /\ HttpSuccess(g) = parseDeleteSession(g)
      \/ g.state = "UPLOAD_SESSION" /\ HttpSuccess(g) = parseUploadSession(g)
  BY DEF HttpSuccess
<1>4. Typed(HttpSuccess(g), f)
  BY <1>1, <1>2, <1>3, ParseTokenTypes, ParseFolderTypes, ParseSessionsIdTypes, UndefinedTypes
<1>5. Typed(HttpFailed(g), f)
  BY <1>1, UndefinedTypes, IdleTypes DEF HttpFailed
<1> QED
  BY <1>4, <1>5

-----------------------------------------------------------------------------
(* The account.                                                            *)

AnyBody == Bodies \cup {Trashed.body}
DriveSet == [folder : BOOLEAN, files : [Ids -> [name : Sessions \cup {None}, body : AnyBody]]]

\* The files have the settings of a session, and are in the folder.
IsDrive(d) ==
  /\ d \in DriveSet
  /\ \A i \in Live(d) : d.files[i].body \in Bodies
  /\ ~d.folder => Live(d) = {}

\* What has become of the account, and an answer.
IsOutcome(d, o) ==
  /\ IsDrive(o[1]) /\ (d.folder => o[1].folder)
  /\ o[2] \in Answers(o[1].folder)

\* A refusal changes nothing.
LEMMA ErrorOutcome ==
  ASSUME NEW d, IsDrive(d)
  PROVE  /\ \A k \in {"garbage", "noToken", "badToken", "noFolder", "error"} :
              IsOutcome(d, <<d, Answer(k)>>)
         /\ IsOutcome(d, <<d, Empty>>)
<1>1. \A k \in {"garbage", "noToken", "badToken", "noFolder", "error"} :
        Answer(k) \in Answers(d.folder)
  BY DEF Answer, Answers
<1>2. Empty \in Answers(d.folder)
  BY DEF Empty, Answers
<1> QED
  BY <1>1, <1>2 DEF IsOutcome

\* A page of a listing lists files with their names.
LEMMA PageTypes ==
  ASSUME NEW d, IsDrive(d), NEW seen \in SUBSET Ids
  PROVE  /\ Page(d, seen) \in Answers(d.folder)
         /\ Page(d, seen).kind = "page"
<1> DEFINE rest == Live(d) \ seen
           items == {i \in rest : Cardinality({j \in rest : j < i}) < PageSize}
           named == {[id |-> i, name |-> d.files[i].name] : i \in items}
<1>1. Page(d, seen) = [kind |-> "page", items |-> named, seen |-> seen \cup items,
                       more |-> items # rest]
  BY DEF Page
<1>2. items \subseteq Live(d) /\ (items # rest) \in BOOLEAN
  OBVIOUS
<1> HIDE DEF items, rest
<1>3. \A i \in items : i \in Ids /\ d.files[i].name \in Sessions
  BY <1>2 DEF Live, IsDrive, DriveSet
<1>4. named \in SUBSET [id : Ids, name : Sessions] /\ seen \cup items \in SUBSET Ids
  BY <1>3
<1> HIDE DEF named
<1> QED
  BY <1>1, <1>2, <1>4 DEF Answers

\* A file of the account becomes another, and no name is given up to a file
\* without settings.
LEMMA FileSet ==
  ASSUME NEW d, IsDrive(d), NEW i \in Ids, d.folder,
         NEW x \in [name : Sessions \cup {None}, body : AnyBody],
         x.name # None => x.body \in Bodies
  PROVE  IsDrive([d EXCEPT !.files[i] = x])
<1> DEFINE fs == [d.files EXCEPT ![i] = x]
           e == [d EXCEPT !.files = fs]
<1>1. [d EXCEPT !.files[i] = x] = e
  BY DEF IsDrive, DriveSet
<1>2. fs \in [Ids -> [name : Sessions \cup {None}, body : AnyBody]]
  BY DEF IsDrive, DriveSet
<1>3. e \in DriveSet /\ e.files = fs /\ e.folder = d.folder
  <2> HIDE DEF fs
  <2> QED
    BY <1>2 DEF IsDrive, DriveSet
<1>4. ASSUME NEW j \in Live(e) PROVE e.files[j].body \in Bodies
  <2>1. j \in Ids /\ fs[j].name # None
    BY <1>3 DEF Live
  <2>2. CASE j = i
    BY <1>3, <2>1, <2>2 DEF IsDrive, DriveSet
  <2>3. CASE j # i
    <3>1. fs[j] = d.files[j]
      BY <2>1, <2>3 DEF IsDrive, DriveSet
    <3>2. j \in Live(d)
      BY <2>1, <3>1 DEF Live
    <3> QED
      BY <1>3, <3>1, <3>2 DEF IsDrive
  <2> QED
    BY <2>2, <2>3
<1> HIDE DEF fs, e
<1> QED
  BY <1>1, <1>3, <1>4 DEF IsDrive

\* A file with a name has settings and is in the folder.
LEMMA LiveFiles ==
  ASSUME NEW d, IsDrive(d), NEW i \in Live(d)
  PROVE  /\ i \in Ids /\ d.files[i].name \in Sessions /\ d.files[i].body \in Bodies
         /\ d.folder
BY DEF IsDrive, DriveSet, Live

\* What the drive does for each request.
LEMMA ServeTypes ==
  ASSUME NEW d, IsDrive(d), NEW q \in Requests(d.folder)
  PROVE  IsOutcome(d, Serve(d, q))
<1>1. CASE q.op = "folder"
  <2>1. Serve(d, q) = <<d, IF d.folder THEN Answer("folder") ELSE Answer("noFolder")>>
    BY <1>1 DEF Serve
  <2>2. d.folder => Answer("folder") \in Answers(d.folder)
    BY DEF Answer, Answers
  <2>3. d.folder => IsOutcome(d, <<d, Answer("folder")>>)
    BY <2>2 DEF IsOutcome
  <2> QED
    BY <2>1, <2>3, ErrorOutcome
<1>2. CASE q.op = "mkfolder"
  <2> DEFINE e == [d EXCEPT !.folder = TRUE]
             r == [kind |-> "id", id |-> FolderId]
  <2>1. Serve(d, q) = <<e, r>>
    BY <1>2 DEF Serve
  <2>2. e \in DriveSet /\ e.folder = TRUE /\ e.files = d.files
    BY DEF IsDrive, DriveSet
  <2>3. Live(e) = Live(d)
    BY <2>2 DEF Live
  <2>4. e.folder
    BY <2>2
  <2> HIDE DEF e
  <2>5. IsDrive(e)
    BY <2>2, <2>3, <2>4 DEF IsDrive
  <2>6. r \in Answers(e.folder)
    BY <2>4 DEF Answers, Made
  <2> HIDE DEF r
  <2> QED
    <3>1. <<e, r>>[1] = e /\ <<e, r>>[2] = r
      OBVIOUS
    <3>2. IsOutcome(d, <<e, r>>)
      BY <2>4, <2>5, <2>6, <3>1, Zenon DEF IsOutcome
    <3> QED
      BY <2>1, <3>2
<1>3. CASE q.op = "list"
  <2>1. q.seen \in SUBSET Ids
    BY <1>3 DEF Requests
  <2>2. IsOutcome(d, <<d, Page(d, q.seen)>>)
    BY <2>1, PageTypes DEF IsOutcome
  <2>3. Serve(d, q) \in {<<d, Page(d, q.seen)>>, <<d, Answer("error")>>}
    BY <1>3 DEF Serve
  <2> QED
    BY <2>2, <2>3, ErrorOutcome
<1>4. CASE q.op = "get" /\ q.id \in Live(d)
  <2> DEFINE r == [kind |-> "session", body |-> d.files[q.id].body]
  <2>1. Serve(d, q) = <<d, r>>
    BY <1>4 DEF Serve
  <2>2. r \in Answers(d.folder)
    <3>1. d.files[q.id].body \in Bodies
      BY <1>4, LiveFiles
    <3> QED
      BY <3>1 DEF Answers
  <2> HIDE DEF r
  <2> QED
    BY <2>1, <2>2 DEF IsOutcome
<1>5. CASE q.op = "delete" /\ q.id \in Live(d)
  <2> DEFINE e == [d EXCEPT !.files[q.id] = Trashed]
  <2>1. Serve(d, q) = <<e, Empty>>
    BY <1>5 DEF Serve
  <2>2. Trashed \in [name : Sessions \cup {None}, body : AnyBody] /\ Trashed.name = None
    BY DEF Trashed, AnyBody
  <2>3. IsDrive(e) /\ e.folder = d.folder
    BY <1>5, <2>2, LiveFiles, FileSet DEF IsDrive, DriveSet
  <2>4. Empty \in Answers(e.folder)
    BY DEF Empty, Answers
  <2> HIDE DEF e
  <2> QED
    BY <2>1, <2>3, <2>4 DEF IsOutcome
<1>6. CASE q.op = "update" /\ q.id \in Live(d)
  <2> DEFINE x == [d.files[q.id] EXCEPT !.body = q.body]
             e == [d EXCEPT !.files[q.id] = x]
             r == [kind |-> "id", id |-> q.id]
  <2>1. q.body \in Bodies /\ q.id \in Ids /\ d.folder
    BY <1>6, LiveFiles DEF Requests
  <2>2. x \in [name : Sessions \cup {None}, body : AnyBody] /\ x.body \in Bodies
    BY <2>1 DEF IsDrive, DriveSet, AnyBody
  <2>3. Serve(d, q) = <<e, r>>
    <3>1. e = [d EXCEPT !.files[q.id].body = q.body]
      BY <2>1 DEF IsDrive, DriveSet
    <3> QED
      BY <1>6, <3>1 DEF Serve
  <2>4. IsDrive(e) /\ e.folder = d.folder
    <3> HIDE DEF x
    <3>1. IsDrive(e)
      BY <2>1, <2>2, FileSet
    <3> QED
      BY <3>1 DEF IsDrive, DriveSet
  <2>5. r \in Answers(e.folder)
    BY <2>1 DEF Answers, Made
  <2> HIDE DEF e, r
  <2> QED
    BY <2>3, <2>4, <2>5 DEF IsOutcome
<1>7. CASE q.op = "create" /\ q.parent = "folder" /\ Fresh(d) # {}
  <2> DEFINE i == Min(Fresh(d))
             x == [name |-> q.name, body |-> q.body]
             e == [d EXCEPT !.files[i] = x]
             r == [kind |-> "id", id |-> i]
  <2>1. q.body \in Bodies /\ q.name \in Sessions /\ d.folder
    BY <1>7 DEF Requests, Parents
  <2>2. Fresh(d) \subseteq Ids /\ Fresh(d) \in SUBSET Nat
    BY Numbers DEF Fresh
  <2>3. i \in Ids
    BY <1>7, <2>2, FirstOfList
  <2>4. x \in [name : Sessions \cup {None}, body : AnyBody] /\ x.body \in Bodies
    BY <2>1 DEF AnyBody
  <2>5. Serve(d, q) = <<e, r>>
    BY <1>7 DEF Serve
  <2>6. IsDrive(e) /\ e.folder = d.folder
    <3> HIDE DEF x, i
    <3>1. IsDrive(e)
      BY <2>1, <2>3, <2>4, FileSet
    <3> QED
      BY <3>1 DEF IsDrive, DriveSet
  <2>7. r \in Answers(e.folder)
    BY <2>3 DEF Answers, Made
  <2> HIDE DEF e, r
  <2> QED
    BY <2>5, <2>6, <2>7 DEF IsOutcome
<1>8. CASE /\ q.op \notin {"folder", "mkfolder", "list"}
           /\ ~(q.op = "get" /\ q.id \in Live(d)) /\ ~(q.op = "delete" /\ q.id \in Live(d))
           /\ ~(q.op = "update" /\ q.id \in Live(d))
           /\ ~(q.op = "create" /\ q.parent = "folder" /\ Fresh(d) # {})
  <2>1. Serve(d, q) = <<d, Answer("error")>>
    BY <1>8 DEF Serve
  <2> QED
    BY <2>1, ErrorOutcome
<1> QED
  BY <1>1, <1>2, <1>3, <1>4, <1>5, <1>6, <1>7, <1>8

\* Whatever becomes of a request, the account stays one and the answer is typed.
LEMMA OutcomeTypes ==
  ASSUME NEW d, IsDrive(d), NEW m, NEW q \in Requests(d.folder), NEW o \in Outcomes(d, m, q)
  PROVE  IsOutcome(d, o)
<1>1. CASE q.op \in {"refresh", "code"}
  <2>1. PICK r : /\ o = <<d, r>>
                 /\ r \in IF m = "POST" THEN TokenAnswers(q) ELSE {Answer("garbage")}
    BY <1>1 DEF Outcomes
  <2>2. \A b \in BOOLEAN : [kind |-> "token", refresh |-> b] \in Answers(d.folder)
    BY DEF Answers
  <2>3. \/ r \in {Answer("garbage"), Answer("noToken")}
        \/ \E b \in BOOLEAN : r = [kind |-> "token", refresh |-> b]
    BY <2>1 DEF TokenAnswers
  <2>4. CASE r \in {Answer("garbage"), Answer("noToken")}
    BY <2>1, <2>4, ErrorOutcome
  <2>5. CASE \E b \in BOOLEAN : r = [kind |-> "token", refresh |-> b]
    BY <2>1, <2>2, <2>5 DEF IsOutcome
  <2> QED
    BY <2>3, <2>4, <2>5
<1>2. CASE q.op \notin {"refresh", "code"}
  <2>1. \/ o = <<d, Answer("error")>>
        \/ q.op = "get" /\ o = Serve(d, [q EXCEPT !.op = "delete"])
        \/ o = Serve(d, q)
    BY <1>2 DEF Outcomes
  <2>2. q.op = "get" => [q EXCEPT !.op = "delete"] \in Requests(d.folder)
    BY DEF Requests
  <2> QED
    BY <2>1, <2>2, ServeTypes, ErrorOutcome
<1> QED
  BY <1>1, <1>2

\* The odd answers are typed.
LEMMA OddTypes ==
  ASSUME NEW f, NEW q, NEW r \in OddAnswers(q)
  PROVE  r \in Answers(f)
<1>1. /\ Answer("garbage") \in Answers(f) /\ Answer("badToken") \in Answers(f)
      /\ Answer("error") \in Answers(f)
  BY DEF Answer, Answers
<1>2. (q.op = "code") \in BOOLEAN
  OBVIOUS
<1>3. \A b \in BOOLEAN : [kind |-> "short", refresh |-> b] \in Answers(f)
  BY DEF Answers
<1> QED
  BY <1>1, <1>2, <1>3 DEF OddAnswers

\* The folder, once made, stays: what could be said before can be said after.
LEMMA FolderStays ==
  ASSUME NEW f, NEW h, f => h
  PROVE  /\ Requests(f) \subseteq Requests(h) /\ Answers(f) \subseteq Answers(h)
         /\ MemberSet(f) \subseteq MemberSet(h)
<1>1. Parents(f) \subseteq Parents(h) /\ Made(f) \subseteq Made(h)
  BY DEF Parents, Made
<1>2. Requests(f) \subseteq Requests(h)
  BY <1>1 DEF Requests
<1>3. Answers(f) \subseteq Answers(h)
  BY <1>1 DEF Answers
<1>4. ASSUME NEW g \in MemberSet(f) PROVE g \in MemberSet(h)
  BY <1>1, <1>2, <1>3 DEF MemberSet
<1> QED
  BY <1>2, <1>3, <1>4

-----------------------------------------------------------------------------
(* The types of a state, step by step.                                     *)

Runs(f) == [method : Methods, request : Requests(f), tries : Nat]

TypeInv ==
  /\ Typed(gd, drive.folder) /\ gd.posted = <<>> /\ gd.undefined = FALSE
  /\ IsDrive(drive)
  /\ Jobs /\ \A r \in running : r \in Runs(drive.folder)
  /\ orderly \in BOOLEAN

\* A handler ends: the jobs it posted are on the worker's queue.
LEMMA CommitTypes ==
  ASSUME TypeInv, NEW h, Typed(h, drive.folder), NEW b \in BOOLEAN, Commit(h, b),
         UNCHANGED <<running, drive>>, answers' \in Nat
  PROVE  TypeInv'
<1>1. h \in MemberSet(drive.folder)
  BY DEF Typed
<1>2. /\ gd' = [h EXCEPT !.posted = <<>>, !.undefined = FALSE] /\ jobs' = jobs \o h.posted
      /\ orderly' = (orderly /\ b /\ ~h.undefined)
  BY DEF Commit
<1>3. <<>> \in Seq(Methods) /\ FALSE \in BOOLEAN
  OBVIOUS
<1>4. /\ gd' \in MemberSet(drive.folder) /\ gd'.posted = <<>> /\ gd'.undefined = FALSE
      /\ gd'.state = h.state /\ gd'.mDownloadList = h.mDownloadList
      /\ gd'.mDeleteList = h.mDeleteList /\ gd'.mUploadList = h.mUploadList
  BY <1>1, <1>2, <1>3 DEF MemberSet
<1>5. Typed(gd', drive.folder)
  BY <1>4 DEF Typed, WorkLists
<1>6. jobs' \in Seq(Methods)
  <2>1. jobs \in Seq(Methods) /\ h.posted \in Seq(Methods)
    BY <1>1 DEF TypeInv, Jobs, MemberSet
  <2> QED
    BY <1>2, <2>1
<1>7. orderly' \in BOOLEAN
  <2>1. h.undefined \in BOOLEAN
    BY <1>1 DEF MemberSet
  <2> QED
    BY <1>2, <2>1 DEF TypeInv
<1>8. IsDrive(drive)' /\ drive' = drive
  BY DEF TypeInv
<1>9. Jobs' /\ \A r \in running' : r \in Runs(drive.folder)
  BY <1>6 DEF TypeInv, Jobs
<1> QED
  BY <1>4, <1>5, <1>7, <1>8, <1>9 DEF TypeInv

\* The handlers of the UI thread keep the types.
LEMMA HandlersType ==
  ASSUME TypeInv,
         \/ LoadRemoteFile \/ ApplyChanges \/ HandleHttpRsp
         \/ \E good \in BOOLEAN : AuthInput(good)
  PROVE  TypeInv'
<1> DEFINE f == drive.folder
<1>1. gd \in MemberSet(f) /\ Typed(gd, f)
  BY DEF TypeInv, Typed
<1>2. CASE LoadRemoteFile
  <2> DEFINE g == IF gd.state = "IDLE_STATE" THEN gd ELSE Failed(gd)
  <2>1. g \in MemberSet(f)
    BY <1>1, EventTypes DEF Typed
  <2>2. Typed(NextEvt(g), f)
    BY <2>1, EventTypes
  <2>3. (InFlight = 0) \in BOOLEAN /\ answers' \in Nat
    BY <1>2 DEF LoadRemoteFile, TypeInv, Jobs
  <2> QED
    BY <1>2, <2>2, <2>3, CommitTypes DEF LoadRemoteFile
<1>3. CASE ApplyChanges
  <2>1. Typed(NextEvt(gd), f)
    BY <1>1, EventTypes
  <2>2. TRUE \in BOOLEAN /\ answers' \in Nat
    BY <1>3 DEF ApplyChanges, TypeInv, Jobs
  <2>3. ~IsBusy(gd)
    BY <1>3 DEF ApplyChanges, ButtonsShown, IsBusy
  <2> QED
    BY <1>3, <2>1, <2>2, <2>3, CommitTypes DEF ApplyChanges
<1>4. CASE HandleHttpRsp
  <2> DEFINE h == IF gd.mHttpResult THEN HttpSuccess(gd) ELSE HttpFailed(gd)
             b == gd.mHttpResult /\ gd.state = "DOWNLOAD_SESSION" => gd.mHttpRsp.kind = "session"
  <2>1. Typed(h, f)
    BY <1>1, HandledTypes
  <2>2. b \in BOOLEAN /\ answers' \in Nat
    BY <1>4 DEF HandleHttpRsp, TypeInv, Jobs
  <2>3. Commit(h, b) /\ UNCHANGED <<running, drive>>
    BY <1>4 DEF HandleHttpRsp
  <2> HIDE DEF h, b
  <2> QED
    BY <2>1, <2>2, <2>3, CommitTypes
<1>5. ASSUME NEW good \in BOOLEAN, AuthInput(good) PROVE TypeInv'
  <2> DEFINE c(x) == [gd EXCEPT !.mAuthCode = x]
             h == IF good THEN NextEvt(c(TRUE)) ELSE Failed(c(FALSE))
  <2>1. c(TRUE) \in MemberSet(f) /\ c(FALSE) \in MemberSet(f)
    <3>1. TRUE \in BOOLEAN /\ FALSE \in BOOLEAN
      OBVIOUS
    <3>2. \A x \in BOOLEAN : c(x) \in MemberSet(f)
      BY <1>1 DEF MemberSet
    <3> QED
      BY <3>1, <3>2
  <2>2. Commit(h, TRUE) /\ UNCHANGED <<running, drive, answers>>
    BY <1>5 DEF AuthInput
  <2> HIDE DEF c
  <2>3. Typed(h, f)
    BY <2>1, EventTypes
  <2>4. TRUE \in BOOLEAN /\ answers' \in Nat
    BY <2>2 DEF TypeInv, Jobs
  <2> HIDE DEF h
  <2> QED
    BY <2>2, <2>3, <2>4, CommitTypes
<1> QED
  BY <1>2, <1>3, <1>4, <1>5

\* The lists after an edit: the buttons of the dialog change nothing else.
With(g, u, del, dl, as) ==
  [g EXCEPT !.mUploadList = u, !.mDeleteList = del, !.mDownloadList = dl, !.saveAs = as]

\* Whatever the buttons of the dialog change, the lists stay sets of sessions.
LEMMA EditIs ==
  ASSUME NEW f, gd \in MemberSet(f), UserEdits
  PROVE  \E u \in [Sessions -> Sessions \cup {None}], del \in SUBSET Sessions,
            dl \in SUBSET Sessions, as \in [Sessions -> Sessions] :
              Edit(With(gd, u, del, dl, as))
<1> DEFINE Shape(h) == \E u \in [Sessions -> Sessions \cup {None}], del \in SUBSET Sessions,
                          dl \in SUBSET Sessions, as \in [Sessions -> Sessions] :
                            h = With(gd, u, del, dl, as)
<1>1. ASSUME NEW n \in Sessions, NEW to \in Sessions,
             UploadCloudSession(n) \/ DeleteCloudSession(n) \/ DownloadCloudSession(n, to)
      PROVE  \E h : Edit(h) /\ Shape(h)
  <2> DEFINE u0 == [gd.mUploadList EXCEPT ![n] = None]
             u1 == [gd.mUploadList EXCEPT ![n] = n]
             d0 == gd.mDeleteList \ {n}
             l0 == gd.mDownloadList \ {n}
             s0 == [gd.saveAs EXCEPT ![n] = n]
             s1 == [gd.saveAs EXCEPT ![n] = to]
  <2>1. /\ u0 \in [Sessions -> Sessions \cup {None}] /\ u1 \in [Sessions -> Sessions \cup {None}]
        /\ d0 \in SUBSET Sessions /\ l0 \in SUBSET Sessions
        /\ d0 \cup {n} \in SUBSET Sessions /\ l0 \cup {n} \in SUBSET Sessions
        /\ s0 \in [Sessions -> Sessions] /\ s1 \in [Sessions -> Sessions]
    BY DEF MemberSet
  <2>2. ClearInAllLists(gd, n) = With(gd, u0, d0, l0, s0)
    BY DEF ClearInAllLists, MemberSet, With
  <2>3. [ClearInAllLists(gd, n) EXCEPT !.mUploadList[n] = n] = With(gd, u1, d0, l0, s0)
    BY DEF ClearInAllLists, MemberSet, With
  <2>4. /\ [ClearInAllLists(gd, n) EXCEPT !.mDeleteList = @ \cup {n}]
             = With(gd, u0, d0 \cup {n}, l0, s0)
        /\ [ClearInAllLists(gd, n) EXCEPT !.mDownloadList = @ \cup {n}, !.saveAs[n] = to]
             = With(gd, u0, d0, l0 \cup {n}, s1)
    BY DEF ClearInAllLists, MemberSet, With
  <2>5. \/ Edit(ClearInAllLists(gd, n))
        \/ Edit([ClearInAllLists(gd, n) EXCEPT !.mUploadList[n] = n])
        \/ Edit([ClearInAllLists(gd, n) EXCEPT !.mDeleteList = @ \cup {n}])
        \/ Edit([ClearInAllLists(gd, n) EXCEPT !.mDownloadList = @ \cup {n}, !.saveAs[n] = to])
    BY <1>1 DEF UploadCloudSession, DeleteCloudSession, DownloadCloudSession
  <2> HIDE DEF u0, u1, d0, l0, s0, s1
  <2> QED
    BY <2>1, <2>2, <2>3, <2>4, <2>5
<1>2. ASSUME NEW n \in Sessions, NEW to \in Sessions, RenameUpload(n, to)
      PROVE  \E h : Edit(h) /\ Shape(h)
  <2> DEFINE u == [gd.mUploadList EXCEPT ![to] = gd.mUploadList[n], ![n] = None]
  <2>1. u \in [Sessions -> Sessions \cup {None}]
    BY DEF MemberSet
  <2>2. [gd EXCEPT !.mUploadList[to] = gd.mUploadList[n], !.mUploadList[n] = None]
          = With(gd, u, gd.mDeleteList, gd.mDownloadList, gd.saveAs)
    BY DEF MemberSet, With
  <2>3. Edit(With(gd, u, gd.mDeleteList, gd.mDownloadList, gd.saveAs))
    BY <1>2, <2>2 DEF RenameUpload
  <2>4. /\ gd.mDeleteList \in SUBSET Sessions /\ gd.mDownloadList \in SUBSET Sessions
        /\ gd.saveAs \in [Sessions -> Sessions]
    BY DEF MemberSet
  <2> HIDE DEF u
  <2> QED
    BY <2>1, <2>3, <2>4
<1>3. ASSUME ResetChanges
      PROVE  \E h : Edit(h) /\ Shape(h)
  <2> DEFINE u == [n \in Sessions |-> None]
  <2>1. /\ u \in [Sessions -> Sessions \cup {None}] /\ {} \in SUBSET Sessions
        /\ OwnNames \in [Sessions -> Sessions]
    BY DEF OwnNames
  <2>2. Edit(With(gd, u, {}, {}, OwnNames))
    <3>1. [gd EXCEPT !.mDownloadList = {}, !.saveAs = OwnNames, !.mDeleteList = {},
                     !.mUploadList = u]
            = With(gd, u, {}, {}, OwnNames)
      BY DEF MemberSet, With
    <3> QED
      BY <1>3, <3>1 DEF ResetChanges
  <2> HIDE DEF u
  <2> QED
    BY <2>1, <2>2
<1> QED
  BY <1>1, <1>2, <1>3 DEF UserEdits

\* The lists the user edits stay lists of sessions.
LEMMA EditsType ==
  ASSUME TypeInv, UserEdits
  PROVE  TypeInv'
<1> DEFINE f == drive.folder
<1>0. gd \in MemberSet(f)
  BY DEF TypeInv, Typed
<1>1. PICK u \in [Sessions -> Sessions \cup {None}], del \in SUBSET Sessions,
           dl \in SUBSET Sessions, as \in [Sessions -> Sessions] :
             Edit(With(gd, u, del, dl, as))
  BY <1>0, EditIs
<1>2. /\ gd' = With(gd, u, del, dl, as) /\ gd.state = "CHECK_ACTION"
      /\ UNCHANGED <<jobs, running, answers, drive, orderly>>
  BY <1>1 DEF Edit, ButtonsShown
<1>3. /\ gd' \in MemberSet(f) /\ gd'.state = "CHECK_ACTION"
      /\ gd'.posted = gd.posted /\ gd'.undefined = gd.undefined
  BY <1>0, <1>1, <1>2 DEF MemberSet, With
<1>4. Typed(gd', f)
  BY <1>3 DEF Typed, WorkLists
<1> QED
  BY <1>2, <1>3, <1>4 DEF TypeInv, Jobs, IsDrive

\* The worker's job leaves an answer of the right type, or tries again.
LEMMA MembersAfter ==
  ASSUME NEW f, NEW h, f => h, NEW g, Typed(g, f), NEW r \in Answers(h), NEW ok \in BOOLEAN
  PROVE  Typed([g EXCEPT !.mHttpRsp = r, !.mHttpResult = ok], h)
<1> DEFINE e == [g EXCEPT !.mHttpRsp = r, !.mHttpResult = ok]
<1>1. g \in MemberSet(h)
  BY FolderStays DEF Typed
<1>2. /\ e \in MemberSet(h)
      /\ e.state = g.state /\ e.mDownloadList = g.mDownloadList
      /\ e.mDeleteList = g.mDeleteList /\ e.mUploadList = g.mUploadList
  BY <1>1 DEF MemberSet
<1> QED
  BY <1>2 DEF Typed, WorkLists

\* An answer that is left for handleHttpRsp keeps the types.
LEMMA LeaveTypes ==
  ASSUME TypeInv, IsDrive(drive'), drive.folder => drive'.folder,
         NEW r \in Answers(drive'.folder), NEW ok \in BOOLEAN, Leave(r, ok),
         orderly' \in BOOLEAN
  PROVE  TypeInv'
<1>1. gd' = [gd EXCEPT !.mHttpRsp = r, !.mHttpResult = ok]
  BY DEF Leave
<1>2. /\ Typed(gd', drive'.folder) /\ gd'.posted = gd.posted /\ gd'.undefined = gd.undefined
  <2>1. Typed(gd, drive.folder)
    BY DEF TypeInv
  <2>2. /\ Typed([gd EXCEPT !.mHttpRsp = r, !.mHttpResult = ok], drive'.folder)
    BY <2>1, MembersAfter
  <2> QED
    BY <1>1, <2>1, <2>2 DEF Typed, MemberSet
<1>3. running' = {} /\ answers' \in Nat /\ jobs' = jobs
  BY DEF Leave, TypeInv, Jobs
<1> QED
  BY <1>2, <1>3 DEF TypeInv, Jobs

\* bgHttpRequest keeps the types, answered or not.
LEMMA BackgroundTypes ==
  ASSUME TypeInv, Background
  PROVE  TypeInv'
<1>0. FALSE \in BOOLEAN /\ TRUE \in BOOLEAN
  OBVIOUS
<1>1. CASE BgStart
  <2>1. /\ gd' = [gd EXCEPT !.mHttpRsp = Empty, !.mHttpResult = TRUE]
        /\ UNCHANGED <<drive, answers, orderly>>
        /\ jobs # <<>> /\ jobs' = Tail(jobs)
        /\ running' = {[method |-> Head(jobs), request |-> gd.http, tries |-> MaxTries]}
    BY <1>1 DEF BgStart
  <2>2. Empty \in Answers(drive.folder)
    BY DEF Empty, Answers
  <2>3. Typed(gd', drive.folder) /\ gd'.posted = gd.posted /\ gd'.undefined = gd.undefined
    <3>1. Typed(gd, drive.folder) /\ (drive.folder => drive.folder)
      BY DEF TypeInv
    <3>2. Typed([gd EXCEPT !.mHttpRsp = Empty, !.mHttpResult = TRUE], drive.folder)
      BY <1>0, <2>2, <3>1, MembersAfter
    <3> QED
      BY <2>1, <3>1, <3>2 DEF Typed, MemberSet
  <2>4. jobs' \in Seq(Methods) /\ Head(jobs) \in Methods
    BY <2>1 DEF TypeInv, Jobs
  <2>5. gd.http \in Requests(drive.folder) /\ MaxTries \in Nat
    BY BoundsAssumption DEF TypeInv, Typed, MemberSet
  <2>6. \A r \in running' : r \in Runs(drive.folder)
    BY <2>1, <2>4, <2>5 DEF Runs
  <2>7. Jobs'
    BY <2>1, <2>4 DEF TypeInv, Jobs
  <2> QED
    BY <2>1, <2>3, <2>6, <2>7 DEF TypeInv, IsDrive
<1>2. ASSUME NEW r \in running, BgAnswered(r) PROVE TypeInv'
  <2>1. r.request \in Requests(drive.folder) /\ orderly' \in BOOLEAN
    BY <1>2 DEF TypeInv, Runs, BgAnswered
  <2>2. ASSUME NEW o \in Outcomes(drive, r.method, r.request), drive' = o[1], Leave(o[2], TRUE)
        PROVE  TypeInv'
    <3>1. IsOutcome(drive, o)
      BY <2>1, OutcomeTypes DEF TypeInv
    <3> QED
      BY <1>0, <2>1, <2>2, <3>1, LeaveTypes DEF IsOutcome
  <2>3. ASSUME NEW odd \in OddAnswers(r.request), Leave(odd, TRUE), drive' = drive
        PROVE  TypeInv'
    <3>1. odd \in Answers(drive'.folder)
      BY OddTypes
    <3>2. IsDrive(drive') /\ (drive.folder => drive'.folder)
      BY <2>3 DEF TypeInv
    <3> QED
      BY <1>0, <2>1, <2>3, <3>1, <3>2, LeaveTypes
  <2> QED
    BY <1>2, <2>2, <2>3 DEF BgAnswered
<1>3. ASSUME NEW r \in running, BgLost(r) PROVE TypeInv'
  <2>1. r.request \in Requests(drive.folder) /\ r \in Runs(drive.folder)
    BY DEF TypeInv, Runs
  <2>2. IsDrive(drive') /\ (drive.folder => drive'.folder)
    <3>1. drive' = drive \/ \E o \in Outcomes(drive, r.method, r.request) : drive' = o[1]
      BY <1>3 DEF BgLost
    <3> QED
      BY <2>1, <3>1, OutcomeTypes DEF IsOutcome, TypeInv
  <2>3. orderly' \in BOOLEAN
    BY <1>3 DEF BgLost, TypeInv
  <2>4. Empty \in Answers(drive'.folder)
    BY DEF Empty, Answers
  <2>5. CASE Leave(Empty, FALSE)
    BY <1>0, <2>2, <2>3, <2>4, <2>5, LeaveTypes
  <2>6. CASE ~Leave(Empty, FALSE)
    <3>1. /\ running' = {[r EXCEPT !.tries = @ - 1]} /\ r.tries > 1
          /\ gd' = [gd EXCEPT !.mHttpRsp = Empty] /\ UNCHANGED <<jobs, answers>>
      BY <1>3, <2>6 DEF BgLost
    <3>2. gd' = [gd EXCEPT !.mHttpRsp = Empty, !.mHttpResult = gd.mHttpResult]
          /\ gd.mHttpResult \in BOOLEAN
      BY <3>1 DEF TypeInv, Typed, MemberSet
    <3>3. Typed(gd', drive'.folder) /\ gd'.posted = gd.posted /\ gd'.undefined = gd.undefined
      <4>1. Typed(gd, drive.folder)
        BY DEF TypeInv
      <4>2. Typed([gd EXCEPT !.mHttpRsp = Empty, !.mHttpResult = gd.mHttpResult], drive'.folder)
        BY <2>2, <2>4, <3>2, <4>1, MembersAfter
      <4> QED
        BY <3>2, <4>1, <4>2 DEF Typed, MemberSet
    <3>4. r \in Runs(drive'.folder)
      BY <2>1, <2>2, FolderStays DEF Runs
    <3>5. r.tries - 1 \in Nat
      BY <2>1, <3>1 DEF Runs
    <3>6. [r EXCEPT !.tries = @ - 1] \in Runs(drive'.folder)
      BY <3>4, <3>5 DEF Runs
    <3>7. Jobs'
      BY <3>1 DEF TypeInv, Jobs
    <3> QED
      BY <2>2, <2>3, <3>1, <3>3, <3>6, <3>7 DEF TypeInv
  <2> QED
    BY <2>5, <2>6
<1>4. ASSUME NEW r \in running, BgNoAddress(r) PROVE TypeInv'
  <2>1. Leave(Empty, FALSE) /\ UNCHANGED <<drive, orderly>>
    BY <1>4 DEF BgNoAddress
  <2>2. IsDrive(drive') /\ (drive.folder => drive'.folder) /\ orderly' \in BOOLEAN
    BY <2>1 DEF TypeInv
  <2>3. Empty \in Answers(drive'.folder)
    BY DEF Empty, Answers
  <2> QED
    BY <1>0, <2>1, <2>2, <2>3, LeaveTypes
<1> QED
  BY <1>1, <1>2, <1>3, <1>4 DEF Background

\* The types hold at the start.
LEMMA InitTypes == Init => TypeInv
<1> SUFFICES ASSUME Init PROVE TypeInv
  OBVIOUS
<1>1. PICK there \in SUBSET Sessions, folder \in BOOLEAN :
        /\ there # {} => folder
        /\ drive = [folder |-> folder,
                    files |-> [i \in Ids |-> IF i \in there
                                             THEN [name |-> i, body |-> Body("there", i)]
                                             ELSE NoFile]]
  BY DEF Init
<1> DEFINE files == [i \in Ids |-> IF i \in there
                                   THEN [name |-> i, body |-> Body("there", i)] ELSE NoFile]
<1>2. \A i \in Ids : /\ files[i] \in [name : Sessions \cup {None}, body : AnyBody]
                     /\ files[i].name # None => files[i].body \in Bodies /\ i \in there
  <2>1. Junk \in AnyBody /\ \A i \in there : i \in Sessions /\ Body("there", i) \in Bodies
    BY BodyHere DEF AnyBody
  <2>2. NoFile \in [name : Sessions \cup {None}, body : AnyBody] /\ NoFile.name = None
    BY <2>1 DEF NoFile
  <2>3. \A i \in there : /\ [name |-> i, body |-> Body("there", i)]
                              \in [name : Sessions \cup {None}, body : AnyBody]
    BY <2>1 DEF AnyBody
  <2>4. \A i \in Ids : files[i] = IF i \in there
                                  THEN [name |-> i, body |-> Body("there", i)] ELSE NoFile
    OBVIOUS
  <2> HIDE DEF files
  <2>5. ASSUME NEW i \in Ids
        PROVE  /\ files[i] \in [name : Sessions \cup {None}, body : AnyBody]
               /\ files[i].name # None => files[i].body \in Bodies /\ i \in there
    <3>1. CASE i \in there
      <4>1. files[i] = [name |-> i, body |-> Body("there", i)]
        BY <2>4, <3>1
      <4> QED
        BY <2>1, <2>3, <3>1, <4>1
    <3>2. CASE i \notin there
      BY <2>2, <2>4, <3>2
    <3> QED
      BY <3>1, <3>2
  <2> QED
    BY <2>5
<1>3. files \in [Ids -> [name : Sessions \cup {None}, body : AnyBody]]
  <2>1. files = [i \in Ids |-> files[i]]
    OBVIOUS
  <2> HIDE DEF files
  <2> QED
    BY <1>2, <2>1
<1>4. drive.files = files /\ drive.folder = folder /\ drive = [folder |-> folder, files |-> files]
  BY <1>1
<1> HIDE DEF files
<1>5. IsDrive(drive)
  <2>1. drive \in DriveSet
    BY <1>3, <1>4 DEF DriveSet
  <2>2. \A i \in Live(drive) : drive.files[i].body \in Bodies /\ i \in there
    BY <1>2, <1>4 DEF Live
  <2> QED
    BY <1>1, <1>4, <2>1, <2>2 DEF IsDrive
<1>6. gd \in MemberSet(drive.folder) /\ gd.state = "IDLE_STATE" /\ gd.posted = <<>>
      /\ gd.undefined = FALSE
  <2> DEFINE f == drive.folder
             none == [n \in Sessions |-> None]
             here == [n \in Sessions |-> Body("here", n)]
  <2>1. PICK signedIn \in BOOLEAN :
          gd = [state |-> "IDLE_STATE", mAccessToken |-> signedIn, mRefreshToken |-> signedIn,
             mAccessTokenHeader |-> FALSE, mAuthCode |-> FALSE, listening |-> FALSE,
             http |-> NoRequest, mHttpRsp |-> Empty, mHttpResult |-> TRUE,
             mSessionFolderId |-> "none", mExistSessionsId |-> none,
             mDownloadList |-> {}, saveAs |-> OwnNames, mDeleteList |-> {},
             mUploadList |-> none,
             posted |-> <<>>, local |-> here, undefined |-> FALSE]
    BY DEF Init
  <2>2. /\ "IDLE_STATE" \in States /\ NoRequest \in Requests(f) /\ Empty \in Answers(f)
        /\ "none" \in Parents(f)
    BY DEF States, NoRequest, Requests, Empty, Answers, Parents
  <2>3. none \in [Sessions -> FileIds] /\ none \in [Sessions -> Sessions \cup {None}]
    BY DEF FileIds
  <2>4. here \in [Sessions -> Bodies] /\ OwnNames \in [Sessions -> Sessions]
    BY BodyHere DEF OwnNames
  <2>5. FALSE \in BOOLEAN /\ TRUE \in BOOLEAN /\ <<>> \in Seq(Methods)
    OBVIOUS
  <2> HIDE DEF none, here, f
  <2>6. gd \in MemberSet(f)
    BY <2>1, <2>2, <2>3, <2>4, <2>5 DEF MemberSet
  <2> QED
    BY <2>1, <2>6 DEF f
<1>7. Jobs /\ (\A r \in running : r \in Runs(drive.folder)) /\ orderly \in BOOLEAN
  BY DEF Init, Jobs
<1>8. Typed(gd, drive.folder)
  BY <1>6 DEF Typed, WorkLists
<1> QED
  BY <1>5, <1>6, <1>7, <1>8 DEF TypeInv

\* Every step keeps the types.
LEMMA NextTypes == TypeInv /\ [Next]_vars => TypeInv'
<1> SUFFICES ASSUME TypeInv, [Next]_vars PROVE TypeInv'
  OBVIOUS
<1>1. CASE Next
  BY <1>1, HandlersType, EditsType, BackgroundTypes DEF Next
<1>2. CASE UNCHANGED vars
  BY <1>2 DEF vars, TypeInv, Jobs
<1> QED
  BY <1>1, <1>2

\* The types of the proof give those the runs check.
LEMMA TypesMean ==
  ASSUME TypeInv
  PROVE  TypeOK
<1>1. gd \in MemberSet(drive.folder) /\ WorkLists(gd)
  BY DEF TypeInv, Typed
<1>2. Cardinality(running) <= 1
  <2>1. Cardinality(running) \in {0, 1}
    BY OneRequestRuns DEF TypeInv, Jobs
  <2> QED
    BY <2>1
<1>3. {gd.mAccessToken, gd.mRefreshToken, gd.mAccessTokenHeader, gd.mAuthCode,
       gd.listening, gd.mHttpResult, orderly} \subseteq BOOLEAN
  BY <1>1 DEF TypeInv, MemberSet
<1>4. /\ gd.state \in States
      /\ gd.mExistSessionsId \in [Sessions -> Ids \cup {None, FolderId}]
      /\ gd.mUploadList \in [Sessions -> Sessions \cup {None}]
      /\ gd.mDownloadList \subseteq Sessions /\ gd.mDeleteList \subseteq Sessions
      /\ gd.saveAs \in [Sessions -> Sessions]
      /\ gd.local \in [Sessions -> Bodies]
  BY <1>1 DEF MemberSet, FileIds
<1>5. jobs \in Seq({"GET", "POST", "PUT", "DELETE"}) /\ answers \in Nat
  BY DEF TypeInv, Jobs, Methods
<1> QED
  BY <1>1, <1>2, <1>3, <1>4, <1>5 DEF TypeOK, WorkLists

\* The members of the session stay well typed, and a state that takes the first of a
\* list finds one, in whatever order answers of several visits come.
THEOREM DriveTypes == Spec => []TypeOK
<1>1. Spec => []TypeInv
  BY InitTypes, NextTypes, PTL DEF Spec
<1> QED
  BY <1>1, TypesMean, PTL

-----------------------------------------------------------------------------
(***************************************************************************)
(* The map and the plan.  While answers come in the states that asked for  *)
(* them, what the machine knows of the drive depends on its state: before  *)
(* a listing the ids it has are right but may not be all (Valid), after it *)
(* they are exact, and while a session is deleted or uploaded they are     *)
(* exact but for that session.                                             *)
(***************************************************************************)
Knows(ids, d, n) == FilesOf(d, n) = {ids[n]} \ {None}
Valid(ids, d) == \A n \in Sessions : ids[n] # None => Knows(ids, d, n)
Exact(ids, d) == \A n \in Sessions : Knows(ids, d, n)

\* No two files have the name of the same session.
One(d) == \A n \in Sessions : \A i, j \in FilesOf(d, n) : i = j

\* The session that is worked on: the first of the list of the state.
First(g) == Min(IF g.state = "DOWNLOAD_SESSION" THEN g.mDownloadList
                ELSE IF g.state = "DELETE_SESSIONS" THEN g.mDeleteList
                ELSE Listed(g.mUploadList))
IdOf(g) == g.mExistSessionsId[First(g)]

Ops(state) ==
  CASE state \in {"REFRESH_ACCESS_TOKEN_STATE", "REFRESH_ACCESS_TOKEN_STATE2"} -> {"refresh"}
    [] state = "GET_ACCESS_TOKEN_STATE" -> {"code"}
    [] state = "GET_SESSION_FOLDER" -> {"folder"}
    [] state = "CREATE_SESSION_FOLDER" -> {"mkfolder"}
    [] state = "GET_EXIST_SESSIONS_ID" -> {"list"}
    [] state = "DOWNLOAD_SESSION" -> {"get"}
    [] state = "DELETE_SESSIONS" -> {"delete"}
    [] OTHER -> {"update", "create"}

\* The request in mHttpUrl, mPostData and mHttpHeaders is the one of the state.
Asked(g) ==
  /\ g.http.op \in Ops(g.state)
  /\ g.http.op \in {"get", "delete", "update"} => g.http.id = IdOf(g) /\ IdOf(g) # None
  /\ g.http.op \in {"update", "create"} => g.http.body = g.local[g.mUploadList[First(g)]]
  /\ g.http.op = "create" => IdOf(g) = None /\ g.http.name = First(g)

MapFits(g, d) ==
  /\ g.state \in {"CHECK_ACTION", "REFRESH_ACCESS_TOKEN_STATE2", "DOWNLOAD_SESSION"} =>
       Exact(g.mExistSessionsId, d)
  /\ g.state \in {"DELETE_SESSIONS", "UPLOAD_SESSION"} =>
       \A n \in Sessions \ {First(g)} : Knows(g.mExistSessionsId, d, n)
  /\ g.state \notin {"IDLE_STATE", "DELETE_SESSIONS", "UPLOAD_SESSION"} =>
       Valid(g.mExistSessionsId, d)
  /\ g.state = "CREATE_SESSION_FOLDER" => Live(d) = {}
  /\ g.state = "GET_EXIST_SESSIONS_ID" =>
       \A n \in Sessions : FilesOf(d, n) \cap g.http.seen \subseteq {g.mExistSessionsId[n]}

\* The file to delete is there, or a try whose answer was lost has deleted it.
Unanswered(g, d) ==
  /\ g.state = "DELETE_SESSIONS" => FilesOf(d, First(g)) = {IdOf(g)} \cap Live(d)
  /\ g.state = "UPLOAD_SESSION" => Knows(g.mExistSessionsId, d, First(g))

\* What an answer says of the drive, in the state that takes it.
AnswerFits(g, r, d) ==
  /\ g.state = "GET_SESSION_FOLDER" => r.kind # "page" /\ (r.kind = "noFolder" => Live(d) = {})
  /\ g.state = "GET_EXIST_SESSIONS_ID" =>
       r.kind \notin {"folder", "noFolder"} /\ (r.kind = "page" => r = Page(d, g.http.seen))
  /\ g.state = "DOWNLOAD_SESSION" /\ r.kind = "session" =>
       IdOf(g) \in Live(d) /\ r.body = d.files[IdOf(g)].body
  /\ g.state = "DELETE_SESSIONS" /\ r = Empty => FilesOf(d, First(g)) = {}
  /\ g.state = "UPLOAD_SESSION" /\ r.kind = "id" =>
       FilesOf(d, First(g)) = {r.id} /\ d.files[r.id].body = g.http.body

\* checkAction: deletions wait for the downloads, uploads for both.
Turns(g) ==
  /\ g.state \in {"DELETE_SESSIONS", "UPLOAD_SESSION"} => g.mDownloadList = {}
  /\ g.state = "UPLOAD_SESSION" => g.mDeleteList = {}

NoLists(g) == g.mDownloadList = {} /\ g.mDeleteList = {} /\ Listed(g.mUploadList) = {}

SameLists(h, g) ==
  /\ h.mDownloadList = g.mDownloadList /\ h.mDeleteList = g.mDeleteList
  /\ h.mUploadList = g.mUploadList /\ h.local = g.local /\ h.saveAs = g.saveAs

\* What a handler that starts from the members g comes to.
Goes(h, g, d) ==
  /\ h.state \in Asking => h.posted = <<MethodOf(h.http.op)>> /\ Asked(h)
  /\ h.state \notin Asking => h.posted = <<>>
  /\ MapFits(h, d) /\ Unanswered(h, d) /\ Turns(h)
  /\ h.state # "IDLE_STATE" => SameLists(h, g)
  /\ h.state = "CHECK_ACTION" => NoLists(h)

-----------------------------------------------------------------------------
(* What the operators of the machine come to.                              *)

\* Asking is for a state, and says so.
LEMMA AskGoes ==
  ASSUME NEW f, NEW g \in MemberSet(f), g.posted = <<>>, NEW d, NEW s \in Asking, NEW q,
         LET h == Ask(g, s, q) IN Asked(h) /\ MapFits(h, d) /\ Unanswered(h, d) /\ Turns(h)
  PROVE  Goes(Ask(g, s, q), g, d)
<1> DEFINE h == Ask(g, s, q)
<1>1. /\ h.state = s /\ h.http = q /\ h.posted = Append(g.posted, MethodOf(q.op))
      /\ SameLists(h, g)
  BY AskIs DEF SameLists
<1>2. Append(g.posted, MethodOf(q.op)) = <<MethodOf(q.op)>>
  OBVIOUS
<1>3. s # "CHECK_ACTION"
  BY DEF Asking
<1> HIDE DEF h
<1>4. Asked(h) /\ MapFits(h, d) /\ Unanswered(h, d) /\ Turns(h)
  BY DEF h
<1>5. Goes(h, g, d)
  BY <1>1, <1>2, <1>3, <1>4 DEF Goes
<1> QED
  BY <1>5 DEF h

\* Idle forgets the map and the lists.
LEMMA IdleGoes ==
  ASSUME NEW f, NEW g \in MemberSet(f), g.posted = <<>>, NEW d
  PROVE  Goes(Idle(g), g, d) /\ Idle(g).state = "IDLE_STATE" /\ Idle(g).posted = <<>>
<1>1. Idle(g).state = "IDLE_STATE" /\ Idle(g).posted = <<>>
  BY DEF Idle, initAll, MemberSet
<1> QED
  BY <1>1 DEF Goes, Asking, MapFits, Unanswered, Turns

\* getAuthCode asks the drive nothing and leaves the ids as they are.
LEMMA GetAuthCodeGoes ==
  ASSUME NEW f, NEW g \in MemberSet(f), g.posted = <<>>, NEW d, Valid(g.mExistSessionsId, d)
  PROVE  Goes(getAuthCode(g), g, d)
<1> DEFINE h == getAuthCode(g)
<1>1. /\ h.state = "GET_AUTH_CODE_STATE" /\ h.posted = <<>> /\ SameLists(h, g)
      /\ h.mExistSessionsId = g.mExistSessionsId
  BY DEF getAuthCode, MemberSet, SameLists
<1> HIDE DEF h
<1>2. Goes(h, g, d)
  BY <1>1 DEF Goes, Asking, MapFits, Unanswered, Turns
<1> QED
  BY <1>2 DEF h

\* refreshAccessToken asks for a token; before the last listing the ids need only be
\* right.
LEMMA RefreshGoes ==
  ASSUME NEW f, NEW g \in MemberSet(f), g.posted = <<>>, NEW d, Valid(g.mExistSessionsId, d),
         NEW s \in {"REFRESH_ACCESS_TOKEN_STATE", "REFRESH_ACCESS_TOKEN_STATE2"},
         s = "REFRESH_ACCESS_TOKEN_STATE2" => Exact(g.mExistSessionsId, d)
  PROVE  Goes(refreshAccessToken(g, s), g, d)
<1> DEFINE q == [op |-> "refresh"]
           h == Ask(g, s, q)
<1>1. /\ h.state = s /\ h.http = q /\ h.mExistSessionsId = g.mExistSessionsId
  BY AskIs
<1>2. s \in Asking /\ q.op = "refresh"
  BY DEF Asking, States
<1> HIDE DEF h
<1>3. Asked(h) /\ MapFits(h, d) /\ Unanswered(h, d) /\ Turns(h)
  BY <1>1, <1>2 DEF Asked, Ops, MapFits, Unanswered, Turns
<1>4. Goes(h, g, d)
  BY <1>2, <1>3, AskGoes DEF h
<1>5. refreshAccessToken(g, s) \in {h, getAuthCode(g)}
  BY DEF refreshAccessToken, h
<1> QED
  BY <1>4, <1>5, GetAuthCodeGoes

\* The requests before the listing, and the first of a listing.
LEMMA RequestsGo ==
  ASSUME NEW f, NEW g \in MemberSet(f), g.posted = <<>>, NEW d, Valid(g.mExistSessionsId, d)
  PROVE  /\ Goes(getAccessToken(g), g, d) /\ Goes(getSessionFolder(g), g, d)
         /\ Live(d) = {} => Goes(createSessionFolder(g), g, d)
         /\ \A seen \in SUBSET Ids :
              (\A n \in Sessions : FilesOf(d, n) \cap seen \subseteq {g.mExistSessionsId[n]})
                => Goes(List(g, seen), g, d)
<1>0. {"GET_ACCESS_TOKEN_STATE", "GET_SESSION_FOLDER", "CREATE_SESSION_FOLDER",
       "GET_EXIST_SESSIONS_ID"} \subseteq Asking
  BY DEF Asking, States
<1>1. ASSUME NEW s \in {"GET_ACCESS_TOKEN_STATE", "GET_SESSION_FOLDER",
                        "CREATE_SESSION_FOLDER", "GET_EXIST_SESSIONS_ID"},
             NEW q, q.op \in Ops(s),
             s = "CREATE_SESSION_FOLDER" => Live(d) = {},
             s = "GET_EXIST_SESSIONS_ID" =>
               \A n \in Sessions : FilesOf(d, n) \cap q.seen \subseteq {g.mExistSessionsId[n]}
      PROVE  Goes(Ask(g, s, q), g, d)
  <2> DEFINE h == Ask(g, s, q)
  <2>1. h.state = s /\ h.http = q /\ h.mExistSessionsId = g.mExistSessionsId
    BY AskIs
  <2>2. q.op \in {"code", "folder", "mkfolder", "list"}
    BY <1>1 DEF Ops
  <2> HIDE DEF h
  <2>3. Asked(h) /\ MapFits(h, d) /\ Unanswered(h, d) /\ Turns(h)
    BY <1>1, <2>1, <2>2 DEF Asked, MapFits, Unanswered, Turns
  <2> QED
    BY <1>0, <2>3, AskGoes DEF h
<1>2. Goes(getAccessToken(g), g, d)
  <2>1. [op |-> "code", code |-> g.mAuthCode].op \in Ops("GET_ACCESS_TOKEN_STATE")
    BY DEF Ops
  <2> QED
    BY <1>1, <2>1 DEF getAccessToken
<1>3. Goes(getSessionFolder(g), g, d)
  <2>1. [op |-> "folder", auth |-> g.mAccessTokenHeader].op \in Ops("GET_SESSION_FOLDER")
    BY DEF Ops
  <2> QED
    BY <1>1, <2>1 DEF getSessionFolder
<1>4. Live(d) = {} => Goes(createSessionFolder(g), g, d)
  <2>1. [op |-> "mkfolder", auth |-> g.mAccessTokenHeader].op \in Ops("CREATE_SESSION_FOLDER")
    BY DEF Ops
  <2> QED
    BY <1>1, <2>1 DEF createSessionFolder
<1>5. ASSUME NEW seen \in SUBSET Ids,
             \A n \in Sessions : FilesOf(d, n) \cap seen \subseteq {g.mExistSessionsId[n]}
      PROVE  Goes(List(g, seen), g, d)
  <2> DEFINE q == [op |-> "list", auth |-> g.mAccessTokenHeader,
                   parent |-> g.mSessionFolderId, seen |-> seen]
  <2>1. q.op \in Ops("GET_EXIST_SESSIONS_ID") /\ q.seen = seen
    BY DEF Ops
  <2>2. List(g, seen) = Ask(g, "GET_EXIST_SESSIONS_ID", q)
    BY DEF List
  <2> HIDE DEF q
  <2> QED
    BY <1>1, <1>5, <2>1, <2>2
<1> QED
  BY <1>2, <1>3, <1>4, <1>5

\* The operators that work off a list, called with an exact map.
LEMMA DownloadGoes ==
  ASSUME NEW f, NEW g \in MemberSet(f), g.posted = <<>>, NEW d, Exact(g.mExistSessionsId, d),
         g.mDownloadList # {}
  PROVE  Goes(downloadSession(g), g, d)
<1> DEFINE id == g.mExistSessionsId[Min(g.mDownloadList)]
           q == [op |-> "get", auth |-> g.mAccessTokenHeader, id |-> id]
           h == Ask(g, "DOWNLOAD_SESSION", q)
<1>1. /\ h.state = "DOWNLOAD_SESSION" /\ h.http = q
      /\ h.mExistSessionsId = g.mExistSessionsId /\ h.mDownloadList = g.mDownloadList
  BY AskIs
<1>2. q.op = "get" /\ q.id = id /\ "DOWNLOAD_SESSION" \in Asking
  BY DEF Asking, States
<1>3. downloadSession(g) = IF id = None THEN Idle(g) ELSE h
  BY DEF downloadSession
<1> HIDE DEF h, q
<1>4. First(h) = Min(g.mDownloadList) /\ IdOf(h) = id
  BY <1>1 DEF First, IdOf
<1>5. ASSUME id # None
      PROVE  Asked(h) /\ MapFits(h, d) /\ Unanswered(h, d) /\ Turns(h)
  <2>1. Asked(h)
    BY <1>1, <1>2, <1>4, <1>5 DEF Asked, Ops
  <2>2. MapFits(h, d)
    BY <1>1 DEF MapFits, Exact, Valid
  <2> QED
    BY <1>1, <2>1, <2>2 DEF Unanswered, Turns
<1>6. id # None => Goes(h, g, d)
  BY <1>2, <1>5, AskGoes DEF h
<1> QED
  BY <1>3, <1>6, IdleGoes

\* deleteSession asks for the first of mDeleteList, if it has an id.
LEMMA DeleteGoes ==
  ASSUME NEW f, NEW g \in MemberSet(f), g.posted = <<>>, NEW d, Exact(g.mExistSessionsId, d),
         g.mDeleteList # {}, g.mDownloadList = {}
  PROVE  Goes(deleteSession(g), g, d)
<1> DEFINE n == Min(g.mDeleteList)
           id == g.mExistSessionsId[n]
           q == [op |-> "delete", auth |-> g.mAccessTokenHeader, id |-> id]
           h == Ask(g, "DELETE_SESSIONS", q)
<1>0. n \in Sessions
  BY FirstOfList, Numbers DEF MemberSet
<1>1. /\ h.state = "DELETE_SESSIONS" /\ h.http = q
      /\ h.mExistSessionsId = g.mExistSessionsId /\ h.mDeleteList = g.mDeleteList
      /\ h.mDownloadList = g.mDownloadList
  BY AskIs
<1>2. q.op = "delete" /\ q.id = id /\ "DELETE_SESSIONS" \in Asking
  BY DEF Asking, States
<1>3. deleteSession(g) = IF id = None THEN Idle(g) ELSE h
  BY DEF deleteSession
<1>4. First(h) = n /\ IdOf(h) = id
  BY <1>1 DEF First, IdOf
<1> HIDE DEF h, q
<1>5. ASSUME id # None
      PROVE  Asked(h) /\ MapFits(h, d) /\ Unanswered(h, d) /\ Turns(h)
  <2>1. Asked(h)
    BY <1>1, <1>2, <1>4, <1>5 DEF Asked, Ops
  <2>2. MapFits(h, d)
    BY <1>1 DEF MapFits, Exact
  <2>3. FilesOf(d, n) = {id}
    BY <1>0, <1>5 DEF Exact, Knows
  <2>4. {id} \cap Live(d) = {id}
    BY <1>0, <2>3, Numbers DEF FilesOf, Live
  <2> QED
    BY <1>1, <1>4, <2>1, <2>2, <2>3, <2>4 DEF Unanswered, Turns
<1>6. id # None => Goes(h, g, d)
  BY <1>2, <1>5, AskGoes DEF h
<1> QED
  BY <1>3, <1>6, IdleGoes

\* uploadSession updates the file of the session if it has an id, and creates one if
\* not.
LEMMA UploadGoes ==
  ASSUME NEW f, NEW g \in MemberSet(f), g.posted = <<>>, NEW d, Exact(g.mExistSessionsId, d),
         Listed(g.mUploadList) # {}, g.mDownloadList = {}, g.mDeleteList = {}
  PROVE  Goes(uploadSession(g), g, d)
<1> DEFINE n == Min(Listed(g.mUploadList))
           id == g.mExistSessionsId[n]
           body == g.local[g.mUploadList[n]]
           u == [op |-> "update", auth |-> g.mAccessTokenHeader, id |-> id, body |-> body]
           c == [op |-> "create", auth |-> g.mAccessTokenHeader,
                 parent |-> g.mSessionFolderId, name |-> n, body |-> body]
           q == IF id # None THEN u ELSE c
           h == Ask(g, "UPLOAD_SESSION", q)
<1>0. n \in Sessions
  BY ListedAre DEF MemberSet
<1>1. /\ h.state = "UPLOAD_SESSION" /\ h.http = q
      /\ h.mExistSessionsId = g.mExistSessionsId /\ h.mUploadList = g.mUploadList
      /\ h.mDownloadList = g.mDownloadList /\ h.mDeleteList = g.mDeleteList
      /\ h.local = g.local
  BY AskIs
<1>2. /\ id # None => q.op = "update" /\ q.id = id
      /\ id = None => q.op = "create" /\ q.name = n
      /\ q.body = body /\ "UPLOAD_SESSION" \in Asking
  BY DEF Asking, States
<1>3. uploadSession(g) = h
  BY DEF uploadSession
<1> HIDE DEF h, q
<1>4. First(h) = n /\ IdOf(h) = id
  BY <1>1 DEF First, IdOf
<1> HIDE DEF id, n
<1>5. Asked(h)
  BY <1>1, <1>2, <1>4 DEF Asked, Ops
<1>6. MapFits(h, d)
  BY <1>1 DEF MapFits, Exact
<1>7. Unanswered(h, d) /\ Turns(h)
  BY <1>0, <1>1, <1>4 DEF Unanswered, Turns, Exact
<1> QED
  BY <1>2, <1>3, <1>5, <1>6, <1>7, AskGoes DEF h

\* checkAction, when the ids are exact, goes on with the next list that is not empty.
LEMMA CheckActionGoes ==
  ASSUME NEW f, NEW g \in MemberSet(f), g.posted = <<>>, NEW d, Exact(g.mExistSessionsId, d)
  PROVE  Goes(checkAction(g), g, d)
<1> DEFINE h == [g EXCEPT !.state = "CHECK_ACTION"]
<1>1. /\ h.state = "CHECK_ACTION" /\ h.posted = <<>> /\ SameLists(h, g)
      /\ h.mExistSessionsId = g.mExistSessionsId
  BY DEF MemberSet, SameLists
<1>2. \/ g.mDownloadList # {} /\ checkAction(g) = downloadSession(g)
      \/ /\ g.mDownloadList = {} /\ g.mDeleteList # {}
         /\ checkAction(g) = deleteSession(g)
      \/ /\ g.mDownloadList = {} /\ g.mDeleteList = {} /\ Listed(g.mUploadList) # {}
         /\ checkAction(g) = uploadSession(g)
      \/ NoLists(g) /\ checkAction(g) = h
  BY DEF checkAction, NoLists
<1> HIDE DEF h
<1>3. NoLists(g) => Goes(h, g, d)
  <2>1. MapFits(h, d)
    BY <1>1 DEF MapFits, Exact, Valid
  <2>2. NoLists(g) => NoLists(h)
    BY <1>1 DEF NoLists, SameLists
  <2> QED
    BY <1>1, <2>1, <2>2 DEF Goes, Asking, Unanswered, Turns
<1> QED
  BY <1>2, <1>3, DownloadGoes, DeleteGoes, UploadGoes

\* An event without an action leaves a trace: what follows is not orderly.
LEMMA UndefinedSaysSo ==
  ASSUME NEW f, NEW g \in MemberSet(f)
  PROVE  Undefined(g).undefined = TRUE
<1> DEFINE e == IF g.state = "IDLE_STATE" THEN initAll(g) ELSE g
           x == [e EXCEPT !.undefined = TRUE]
<1>1. e \in MemberSet(f)
  BY InitAllTypes
<1>2. Undefined(g) = checkAction(x)
  BY DEF Undefined
<1> HIDE DEF e
<1>3. x \in MemberSet(f) /\ x.undefined = TRUE
  BY <1>1 DEF MemberSet
<1> HIDE DEF x
<1>4. \A s, q : Ask(x, s, q).undefined = TRUE
  BY <1>3, AskIs
<1>5. Idle(x).undefined = TRUE
  BY <1>3 DEF Idle, initAll, MemberSet
<1>6. [x EXCEPT !.state = "CHECK_ACTION"].undefined = TRUE
  BY <1>3 DEF MemberSet
<1>7. /\ downloadSession(x).undefined = TRUE /\ deleteSession(x).undefined = TRUE
      /\ uploadSession(x).undefined = TRUE
  BY <1>4, <1>5 DEF downloadSession, deleteSession, uploadSession
<1> QED
  BY <1>2, <1>6, <1>7 DEF checkAction

\* The events of the machine itself.
LEMMA EventsGo ==
  ASSUME NEW f, NEW g \in MemberSet(f), g.posted = <<>>, NEW d, MapFits(g, d)
  PROVE  /\ ~Failed(g).undefined => Goes(Failed(g), g, d)
         /\ ~Retry(g).undefined => Goes(Retry(g), g, d)
         /\ ~NextEvt(g).undefined /\ g.state # "IDLE_STATE" => Goes(NextEvt(g), g, d)
<1>1. ~Failed(g).undefined => Goes(Failed(g), g, d)
  <2>1. \/ IsRefreshing(g) /\ Failed(g) = getAuthCode(g)
        \/ Failed(g) = Undefined(g) \/ Failed(g) = Idle(g)
    BY DEF Failed
  <2>2. IsRefreshing(g) => Valid(g.mExistSessionsId, d)
    BY DEF IsRefreshing, MapFits
  <2> QED
    BY <2>1, <2>2, GetAuthCodeGoes, IdleGoes, UndefinedSaysSo
<1>2. ~Retry(g).undefined => Goes(Retry(g), g, d)
  <2>1. \/ /\ IsRefreshing(g)
           /\ Retry(g) = refreshAccessToken(g, "REFRESH_ACCESS_TOKEN_STATE")
        \/ Retry(g) = Undefined(g)
    BY DEF Retry
  <2>2. IsRefreshing(g) => Valid(g.mExistSessionsId, d)
    BY DEF IsRefreshing, MapFits
  <2> QED
    BY <2>1, <2>2, RefreshGoes, UndefinedSaysSo
<1>3. ASSUME ~NextEvt(g).undefined, g.state # "IDLE_STATE"
      PROVE  Goes(NextEvt(g), g, d)
  <2>1. \/ g.state = "GET_AUTH_CODE_STATE" /\ NextEvt(g) = getAccessToken(g)
        \/ /\ g.state \in {"REFRESH_ACCESS_TOKEN_STATE", "GET_ACCESS_TOKEN_STATE"}
           /\ NextEvt(g) = getSessionFolder(g)
        \/ g.state = "GET_SESSION_FOLDER" /\ NextEvt(g) = List(g, {})
        \/ /\ g.state = "CHECK_ACTION"
           /\ NextEvt(g) = refreshAccessToken(g, "REFRESH_ACCESS_TOKEN_STATE2")
        \/ g.state = "REFRESH_ACCESS_TOKEN_STATE2" /\ NextEvt(g) = checkAction(g)
        \/ NextEvt(g) = Undefined(g)
    BY <1>3 DEF NextEvt
  <2>2. /\ g.state \in {"GET_AUTH_CODE_STATE", "REFRESH_ACCESS_TOKEN_STATE",
                        "GET_ACCESS_TOKEN_STATE", "GET_SESSION_FOLDER", "CHECK_ACTION"}
             => Valid(g.mExistSessionsId, d)
        /\ g.state \in {"CHECK_ACTION", "REFRESH_ACCESS_TOKEN_STATE2"}
             => Exact(g.mExistSessionsId, d)
    BY DEF MapFits
  <2>3. {} \in SUBSET Ids /\ \A n \in Sessions : FilesOf(d, n) \cap {} \subseteq {g.mExistSessionsId[n]}
    OBVIOUS
  <2>4. g.state = "GET_SESSION_FOLDER" => Goes(List(g, {}), g, d)
    BY <2>2, <2>3, RequestsGo
  <2>5. g.state \in {"REFRESH_ACCESS_TOKEN_STATE", "GET_ACCESS_TOKEN_STATE"}
          => Goes(getSessionFolder(g), g, d)
    BY <2>2, RequestsGo
  <2>6. g.state = "GET_AUTH_CODE_STATE" => Goes(getAccessToken(g), g, d)
    BY <2>2, RequestsGo
  <2>7. g.state = "CHECK_ACTION"
          => Goes(refreshAccessToken(g, "REFRESH_ACCESS_TOKEN_STATE2"), g, d)
    BY <2>2, RefreshGoes
  <2>8. g.state = "REFRESH_ACCESS_TOKEN_STATE2" => Goes(checkAction(g), g, d)
    BY <2>2, CheckActionGoes
  <2> QED
    BY <1>3, <2>1, <2>4, <2>5, <2>6, <2>7, <2>8, UndefinedSaysSo
<1> QED
  BY <1>1, <1>2, <1>3

-----------------------------------------------------------------------------
(* What the parsers of the answers come to.                                *)

\* Members that differ in nothing the map and the lists depend on.
Alike(x, g) ==
  /\ x.state = g.state /\ x.http = g.http
  /\ x.mExistSessionsId = g.mExistSessionsId /\ SameLists(x, g)

\* Fields that say nothing of the drive (the token, the answer) change none of this.
LEMMA AlikeFits ==
  ASSUME NEW x, NEW g, Alike(x, g), NEW d
  PROVE  /\ MapFits(g, d) => MapFits(x, d)
         /\ Unanswered(g, d) => Unanswered(x, d)
         /\ Asked(g) => Asked(x)
         /\ Turns(g) => Turns(x)
         /\ \A r : AnswerFits(g, r, d) => AnswerFits(x, r, d)
<1>1. First(x) = First(g) /\ IdOf(x) = IdOf(g)
  BY DEF Alike, SameLists, First, IdOf
<1>2. MapFits(g, d) => MapFits(x, d)
  BY <1>1 DEF Alike, MapFits
<1>3. Unanswered(g, d) => Unanswered(x, d)
  BY <1>1 DEF Alike, Unanswered
<1>4. Asked(g) => Asked(x)
  BY <1>1 DEF Alike, SameLists, Asked
<1>5. Turns(g) => Turns(x)
  BY DEF Alike, SameLists, Turns
<1>6. \A r : AnswerFits(g, r, d) => AnswerFits(x, r, d)
  BY <1>1 DEF Alike, AnswerFits
<1> QED
  BY <1>2, <1>3, <1>4, <1>5, <1>6

\* A handler may start from members that differ in other fields.
LEMMA AlikeGoes ==
  ASSUME NEW x, NEW g, SameLists(x, g), NEW d, NEW h, Goes(h, x, d)
  PROVE  Goes(h, g, d)
BY DEF Goes, SameLists

\* parseAccessToken goes on to the folder, or to the actions when the ids are exact.
LEMMA ParseTokenGoes ==
  ASSUME NEW f, NEW g0 \in MemberSet(f), g0.posted = <<>>, NEW d, MapFits(g0, d),
         g0.state # "IDLE_STATE", ~parseAccessToken(g0).undefined
  PROVE  Goes(parseAccessToken(g0), g0, d)
<1> DEFINE g == [g0 EXCEPT !.mAccessTokenHeader = FALSE]
           r == g.mHttpRsp
           ok(b) == [g EXCEPT !.mAccessToken = TRUE, !.mAccessTokenHeader = TRUE,
                           !.mRefreshToken = b]
           no(b) == [g EXCEPT !.mAccessToken = FALSE, !.mRefreshToken = b]
<1>1. g \in MemberSet(f) /\ Alike(g, g0) /\ g.posted = <<>>
  BY DEF MemberSet, Alike, SameLists
<1>2. \/ parseAccessToken(g0) = Failed(g)
      \/ r.kind = "token" /\ parseAccessToken(g0) = NextEvt(ok(g.mRefreshToken \/ r.refresh))
      \/ r.kind = "short" /\ parseAccessToken(g0) = Retry(no(g.mRefreshToken \/ r.refresh))
      \/ parseAccessToken(g0) = Failed(no(FALSE))
      \/ parseAccessToken(g0) = Retry(no(g.mRefreshToken /\ g.mAccessToken))
  BY <1>1 DEF parseAccessToken, MemberSet
<1> HIDE DEF g
<1>3. \A b \in BOOLEAN : /\ ok(b) \in MemberSet(f) /\ no(b) \in MemberSet(f)
                         /\ Alike(ok(b), g) /\ Alike(no(b), g)
                         /\ ok(b).posted = g.posted /\ no(b).posted = g.posted
  BY <1>1 DEF MemberSet, Alike, SameLists
<1>4. /\ g.mRefreshToken \in BOOLEAN /\ g.mAccessToken \in BOOLEAN /\ r \in Answers(f)
  BY <1>1 DEF MemberSet
<1>5. r.kind \in {"token", "short"} => r.refresh \in BOOLEAN
  BY <1>4, AnswerFields
<1>6. FALSE \in BOOLEAN /\ (g.mRefreshToken /\ g.mAccessToken) \in BOOLEAN
  BY <1>4
<1>7. r.kind \in {"token", "short"} => (g.mRefreshToken \/ r.refresh) \in BOOLEAN
  BY <1>4, <1>5
<1> HIDE DEF ok, no, r
<1>8. PICK x \in MemberSet(f) :
        /\ x = g \/ Alike(x, g)
        /\ x.posted = g.posted
        /\ parseAccessToken(g0) \in {Failed(x), NextEvt(x), Retry(x)}
  BY <1>1, <1>2, <1>3, <1>6, <1>7
<1>9. Alike(x, g0)
  BY <1>1, <1>8 DEF Alike, SameLists
<1>10. x.posted = <<>> /\ MapFits(x, d) /\ x.state # "IDLE_STATE" /\ SameLists(x, g0)
  BY <1>1, <1>8, <1>9, AlikeFits DEF Alike
<1>11. Goes(parseAccessToken(g0), x, d)
  BY <1>8, <1>10, EventsGo
<1> QED
  BY <1>10, <1>11, AlikeGoes

\* With no files a map that is right is exact.
LEMMA NoFilesExact ==
  ASSUME NEW d, Live(d) = {}, NEW ids, Valid(ids, d)
  PROVE  Exact(ids, d)
<1>1. \A n \in Sessions : FilesOf(d, n) \subseteq Live(d)
  BY Numbers DEF FilesOf, Live
<1>2. ASSUME NEW n \in Sessions PROVE Knows(ids, d, n)
  <2>1. CASE ids[n] # None
    BY <2>1 DEF Valid
  <2>2. CASE ids[n] = None
    BY <1>1, <2>2 DEF Knows
  <2> QED
    BY <2>1, <2>2
<1> QED
  BY <1>2 DEF Exact

\* A session without a folder has no files, and one with a folder is listed from the
\* start.
LEMMA ParseFolderGoes ==
  ASSUME NEW f, NEW g \in MemberSet(f), g.posted = <<>>, NEW d, MapFits(g, d),
         AnswerFits(g, g.mHttpRsp, d)
  PROVE  /\ g.state = "GET_SESSION_FOLDER" /\ ~parseSessionFolderInfo(g).undefined
              => Goes(parseSessionFolderInfo(g), g, d)
         /\ g.state = "CREATE_SESSION_FOLDER" /\ ~parseCreateSessionFolderInfo(g).undefined
              => Goes(parseCreateSessionFolderInfo(g), g, d)
<1> DEFINE r == g.mHttpRsp
           known(id) == [g EXCEPT !.mSessionFolderId = id]
<1>1. \A id \in Parents(f) : /\ known(id) \in MemberSet(f) /\ Alike(known(id), g)
                               /\ known(id).posted = <<>>
  BY DEF MemberSet, Alike, SameLists
<1>2. r \in Answers(f)
  BY DEF MemberSet
<1>3. /\ "file" \in Parents(f)
      /\ r.kind = "folder" => "folder" \in Parents(f)
      /\ r.kind = "id" /\ r.id = FolderId => "folder" \in Parents(f)
  BY <1>2, Numbers DEF Answers, Parents, Made
<1>4. \/ r.kind = "folder" /\ parseSessionFolderInfo(g) = NextEvt(known("folder"))
      \/ r.kind = "page"
      \/ r.kind = "noFolder" /\ parseSessionFolderInfo(g) = createSessionFolder(g)
      \/ parseSessionFolderInfo(g) = Failed(g)
  BY DEF parseSessionFolderInfo
<1>5. \/ /\ r.kind = "id" /\ r.id = FolderId
         /\ parseCreateSessionFolderInfo(g) = checkAction(known("folder"))
      \/ parseCreateSessionFolderInfo(g) = checkAction(known("file"))
      \/ parseCreateSessionFolderInfo(g) = Failed(g)
  BY DEF parseCreateSessionFolderInfo
<1> HIDE DEF known
<1>6. \A id \in Parents(f) :
         LET x == known(id) IN
         /\ x \in MemberSet(f) /\ x.posted = <<>> /\ MapFits(x, d) /\ SameLists(x, g)
         /\ x.state = g.state /\ x.mExistSessionsId = g.mExistSessionsId
  BY <1>1, AlikeFits DEF Alike
<1>7. ASSUME g.state = "GET_SESSION_FOLDER", ~parseSessionFolderInfo(g).undefined
      PROVE  Goes(parseSessionFolderInfo(g), g, d)
  <2>1. r.kind # "page" /\ (r.kind = "noFolder" => Live(d) = {}) /\ Valid(g.mExistSessionsId, d)
    BY <1>7 DEF AnswerFits, MapFits
  <2> HIDE DEF r
  <2>2. CASE r.kind = "folder" /\ parseSessionFolderInfo(g) = NextEvt(known("folder"))
    <3>1. Goes(NextEvt(known("folder")), known("folder"), d)
      BY <1>3, <1>6, <1>7, <2>2, EventsGo
    <3> QED
      BY <1>3, <1>6, <2>2, <3>1, AlikeGoes
  <2>3. CASE r.kind = "noFolder" /\ parseSessionFolderInfo(g) = createSessionFolder(g)
    BY <2>1, <2>3, RequestsGo
  <2>4. CASE parseSessionFolderInfo(g) = Failed(g)
    BY <1>7, <2>4, EventsGo
  <2> QED
    BY <1>4, <2>1, <2>2, <2>3, <2>4
<1>8. ASSUME g.state = "CREATE_SESSION_FOLDER", ~parseCreateSessionFolderInfo(g).undefined
      PROVE  Goes(parseCreateSessionFolderInfo(g), g, d)
  <2>1. Exact(g.mExistSessionsId, d)
    BY <1>8, NoFilesExact DEF MapFits
  <2> HIDE DEF r
  <2>2. \A id \in Parents(f) : Goes(checkAction(known(id)), g, d)
    <3> SUFFICES ASSUME NEW id \in Parents(f) PROVE Goes(checkAction(known(id)), g, d)
      OBVIOUS
    <3> DEFINE x == known(id)
    <3>1. /\ x \in MemberSet(f) /\ x.posted = <<>> /\ SameLists(x, g)
          /\ Exact(x.mExistSessionsId, d)
      BY <1>6, <2>1
    <3> HIDE DEF x
    <3>2. Goes(checkAction(x), x, d)
      BY <3>1, CheckActionGoes
    <3>3. Goes(checkAction(x), g, d)
      BY <3>1, <3>2, AlikeGoes
    <3> QED
      BY <3>3 DEF x
  <2>3. CASE parseCreateSessionFolderInfo(g) = Failed(g)
    BY <1>8, <2>3, EventsGo
  <2> QED
    BY <1>3, <1>5, <2>2, <2>3
<1> QED
  BY <1>7, <1>8

\* A page brings the files of the account that are on it.
LEMMA PageBrings ==
  ASSUME NEW d, IsDrive(d), NEW seen \in SUBSET Ids
  PROVE  LET r == Page(d, seen)
         IN \E items \in SUBSET (Live(d) \ seen) :
              /\ \A n : Found(r, n) = FilesOf(d, n) \cap items
              /\ r.seen = seen \cup items
              /\ ~r.more => items = Live(d) \ seen
<1> DEFINE rest == Live(d) \ seen
           items == {i \in rest : Cardinality({j \in rest : j < i}) < PageSize}
           named == {[id |-> i, name |-> d.files[i].name] : i \in items}
           r == [kind |-> "page", items |-> named, seen |-> seen \cup items,
                 more |-> items # rest]
<1>1. Page(d, seen) = r
  BY DEF Page
<1>2. items \subseteq rest
  OBVIOUS
<1> HIDE DEF items
<1>3. ASSUME NEW n PROVE Found(r, n) = FilesOf(d, n) \cap items
  <2>1. Found(r, n) = {x.id : x \in {y \in named : y.name = n}}
    BY DEF Found
  <2>2. \A y \in named : y.id \in items /\ y.name = d.files[y.id].name
    OBVIOUS
  <2>3. \A i \in items : LET y == [id |-> i, name |-> d.files[i].name]
                         IN y \in named /\ y.id = i /\ y.name = d.files[i].name
    OBVIOUS
  <2> DEFINE F == {x.id : x \in {y \in named : y.name = n}}
  <2> HIDE DEF named, r
  <2>4. F = {i \in items : d.files[i].name = n}
    <3>1. ASSUME NEW i \in F PROVE i \in items /\ d.files[i].name = n
      BY <2>2
    <3>2. ASSUME NEW i \in items, d.files[i].name = n PROVE i \in F
      BY <2>3, <3>2
    <3> HIDE DEF F
    <3> QED
      BY <3>1, <3>2
  <2>5. items \subseteq Ids
    BY <1>2 DEF Live
  <2> QED
    BY <2>1, <2>4, <2>5 DEF FilesOf
<1>4. r.seen = seen \cup items /\ (~r.more => items = rest)
  OBVIOUS
<1> HIDE DEF r
<1> QED
  BY <1>1, <1>2, <1>3, <1>4

\* What the map is once a page has been entered.
LEMMA PageEnters ==
  ASSUME NEW f, NEW g \in MemberSet(f), NEW d, IsDrive(d), One(d), NEW seen \in SUBSET Ids,
         Valid(g.mExistSessionsId, d),
         \A n \in Sessions : FilesOf(d, n) \cap seen \subseteq {g.mExistSessionsId[n]}
  PROVE  LET r == Page(d, seen)
             ids == Entered(g, r).mExistSessionsId
         IN /\ Valid(ids, d)
            /\ \A n \in Sessions : FilesOf(d, n) \cap r.seen \subseteq {ids[n]}
            /\ ~r.more => Exact(ids, d)
<1> DEFINE r == Page(d, seen)
           ids == Entered(g, r).mExistSessionsId
<1>1. PICK items \in SUBSET (Live(d) \ seen) :
        /\ \A n : Found(r, n) = FilesOf(d, n) \cap items
        /\ r.seen = seen \cup items
        /\ ~r.more => items = Live(d) \ seen
  BY PageBrings
<1>2. \A n \in Sessions : ids[n] = IF Found(r, n) = {} THEN g.mExistSessionsId[n]
                                                       ELSE Max(Found(r, n))
  BY DEF Entered, MemberSet
<1>3. \A n \in Sessions : FilesOf(d, n) \subseteq Live(d) /\ FilesOf(d, n) \subseteq Ids
  BY Numbers DEF FilesOf, Live
<1> HIDE DEF r, ids
<1>4. ASSUME NEW n \in Sessions
      PROVE  /\ ids[n] # None => Knows(ids, d, n)
             /\ FilesOf(d, n) \cap r.seen \subseteq {ids[n]}
             /\ ~r.more => Knows(ids, d, n)
  <2>1. CASE Found(r, n) = {}
    <3>1. ids[n] = g.mExistSessionsId[n]
      BY <1>2, <2>1
    <3>2. ids[n] # None => Knows(ids, d, n)
      BY <3>1 DEF Valid, Knows
    <3>3. FilesOf(d, n) \cap r.seen \subseteq {ids[n]}
      BY <1>1, <2>1, <3>1
    <3>4. ASSUME ~r.more, ids[n] = None PROVE Knows(ids, d, n)
      <4>1. FilesOf(d, n) \subseteq {None}
        BY <1>1, <1>3, <3>3, <3>4
      <4>2. FilesOf(d, n) = {}
        BY <1>3, <4>1, Numbers
      <4> QED
        BY <3>4, <4>2 DEF Knows
    <3> QED
      BY <3>2, <3>3, <3>4
  <2>2. CASE Found(r, n) # {}
    <3>1. Max(Found(r, n)) \in Found(r, n)
      BY <1>1, <1>3, <2>2, LastOfFiles
    <3>2. ids[n] \in FilesOf(d, n)
      BY <1>1, <1>2, <2>2, <3>1
    <3>3. FilesOf(d, n) = {ids[n]}
      BY <3>2 DEF One
    <3>4. ids[n] # None
      BY <1>3, <3>2, Numbers
    <3> QED
      BY <3>3, <3>4 DEF Knows
  <2> QED
    BY <2>1, <2>2
<1>5. Valid(ids, d) /\ (~r.more => Exact(ids, d))
  BY <1>4 DEF Valid, Exact
<1> QED
  BY <1>4, <1>5 DEF r, ids

\* parseSessionsId asks for the next page, or has the exact ids after the last one.
LEMMA ParseSessionsIdGoes ==
  ASSUME NEW d, IsDrive(d), One(d), NEW g \in MemberSet(d.folder), g.posted = <<>>,
         MapFits(g, d), g.state = "GET_EXIST_SESSIONS_ID", AnswerFits(g, g.mHttpRsp, d),
         Asked(g), ~parseSessionsId(g).undefined
  PROVE  Goes(parseSessionsId(g), g, d)
<1> DEFINE f == d.folder
           r == g.mHttpRsp
           seen == g.http.seen
           h == Entered(g, r)
<1>1. /\ r.kind \notin {"folder", "noFolder"} /\ (r.kind = "page" => r = Page(d, seen))
      /\ Valid(g.mExistSessionsId, d)
      /\ \A n \in Sessions : FilesOf(d, n) \cap seen \subseteq {g.mExistSessionsId[n]}
  BY DEF AnswerFits, MapFits
<1>2. seen \in SUBSET Ids
  <2>1. g.http.op = "list" /\ g.http \in Requests(f)
    BY DEF Asked, Ops, MemberSet
  <2> QED
    BY <2>1 DEF Requests
<1>3. \/ r.kind = "page" /\ r.more /\ parseSessionsId(g) = List(h, r.seen)
      \/ r.kind = "page" /\ ~r.more /\ parseSessionsId(g) = checkAction(h)
      \/ parseSessionsId(g) = Failed(g)
  BY <1>1, ParseSessionsIdIs
<1>4. ASSUME r.kind = "page"
      PROVE  Goes(parseSessionsId(g), g, d) \/ parseSessionsId(g) = Failed(g)
  <2>1. /\ Valid(h.mExistSessionsId, d)
        /\ \A n \in Sessions : FilesOf(d, n) \cap r.seen \subseteq {h.mExistSessionsId[n]}
        /\ ~r.more => Exact(h.mExistSessionsId, d)
    BY <1>1, <1>2, <1>4, PageEnters
  <2>2. h \in MemberSet(f) /\ r.seen \in SUBSET Ids
    <3>1. r \in Answers(f)
      BY DEF MemberSet
    <3> QED
      BY <1>4, <3>1, EnteredTypes, AnswerFields
  <2>3. h.posted = <<>> /\ SameLists(h, g)
    BY DEF Entered, MemberSet, SameLists
  <2> HIDE DEF h, r
  <2>4. r.more => Goes(List(h, r.seen), h, d)
    BY <2>1, <2>2, <2>3, RequestsGo
  <2>5. ~r.more => Goes(checkAction(h), h, d)
    BY <2>1, <2>2, <2>3, CheckActionGoes
  <2> QED
    BY <1>3, <2>3, <2>4, <2>5, AlikeGoes
<1>5. parseSessionsId(g) = Failed(g) => Goes(parseSessionsId(g), g, d)
  BY EventsGo
<1> QED
  BY <1>3, <1>4, <1>5

\* Striking off a session leaves an exact map.
LEMMA StrikingKeepsExact ==
  ASSUME NEW d, NEW f, NEW g \in MemberSet(f), g.posted = <<>>, WorkLists(g),
         MapFits(g, d), AnswerFits(g, g.mHttpRsp, d)
  PROVE  /\ g.state = "DOWNLOAD_SESSION" =>
              LET x == Saved(g) IN
              x \in MemberSet(f) /\ x.posted = <<>> /\ Exact(x.mExistSessionsId, d)
         /\ g.state = "DELETE_SESSIONS" /\ g.mHttpRsp = Empty =>
              LET x == Struck(g) IN
              /\ x \in MemberSet(f) /\ x.posted = <<>> /\ Exact(x.mExistSessionsId, d)
              /\ x.mDownloadList = g.mDownloadList
         /\ g.state = "UPLOAD_SESSION" /\ g.mHttpRsp.kind = "id" =>
              LET x == Put(g) IN
              /\ x \in MemberSet(f) /\ x.posted = <<>> /\ Exact(x.mExistSessionsId, d)
              /\ x.mDownloadList = g.mDownloadList /\ x.mDeleteList = g.mDeleteList
<1>1. ASSUME g.state = "DOWNLOAD_SESSION"
      PROVE  LET x == Saved(g) IN
             x \in MemberSet(f) /\ x.posted = <<>> /\ Exact(x.mExistSessionsId, d)
  <2>1. Saved(g) \in MemberSet(f)
    BY <1>1, SavedTypes DEF WorkLists
  <2>2. Saved(g).posted = <<>> /\ Saved(g).mExistSessionsId = g.mExistSessionsId
    BY DEF Saved, MemberSet
  <2>3. Exact(g.mExistSessionsId, d)
    BY <1>1 DEF MapFits
  <2> QED
    BY <2>1, <2>2, <2>3
<1>2. ASSUME g.state = "DELETE_SESSIONS", g.mHttpRsp = Empty
      PROVE  LET x == Struck(g) IN
             /\ x \in MemberSet(f) /\ x.posted = <<>> /\ Exact(x.mExistSessionsId, d)
             /\ x.mDownloadList = g.mDownloadList
  <2> DEFINE x == Struck(g)
  <2>1. x \in MemberSet(f)
    BY <1>2, StruckTypes DEF WorkLists
  <2>2. /\ x.posted = <<>> /\ x.mDownloadList = g.mDownloadList
        /\ x.mExistSessionsId = [g.mExistSessionsId EXCEPT ![First(g)] = None]
    BY <1>2 DEF Struck, MemberSet, First
  <2>3. /\ \A n \in Sessions \ {First(g)} : Knows(g.mExistSessionsId, d, n)
        /\ FilesOf(d, First(g)) = {}
    BY <1>2 DEF MapFits, AnswerFits
  <2> HIDE DEF x
  <2>4. \A n \in Sessions : Knows(x.mExistSessionsId, d, n)
    BY <2>2, <2>3 DEF Knows, MemberSet
  <2>5. Exact(x.mExistSessionsId, d)
    BY <2>4 DEF Exact
  <2> QED
    BY <2>1, <2>2, <2>5 DEF x
<1>3. ASSUME g.state = "UPLOAD_SESSION", g.mHttpRsp.kind = "id"
      PROVE  LET x == Put(g) IN
             /\ x \in MemberSet(f) /\ x.posted = <<>> /\ Exact(x.mExistSessionsId, d)
             /\ x.mDownloadList = g.mDownloadList /\ x.mDeleteList = g.mDeleteList
  <2> DEFINE x == Put(g)
             id == g.mHttpRsp.id
  <2>1. x \in MemberSet(f)
    BY <1>3, PutTypes DEF WorkLists
  <2>2. /\ x.posted = <<>> /\ x.mDownloadList = g.mDownloadList
        /\ x.mDeleteList = g.mDeleteList
        /\ x.mExistSessionsId = [g.mExistSessionsId EXCEPT ![First(g)] = id]
    BY <1>3 DEF Put, MemberSet, First
  <2>3. /\ \A n \in Sessions \ {First(g)} : Knows(g.mExistSessionsId, d, n)
        /\ FilesOf(d, First(g)) = {id}
    BY <1>3 DEF MapFits, AnswerFits
  <2>4. id # None
    BY <2>3, Numbers DEF FilesOf
  <2> HIDE DEF x, id
  <2>5. \A n \in Sessions : Knows(x.mExistSessionsId, d, n)
    BY <2>2, <2>3, <2>4 DEF Knows, MemberSet
  <2>6. Exact(x.mExistSessionsId, d)
    BY <2>5 DEF Exact
  <2> QED
    BY <2>1, <2>2, <2>6 DEF x
<1> QED
  BY <1>1, <1>2, <1>3

\* What an answer comes to: a step of the machine with the lists it had, or with
\* the first entry of the list of its state struck off.
Handled(h, g, d) ==
  \/ /\ Goes(h, g, d)
     /\ g.state \in {"DOWNLOAD_SESSION", "DELETE_SESSIONS", "UPLOAD_SESSION"}
          => h.state = "IDLE_STATE"
  \/ g.state = "DOWNLOAD_SESSION" /\ Goes(h, Saved(g), d)
  \/ g.state = "DELETE_SESSIONS" /\ g.mHttpRsp = Empty /\ Goes(h, Struck(g), d)
  \/ g.state = "UPLOAD_SESSION" /\ g.mHttpRsp.kind = "id" /\ Goes(h, Put(g), d)

\* The parsers of the lists enter what the answer says of the drive and go on.
LEMMA ParseListsGo ==
  ASSUME NEW d, NEW f, NEW g \in MemberSet(f), g.posted = <<>>, WorkLists(g),
         MapFits(g, d), Turns(g), AnswerFits(g, g.mHttpRsp, d)
  PROVE  /\ g.state = "DOWNLOAD_SESSION" => Handled(parseDownloadSession(g), g, d)
         /\ g.state = "DELETE_SESSIONS" => Handled(parseDeleteSession(g), g, d)
         /\ g.state = "UPLOAD_SESSION" => Handled(parseUploadSession(g), g, d)
<1>1. ASSUME g.state = "DOWNLOAD_SESSION"
      PROVE  Handled(parseDownloadSession(g), g, d)
  <2> DEFINE x == Saved(g)
  <2>1. x \in MemberSet(f) /\ x.posted = <<>> /\ Exact(x.mExistSessionsId, d)
    BY <1>1, StrikingKeepsExact
  <2>2. \/ x.mDownloadList # {} /\ parseDownloadSession(g) = downloadSession(x)
        \/ parseDownloadSession(g) = checkAction(x)
    BY ParseListsAre
  <2> HIDE DEF x
  <2>3. Goes(parseDownloadSession(g), x, d)
    BY <2>1, <2>2, DownloadGoes, CheckActionGoes
  <2> QED
    BY <1>1, <2>3 DEF Handled, x
<1>2. ASSUME g.state = "DELETE_SESSIONS" PROVE Handled(parseDeleteSession(g), g, d)
  <2> DEFINE x == Struck(g)
  <2>1. g.mHttpRsp = Empty => /\ x \in MemberSet(f) /\ x.posted = <<>>
                              /\ Exact(x.mExistSessionsId, d) /\ x.mDownloadList = {}
    BY <1>2, StrikingKeepsExact DEF Turns
  <2>2. \/ g.mHttpRsp # Empty /\ parseDeleteSession(g) = Failed(g)
        \/ /\ g.mHttpRsp = Empty /\ x.mDeleteList # {}
           /\ parseDeleteSession(g) = deleteSession(x)
        \/ g.mHttpRsp = Empty /\ parseDeleteSession(g) = checkAction(x)
    BY ParseListsAre
  <2> HIDE DEF x
  <2>3. g.mHttpRsp = Empty => Goes(parseDeleteSession(g), x, d)
    BY <2>1, <2>2, DeleteGoes, CheckActionGoes
  <2>4. Failed(g) = Idle(g)
    BY <1>2 DEF Failed, IsRefreshing
  <2> QED
    BY <1>2, <2>2, <2>3, <2>4, IdleGoes DEF Handled, x
<1>3. ASSUME g.state = "UPLOAD_SESSION" PROVE Handled(parseUploadSession(g), g, d)
  <2> DEFINE x == Put(g)
  <2>1. g.mHttpRsp.kind = "id" =>
          /\ x \in MemberSet(f) /\ x.posted = <<>> /\ Exact(x.mExistSessionsId, d)
          /\ x.mDownloadList = {} /\ x.mDeleteList = {}
    BY <1>3, StrikingKeepsExact DEF Turns
  <2>2. \/ g.mHttpRsp.kind # "id" /\ parseUploadSession(g) = Failed(g)
        \/ /\ g.mHttpRsp.kind = "id" /\ Listed(x.mUploadList) # {}
           /\ parseUploadSession(g) = uploadSession(x)
        \/ g.mHttpRsp.kind = "id" /\ parseUploadSession(g) = checkAction(x)
    BY ParseListsAre
  <2> HIDE DEF x
  <2>3. g.mHttpRsp.kind = "id" => Goes(parseUploadSession(g), x, d)
    BY <2>1, <2>2, UploadGoes, CheckActionGoes
  <2>4. Failed(g) = Idle(g)
    BY <1>3 DEF Failed, IsRefreshing
  <2> QED
    BY <1>3, <2>2, <2>3, <2>4, IdleGoes DEF Handled, x
<1> QED
  BY <1>1, <1>2, <1>3

\* handleHttpRsp in a state that asked.
LEMMA AnswersGo ==
  ASSUME NEW d, IsDrive(d), One(d), NEW g \in MemberSet(d.folder), g.posted = <<>>,
         WorkLists(g), g.state \in Asking, Asked(g), MapFits(g, d), Turns(g)
  PROVE  /\ AnswerFits(g, g.mHttpRsp, d) /\ ~HttpSuccess(g).undefined
              => Handled(HttpSuccess(g), g, d)
         /\ Handled(HttpFailed(g), g, d)
<1>1. Handled(HttpFailed(g), g, d)
  <2>1. HttpFailed(g) = Idle(g)
    BY DEF HttpFailed, Asking
  <2> QED
    BY <2>1, IdleGoes DEF Handled
<1>2. ASSUME AnswerFits(g, g.mHttpRsp, d), ~HttpSuccess(g).undefined
      PROVE  Handled(HttpSuccess(g), g, d)
  <2> DEFINE f == d.folder
  <2>0. g \in MemberSet(f) /\ g.state # "IDLE_STATE"
    BY DEF Asking
  <2>1. CASE IsRefreshing(g) \/ g.state = "GET_ACCESS_TOKEN_STATE"
    <3>1. HttpSuccess(g) = parseAccessToken(g)
      BY <2>1 DEF HttpSuccess, IsRefreshing
    <3>2. Goes(parseAccessToken(g), g, d)
      BY <1>2, <2>0, <3>1, ParseTokenGoes
    <3> QED
      BY <2>1, <3>1, <3>2 DEF Handled, IsRefreshing
  <2>2. CASE g.state = "GET_SESSION_FOLDER"
    <3>1. HttpSuccess(g) = parseSessionFolderInfo(g)
      BY <2>2 DEF HttpSuccess, IsRefreshing
    <3> QED
      BY <1>2, <2>0, <2>2, <3>1, ParseFolderGoes DEF Handled
  <2>3. CASE g.state = "CREATE_SESSION_FOLDER"
    <3>1. HttpSuccess(g) = parseCreateSessionFolderInfo(g)
      BY <2>3 DEF HttpSuccess, IsRefreshing
    <3> QED
      BY <1>2, <2>0, <2>3, <3>1, ParseFolderGoes DEF Handled
  <2>4. CASE g.state = "GET_EXIST_SESSIONS_ID"
    <3>1. HttpSuccess(g) = parseSessionsId(g)
      BY <2>4 DEF HttpSuccess, IsRefreshing
    <3> QED
      BY <1>2, <2>0, <2>4, <3>1, ParseSessionsIdGoes DEF Handled
  <2>5. CASE g.state \in {"DOWNLOAD_SESSION", "DELETE_SESSIONS", "UPLOAD_SESSION"}
    <3>1. /\ g.state = "DOWNLOAD_SESSION" => HttpSuccess(g) = parseDownloadSession(g)
          /\ g.state = "DELETE_SESSIONS" => HttpSuccess(g) = parseDeleteSession(g)
          /\ g.state = "UPLOAD_SESSION" => HttpSuccess(g) = parseUploadSession(g)
      BY DEF HttpSuccess, IsRefreshing
    <3> QED
      BY <1>2, <2>0, <2>5, <3>1, ParseListsGo
  <2> QED
    BY <2>1, <2>2, <2>3, <2>4, <2>5 DEF Asking, States, IsRefreshing
<1> QED
  BY <1>1, <1>2

-----------------------------------------------------------------------------
(* What the drive does for the request of a state.                         *)

SameFiles(e, d) == e.files = d.files

\* What a change of the account leaves: names, but for the session worked on.
LEMMA SameFilesFit ==
  ASSUME NEW d, NEW e, SameFiles(e, d), NEW g
  PROVE  /\ One(d) => One(e)
         /\ MapFits(g, d) => MapFits(g, e)
         /\ Unanswered(g, d) => Unanswered(g, e)
<1>1. Live(e) = Live(d) /\ \A n : FilesOf(e, n) = FilesOf(d, n)
  BY DEF SameFiles, Live, FilesOf
<1>2. One(d) => One(e)
  BY <1>1 DEF One
<1>3. /\ Valid(g.mExistSessionsId, e) <=> Valid(g.mExistSessionsId, d)
      /\ Exact(g.mExistSessionsId, e) <=> Exact(g.mExistSessionsId, d)
      /\ \A n : Knows(g.mExistSessionsId, e, n) <=> Knows(g.mExistSessionsId, d, n)
  BY <1>1 DEF Valid, Exact, Knows
<1>4. MapFits(g, d) => MapFits(g, e)
  BY <1>1, <1>3 DEF MapFits
<1>5. Unanswered(g, d) => Unanswered(g, e)
  BY <1>1, <1>3 DEF Unanswered
<1> QED
  BY <1>2, <1>4, <1>5

\* An answer that says nothing of the drive.
LEMMA RefusalFits ==
  ASSUME NEW g, NEW r, NEW d,
         r.kind \notin {"page", "noFolder", "folder", "session", "id", "empty"}
  PROVE  AnswerFits(g, r, d)
BY DEF AnswerFits, Empty

\* The files of the session that is worked on change, and no other's.
LEMMA OthersFit ==
  ASSUME NEW d, One(d), NEW g, g.state \in {"DELETE_SESSIONS", "UPLOAD_SESSION"},
         MapFits(g, d), NEW e, NEW i,
         FilesOf(e, First(g)) \subseteq {i},
         \A n \in Sessions \ {First(g)} : FilesOf(e, n) = FilesOf(d, n)
  PROVE  One(e) /\ MapFits(g, e)
<1>1. One(e)
  BY DEF One
<1>2. \A n \in Sessions \ {First(g)} : Knows(g.mExistSessionsId, e, n)
  BY DEF MapFits, Knows
<1> QED
  BY <1>1, <1>2 DEF MapFits

\* The account after a request and the answer of it.
Served(g, d, o) ==
  /\ One(o[1]) /\ MapFits(g, o[1]) /\ AnswerFits(g, o[2], o[1])
  /\ g.http.op # "create" => Unanswered(g, o[1])

\* A deletion or an upload the drive has served changes the session of the state only.
LEMMA ChangesServed ==
  ASSUME NEW d, IsDrive(d), One(d), NEW g \in MemberSet(d.folder), WorkLists(g),
         g.state \in {"DELETE_SESSIONS", "UPLOAD_SESSION"},
         Asked(g), MapFits(g, d), Unanswered(g, d), Serve(d, g.http) # <<d, Answer("error")>>
  PROVE  /\ Served(g, d, Serve(d, g.http))
         /\ LET e == Serve(d, g.http)[1] IN
            /\ \A n \in Sessions \ {First(g)} : Remote(e, n) = Remote(d, n)
            /\ g.state = "DELETE_SESSIONS" => Remote(e, First(g)) = {}
            /\ g.state = "UPLOAD_SESSION" => Remote(e, First(g)) = {g.http.body}
<1> DEFINE q == g.http
           n == First(g)
           id == IdOf(g)
<1>0. n \in Sessions
  <2>1. g.state = "DELETE_SESSIONS" => n = Min(g.mDeleteList)
    BY DEF First
  <2>2. g.state = "UPLOAD_SESSION" => n = Min(Listed(g.mUploadList))
    BY DEF First
  <2>3. g.state = "DELETE_SESSIONS" => Min(g.mDeleteList) \in Sessions
    BY FirstOfList, Numbers DEF WorkLists, MemberSet
  <2>4. g.state = "UPLOAD_SESSION" => Min(Listed(g.mUploadList)) \in Sessions
    BY ListedAre DEF WorkLists, MemberSet
  <2> QED
    BY <2>1, <2>2, <2>3, <2>4
<1>1. CASE g.state = "DELETE_SESSIONS"
  <2> DEFINE e == [d EXCEPT !.files[id] = Trashed]
  <2>1. q.op = "delete" /\ q.id = id
    BY <1>1 DEF Asked, Ops
  <2>2. id \in Live(d) /\ Serve(d, q) = <<e, Empty>>
    BY <2>1 DEF Serve
  <2>3. /\ \A i \in Ids : e.files[i] = IF i = id THEN Trashed ELSE d.files[i]
        /\ Trashed.name = None
    BY <2>2 DEF IsDrive, DriveSet, Trashed
  <2> HIDE DEF e
  <2>4. FilesOf(d, n) = {id}
    BY <1>1, <2>2 DEF Unanswered
  <2>5. id \in Ids /\ d.files[id].name = n
    BY <2>2, <2>4 DEF FilesOf, Live
  <2>6. /\ FilesOf(e, n) = {} /\ id \notin Live(e)
        /\ \A m \in Sessions \ {n} : FilesOf(e, m) = FilesOf(d, m) /\ id \notin FilesOf(d, m)
    <3>1. \A i \in Ids : e.files[i].name = IF i = id THEN None ELSE d.files[i].name
      BY <2>3
    <3>2. id \notin Live(e)
      BY <2>5, <3>1 DEF Live
    <3>3. FilesOf(e, n) = {}
      BY <1>0, <2>4, <3>1, Numbers DEF FilesOf
    <3>4. ASSUME NEW m \in Sessions \ {n}
          PROVE  FilesOf(e, m) = FilesOf(d, m) /\ id \notin FilesOf(d, m)
      BY <2>5, <3>1, Numbers DEF FilesOf
    <3> QED
      BY <3>2, <3>3, <3>4
  <2>7. One(e) /\ MapFits(g, e)
    BY <1>1, <2>6, OthersFit
  <2>8. Unanswered(g, e) /\ AnswerFits(g, Empty, e)
    BY <1>1, <2>6 DEF Unanswered, AnswerFits
  <2>9. /\ \A m \in Sessions \ {n} : Remote(e, m) = Remote(d, m)
        /\ Remote(e, n) = {}
    <3>1. Remote(e, n) = {}
      BY <2>6 DEF Remote
    <3>2. ASSUME NEW m \in Sessions \ {n} PROVE Remote(e, m) = Remote(d, m)
      <4>1. \A i \in FilesOf(d, m) : e.files[i].body = d.files[i].body
        BY <2>3, <2>6 DEF FilesOf
      <4> QED
        BY <2>6, <4>1 DEF Remote
    <3> QED
      BY <3>1, <3>2
  <2>10. Served(g, d, <<e, Empty>>)
    BY <2>7, <2>8 DEF Served
  <2> QED
    BY <1>1, <2>2, <2>9, <2>10
<1>2. CASE g.state = "UPLOAD_SESSION" /\ q.op = "update"
  <2> DEFINE e == [d EXCEPT !.files[id].body = q.body]
             r == [kind |-> "id", id |-> id]
  <2>1. q.id = id /\ id # None
    BY <1>2 DEF Asked
  <2>2. id \in Live(d) /\ Serve(d, q) = <<e, r>>
    BY <1>2, <2>1 DEF Serve
  <2>3. \A i \in Ids : e.files[i] = IF i = id THEN [d.files[i] EXCEPT !.body = q.body]
                                               ELSE d.files[i]
    BY <2>2 DEF IsDrive, DriveSet
  <2>4. \A i \in Ids : /\ e.files[i].name = d.files[i].name
                       /\ e.files[i].body = IF i = id THEN q.body ELSE d.files[i].body
    BY <2>3 DEF IsDrive, DriveSet
  <2>5. r.kind = "id" /\ r.id = id
    OBVIOUS
  <2> HIDE DEF e, r
  <2>6. \A m : FilesOf(e, m) = FilesOf(d, m)
    BY <2>4 DEF FilesOf
  <2>7. Knows(g.mExistSessionsId, d, n)
    BY <1>2 DEF Unanswered
  <2>8. FilesOf(d, n) = {id} /\ id \in Ids
    BY <2>1, <2>2, <2>7 DEF Knows, IdOf, Live
  <2>9. One(e) /\ MapFits(g, e)
    BY <1>2, <2>6, <2>8, OthersFit
  <2>10. Unanswered(g, e)
    BY <1>2, <2>6, <2>7 DEF Unanswered, Knows
  <2>11. e.files[id].body = q.body
    BY <2>4, <2>8
  <2>12. AnswerFits(g, r, e)
    <3>1. r # Empty
      BY <2>5 DEF Empty
    <3> QED
      BY <1>2, <2>5, <2>6, <2>8, <2>11 DEF AnswerFits
  <2>13. /\ \A m \in Sessions \ {n} : Remote(e, m) = Remote(d, m)
         /\ Remote(e, n) = {q.body}
    <3>1. Remote(e, n) = {q.body}
      BY <2>6, <2>8, <2>11 DEF Remote
    <3>2. ASSUME NEW m \in Sessions \ {n} PROVE Remote(e, m) = Remote(d, m)
      <4>1. id \notin FilesOf(d, m)
        BY <2>8 DEF FilesOf
      <4>2. \A i \in FilesOf(d, m) : e.files[i].body = d.files[i].body
        BY <2>4, <4>1 DEF FilesOf
      <4> QED
        BY <2>6, <4>2 DEF Remote
    <3> QED
      BY <3>1, <3>2
  <2>14. Served(g, d, <<e, r>>)
    BY <2>9, <2>10, <2>12 DEF Served
  <2> QED
    BY <1>2, <2>2, <2>13, <2>14
<1>3. CASE g.state = "UPLOAD_SESSION" /\ q.op = "create"
  <2> DEFINE i == Min(Fresh(d))
             x == [name |-> q.name, body |-> q.body]
             e == [d EXCEPT !.files[i] = x]
             r == [kind |-> "id", id |-> i]
  <2>1. q.name = n /\ id = None
    BY <1>3 DEF Asked
  <2>2. Fresh(d) # {} /\ Serve(d, q) = <<e, r>>
    BY <1>3 DEF Serve
  <2>3. i \in Fresh(d)
    <3>1. Fresh(d) \in SUBSET Nat
      BY Numbers DEF Fresh
    <3> QED
      BY <2>2, <3>1, FirstOfList
  <2>4. i \in Ids /\ d.files[i].name = None
    BY <2>3 DEF Fresh, NoFile
  <2> HIDE DEF i
  <2>5. \A j \in Ids : /\ e.files[j].name = IF j = i THEN n ELSE d.files[j].name
                       /\ e.files[j].body = IF j = i THEN q.body ELSE d.files[j].body
    BY <2>1, <2>4 DEF IsDrive, DriveSet
  <2>6. r.kind = "id" /\ r.id = i
    OBVIOUS
  <2> HIDE DEF e, r
  <2>7. Knows(g.mExistSessionsId, d, n)
    BY <1>3 DEF Unanswered
  <2>8. FilesOf(d, n) = {}
    BY <2>1, <2>7 DEF Knows, IdOf
  <2>9. /\ FilesOf(e, n) = {i}
        /\ \A m \in Sessions \ {n} : FilesOf(e, m) = FilesOf(d, m) /\ i \notin FilesOf(d, m)
    <3>1. FilesOf(e, n) = {i}
      BY <2>4, <2>5, <2>8 DEF FilesOf
    <3>2. ASSUME NEW m \in Sessions \ {n}
          PROVE  FilesOf(e, m) = FilesOf(d, m) /\ i \notin FilesOf(d, m)
      BY <2>4, <2>5, Numbers DEF FilesOf
    <3> QED
      BY <3>1, <3>2
  <2>10. One(e) /\ MapFits(g, e)
    BY <1>3, <2>9, OthersFit
  <2>11. e.files[i].body = q.body
    BY <2>4, <2>5
  <2>12. AnswerFits(g, r, e)
    <3>1. r # Empty
      BY <2>6 DEF Empty
    <3> QED
      BY <1>3, <2>6, <2>9, <2>11 DEF AnswerFits
  <2>13. /\ \A m \in Sessions \ {n} : Remote(e, m) = Remote(d, m)
         /\ Remote(e, n) = {q.body}
    <3>1. Remote(e, n) = {q.body}
      BY <2>9, <2>11 DEF Remote
    <3>2. ASSUME NEW m \in Sessions \ {n} PROVE Remote(e, m) = Remote(d, m)
      <4>1. \A j \in FilesOf(d, m) : e.files[j].body = d.files[j].body
        BY <2>5, <2>9 DEF FilesOf
      <4> QED
        BY <2>9, <4>1 DEF Remote
    <3> QED
      BY <3>1, <3>2
  <2>14. Served(g, d, <<e, r>>)
    BY <1>3, <2>10, <2>12 DEF Served
  <2> QED
    BY <1>3, <2>2, <2>13, <2>14
<1> QED
  BY <1>1, <1>2, <1>3 DEF Asked, Ops

\* What the drive holds for each session afterwards: what it held, or for the
\* session worked on what was asked.
Touches(g, d, e) ==
  \/ \A n \in Sessions : Remote(e, n) = Remote(d, n)
  \/ /\ g.state \in {"DELETE_SESSIONS", "UPLOAD_SESSION"}
     /\ \A n \in Sessions \ {First(g)} : Remote(e, n) = Remote(d, n)
     /\ g.state = "DELETE_SESSIONS" => Remote(e, First(g)) = {}
     /\ g.state = "UPLOAD_SESSION" => Remote(e, First(g)) = {g.http.body}

\* A refusal says nothing of the drive and changes nothing there.
LEMMA RefusalServed ==
  ASSUME NEW d, One(d), NEW g, MapFits(g, d), Unanswered(g, d), NEW r,
         r.kind \notin {"page", "noFolder", "folder", "session", "id", "empty"}
  PROVE  Served(g, d, <<d, r>>) /\ Touches(g, d, d)
<1>1. AnswerFits(g, r, d)
  BY RefusalFits
<1> QED
  BY <1>1 DEF Served, Touches

\* The requests that leave the files as they are.
LEMMA LooksServed ==
  ASSUME NEW d, IsDrive(d), One(d), NEW g \in MemberSet(d.folder),
         g.state \in Asking \ {"DELETE_SESSIONS", "UPLOAD_SESSION"},
         Asked(g), MapFits(g, d), Unanswered(g, d)
  PROVE  Served(g, d, Serve(d, g.http)) /\ Touches(g, d, Serve(d, g.http)[1])
<1> DEFINE q == g.http
<1>0. Answer("error").kind = "error"
  BY DEF Answer
<1>1. CASE q.op = "folder"
  <2>1. g.state = "GET_SESSION_FOLDER"
    BY <1>1 DEF Asked, Ops, Asking, States
  <2>2. \A k : Answer(k).kind = k
    BY DEF Answer
  <2>3. ~d.folder => Live(d) = {}
    BY DEF IsDrive
  <2>4. PICK r : Serve(d, q) = <<d, r>> /\ (r.kind = "folder" \/ (r.kind = "noFolder" /\ ~d.folder))
    BY <1>1, <2>2 DEF Serve
  <2>5. AnswerFits(g, r, d)
    BY <2>1, <2>3, <2>4 DEF AnswerFits, Empty
  <2> QED
    BY <2>4, <2>5 DEF Served, Touches
<1>2. CASE q.op = "mkfolder"
  <2> DEFINE e == [d EXCEPT !.folder = TRUE]
             r == [kind |-> "id", id |-> FolderId]
  <2>1. g.state = "CREATE_SESSION_FOLDER"
    BY <1>2 DEF Asked, Ops, Asking, States
  <2>2. Serve(d, q) = <<e, r>>
    BY <1>2 DEF Serve
  <2>3. SameFiles(e, d)
    BY DEF SameFiles, IsDrive, DriveSet
  <2>4. AnswerFits(g, r, e)
    BY <2>1 DEF AnswerFits
  <2> HIDE DEF e, r
  <2>5. One(e) /\ MapFits(g, e) /\ Unanswered(g, e)
    BY <2>3, SameFilesFit
  <2>6. \A n \in Sessions : Remote(e, n) = Remote(d, n)
    BY <2>3 DEF SameFiles, Remote, FilesOf
  <2>7. Served(g, d, <<e, r>>) /\ Touches(g, d, e)
    BY <2>4, <2>5, <2>6 DEF Served, Touches
  <2> QED
    BY <2>2, <2>7
<1>3. CASE q.op = "list"
  <2>1. g.state = "GET_EXIST_SESSIONS_ID" /\ q.seen \in SUBSET Ids
    <3>1. q \in Requests(d.folder)
      BY DEF MemberSet
    <3> QED
      BY <1>3, <3>1 DEF Asked, Ops, Asking, States, Requests
  <2>2. Page(d, q.seen).kind = "page"
    BY <2>1, PageTypes
  <2>3. PICK r : Serve(d, q) = <<d, r>> /\ r \in {Page(d, q.seen), Answer("error")}
    BY <1>3 DEF Serve
  <2>4. AnswerFits(g, r, d)
    BY <1>0, <2>1, <2>2, <2>3 DEF AnswerFits
  <2> QED
    BY <2>3, <2>4 DEF Served, Touches
<1>4. CASE q.op = "get" /\ q.id \in Live(d)
  <2> DEFINE r == [kind |-> "session", body |-> d.files[q.id].body]
  <2>1. g.state = "DOWNLOAD_SESSION" /\ q.id = IdOf(g)
    BY <1>4 DEF Asked, Ops, Asking, States
  <2>2. Serve(d, q) = <<d, r>>
    BY <1>4 DEF Serve
  <2>3. AnswerFits(g, r, d)
    BY <1>4, <2>1 DEF AnswerFits
  <2> HIDE DEF r
  <2> QED
    BY <2>2, <2>3 DEF Served, Touches
<1>5. CASE q.op = "get" /\ q.id \notin Live(d)
  <2>1. Serve(d, q) = <<d, Answer("error")>>
    BY <1>5 DEF Serve
  <2> QED
    BY <1>0, <2>1, RefusalServed
<1>6. CASE q.op \in {"refresh", "code"}
  <2>1. Serve(d, q) = <<d, Answer("error")>>
    BY <1>6 DEF Serve
  <2> QED
    BY <1>0, <2>1, RefusalServed
<1>7. q.op \in {"folder", "mkfolder", "list", "get", "refresh", "code"}
  BY DEF Asked, Ops, Asking, States
<1> QED
  BY <1>1, <1>2, <1>3, <1>4, <1>5, <1>6, <1>7

\* Whatever becomes of the request of the state.
LEMMA OutcomesServed ==
  ASSUME NEW d, IsDrive(d), One(d), NEW g \in MemberSet(d.folder), WorkLists(g),
         g.state \in Asking, Asked(g), MapFits(g, d), Unanswered(g, d),
         NEW o \in Outcomes(d, MethodOf(g.http.op), g.http)
  PROVE  Served(g, d, o) /\ Touches(g, d, o[1])
<1> DEFINE q == g.http
<1>0. \A k : Answer(k).kind = k
  BY DEF Answer
<1>1. CASE q.op \in {"refresh", "code"}
  <2>1. PICK r : /\ o = <<d, r>>
                 /\ r \in TokenAnswers(q) \cup {Answer("garbage")}
    BY <1>1 DEF Outcomes
  <2>2. r.kind \in {"token", "noToken", "garbage"}
    BY <1>0, <2>1 DEF TokenAnswers
  <2> QED
    BY <2>1, <2>2, RefusalServed
<1>2. CASE q.op \notin {"refresh", "code"}
  <2>1. q.op = "get" => MethodOf(q.op) = "GET"
    BY DEF MethodOf
  <2>2. o = <<d, Answer("error")>> \/ o = Serve(d, q)
    BY <1>2, <2>1 DEF Outcomes
  <2>3. CASE o = <<d, Answer("error")>>
    BY <1>0, <2>3, RefusalServed
  <2>4. CASE o = Serve(d, q) /\ g.state \in {"DELETE_SESSIONS", "UPLOAD_SESSION"}
             /\ Serve(d, q) # <<d, Answer("error")>>
    BY <2>4, ChangesServed DEF Touches
  <2>5. CASE o = Serve(d, q) /\ g.state \notin {"DELETE_SESSIONS", "UPLOAD_SESSION"}
    BY <2>5, LooksServed
  <2> QED
    BY <2>2, <2>3, <2>4, <2>5
<1> QED
  BY <1>1, <1>2

\* An odd answer claims nothing of the drive.
LEMMA OddFits ==
  ASSUME NEW g, NEW q, NEW d, NEW r \in OddAnswers(q)
  PROVE  AnswerFits(g, r, d)
<1>1. r.kind \in {"garbage", "short", "badToken", "error"}
  BY DEF OddAnswers, Answer
<1> QED
  BY <1>1, RefusalFits

-----------------------------------------------------------------------------
(* The plan: what has been applied, what is to come, and what is under way. *)

Within(d, P, n) ==
  Remote(d, n) \in {P.was[n], P.goal[n]} \cup (IF n \in P.deleted THEN {{}} ELSE {})

\* The session is here what it should be, or the last download that is saved under
\* its name will make it so.
Fetched(g, d, P, n) ==
  IF SavedAs(g, n) # {} THEN Remote(d, Max(SavedAs(g, n))) \in {{}, {P.local[n]}}
  ELSE g.local[n] = P.local[n]

\* A session nobody works on: its changes are all to come, or all but the upload,
\* or none is.
ToCome(g, d, P, n) ==
  LET from == g.mUploadList[n] IN
  /\ from # None => P.goal[n] = {P.local[from]}
  /\ from = None /\ n \in g.mDeleteList => P.goal[n] = {}
  /\ n \in g.mDeleteList => Remote(d, n) = P.was[n] /\ n \in P.deleted
  /\ from # None /\ n \notin g.mDeleteList =>
       Remote(d, n) = P.was[n] \/ (n \in P.deleted /\ Remote(d, n) = {})
  /\ from = None /\ n \notin g.mDeleteList => Remote(d, n) = P.goal[n]

\* The session that is deleted or uploaded: its request may have been served.
UnderWay(g, d, P, n) ==
  LET from == g.mUploadList[n] IN
  /\ from # None => P.goal[n] = {P.local[from]}
  /\ g.state = "DELETE_SESSIONS" => /\ Remote(d, n) \in {P.was[n], {}} /\ n \in P.deleted
                                    /\ from = None => P.goal[n] = {}
  /\ g.state = "UPLOAD_SESSION" => \/ Remote(d, n) \in {P.was[n], P.goal[n]}
                                   \/ n \in P.deleted /\ Remote(d, n) = {}

Pending(g, d, P) == \A n \in Sessions : Fetched(g, d, P, n) /\ ToCome(g, d, P, n)

Carried(g, d, P) ==
  /\ g.state = "IDLE_STATE" => \A n \in Sessions : Within(d, P, n)
  /\ g.state = "CHECK_ACTION" =>
       \A n \in Sessions : Remote(d, n) = P.goal[n] /\ g.local[n] = P.local[n]
  /\ g.state \in {"DELETE_SESSIONS", "UPLOAD_SESSION"} =>
       /\ \A n \in Sessions : g.local[n] = P.local[n]
       /\ \A n \in Sessions \ {First(g)} : ToCome(g, d, P, n)
       /\ UnderWay(g, d, P, First(g))
  /\ g.state \notin {"IDLE_STATE", "CHECK_ACTION", "DELETE_SESSIONS", "UPLOAD_SESSION"} =>
       Pending(g, d, P)

\* The session that is worked on is an entry of the list of the state.
LEMMA FirstIsListed ==
  ASSUME NEW f, NEW g, Typed(g, f)
  PROVE  /\ g.state = "DOWNLOAD_SESSION" => First(g) \in g.mDownloadList
         /\ g.state = "DELETE_SESSIONS" => First(g) \in g.mDeleteList
         /\ g.state = "UPLOAD_SESSION" => g.mUploadList[First(g)] \in Sessions
         /\ g.state \in {"DOWNLOAD_SESSION", "DELETE_SESSIONS", "UPLOAD_SESSION"}
              => First(g) \in Sessions
<1>1. g \in MemberSet(f) /\ WorkLists(g)
  BY DEF Typed
<1>2. ASSUME g.state = "DOWNLOAD_SESSION" PROVE First(g) \in g.mDownloadList
  <2>1. First(g) = Min(g.mDownloadList) /\ g.mDownloadList # {}
    BY <1>1, <1>2 DEF First, WorkLists
  <2> QED
    BY <1>1, <2>1, FirstOfList, Numbers DEF MemberSet
<1>3. ASSUME g.state = "DELETE_SESSIONS" PROVE First(g) \in g.mDeleteList
  <2>1. First(g) = Min(g.mDeleteList) /\ g.mDeleteList # {}
    BY <1>1, <1>3 DEF First, WorkLists
  <2> QED
    BY <1>1, <2>1, FirstOfList, Numbers DEF MemberSet
<1>4. ASSUME g.state = "UPLOAD_SESSION"
      PROVE  First(g) \in Sessions /\ g.mUploadList[First(g)] \in Sessions
  <2>1. First(g) = Min(Listed(g.mUploadList)) /\ Listed(g.mUploadList) # {}
    BY <1>1, <1>4 DEF First, WorkLists
  <2> QED
    BY <1>1, <2>1, ListedAre DEF MemberSet
<1>5. g.mDownloadList \subseteq Sessions /\ g.mDeleteList \subseteq Sessions
  BY <1>1 DEF MemberSet
<1> QED
  BY <1>2, <1>3, <1>4, <1>5

\* What is saved under a name is a set of sessions, and has a last one.
LEMMA SavedAsIs ==
  ASSUME NEW f, NEW g \in MemberSet(f), NEW n
  PROVE  /\ SavedAs(g, n) \in SUBSET Sessions
         /\ SavedAs(g, n) # {} => Max(SavedAs(g, n)) \in Sessions
<1>1. SavedAs(g, n) \in SUBSET Sessions
  BY DEF SavedAs, MemberSet
<1>2. SavedAs(g, n) \in SUBSET Ids
  BY <1>1, BoundsAssumption DEF Sessions, Ids
<1> QED
  BY <1>1, <1>2, LastOfFiles

\* Whatever is under way, every session is as it was or as asked.
LEMMA CarriedIsWithin ==
  ASSUME NEW g, NEW d, NEW P, Carried(g, d, P)
  PROVE  \A n \in Sessions : Within(d, P, n)
<1>1. ASSUME NEW n \in Sessions, ToCome(g, d, P, n) PROVE Within(d, P, n)
  BY <1>1 DEF ToCome, Within
<1>2. ASSUME NEW n \in Sessions, g.state \in {"DELETE_SESSIONS", "UPLOAD_SESSION"},
             UnderWay(g, d, P, n)
      PROVE  Within(d, P, n)
  BY <1>2 DEF UnderWay, Within
<1>3. ASSUME NEW n \in Sessions PROVE Within(d, P, n)
  <2>1. CASE g.state = "IDLE_STATE"
    BY <2>1 DEF Carried
  <2>2. CASE g.state = "CHECK_ACTION"
    BY <2>2 DEF Carried, Within
  <2>3. CASE g.state \in {"DELETE_SESSIONS", "UPLOAD_SESSION"}
    BY <1>1, <1>2, <2>3 DEF Carried
  <2>4. CASE g.state \notin {"IDLE_STATE", "CHECK_ACTION", "DELETE_SESSIONS", "UPLOAD_SESSION"}
    BY <1>1, <2>4 DEF Carried, Pending
  <2> QED
    BY <2>1, <2>2, <2>3, <2>4
<1> QED
  BY <1>3

\* A handler that starts with every change to come, done, or half done carries on.
LEMMA PendingGoesOn ==
  ASSUME NEW g, NEW d, NEW P, Pending(g, d, P), NEW f, NEW h, Typed(h, f), Goes(h, g, d)
  PROVE  Carried(h, d, P)
<1>1. h.state # "IDLE_STATE" => Pending(h, d, P)
  BY DEF Goes, SameLists, Pending, Fetched, SavedAs, ToCome
<1>2. CASE h.state = "IDLE_STATE"
  <2>1. \A n \in Sessions : Within(d, P, n)
    BY DEF Pending, ToCome, Within
  <2> QED
    BY <1>2, <2>1 DEF Carried
<1>3. CASE h.state = "CHECK_ACTION"
  <2>1. NoLists(h)
    BY <1>3 DEF Goes
  <2>2. \A n \in Sessions : SavedAs(h, n) = {} /\ n \notin h.mDeleteList
                            /\ h.mUploadList[n] = None
    BY <2>1 DEF NoLists, Listed, SavedAs
  <2>3. \A n \in Sessions : Remote(d, n) = P.goal[n] /\ h.local[n] = P.local[n]
    BY <1>1, <1>3, <2>2 DEF Pending, Fetched, ToCome
  <2> QED
    BY <1>3, <2>3 DEF Carried
<1>4. CASE h.state \in {"DELETE_SESSIONS", "UPLOAD_SESSION"}
  <2>1. Pending(h, d, P) /\ Turns(h)
    BY <1>1, <1>4 DEF Goes
  <2>2. \A n \in Sessions : h.local[n] = P.local[n]
    BY <1>4, <2>1 DEF Turns, Pending, Fetched, SavedAs
  <2>3. First(h) \in Sessions
    BY <1>4, FirstIsListed
  <2>4. ToCome(h, d, P, First(h))
    BY <2>1, <2>3 DEF Pending
  <2>5. CASE h.state = "DELETE_SESSIONS"
    <3>1. First(h) \in h.mDeleteList
      BY <2>5, FirstIsListed
    <3>2. UnderWay(h, d, P, First(h))
      BY <2>4, <2>5, <3>1 DEF ToCome, UnderWay
    <3> QED
      BY <2>1, <2>2, <2>5, <3>2 DEF Carried, Pending
  <2>6. CASE h.state = "UPLOAD_SESSION"
    <3>1. h.mUploadList[First(h)] # None /\ First(h) \notin h.mDeleteList
      BY <2>1, <2>6, FirstIsListed, Numbers DEF Turns
    <3>2. UnderWay(h, d, P, First(h))
      BY <2>4, <2>6, <3>1 DEF ToCome, UnderWay
    <3> QED
      BY <2>1, <2>2, <2>6, <3>2 DEF Carried, Pending
  <2> QED
    BY <1>4, <2>5, <2>6
<1>5. CASE h.state \notin {"IDLE_STATE", "CHECK_ACTION", "DELETE_SESSIONS", "UPLOAD_SESSION"}
  BY <1>1, <1>5 DEF Carried
<1> QED
  BY <1>2, <1>3, <1>4, <1>5

\* An answer is what was asked for: striking off its session leaves the rest to come.
LEMMA StrikingLeavesRest ==
  ASSUME NEW f, NEW g, Typed(g, f), NEW d, NEW P, Carried(g, d, P), Asked(g), Turns(g),
         MapFits(g, d), AnswerFits(g, g.mHttpRsp, d)
  PROVE  /\ g.state = "DOWNLOAD_SESSION" /\ g.mHttpRsp.kind = "session"
              => Pending(Saved(g), d, P)
         /\ g.state = "DELETE_SESSIONS" /\ g.mHttpRsp = Empty => Pending(Struck(g), d, P)
         /\ g.state = "UPLOAD_SESSION" /\ g.mHttpRsp.kind = "id" => Pending(Put(g), d, P)
<1>0. g \in MemberSet(f)
  BY DEF Typed
<1>1. ASSUME g.state = "DOWNLOAD_SESSION", g.mHttpRsp.kind = "session"
      PROVE  Pending(Saved(g), d, P)
  <2> DEFINE x == Saved(g)
             n == First(g)
             to == g.saveAs[n]
             body == g.mHttpRsp.body
  <2>1. n \in Sessions /\ n \in g.mDownloadList /\ n = Min(g.mDownloadList)
    BY <1>1, FirstIsListed DEF First
  <2>2. /\ x.mDownloadList = g.mDownloadList \ {n} /\ x.mDeleteList = g.mDeleteList
        /\ x.mUploadList = g.mUploadList
        /\ x.saveAs = [g.saveAs EXCEPT ![n] = n]
        /\ x.local = [g.local EXCEPT ![to] = body]
    BY <1>0, <1>1, <2>1 DEF Saved, MemberSet
  <2>3. Pending(g, d, P) /\ to \in Sessions
    BY <1>0, <1>1, <2>1 DEF Carried, MemberSet
  <2>4. Remote(d, n) = {body}
    <3>1. /\ IdOf(g) \in Live(d) /\ g.mHttpRsp.body = d.files[IdOf(g)].body
      BY <1>1 DEF AnswerFits
    <3>2. IdOf(g) # None
      BY <1>1 DEF Asked, Ops
    <3>3. FilesOf(d, n) = {IdOf(g)}
      BY <1>1, <2>1, <3>2 DEF MapFits, Exact, Knows, IdOf
    <3> QED
      BY <3>1, <3>3 DEF Remote
  <2> HIDE DEF x, n, to, body
  <2>5. \A m \in Sessions : SavedAs(x, m) = SavedAs(g, m) \ {n}
    <3>1. \A k \in g.mDownloadList \ {n} : x.saveAs[k] = g.saveAs[k]
      BY <1>0, <2>2 DEF MemberSet
    <3> QED
      BY <2>2, <3>1 DEF SavedAs
  <2>6. n \in SavedAs(g, to) /\ \A m \in Sessions : m # to => n \notin SavedAs(g, m)
    BY <2>1 DEF SavedAs, to
  <2>7. ASSUME NEW m \in Sessions, m # to PROVE Fetched(x, d, P, m)
    <3>1. Fetched(g, d, P, m) /\ SavedAs(x, m) = SavedAs(g, m)
      BY <2>3, <2>5, <2>6, <2>7 DEF Pending
    <3>2. x.local[m] = g.local[m]
      BY <1>0, <2>2, <2>7 DEF MemberSet
    <3> QED
      BY <3>1, <3>2 DEF Fetched
  <2>8. Fetched(x, d, P, to)
    <3> DEFINE S == SavedAs(g, to)
    <3>1. Remote(d, Max(S)) \in {{}, {P.local[to]}}
      BY <2>3, <2>6 DEF Pending, Fetched
    <3>2. S \in SUBSET Sessions /\ n \in S /\ SavedAs(x, to) = S \ {n}
      BY <1>0, <2>3, <2>5, <2>6, SavedAsIs
    <3>3. \A k \in S : n <= k
      <4>1. g.mDownloadList \in SUBSET Nat /\ g.mDownloadList # {}
        BY <1>0, <2>1, Numbers DEF MemberSet
      <4> QED
        BY <2>1, <4>1, FirstOfList DEF SavedAs
    <3> HIDE DEF S
    <3>4. CASE S = {n}
      <4>1. Max(S) = n
        <5>1. S \in SUBSET Ids /\ S # {}
          BY <3>2, BoundsAssumption DEF Sessions, Ids
        <5> QED
          BY <3>4, <5>1, LastOfFiles
      <4>2. P.local[to] = body
        BY <2>4, <3>1, <4>1
      <4>3. x.local[to] = body
        BY <1>0, <2>2, <2>3 DEF MemberSet
      <4> QED
        BY <3>2, <3>4, <4>2, <4>3 DEF Fetched
    <3>5. CASE S # {n}
      <4>1. Max(S) = Max(S \ {n}) /\ S \ {n} # {}
        BY <3>2, <3>3, <3>5, LastWithoutFirst
      <4> QED
        BY <3>1, <3>2, <4>1 DEF Fetched
    <3> QED
      BY <3>4, <3>5
  <2>9. \A m \in Sessions : ToCome(x, d, P, m)
    BY <2>2, <2>3 DEF Pending, ToCome
  <2> QED
    BY <2>3, <2>7, <2>8, <2>9 DEF Pending, x
<1>2. ASSUME g.state = "DELETE_SESSIONS", g.mHttpRsp = Empty
      PROVE  Pending(Struck(g), d, P)
  <2> DEFINE x == Struck(g)
             n == First(g)
  <2>1. n \in Sessions /\ n = Min(g.mDeleteList)
    BY <1>2, FirstIsListed DEF First
  <2>2. /\ x.mDownloadList = g.mDownloadList /\ x.mDeleteList = g.mDeleteList \ {n}
        /\ x.mUploadList = g.mUploadList /\ x.local = g.local
    BY <1>0, <2>1 DEF Struck, MemberSet
  <2>3. /\ \A m \in Sessions : g.local[m] = P.local[m]
        /\ \A m \in Sessions \ {n} : ToCome(g, d, P, m)
        /\ UnderWay(g, d, P, n)
    BY <1>2 DEF Carried
  <2>4. FilesOf(d, n) = {} /\ g.mDownloadList = {}
    BY <1>2 DEF AnswerFits, Turns
  <2>5. Remote(d, n) = {}
    BY <2>4 DEF Remote
  <2> HIDE DEF x, n
  <2>6. ToCome(x, d, P, n)
    BY <1>2, <2>2, <2>3, <2>5 DEF ToCome, UnderWay
  <2>7. \A m \in Sessions \ {n} : ToCome(x, d, P, m)
    BY <2>2, <2>3 DEF ToCome
  <2>8. \A m \in Sessions : Fetched(x, d, P, m)
    BY <2>2, <2>3, <2>4 DEF Fetched, SavedAs
  <2> QED
    BY <2>6, <2>7, <2>8 DEF Pending, x
<1>3. ASSUME g.state = "UPLOAD_SESSION", g.mHttpRsp.kind = "id"
      PROVE  Pending(Put(g), d, P)
  <2> DEFINE x == Put(g)
             n == First(g)
             from == g.mUploadList[n]
  <2>1. n \in Sessions /\ n = Min(Listed(g.mUploadList)) /\ from \in Sessions
    BY <1>3, FirstIsListed DEF First
  <2>2. /\ x.mDownloadList = g.mDownloadList /\ x.mDeleteList = g.mDeleteList
        /\ x.mUploadList = [g.mUploadList EXCEPT ![n] = None] /\ x.local = g.local
    BY <1>0, <2>1 DEF Put, MemberSet
  <2>3. /\ \A m \in Sessions : g.local[m] = P.local[m]
        /\ \A m \in Sessions \ {n} : ToCome(g, d, P, m)
        /\ UnderWay(g, d, P, n)
    BY <1>3 DEF Carried
  <2>4. /\ FilesOf(d, n) = {g.mHttpRsp.id} /\ d.files[g.mHttpRsp.id].body = g.http.body
        /\ g.mDownloadList = {} /\ g.mDeleteList = {}
    BY <1>3 DEF AnswerFits, Turns
  <2>5. Remote(d, n) = {g.http.body}
    BY <2>4 DEF Remote
  <2>6. g.http.body = g.local[from]
    BY <1>3 DEF Asked, Ops
  <2>7. Remote(d, n) = P.goal[n]
    BY <2>1, <2>3, <2>5, <2>6, Numbers DEF UnderWay
  <2> HIDE DEF x, n, from
  <2>8. x.mUploadList[n] = None /\ \A m \in Sessions \ {n} : x.mUploadList[m] = g.mUploadList[m]
    BY <1>0, <2>1, <2>2 DEF MemberSet
  <2>9. ToCome(x, d, P, n)
    BY <2>2, <2>4, <2>7, <2>8 DEF ToCome
  <2>10. \A m \in Sessions \ {n} : ToCome(x, d, P, m)
    BY <2>2, <2>3, <2>8 DEF ToCome
  <2>11. \A m \in Sessions : Fetched(x, d, P, m)
    BY <2>2, <2>3, <2>4 DEF Fetched, SavedAs
  <2> QED
    BY <2>9, <2>10, <2>11 DEF Pending, x
<1> QED
  BY <1>1, <1>2, <1>3

\* A handler that takes the answer it asked for carries the plan on.
LEMMA HandledGoesOn ==
  ASSUME NEW f, NEW g, Typed(g, f), NEW d, NEW P, Carried(g, d, P), Asked(g), Turns(g),
         g.state \in Asking, MapFits(g, d), NEW h, Typed(h, f), Handled(h, g, d),
         \/ h.state = "IDLE_STATE"
         \/ /\ AnswerFits(g, g.mHttpRsp, d)
            /\ g.state = "DOWNLOAD_SESSION" => g.mHttpRsp.kind = "session"
  PROVE  Carried(h, d, P)
<1>1. CASE h.state = "IDLE_STATE"
  BY <1>1, CarriedIsWithin DEF Carried
<1>2. CASE h.state # "IDLE_STATE"
  <2>1. CASE g.state \notin {"DOWNLOAD_SESSION", "DELETE_SESSIONS", "UPLOAD_SESSION"}
    <3>1. Pending(g, d, P)
      BY <2>1 DEF Carried, Asking
    <3>2. Goes(h, g, d)
      BY <2>1 DEF Handled
    <3> QED
      BY <3>1, <3>2, PendingGoesOn
  <2>2. CASE g.state = "DOWNLOAD_SESSION"
    <3>1. Goes(h, Saved(g), d) /\ Pending(Saved(g), d, P)
      BY <1>2, <2>2, StrikingLeavesRest DEF Handled
    <3> QED
      BY <3>1, PendingGoesOn
  <2>3. CASE g.state = "DELETE_SESSIONS"
    <3>1. Goes(h, Struck(g), d) /\ Pending(Struck(g), d, P)
      BY <1>2, <2>3, StrikingLeavesRest DEF Handled
    <3> QED
      BY <3>1, PendingGoesOn
  <2>4. CASE g.state = "UPLOAD_SESSION"
    <3>1. Goes(h, Put(g), d) /\ Pending(Put(g), d, P)
      BY <1>2, <2>4, StrikingLeavesRest DEF Handled
    <3> QED
      BY <3>1, PendingGoesOn
  <2> QED
    BY <2>1, <2>2, <2>3, <2>4
<1> QED
  BY <1>1, <1>2

\* A request that is served, answered or not, is what the plan says.
LEMMA TouchedGoesOn ==
  ASSUME NEW f, NEW g, Typed(g, f), NEW d, NEW P, Carried(g, d, P), Asked(g),
         g.state \in Asking, NEW e, Touches(g, d, e)
  PROVE  Carried(g, e, P)
<1>1. CASE \A n \in Sessions : Remote(e, n) = Remote(d, n)
  <2>1. \A n \in Sessions : /\ Fetched(g, d, P, n) => Fetched(g, e, P, n)
                            /\ ToCome(g, d, P, n) => ToCome(g, e, P, n)
                            /\ UnderWay(g, d, P, n) => UnderWay(g, e, P, n)
    <3>1. \A n \in Sessions : SavedAs(g, n) # {} => Max(SavedAs(g, n)) \in Sessions
      BY SavedAsIs DEF Typed
    <3>2. \A n \in Sessions : Fetched(g, d, P, n) => Fetched(g, e, P, n)
      BY <1>1, <3>1 DEF Fetched
    <3> QED
      BY <1>1, <3>2 DEF ToCome, UnderWay
  <2>2. Pending(g, d, P) => Pending(g, e, P)
    BY <2>1 DEF Pending
  <2>3. g.state \in {"DELETE_SESSIONS", "UPLOAD_SESSION"} => First(g) \in Sessions
    BY FirstIsListed
  <2> QED
    BY <2>1, <2>2, <2>3 DEF Carried, Asking
<1>2. CASE /\ g.state \in {"DELETE_SESSIONS", "UPLOAD_SESSION"}
           /\ \A n \in Sessions \ {First(g)} : Remote(e, n) = Remote(d, n)
           /\ g.state = "DELETE_SESSIONS" => Remote(e, First(g)) = {}
           /\ g.state = "UPLOAD_SESSION" => Remote(e, First(g)) = {g.http.body}
  <2> DEFINE n == First(g)
             from == g.mUploadList[n]
  <2>1. n \in Sessions /\ (g.state = "UPLOAD_SESSION" => from \in Sessions)
    BY <1>2, FirstIsListed
  <2>2. /\ \A m \in Sessions : g.local[m] = P.local[m]
        /\ \A m \in Sessions \ {n} : ToCome(g, d, P, m)
        /\ UnderWay(g, d, P, n)
    BY <1>2 DEF Carried
  <2>3. \A m \in Sessions \ {n} : ToCome(g, e, P, m)
    BY <1>2, <2>2 DEF ToCome
  <2>4. CASE g.state = "DELETE_SESSIONS"
    <3>1. UnderWay(g, e, P, n)
      BY <1>2, <2>2, <2>4 DEF UnderWay
    <3> QED
      BY <2>2, <2>3, <2>4, <3>1 DEF Carried
  <2>5. CASE g.state = "UPLOAD_SESSION"
    <3>1. g.http.body = g.local[from]
      BY <2>5 DEF Asked, Ops
    <3>2. P.goal[n] = {P.local[from]}
      BY <2>1, <2>2, <2>5, Numbers DEF UnderWay
    <3>3. Remote(e, n) = P.goal[n]
      BY <1>2, <2>1, <2>2, <2>5, <3>1, <3>2
    <3>4. UnderWay(g, e, P, n)
      BY <2>2, <2>5, <3>3 DEF UnderWay
    <3> QED
      BY <2>2, <2>3, <2>5, <3>4 DEF Carried
  <2> QED
    BY <1>2, <2>4, <2>5
<1> QED
  BY <1>1, <1>2 DEF Touches

\* The plan goes by the lists, the ids and the state alone.
LEMMA AlikeGoesOn ==
  ASSUME NEW x, NEW g, Alike(x, g), NEW d, NEW P, Carried(g, d, P)
  PROVE  Carried(x, d, P)
<1>1. First(x) = First(g)
  BY DEF Alike, SameLists, First
<1>2. \A n : /\ Fetched(g, d, P, n) => Fetched(x, d, P, n)
             /\ ToCome(g, d, P, n) => ToCome(x, d, P, n)
             /\ UnderWay(g, d, P, n) => UnderWay(x, d, P, n)
  BY DEF Alike, SameLists, Fetched, SavedAs, ToCome, UnderWay
<1>3. x.state = g.state /\ x.local = g.local
  BY DEF Alike, SameLists
<1>4. Pending(g, d, P) => Pending(x, d, P)
  BY <1>2 DEF Pending
<1> QED
  BY <1>1, <1>2, <1>3, <1>4 DEF Carried

\* The plan made when the changes are applied has every change to come.
LEMMA PlanIsPending ==
  ASSUME NEW f, NEW g \in MemberSet(f), NEW d, Exact(g.mExistSessionsId, d)
  PROVE  Pending(g, d, PlanOf(g, d))
<1> DEFINE P == PlanOf(g, d)
           from(n) == SavedAs(g, n)
           got == [n \in Sessions |->
                     IF from(n) # {} /\ Remote(d, Max(from(n))) # {}
                     THEN CHOOSE b \in Remote(d, Max(from(n))) : TRUE ELSE g.local[n]]
           goal == [n \in Sessions |->
                      IF g.mUploadList[n] # None THEN {got[g.mUploadList[n]]}
                      ELSE IF n \in g.mDeleteList THEN {} ELSE Remote(d, n)]
<1>1. /\ P.deleted = g.mDeleteList /\ P.local = got /\ P.goal = goal
      /\ P.was = [n \in Sessions |-> Remote(d, n)]
  BY DEF PlanOf
<1> HIDE DEF P
<1>2. ASSUME NEW n \in Sessions PROVE ToCome(g, d, P, n)
  <2>1. goal[n] = IF g.mUploadList[n] # None THEN {got[g.mUploadList[n]]}
                  ELSE IF n \in g.mDeleteList THEN {} ELSE Remote(d, n)
    OBVIOUS
  <2>2. P.was[n] = Remote(d, n)
    BY <1>1
  <2> HIDE DEF goal, got
  <2> QED
    BY <1>1, <2>1, <2>2 DEF ToCome
<1>3. ASSUME NEW n \in Sessions PROVE Fetched(g, d, P, n)
  <2> DEFINE k == Max(from(n))
  <2>1. P.local[n] = IF from(n) # {} /\ Remote(d, k) # {}
                     THEN CHOOSE b \in Remote(d, k) : TRUE ELSE g.local[n]
    BY <1>1
  <2>2. ASSUME from(n) # {} PROVE Remote(d, k) # {} =>
                                    Remote(d, k) = {CHOOSE b \in Remote(d, k) : TRUE}
    <3>1. k \in Sessions
      BY <2>2, SavedAsIs
    <3> HIDE DEF k
    <3>2. \A i, j \in FilesOf(d, k) : i = j
      BY <3>1 DEF Exact, Knows
    <3>3. \A b, c \in Remote(d, k) : b = c
      BY <3>2 DEF Remote
    <3> QED
      BY <3>3
  <2> HIDE DEF got
  <2> QED
    BY <2>1, <2>2 DEF Fetched
<1> QED
  BY <1>2, <1>3 DEF Pending, P

-----------------------------------------------------------------------------
(* The map and the plan, step by step.                                     *)

\* Where the request of the state is: with the worker's queue, with the worker, or
\* answered.
Flow ==
  IF gd.state \in Asking
  THEN \/ /\ jobs = <<MethodOf(gd.http.op)>> /\ running = {} /\ answers = 0
          /\ Unanswered(gd, drive)
       \/ /\ jobs = <<>> /\ running # {} /\ answers = 0
          /\ Unanswered(gd, drive)
          /\ \A r \in running : r.method = MethodOf(gd.http.op) /\ r.request = gd.http
       \/ /\ jobs = <<>> /\ running = {} /\ answers = 1
          /\ gd.mHttpResult => AnswerFits(gd, gd.mHttpRsp, drive)
  ELSE jobs = <<>> /\ running = {} /\ answers = 0

Ordered ==
  /\ One(drive) /\ MapFits(gd, drive) /\ Turns(gd)
  /\ gd.state \in Asking => Asked(gd)
  /\ Flow

Planned == plan # NoPlan => Carried(gd, drive, plan)

OrderInv == TypeInv /\ (orderly => Ordered /\ Planned)

\* A handler ends that has the machine to itself.
LEMMA CommitOrders ==
  ASSUME NEW f, NEW h, Typed(h, f), NEW b, Commit(h, b), One(drive), UNCHANGED <<drive, running>>,
         jobs = <<>>, running = {}, answers' = 0, NEW g, Goes(h, g, drive)
  PROVE  /\ Ordered'
         /\ \A P : Carried(h, drive, P) => Carried(gd', drive', P)
<1>1. h \in MemberSet(f)
  BY DEF Typed
<1>2. gd' = [h EXCEPT !.posted = <<>>, !.undefined = FALSE] /\ jobs' = jobs \o h.posted
  BY DEF Commit
<1>3. Alike(gd', h)
  BY <1>1, <1>2 DEF Alike, SameLists, MemberSet
<1>4. /\ MapFits(h, drive) /\ Unanswered(h, drive) /\ Turns(h)
      /\ h.state \in Asking => h.posted = <<MethodOf(h.http.op)>> /\ Asked(h)
      /\ h.state \notin Asking => h.posted = <<>>
  BY DEF Goes
<1>5. /\ MapFits(gd', drive') /\ Unanswered(gd', drive') /\ Turns(gd')
      /\ gd'.state \in Asking => Asked(gd')
  BY <1>3, <1>4, AlikeFits DEF Alike
<1>6. jobs' = h.posted
  <2>1. h.posted \in Seq(Methods)
    BY <1>1 DEF MemberSet
  <2> QED
    BY <1>2, <2>1
<1>7. Flow'
  BY <1>3, <1>4, <1>5, <1>6 DEF Flow, Alike
<1>8. Ordered'
  BY <1>5, <1>7 DEF Ordered
<1>9. \A P : Carried(h, drive, P) => Carried(gd', drive', P)
  BY <1>3, AlikeGoesOn
<1> QED
  BY <1>8, <1>9

\* At the start no id is known and nothing is asked.
LEMMA InitOrders == Init => OrderInv
<1> SUFFICES ASSUME Init PROVE Ordered /\ Planned
  BY InitTypes DEF OrderInv
<1>1. gd.state = "IDLE_STATE" /\ plan = NoPlan /\ jobs = <<>> /\ running = {} /\ answers = 0
  BY DEF Init
<1>2. PICK there \in SUBSET Sessions, folder \in BOOLEAN :
        drive = [folder |-> folder,
                 files |-> [i \in Ids |-> IF i \in there
                                          THEN [name |-> i, body |-> Body("there", i)]
                                          ELSE NoFile]]
  BY DEF Init
<1>3. \A n \in Sessions : FilesOf(drive, n) \subseteq {n}
  <2>1. \A i \in Ids : drive.files[i].name \in {i, None}
    BY <1>2 DEF NoFile
  <2> QED
    BY <2>1, Numbers DEF FilesOf
<1>4. One(drive)
  BY <1>3 DEF One
<1> QED
  BY <1>1, <1>4 DEF Ordered, Planned, MapFits, Turns, Flow, Asking

\* The dialog is opened: nothing of a former visit is under way when the answers
\* are orderly, and the map starts empty.
LEMMA LoadOrders ==
  ASSUME OrderInv, LoadRemoteFile, orderly'
  PROVE  Ordered' /\ Planned'
<1> DEFINE f == drive.folder
           g == IF gd.state = "IDLE_STATE" THEN gd ELSE Failed(gd)
           h == NextEvt(g)
<1>1. /\ Commit(h, InFlight = 0) /\ UNCHANGED <<running, answers, drive>> /\ plan' = NoPlan
      /\ gd \in MemberSet(f) /\ gd.posted = <<>>
  BY DEF LoadRemoteFile, OrderInv, TypeInv, Typed
<1>2. orderly /\ InFlight = 0
  <2>1. orderly' = (orderly /\ InFlight = 0 /\ ~h.undefined)
    BY <1>1 DEF Commit
  <2> QED
    BY <2>1
<1>3. Ordered
  BY <1>2 DEF OrderInv
<1>4. gd.state \notin Asking
  <2>1. SUFFICES ASSUME gd.state \in Asking PROVE FALSE
    OBVIOUS
  <2>2. /\ Cardinality(running) \in {0, 1} /\ (running # {} => Cardinality(running) = 1)
        /\ Len(jobs) \in Nat /\ answers \in Nat
    <3>1. (running = {} \/ \E r : running = {r}) /\ jobs \in Seq(Methods) /\ answers \in Nat
      BY DEF OrderInv, TypeInv, Jobs
    <3>2. Cardinality(running) \in {0, 1} /\ (running # {} => Cardinality(running) = 1)
      BY <3>1, OneRequestRuns
    <3> QED
      BY <3>1, <3>2
  <2>3. Len(jobs) = 0 /\ Cardinality(running) = 0 /\ answers = 0
    BY <1>2, <2>2 DEF InFlight
  <2>4. jobs = <<>> /\ running = {}
    BY <2>2, <2>3 DEF OrderInv, TypeInv, Jobs
  <2>5. jobs # <<MethodOf(gd.http.op)>>
    BY <2>4
  <2> QED
    BY <1>3, <2>1, <2>3, <2>4, <2>5 DEF Ordered, Flow
<1>5. jobs = <<>> /\ running = {} /\ answers = 0
  BY <1>3, <1>4 DEF Ordered, Flow
<1>6. g \in MemberSet(f) /\ g.state = "IDLE_STATE" /\ g.posted = <<>>
  <2>1. gd.state # "IDLE_STATE" => Failed(gd) = Idle(gd)
    BY <1>4 DEF Failed, IsRefreshing, Asking, States
  <2>2. Idle(gd) \in MemberSet(f) /\ Idle(gd).state = "IDLE_STATE" /\ Idle(gd).posted = <<>>
    BY <1>1, IdleTypes, IdleGoes DEF Typed
  <2> QED
    BY <1>1, <2>1, <2>2
<1> HIDE DEF g
<1>7. h = refreshAccessToken(initAll(g), "REFRESH_ACCESS_TOKEN_STATE")
  BY <1>6 DEF NextEvt
<1>8. /\ initAll(g) \in MemberSet(f) /\ initAll(g).posted = <<>>
      /\ Valid(initAll(g).mExistSessionsId, drive)
  <2>1. initAll(g).mExistSessionsId = [n \in Sessions |-> None] /\ initAll(g).posted = <<>>
    BY <1>6 DEF initAll, MemberSet
  <2> QED
    BY <1>6, <2>1, InitAllTypes DEF Valid
<1>9. Goes(h, initAll(g), drive)
  BY <1>7, <1>8, RefreshGoes
<1>10. Typed(h, f)
  BY <1>6, EventTypes
<1>11. One(drive) /\ answers' = 0
  BY <1>1, <1>3, <1>5 DEF Ordered
<1> HIDE DEF h
<1>12. Ordered'
  BY <1>1, <1>5, <1>9, <1>10, <1>11, CommitOrders
<1> QED
  BY <1>1, <1>12 DEF Planned

\* The plan is made when the buttons are shown, and then the ids are exact.
LEMMA ApplyOrders ==
  ASSUME OrderInv, ApplyChanges, orderly'
  PROVE  Ordered' /\ Planned'
<1> DEFINE f == drive.folder
           h == NextEvt(gd)
<1>1. /\ Commit(h, TRUE) /\ UNCHANGED <<running, answers, drive>>
      /\ gd.state = "CHECK_ACTION" /\ gd \in MemberSet(f) /\ gd.posted = <<>>
      /\ plan' = IF orderly THEN PlanOf(gd, drive) ELSE NoPlan
  BY DEF ApplyChanges, ButtonsShown, IsBusy, OrderInv, TypeInv, Typed
<1>2. orderly /\ ~h.undefined
  <2>1. orderly' = (orderly /\ TRUE /\ ~h.undefined)
    BY <1>1 DEF Commit
  <2> QED
    BY <2>1
<1>3. Ordered
  BY <1>2 DEF OrderInv
<1>4. jobs = <<>> /\ running = {} /\ answers' = 0 /\ One(drive) /\ MapFits(gd, drive)
  BY <1>1, <1>3 DEF Ordered, Flow, Asking
<1>5. Goes(h, gd, drive) /\ Typed(h, f)
  BY <1>1, <1>2, <1>4, EventsGo, EventTypes
<1> HIDE DEF h
<1>6. Ordered' /\ \A P : Carried(h, drive, P) => Carried(gd', drive', P)
  BY <1>1, <1>4, <1>5, CommitOrders
<1>7. Pending(gd, drive, PlanOf(gd, drive))
  BY <1>1, <1>4, PlanIsPending DEF MapFits
<1>8. Carried(h, drive, PlanOf(gd, drive))
  BY <1>5, <1>7, PendingGoesOn
<1> QED
  BY <1>1, <1>2, <1>6, <1>8 DEF Planned

\* The code of the browser ends a wait in which nothing is in flight.
LEMMA AuthOrders ==
  ASSUME OrderInv, NEW good \in BOOLEAN, AuthInput(good), orderly'
  PROVE  Ordered' /\ Planned'
<1> DEFINE f == drive.folder
           c(x) == [gd EXCEPT !.mAuthCode = x]
           h == IF good THEN NextEvt(c(TRUE)) ELSE Failed(c(FALSE))
<1>1. /\ Commit(h, TRUE) /\ UNCHANGED <<running, answers, drive, plan>>
      /\ gd.state = "GET_AUTH_CODE_STATE" /\ gd \in MemberSet(f) /\ gd.posted = <<>>
  BY DEF AuthInput, OrderInv, TypeInv, Typed
<1>2. \A x \in BOOLEAN : c(x) \in MemberSet(f) /\ Alike(c(x), gd) /\ c(x).posted = <<>>
  BY <1>1 DEF MemberSet, Alike, SameLists
<1>3. orderly /\ ~h.undefined
  <2>1. orderly' = (orderly /\ TRUE /\ ~h.undefined)
    BY <1>1 DEF Commit
  <2> QED
    BY <2>1
<1>4. Ordered /\ Planned
  BY <1>3 DEF OrderInv
<1>5. jobs = <<>> /\ running = {} /\ answers' = 0 /\ One(drive) /\ MapFits(gd, drive)
  BY <1>1, <1>4 DEF Ordered, Flow, Asking
<1> HIDE DEF c
<1>6. PICK x \in BOOLEAN : h = NextEvt(c(x)) \/ h = Failed(c(x))
  <2>1. TRUE \in BOOLEAN /\ FALSE \in BOOLEAN
    OBVIOUS
  <2> QED
    BY <2>1
<1> HIDE DEF h
<1> DEFINE y == c(x)
<1>7. y \in MemberSet(f) /\ Alike(y, gd) /\ y.posted = <<>> /\ y.state = "GET_AUTH_CODE_STATE"
  BY <1>1, <1>2 DEF Alike
<1> HIDE DEF y
<1>8. h = NextEvt(y) \/ h = Failed(y)
  BY <1>6 DEF y
<1>9. MapFits(y, drive)
  BY <1>5, <1>7, AlikeFits
<1>10. Goes(h, y, drive) /\ Typed(h, f)
  BY <1>3, <1>7, <1>8, <1>9, EventsGo, EventTypes
<1>11. Ordered' /\ \A P : Carried(h, drive, P) => Carried(gd', drive', P)
  BY <1>1, <1>5, <1>10, CommitOrders
<1>12. plan # NoPlan => Carried(h, drive, plan)
  <2>1. plan # NoPlan => Pending(y, drive, plan)
    <3>1. plan # NoPlan => Carried(y, drive, plan)
      BY <1>4, <1>7, AlikeGoesOn DEF Planned
    <3> QED
      BY <1>7, <3>1 DEF Carried
  <2> QED
    BY <1>10, <2>1, PendingGoesOn
<1> QED
  BY <1>1, <1>11, <1>12 DEF Planned

\* An answer comes in the state that asked for it.
LEMMA AnswerOrders ==
  ASSUME OrderInv, HandleHttpRsp, orderly'
  PROVE  Ordered' /\ Planned'
<1> DEFINE f == drive.folder
           h == IF gd.mHttpResult THEN HttpSuccess(gd) ELSE HttpFailed(gd)
           b == gd.mHttpResult /\ gd.state = "DOWNLOAD_SESSION" => gd.mHttpRsp.kind = "session"
<1>1. /\ Commit(h, b) /\ UNCHANGED <<running, drive, plan>>
      /\ answers > 0 /\ answers' = answers - 1
      /\ Typed(gd, f) /\ gd \in MemberSet(f) /\ WorkLists(gd) /\ gd.posted = <<>> /\ IsDrive(drive)
  BY DEF HandleHttpRsp, OrderInv, TypeInv, Typed
<1>2. orderly /\ b /\ ~h.undefined
  <2> HIDE DEF h, b
  <2>1. orderly' = (orderly /\ b /\ ~h.undefined)
    BY <1>1 DEF Commit
  <2> QED
    BY <2>1
<1>3. Ordered /\ Planned
  BY <1>2 DEF OrderInv
<1>4. /\ gd.state \in Asking /\ jobs = <<>> /\ running = {} /\ answers = 1
      /\ gd.mHttpResult => AnswerFits(gd, gd.mHttpRsp, drive)
      /\ One(drive) /\ MapFits(gd, drive) /\ Turns(gd) /\ Asked(gd)
  <2>1. answers # 0
    BY <1>1
  <2> QED
    BY <1>3, <2>1 DEF Ordered, Flow
<1>5. answers' = 0
  BY <1>1, <1>4
<1>6. Typed(h, f)
  BY <1>1, HandledTypes
<1>7. Handled(h, gd, drive)
  BY <1>1, <1>2, <1>4, AnswersGo
<1>8. \/ h.state = "IDLE_STATE"
      \/ /\ AnswerFits(gd, gd.mHttpRsp, drive)
         /\ gd.state = "DOWNLOAD_SESSION" => gd.mHttpRsp.kind = "session"
  <2>1. CASE gd.mHttpResult
    BY <1>2, <1>4, <2>1
  <2>2. CASE ~gd.mHttpResult
    <3>1. h = Idle(gd)
      BY <1>4, <2>2 DEF HttpFailed, Asking
    <3> QED
      BY <1>1, <3>1, IdleGoes
  <2> QED
    BY <2>1, <2>2
<1> HIDE DEF h, b
<1>9. \E g : Goes(h, g, drive)
  BY <1>7 DEF Handled
<1>10. Ordered' /\ \A P : Carried(h, drive, P) => Carried(gd', drive', P)
  BY <1>1, <1>4, <1>5, <1>6, <1>9, CommitOrders
<1>11. plan # NoPlan => Carried(h, drive, plan)
  BY <1>1, <1>3, <1>4, <1>6, <1>7, <1>8, HandledGoesOn DEF Planned
<1> QED
  BY <1>1, <1>10, <1>11 DEF Planned

\* The lists are edited while nothing is under way, and the map stays.
LEMMA EditOrders ==
  ASSUME OrderInv, UserEdits, orderly'
  PROVE  Ordered' /\ Planned'
<1>1. PICK u, del, dl, as : Edit(With(gd, u, del, dl, as))
  <2>1. gd \in MemberSet(drive.folder)
    BY DEF OrderInv, TypeInv, Typed
  <2> QED
    BY <2>1, EditIs
<1>2. /\ gd.state = "CHECK_ACTION" /\ gd' = With(gd, u, del, dl, as)
      /\ UNCHANGED <<jobs, running, answers, drive, orderly, plan>>
  BY <1>1 DEF Edit, ButtonsShown
<1>3. Ordered /\ Planned
  BY <1>2 DEF OrderInv
<1>4. /\ gd'.state = "CHECK_ACTION" /\ gd'.mExistSessionsId = gd.mExistSessionsId
      /\ gd'.local = gd.local
  BY <1>2 DEF With, OrderInv, TypeInv, Typed, MemberSet
<1>5. One(drive)' /\ MapFits(gd, drive)'
  <2>1. Valid(gd.mExistSessionsId, drive) /\ Exact(gd.mExistSessionsId, drive) /\ One(drive)
    BY <1>2, <1>3 DEF Ordered, MapFits
  <2> QED
    BY <1>2, <1>4, <2>1 DEF MapFits
<1>6. jobs = <<>> /\ running = {} /\ answers = 0
  BY <1>2, <1>3 DEF Ordered, Flow, Asking
<1>7. Ordered'
  BY <1>2, <1>4, <1>5, <1>6 DEF Ordered, Flow, Turns, Asking
<1>8. Planned'
  <2>1. ASSUME plan # NoPlan PROVE Carried(gd', drive', plan')
    <3>1. Carried(gd, drive, plan)
      BY <1>3, <2>1 DEF Planned
    <3>2. \A n \in Sessions : Remote(drive, n) = plan.goal[n] /\ gd.local[n] = plan.local[n]
      BY <1>2, <3>1 DEF Carried
    <3> QED
      BY <1>2, <1>4, <3>2 DEF Carried
  <2> QED
    BY <1>2, <2>1 DEF Planned
<1> QED
  BY <1>7, <1>8

\* bgHttpRequest leaves an answer.
LEMMA LeaveOrders ==
  ASSUME OrderInv, Ordered, Planned, gd.state \in Asking, jobs = <<>>, answers = 0,
         NEW r, NEW ok, Leave(r, ok), One(drive'), MapFits(gd, drive'),
         ok => AnswerFits(gd, r, drive'), Touches(gd, drive, drive')
  PROVE  Ordered' /\ Planned'
<1>1. /\ gd \in MemberSet(drive.folder) /\ Typed(gd, drive.folder)
      /\ gd' = [gd EXCEPT !.mHttpRsp = r, !.mHttpResult = ok]
      /\ running' = {} /\ answers' = 1 /\ UNCHANGED <<jobs, plan>>
  BY DEF OrderInv, TypeInv, Typed, Leave
<1>2. Alike(gd', gd) /\ gd'.mHttpRsp = r /\ gd'.mHttpResult = ok
  BY <1>1 DEF Alike, SameLists, MemberSet
<1>3. Asked(gd) /\ Turns(gd)
  BY DEF Ordered
<1>4. /\ MapFits(gd', drive') /\ Asked(gd') /\ Turns(gd')
      /\ AnswerFits(gd, r, drive') => AnswerFits(gd', r, drive')
  BY <1>2, <1>3, AlikeFits
<1>5. gd'.state \in Asking
  BY <1>2 DEF Alike
<1>6. gd'.mHttpResult => AnswerFits(gd', gd'.mHttpRsp, drive')
  BY <1>2, <1>4
<1>7. Flow'
  BY <1>1, <1>5, <1>6 DEF Flow
<1>8. Ordered'
  BY <1>4, <1>7 DEF Ordered
<1>9. ASSUME plan # NoPlan PROVE Carried(gd', drive', plan)
  <2>1. Carried(gd, drive', plan)
    BY <1>1, <1>3, <1>9, TouchedGoesOn DEF Planned
  <2> QED
    BY <1>2, <2>1, AlikeGoesOn
<1> QED
  BY <1>1, <1>8, <1>9 DEF Planned

\* bgHttpRequest performs the request of the state and answers once.
LEMMA BackgroundOrders ==
  ASSUME OrderInv, Background, orderly'
  PROVE  Ordered' /\ Planned'
<1>0. /\ Typed(gd, drive.folder) /\ gd \in MemberSet(drive.folder) /\ WorkLists(gd)
      /\ IsDrive(drive)
  BY DEF OrderInv, TypeInv, Typed
<1>1. ASSUME BgStart PROVE Ordered' /\ Planned'
  <2>1. /\ jobs # <<>> /\ jobs' = Tail(jobs)
        /\ running' = {[method |-> Head(jobs), request |-> gd.http, tries |-> MaxTries]}
        /\ gd' = [gd EXCEPT !.mHttpRsp = Empty, !.mHttpResult = TRUE]
        /\ UNCHANGED <<answers, drive, orderly, plan>>
    BY <1>1 DEF BgStart
  <2>2. Ordered /\ Planned
    BY <2>1 DEF OrderInv
  <2>3. /\ gd.state \in Asking /\ jobs = <<MethodOf(gd.http.op)>> /\ answers = 0
        /\ Unanswered(gd, drive) /\ One(drive) /\ MapFits(gd, drive) /\ Turns(gd) /\ Asked(gd)
    BY <2>1, <2>2 DEF Ordered, Flow
  <2>4. jobs' = <<>> /\ Head(jobs) = MethodOf(gd.http.op)
    BY <2>1, <2>3
  <2>5. Alike(gd', gd)
    BY <1>0, <2>1 DEF Alike, SameLists, MemberSet
  <2>6. /\ MapFits(gd', drive) /\ Unanswered(gd', drive) /\ Asked(gd') /\ Turns(gd')
        /\ gd'.state \in Asking /\ gd'.http = gd.http
    BY <2>3, <2>5, AlikeFits DEF Alike
  <2>7. \A r \in running' : r.method = MethodOf(gd'.http.op) /\ r.request = gd'.http
    BY <2>1, <2>4, <2>6
  <2>8. Flow'
    BY <2>1, <2>3, <2>4, <2>6, <2>7 DEF Flow
  <2>9. plan # NoPlan => Carried(gd', drive, plan)
    BY <2>2, <2>5, AlikeGoesOn DEF Planned
  <2> QED
    BY <2>1, <2>3, <2>6, <2>8, <2>9 DEF Ordered, Planned
<1>2. ASSUME NEW r \in running, BgAnswered(r) \/ BgLost(r) \/ BgNoAddress(r)
      PROVE  Ordered' /\ Planned'
  <2>1. orderly
    BY <1>2 DEF BgAnswered, BgLost, BgNoAddress
  <2>2. Ordered /\ Planned
    BY <2>1 DEF OrderInv
  <2>3. /\ gd.state \in Asking /\ jobs = <<>> /\ answers = 0
        /\ Unanswered(gd, drive) /\ One(drive) /\ MapFits(gd, drive) /\ Turns(gd) /\ Asked(gd)
        /\ r.method = MethodOf(gd.http.op) /\ r.request = gd.http
    BY <2>2 DEF Ordered, Flow
  <2>4. \A o \in Outcomes(drive, r.method, r.request) :
          Served(gd, drive, o) /\ Touches(gd, drive, o[1])
    BY <1>0, <2>3, OutcomesServed
  <2>5. Touches(gd, drive, drive)
    BY DEF Touches
  <2>6. ASSUME BgAnswered(r) PROVE Ordered' /\ Planned'
    <3>1. ASSUME NEW o \in Outcomes(drive, r.method, r.request), drive' = o[1], Leave(o[2], TRUE)
          PROVE  Ordered' /\ Planned'
      <4>1. Served(gd, drive, o) /\ Touches(gd, drive, drive')
        BY <2>4, <3>1
      <4>2. One(drive') /\ MapFits(gd, drive') /\ AnswerFits(gd, o[2], drive')
        BY <3>1, <4>1 DEF Served
      <4> QED
        BY <2>2, <2>3, <3>1, <4>1, <4>2, LeaveOrders
    <3>2. ASSUME NEW odd \in OddAnswers(r.request), Leave(odd, TRUE), drive' = drive
          PROVE  Ordered' /\ Planned'
      <4>1. AnswerFits(gd, odd, drive')
        BY OddFits
      <4>2. One(drive') /\ MapFits(gd, drive') /\ Touches(gd, drive, drive')
        BY <2>3, <2>5, <3>2
      <4> QED
        BY <2>2, <2>3, <3>2, <4>1, <4>2, LeaveOrders
    <3> QED
      BY <2>6, <3>1, <3>2 DEF BgAnswered
  <2>7. ASSUME BgLost(r) PROVE Ordered' /\ Planned'
    <3>1. /\ drive' \in {drive} \cup {o[1] : o \in Outcomes(drive, r.method, r.request)}
          /\ Creates(r.request) => drive' = drive
      BY <2>7 DEF BgLost
    <3>2. One(drive') /\ MapFits(gd, drive') /\ Touches(gd, drive, drive')
          /\ Unanswered(gd, drive')
      <4>1. CASE drive' = drive
        BY <2>3, <2>5, <4>1
      <4>2. CASE drive' # drive
        <5>1. PICK o \in Outcomes(drive, r.method, r.request) : drive' = o[1]
          BY <3>1, <4>2
        <5>2. gd.http.op # "create"
          BY <2>3, <3>1, <4>2 DEF Creates
        <5> QED
          BY <2>4, <5>1, <5>2 DEF Served
      <4> QED
        BY <4>1, <4>2
    <3>3. CASE Leave(Empty, FALSE)
      BY <2>2, <2>3, <3>2, <3>3, LeaveOrders
    <3>4. CASE ~Leave(Empty, FALSE)
      <4>1. /\ running' = {[r EXCEPT !.tries = @ - 1]}
            /\ gd' = [gd EXCEPT !.mHttpRsp = Empty] /\ UNCHANGED <<jobs, answers, plan>>
        BY <2>7, <3>4 DEF BgLost
      <4>2. Alike(gd', gd)
        BY <1>0, <4>1 DEF Alike, SameLists, MemberSet
      <4>3. /\ MapFits(gd', drive') /\ Unanswered(gd', drive') /\ Asked(gd') /\ Turns(gd')
            /\ gd'.state \in Asking /\ gd'.http = gd.http
        BY <2>3, <3>2, <4>2, AlikeFits DEF Alike
      <4>4. \A x \in running' : x.method = MethodOf(gd'.http.op) /\ x.request = gd'.http
        <5>1. r \in Runs(drive.folder)
          BY DEF OrderInv, TypeInv
        <5>2. [r EXCEPT !.tries = @ - 1].method = r.method
              /\ [r EXCEPT !.tries = @ - 1].request = r.request
          BY <5>1 DEF Runs
        <5> QED
          BY <2>3, <4>1, <4>3, <5>2
      <4>5. Flow'
        BY <2>3, <4>1, <4>3, <4>4 DEF Flow
      <4>6. ASSUME plan # NoPlan PROVE Carried(gd', drive', plan)
        <5>1. Carried(gd, drive', plan)
          BY <1>0, <2>2, <2>3, <3>2, <4>6, TouchedGoesOn DEF Planned
        <5> QED
          BY <4>2, <5>1, AlikeGoesOn
      <4> QED
        BY <3>2, <4>1, <4>3, <4>5, <4>6 DEF Ordered, Planned
    <3> QED
      BY <3>3, <3>4
  <2>8. ASSUME BgNoAddress(r) PROVE FALSE
    <3>1. gd.http.op = "none"
      BY <2>3, <2>8 DEF BgNoAddress, NoRequest
    <3> QED
      BY <2>3, <3>1 DEF Asked, Ops
  <2> QED
    BY <1>2, <2>6, <2>7, <2>8
<1> QED
  BY <1>1, <1>2 DEF Background

\* Every step keeps the map, the flow of requests and the plan, while answers are in
\* order.
LEMMA NextOrders == OrderInv /\ [Next]_vars => OrderInv'
<1> SUFFICES ASSUME OrderInv, [Next]_vars PROVE OrderInv'
  OBVIOUS
<1>1. TypeInv'
  BY NextTypes DEF OrderInv
<1>2. ASSUME Next, orderly' PROVE Ordered' /\ Planned'
  BY <1>2, LoadOrders, EditOrders, ApplyOrders, AuthOrders, BackgroundOrders, AnswerOrders
     DEF Next
<1>3. ASSUME UNCHANGED vars, orderly' PROVE Ordered' /\ Planned'
  BY <1>3 DEF vars, OrderInv, Ordered, Planned, Flow
<1> QED
  BY <1>1, <1>2, <1>3 DEF OrderInv

\* When the cloud tree is shown the map of ids is the drive, for any number of
\* sessions, files and pages (parseSessionsId, parseDeleteSession, parseUploadSession).
THEOREM DriveMapIsDrive == Spec => []MapIsDrive
<1>1. Spec => []OrderInv
  BY InitOrders, NextOrders, PTL DEF Spec
<1>2. ASSUME OrderInv PROVE MapIsDrive
  BY <1>2 DEF OrderInv, Ordered, MapFits, Exact, Knows, MapIsDrive, ButtonsShown
<1> QED
  BY <1>1, <1>2, PTL

\* ApplyChanges leaves every session as it was or as asked, and all as asked once it
\* is done (checkAction and the parsers of the three lists).
THEOREM DriveChangesAreDone == Spec => []ChangesAreDone
<1>1. Spec => []OrderInv
  BY InitOrders, NextOrders, PTL DEF Spec
<1>2. ASSUME OrderInv PROVE ChangesAreDone
  <2>1. SUFFICES ASSUME orderly, plan # NoPlan, NEW n \in Sessions
                 PROVE  /\ Within(drive, plan, n)
                        /\ ButtonsShown => Remote(drive, n) = plan.goal[n]
                                           /\ gd.local[n] = plan.local[n]
    BY DEF ChangesAreDone, Within
  <2>2. Carried(gd, drive, plan)
    BY <1>2, <2>1 DEF OrderInv, Planned
  <2> QED
    BY <2>2, CarriedIsWithin DEF Carried, ButtonsShown
<1> QED
  BY <1>1, <1>2, PTL
=============================================================================
