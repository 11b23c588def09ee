---------------------------- MODULE DriveSession ----------------------------
(***************************************************************************)
(* The cloud session of putty_view/google_drive_fsm_session.cpp: the       *)
(* sessions of PuTTY are listed from, uploaded to, downloaded from and     *)
(* deleted from a folder of Google Drive.                                  *)
(*                                                                         *)
(* Two threads share it.  The UI thread runs the state machine; an action  *)
(* that needs an HTTP request writes it into mHttpUrl, mPostData and       *)
(* mHttpHeaders (`http' here) and posts bgHttpRequest to the background    *)
(* worker with nothing but the method.  The worker reads `http' when the   *)
(* job RUNS, leaves the answer in mHttpRsp and mHttpResult, and posts      *)
(* handleHttpRsp, which reads both when IT runs and gives HTTP_SUCCESS or  *)
(* HTTP_FAILED to whatever state the machine is in by then.  Nothing ties  *)
(* an answer to the request or to the state that asked for it.             *)
(*                                                                         *)
(* An event with no action in a state sends the machine to its last state, *)
(* RENAME_SESSION, and from there, mRenameList being always empty, to      *)
(* CHECK_ACTION: this is `Undefined' below.                                *)
(***************************************************************************)
EXTENDS Integers, Sequences, FiniteSets, FiniteSetsExt

CONSTANTS
  MaxSession,        \* the sessions are 1..MaxSession, in the order of a std::map
  MaxFile,           \* bound: files ever made on the drive
  PageSize,          \* maxResults of a listing (50 in the code)
  MaxTries,          \* times curl is tried for a request (6 in the code)
  MaxTrouble,        \* bound: lost requests and answers, refusals, odd answers, and
                     \* dialogs opened while an answer is still due
  MaxApply           \* bound: times the changes are applied

ASSUME BoundsAssumption ==
  /\ {MaxSession, MaxFile, PageSize, MaxTries} \subseteq Nat \ {0}
  /\ {MaxTrouble, MaxApply} \subseteq Nat
  /\ MaxSession <= MaxFile

Sessions == 1..MaxSession
Ids == 1..MaxFile
FolderId == MaxFile + 1
None == 0

VARIABLES
  gd,          \* the members of GoogleDriveFsmSession, and the local sessions
  jobs,        \* methods of the bgHttpRequest jobs queued on the worker
  running,     \* the requests the worker performs: none or one
  answers,     \* handleHttpRsp jobs queued on the UI worker
  drive,       \* the account on Google Drive: the folder and the files in it
  trouble,     \* how much of MaxTrouble is used
  applies,     \* how much of MaxApply is used
  orderly,     \* history: every answer came in the state that asked for it, every
               \* event had an action, no refusal was saved as a session, and the
               \* answer to a request that creates something was not lost
  plan         \* history: the changes applied last, what they had and should give

vars == <<gd, jobs, running, answers, drive, trouble, applies, orderly, plan>>

States ==
  {"IDLE_STATE", "REFRESH_ACCESS_TOKEN_STATE", "GET_AUTH_CODE_STATE",
   "GET_ACCESS_TOKEN_STATE", "GET_SESSION_FOLDER", "CREATE_SESSION_FOLDER",
   "GET_EXIST_SESSIONS_ID", "CHECK_ACTION", "REFRESH_ACCESS_TOKEN_STATE2",
   "DOWNLOAD_SESSION", "DELETE_SESSIONS", "UPLOAD_SESSION"}

\* What a session file holds: the settings a session had here or there, or
\* the text of an error taken for settings.
Body(where, n) == [where |-> where, name |-> n]
Junk == Body("error", None)
Bodies == [where : {"here", "there"}, name : Sessions] \cup {Junk}

-----------------------------------------------------------------------------
(* Requests and answers.                                                   *)

NoRequest == [op |-> "none"]
Empty == [kind |-> "empty"]
Answer(kind) == [kind |-> kind]
\* Neither an empty body nor a page of HTML nor a session file is JSON.
IsJson(r) == r.kind \notin {"empty", "garbage", "session"}

MethodOf(op) ==
  IF op \in {"refresh", "code", "mkfolder", "create"} THEN "POST"
  ELSE IF op = "update" THEN "PUT"
  ELSE IF op = "delete" THEN "DELETE" ELSE "GET"

NoFile == [name |-> None, body |-> Junk]      \* this id was never given out
Trashed == [name |-> None, body |-> Body("error", -1)]
Live(d) == {i \in Ids : d.files[i].name # None}
FilesOf(d, n) == {i \in Ids : d.files[i].name = n}
Fresh(d) == {i \in Ids : d.files[i] = NoFile}

Page(d, seen) ==
  LET rest == Live(d) \ seen
      items == {i \in rest : Cardinality({j \in rest : j < i}) < PageSize}
  IN [kind |-> "page", items |-> {[id |-> i, name |-> d.files[i].name] : i \in items},
      seen |-> seen \cup items, more |-> items # rest]

\* The token endpoint takes a token or a code, or refuses it.
TokenAnswers(q) ==
  IF q.op = "refresh" THEN {[kind |-> "token", refresh |-> FALSE], Answer("noToken")}
  ELSE IF q.code THEN {[kind |-> "token", refresh |-> TRUE], Answer("noToken")}
  ELSE {Answer("noToken")}

\* What the drive does for request q: the new account and the answer.
Serve(d, q) ==
  CASE q.op = "folder" ->
         <<d, IF d.folder THEN Answer("folder") ELSE Answer("noFolder")>>
    [] q.op = "mkfolder" -> <<[d EXCEPT !.folder = TRUE], [kind |-> "id", id |-> FolderId]>>
    [] q.op = "list" ->
         IF q.parent = "folder" THEN <<d, Page(d, q.seen)>> ELSE <<d, Answer("error")>>
    [] q.op = "get" /\ q.id \in Live(d) ->
         <<d, [kind |-> "session", body |-> d.files[q.id].body]>>
    [] q.op = "delete" /\ q.id \in Live(d) -> <<[d EXCEPT !.files[q.id] = Trashed], Empty>>
    [] q.op = "update" /\ q.id \in Live(d) ->
         <<[d EXCEPT !.files[q.id].body = q.body], [kind |-> "id", id |-> q.id]>>
    [] q.op = "create" /\ q.parent = "folder" /\ Fresh(d) # {} ->
         LET i == Min(Fresh(d)) IN
         <<[d EXCEPT !.files[i] = [name |-> q.name, body |-> q.body]],
           [kind |-> "id", id |-> i]>>
    [] OTHER -> <<d, Answer("error")>>

\* Outcomes of a request performed with a method: refused without a bearer
\* token, or when the method is not the one the address is meant for.
Outcomes(d, method, q) ==
  IF q.op \in {"refresh", "code"}
  THEN {<<d, r>> : r \in IF method = "POST" THEN TokenAnswers(q) ELSE {Answer("garbage")}}
  ELSE IF ~q.auth THEN {<<d, Answer("error")>>}
  ELSE IF method = "DELETE" /\ q.op = "get" THEN {Serve(d, [q EXCEPT !.op = "delete"])}
  ELSE IF method # MethodOf(q.op) THEN {<<d, Answer("error")>>}
  ELSE {Serve(d, q)}

\* Answers of a service that refuses, answers oddly or stands behind a portal.
OddAnswers(q) ==
  {Answer("garbage")} \cup
  IF q.op \in {"refresh", "code"}
  THEN {[kind |-> "short", refresh |-> q.op = "code"], Answer("badToken")}
  ELSE {Answer("error")}

-----------------------------------------------------------------------------
(* The state machine.  Each operator takes the members g and returns them  *)
(* after the action, with every state entered on the way.                  *)

Listed(f) == {n \in Sessions : f[n] # None}

\* mDownloadList is a map from a session there to one here: its keys, and in saveAs its
\* values, which are set to n where there is no key n.
OwnNames == [n \in Sessions |-> n]

\* resetHttpData, the request, and a bgHttpRequest job for it.
Ask(g, state, request) ==
  [g EXCEPT !.state = state, !.http = request, !.mHttpRsp = Empty,
            !.mHttpResult = TRUE, !.posted = Append(@, MethodOf(request.op))]

initAll(g) ==
  [g EXCEPT !.mAuthCode = FALSE, !.listening = FALSE, !.mAccessTokenHeader = FALSE,
            !.http = NoRequest, !.mHttpRsp = Empty, !.mSessionFolderId = "none",
            !.mExistSessionsId = [n \in Sessions |-> None],
            !.mDownloadList = {}, !.saveAs = OwnNames, !.mDeleteList = {},
            !.mUploadList = [n \in Sessions |-> None]]

\* Neither at rest nor done.
IsBusy(g) == g.state \notin {"IDLE_STATE", "CHECK_ACTION"}

Idle(g) == [initAll(g) EXCEPT !.state = "IDLE_STATE"]

\* Opens the listening socket and the browser.
getAuthCode(g) == [g EXCEPT !.state = "GET_AUTH_CODE_STATE", !.listening = TRUE]

refreshAccessToken(g, state) ==
  IF g.mAccessToken \/ g.mRefreshToken
  THEN Ask(g, state, [op |-> "refresh"])
  ELSE getAuthCode(g)

getAccessToken(g) ==
  Ask(g, "GET_ACCESS_TOKEN_STATE", [op |-> "code", code |-> g.mAuthCode])

getSessionFolder(g) ==
  Ask(g, "GET_SESSION_FOLDER", [op |-> "folder", auth |-> g.mAccessTokenHeader])

createSessionFolder(g) ==
  Ask(g, "CREATE_SESSION_FOLDER", [op |-> "mkfolder", auth |-> g.mAccessTokenHeader])

List(g, seen) ==
  Ask(g, "GET_EXIST_SESSIONS_ID",
      [op |-> "list", auth |-> g.mAccessTokenHeader,
       parent |-> g.mSessionFolderId, seen |-> seen])

downloadSession(g) ==
  LET id == g.mExistSessionsId[Min(g.mDownloadList)] IN
  IF id = None THEN Idle(g)
  ELSE Ask(g, "DOWNLOAD_SESSION", [op |-> "get", auth |-> g.mAccessTokenHeader, id |-> id])

deleteSession(g) ==
  LET id == g.mExistSessionsId[Min(g.mDeleteList)] IN
  IF id = None THEN Idle(g)
  ELSE Ask(g, "DELETE_SESSIONS", [op |-> "delete", auth |-> g.mAccessTokenHeader, id |-> id])

\* A session whose file is known is replaced, any other is created.
uploadSession(g) ==
  LET n == Min(Listed(g.mUploadList))
      body == g.local[g.mUploadList[n]]
      id == g.mExistSessionsId[n]
  IN Ask(g, "UPLOAD_SESSION",
         IF id # None
         THEN [op |-> "update", auth |-> g.mAccessTokenHeader, id |-> id, body |-> body]
         ELSE [op |-> "create", auth |-> g.mAccessTokenHeader,
               parent |-> g.mSessionFolderId, name |-> n, body |-> body])

\* Faulty: uploads come before the deletions.
checkActionUploadsFirst(g) ==
  IF g.mDownloadList # {} THEN downloadSession(g)
  ELSE IF Listed(g.mUploadList) # {} THEN uploadSession(g)
  ELSE IF g.mDeleteList # {} THEN deleteSession(g)
  ELSE [g EXCEPT !.state = "CHECK_ACTION"]

\* Downloads, then deletions, then uploads; with nothing left, "Done!".
checkAction(g) ==
  IF g.mDownloadList # {} THEN downloadSession(g)
  ELSE IF g.mDeleteList # {} THEN deleteSession(g)
  ELSE IF Listed(g.mUploadList) # {} THEN uploadSession(g)
  ELSE [g EXCEPT !.state = "CHECK_ACTION"]

\* An event its state has no action for: the last state, then CHECK_ACTION.
Undefined(g) ==
  checkAction([(IF g.state = "IDLE_STATE" THEN initAll(g) ELSE g) EXCEPT !.undefined = TRUE])

IsRefreshing(g) == g.state \in {"REFRESH_ACCESS_TOKEN_STATE", "REFRESH_ACCESS_TOKEN_STATE2"}

\* Fsm::FAILED_EVT
Failed(g) ==
  IF IsRefreshing(g) THEN getAuthCode(g)
  ELSE IF g.state = "IDLE_STATE" THEN Undefined(g) ELSE Idle(g)

\* Fsm::NEXT_EVT
NextEvt(g) ==
  CASE g.state = "IDLE_STATE" -> refreshAccessToken(initAll(g), "REFRESH_ACCESS_TOKEN_STATE")
    [] g.state = "GET_AUTH_CODE_STATE" -> getAccessToken(g)
    [] g.state \in {"REFRESH_ACCESS_TOKEN_STATE", "GET_ACCESS_TOKEN_STATE"} ->
         getSessionFolder(g)
    [] g.state = "GET_SESSION_FOLDER" -> List(g, {})
    [] g.state = "CHECK_ACTION" -> refreshAccessToken(g, "REFRESH_ACCESS_TOKEN_STATE2")
    [] g.state = "REFRESH_ACCESS_TOKEN_STATE2" -> checkAction(g)
    [] OTHER -> Undefined(g)

\* RETRY_EVT: GET_ACCESS_TOKEN_STATE has no action for it.
Retry(g) ==
  IF IsRefreshing(g) THEN refreshAccessToken(g, "REFRESH_ACCESS_TOKEN_STATE")
  ELSE Undefined(g)

\* Faulty: a token that was refused is kept.
parseAccessTokenKeepsToken(g0) ==
  LET g == [g0 EXCEPT !.mAccessTokenHeader = FALSE]
      r == g.mHttpRsp
  IN CASE ~IsJson(r) -> Failed(g)
       [] r.kind = "token" ->
            NextEvt([g EXCEPT !.mAccessToken = TRUE, !.mAccessTokenHeader = TRUE])
       [] OTHER -> Retry(g)

parseAccessToken(g0) ==
  LET g == [g0 EXCEPT !.mAccessTokenHeader = FALSE]
      r == g.mHttpRsp
  IN CASE ~IsJson(r) -> Failed(g)
       [] r.kind = "token" ->
            NextEvt([g EXCEPT !.mAccessToken = TRUE, !.mAccessTokenHeader = TRUE,
                              !.mRefreshToken = @ \/ r.refresh])
       [] r.kind = "short" ->
            Retry([g EXCEPT !.mAccessToken = FALSE, !.mRefreshToken = @ \/ r.refresh])
       [] r.kind = "badToken" ->
            Failed([g EXCEPT !.mAccessToken = FALSE, !.mRefreshToken = FALSE])
       [] OTHER ->
            Retry([g EXCEPT !.mAccessToken = FALSE,
                            !.mRefreshToken = @ /\ g.mAccessToken])

\* The first item of any listing is taken for the folder.
parseSessionFolderInfo(g) ==
  LET r == g.mHttpRsp IN
  CASE r.kind = "folder" -> NextEvt([g EXCEPT !.mSessionFolderId = "folder"])
    [] r.kind = "page" /\ r.items # {} -> NextEvt([g EXCEPT !.mSessionFolderId = "file"])
    [] r.kind \in {"noFolder", "page"} -> createSessionFolder(g)
    [] OTHER -> Failed(g)

parseCreateSessionFolderInfo(g) ==
  LET r == g.mHttpRsp IN
  IF r.kind = "id"
  THEN checkAction([g EXCEPT !.mSessionFolderId = IF r.id = FolderId THEN "folder" ELSE "file"])
  ELSE Failed(g)

\* Faulty: the link to the next page is not followed.
parseSessionsIdOnePage(g) ==
  LET r == g.mHttpRsp
      Found(n) == {f.id : f \in {f \in r.items : f.name = n}}
  IN CASE r.kind = "page" ->
            LET h == [g EXCEPT !.mExistSessionsId =
                        [n \in Sessions |-> IF Found(n) = {} THEN @[n] ELSE Max(Found(n))]]
            IN IF r.more THEN h ELSE checkAction(h)
       [] r.kind \in {"folder", "noFolder"} -> checkAction(g)
       [] OTHER -> Failed(g)

\* The files of the page are entered, and the next page is asked for.
parseSessionsId(g) ==
  LET r == g.mHttpRsp
      Found(n) == {f.id : f \in {f \in r.items : f.name = n}}
  IN CASE r.kind = "page" ->
            LET h == [g EXCEPT !.mExistSessionsId =
                        [n \in Sessions |-> IF Found(n) = {} THEN @[n] ELSE Max(Found(n))]]
            IN IF r.more THEN List(h, r.seen) ELSE checkAction(h)
       [] r.kind \in {"folder", "noFolder"} -> checkAction(g)
       [] OTHER -> Failed(g)

\* Whatever came is saved under the name it goes to, and the download is struck off.
parseDownloadSession(g) ==
  LET n == Min(g.mDownloadList)
      r == g.mHttpRsp
      h == [g EXCEPT !.local[g.saveAs[n]] = IF r.kind = "session" THEN r.body ELSE Junk,
                     !.mDownloadList = @ \ {n}, !.saveAs[n] = n]
  IN IF h.mDownloadList # {} THEN downloadSession(h) ELSE checkAction(h)

\* Faulty: the id of a deleted file is kept.
parseDeleteSessionKeepsId(g) ==
  LET h == [g EXCEPT !.mDeleteList = @ \ {Min(@)}] IN
  IF g.mHttpRsp # Empty THEN Failed(g)
  ELSE IF h.mDeleteList # {} THEN deleteSession(h) ELSE checkAction(h)

parseDeleteSession(g) ==
  LET n == Min(g.mDeleteList)
      h == [g EXCEPT !.mExistSessionsId[n] = None, !.mDeleteList = @ \ {n}]
  IN IF g.mHttpRsp # Empty THEN Failed(g)
     ELSE IF h.mDeleteList # {} THEN deleteSession(h) ELSE checkAction(h)

\* Faulty: after the last upload the state is not left.
parseUploadSessionStays(g) ==
  LET n == Min(Listed(g.mUploadList))
      h == [g EXCEPT !.mExistSessionsId[n] = g.mHttpRsp.id, !.mUploadList[n] = None]
  IN IF g.mHttpRsp.kind # "id" THEN Failed(g)
     ELSE IF Listed(h.mUploadList) # {} THEN uploadSession(h) ELSE h

parseUploadSession(g) ==
  LET n == Min(Listed(g.mUploadList))
      h == [g EXCEPT !.mExistSessionsId[n] = g.mHttpRsp.id, !.mUploadList[n] = None]
  IN IF g.mHttpRsp.kind # "id" THEN Failed(g)
     ELSE IF Listed(h.mUploadList) # {} THEN uploadSession(h) ELSE checkAction(h)

\* HTTP_SUCCESS_EVT and HTTP_FAILED_EVT, in whatever state they come.
HttpSuccess(g) ==
  CASE IsRefreshing(g) \/ g.state = "GET_ACCESS_TOKEN_STATE" -> parseAccessToken(g)
    [] g.state = "GET_SESSION_FOLDER" -> parseSessionFolderInfo(g)
    [] g.state = "CREATE_SESSION_FOLDER" -> parseCreateSessionFolderInfo(g)
    [] g.state = "GET_EXIST_SESSIONS_ID" -> parseSessionsId(g)
    [] g.state = "DOWNLOAD_SESSION" -> parseDownloadSession(g)
    [] g.state = "DELETE_SESSIONS" -> parseDeleteSession(g)
    [] g.state = "UPLOAD_SESSION" -> parseUploadSession(g)
    [] OTHER -> Undefined(g)

HttpFailed(g) ==
  IF g.state \in {"IDLE_STATE", "GET_AUTH_CODE_STATE", "CHECK_ACTION"}
  THEN Undefined(g) ELSE Idle(g)

-----------------------------------------------------------------------------
(* What the user does.                                                     *)

InFlight == Len(jobs) + Cardinality(running) + answers

Trouble == trouble < MaxTrouble /\ trouble' = trouble + 1

\* No changes have been applied since the dialog was opened.
NoPlan == <<>>

\* The handler h of the UI thread ends: its jobs are on the worker's queue.
Commit(h, inOrder) ==
  /\ gd' = [h EXCEPT !.posted = <<>>, !.undefined = FALSE]
  /\ jobs' = jobs \o h.posted
  /\ orderly' = (orderly /\ inOrder /\ ~h.undefined)

\* The dialog is opened, whatever the session was doing when it was closed.
LoadRemoteFile ==
  /\ IF InFlight = 0 THEN UNCHANGED trouble ELSE Trouble
  /\ Commit(NextEvt(IF gd.state = "IDLE_STATE" THEN gd ELSE Failed(gd)), InFlight = 0)
  /\ plan' = NoPlan
  /\ UNCHANGED <<running, answers, drive, applies>>

\* The buttons are taken to be shown while the progress stands at 100: the 100 ms
\* after which on_progress_bar_done shows them are too short for a person to close the
\* dialog, open it again and find them shown by the timer of the last visit.
ButtonsShown == gd.state = "CHECK_ACTION"

\* Lists that are never applied are left empty.
Edit(h) ==
  /\ ButtonsShown /\ applies < MaxApply
  /\ gd' = h
  /\ UNCHANGED <<jobs, running, answers, drive, trouble, applies, orderly, plan>>

ClearInAllLists(g, n) ==
  [g EXCEPT !.mUploadList[n] = None, !.mDeleteList = @ \ {n},
            !.mDownloadList = @ \ {n}, !.saveAs[n] = n]

UploadCloudSession(n) == Edit([ClearInAllLists(gd, n) EXCEPT !.mUploadList[n] = n])

DeleteCloudSession(n) ==
  LET g == ClearInAllLists(gd, n) IN
  Edit(IF g.mExistSessionsId[n] = None THEN g ELSE [g EXCEPT !.mDeleteList = @ \cup {n}])

\* It goes to a session of the group that is selected here, whatever its name there.
DownloadCloudSession(n, to) ==
  LET g == ClearInAllLists(gd, n) IN
  Edit(IF g.mExistSessionsId[n] = None THEN g
       ELSE [g EXCEPT !.mDownloadList = @ \cup {n}, !.saveAs[n] = to])

\* A session to upload gets another name: the other lists keep that name.
RenameUpload(n, to) ==
  /\ gd.mUploadList[n] # None
  /\ gd.mUploadList[to] = None
  /\ Edit([gd EXCEPT !.mUploadList[to] = gd.mUploadList[n], !.mUploadList[n] = None])

ResetChanges ==
  Edit([gd EXCEPT !.mDownloadList = {}, !.saveAs = OwnNames, !.mDeleteList = {},
                  !.mUploadList = [n \in Sessions |-> None]])

\* What the drive holds for a session: a set, of one body or none.
Remote(d, n) == {d.files[i].body : i \in FilesOf(d, n)}

\* The downloads that are saved as session n: the last one stays.
SavedAs(g, n) == {m \in g.mDownloadList : g.saveAs[m] = n}

\* The changes of the lists, and what they should come to.
PlanOf(g, d) ==
  LET got == [n \in Sessions |->
                LET from == SavedAs(g, n) IN
                IF from # {} /\ Remote(d, Max(from)) # {}
                THEN CHOOSE b \in Remote(d, Max(from)) : TRUE ELSE g.local[n]]
  IN [deleted |-> g.mDeleteList, local |-> got,
      was |-> [n \in Sessions |-> Remote(d, n)],
      goal |-> [n \in Sessions |->
                  IF g.mUploadList[n] # None THEN {got[g.mUploadList[n]]}
                  ELSE IF n \in g.mDeleteList THEN {} ELSE Remote(d, n)]]

ApplyChanges ==
  /\ ButtonsShown
  /\ applies < MaxApply /\ applies' = applies + 1
  /\ Commit(NextEvt(IF IsBusy(gd) THEN Failed(gd) ELSE gd), TRUE)
  /\ plan' = IF orderly THEN PlanOf(gd, drive) ELSE NoPlan
  /\ UNCHANGED <<running, answers, drive, trouble>>

\* The browser comes back to the listening socket, with a code or without.
AuthInput(good) ==
  /\ gd.state = "GET_AUTH_CODE_STATE"
  /\ gd.listening
  /\ Commit(IF good THEN NextEvt([gd EXCEPT !.mAuthCode = TRUE])
            ELSE Failed([gd EXCEPT !.mAuthCode = FALSE]), TRUE)
  /\ UNCHANGED <<running, answers, drive, trouble, applies, plan>>

-----------------------------------------------------------------------------
(* bgHttpRequest on the background worker, and handleHttpRsp.              *)

BgStart ==
  /\ running = {} /\ jobs # <<>>
  /\ running' = {[method |-> Head(jobs), request |-> gd.http, tries |-> MaxTries]}
  /\ jobs' = Tail(jobs)
  /\ gd' = [gd EXCEPT !.mHttpRsp = Empty, !.mHttpResult = TRUE]
  /\ UNCHANGED <<answers, drive, trouble, applies, orderly, plan>>

\* The last try is over: the result is left, and handleHttpRsp is posted.
Leave(rsp, ok) ==
  /\ running' = {}
  /\ answers' = answers + 1
  /\ gd' = [gd EXCEPT !.mHttpRsp = rsp, !.mHttpResult = ok]
  /\ UNCHANGED <<jobs, applies, plan>>

BgAnswered(r) ==
  /\ r.request # NoRequest
  /\ \/ \E o \in Outcomes(drive, r.method, r.request) :
          drive' = o[1] /\ Leave(o[2], TRUE) /\ UNCHANGED trouble
     \/ \E odd \in OddAnswers(r.request) :
          /\ Trouble
          /\ Leave(odd, TRUE) /\ UNCHANGED drive
  /\ UNCHANGED orderly

Creates(q) == q.op \in {"create", "mkfolder"}

\* The request is lost, or it is served and the answer is lost.  What was to be
\* created is then made once more: a second file of the same title.
BgLost(r) ==
  /\ r.request # NoRequest
  /\ Trouble
  /\ drive' \in {drive} \cup {o[1] : o \in Outcomes(drive, r.method, r.request)}
  /\ orderly' = (orderly /\ (Creates(r.request) => drive' = drive))
  /\ IF r.tries > 1
     THEN /\ running' = {[r EXCEPT !.tries = @ - 1]}
          /\ gd' = [gd EXCEPT !.mHttpRsp = Empty]
          /\ UNCHANGED <<jobs, answers, applies, plan>>
     ELSE Leave(Empty, FALSE)

\* initAll has cleared the address: no try gets anywhere.
BgNoAddress(r) ==
  /\ r.request = NoRequest
  /\ Leave(Empty, FALSE)
  /\ UNCHANGED <<drive, trouble, orderly>>

HandleHttpRsp ==
  /\ answers > 0
  /\ answers' = answers - 1
  /\ Commit(IF gd.mHttpResult THEN HttpSuccess(gd) ELSE HttpFailed(gd),
            gd.mHttpResult /\ gd.state = "DOWNLOAD_SESSION" => gd.mHttpRsp.kind = "session")
  /\ UNCHANGED <<running, drive, trouble, applies, plan>>

-----------------------------------------------------------------------------
\* Any set of sessions may be on the drive, one file each; the settings keep the
\* tokens of an earlier run, or none.
Init ==
  /\ \E there \in SUBSET Sessions, folder \in BOOLEAN :
       /\ there # {} => folder
       /\ drive = [folder |-> folder,
                   files |-> [i \in Ids |-> IF i \in there
                                            THEN [name |-> i, body |-> Body("there", i)]
                                            ELSE NoFile]]
  /\ \E signedIn \in BOOLEAN :
       gd = [state |-> "IDLE_STATE", mAccessToken |-> signedIn, mRefreshToken |-> signedIn,
             mAccessTokenHeader |-> FALSE, mAuthCode |-> FALSE, listening |-> FALSE,
             http |-> NoRequest, mHttpRsp |-> Empty, mHttpResult |-> TRUE,
             mSessionFolderId |-> "none",
             mExistSessionsId |-> [n \in Sessions |-> None],
             mDownloadList |-> {}, saveAs |-> OwnNames, mDeleteList |-> {},
             mUploadList |-> [n \in Sessions |-> None],
             posted |-> <<>>, local |-> [n \in Sessions |-> Body("here", n)],
             undefined |-> FALSE]
  /\ jobs = <<>> /\ running = {} /\ answers = 0
  /\ trouble = 0 /\ applies = 0 /\ orderly = TRUE
  /\ plan = NoPlan

UserEdits ==
  \/ \E n \in Sessions : UploadCloudSession(n) \/ DeleteCloudSession(n)
  \/ \E n, to \in Sessions : DownloadCloudSession(n, to) \/ RenameUpload(n, to)
  \/ ResetChanges

Background == BgStart \/ \E r \in running : BgAnswered(r) \/ BgLost(r) \/ BgNoAddress(r)

Next ==
  \/ LoadRemoteFile \/ UserEdits \/ ApplyChanges
  \/ \E good \in BOOLEAN : AuthInput(good)
  \/ Background \/ HandleHttpRsp

Spec == Init /\ [][Next]_vars

\* Both workers run the jobs they are given; nothing is asked of the user.
FairSpec == Spec /\ WF_vars(Background) /\ WF_vars(HandleHttpRsp)

-----------------------------------------------------------------------------
(* Properties.                                                             *)

\* The session (google_drive_fsm_session.h) keeps well-typed members, and a
\* state that works on the first entry of a list has one: parseDownloadSession,
\* parseDeleteSession and parseUploadSession take begin() without a test.
TypeOK ==
  /\ gd.state \in States
  /\ {gd.mAccessToken, gd.mRefreshToken, gd.mAccessTokenHeader, gd.mAuthCode,
      gd.listening, gd.mHttpResult, orderly} \subseteq BOOLEAN
  /\ gd.mExistSessionsId \in [Sessions -> Ids \cup {None, FolderId}]
  /\ gd.mUploadList \in [Sessions -> Sessions \cup {None}]
  /\ gd.mDownloadList \subseteq Sessions /\ gd.mDeleteList \subseteq Sessions
  /\ gd.saveAs \in [Sessions -> Sessions]
  /\ gd.local \in [Sessions -> Bodies]
  /\ jobs \in Seq({"GET", "POST", "PUT", "DELETE"})
  /\ Cardinality(running) <= 1 /\ answers \in Nat
  /\ gd.state = "DOWNLOAD_SESSION" => gd.mDownloadList # {}
  /\ gd.state = "DELETE_SESSIONS" => gd.mDeleteList # {}
  /\ gd.state = "UPLOAD_SESSION" => Listed(gd.mUploadList) # {}

\* A busy session is waiting for something that will come: a request of its own
\* is queued, performed or answered, or its socket listens for the browser.
\* It holds however often the dialog is closed and opened in between.
WaitIsAnswered ==
  IsBusy(gd) => IF gd.state = "GET_AUTH_CODE_STATE" THEN gd.listening ELSE InFlight > 0

\* When the cloud tree is shown, the ids of get_session_id_map are exactly the
\* files of the folder, after listings of several pages, uploads and deletions,
\* failed applies and repeated loads.
MapIsDrive ==
  orderly /\ ButtonsShown =>
    \A n \in Sessions :
      FilesOf(drive, n) = {gd.mExistSessionsId[n]} \ {None}

\* ApplyChanges: every session on the drive is as it was or as it was asked to
\* be, whatever was lost on the way, and once the session is done all of them
\* and the local sessions are as asked.
ChangesAreDone ==
  orderly /\ plan # NoPlan =>
    \A n \in Sessions :
      /\ Remote(drive, n) \in {plan.was[n], plan.goal[n]}
                                \cup (IF n \in plan.deleted THEN {{}} ELSE {})
      /\ ButtonsShown => Remote(drive, n) = plan.goal[n]
                                       /\ gd.local[n] = plan.local[n]

\* The session does not stay busy: it gets done, fails, or waits for the user to
\* sign in, even when answers of an earlier dialog come in between.
Rests == IsBusy(gd) ~> (~IsBusy(gd) \/ gd.state = "GET_AUTH_CODE_STATE")
=============================================================================
