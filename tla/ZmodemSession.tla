---------------------------- MODULE ZmodemSession ----------------------------
(***************************************************************************)
(* The ZMODEM engine of zmodem/zmodem_session.cpp on the event framework of *)
(* fsm/Session.cpp, with the program at the other end of the terminal: sz,  *)
(* which sends a file (a download), or rz, which receives one (an upload).  *)
(*                                                                         *)
(* Everything runs on the UI thread.  An event from outside - a chunk of    *)
(* network input, a task of the message loop, the timer, the file dialog,   *)
(* the user - is handled to the end before the next: event is what is being *)
(* handled, "entry" when a state has just been entered.                     *)
(*                                                                         *)
(* The stream is made of tokens: a header is "pad" (ZPAD, ZDLE), "enc" (its   *)
(* encoding and first byte), "header" and, after a hexadecimal header, "cr"  *)
(* (the line end) and "xon".  The subpacket behind a ZFILE is "info", which  *)
(* is the name and the size, and "crc".  One of data is its bytes, each a    *)
(* "byte" or, escaped, a "zdle" and an "esc", and then "zdle", "end" and     *)
(* "crc".  A chunk ends anywhere.  A full subpacket holds BlockSize bytes.   *)
(***************************************************************************)
EXTENDS Naturals, Sequences

CONSTANTS FileSize,     \* bytes in the file transferred
          BlockSize,    \* bytes in a full subpacket (1024)
          MaxRuns,      \* bound on the transfers started
          MaxRetries,   \* bound on the timeouts of rz while the user picks a file
          MaxResends,   \* bound on its timeouts in the middle of the data
          MaxBusy,      \* bound on finding the back end's buffer full
          MaxNoise,     \* bound on bytes another program prints into the data
          Calm,         \* chunks end only where the decoder can bear it, a RESET
                        \* posted is handled before more input, and nothing of
                        \* one transfer is left when the next begins
          MayCancel     \* the user cancels transfers and closes the tab

ASSUME SizeAssumption ==
  FileSize \in Nat /\ BlockSize \in Nat \ {0}
ASSUME BoundAssumption ==
  /\ MaxRuns \in Nat /\ MaxRetries \in Nat /\ MaxResends \in Nat /\ MaxBusy \in Nat
  /\ MaxNoise \in Nat
  /\ Calm \in BOOLEAN /\ MayCancel \in BOOLEAN

VARIABLES
  state, event,         \* curStateIdM and the event being handled
  initialized,          \* isInitializedM
  timer,                \* fsmTimerM runs
  tasks,                \* events posted to the message loop
  buffer,               \* the tokens of buffer_ from decodeIndex_ on
  scan,                 \* [at, saved, crc]: lastCheckExcaped_ and
                        \* lastCheckExcapedSaved_ from decodeIndex_ on, and the
                        \* places in the file of the bytes dataCrc_ covers
  frame,                \* inputFrame_: [type, pos]
  file,                 \* *zmodemFile_: [mode, pos, good, intact]
  isSz_, sendFinOnReset_, file_select_state_, bufferParsed_,
  isDestroyed_,
  deleted,              \* deleteSelf has run
  dialog,               \* file dialogs on the screen
  crash,                \* what the program died of, or "none"
  net, sent,            \* tokens to the session, frames from it
  peer,                 \* the other program: [prog, at, got, frame, intact, pos,
                        \* len], got what rz has, pos and len what sz has sent of
                        \* the file and of a subpacket
  bounds                \* [runs, retries, resends, busy, noise] so far

flagVars == <<isSz_, sendFinOnReset_, file_select_state_, bufferParsed_>>
lifeVars == <<initialized, isDestroyed_, deleted, dialog, crash>>
envVars  == <<net, peer>>
vars == <<state, event, initialized, timer, tasks, buffer, scan, frame, file, isSz_,
          sendFinOnReset_, file_select_state_, bufferParsed_, isDestroyed_,
          deleted, dialog, crash, net, sent, peer, bounds>>

\* A download opens its file for output only, an upload for input only.
\* It may be one that cannot be opened.
NewFile(mode, good) == [mode |-> mode, pos |-> 0, good |-> good, intact |-> TRUE]
NoFile == [mode |-> "closed", pos |-> 0, good |-> FALSE, intact |-> TRUE]
IsOpen == file.mode # "closed"

Token(k, t, n) == [k |-> k, t |-> t, n |-> n, len |-> 0]

\* A data subpacket sent, in one piece: end is "G" (ZCRCG) or "E" (ZCRCE), n the
\* place in the file.
Data(end, n, len) == [k |-> "data", t |-> end, n |-> n, len |-> len]

\* A token of a data subpacket received: before it come n bytes of the file and len
\* bytes of the subpacket.
Coded(k, t, n, len) == [k |-> k, t |-> t, n |-> n, len |-> len]
CodeKinds == {"byte", "zdle", "esc", "end", "crc"}

\* Where in the file a byte of the data is from: what is no part of it is from
\* nowhere in it.
Place(c) == IF c.t = "noise" THEN FileSize ELSE c.n

\* Nothing scanned yet.
Fresh == [at |-> 0, saved |-> 0, crc |-> <<>>]

\* A header in the stream: rz and the control frames of sz are hexadecimal,
\* and all but ZFIN end in XON; ZFILE, ZDATA and ZEOF of sz are 32-bit binary.
Header(t, n) ==
  <<Token("pad", "", 0),
    Token("enc", IF t \in {"ZFILE", "ZDATA", "ZEOF"} THEN "PARSE_BIN32" ELSE "PARSE_HEX", 0),
    Token("header", t, n)>>
  \o CASE t \in {"ZRQINIT", "ZRINIT", "ZRPOS"} ->
           <<Token("cr", "", 0), Token("xon", "", 0)>>
       [] t = "ZFIN" -> <<Token("cr", "", 0)>>
       [] OTHER -> <<>>

Init ==
  /\ state = "IDLE" /\ event = "none" /\ initialized = FALSE
  /\ timer = FALSE /\ tasks = <<>> /\ buffer = <<>> /\ scan = Fresh
  /\ frame = [type |-> "none", pos |-> 0]
  /\ file = NoFile
  /\ isSz_ = TRUE /\ sendFinOnReset_ = FALSE
  /\ file_select_state_ = "none" /\ bufferParsed_ = FALSE
  /\ isDestroyed_ = FALSE /\ deleted = FALSE /\ dialog = 0
  /\ crash = "none"
  /\ net = <<Token("noise", "prompt", 0)>> /\ sent = <<>>
  /\ peer = [prog |-> "none", at |-> "done", got |-> 0, frame |-> FALSE,
             intact |-> TRUE, pos |-> 0, len |-> 0]
  /\ bounds = [runs |-> 0, retries |-> 0, resends |-> 0, busy |-> 0,
               noise |-> 0]

-----------------------------------------------------------------------------
(* The table of getZmodemFsm.  EXIT_EVT only cancels the timer.            *)

ParseStates == {"PARSE_HEX", "PARSE_BIN", "PARSE_BIN32"}
States == {"IDLE", "CHK_FRAME_TYPE", "HANDLE_FRAME", "SEND_ZDATA",
           "SEND_FLOW_CTRL", "WAIT_DATA", "FILE_SELECTED"} \cup ParseStates

\* Faulty tables: no input in WAIT_DATA, no timeout in SEND_FLOW_CTRL.
TransitionsDeafWait ==
  {<<s, "RESET", "IDLE">> : s \in States}
  \cup {<<s, "NETWORK_INPUT", "CHK_FRAME_TYPE">> :
          s \in {"IDLE", "HANDLE_FRAME", "SEND_ZDATA", "FILE_SELECTED"}}
  \cup {<<"CHK_FRAME_TYPE", s, s>> : s \in ParseStates}
  \cup {<<s, "HANDLE_FRAME", "HANDLE_FRAME">> : s \in ParseStates}
  \cup {<<"HANDLE_FRAME", "FILE_SELECTED", "FILE_SELECTED">>,
        <<"HANDLE_FRAME", "WAIT_DATA", "WAIT_DATA">>,
        <<"HANDLE_FRAME", "SEND_ZDATA", "SEND_ZDATA">>,
        <<"SEND_ZDATA", "SEND_ZDATA", "SEND_ZDATA">>,
        <<"SEND_ZDATA", "SEND_ZDATA_LATER", "SEND_FLOW_CTRL">>}

Transitions ==
  {<<s, "RESET", "IDLE">> : s \in States}
  \cup {<<s, "DESTROY", "DESTROY">> : s \in States}
  \cup {<<s, "NETWORK_INPUT", "CHK_FRAME_TYPE">> :
          s \in {"IDLE", "HANDLE_FRAME", "SEND_ZDATA", "FILE_SELECTED"}}
  \cup {<<"CHK_FRAME_TYPE", s, s>> : s \in ParseStates}
  \cup {<<s, "HANDLE_FRAME", "HANDLE_FRAME">> : s \in ParseStates}
  \cup {<<"HANDLE_FRAME", "FILE_SELECTED", "FILE_SELECTED">>,
        <<"HANDLE_FRAME", "WAIT_DATA", "WAIT_DATA">>,
        <<"HANDLE_FRAME", "SEND_ZDATA", "SEND_ZDATA">>,
        <<"SEND_ZDATA", "SEND_ZDATA", "SEND_ZDATA">>,
        <<"SEND_ZDATA", "SEND_ZDATA_LATER", "SEND_FLOW_CTRL">>,
        <<"SEND_FLOW_CTRL", "TIMEOUT", "SEND_ZDATA">>,
        <<"WAIT_DATA", "NETWORK_INPUT", "HANDLE_FRAME">>}

Defined(s, e) == \E t \in Transitions : t[1] = s /\ t[2] = e

\* handleEvent without a change of state: more input for a header.
ParsesOn == state \in ParseStates /\ event = "NETWORK_INPUT"

Handling == crash = "none" /\ event # "none"

SendFrame(t, n) == sent' = Append(sent, Token("header", t, n))
\* Faulty post: isToDelete is not asked.
PostTaskAlways(e) == tasks' = Append(tasks, e)
PostTask(e) == tasks' = IF isDestroyed_ THEN tasks ELSE Append(tasks, e)

Entered(s) == Handling /\ state = s /\ event = "entry"

StreamKeeps == UNCHANGED <<buffer, scan, frame, file, sent>>
OutKeeps == UNCHANGED <<lifeVars, envVars>>

-----------------------------------------------------------------------------
(* Session::handleEvent.                                                   *)

\* The first event of a session runs initState, which empties the buffer.
FirstEvent ==
  /\ Handling /\ ~initialized
  /\ initialized' = TRUE
  /\ buffer' = <<>> /\ scan' = Fresh
  /\ UNCHANGED <<state, event, timer, tasks, frame, file, flagVars,
                 isDestroyed_, deleted, dialog, crash, envVars, sent, bounds>>

\* changeState: the exit action cancels the timer, then the entry action runs.
ChangeState(s) == state' = s /\ event' = "entry" /\ timer' = FALSE

\* An event the state does not define leads to END_STATE, whose entry action
\* leads to IDLE_STATE.
Undefined ==
  /\ Handling /\ initialized /\ event \notin {"entry", "more data"}
  /\ ~Defined(state, event) /\ ~ParsesOn
  /\ ChangeState("IDLE")
  /\ StreamKeeps /\ OutKeeps
  /\ UNCHANGED <<tasks, flagVars, bounds>>

Transition ==
  /\ Handling /\ initialized
  /\ \E t \in Transitions :
       t[1] = state /\ t[2] = event /\ ChangeState(t[3])
  /\ StreamKeeps /\ OutKeeps
  /\ UNCHANGED <<tasks, flagVars, bounds>>

MoreToParse ==
  /\ Handling /\ initialized /\ ParsesOn
  /\ event' = "entry"
  /\ StreamKeeps /\ OutKeeps
  /\ UNCHANGED <<state, timer, tasks, flagVars, bounds>>

HandlerKeeps == OutKeeps /\ UNCHANGED <<state, timer>>
-----------------------------------------------------------------------------
(* The entry actions.                                                      *)

\* initState: a transfer that was under way is given up with ZFIN, or with OO
\* when the receiver has confirmed our ZFIN.
InitState ==
  /\ Entered("IDLE")
  /\ IF IsOpen \/ sendFinOnReset_
     THEN /\ file' = NoFile
          /\ SendFrame(IF ~isSz_ /\ frame.type = "ZFIN" THEN "OO" ELSE "ZFIN", 0)
          /\ PostTask("RESET")
     ELSE UNCHANGED <<file, sent, tasks>>
  /\ buffer' = <<>> /\ scan' = Fresh
  /\ sendFinOnReset_' = FALSE /\ file_select_state_' = "none"
  /\ event' = "none"
  /\ HandlerKeeps
  /\ UNCHANGED <<frame, isSz_, bufferParsed_, bounds>>

Pads == {i \in 1 .. Len(buffer) : buffer[i].k = "pad"}
FirstPad == CHOOSE i \in Pads : \A j \in Pads : i <= j
FindsEncoding == Pads # {} /\ FirstPad < Len(buffer) /\ buffer[FirstPad + 1].k = "enc"

CheckFrametype ==
  /\ Entered("CHK_FRAME_TYPE")
  /\ IF FindsEncoding
     THEN /\ event' = buffer[FirstPad + 1].t
          /\ buffer' = SubSeq(buffer, FirstPad + 2, Len(buffer))
     ELSE event' = "RESET" /\ UNCHANGED buffer
  /\ HandlerKeeps
  /\ UNCHANGED <<tasks, scan, frame, file, flagVars, sent, bounds>>

\* parseHexFrame wants a byte after the header, and the XON if there is one.
HexComplete == Len(buffer) > 1
NeedsXon == buffer[1].t \notin {"ZACK", "ZFIN"}
HexTail == IF NeedsXon THEN 3 ELSE 2
HexWellFormed ==
  /\ buffer[1].k = "header" /\ buffer[2].k = "cr"
  /\ NeedsXon => Len(buffer) > 2 /\ buffer[3].k = "xon"

ParseWaits ==
  /\ Handling /\ state \in ParseStates /\ event = "entry"
  /\ IF state = "PARSE_HEX" THEN ~HexComplete ELSE buffer = <<>>
  /\ event' = "none"
  /\ StreamKeeps /\ HandlerKeeps
  /\ UNCHANGED <<tasks, flagVars, bounds>>

ParseHexFrame ==
  /\ Entered("PARSE_HEX") /\ HexComplete
  /\ IF HexWellFormed
     THEN /\ frame' = [type |-> buffer[1].t, pos |-> buffer[1].n]
          /\ buffer' = SubSeq(buffer, HexTail + 1, Len(buffer))
          /\ event' = "HANDLE_FRAME"
     ELSE event' = "RESET" /\ UNCHANGED <<buffer, frame>>
  /\ HandlerKeeps
  /\ UNCHANGED <<tasks, scan, file, flagVars, sent, bounds>>

\* parseBinFrame and parseBin32Frame.
ParseBinFrame ==
  /\ Handling /\ state \in {"PARSE_BIN", "PARSE_BIN32"} /\ event = "entry"
  /\ buffer # <<>>
  /\ IF buffer[1].k = "header"
     THEN /\ frame' = [type |-> buffer[1].t, pos |-> buffer[1].n]
          /\ buffer' = Tail(buffer)
          /\ event' = "HANDLE_FRAME"
     ELSE event' = "RESET" /\ UNCHANGED <<buffer, frame>>
  /\ HandlerKeeps
  /\ UNCHANGED <<tasks, scan, file, flagVars, sent, bounds>>

\* handleFrame: every header but an unknown one sets bufferParsed_.
FrameHandled(t) ==
  /\ Entered("HANDLE_FRAME") /\ frame.type = t
  /\ bufferParsed_' = TRUE

HandleZrqinit ==
  /\ FrameHandled("ZRQINIT")
  /\ SendFrame("ZRINIT", 0)
  /\ event' = "none"
  /\ HandlerKeeps
  /\ UNCHANGED <<tasks, buffer, scan, frame, file, isSz_, sendFinOnReset_,
                 file_select_state_, bounds>>

\* handleZfile: wait for the whole subpacket with the name and the size; an XON
\* behind it is eaten only if it has arrived.
InfoLength == IF Len(buffer) > 2 /\ buffer[3].k = "xon" THEN 3 ELSE 2

\* Faulty handleZfile: the file is not opened.
HandleZfileUnopened ==
  /\ FrameHandled("ZFILE")
  /\ isSz_' = TRUE
  /\ buffer' = <<>> /\ SendFrame("ZRPOS", 0) /\ event' = "none"
  /\ HandlerKeeps
  /\ UNCHANGED <<tasks, scan, frame, file, sendFinOnReset_, file_select_state_, bounds>>

HandleZfile ==
  /\ FrameHandled("ZFILE")
  /\ isSz_' = TRUE
  /\ IF Len(buffer) < 2
     THEN event' = "WAIT_DATA" /\ UNCHANGED <<buffer, file, sent>>
     ELSE /\ buffer' = SubSeq(buffer, InfoLength + 1, Len(buffer))
          /\ \E good \in BOOLEAN : (Calm => good) /\ file' = NewFile("out", good)
          /\ SendFrame("ZRPOS", 0)
          /\ event' = "none"
  /\ HandlerKeeps
  /\ UNCHANGED <<tasks, scan, frame, sendFinOnReset_, file_select_state_, bounds>>

(* handleZdata: a loop over the bytes of the buffer that moves the decoded    *)
(* ones to the front, where the scan can break off behind any byte and goes   *)
(* on from lastCheckExcaped_ when WAIT_DATA has got more.  "more data" is the *)
(* next round of the loop.                                                    *)

Unscanned == SubSeq(buffer, scan.at + 1, Len(buffer))

AtZdata ==
  /\ Handling /\ state = "HANDLE_FRAME" /\ frame.type = "ZDATA"
  /\ event \in {"entry", "more data"}

\* The last byte is not looked at.
LoopEnds == Len(Unscanned) < 2

\* Of a ZDLE and what follows there must be six bytes, of which a CRC has four.
SixBytes ==
  \/ Len(Unscanned) > 5
  \/ \E i \in 3 .. Len(Unscanned) : Unscanned[i].k = "crc"

AtEscape == ~LoopEnds /\ Unscanned[1].k = "zdle"
AtSubpacketEnd == AtEscape /\ SixBytes /\ Unscanned[2].k = "end"

\* The CRC has arrived, and it is that of the bytes decoded: no other bytes have it.
CrcHere == Len(Unscanned) > 2 /\ Unscanned[3].k = "crc"
CrcMatches ==
  LET c == Unscanned[3]
  IN  scan.crc = [i \in 1 .. c.len |-> c.n - c.len + i - 1]

\* The loop looks at buffer_.length() - 1 bytes, which is no small number when
\* there are none; a subpacket is written to zmodemFile_, and at the end of the
\* loop its progress is shown, without a test of zmodemFile_.
DataCrash ==
  CASE buffer = <<>> /\ event = "entry" -> "reads past the buffer"
    [] ~IsOpen /\ (LoopEnds \/ (AtSubpacketEnd /\ CrcHere /\ CrcMatches)) -> "no file"
    [] OTHER -> "none"

ScanKeeps ==
  /\ bufferParsed_' = TRUE
  /\ HandlerKeeps
  /\ UNCHANGED <<tasks, frame, isSz_, sendFinOnReset_, file_select_state_, sent, bounds>>

HandleZdataCrashes ==
  /\ AtZdata /\ DataCrash # "none"
  /\ crash' = DataCrash
  /\ StreamKeeps
  /\ UNCHANGED <<state, event, initialized, timer, tasks, flagVars,
                 isDestroyed_, deleted, dialog, envVars, bounds>>

\* Faulty eatBuffer: what is decoded of the subpacket is forgotten.
ScanBreaksOffForgetful == scan' = [scan EXCEPT !.saved = 0]

\* WAIT_DATA; eatBuffer keeps both indices where they are in what it leaves.
ScanBreaksOff == UNCHANGED scan

WaitForData ==
  /\ AtZdata /\ DataCrash = "none"
  /\ LoopEnds \/ (AtEscape /\ ~SixBytes) \/ (AtSubpacketEnd /\ ~CrcHere)
  /\ ScanBreaksOff
  /\ event' = "WAIT_DATA"
  /\ UNCHANGED <<buffer, file>>
  /\ ScanKeeps

\* One byte, or an escape and the byte it stands for.
DecodeByte ==
  /\ AtZdata /\ DataCrash = "none"
  /\ ~LoopEnds /\ (AtEscape => SixBytes /\ Unscanned[2].k # "end")
  /\ LET length == IF AtEscape THEN 2 ELSE 1
         c == Unscanned[length]
     IN  /\ buffer' = [buffer EXCEPT ![scan.saved + 1] = c]
         /\ scan' = [at |-> scan.at + length, saved |-> scan.saved + 1,
                     crc |-> Append(scan.crc, Place(c))]
  /\ event' = "more data"
  /\ UNCHANGED file
  /\ ScanKeeps

\* ZmodemFile::write, which refuses what is more than the file should have;
\* intact says that it put the data where it belongs.
Refuses(f, data) == ~f.good \/ f.pos + Len(data) > FileSize
Written(f, data) ==
  [f EXCEPT !.pos = @ + Len(data),
            !.intact = @ /\ f.mode = "out"
                         /\ \A i \in 1 .. Len(data) : Place(data[i]) = f.pos + i - 1]

\* ZCRCG or ZCRCE behind the right CRC.  The assertion that a subpacket of ZCRCG
\* has 1024 bytes holds of what lrzsz sends.
SubpacketWritten ==
  /\ AtZdata /\ DataCrash = "none"
  /\ AtSubpacketEnd /\ CrcHere /\ CrcMatches
  /\ LET data == SubSeq(buffer, 1, scan.saved)
     IN  IF Refuses(file, data)
         THEN event' = "RESET" /\ UNCHANGED <<buffer, scan, file>>
         ELSE /\ file' = Written(file, data)
              /\ buffer' = SubSeq(buffer, scan.at + 4, Len(buffer))
              /\ scan' = Fresh
              /\ event' = IF Unscanned[2].t = "E" THEN "NETWORK_INPUT" ELSE "more data"
  /\ ScanKeeps

\* With the wrong CRC a ZCRCG is the end of the transfer, while a ZCRCE is taken
\* for data, though nothing is moved.
SubpacketWrong ==
  /\ AtZdata /\ DataCrash = "none"
  /\ AtSubpacketEnd /\ CrcHere /\ ~CrcMatches
  /\ IF Unscanned[2].t = "G"
     THEN event' = "RESET" /\ UNCHANGED scan
     ELSE /\ scan' = [scan EXCEPT !.at = @ + 1, !.saved = @ + 1]
          /\ event' = "more data"
  /\ UNCHANGED <<buffer, file>>
  /\ ScanKeeps

HandleZdata == WaitForData \/ DecodeByte \/ SubpacketWritten \/ SubpacketWrong

HandleZeof ==
  /\ FrameHandled("ZEOF")
  /\ file' = NoFile
  /\ SendFrame("ZRINIT", 0)
  /\ event' = "none"
  /\ HandlerKeeps
  /\ UNCHANGED <<tasks, buffer, scan, frame, isSz_, sendFinOnReset_,
                 file_select_state_, bounds>>

HandleZfin ==
  /\ FrameHandled("ZFIN")
  /\ sendFinOnReset_' = TRUE
  /\ event' = "RESET"
  /\ StreamKeeps /\ HandlerKeeps
  /\ UNCHANGED <<tasks, isSz_, file_select_state_, bounds>>

\* ZRINIT of rz: the first opens the dialog; one that comes when the file has
\* been read to its end closes the transfer; any other is a retry.
HandleZrinit ==
  /\ FrameHandled("ZRINIT")
  /\ isSz_' = FALSE
  /\ CASE file_select_state_ = "none" ->
            /\ file_select_state_' = "selecting" /\ sendFinOnReset_' = TRUE
            /\ dialog' = dialog + 1 /\ timer' = FALSE
            /\ event' = "none" /\ UNCHANGED sent
       [] file_select_state_ = "selected" /\ IsOpen /\ ~file.good ->
            /\ SendFrame("ZCOMPL", 0)
            /\ event' = "RESET" /\ file_select_state_' = "none"
            /\ UNCHANGED <<sendFinOnReset_, dialog, timer>>
       [] OTHER ->
            /\ event' = "none"
            /\ UNCHANGED <<file_select_state_, sendFinOnReset_, dialog, timer, sent>>
  /\ UNCHANGED <<state, initialized, tasks, buffer, scan, frame, file, isDestroyed_,
                 deleted, crash, envVars, bounds>>

\* ZmodemFile::read fails at the end of the file, and for good.
ReadLength(f) ==
  LET rest == FileSize - f.pos
  IN  IF ~f.good \/ f.mode = "out" THEN 0
      ELSE IF rest < BlockSize THEN rest ELSE BlockSize
\* Faulty read: it takes more from the file than it returns.
AfterReadSkips(f) ==
  [f EXCEPT !.pos = @ + ReadLength(f) + 1,
            !.good = @ /\ ReadLength(f) = BlockSize]
AfterRead(f) ==
  [f EXCEPT !.pos = @ + ReadLength(f),
            !.good = @ /\ ReadLength(f) = BlockSize]

Block(f) ==
  IF AfterRead(f).good
  THEN <<Data("G", f.pos, ReadLength(f))>>
  ELSE <<Data("E", f.pos, ReadLength(f)),
         Token("header", "ZEOF", AfterRead(f).pos)>>

\* sendZdata, when before has been sent.
SendZdata(f, before) ==
  /\ sent' = sent \o before \o Block(f)
  /\ file' = AfterRead(f)
  /\ IF file'.good THEN PostTask("SEND_ZDATA") ELSE UNCHANGED tasks
  /\ UNCHANGED bounds

\* The same when the back end holds too much that is not yet sent.
SendZdataLater(f, before) ==
  /\ \E i \in DOMAIN sent : sent[i].k = "data"
  /\ bounds.busy < MaxBusy
  /\ bounds' = [bounds EXCEPT !.busy = @ + 1]
  /\ PostTask("SEND_ZDATA_LATER")
  /\ file' = f /\ sent' = sent \o before

\* ZmodemFile::setPos seeks, and leaves a stream that has failed as it is.
SetPos(f, n) == IF n > FileSize THEN f ELSE [f EXCEPT !.pos = n]

HandleZrpos ==
  /\ FrameHandled("ZRPOS") /\ IsOpen
  /\ LET f == SetPos(file, frame.pos)
         zdata == <<Token("header", "ZDATA", f.pos)>>
     IN  SendZdata(f, zdata) \/ SendZdataLater(f, zdata)
  /\ event' = "none"
  /\ HandlerKeeps
  /\ UNCHANGED <<buffer, scan, frame, isSz_, sendFinOnReset_, file_select_state_>>

RefuseZrpos ==
  /\ FrameHandled("ZRPOS") /\ ~IsOpen
  /\ sendFinOnReset_' = TRUE
  /\ sent' = sent \o <<Token("header", "ZCAN", 0), Token("header", "ZABORT", 0)>>
  /\ event' = "RESET"
  /\ HandlerKeeps
  /\ UNCHANGED <<tasks, buffer, scan, frame, file, isSz_, file_select_state_, bounds>>

EnterSendZdata ==
  /\ Entered("SEND_ZDATA") /\ IsOpen
  /\ SendZdata(file, <<>>) \/ SendZdataLater(file, <<>>)
  /\ event' = "none"
  /\ HandlerKeeps
  /\ UNCHANGED <<buffer, scan, frame, flagVars>>

SendZdataCrashes ==
  /\ Entered("SEND_ZDATA") /\ ~IsOpen
  /\ crash' = "no file"
  /\ StreamKeeps
  /\ UNCHANGED <<state, event, initialized, timer, tasks, flagVars,
                 isDestroyed_, deleted, dialog, envVars, bounds>>

EnterSendFlowCtrl ==
  /\ Entered("SEND_FLOW_CTRL")
  /\ timer' = TRUE /\ event' = "none"
  /\ StreamKeeps /\ OutKeeps
  /\ UNCHANGED <<state, tasks, flagVars, bounds>>

EnterWaitData ==
  /\ Entered("WAIT_DATA")
  /\ event' = "none"
  /\ StreamKeeps /\ HandlerKeeps
  /\ UNCHANGED <<tasks, flagVars, bounds>>

\* sendFileInfo; the file chosen may have gone, or be one that cannot be opened.
SendFileInfo ==
  /\ Entered("FILE_SELECTED")
  /\ \/ /\ sent' = sent \o <<Token("header", "ZFILE", 0), Token("info", "", 0)>>
        /\ \E good \in BOOLEAN : (Calm => good) /\ file' = NewFile("in", good)
        /\ event' = "none"
        /\ UNCHANGED bufferParsed_
     \/ /\ MayCancel
        /\ bufferParsed_' = FALSE /\ event' = "RESET"
        /\ UNCHANGED <<sent, file>>
  /\ HandlerKeeps
  /\ UNCHANGED <<tasks, buffer, scan, frame, isSz_, sendFinOnReset_,
                 file_select_state_, bounds>>

DeleteSelf ==
  /\ Entered("DESTROY")
  /\ deleted' = TRUE /\ event' = "none"
  /\ StreamKeeps
  /\ UNCHANGED <<state, initialized, timer, tasks, flagVars, isDestroyed_,
                 dialog, crash, envVars, bounds>>

Handler ==
  \/ FirstEvent \/ Undefined \/ Transition \/ MoreToParse \/ InitState
  \/ CheckFrametype \/ ParseWaits \/ ParseHexFrame \/ ParseBinFrame
  \/ HandleZrqinit \/ HandleZfile \/ HandleZdataCrashes \/ HandleZdata
  \/ HandleZeof \/ HandleZfin \/ HandleZrinit \/ HandleZrpos \/ RefuseZrpos
  \/ EnterSendZdata \/ SendZdataCrashes \/ EnterSendFlowCtrl \/ EnterWaitData \/ SendFileInfo
  \/ DeleteSelf
-----------------------------------------------------------------------------
(* The events from outside.                                                *)

Idle == crash = "none" /\ event = "none"

\* A task, and the file dialog, hold the bare pointer of the session.
Deliver(e) ==
  IF deleted THEN crash' = "freed session" /\ UNCHANGED event
  ELSE event' = e /\ UNCHANGED crash

RunTask ==
  /\ Idle /\ tasks # <<>>
  /\ tasks' = Tail(tasks)
  /\ Deliver(Head(tasks))
  /\ StreamKeeps
  /\ UNCHANGED <<state, initialized, timer, flagVars, isDestroyed_, deleted,
                 dialog, envVars, bounds>>

Timeout ==
  /\ Idle /\ timer
  /\ timer' = FALSE /\ event' = "TIMEOUT"
  /\ StreamKeeps /\ OutKeeps
  /\ UNCHANGED <<state, tasks, flagVars, bounds>>

FileSelected ==
  /\ Idle /\ dialog > 0
  /\ dialog' = dialog - 1
  /\ file_select_state_' = "selected"
  /\ Deliver("FILE_SELECTED")
  /\ StreamKeeps
  /\ UNCHANGED <<state, initialized, timer, tasks, isSz_, sendFinOnReset_,
                 bufferParsed_, isDestroyed_, deleted, envVars, bounds>>

isDoingRz == state # "IDLE" \/ bufferParsed_

\* reset; what the exit and entry actions of RESET do leaves bufferParsed_ alone.
Reset ==
  /\ SendFrame("CANCEL", 0)
  /\ event' = "RESET"
  /\ bufferParsed_' = FALSE

FileCanceled ==
  /\ Idle /\ MayCancel /\ dialog > 0
  /\ dialog' = dialog - 1
  /\ IF deleted
     THEN crash' = "freed session" /\ UNCHANGED <<sent, event, bufferParsed_>>
     ELSE Reset /\ UNCHANGED crash
  /\ UNCHANGED <<state, initialized, timer, tasks, buffer, scan, frame, file, isSz_,
                 sendFinOnReset_, file_select_state_, isDestroyed_, deleted,
                 envVars, bounds>>

\* Ctrl+C.
UserCancels ==
  /\ Idle /\ ~deleted /\ MayCancel /\ isDoingRz
  /\ Reset
  /\ HandlerKeeps
  /\ UNCHANGED <<tasks, buffer, scan, frame, file, isSz_, sendFinOnReset_,
                 file_select_state_, bounds>>

\* The tab is closed.
Destroy ==
  /\ Idle /\ MayCancel /\ ~isDestroyed_
  /\ isDestroyed_' = TRUE
  /\ tasks' = Append(tasks, "DESTROY")
  /\ StreamKeeps
  /\ UNCHANGED <<state, event, initialized, timer, flagVars, deleted, dialog,
                 crash, envVars, bounds>>

\* checkZSession: a chunk is any number of the bytes that have arrived.
EndsData(token) == token.k = "crc" /\ token.t = "E"
Begins(i) == net[i].k = "noise" \/ (net[i].k = "pad" /\ ~EndsData(net[i - 1]))

\* A chunk the decoder can bear: no part of two frames (it would keep the second
\* until there is more input), ZEOF with the last data before it, and no header
\* cut, nor cut off from what follows.  Data may be cut anywhere.
OneFrame(n) ==
  /\ \A i \in 2 .. n : ~Begins(i)
  /\ \/ n = Len(net) /\ net[n].t # "ZDATA"
     \/ n < Len(net) /\ Begins(n + 1)
     \/ n < Len(net) /\ net[n].k \in CodeKinds /\ net[n + 1].k \in CodeKinds

\* Some bytes of data are under seven or are not, a part of a header is.
Short(chunk) ==
  \A i \in DOMAIN chunk : chunk[i].k \notin {"header", "info"} /\ chunk[i].t # "prompt"
Long(chunk) == ~Short(chunk) \/ \E i \in DOMAIN chunk : chunk[i].k \in CodeKinds

Chunks == {SubSeq(net, 1, n) : n \in {m \in 1 .. Len(net) : Calm => OneFrame(m)}}

Receives(chunk) ==
  /\ Idle /\ ~deleted /\ chunk \in Chunks
  /\ Calm => \A i \in DOMAIN tasks : tasks[i] # "RESET"
  /\ net' = SubSeq(net, Len(chunk) + 1, Len(net))

GivesUpOnZmodem(chunk) ==
  state = "HANDLE_FRAME" /\ chunk = <<Token("noise", "C", 0)>>

\* Returns before it does anything: the terminal shows the chunk.
IgnoreInput ==
  /\ \E chunk \in Chunks : Receives(chunk) /\ ~isDoingRz /\ Short(chunk)
  /\ StreamKeeps
  /\ UNCHANGED <<state, event, timer, tasks, flagVars, lifeVars, peer, bounds>>

ResetOnInput ==
  /\ \E chunk \in Chunks : Receives(chunk) /\ GivesUpOnZmodem(chunk)
  /\ Reset
  /\ UNCHANGED <<state, timer, tasks, buffer, scan, frame, file, isSz_,
                 sendFinOnReset_, file_select_state_, lifeVars, peer, bounds>>

ProcessNetworkInput ==
  /\ \E chunk \in Chunks :
       /\ Receives(chunk)
       /\ isDoingRz \/ Long(chunk)
       /\ ~GivesUpOnZmodem(chunk)
       /\ buffer' = buffer \o chunk
  /\ bufferParsed_' = FALSE
  /\ event' = "NETWORK_INPUT"
  /\ UNCHANGED <<state, timer, tasks, scan, frame, file, sent, isSz_, sendFinOnReset_,
                 file_select_state_, lifeVars, peer, bounds>>
-----------------------------------------------------------------------------
(* The other program (lrzsz), as the session finds it.  A program is started *)
(* by a command the user types after the prompt, which the file dialog, a    *)
(* modal one, prevents; what it sends arrives in order, and what it receives *)
(* is complete.                                                             *)

Ended == {"done", "aborted", "timed out"}

SessionKeeps ==
  UNCHANGED <<state, event, timer, tasks, buffer, scan, frame, file, flagVars, lifeVars>>

Emits(tokens) == net' = net \o tokens

StartPeer(prog) ==
  /\ bounds.runs < MaxRuns /\ peer.at \in Ended
  /\ initialized /\ ~deleted /\ dialog = 0
  /\ Calm => event = "none" /\ tasks = <<>> /\ net = <<>> /\ sent = <<>>
  /\ bounds' = [bounds EXCEPT !.runs = @ + 1]
  /\ peer' = [prog |-> prog, at |-> "open", got |-> 0, frame |-> FALSE, intact |-> TRUE,
               pos |-> 0, len |-> 0]
  /\ Emits(Header(IF prog = "sz" THEN "ZRQINIT" ELSE "ZRINIT", 0))
  /\ UNCHANGED sent
  /\ SessionKeeps

\* rz waits ten seconds, asks again, and in the end tries another protocol.
RetryZrinit ==
  /\ peer.prog = "rz" /\ peer.at = "open"
  /\ bounds.retries < MaxRetries
  /\ bounds' = [bounds EXCEPT !.retries = @ + 1]
  /\ \/ Emits(Header("ZRINIT", 0)) /\ UNCHANGED peer
     \/ Emits(<<Token("noise", "C", 0)>>) /\ peer' = [peer EXCEPT !.at = "timed out"]
  /\ UNCHANGED sent
  /\ SessionKeeps

\* rz asks for the data again from the first byte it lacks.
ResendZrpos ==
  /\ peer.prog = "rz" /\ peer.at = "data"
  /\ bounds.resends < MaxResends
  /\ bounds' = [bounds EXCEPT !.resends = @ + 1]
  /\ peer' = [peer EXCEPT !.frame = FALSE]
  /\ Emits(Header("ZRPOS", peer.got))
  /\ UNCHANGED sent
  /\ SessionKeeps

\* The data sz sends for a ZRPOS, a byte or the end of a subpacket at a time, and
\* behind the last one ZEOF.
SzSendsByte ==
  /\ peer.prog = "sz" /\ peer.at = "data"
  /\ peer.len < BlockSize /\ peer.pos < FileSize
  /\ peer' = [peer EXCEPT !.pos = @ + 1, !.len = @ + 1]
  /\ \/ Emits(<<Coded("byte", "", peer.pos, peer.len)>>)
     \/ Emits(<<Coded("zdle", "", peer.pos, peer.len), Coded("esc", "", peer.pos, peer.len)>>)
  /\ UNCHANGED <<sent, bounds>>
  /\ SessionKeeps

\* What another program prints is among the bytes of sz.
Intrude ==
  /\ peer.prog = "sz" /\ peer.at = "data"
  /\ bounds.noise < MaxNoise
  /\ bounds' = [bounds EXCEPT !.noise = @ + 1]
  /\ Emits(<<Coded("byte", "noise", peer.pos, peer.len)>>)
  /\ UNCHANGED <<sent, peer>>
  /\ SessionKeeps

SubpacketEnd(t) ==
  <<Coded("zdle", "", peer.pos, peer.len), Coded("end", t, peer.pos, peer.len),
    Coded("crc", t, peer.pos, peer.len)>>

SzEndsSubpacket ==
  /\ peer.prog = "sz" /\ peer.at = "data"
  /\ \/ /\ peer.len = BlockSize
        /\ peer' = [peer EXCEPT !.len = 0]
        /\ Emits(SubpacketEnd("G"))
     \/ /\ peer.len < BlockSize /\ peer.pos >= FileSize
        /\ peer' = [peer EXCEPT !.at = "eof"]
        /\ Emits(SubpacketEnd("E") \o Header("ZEOF", peer.pos))
  /\ UNCHANGED <<sent, bounds>>
  /\ SessionKeeps

\* What a frame makes of a program: where it is next and what it sends.
Endings == {"CANCEL", "ZCAN", "ZABORT", "ZFIN"}
Otherwise(f) == <<IF f.t \in Endings THEN "aborted" ELSE peer.at, <<>>>>

SzAnswer(f) ==
  CASE peer.at = "open" /\ f.t = "ZRINIT" ->
         <<"info", Header("ZFILE", 0)
                   \o <<Token("info", "", 0), Token("crc", "", 0), Token("xon", "", 0)>>>>
    [] peer.at = "info" /\ f.t = "ZRPOS" -> <<"data", Header("ZDATA", f.n)>>
    [] peer.at = "eof" /\ f.t = "ZRINIT" -> <<"fin", Header("ZFIN", 0)>>
    [] peer.at = "fin" /\ f.t = "ZFIN" -> <<"done", <<Token("noise", "OO", 0)>>>>
    [] OTHER -> Otherwise(f)

RzAnswer(f) ==
  CASE peer.at = "open" /\ f.k = "info" -> <<"data", Header("ZRPOS", 0)>>
    [] peer.at = "data" /\ f.t = "ZEOF" /\ f.n = peer.got ->
         <<"accepted", Header("ZRINIT", 0)>>
    [] peer.at = "accepted" /\ f.t = "ZFIN" -> <<"fin", Header("ZFIN", 0)>>
    [] peer.at = "fin" /\ f.t = "OO" -> <<"done", <<>>>>
    [] OTHER -> Otherwise(f)

PeerHears ==
  /\ sent # <<>> /\ peer.at \notin Ended
  /\ sent' = Tail(sent)
  /\ LET f == Head(sent)
         answer == IF peer.prog = "sz" THEN SzAnswer(f) ELSE RzAnswer(f)
         asked == peer.at = "info" /\ f.t = "ZRPOS"
     IN  \/ /\ f.k = "data" /\ peer.frame
            /\ peer' = [peer EXCEPT !.got = @ + f.len, !.intact = @ /\ f.n = peer.got,
                                    !.frame = f.t = "G"]
            /\ UNCHANGED <<net, bounds>>
         \/ /\ f.k # "data" /\ peer.frame     \* a bad subpacket
            /\ peer' = [peer EXCEPT !.frame = FALSE]
            /\ Emits(Header("ZRPOS", peer.got))
            /\ bounds.resends < MaxResends
            /\ bounds' = [bounds EXCEPT !.resends = @ + 1]
         \/ /\ ~peer.frame \/ f.t \in Endings
            /\ peer' = [peer EXCEPT !.at = answer[1],
                 !.frame = answer[1] = "data" /\ f.t = "ZDATA" /\ f.n = peer.got,
                 !.pos = IF asked THEN f.n ELSE @, !.len = IF asked THEN 0 ELSE @]
            /\ Emits(answer[2])
            /\ UNCHANGED bounds
  /\ SessionKeeps

\* A shell reads what nobody else does.
ShellHears ==
  /\ sent # <<>> /\ peer.at \in Ended
  /\ sent' = Tail(sent)
  /\ UNCHANGED <<net, peer, bounds>>
  /\ SessionKeeps
-----------------------------------------------------------------------------
Peer ==
  \/ StartPeer("sz") \/ StartPeer("rz")
  \/ RetryZrinit \/ ResendZrpos \/ SzSendsByte \/ Intrude \/ SzEndsSubpacket
  \/ PeerHears \/ ShellHears

Outside ==
  \/ RunTask \/ Timeout \/ FileSelected \/ FileCanceled \/ UserCancels \/ Destroy
  \/ IgnoreInput \/ ResetOnInput \/ ProcessNetworkInput

Next == Handler \/ Outside \/ Peer
Spec == Init /\ [][Next]_vars

\* The UI thread handles what it has begun and runs its message loop, the
\* timer fires, what is sent arrives and the other program answers.
Fairness ==
  /\ WF_vars(Handler)
  /\ WF_vars(RunTask) /\ WF_vars(Timeout)
  /\ WF_vars(IgnoreInput \/ ProcessNetworkInput)
  /\ WF_vars(SzSendsByte \/ SzEndsSubpacket)
  /\ WF_vars(PeerHears \/ ShellHears)
FairSpec == Spec /\ Fairness
-----------------------------------------------------------------------------
(* Properties.                                                             *)

Events == {"none", "entry", "more data", "RESET", "DESTROY", "NETWORK_INPUT",
           "HANDLE_FRAME", "FILE_SELECTED", "WAIT_DATA", "SEND_ZDATA",
           "SEND_ZDATA_LATER", "TIMEOUT"} \cup ParseStates

\* The variables keep their types, the position in the file, for a download and an
\* upload, stays in the file, and both indices of the scan in the buffer: what is
\* decoded never overtakes what is read.
TypeOK ==
  /\ state \in States \cup {"DESTROY"} /\ event \in Events
  /\ {initialized, timer, isSz_, sendFinOnReset_, bufferParsed_, isDestroyed_,
      deleted} \subseteq BOOLEAN
  /\ file_select_state_ \in {"none", "selecting", "selected"}
  /\ file \in [mode : {"closed", "in", "out"}, pos : 0 .. FileSize,
               good : BOOLEAN, intact : BOOLEAN]
  /\ scan.at \in 0 .. Len(buffer) /\ scan.saved \in 0 .. scan.at
  /\ \A i \in DOMAIN tasks : tasks[i] \in Events
  /\ peer.got \in Nat
  /\ dialog \in Nat

\* When the ZEOF of sz makes the session close a file and ask for the next one,
\* that file is whole: handleZdata decoded and wrote each byte at its place, once,
\* wherever a chunk of input broke off its scan, inside an escape or a CRC too.  It is
\* said of the first transfer of a session: a second can meet data left of the first.
AsksForNext == Len(sent') > Len(sent) /\ sent'[Len(sent')].t = "ZRINIT"
DownloadWhole ==
  [][bounds.runs <= 1 /\ frame.type = "ZEOF" /\ IsOpen /\ AsksForNext
       => file.pos = FileSize /\ file.intact]_vars

\* What rz accepts of an upload is the file, in order and no more of it than there
\* is, even when it asks for data again and sendZdata is then posted twice.  It is
\* said of the first transfer of a session: what is left in the terminal of one
\* that broke off is read as part of the next.
UploadInOrder ==
  bounds.runs <= 1 => peer.intact /\ peer.got <= FileSize

\* After deleteSelf no event is left in the message loop: a task holds the bare
\* pointer of the session.
NoTaskAfterDelete == deleted => tasks = <<>>

\* Without a cancel, and with chunks the decoder can bear, nothing dereferences
\* a file that is not open or a session that is gone.
NoCrash == crash = "none"

\* In calm conditions a program that is started ends well, unless it tires of
\* waiting, or waits for the user to pick a file; and an upload completes when
\* that is done: rz has the whole file.
TransferCompletes ==
  /\ peer.at = "open" ~> (peer.at \in {"done", "timed out"} \/ dialog > 0)
  /\ (state = "FILE_SELECTED" /\ peer.at = "open")
       ~> (peer.at = "done" /\ peer.got = FileSize) \/ peer.at = "timed out"
=============================================================================
