------------------------- MODULE ZmodemSessionProofs -------------------------
(***************************************************************************)
(* Proofs about ZmodemSession, for files and subpackets of any size, any    *)
(* number of transfers, retries and cancels, and input cut anywhere.        *)
(***************************************************************************)
EXTENDS ZmodemSession, Integers, SequenceTheorems, WellFoundedInduction,
        NaturalsInduction, TLAPS

Kinds == {"pad", "enc", "header", "cr", "xon", "noise", "info", "data"} \cup CodeKinds
Names == {"", "noise", "prompt", "C", "OO", "G", "E", "PARSE_HEX", "PARSE_BIN32",
          "ZRQINIT", "ZRINIT", "ZFILE", "ZRPOS", "ZDATA", "ZEOF", "ZFIN", "ZCAN",
          "ZABORT", "ZCOMPL", "CANCEL"}

\* The first byte of a header says how it is parsed.
Tokens == {x \in [k : Kinds, t : Names, n : Nat, len : Nat] :
             x.k = "enc" => x.t \in ParseStates}

\* What the session sends: it asks for a file from its first byte.
Frames == {x \in Tokens : x.t = "ZRPOS" => x.n = 0}

Files == [mode : {"closed", "in", "out"}, pos : 0 .. FileSize,
          good : BOOLEAN, intact : BOOLEAN]
Places == {"done", "aborted", "timed out", "open", "info", "data", "eof", "fin",
           "accepted"}
Posts == {"RESET", "SEND_ZDATA", "SEND_ZDATA_LATER", "DESTROY"}

Typed ==
  /\ state \in States \cup {"DESTROY"} /\ event \in Events
  /\ initialized \in BOOLEAN /\ timer \in BOOLEAN /\ isSz_ \in BOOLEAN
  /\ sendFinOnReset_ \in BOOLEAN /\ bufferParsed_ \in BOOLEAN
  /\ isDestroyed_ \in BOOLEAN /\ deleted \in BOOLEAN
  /\ file_select_state_ \in {"none", "selecting", "selected"}
  /\ dialog \in Nat
  /\ file \in Files
  /\ tasks \in Seq(Posts)
  /\ scan \in [at : Nat, saved : Nat, crc : Seq(Nat)]
  /\ buffer \in Seq(Tokens) /\ net \in Seq(Tokens) /\ sent \in Seq(Frames)
  /\ frame \in [type : Names \cup {"none"}, pos : Nat]
  /\ peer \in [prog : {"none", "sz", "rz"}, at : Places, got : Nat,
               frame : BOOLEAN, intact : BOOLEAN, pos : Nat, len : Nat]
  /\ bounds \in [runs : Nat, retries : Nat, resends : Nat, busy : Nat, noise : Nat]

\* A scan is under way from a header ZDATA to the end of its data, or until the state
\* machine gets to what gives up.
Scanning ==
  \/ state = "DESTROY"
  \/ state = "IDLE" /\ event = "entry"
  \/ /\ frame.type = "ZDATA"
     /\ \/ state = "WAIT_DATA"
        \/ state = "HANDLE_FRAME" /\ event \in {"entry", "more data", "WAIT_DATA", "RESET"}

\* The scan stays in the buffer, and what it has decoded behind what it has read.
Scanned ==
  /\ scan.at <= Len(buffer) /\ scan.saved <= scan.at
  /\ scan = Fresh \/ Scanning

-----------------------------------------------------------------------------
(* Sequences and tokens.                                                   *)

\* A part of a sequence holds elements of the sequence: processNetworkInput takes
\* a chunk out of the stream.
LEMMA PartOfSeq ==
  ASSUME NEW S, NEW q \in Seq(S), NEW m \in Nat \ {0}
  PROVE  SubSeq(q, m, Len(q)) \in Seq(S)
<1>1. CASE m > Len(q)
  <2>1. Len(q) \in Nat /\ SubSeq(q, m, Len(q)) = <<>>
    BY <1>1, SubSeqEmpty
  <2> QED
    BY <2>1
<1>2. CASE m <= Len(q)
  BY <1>2, SubSeqProperties
<1> QED
  BY <1>1, <1>2

\* The first n elements of a sequence are n of its elements, in their places.
LEMMA StartOfSeq ==
  ASSUME NEW S, NEW q \in Seq(S), NEW n \in 0 .. Len(q)
  PROVE  /\ SubSeq(q, 1, n) \in Seq(S) /\ Len(SubSeq(q, 1, n)) = n
         /\ \A i \in 1 .. n : SubSeq(q, 1, n)[i] = q[i]
<1>1. \A i \in 1 .. n : q[i] \in S
  BY ElementOfSeq
<1> QED
  BY <1>1, SubSeqProperties

\* Sequences of one to three elements, as headers and subpackets are built of.
LEMMA Tuples ==
  ASSUME NEW S, NEW a \in S, NEW b \in S, NEW c \in S
  PROVE  /\ <<a>> \in Seq(S) /\ <<a, b>> \in Seq(S) /\ <<a, b, c>> \in Seq(S)
OBVIOUS

\* Elements joined behind others: what arrives is put behind what is buffered.
LEMMA Joined ==
  ASSUME NEW S, NEW p \in Seq(S), NEW q \in Seq(S)
  PROVE  p \o q \in Seq(S)
OBVIOUS

\* What headers, data and noise are made of are tokens.
LEMMA Literals ==
  /\ \A t \in Names : \A n \in Nat : Token("header", t, n) \in Tokens
  /\ \A t \in Names : \A n, len \in Nat : Data(t, n, len) \in Tokens
  /\ Token("pad", "", 0) \in Tokens /\ Token("cr", "", 0) \in Tokens
  /\ Token("xon", "", 0) \in Tokens /\ Token("crc", "", 0) \in Tokens
  /\ Token("info", "", 0) \in Frames
  /\ Token("enc", "PARSE_HEX", 0) \in Tokens /\ Token("enc", "PARSE_BIN32", 0) \in Tokens
  /\ \A t \in Names : Token("noise", t, 0) \in Tokens
BY DEF Token, Data, Tokens, Frames, Kinds, CodeKinds, Names, ParseStates

\* The tokens of a header are those of any set S that holds them.
HeadersIn(S) ==
  /\ Token("pad", "", 0) \in S /\ Token("cr", "", 0) \in S /\ Token("xon", "", 0) \in S
  /\ Token("enc", "PARSE_HEX", 0) \in S /\ Token("enc", "PARSE_BIN32", 0) \in S

\* A header whose frame byte is in S is a sequence over S (sendFrameHeader).
LEMMA HeaderIn ==
  ASSUME NEW S, HeadersIn(S), NEW t, NEW n, Token("header", t, n) \in S
  PROVE  Header(t, n) \in Seq(S)
<1> DEFINE enc == Token("enc", IF t \in {"ZFILE", "ZDATA", "ZEOF"}
                               THEN "PARSE_BIN32" ELSE "PARSE_HEX", 0)
           tail == CASE t \in {"ZRQINIT", "ZRINIT", "ZRPOS"} ->
                          <<Token("cr", "", 0), Token("xon", "", 0)>>
                     [] t = "ZFIN" -> <<Token("cr", "", 0)>>
                     [] OTHER -> <<>>
<1>1. enc \in S
  BY DEF HeadersIn
<1>2. tail \in Seq(S)
  <2>1. <<Token("cr", "", 0), Token("xon", "", 0)>> \in Seq(S)
    BY Tuples DEF HeadersIn
  <2>2. <<Token("cr", "", 0)>> \in Seq(S)
    BY Tuples DEF HeadersIn
  <2>3. <<>> \in Seq(S)
    OBVIOUS
  <2>4. tail \in {<<Token("cr", "", 0), Token("xon", "", 0)>>, <<Token("cr", "", 0)>>, <<>>}
    OBVIOUS
  <2> HIDE DEF tail
  <2> QED
    BY <2>1, <2>2, <2>3, <2>4
<1>3. <<Token("pad", "", 0), enc, Token("header", t, n)>> \in Seq(S)
  <2>1. Token("pad", "", 0) \in S /\ Token("header", t, n) \in S
    BY DEF HeadersIn
  <2> HIDE DEF enc
  <2> QED
    BY <1>1, <2>1, Tuples
<1>4. Header(t, n) = <<Token("pad", "", 0), enc, Token("header", t, n)>> \o tail
  BY DEF Header
<1> DEFINE head == <<Token("pad", "", 0), enc, Token("header", t, n)>>
<1> HIDE DEF tail, head
<1>5. head \in Seq(S) /\ Header(t, n) = head \o tail
  BY <1>3, <1>4 DEF head
<1> QED
  BY <1>2, <1>5, Joined

\* The header of a frame is a sequence of tokens.
LEMMA HeaderIsTokens ==
  ASSUME NEW t \in Names, NEW n \in Nat
  PROVE  Header(t, n) \in Seq(Tokens)
<1>1. HeadersIn(Tokens) /\ Token("header", t, n) \in Tokens
  BY Literals DEF HeadersIn
<1> QED
  BY <1>1, HeaderIn

\* The bytes, escapes and ends of a subpacket are tokens.
LEMMA CodedIsToken ==
  ASSUME NEW k \in CodeKinds, NEW t \in {"", "noise", "G", "E"}, NEW n \in Nat, NEW len \in Nat
  PROVE  Coded(k, t, n, len) \in Tokens
BY DEF Coded, Tokens, Kinds, Names, CodeKinds

\* What the parsers find at a place of the buffer is a token.
LEMMA BufferToken ==
  ASSUME NEW q \in Seq(Tokens), NEW i \in 1 .. Len(q)
  PROVE  /\ q[i].k \in Kinds /\ q[i].t \in Names /\ q[i].n \in Nat /\ q[i].len \in Nat
         /\ q[i].k = "enc" => q[i].t \in ParseStates
<1>1. q[i] \in Tokens
  BY ElementOfSeq
<1> QED
  BY <1>1 DEF Tokens

\* The first pad checkFrametype finds is in the buffer, with the byte behind it that
\* says how the header is encoded.
LEMMA FirstPadIs ==
  ASSUME buffer \in Seq(Tokens), FindsEncoding
  PROVE  /\ FirstPad \in 1 .. Len(buffer) /\ FirstPad + 1 \in 1 .. Len(buffer)
         /\ buffer[FirstPad + 1].k = "enc"
         /\ FirstPad \in Pads /\ \A j \in Pads : FirstPad <= j
<1>1. Pads \subseteq 1 .. Len(buffer) /\ Pads # {} /\ Len(buffer) \in Nat
  BY DEF Pads, FindsEncoding
<1>2. \E i \in Pads : \A j \in Pads : i <= j
  <2> DEFINE R == {p \in Nat \X Nat : p[1] < p[2]}
  <2>1. IsWellFoundedOn(R, Nat)
    BY NatLessThanWellFounded DEF OpToRel
  <2>2. Pads \subseteq Nat
    BY <1>1
  <2> HIDE DEF R
  <2>3. PICK m \in Pads : \A k \in Pads : <<k, m>> \notin R
    BY <1>1, <2>1, <2>2, WFMin
  <2>4. ASSUME NEW k \in Pads PROVE m <= k
    <3>1. k \in Nat /\ m \in Nat /\ <<k, m>> \notin R
      BY <2>2, <2>3
    <3>2. ~(k < m)
      BY <3>1 DEF R
    <3> QED
      BY <3>1, <3>2
  <2> QED
    BY <2>3, <2>4
<1>3. FirstPad \in Pads /\ \A j \in Pads : FirstPad <= j
  BY <1>2 DEF FirstPad
<1> QED
  BY <1>1, <1>3 DEF FindsEncoding

\* Where the events lead (the table of getZmodemFsm): what ends the session, and
\* what leads to the two states that send data.
LEMMA TransitionFacts ==
  ASSUME NEW t \in Transitions
  PROVE  /\ t[3] \in States \cup {"DESTROY"}
         /\ t[3] = "DESTROY" => t[2] = "DESTROY"
         /\ t[3] = "SEND_ZDATA" => t[2] \in {"SEND_ZDATA", "TIMEOUT"}
         /\ t[3] = "SEND_ZDATA" /\ t[2] = "TIMEOUT" => t[1] = "SEND_FLOW_CTRL"
         /\ t[3] = "SEND_FLOW_CTRL" => t[2] = "SEND_ZDATA_LATER"
BY DEF Transitions, States, ParseStates

\* A read from the file stays in the file and moves its place by what is read.
LEMMA FileRead ==
  ASSUME NEW f \in Files
  PROVE  /\ ReadLength(f) \in Nat /\ f.pos \in Nat /\ f.pos + ReadLength(f) <= FileSize
         /\ AfterRead(f) \in Files
         /\ AfterRead(f).pos = f.pos + ReadLength(f) /\ AfterRead(f).mode = f.mode
<1>1. f.pos \in Nat /\ f.pos <= FileSize /\ FileSize \in Nat /\ BlockSize \in Nat
  BY SizeAssumption DEF Files
<1>2. ReadLength(f) \in Nat /\ f.pos + ReadLength(f) <= FileSize
  BY <1>1 DEF ReadLength
<1>3. f.good \in BOOLEAN /\ (ReadLength(f) = BlockSize) \in BOOLEAN
  BY DEF Files
<1>4. AfterRead(f).pos = f.pos + ReadLength(f) /\ AfterRead(f).mode = f.mode
  BY DEF AfterRead, Files
<1>5. AfterRead(f) \in Files
  <2> DEFINE good == f.good /\ ReadLength(f) = BlockSize
             pos == f.pos + ReadLength(f)
  <2>1. good \in BOOLEAN /\ pos \in 0 .. FileSize
    BY <1>1, <1>2, <1>3
  <2>2. AfterRead(f) = [f EXCEPT !.pos = pos, !.good = good]
    BY DEF AfterRead, Files
  <2> HIDE DEF good, pos
  <2> QED
    BY <2>1, <2>2 DEF Files
<1> QED
  BY <1>1, <1>2, <1>4, <1>5

\* The frames of a block sendZdata reads, with the ZEOF behind the last.
LEMMA BlockIsFrames ==
  ASSUME NEW f \in Files
  PROVE  Block(f) \in Seq(Frames)
<1>1. ReadLength(f) \in Nat /\ f.pos \in Nat /\ AfterRead(f).pos \in Nat
  BY FileRead, SizeAssumption DEF Files
<1>2. /\ Data("G", f.pos, ReadLength(f)) \in Frames
      /\ Data("E", f.pos, ReadLength(f)) \in Frames
      /\ Token("header", "ZEOF", AfterRead(f).pos) \in Frames
  BY <1>1 DEF Frames, Tokens, Kinds, Names, Token, Data
<1>3. /\ <<Data("G", f.pos, ReadLength(f))>> \in Seq(Frames)
      /\ <<Data("E", f.pos, ReadLength(f)), Token("header", "ZEOF", AfterRead(f).pos)>>
           \in Seq(Frames)
  BY <1>2, Tuples
<1> QED
  BY <1>3 DEF Block

\* A frame the session sends, ZRPOS with 0.
LEMMA FrameIs ==
  ASSUME NEW t \in Names, NEW n \in Nat, t # "ZRPOS" \/ n = 0
  PROVE  Token("header", t, n) \in Frames
BY DEF Frames, Tokens, Kinds, Names, Token

-----------------------------------------------------------------------------
(* Types.                                                                  *)

\* Posting an event leaves a queue of such events.
LEMMA PostTypes ==
  ASSUME Typed, NEW e \in Posts, PostTask(e)
  PROVE  tasks' \in Seq(Posts)
<1>1. tasks \in Seq(Posts)
  BY DEF Typed
<1>2. Append(tasks, e) \in Seq(Posts)
  BY <1>1
<1> QED
  BY <1>1, <1>2 DEF PostTask

\* Sending a frame adds it to what is sent.
LEMMA SendTypes ==
  ASSUME Typed, NEW t \in Names, NEW n \in Nat, t # "ZRPOS" \/ n = 0, SendFrame(t, n)
  PROVE  sent' \in Seq(Frames)
<1>1. sent \in Seq(Frames) /\ Token("header", t, n) \in Frames
  BY FrameIs DEF Typed
<1> QED
  BY <1>1, AppendProperties DEF SendFrame

\* A file that is opened, or closed, is a file.
LEMMA NewFiles ==
  /\ NoFile \in Files /\ NoFile.mode = "closed"
  /\ \A good \in BOOLEAN :
       /\ NewFile("in", good) \in Files /\ NewFile("out", good) \in Files
       /\ NewFile("in", good).mode = "in" /\ NewFile("out", good).mode = "out"
BY SizeAssumption DEF NoFile, NewFile, Files

\* Nothing scanned is a state of the scan.
LEMMA FreshScan == Fresh \in [at : Nat, saved : Nat, crc : Seq(Nat)]
<1>1. <<>> \in Seq(Nat) /\ 0 \in Nat
  OBVIOUS
<1> QED
  BY <1>1 DEF Fresh

\* The first event of the session keeps the types.
LEMMA FirstEventTypes ==
  ASSUME Typed, FirstEvent
  PROVE  Typed'
<1>1. <<>> \in Seq(Tokens)
  OBVIOUS
<1> QED
  BY <1>1, FreshScan DEF FirstEvent, Typed, HandlerKeeps, OutKeeps, StreamKeeps, lifeVars,
     envVars, flagVars, Entered, Handling, FrameHandled

\* An event the state has no transition for keeps the types.
LEMMA UndefinedTypes ==
  ASSUME Typed, Undefined
  PROVE  Typed'
<1>1. "IDLE" \in States /\ "entry" \in Events
  BY DEF States, Events
<1>2. /\ state' = "IDLE" /\ event' = "entry" /\ timer' = FALSE
      /\ UNCHANGED <<initialized, isSz_, sendFinOnReset_, bufferParsed_, isDestroyed_>>
      /\ UNCHANGED <<deleted, file_select_state_, dialog, file, tasks>>
      /\ UNCHANGED <<buffer, scan, net, sent, frame, peer, bounds>>
  BY DEF Undefined, HandlerKeeps, OutKeeps, StreamKeeps, lifeVars, envVars, flagVars,
     ChangeState
<1>3. /\ state' \in States \cup {"DESTROY"} /\ event' \in Events /\ timer' \in BOOLEAN
  BY <1>1, <1>2
<1> QED
  BY <1>2, <1>3 DEF Typed

\* A transition of the state machine keeps the types.
LEMMA TransitionTypes ==
  ASSUME Typed, Transition
  PROVE  Typed'
<1>1. state' \in States \cup {"DESTROY"} /\ event' = "entry" /\ timer' = FALSE
  BY TransitionFacts DEF Transition, ChangeState
<1>2. "entry" \in Events
  BY DEF Events
<1>3. /\ UNCHANGED <<initialized, isSz_, sendFinOnReset_, bufferParsed_, isDestroyed_>>
      /\ UNCHANGED <<deleted, file_select_state_, dialog, file, tasks>>
      /\ UNCHANGED <<buffer, scan, net, sent, frame, peer, bounds>>
  BY DEF Transition, HandlerKeeps, OutKeeps, StreamKeeps, lifeVars, envVars, flagVars,
     ChangeState
<1>4. /\ state' \in States \cup {"DESTROY"} /\ event' \in Events /\ timer' \in BOOLEAN
  BY <1>1, <1>2
<1> QED
  BY <1>3, <1>4 DEF Typed

\* The "more data" event keeps the types.
LEMMA MoreToParseTypes ==
  ASSUME Typed, MoreToParse
  PROVE  Typed'
<1>1. "entry" \in Events
  BY DEF Events
<1> QED
  BY <1>1 DEF MoreToParse, Typed, HandlerKeeps, OutKeeps, StreamKeeps,
     lifeVars, envVars, flagVars, Entered, Handling, FrameHandled

\* Entering IDLE (reset of the session) keeps the types.
LEMMA InitStateTypes ==
  ASSUME Typed, InitState
  PROVE  Typed'
<1>1. file' \in Files /\ tasks' \in Seq(Posts) /\ sent' \in Seq(Frames)
  <2>1. CASE IsOpen \/ sendFinOnReset_
    <3>1. PICK t \in {"OO", "ZFIN"} : SendFrame(t, 0)
      BY <2>1 DEF InitState
    <3>2. PostTask("RESET") /\ "RESET" \in Posts /\ t \in Names /\ t # "ZRPOS"
      BY <2>1 DEF InitState, Posts, Names
    <3> QED
      BY <2>1, <3>1, <3>2, PostTypes, SendTypes, NewFiles DEF InitState
  <2>2. CASE ~(IsOpen \/ sendFinOnReset_)
    BY <2>2 DEF InitState, Typed
  <2> QED
    BY <2>1, <2>2
<1>2. <<>> \in Seq(Tokens) /\ "none" \in Events
  BY DEF Events
<1> QED
  BY <1>1, <1>2, FreshScan DEF InitState, Typed, HandlerKeeps, OutKeeps, StreamKeeps, lifeVars,
     envVars, flagVars, Entered, Handling, FrameHandled

\* checkFrametype keeps the types.
LEMMA CheckFrametypeTypes ==
  ASSUME Typed, CheckFrametype
  PROVE  Typed'
<1>1. event' \in Events /\ buffer' \in Seq(Tokens)
  <2>1. CASE FindsEncoding
    <3>1. /\ FirstPad \in 1 .. Len(buffer) /\ FirstPad + 1 \in 1 .. Len(buffer)
          /\ buffer[FirstPad + 1].k = "enc" /\ buffer \in Seq(Tokens)
      BY <2>1, FirstPadIs DEF Typed
    <3>2. event' \in ParseStates
      BY <2>1, <3>1, BufferToken DEF CheckFrametype
    <3>3. FirstPad + 2 \in Nat \ {0}
      BY <3>1
    <3> QED
      BY <2>1, <3>1, <3>2, <3>3, PartOfSeq DEF CheckFrametype, Events
  <2>2. CASE ~FindsEncoding
    BY <2>2 DEF CheckFrametype, Typed, Events
  <2> QED
    BY <2>1, <2>2
<1> QED
  BY <1>1 DEF CheckFrametype, Typed, HandlerKeeps, OutKeeps, StreamKeeps,
     lifeVars, envVars, flagVars, Entered, Handling, FrameHandled

\* A parser that lacks bytes keeps the types.
LEMMA ParseWaitsTypes ==
  ASSUME Typed, ParseWaits
  PROVE  Typed'
<1>1. "none" \in Events
  BY DEF Events
<1> QED
  BY <1>1 DEF ParseWaits, Typed, HandlerKeeps, OutKeeps, StreamKeeps, lifeVars,
     envVars, flagVars, Entered, Handling, FrameHandled

\* parseHexFrame keeps the types.
LEMMA ParseHexFrameTypes ==
  ASSUME Typed, ParseHexFrame
  PROVE  Typed'
<1>1. event' \in Events
  BY DEF ParseHexFrame, Events
<1>2. /\ buffer' \in Seq(Tokens)
      /\ frame' \in [type : Names \cup {"none"}, pos : Nat]
  <2>1. buffer \in Seq(Tokens) /\ 1 \in 1 .. Len(buffer)
    BY DEF Typed, ParseHexFrame, HexComplete
  <2>2. buffer[1].t \in Names /\ buffer[1].n \in Nat
    BY <2>1, BufferToken
  <2>3. HexTail + 1 \in Nat \ {0}
    BY DEF HexTail
  <2>4. SubSeq(buffer, HexTail + 1, Len(buffer)) \in Seq(Tokens)
    BY <2>1, <2>3, PartOfSeq
  <2>5. [type |-> buffer[1].t, pos |-> buffer[1].n]
          \in [type : Names \cup {"none"}, pos : Nat]
    BY <2>2
  <2> QED
    BY <2>1, <2>4, <2>5 DEF ParseHexFrame, Typed
<1> QED
  BY <1>1, <1>2 DEF ParseHexFrame, Typed, HandlerKeeps, OutKeeps, StreamKeeps,
     lifeVars, envVars, flagVars, Entered, Handling, FrameHandled

\* parseBinFrame and parseBin32Frame keep the types.
LEMMA ParseBinFrameTypes ==
  ASSUME Typed, ParseBinFrame
  PROVE  Typed'
<1>1. event' \in Events
  BY DEF ParseBinFrame, Events
<1>2. /\ buffer' \in Seq(Tokens)
      /\ frame' \in [type : Names \cup {"none"}, pos : Nat]
  <2>1. buffer \in Seq(Tokens) /\ buffer # <<>>
    BY DEF Typed, ParseBinFrame
  <2>2. 1 \in 1 .. Len(buffer) /\ Tail(buffer) \in Seq(Tokens)
    BY <2>1
  <2>3. buffer[1].t \in Names /\ buffer[1].n \in Nat
    BY <2>1, <2>2, BufferToken
  <2>4. [type |-> buffer[1].t, pos |-> buffer[1].n]
          \in [type : Names \cup {"none"}, pos : Nat]
    BY <2>3
  <2> QED
    BY <2>1, <2>2, <2>4 DEF ParseBinFrame, Typed
<1> QED
  BY <1>1, <1>2 DEF ParseBinFrame, Typed, HandlerKeeps, OutKeeps, StreamKeeps,
     lifeVars, envVars, flagVars, Entered, Handling, FrameHandled

\* handleZrqinit keeps the types.
LEMMA HandleZrqinitTypes ==
  ASSUME Typed, HandleZrqinit
  PROVE  Typed'
<1>1. sent' \in Seq(Frames) /\ "none" \in Events
  BY SendTypes DEF HandleZrqinit, Names, Events
<1> QED
  BY <1>1 DEF HandleZrqinit, Typed, HandlerKeeps, OutKeeps, StreamKeeps,
     lifeVars, envVars, flagVars, Entered, Handling, FrameHandled

\* handleZfile keeps the types.
LEMMA HandleZfileTypes ==
  ASSUME Typed, HandleZfile
  PROVE  Typed'
<1>1. event' \in Events /\ file' \in Files
  <2>1. event' \in {"WAIT_DATA", "none"}
    BY DEF HandleZfile
  <2>2. file' = file \/ \E good \in BOOLEAN : file' = NewFile("out", good)
    BY DEF HandleZfile
  <2>3. file \in Files /\ {"WAIT_DATA", "none"} \subseteq Events
    BY DEF Typed, Events
  <2> QED
    BY <2>1, <2>2, <2>3, NewFiles
<1>2. buffer' \in Seq(Tokens)
  <2>1. InfoLength + 1 \in Nat \ {0} /\ buffer \in Seq(Tokens)
    BY DEF InfoLength, Typed
  <2> QED
    BY <2>1, PartOfSeq DEF HandleZfile
<1>3. sent' \in Seq(Frames)
  BY SendTypes DEF HandleZfile, Names, Typed
<1> QED
  BY <1>1, <1>2, <1>3 DEF HandleZfile, Typed, HandlerKeeps, OutKeeps, StreamKeeps,
     lifeVars, envVars, flagVars, Entered, Handling, FrameHandled

\* handleZdata without a file keeps the types.
LEMMA HandleZdataCrashesTypes ==
  ASSUME Typed, HandleZdataCrashes
  PROVE  Typed'
BY DEF HandleZdataCrashes, Typed, HandlerKeeps, OutKeeps, StreamKeeps,
     lifeVars, envVars, flagVars, Entered, Handling, FrameHandled

\* What handleZdata keeps, but for the buffer, the scan and the file, keeps its types.
LEMMA ScanTypes ==
  ASSUME Typed, ScanKeeps, event' \in Events, buffer' \in Seq(Tokens), file' \in Files,
         scan' \in [at : Nat, saved : Nat, crc : Seq(Nat)]
  PROVE  Typed'
<1>1. /\ UNCHANGED <<tasks, frame, isSz_, sendFinOnReset_, file_select_state_,
                     sent, bounds, state, timer, lifeVars, envVars>>
      /\ bufferParsed_' \in BOOLEAN
  BY DEF ScanKeeps, HandlerKeeps, OutKeeps
<1> QED
  BY <1>1 DEF Typed, lifeVars, envVars

\* A scan that breaks off keeps the types.
LEMMA WaitForDataTypes ==
  ASSUME Typed, WaitForData
  PROVE  Typed'
<1>1. /\ ScanKeeps /\ event' \in Events
      /\ buffer' \in Seq(Tokens) /\ file' \in Files
      /\ scan' \in [at : Nat, saved : Nat, crc : Seq(Nat)]
  BY DEF WaitForData, ScanBreaksOff, Events, Typed
<1> QED
  BY <1>1, ScanTypes

\* What is not yet scanned is a part of the buffer.
LEMMA UnscannedIs ==
  ASSUME Typed
  PROVE  /\ Unscanned \in Seq(Tokens) /\ Len(Unscanned) \in Nat
         /\ scan.at \in Nat /\ scan.saved \in Nat /\ scan.crc \in Seq(Nat)
<1>1. /\ buffer \in Seq(Tokens) /\ scan.at \in Nat /\ scan.saved \in Nat
      /\ scan.crc \in Seq(Nat)
  BY DEF Typed
<1>2. scan.at + 1 \in Nat \ {0}
  BY <1>1
<1> QED
  BY <1>1, <1>2, PartOfSeq DEF Unscanned

\* The place of a byte is a number.
LEMMA PlaceIs ==
  ASSUME NEW c \in Tokens
  PROVE  Place(c) \in Nat
BY SizeAssumption DEF Place, Tokens

\* A byte decoded is a token at another place of the buffer.
LEMMA DecodeByteTypes ==
  ASSUME Typed, DecodeByte
  PROVE  Typed'
<1> DEFINE length == IF AtEscape THEN 2 ELSE 1
           c == Unscanned[length]
<1>1. /\ ScanKeeps /\ event' = "more data" /\ file' = file
      /\ buffer' = [buffer EXCEPT ![scan.saved + 1] = c]
      /\ scan' = [at |-> scan.at + length, saved |-> scan.saved + 1,
                  crc |-> Append(scan.crc, Place(c))]
  BY DEF DecodeByte
<1>2. ~LoopEnds /\ length \in {1, 2}
  BY DEF DecodeByte
<1>3. c \in Tokens
  <2>1. length \in 1 .. Len(Unscanned)
    BY <1>2, UnscannedIs DEF LoopEnds
  <2> QED
    BY <2>1, UnscannedIs, ElementOfSeq
<1> HIDE DEF length, c
<1>4. buffer' \in Seq(Tokens)
  <2>1. buffer \in Seq(Tokens)
    BY DEF Typed
  <2>2. buffer \in [1 .. Len(buffer) -> Tokens] /\ Len(buffer) \in Nat
    BY <2>1
  <2>3. buffer' \in [1 .. Len(buffer) -> Tokens]
    BY <1>1, <1>3, <2>2
  <2> QED
    BY <2>2, <2>3
<1>5. scan' \in [at : Nat, saved : Nat, crc : Seq(Nat)]
  <2>1. scan.at + length \in Nat /\ scan.saved + 1 \in Nat
    BY <1>2, UnscannedIs
  <2>2. Append(scan.crc, Place(c)) \in Seq(Nat)
    BY <1>3, UnscannedIs, PlaceIs, AppendProperties
  <2> QED
    BY <1>1, <2>1, <2>2
<1>6. event' \in Events /\ file' \in Files
  BY <1>1 DEF Typed, Events
<1> QED
  BY <1>1, <1>4, <1>5, <1>6, ScanTypes

\* A subpacket written stays inside the file.
LEMMA WrittenIs ==
  ASSUME NEW f \in Files, NEW data \in Seq(Tokens), ~Refuses(f, data)
  PROVE  Written(f, data) \in Files
<1> DEFINE fits == /\ f.intact /\ f.mode = "out"
                   /\ \A i \in 1 .. Len(data) : Place(data[i]) = f.pos + i - 1
           pos == f.pos + Len(data)
<1>1. f.pos \in Nat /\ Len(data) \in Nat /\ FileSize \in Nat /\ f.intact \in BOOLEAN
  BY SizeAssumption DEF Files
<1>2. fits \in BOOLEAN /\ pos \in 0 .. FileSize
  BY <1>1 DEF Refuses
<1>3. Written(f, data) = [f EXCEPT !.pos = pos, !.intact = fits]
  BY DEF Written, Files
<1> HIDE DEF fits, pos
<1> QED
  BY <1>2, <1>3 DEF Files

\* The bytes decoded are tokens.
LEMMA DecodedIs ==
  ASSUME Typed, scan.saved <= Len(buffer)
  PROVE  SubSeq(buffer, 1, scan.saved) \in Seq(Tokens)
<1>1. buffer \in Seq(Tokens) /\ scan.saved \in 0 .. Len(buffer)
  BY UnscannedIs DEF Typed
<1> QED
  BY <1>1, StartOfSeq

\* handleZdata writes inside the file: a subpacket goes to the place the file is at.
LEMMA SubpacketWrittenTypes ==
  ASSUME Typed, scan.saved <= Len(buffer), SubpacketWritten
  PROVE  Typed'
<1> DEFINE data == SubSeq(buffer, 1, scan.saved)
<1>1. data \in Seq(Tokens)
  BY DecodedIs
<1>2. CASE Refuses(file, data)
  <2>1. ScanKeeps /\ event' = "RESET" /\ UNCHANGED <<buffer, scan, file>>
    BY <1>2 DEF SubpacketWritten
  <2>2. "RESET" \in Events
    BY DEF Events
  <2> QED
    BY <2>1, <2>2, ScanTypes DEF Typed
<1>3. CASE ~Refuses(file, data)
  <2>1. /\ ScanKeeps /\ event' \in {"NETWORK_INPUT", "more data"}
        /\ file' = Written(file, data) /\ scan' = Fresh
        /\ buffer' = SubSeq(buffer, scan.at + 4, Len(buffer))
    BY <1>3 DEF SubpacketWritten
  <2>2. file' \in Files
    BY <1>1, <1>3, <2>1, WrittenIs DEF Typed
  <2>3. buffer' \in Seq(Tokens)
    <3>1. buffer \in Seq(Tokens) /\ scan.at \in Nat
      BY DEF Typed
    <3>2. scan.at + 4 \in Nat \ {0}
      BY <3>1
    <3> QED
      BY <2>1, <3>1, <3>2, PartOfSeq
  <2>4. event' \in Events
    BY <2>1 DEF Events
  <2> QED
    BY <2>1, <2>2, <2>3, <2>4, FreshScan, ScanTypes
<1> QED
  BY <1>2, <1>3

\* A subpacket with a wrong CRC keeps the types.
LEMMA SubpacketWrongTypes ==
  ASSUME Typed, SubpacketWrong
  PROVE  Typed'
<1>1. ScanKeeps /\ event' \in {"RESET", "more data"} /\ UNCHANGED <<buffer, file>>
  BY DEF SubpacketWrong
<1>2. scan' = scan \/ scan' = [scan EXCEPT !.at = @ + 1, !.saved = @ + 1]
  BY DEF SubpacketWrong
<1>3. event' \in Events /\ buffer' \in Seq(Tokens) /\ file' \in Files
  BY <1>1 DEF Events, Typed
<1>4. scan' \in [at : Nat, saved : Nat, crc : Seq(Nat)]
  <2>1. scan \in [at : Nat, saved : Nat, crc : Seq(Nat)]
    BY DEF Typed
  <2>2. CASE scan' = scan
    BY <2>1, <2>2
  <2>3. CASE scan' = [scan EXCEPT !.at = @ + 1, !.saved = @ + 1]
    <3>1. scan' = [scan EXCEPT !.at = scan.at + 1, !.saved = scan.saved + 1]
      BY <2>1, <2>3
    <3>2. scan.at + 1 \in Nat /\ scan.saved + 1 \in Nat
      BY <2>1
    <3>3. ASSUME NEW m \in Nat, NEW n \in Nat
          PROVE  [scan EXCEPT !.at = m, !.saved = n] \in [at : Nat, saved : Nat, crc : Seq(Nat)]
      BY <2>1
    <3> QED
      BY <3>1, <3>2, <3>3
  <2> QED
    BY <1>2, <2>2, <2>3
<1> QED
  BY <1>1, <1>3, <1>4, ScanTypes

\* handleZdata keeps the types.
LEMMA HandleZdataTypes ==
  ASSUME Typed, scan.saved <= Len(buffer), HandleZdata
  PROVE  Typed'
BY WaitForDataTypes, DecodeByteTypes, SubpacketWrittenTypes, SubpacketWrongTypes
   DEF HandleZdata

\* handleZeof keeps the types.
LEMMA HandleZeofTypes ==
  ASSUME Typed, HandleZeof
  PROVE  Typed'
<1>1. sent' \in Seq(Frames) /\ "none" \in Events /\ file' \in Files
  BY SendTypes, NewFiles DEF HandleZeof, Names, Events
<1> QED
  BY <1>1 DEF HandleZeof, Typed, HandlerKeeps, OutKeeps, StreamKeeps, lifeVars,
     envVars, flagVars, Entered, Handling, FrameHandled

\* handleZfin keeps the types.
LEMMA HandleZfinTypes ==
  ASSUME Typed, HandleZfin
  PROVE  Typed'
<1>1. "RESET" \in Events
  BY DEF Events
<1> QED
  BY <1>1 DEF HandleZfin, Typed, HandlerKeeps, OutKeeps, StreamKeeps, lifeVars,
     envVars, flagVars, Entered, Handling, FrameHandled

\* handleZrinit keeps the types.
LEMMA HandleZrinitTypes ==
  ASSUME Typed, HandleZrinit
  PROVE  Typed'
<1>1. event' \in Events
  BY DEF HandleZrinit, Events
<1>2. sent' \in Seq(Frames)
  BY SendTypes DEF HandleZrinit, Names, Typed
<1>3. /\ file_select_state_' \in {"none", "selecting", "selected"}
      /\ sendFinOnReset_' \in BOOLEAN /\ dialog' \in Nat /\ timer' \in BOOLEAN
  <2>1. CASE file_select_state_ = "none"
    <3>1. /\ file_select_state_' = "selecting" /\ sendFinOnReset_' = TRUE
          /\ dialog' = dialog + 1 /\ timer' = FALSE
      BY <2>1 DEF HandleZrinit
    <3>2. dialog + 1 \in Nat /\ {TRUE, FALSE} \subseteq BOOLEAN
      BY DEF Typed
    <3> QED
      BY <3>1, <3>2
  <2>2. CASE file_select_state_ = "selected" /\ IsOpen /\ ~file.good
    <3>1. file_select_state_' = "none" /\ UNCHANGED <<sendFinOnReset_, dialog, timer>>
      BY <2>2 DEF HandleZrinit
    <3> QED
      BY <3>1 DEF Typed
  <2>3. CASE /\ file_select_state_ # "none"
             /\ ~(file_select_state_ = "selected" /\ IsOpen /\ ~file.good)
    <3>1. UNCHANGED <<file_select_state_, sendFinOnReset_, dialog, timer>>
      BY <2>3 DEF HandleZrinit
    <3> QED
      BY <3>1 DEF Typed
  <2> QED
    BY <2>1, <2>2, <2>3
<1> QED
  BY <1>1, <1>2, <1>3 DEF HandleZrinit, Typed, HandlerKeeps, OutKeeps, StreamKeeps,
     lifeVars, envVars, flagVars, Entered, Handling, FrameHandled

\* sendZdata keeps the types: the place it reads at stays in the file.
LEMMA SendZdataTypes ==
  ASSUME Typed, NEW f \in Files, NEW before \in Seq(Frames),
         SendZdata(f, before) \/ SendZdataLater(f, before)
  PROVE  /\ sent' \in Seq(Frames) /\ file' \in Files /\ tasks' \in Seq(Posts)
         /\ bounds' \in [runs : Nat, retries : Nat, resends : Nat, busy : Nat, noise : Nat]
<1>1. sent \in Seq(Frames) /\ sent \o before \in Seq(Frames)
  BY Joined DEF Typed
<1>2. (sent \o before) \o Block(f) \in Seq(Frames)
  BY <1>1, BlockIsFrames, Joined
<1>3. "SEND_ZDATA" \in Posts /\ "SEND_ZDATA_LATER" \in Posts /\ tasks \in Seq(Posts)
  BY DEF Posts, Typed
<1>4. CASE SendZdata(f, before)
  <2>1. sent' = (sent \o before) \o Block(f) /\ file' = AfterRead(f) /\ bounds' = bounds
    BY <1>4 DEF SendZdata
  <2>2. tasks' \in Seq(Posts)
    BY <1>3, <1>4, PostTypes DEF SendZdata
  <2> QED
    BY <1>2, <2>1, <2>2, FileRead DEF Typed
<1>5. CASE SendZdataLater(f, before)
  <2>1. sent' = sent \o before /\ file' = f /\ PostTask("SEND_ZDATA_LATER")
    BY <1>5 DEF SendZdataLater
  <2>2. bounds' = [bounds EXCEPT !.busy = @ + 1]
    BY <1>5 DEF SendZdataLater
  <2>3. bounds' \in [runs : Nat, retries : Nat, resends : Nat, busy : Nat, noise : Nat]
    <3>1. bounds \in [runs : Nat, retries : Nat, resends : Nat, busy : Nat, noise : Nat]
      BY DEF Typed
    <3> QED
      BY <2>2, <3>1
  <2> QED
    BY <1>1, <1>3, <2>1, <2>3, PostTypes
<1> QED
  BY <1>4, <1>5

\* SetPos leaves the place in the file.
LEMMA Seeks ==
  ASSUME NEW f \in Files, NEW n \in Nat
  PROVE  /\ SetPos(f, n) \in Files /\ SetPos(f, n).mode = f.mode
         /\ SetPos(f, n).pos \in Nat
BY SizeAssumption DEF SetPos, Files

\* handleZrpos keeps the types: what it seeks is in the file.
LEMMA HandleZrposTypes ==
  ASSUME Typed, HandleZrpos
  PROVE  Typed'
<1> DEFINE f == SetPos(file, frame.pos)
           zdata == <<Token("header", "ZDATA", f.pos)>>
<1>1. f \in Files /\ f.pos \in Nat
  BY Seeks DEF Typed
<1>2. Token("header", "ZDATA", f.pos) \in Frames
  BY <1>1, FrameIs DEF Names
<1>3. zdata \in Seq(Frames)
  BY <1>2
<1>4. SendZdata(f, zdata) \/ SendZdataLater(f, zdata)
  BY DEF HandleZrpos
<1> HIDE DEF f, zdata
<1>5. /\ sent' \in Seq(Frames) /\ file' \in Files /\ tasks' \in Seq(Posts)
      /\ bounds' \in [runs : Nat, retries : Nat, resends : Nat, busy : Nat, noise : Nat]
  BY <1>1, <1>3, <1>4, SendZdataTypes
<1>6. "none" \in Events
  BY DEF Events
<1> QED
  BY <1>5, <1>6 DEF HandleZrpos, Typed, HandlerKeeps, OutKeeps, StreamKeeps,
     lifeVars, envVars, flagVars, Entered, Handling, FrameHandled

\* A ZRPOS that is refused keeps the types.
LEMMA RefuseZrposTypes ==
  ASSUME Typed, RefuseZrpos
  PROVE  Typed'
<1>1. sent' \in Seq(Frames)
  <2>1. /\ Token("header", "ZCAN", 0) \in Frames /\ Token("header", "ZABORT", 0) \in Frames
        /\ sent \in Seq(Frames)
    BY FrameIs DEF Names, Typed
  <2> QED
    BY <2>1, Tuples, Joined DEF RefuseZrpos
<1>2. "RESET" \in Events
  BY DEF Events
<1> QED
  BY <1>1, <1>2 DEF RefuseZrpos, Typed, HandlerKeeps, OutKeeps, StreamKeeps,
     lifeVars, envVars, flagVars, Entered, Handling, FrameHandled

\* Entering SEND_ZDATA keeps the types.
LEMMA EnterSendZdataTypes ==
  ASSUME Typed, EnterSendZdata
  PROVE  Typed'
<1>1. <<>> \in Seq(Frames) /\ file \in Files
  BY DEF Typed
<1>2. /\ sent' \in Seq(Frames) /\ file' \in Files /\ tasks' \in Seq(Posts)
      /\ bounds' \in [runs : Nat, retries : Nat, resends : Nat, busy : Nat, noise : Nat]
  BY <1>1, SendZdataTypes DEF EnterSendZdata
<1>3. "none" \in Events
  BY DEF Events
<1> QED
  BY <1>2, <1>3 DEF EnterSendZdata, Typed, HandlerKeeps, OutKeeps, StreamKeeps,
     lifeVars, envVars, flagVars, Entered, Handling, FrameHandled

\* sendZdata without a file keeps the types.
LEMMA SendZdataCrashesTypes ==
  ASSUME Typed, SendZdataCrashes
  PROVE  Typed'
<1>1. UNCHANGED <<state, event, initialized, timer, tasks, buffer, scan, frame, file, isSz_,
                 sendFinOnReset_, file_select_state_, bufferParsed_, isDestroyed_,
                 deleted, dialog, net, sent, peer, bounds>>
  BY DEF SendZdataCrashes, StreamKeeps, flagVars, envVars
<1> QED
  BY <1>1 DEF Typed

\* Entering SEND_FLOW_CTRL keeps the types.
LEMMA EnterSendFlowCtrlTypes ==
  ASSUME Typed, EnterSendFlowCtrl
  PROVE  Typed'
<1>1. "none" \in Events
  BY DEF Events
<1> QED
  BY <1>1 DEF EnterSendFlowCtrl, Typed, HandlerKeeps, OutKeeps, StreamKeeps,
     lifeVars, envVars, flagVars, Entered, Handling, FrameHandled

\* Entering WAIT_DATA keeps the types.
LEMMA EnterWaitDataTypes ==
  ASSUME Typed, EnterWaitData
  PROVE  Typed'
<1>1. "none" \in Events
  BY DEF Events
<1> QED
  BY <1>1 DEF EnterWaitData, Typed, HandlerKeeps, OutKeeps, StreamKeeps,
     lifeVars, envVars, flagVars, Entered, Handling, FrameHandled

\* sendFileInfo keeps the types.
LEMMA SendFileInfoTypes ==
  ASSUME Typed, SendFileInfo
  PROVE  Typed'
<1>1. sent' \in Seq(Frames) /\ file' \in Files
  <2>1. /\ Token("header", "ZFILE", 0) \in Frames /\ Token("info", "", 0) \in Frames
        /\ sent \in Seq(Frames)
    BY FrameIs, Literals DEF Names, Typed
  <2>2. sent \o <<Token("header", "ZFILE", 0), Token("info", "", 0)>> \in Seq(Frames)
    BY <2>1, Tuples, Joined
  <2>3. sent' \in Seq(Frames)
    BY <2>1, <2>2 DEF SendFileInfo
  <2>4. file' = file \/ \E good \in BOOLEAN : file' = NewFile("in", good)
    BY DEF SendFileInfo
  <2> QED
    BY <2>3, <2>4, NewFiles DEF Typed
<1>2. event' \in Events /\ bufferParsed_' \in BOOLEAN
  BY DEF SendFileInfo, Events, Typed
<1>3. UNCHANGED <<tasks, buffer, scan, frame, isSz_, sendFinOnReset_, file_select_state_,
                  bounds, state, timer, lifeVars, envVars>>
  BY DEF SendFileInfo, HandlerKeeps, OutKeeps
<1> QED
  BY <1>1, <1>2, <1>3 DEF Typed, lifeVars, envVars

\* deleteSelf keeps the types.
LEMMA DeleteSelfTypes ==
  ASSUME Typed, DeleteSelf
  PROVE  Typed'
<1>1. "none" \in Events
  BY DEF Events
<1> QED
  BY <1>1 DEF DeleteSelf, Typed, HandlerKeeps, OutKeeps, StreamKeeps, lifeVars,
     envVars, flagVars, Entered, Handling, FrameHandled

\* Handing an event to the state machine keeps the types.
LEMMA DeliverTypes ==
  ASSUME Typed, NEW e \in Events, Deliver(e)
  PROVE  event' \in Events
BY DEF Deliver, Typed

\* What is posted to the message loop is an event of the machine.
LEMMA PostsAreEvents == Posts \subseteq Events
BY DEF Posts, Events

\* A task of the message loop keeps the types.
LEMMA RunTaskTypes ==
  ASSUME Typed, RunTask
  PROVE  Typed'
<1>1. tasks \in Seq(Posts) /\ tasks # <<>>
  BY DEF Typed, RunTask
<1>2. tasks' = Tail(tasks) /\ tasks' \in Seq(Posts) /\ Head(tasks) \in Posts
  BY <1>1 DEF RunTask
<1>3. event' \in Events
  BY <1>2, DeliverTypes, PostsAreEvents DEF RunTask
<1> QED
  BY <1>2, <1>3 DEF RunTask, Typed, StreamKeeps, flagVars, envVars

\* The timer of the session keeps the types.
LEMMA TimeoutTypes ==
  ASSUME Typed, Timeout
  PROVE  Typed'
<1>1. event' \in Events /\ timer' \in BOOLEAN
  BY DEF Timeout, Events
<1>2. UNCHANGED <<state, tasks, buffer, scan, frame, file, sent, flagVars, lifeVars,
                     envVars, bounds>>
  BY DEF Timeout, StreamKeeps, OutKeeps
<1> QED
  BY <1>1, <1>2 DEF Typed, lifeVars, flagVars, envVars

\* The answer of the file dialog keeps the types.
LEMMA FileSelectedTypes ==
  ASSUME Typed, FileSelected
  PROVE  Typed'
<1>1. event' \in Events
  BY DeliverTypes DEF FileSelected, Events
<1>2. dialog' \in Nat
  BY DEF FileSelected, Typed
<1> QED
  BY <1>1, <1>2 DEF FileSelected, Typed, StreamKeeps, envVars

\* CANCEL goes out and RESET is handled.
LEMMA ResetTypes ==
  ASSUME Typed, Reset
  PROVE  sent' \in Seq(Frames) /\ event' = "RESET" /\ event' \in Events
         /\ bufferParsed_' \in BOOLEAN
<1>1. sent' \in Seq(Frames)
  BY SendTypes DEF Reset, Names
<1> QED
  BY <1>1 DEF Reset, Events

\* A file dialog that is cancelled keeps the types.
LEMMA FileCanceledTypes ==
  ASSUME Typed, FileCanceled
  PROVE  Typed'
<1>1. dialog' \in Nat
  <2>1. dialog' = dialog - 1 /\ dialog > 0 /\ dialog \in Nat
    BY DEF FileCanceled, Typed
  <2> QED
    BY <2>1
<1>2. sent' \in Seq(Frames) /\ event' \in Events /\ bufferParsed_' \in BOOLEAN
  <2>1. CASE deleted
    BY <2>1 DEF FileCanceled, Typed
  <2>2. CASE ~deleted
    <3>1. Reset
      BY <2>2 DEF FileCanceled
    <3> QED
      BY <3>1, ResetTypes
  <2> QED
    BY <2>1, <2>2
<1>3. UNCHANGED <<state, initialized, timer, tasks, buffer, scan, frame, file, isSz_,
                 sendFinOnReset_, file_select_state_, isDestroyed_, deleted,
                 envVars, bounds>>
  BY DEF FileCanceled
<1> QED
  BY <1>1, <1>2, <1>3 DEF Typed, envVars

\* A cancel of the user keeps the types.
LEMMA UserCancelsTypes ==
  ASSUME Typed, UserCancels
  PROVE  Typed'
<1>1. Reset
  BY DEF UserCancels
<1> QED
  BY <1>1, ResetTypes DEF UserCancels, Typed, HandlerKeeps, OutKeeps, lifeVars, envVars

\* destroy, called when the tab is closed, keeps the types.
LEMMA DestroyTypes ==
  ASSUME Typed, Destroy
  PROVE  Typed'
<1>1. tasks \in Seq(Posts) /\ "DESTROY" \in Posts
  BY DEF Typed, Posts
<1>2. tasks' \in Seq(Posts)
  BY <1>1, AppendProperties DEF Destroy
<1> QED
  BY <1>2 DEF Destroy, Typed, StreamKeeps, flagVars, envVars

\* What a chunk takes from the stream, and what it leaves.
LEMMA ChunkTypes ==
  ASSUME Typed, NEW chunk, Receives(chunk)
  PROVE  chunk \in Seq(Tokens) /\ net' \in Seq(Tokens) /\ chunk # <<>>
<1>1. PICK n \in 1 .. Len(net) : chunk = SubSeq(net, 1, n)
  BY DEF Receives, Chunks
<1>2. net \in Seq(Tokens) /\ n \in 0 .. Len(net) /\ n # 0
  BY DEF Typed
<1>3. chunk \in Seq(Tokens) /\ Len(chunk) = n
  BY <1>1, <1>2, StartOfSeq
<1>4. SubSeq(net, n + 1, Len(net)) \in Seq(Tokens)
  BY <1>2, PartOfSeq
<1> QED
  BY <1>2, <1>3, <1>4 DEF Receives

\* Input the session leaves to the terminal keeps the types.
LEMMA IgnoreInputTypes ==
  ASSUME Typed, IgnoreInput
  PROVE  Typed'
<1>1. net' \in Seq(Tokens)
  BY ChunkTypes DEF IgnoreInput
<1> QED
  BY <1>1 DEF IgnoreInput, Typed, StreamKeeps, lifeVars, flagVars

\* Input that ends the transfer keeps the types.
LEMMA ResetOnInputTypes ==
  ASSUME Typed, ResetOnInput
  PROVE  Typed'
<1>1. net' \in Seq(Tokens) /\ Reset
  BY ChunkTypes DEF ResetOnInput
<1> QED
  BY <1>1, ResetTypes DEF ResetOnInput, Typed, lifeVars

\* processNetworkInput keeps the types.
LEMMA ProcessNetworkInputTypes ==
  ASSUME Typed, ProcessNetworkInput
  PROVE  Typed'
<1>1. PICK chunk : Receives(chunk) /\ buffer' = buffer \o chunk
  BY DEF ProcessNetworkInput
<1>2. net' \in Seq(Tokens) /\ chunk \in Seq(Tokens) /\ buffer \in Seq(Tokens)
  BY <1>1, ChunkTypes DEF Typed
<1>3. buffer' \in Seq(Tokens)
  BY <1>1, <1>2, Joined
<1>4. event' \in Events /\ bufferParsed_' \in BOOLEAN
  BY DEF ProcessNetworkInput, Events
<1> QED
  BY <1>2, <1>3, <1>4 DEF ProcessNetworkInput, Typed, lifeVars

-----------------------------------------------------------------------------
(* The other program.                                                      *)

PeerSet == [prog : {"none", "sz", "rz"}, at : Places, got : Nat,
            frame : BOOLEAN, intact : BOOLEAN, pos : Nat, len : Nat]
BoundSet == [runs : Nat, retries : Nat, resends : Nat, busy : Nat, noise : Nat]

\* A step of the other program that leaves the session alone keeps the types.
LEMMA PeerStepTypes ==
  ASSUME Typed, SessionKeeps, net' \in Seq(Tokens), sent' \in Seq(Frames),
         peer' \in PeerSet, bounds' \in BoundSet
  PROVE  Typed'
BY DEF Typed, SessionKeeps, lifeVars, flagVars, PeerSet, BoundSet

\* What the other program sends is put behind what is on its way.
LEMMA EmitsTypes ==
  ASSUME Typed, NEW q \in Seq(Tokens), Emits(q)
  PROVE  net' \in Seq(Tokens)
BY Joined DEF Emits, Typed

\* The program at the other end is one of its records, and so are the bounds.
LEMMA PeerTyped ==
  ASSUME Typed
  PROVE  /\ peer \in PeerSet /\ bounds \in BoundSet /\ sent \in Seq(Frames)
         /\ net \in Seq(Tokens) /\ peer.got \in Nat /\ peer.pos \in Nat /\ peer.len \in Nat
BY DEF Typed, PeerSet, BoundSet

\* The start of a program keeps the types.
LEMMA StartPeerTypes ==
  ASSUME Typed, NEW prog \in {"sz", "rz"}, StartPeer(prog)
  PROVE  Typed'
<1>1. peer' \in PeerSet
  <2>1. peer' = [prog |-> prog, at |-> "open", got |-> 0, frame |-> FALSE, intact |-> TRUE,
               pos |-> 0, len |-> 0]
    BY DEF StartPeer
  <2> QED
    BY <2>1 DEF PeerSet, Places
<1>2. bounds' \in BoundSet
  <2>1. bounds' = [bounds EXCEPT !.runs = bounds.runs + 1]
    BY DEF StartPeer
  <2>2. bounds \in BoundSet /\ bounds.runs + 1 \in Nat
    BY PeerTyped DEF BoundSet
  <2>3. \A n \in Nat : [bounds EXCEPT !.runs = n] \in BoundSet
    BY <2>2 DEF BoundSet
  <2> QED
    BY <2>1, <2>2, <2>3
<1>3. net' \in Seq(Tokens)
  BY EmitsTypes, HeaderIsTokens DEF StartPeer, Names
<1> QED
  BY <1>1, <1>2, <1>3, PeerTyped, PeerStepTypes DEF StartPeer

\* rz asking again keeps the types.
LEMMA RetryZrinitTypes ==
  ASSUME Typed, RetryZrinit
  PROVE  Typed'
<1>1. peer' \in PeerSet
  BY PeerTyped DEF RetryZrinit, PeerSet, Places
<1>2. bounds' \in BoundSet
  <2>1. bounds' = [bounds EXCEPT !.retries = bounds.retries + 1]
    BY DEF RetryZrinit
  <2>2. bounds \in BoundSet /\ bounds.retries + 1 \in Nat
    BY PeerTyped DEF BoundSet
  <2>3. \A n \in Nat : [bounds EXCEPT !.retries = n] \in BoundSet
    BY <2>2 DEF BoundSet
  <2> QED
    BY <2>1, <2>2, <2>3
<1>3. net' \in Seq(Tokens)
  <2>1. Token("noise", "C", 0) \in Tokens
    BY Literals DEF Names
  <2>2. <<Token("noise", "C", 0)>> \in Seq(Tokens) /\ Header("ZRINIT", 0) \in Seq(Tokens)
    BY <2>1, Tuples, HeaderIsTokens DEF Names
  <2> QED
    BY <2>2, EmitsTypes DEF RetryZrinit
<1> QED
  BY <1>1, <1>2, <1>3, PeerTyped, PeerStepTypes DEF RetryZrinit

\* rz asking for data again keeps the types.
LEMMA ResendZrposTypes ==
  ASSUME Typed, ResendZrpos
  PROVE  Typed'
<1>1. peer' \in PeerSet
  BY PeerTyped DEF ResendZrpos, PeerSet
<1>2. bounds' \in BoundSet
  <2>1. bounds' = [bounds EXCEPT !.resends = @ + 1]
    BY DEF ResendZrpos
  <2> QED
    BY <2>1, PeerTyped DEF BoundSet
<1>3. net' \in Seq(Tokens)
  BY PeerTyped, EmitsTypes, HeaderIsTokens DEF ResendZrpos, Names
<1> QED
  BY <1>1, <1>2, <1>3, PeerTyped, PeerStepTypes DEF ResendZrpos

\* A byte of sz keeps the types.
LEMMA SzSendsByteTypes ==
  ASSUME Typed, SzSendsByte
  PROVE  Typed'
<1>1. peer' \in PeerSet
  <2>1. peer' = [peer EXCEPT !.pos = peer.pos + 1, !.len = peer.len + 1]
    BY PeerTyped DEF SzSendsByte, PeerSet
  <2>2. peer.pos + 1 \in Nat /\ peer.len + 1 \in Nat
    BY PeerTyped
  <2>3. ASSUME NEW m \in Nat, NEW n \in Nat
        PROVE  [peer EXCEPT !.pos = m, !.len = n] \in PeerSet
    BY PeerTyped DEF PeerSet
  <2> QED
    BY <2>1, <2>2, <2>3
<1>2. net' \in Seq(Tokens)
  <2>1. /\ Coded("byte", "", peer.pos, peer.len) \in Tokens
        /\ Coded("zdle", "", peer.pos, peer.len) \in Tokens
        /\ Coded("esc", "", peer.pos, peer.len) \in Tokens
    BY PeerTyped, CodedIsToken DEF CodeKinds
  <2>2. /\ <<Coded("byte", "", peer.pos, peer.len)>> \in Seq(Tokens)
        /\ <<Coded("zdle", "", peer.pos, peer.len), Coded("esc", "", peer.pos, peer.len)>>
             \in Seq(Tokens)
    BY <2>1, Tuples
  <2> QED
    BY <2>2, EmitsTypes DEF SzSendsByte
<1> QED
  BY <1>1, <1>2, PeerTyped, PeerStepTypes DEF SzSendsByte

\* A byte of another program keeps the types.
LEMMA IntrudeTypes ==
  ASSUME Typed, Intrude
  PROVE  Typed'
<1>1. bounds' \in BoundSet
  <2>1. bounds' = [bounds EXCEPT !.noise = @ + 1]
    BY DEF Intrude
  <2> QED
    BY <2>1, PeerTyped DEF BoundSet
<1>2. net' \in Seq(Tokens)
  <2>1. Coded("byte", "noise", peer.pos, peer.len) \in Tokens
    BY PeerTyped, CodedIsToken DEF CodeKinds
  <2>2. <<Coded("byte", "noise", peer.pos, peer.len)>> \in Seq(Tokens)
    BY <2>1, Tuples
  <2> QED
    BY <2>2, EmitsTypes DEF Intrude
<1> QED
  BY <1>1, <1>2, PeerTyped, PeerStepTypes DEF Intrude

\* The end of a subpacket is made of tokens.
LEMMA SubpacketEndIsTokens ==
  ASSUME Typed, NEW t \in {"G", "E"}
  PROVE  SubpacketEnd(t) \in Seq(Tokens)
<1>1. /\ Coded("zdle", "", peer.pos, peer.len) \in Tokens
      /\ Coded("end", t, peer.pos, peer.len) \in Tokens
      /\ Coded("crc", t, peer.pos, peer.len) \in Tokens
  BY PeerTyped, CodedIsToken DEF CodeKinds
<1> QED
  BY <1>1, Tuples DEF SubpacketEnd

\* The end of a subpacket of sz keeps the types.
LEMMA SzEndsSubpacketTypes ==
  ASSUME Typed, SzEndsSubpacket
  PROVE  Typed'
<1>1. peer' \in PeerSet
  <2>1. peer' = [peer EXCEPT !.len = 0] \/ peer' = [peer EXCEPT !.at = "eof"]
    BY DEF SzEndsSubpacket
  <2>2. [peer EXCEPT !.len = 0] \in PeerSet
    BY PeerTyped DEF PeerSet
  <2>3. [peer EXCEPT !.at = "eof"] \in PeerSet
    BY PeerTyped DEF PeerSet, Places
  <2> QED
    BY <2>1, <2>2, <2>3
<1>2. net' \in Seq(Tokens)
  <2>1. SubpacketEnd("G") \in Seq(Tokens) /\ SubpacketEnd("E") \in Seq(Tokens)
    BY SubpacketEndIsTokens
  <2>2. Header("ZEOF", peer.pos) \in Seq(Tokens)
    BY PeerTyped, HeaderIsTokens DEF Names
  <2>3. SubpacketEnd("E") \o Header("ZEOF", peer.pos) \in Seq(Tokens)
    BY <2>1, <2>2, Joined
  <2> QED
    BY <2>1, <2>3, EmitsTypes DEF SzEndsSubpacket
<1> QED
  BY <1>1, <1>2, PeerTyped, PeerStepTypes DEF SzEndsSubpacket

\* The shell reading what nobody else does keeps the types.
LEMMA ShellHearsTypes ==
  ASSUME Typed, ShellHears
  PROVE  Typed'
<1>1. sent' \in Seq(Frames)
  BY PeerTyped DEF ShellHears
<1> QED
  BY <1>1, PeerTyped, PeerStepTypes DEF ShellHears

\* An answer: where the program is next and what it sends.
Answers == Places \X Seq(Tokens)

\* A place and what is sent from it are an answer.
LEMMA PairIsAnswer ==
  ASSUME NEW at \in Places, NEW q \in Seq(Tokens)
  PROVE  <<at, q>> \in Answers
BY DEF Answers

\* What sz and rz make of a frame is an answer.
LEMMA AnswerTypes ==
  ASSUME Typed, NEW f \in Frames
  PROVE  SzAnswer(f) \in Answers /\ RzAnswer(f) \in Answers
<1>1. peer.at \in Places /\ {"aborted", "data", "accepted", "fin", "done", "info"} \subseteq Places
  BY DEF Typed, Places
<1>2. Otherwise(f) \in Answers
  <2> DEFINE at == IF f.t \in Endings THEN "aborted" ELSE peer.at
  <2>1. at \in Places /\ <<>> \in Seq(Tokens)
    BY <1>1
  <2>2. Otherwise(f) = <<at, <<>>>>
    BY DEF Otherwise
  <2> HIDE DEF at
  <2> QED
    BY <2>1, <2>2, PairIsAnswer
<1>3. /\ Header("ZRPOS", 0) \in Seq(Tokens) /\ Header("ZRINIT", 0) \in Seq(Tokens)
      /\ Header("ZFIN", 0) \in Seq(Tokens) /\ Header("ZFILE", 0) \in Seq(Tokens)
      /\ <<>> \in Seq(Tokens)
  <2>1. <<>> \in Seq(Tokens)
    OBVIOUS
  <2> QED
    BY <2>1, HeaderIsTokens DEF Names
<1>4. RzAnswer(f) \in Answers
  <2>1. /\ <<"data", Header("ZRPOS", 0)>> \in Answers
        /\ <<"accepted", Header("ZRINIT", 0)>> \in Answers
        /\ <<"fin", Header("ZFIN", 0)>> \in Answers /\ <<"done", <<>>>> \in Answers
    BY <1>1, <1>3, PairIsAnswer
  <2>2. RzAnswer(f) \in {<<"data", Header("ZRPOS", 0)>>, <<"accepted", Header("ZRINIT", 0)>>,
                         <<"fin", Header("ZFIN", 0)>>, <<"done", <<>>>>, Otherwise(f)}
    BY DEF RzAnswer
  <2> QED
    BY <1>2, <2>1, <2>2
<1>5. SzAnswer(f) \in Answers
  <2> DEFINE info == Header("ZFILE", 0)
                       \o <<Token("info", "", 0), Token("crc", "", 0), Token("xon", "", 0)>>
             oo == <<Token("noise", "OO", 0)>>
             data == Header("ZDATA", f.n)
  <2>1. info \in Seq(Tokens)
    <3>1. /\ Token("info", "", 0) \in Tokens /\ Token("xon", "", 0) \in Tokens
          /\ Token("crc", "", 0) \in Tokens
      BY Literals DEF Frames
    <3> QED
      BY <1>3, <3>1, Tuples, Joined
  <2>2. oo \in Seq(Tokens)
    <3>1. Token("noise", "OO", 0) \in Tokens
      BY Literals DEF Names
    <3> QED
      BY <3>1, Tuples
  <2>3. data \in Seq(Tokens)
    <3>1. f.n \in Nat
      BY DEF Frames, Tokens
    <3> QED
      BY <3>1, HeaderIsTokens DEF Names
  <2>4. SzAnswer(f) \in {<<"info", info>>, <<"data", data>>, <<"fin", Header("ZFIN", 0)>>,
                         <<"done", oo>>, Otherwise(f)}
    BY DEF SzAnswer
  <2> HIDE DEF info, oo, data
  <2>5. /\ <<"info", info>> \in Answers /\ <<"done", oo>> \in Answers
        /\ <<"data", data>> \in Answers
    BY <1>1, <2>1, <2>2, <2>3, PairIsAnswer
  <2>6. <<"fin", Header("ZFIN", 0)>> \in Answers
    BY <1>1, <1>3, PairIsAnswer
  <2> QED
    BY <1>2, <2>4, <2>5, <2>6
<1> QED
  BY <1>4, <1>5

\* The other program hearing a frame keeps the types.
LEMMA PeerHearsTypes ==
  ASSUME Typed, PeerHears
  PROVE  Typed'
<1> DEFINE f == Head(sent)
           answer == IF peer.prog = "sz" THEN SzAnswer(f) ELSE RzAnswer(f)
           asked == peer.at = "info" /\ f.t = "ZRPOS"
<1>1. f \in Frames /\ sent' \in Seq(Frames) /\ f.len \in Nat /\ f.n \in Nat
  <2>1. sent \in Seq(Frames) /\ sent # <<>> /\ sent' = Tail(sent)
    BY PeerTyped DEF PeerHears
  <2>2. f \in Frames /\ Tail(sent) \in Seq(Frames)
    BY <2>1
  <2> QED
    BY <2>1, <2>2 DEF Frames, Tokens
<1>2. answer[1] \in Places /\ answer[2] \in Seq(Tokens)
  <2>1. answer \in Answers
    BY <1>1, AnswerTypes
  <2> HIDE DEF answer
  <2> QED
    BY <2>1 DEF Answers
<1>3. /\ SessionKeeps
      /\ \/ /\ peer' = [peer EXCEPT !.got = @ + f.len, !.intact = @ /\ f.n = peer.got,
                                    !.frame = f.t = "G"]
            /\ UNCHANGED <<net, bounds>>
         \/ /\ peer' = [peer EXCEPT !.frame = FALSE]
            /\ Emits(Header("ZRPOS", peer.got))
            /\ bounds' = [bounds EXCEPT !.resends = @ + 1]
         \/ /\ peer' = [peer EXCEPT !.at = answer[1],
                 !.frame = answer[1] = "data" /\ f.t = "ZDATA" /\ f.n = peer.got,
                 !.pos = IF asked THEN f.n ELSE @, !.len = IF asked THEN 0 ELSE @]
            /\ Emits(answer[2])
            /\ UNCHANGED bounds
  BY DEF PeerHears
<1> HIDE DEF answer, f, asked
<1>4. CASE /\ peer' = [peer EXCEPT !.got = @ + f.len, !.intact = @ /\ f.n = peer.got,
                                    !.frame = f.t = "G"]
           /\ UNCHANGED <<net, bounds>>
  <2> DEFINE got == peer.got + f.len
             intact == peer.intact /\ f.n = peer.got
             in == f.t = "G"
  <2>1. got \in Nat /\ intact \in BOOLEAN /\ in \in BOOLEAN
    BY <1>1, PeerTyped DEF PeerSet
  <2>2. peer' = [peer EXCEPT !.got = got, !.intact = intact, !.frame = in]
    BY <1>4, PeerTyped DEF PeerSet
  <2> HIDE DEF got, intact, in
  <2>3. peer' \in PeerSet
    BY <2>1, <2>2, PeerTyped DEF PeerSet
  <2> QED
    BY <1>1, <1>3, <1>4, <2>3, PeerTyped, PeerStepTypes
<1>5. CASE /\ peer' = [peer EXCEPT !.frame = FALSE]
           /\ Emits(Header("ZRPOS", peer.got))
           /\ bounds' = [bounds EXCEPT !.resends = @ + 1]
  <2>1. peer' \in PeerSet /\ bounds' \in BoundSet
    <3>1. peer' = [peer EXCEPT !.frame = FALSE] /\ FALSE \in BOOLEAN
      BY <1>5
    <3>2. bounds' = [bounds EXCEPT !.resends = @ + 1]
      BY <1>5
    <3>3. peer' \in PeerSet
      BY <3>1, PeerTyped DEF PeerSet
    <3>4. bounds' \in BoundSet
      BY <3>2, PeerTyped DEF BoundSet
    <3> QED
      BY <3>3, <3>4
  <2>2. net' \in Seq(Tokens)
    BY <1>5, PeerTyped, EmitsTypes, HeaderIsTokens DEF Names
  <2> QED
    BY <1>1, <1>3, <2>1, <2>2, PeerStepTypes
<1>6. CASE /\ peer' = [peer EXCEPT !.at = answer[1],
                 !.frame = answer[1] = "data" /\ f.t = "ZDATA" /\ f.n = peer.got,
                 !.pos = IF asked THEN f.n ELSE @, !.len = IF asked THEN 0 ELSE @]
           /\ Emits(answer[2])
           /\ UNCHANGED bounds
  <2> DEFINE in == answer[1] = "data" /\ f.t = "ZDATA" /\ f.n = peer.got
             pos == IF asked THEN f.n ELSE peer.pos
             len == IF asked THEN 0 ELSE peer.len
  <2>1. in \in BOOLEAN /\ pos \in Nat /\ len \in Nat
    BY <1>1, PeerTyped
  <2>2. peer' = [peer EXCEPT !.at = answer[1], !.frame = in, !.pos = pos, !.len = len]
    BY <1>6, PeerTyped DEF PeerSet
  <2> HIDE DEF in, pos, len
  <2>3. peer' \in PeerSet
    BY <1>2, <2>1, <2>2, PeerTyped DEF PeerSet
  <2>4. net' \in Seq(Tokens)
    BY <1>2, <1>6, EmitsTypes
  <2> QED
    BY <1>1, <1>3, <1>6, <2>3, <2>4, PeerTyped, PeerStepTypes
<1> QED
  BY <1>3, <1>4, <1>5, <1>6

\* The session starts well typed.
LEMMA InitTyped == Init => Typed
<1> SUFFICES ASSUME Init PROVE Typed
  OBVIOUS
<1>1. Token("noise", "prompt", 0) \in Tokens /\ NoFile \in Files
  BY Literals, NewFiles DEF Names
<1>2. net \in Seq(Tokens)
  BY <1>1, Tuples DEF Init
<1>3. <<>> \in Seq(Posts) /\ <<>> \in Seq(Tokens) /\ <<>> \in Seq(Frames)
  OBVIOUS
<1>4. peer \in PeerSet /\ bounds \in BoundSet
  BY DEF Init, PeerSet, BoundSet, Places
<1> QED
  BY <1>1, <1>2, <1>3, <1>4, FreshScan DEF Init, Typed, States, Events, PeerSet, BoundSet

\* Every step keeps the types.
LEMMA NextTyped == Typed /\ Scanned /\ [Next]_vars => Typed'
<1> SUFFICES ASSUME Typed, Scanned, [Next]_vars PROVE Typed'
  OBVIOUS
<1>1. CASE Handler
  <2>1. scan.saved <= Len(buffer)
    <3>1. Len(buffer) \in Nat
      BY DEF Typed
    <3> QED
      BY <3>1, UnscannedIs DEF Scanned
  <2> QED
    BY <1>1, <2>1, FirstEventTypes, UndefinedTypes, TransitionTypes, MoreToParseTypes,
       InitStateTypes, CheckFrametypeTypes, ParseWaitsTypes, ParseHexFrameTypes,
       ParseBinFrameTypes, HandleZrqinitTypes, HandleZfileTypes, HandleZdataCrashesTypes,
       HandleZdataTypes, HandleZeofTypes, HandleZfinTypes, HandleZrinitTypes,
       HandleZrposTypes, RefuseZrposTypes, EnterSendZdataTypes, SendZdataCrashesTypes,
       EnterSendFlowCtrlTypes, EnterWaitDataTypes, SendFileInfoTypes, DeleteSelfTypes
       DEF Handler
<1>2. CASE Outside
  BY <1>2, RunTaskTypes, TimeoutTypes, FileSelectedTypes, FileCanceledTypes,
     UserCancelsTypes, DestroyTypes, IgnoreInputTypes, ResetOnInputTypes,
     ProcessNetworkInputTypes DEF Outside
<1>3. CASE Peer
  BY <1>3, StartPeerTypes, RetryZrinitTypes, ResendZrposTypes, PeerHearsTypes,
     SzSendsByteTypes, IntrudeTypes, SzEndsSubpacketTypes, ShellHearsTypes DEF Peer
<1>4. CASE UNCHANGED vars
  BY <1>4 DEF vars, Typed
<1> QED
  BY <1>1, <1>2, <1>3, <1>4 DEF Next

-----------------------------------------------------------------------------
(* The scan of the data.                                                   *)

\* Where the events of a transfer lead (the table of getZmodemFsm).
LEMMA TableFacts ==
  ASSUME NEW t \in Transitions
  PROVE  /\ t[2] \notin {"entry", "more data"}
         /\ t[2] = "RESET" => t[3] = "IDLE"
         /\ t[2] = "DESTROY" => t[3] = "DESTROY"
         /\ t[2] = "TIMEOUT" => t[1] = "SEND_FLOW_CTRL"
         /\ t[2] = "NETWORK_INPUT" =>
              \/ t[1] = "WAIT_DATA" /\ t[3] = "HANDLE_FRAME"
              \/ t[1] \notin ParseStates \cup {"WAIT_DATA"} /\ t[3] = "CHK_FRAME_TYPE"
         /\ t[2] \in ParseStates => t[3] = t[2]
         /\ t[2] = "HANDLE_FRAME" => t[1] \in ParseStates /\ t[3] = "HANDLE_FRAME"
         /\ t[2] = "WAIT_DATA" => t[1] = "HANDLE_FRAME" /\ t[3] = "WAIT_DATA"
         /\ t[3] = "FILE_SELECTED" => t[2] = "FILE_SELECTED"
         /\ t[3] = "HANDLE_FRAME" =>
              \/ t[1] \in ParseStates /\ t[2] = "HANDLE_FRAME"
              \/ t[1] = "WAIT_DATA" /\ t[2] = "NETWORK_INPUT"
         /\ t[3] = "WAIT_DATA" => t[1] = "HANDLE_FRAME" /\ t[2] = "WAIT_DATA"
<1>1. t[2] \notin {"entry", "more data"}
  <2>1. t[2] \in ParseStates
          \cup {"RESET", "DESTROY", "NETWORK_INPUT", "HANDLE_FRAME", "FILE_SELECTED",
                "WAIT_DATA", "SEND_ZDATA", "SEND_ZDATA_LATER", "TIMEOUT"}
    BY DEF Transitions
  <2> QED
    BY <2>1 DEF ParseStates
<1>2. /\ t[2] = "RESET" => t[3] = "IDLE"
      /\ t[2] = "DESTROY" => t[3] = "DESTROY"
      /\ t[2] = "TIMEOUT" => t[1] = "SEND_FLOW_CTRL"
      /\ t[2] = "NETWORK_INPUT" =>
           \/ t[1] = "WAIT_DATA" /\ t[3] = "HANDLE_FRAME"
           \/ t[1] \notin ParseStates \cup {"WAIT_DATA"} /\ t[3] = "CHK_FRAME_TYPE"
      /\ t[2] \in ParseStates => t[3] = t[2]
      /\ t[2] = "HANDLE_FRAME" => t[1] \in ParseStates /\ t[3] = "HANDLE_FRAME"
  BY DEF Transitions, States, ParseStates
<1>3. /\ t[2] = "WAIT_DATA" => t[1] = "HANDLE_FRAME" /\ t[3] = "WAIT_DATA"
      /\ t[3] = "FILE_SELECTED" => t[2] = "FILE_SELECTED"
      /\ t[3] = "HANDLE_FRAME" =>
           \/ t[1] \in ParseStates /\ t[2] = "HANDLE_FRAME"
           \/ t[1] = "WAIT_DATA" /\ t[2] = "NETWORK_INPUT"
      /\ t[3] = "WAIT_DATA" => t[1] = "HANDLE_FRAME" /\ t[2] = "WAIT_DATA"
  BY DEF Transitions, States, ParseStates
<1> QED
  BY <1>1, <1>2, <1>3

\* What handleZdata may do, and what it leaves alone.
LEMMA ZdataIs ==
  ASSUME HandleZdata
  PROVE  /\ AtZdata /\ DataCrash = "none" /\ ScanKeeps
         /\ event' \in {"WAIT_DATA", "more data", "RESET", "NETWORK_INPUT"}
         /\ UNCHANGED <<state, timer, tasks, frame, isSz_, sendFinOnReset_,
                       file_select_state_, sent, bounds, lifeVars, envVars>>
<1>1. AtZdata /\ DataCrash = "none" /\ ScanKeeps
  BY DEF HandleZdata, WaitForData, DecodeByte, SubpacketWritten, SubpacketWrong
<1>2. event' \in {"WAIT_DATA", "more data", "RESET", "NETWORK_INPUT"}
  BY DEF HandleZdata, WaitForData, DecodeByte, SubpacketWritten, SubpacketWrong
<1> QED
  BY <1>1, <1>2 DEF ScanKeeps, HandlerKeeps, OutKeeps

\* What is not yet scanned, by its length and its places.
LEMMA UnscannedPlaces ==
  ASSUME Typed, scan.at <= Len(buffer)
  PROVE  /\ Len(Unscanned) = Len(buffer) - scan.at
         /\ \A i \in 1 .. Len(Unscanned) : Unscanned[i] = buffer[scan.at + i]
<1>1. buffer \in Seq(Tokens) /\ Len(buffer) \in Nat /\ scan.at \in Nat
  BY DEF Typed
<1>2. \A i \in scan.at + 1 .. Len(buffer) : buffer[i] \in Tokens
  BY <1>1, ElementOfSeq
<1>3. CASE scan.at + 1 <= Len(buffer)
  <2>1. /\ Len(Unscanned) = Len(buffer) - (scan.at + 1) + 1
        /\ \A i \in 1 .. Len(buffer) - (scan.at + 1) + 1 :
             Unscanned[i] = buffer[scan.at + 1 + i - 1]
    BY <1>1, <1>2, <1>3, SubSeqProperties DEF Unscanned
  <2> DEFINE at == scan.at
             m == Len(buffer)
  <2>2. at \in Nat /\ m \in Nat
    BY <1>1
  <2>3. /\ Len(Unscanned) = m - (at + 1) + 1
        /\ \A i \in 1 .. m - (at + 1) + 1 : Unscanned[i] = buffer[at + 1 + i - 1]
    BY <2>1
  <2> HIDE DEF at, m
  <2>4. m - (at + 1) + 1 = m - at
    BY <2>2
  <2>5. ASSUME NEW i \in 1 .. m - at PROVE Unscanned[i] = buffer[at + i]
    <3>1. at + 1 + i - 1 = at + i
      BY <2>2
    <3> QED
      BY <2>3, <2>4, <3>1
  <2> QED
    BY <2>3, <2>4, <2>5 DEF at, m
<1>4. CASE ~(scan.at + 1 <= Len(buffer))
  <2>1. Unscanned = <<>> /\ Len(buffer) = scan.at
    BY <1>1, <1>4, SubSeqEmpty DEF Unscanned
  <2> QED
    BY <1>1, <2>1
<1> QED
  BY <1>3, <1>4

\* handleZdata keeps both indices in the buffer, and what it decodes does not overtake
\* what it reads.
LEMMA ZdataScanned ==
  ASSUME Typed, Scanned, HandleZdata, Typed'
  PROVE  Scanned'
<1>1. /\ state' = "HANDLE_FRAME" /\ frame'.type = "ZDATA"
      /\ event' \in {"WAIT_DATA", "more data", "RESET", "NETWORK_INPUT"}
  BY ZdataIs DEF AtZdata
<1>2. /\ Len(Unscanned) = Len(buffer) - scan.at
      /\ scan.at \in Nat /\ scan.saved \in Nat /\ Len(buffer) \in Nat
      /\ scan.at <= Len(buffer) /\ scan.saved <= scan.at
  BY UnscannedPlaces, UnscannedIs DEF Scanned, Typed
<1>3. CASE WaitForData
  <2>1. UNCHANGED <<scan, buffer>> /\ event' = "WAIT_DATA"
    BY <1>3 DEF WaitForData, ScanBreaksOff
  <2> QED
    BY <1>1, <2>1 DEF Scanned, Scanning
<1>4. CASE DecodeByte
  <2> DEFINE length == IF AtEscape THEN 2 ELSE 1
  <2>1. /\ ~LoopEnds /\ event' = "more data"
        /\ buffer' = [buffer EXCEPT ![scan.saved + 1] = Unscanned[length]]
        /\ scan'.at = scan.at + length /\ scan'.saved = scan.saved + 1
    BY <1>4 DEF DecodeByte
  <2>2. Len(buffer') = Len(buffer)
    <3>1. buffer \in Seq(Tokens) /\ buffer' \in Seq(Tokens)
      BY DEF Typed
    <3>2. DOMAIN buffer' = DOMAIN buffer
      BY <2>1
    <3>3. DOMAIN buffer = 1 .. Len(buffer) /\ DOMAIN buffer' = 1 .. Len(buffer')
      BY <3>1
    <3>4. Len(buffer) \in Nat /\ Len(buffer') \in Nat
      BY <3>1
    <3> QED
      BY <3>2, <3>3, <3>4
  <2>3. length \in {1, 2} /\ Len(Unscanned) >= 2
    <3>1. ~(Len(Unscanned) < 2)
      BY <2>1 DEF LoopEnds
    <3> QED
      BY <3>1, UnscannedIs
  <2> HIDE DEF length
  <2>4. scan'.at <= Len(buffer') /\ scan'.saved <= scan'.at
    <3>1. /\ scan'.at = scan.at + length /\ scan'.saved = scan.saved + 1
          /\ length = 1 \/ length = 2
      BY <2>1, <2>3
    <3>2. scan.at + 2 <= Len(buffer)
      BY <1>2, <2>3
    <3>3. scan.at + length <= Len(buffer) /\ scan.saved + 1 <= scan.at + length
      BY <1>2, <3>1, <3>2
    <3> QED
      BY <2>2, <3>1, <3>3
  <2> QED
    BY <1>1, <2>1, <2>4 DEF Scanned, Scanning
<1>5. CASE SubpacketWritten
  <2>1. \/ UNCHANGED <<scan, buffer>> /\ event' = "RESET"
        \/ scan' = Fresh
    BY <1>5 DEF SubpacketWritten
  <2>2. CASE UNCHANGED <<scan, buffer>> /\ event' = "RESET"
    BY <1>1, <2>2 DEF Scanned, Scanning
  <2>3. CASE scan' = Fresh
    <3>1. buffer' \in Seq(Tokens) /\ Fresh' = Fresh
      BY DEF Typed, Fresh
    <3>2. Len(buffer') \in Nat
      BY <3>1
    <3> QED
      BY <2>3, <3>1, <3>2 DEF Scanned, Fresh
  <2> QED
    BY <2>1, <2>2, <2>3
<1>6. CASE SubpacketWrong
  <2>1. /\ buffer' = buffer /\ event' \in {"RESET", "more data"}
        /\ scan' = scan \/ scan' = [scan EXCEPT !.at = @ + 1, !.saved = @ + 1]
        /\ ~LoopEnds
    BY <1>6 DEF SubpacketWrong, AtSubpacketEnd, AtEscape
  <2>2. Len(Unscanned) >= 2
    <3>1. ~(Len(Unscanned) < 2)
      BY <2>1 DEF LoopEnds
    <3> QED
      BY <3>1, UnscannedIs
  <2>3. \/ scan'.at = scan.at /\ scan'.saved = scan.saved
        \/ scan'.at = scan.at + 1 /\ scan'.saved = scan.saved + 1
    <3>1. scan \in [at : Nat, saved : Nat, crc : Seq(Nat)]
      BY DEF Typed
    <3> QED
      BY <2>1, <3>1
  <2>4. scan'.at <= Len(buffer) /\ scan'.saved <= scan'.at
    BY ONLY <1>2, <2>2, <2>3
  <2>5. buffer' = buffer
    BY <2>1
  <2> QED
    BY <1>1, <2>1, <2>4, <2>5 DEF Scanned, Scanning
<1> QED
  BY <1>3, <1>4, <1>5, <1>6 DEF HandleZdata

\* An event with a state for it leads from a scan to its next part or to its end.
LEMMA ScanGoesOn ==
  ASSUME Typed, Scanning, Undefined \/ Transition \/ MoreToParse
  PROVE  Scanning'
<1>1. UNCHANGED frame /\ event' = "entry"
  BY DEF Undefined, Transition, MoreToParse, ChangeState, StreamKeeps
<1>2. CASE Undefined
  <2>1. state' = "IDLE"
    BY <1>2 DEF Undefined, ChangeState
  <2> QED
    BY <1>1, <2>1 DEF Scanning
<1>3. CASE Transition
  <2>1. PICK t \in Transitions : t[1] = state /\ t[2] = event /\ ChangeState(t[3])
    BY <1>3 DEF Transition
  <2>2. t[2] \notin {"entry", "more data"}
    BY TableFacts
  <2>5. t[1] # "DESTROY"
    BY DEF Transitions, States, ParseStates
  <2>3. /\ t[2] = "RESET" => t[3] = "IDLE"
        /\ t[2] = "WAIT_DATA" => t[3] = "WAIT_DATA"
        /\ t[1] = "WAIT_DATA" => t[3] \in {"IDLE", "DESTROY", "HANDLE_FRAME"}
    BY DEF Transitions, States, ParseStates
  <2>4. state' = t[3]
    BY <2>1 DEF ChangeState
  <2> QED
    BY <1>1, <2>1, <2>2, <2>3, <2>4, <2>5 DEF Scanning
<1>4. CASE MoreToParse
  BY <1>4 DEF MoreToParse, ParsesOn, ParseStates, Scanning
<1> QED
  BY <1>2, <1>3, <1>4

\* The handlers keep the scan in the buffer.
LEMMA HandlerScanned ==
  ASSUME Typed, Scanned, Handler, Typed'
  PROVE  Scanned'
<1>1. ASSUME scan' = Fresh PROVE Scanned'
  <2>1. buffer' \in Seq(Tokens)
    BY DEF Typed
  <2>2. Len(buffer') \in Nat
    BY <2>1
  <2> QED
    BY <1>1, <2>2 DEF Scanned, Fresh
<1>2. ASSUME UNCHANGED <<scan, buffer>>, Scanning' PROVE Scanned'
  BY <1>2 DEF Scanned
<1>3. CASE FirstEvent \/ InitState
  BY <1>1, <1>3 DEF FirstEvent, InitState
<1>4. CASE HandleZdata
  BY <1>4, ZdataScanned
<1>5. CASE Undefined \/ Transition \/ MoreToParse
  <2>1. UNCHANGED <<scan, buffer>>
    BY <1>5 DEF Undefined, Transition, MoreToParse, StreamKeeps
  <2> QED
    BY <1>1, <1>2, <1>5, <2>1, ScanGoesOn DEF Scanned
<1>6. CASE HandleZdataCrashes \/ EnterWaitData \/ DeleteSelf
  <2>1. UNCHANGED <<scan, buffer, state, frame>> /\ (state = "HANDLE_FRAME" => event' = event)
    BY <1>6 DEF HandleZdataCrashes, EnterWaitData, DeleteSelf, StreamKeeps, HandlerKeeps,
       Entered
  <2>2. state # "IDLE"
    BY <1>6 DEF HandleZdataCrashes, EnterWaitData, DeleteSelf, AtZdata, Entered
  <2> QED
    BY <1>1, <1>2, <2>1, <2>2 DEF Scanned, Scanning
<1>7. CASE \/ CheckFrametype \/ ParseWaits \/ ParseHexFrame \/ ParseBinFrame
           \/ HandleZrqinit \/ HandleZfile \/ HandleZeof \/ HandleZfin \/ HandleZrinit
  <2>1. ~Scanning
    BY <1>7 DEF CheckFrametype, ParseWaits, ParseHexFrame, ParseBinFrame, HandleZrqinit,
       HandleZfile, HandleZeof, HandleZfin, HandleZrinit, FrameHandled, Entered, Scanning,
       ParseStates
  <2>2. scan' = scan
    BY <1>7 DEF CheckFrametype, ParseWaits, ParseHexFrame, ParseBinFrame, HandleZrqinit,
       HandleZfile, HandleZeof, HandleZfin, HandleZrinit, StreamKeeps
  <2> QED
    BY <1>1, <2>1, <2>2 DEF Scanned
<1>8. CASE \/ HandleZrpos \/ RefuseZrpos \/ EnterSendZdata \/ SendZdataCrashes
           \/ EnterSendFlowCtrl \/ SendFileInfo
  <2>1. ~Scanning
    BY <1>8 DEF HandleZrpos, RefuseZrpos, EnterSendZdata, SendZdataCrashes,
       EnterSendFlowCtrl, SendFileInfo, FrameHandled, Entered, Scanning
  <2>2. scan' = scan
    BY <1>8 DEF HandleZrpos, RefuseZrpos, EnterSendZdata, SendZdataCrashes,
       EnterSendFlowCtrl, SendFileInfo, StreamKeeps
  <2> QED
    BY <1>1, <2>1, <2>2 DEF Scanned
<1> QED
  BY <1>3, <1>4, <1>5, <1>6, <1>7, <1>8 DEF Handler

\* What comes from outside finds the scan suspended, and puts input behind it.
LEMMA OutsideScanned ==
  ASSUME Typed, Scanned, Outside, Typed'
  PROVE  Scanned'
<1>1. UNCHANGED <<scan, state, frame>> /\ event = "none"
  BY DEF Outside, RunTask, Timeout, FileSelected, FileCanceled, UserCancels, Destroy,
     IgnoreInput, ResetOnInput, ProcessNetworkInput, StreamKeeps, HandlerKeeps, Receives,
     Idle
<1>2. Len(buffer') \in Nat /\ Len(buffer) \in Nat /\ Len(buffer) <= Len(buffer')
  <2>1. CASE ProcessNetworkInput
    <3>1. PICK chunk : Receives(chunk) /\ buffer' = buffer \o chunk
      BY <2>1 DEF ProcessNetworkInput
    <3>2. chunk \in Seq(Tokens) /\ buffer \in Seq(Tokens)
      BY <3>1, ChunkTypes DEF Typed
    <3> QED
      BY <3>1, <3>2
  <2>2. CASE ~ProcessNetworkInput
    <3>1. buffer' = buffer /\ buffer \in Seq(Tokens)
      BY <2>2 DEF Outside, RunTask, Timeout, FileSelected, FileCanceled, UserCancels,
         Destroy, IgnoreInput, ResetOnInput, StreamKeeps, HandlerKeeps, Typed
    <3> QED
      BY <3>1
  <2> QED
    BY <2>1, <2>2
<1>3. scan.at \in Nat
  BY DEF Typed
<1>4. scan'.at <= Len(buffer') /\ scan'.saved <= scan'.at
  BY <1>1, <1>2, <1>3 DEF Scanned
<1>5. scan' = Fresh \/ Scanning'
  BY <1>1 DEF Scanned, Scanning
<1> QED
  BY <1>4, <1>5 DEF Scanned, Fresh

\* Every step keeps the scan in the buffer.
LEMMA NextScanned == Typed /\ Scanned /\ [Next]_vars => Scanned'
<1> SUFFICES ASSUME Typed, Scanned, [Next]_vars PROVE Scanned'
  OBVIOUS
<1>1. Typed'
  BY NextTyped
<1>2. CASE Handler
  BY <1>1, <1>2, HandlerScanned
<1>3. CASE Outside
  BY <1>1, <1>3, OutsideScanned
<1>4. CASE Peer \/ UNCHANGED vars
  <2>1. UNCHANGED <<scan, buffer, state, frame, event>>
    BY <1>4 DEF Peer, StartPeer, RetryZrinit, ResendZrpos, SzSendsByte, Intrude,
       SzEndsSubpacket, PeerHears, ShellHears, SessionKeeps, vars
  <2> QED
    BY <2>1 DEF Scanned, Scanning, Fresh
<1> QED
  BY <1>2, <1>3, <1>4 DEF Next

\* The session starts with nothing scanned.
LEMMA InitScanned == Init => Scanned
BY DEF Init, Scanned, Fresh

-----------------------------------------------------------------------------
(* The end of a session.                                                   *)

\* A tab that is open has no DESTROY; of one that is closed it is the last event
\* there will be, since nothing is posted behind it.
Life ==
  /\ ~isDestroyed_ => /\ ~deleted /\ state # "DESTROY" /\ event # "DESTROY"
                      /\ \A i \in 1 .. Len(tasks) : tasks[i] # "DESTROY"
  /\ \A i \in 1 .. Len(tasks) : tasks[i] = "DESTROY" => i = Len(tasks)
  /\ event = "DESTROY" \/ state = "DESTROY" \/ deleted => tasks = <<>>

\* A step that neither closes the tab nor runs a task nor deletes the session.
LivesOn ==
  /\ UNCHANGED <<isDestroyed_, deleted>>
  /\ tasks' = tasks \/ \E e \in Posts \ {"DESTROY"} : PostTask(e)
  /\ state' = "DESTROY" => state = "DESTROY" \/ event = "DESTROY"
  /\ event' = "DESTROY" => event = "DESTROY"

\* Such a step keeps Life: it posts no DESTROY, and nothing behind one.
LEMMA LivingOn ==
  ASSUME Typed, Life, LivesOn
  PROVE  Life'
<1>1. CASE tasks' = tasks
  BY <1>1 DEF Life, LivesOn
<1>2. ASSUME NEW e \in Posts \ {"DESTROY"}, PostTask(e), ~isDestroyed_
      PROVE  Life'
  <2>1. tasks \in Seq(Posts) /\ tasks' = Append(tasks, e)
    BY <1>2 DEF PostTask, Typed
  <2>2. /\ Len(tasks') = Len(tasks) + 1 /\ Len(tasks) \in Nat
        /\ \A i \in 1 .. Len(tasks) : tasks'[i] = tasks[i]
        /\ tasks'[Len(tasks) + 1] = e
    BY <2>1, AppendProperties
  <2>3. \A i \in 1 .. Len(tasks') : tasks'[i] # "DESTROY"
    <3> SUFFICES ASSUME NEW i \in 1 .. Len(tasks') PROVE tasks'[i] # "DESTROY"
      OBVIOUS
    <3>1. i \in 1 .. Len(tasks) \/ i = Len(tasks) + 1
      BY <2>2
    <3> QED
      BY <1>2, <2>2, <3>1 DEF Life
  <2> QED
    BY <1>2, <2>3 DEF Life, LivesOn
<1> QED
  BY <1>1, <1>2 DEF LivesOn, PostTask

\* The handlers of the state machine are such steps, but for deleteSelf, which
\* leaves no session to post a task.
LEMMA HandlerLivesOn ==
  ASSUME Typed, Handler, ~DeleteSelf
  PROVE  LivesOn
<1> DEFINE Posted == tasks' = tasks \/ \E e \in Posts \ {"DESTROY"} : PostTask(e)
<1> {"RESET", "SEND_ZDATA", "SEND_ZDATA_LATER"} \subseteq Posts \ {"DESTROY"}
  BY DEF Posts
<1>1. CASE FirstEvent \/ Undefined \/ Transition \/ MoreToParse
  <2>1. UNCHANGED <<isDestroyed_, deleted, tasks>>
    BY <1>1 DEF FirstEvent, Undefined, Transition, MoreToParse, OutKeeps, lifeVars
  <2>2. \/ state' = state /\ event' \in {event, "entry"}
        \/ state' = "IDLE" /\ event' = "entry"
        \/ Transition
    BY <1>1 DEF FirstEvent, Undefined, MoreToParse, ChangeState
  <2>3. Transition => (state' = "DESTROY" => event = "DESTROY") /\ event' = "entry"
    BY TransitionFacts DEF Transition, ChangeState
  <2> QED
    BY <2>1, <2>2, <2>3 DEF LivesOn
<1>2. CASE InitState
  <2>1. Posted /\ UNCHANGED <<isDestroyed_, deleted, state>> /\ event' = "none"
    BY <1>2 DEF InitState, HandlerKeeps, OutKeeps, lifeVars
  <2> QED
    BY <2>1 DEF LivesOn
<1>3. CASE CheckFrametype
  <2>1. UNCHANGED <<isDestroyed_, deleted, state, tasks>>
    BY <1>3 DEF CheckFrametype, HandlerKeeps, OutKeeps, lifeVars
  <2>2. event' # "DESTROY"
    <3>1. CASE FindsEncoding
      <4>1. FirstPad + 1 \in 1 .. Len(buffer) /\ buffer[FirstPad + 1].k = "enc"
            /\ buffer \in Seq(Tokens)
        BY <3>1, FirstPadIs DEF Typed
      <4>2. event' \in ParseStates
        BY <1>3, <3>1, <4>1, BufferToken DEF CheckFrametype
      <4> QED
        BY <4>2 DEF ParseStates
    <3>2. CASE ~FindsEncoding
      BY <1>3, <3>2 DEF CheckFrametype
    <3> QED
      BY <3>1, <3>2
  <2> QED
    BY <2>1, <2>2 DEF LivesOn
<1>4. CASE ParseWaits \/ ParseHexFrame \/ ParseBinFrame
  <2>1. UNCHANGED <<isDestroyed_, deleted, state, tasks>>
    BY <1>4 DEF ParseWaits, ParseHexFrame, ParseBinFrame, HandlerKeeps, OutKeeps, lifeVars
  <2>2. event' # "DESTROY"
    BY <1>4 DEF ParseWaits, ParseHexFrame, ParseBinFrame
  <2> QED
    BY <2>1, <2>2 DEF LivesOn
<1>5. CASE HandleZrqinit \/ HandleZfile \/ HandleZeof \/ HandleZfin \/ RefuseZrpos
  <2>1. UNCHANGED <<isDestroyed_, deleted, state, tasks>>
    BY <1>5 DEF HandleZrqinit, HandleZfile, HandleZeof, HandleZfin, RefuseZrpos,
       HandlerKeeps, OutKeeps, lifeVars
  <2>2. event' # "DESTROY"
    BY <1>5 DEF HandleZrqinit, HandleZfile, HandleZeof, HandleZfin, RefuseZrpos
  <2> QED
    BY <2>1, <2>2 DEF LivesOn
<1>6. CASE HandleZdataCrashes \/ HandleZdata \/ HandleZrinit \/ SendZdataCrashes
  <2>1. UNCHANGED <<isDestroyed_, deleted, state, tasks>>
    BY <1>6, ZdataIs DEF HandleZdataCrashes, HandleZrinit, SendZdataCrashes,
       HandlerKeeps, OutKeeps, lifeVars
  <2>2. HandleZdataCrashes \/ SendZdataCrashes => event' = event
    BY DEF HandleZdataCrashes, SendZdataCrashes
  <2>3. HandleZdata \/ HandleZrinit => event' # "DESTROY"
    BY ZdataIs DEF HandleZrinit
  <2> QED
    BY <1>6, <2>1, <2>2, <2>3 DEF LivesOn
<1>7. CASE HandleZrpos \/ EnterSendZdata
  <2>1. UNCHANGED <<isDestroyed_, deleted, state>> /\ event' = "none"
    BY <1>7 DEF HandleZrpos, EnterSendZdata, HandlerKeeps, OutKeeps, lifeVars
  <2>2. \E f, before : SendZdata(f, before) \/ SendZdataLater(f, before)
    BY <1>7 DEF HandleZrpos, EnterSendZdata
  <2>3. Posted
    BY <2>2 DEF SendZdata, SendZdataLater
  <2> QED
    BY <2>1, <2>3 DEF LivesOn
<1>8. CASE EnterSendFlowCtrl \/ EnterWaitData \/ SendFileInfo
  <2>1. UNCHANGED <<isDestroyed_, deleted, state, tasks>>
    BY <1>8 DEF EnterSendFlowCtrl, EnterWaitData, SendFileInfo, HandlerKeeps,
       OutKeeps, lifeVars
  <2>2. event' # "DESTROY"
    BY <1>8 DEF EnterSendFlowCtrl, EnterWaitData, SendFileInfo
  <2> QED
    BY <2>1, <2>2 DEF LivesOn
<1> QED
  BY <1>1, <1>2, <1>3, <1>4, <1>5, <1>6, <1>7, <1>8 DEF Handler

\* So are the calls from outside, but for the tasks and for destroy.
LEMMA OutsideLivesOn ==
  ASSUME Typed,
         \/ Timeout \/ FileSelected \/ FileCanceled \/ UserCancels
         \/ IgnoreInput \/ ResetOnInput \/ ProcessNetworkInput
  PROVE  LivesOn
<1>1. UNCHANGED <<isDestroyed_, deleted, state, tasks>>
  BY DEF Timeout, FileSelected, FileCanceled, UserCancels, IgnoreInput, ResetOnInput,
     ProcessNetworkInput, HandlerKeeps, OutKeeps, lifeVars
<1>2. event' = event \/ event' \in {"TIMEOUT", "FILE_SELECTED", "RESET", "NETWORK_INPUT"}
  BY DEF Timeout, FileSelected, FileCanceled, UserCancels, IgnoreInput, ResetOnInput,
     ProcessNetworkInput, Deliver, Reset
<1> QED
  BY <1>1, <1>2 DEF LivesOn

\* So are the steps of the other program.
LEMMA PeerLivesOn ==
  ASSUME Peer
  PROVE  LivesOn
<1>1. SessionKeeps
  BY DEF Peer, StartPeer, RetryZrinit, ResendZrpos, SzSendsByte, Intrude, SzEndsSubpacket,
     PeerHears, ShellHears
<1> QED
  BY <1>1 DEF SessionKeeps, lifeVars, LivesOn

\* The task that is run was the first: if it is DESTROY none is left behind it.
LEMMA RunTaskLife ==
  ASSUME Typed, Life, RunTask
  PROVE  Life'
<1>1. tasks \in Seq(Posts) /\ tasks # <<>> /\ tasks' = Tail(tasks)
  BY DEF Typed, RunTask
<1>2. /\ ~deleted /\ state # "DESTROY" /\ event' = Head(tasks)
      /\ UNCHANGED <<state, isDestroyed_, deleted>>
  BY <1>1 DEF RunTask, Life, Deliver
<1>3. /\ Len(tasks) \in Nat /\ Len(tasks) > 0 /\ Len(tasks') = Len(tasks) - 1
      /\ \A i \in 1 .. Len(tasks') : tasks'[i] = tasks[i + 1] /\ i + 1 \in 1 .. Len(tasks)
      /\ Head(tasks) = tasks[1]
  BY <1>1
<1>4. tasks' \in Seq(Posts)
  BY <1>1
<1>5. event' = "DESTROY" => tasks' = <<>>
  <2> SUFFICES ASSUME event' = "DESTROY" PROVE tasks' = <<>>
    OBVIOUS
  <2>1. 1 \in 1 .. Len(tasks) /\ tasks[1] = "DESTROY"
    BY <1>2, <1>3
  <2>2. Len(tasks) = 1
    BY <2>1 DEF Life
  <2> QED
    BY <1>3, <1>4, <2>2
<1>6. ~isDestroyed_ => \A i \in 1 .. Len(tasks) : tasks[i] # "DESTROY"
  BY DEF Life
<1>7. ~isDestroyed_ => event' # "DESTROY"
  <2>1. 1 \in 1 .. Len(tasks)
    BY <1>3
  <2> QED
    BY <1>2, <1>3, <1>6, <2>1
<1>8. \A i \in 1 .. Len(tasks') : tasks'[i] = "DESTROY" => i = Len(tasks')
  <2> SUFFICES ASSUME NEW i \in 1 .. Len(tasks'), tasks'[i] = "DESTROY" PROVE i = Len(tasks')
    OBVIOUS
  <2>1. i + 1 = Len(tasks)
    BY <1>3 DEF Life
  <2> QED
    BY <1>3, <2>1
<1> QED
  BY <1>2, <1>3, <1>5, <1>6, <1>7, <1>8 DEF Life

\* destroy puts DESTROY behind all that was posted, and nothing is posted after.
LEMMA DestroyLife ==
  ASSUME Typed, Life, Destroy
  PROVE  Life'
<1>1. tasks \in Seq(Posts) /\ tasks' = Append(tasks, "DESTROY") /\ isDestroyed_' = TRUE
      /\ ~isDestroyed_ /\ UNCHANGED <<state, event, deleted>>
  BY DEF Typed, Destroy
<1>2. /\ Len(tasks') = Len(tasks) + 1 /\ Len(tasks) \in Nat
      /\ \A i \in 1 .. Len(tasks) : tasks'[i] = tasks[i] /\ tasks[i] # "DESTROY"
  BY <1>1, AppendProperties DEF Life
<1>3. \A i \in 1 .. Len(tasks') : tasks'[i] = "DESTROY" => i = Len(tasks')
  BY <1>2
<1> QED
  BY <1>1, <1>3 DEF Life

\* Every step keeps Life.
LEMMA NextLife == Typed /\ Life /\ [Next]_vars => Life'
<1> SUFFICES ASSUME Typed, Life, [Next]_vars PROVE Life'
  OBVIOUS
<1>1. CASE Handler
  <2>1. CASE DeleteSelf
    BY <2>1 DEF DeleteSelf, StreamKeeps, Life, Entered, Handling
  <2> QED
    BY <1>1, <2>1, HandlerLivesOn, LivingOn
<1>2. CASE Outside
  BY <1>2, OutsideLivesOn, LivingOn, RunTaskLife, DestroyLife DEF Outside
<1>3. CASE Peer
  BY <1>3, PeerLivesOn, LivingOn
<1>4. CASE UNCHANGED vars
  BY <1>4 DEF vars, Life
<1> QED
  BY <1>1, <1>2, <1>3, <1>4 DEF Next

\* The session starts alive.
LEMMA InitLife == Init => Life
BY DEF Init, Life

-----------------------------------------------------------------------------
(* The order of an upload.                                                 *)

\* What may follow x in the stream to the other program, if it is data: a ZDATA
\* gives the place of the data behind it, and so does a subpacket that is not
\* the last.
Leads(x, n) ==
  /\ x.t = "ZDATA" => x.n = n
  /\ x.k = "data" /\ x.t = "G" => x.n + x.len = n

\* The stream q, with the file f the next data is read from and the program p that
\* hears it.
Ordered(q, f, p) ==
  /\ \A i \in 1 .. Len(q) - 1 : q[i + 1].k = "data" => Leads(q[i], q[i + 1].n)
  /\ q # <<>> /\ f.mode # "closed" => Leads(q[Len(q)], f.pos)
  /\ p.frame => /\ q # <<>> /\ q[1].k = "data" => q[1].n = p.got
                /\ q = <<>> /\ f.mode # "closed" => f.pos = p.got
  /\ \A i \in 1 .. Len(q) : q[i].k = "data" => q[i].n + q[i].len <= FileSize

Plain(x) == x.k # "data" /\ x.t # "ZDATA"

\* No frame t comes or is being handled.
Lacks(q, t) == \A i \in 1 .. Len(q) : q[i].t # t
Free(t) == Lacks(net, t) /\ Lacks(buffer, t) /\ frame.type # t

\* The session is not sending a file, and nothing of one is in the stream.
Sending == {"SEND_ZDATA", "SEND_ZDATA_LATER"}
Silent ==
  /\ event \notin Sending /\ state \notin {"SEND_ZDATA", "SEND_FLOW_CTRL"}
  /\ \A i \in 1 .. Len(tasks) : tasks[i] \notin Sending
Unsent == \A i \in 1 .. Len(sent) : Plain(sent[i])

\* The first transfer goes one way.
OneWay ==
  /\ bounds.runs = 0 => peer.prog = "none"
  /\ peer.prog = "none" => peer.at = "done"
  /\ peer.prog # "sz" => Free("ZDATA")
  /\ peer.prog # "rz" => Free("ZRPOS") /\ Silent /\ Unsent /\ ~peer.frame

FirstTransfer ==
  bounds.runs <= 1 =>
    /\ OneWay
    /\ Ordered(sent, file, peer)
    /\ peer.intact /\ peer.got <= FileSize
    /\ peer.frame => peer.at = "data"

\* The stream grows at its end.
LEMMA AppendOrdered ==
  ASSUME NEW q \in Seq(Frames), NEW x \in Frames, NEW f, NEW g, NEW p,
         Ordered(q, f, p),
         x.k = "data" => /\ f.mode # "closed" /\ x.n = f.pos
                         /\ x.n + x.len <= FileSize,
         g.mode # "closed" => Leads(x, g.pos)
  PROVE  Ordered(Append(q, x), g, p)
<1> DEFINE r == Append(q, x)
<1>1. /\ Len(r) = Len(q) + 1 /\ Len(q) \in Nat /\ r # <<>>
      /\ \A i \in 1 .. Len(q) : r[i] = q[i]
      /\ r[Len(q) + 1] = x
  BY AppendProperties
<1> HIDE DEF r
<1>2. ASSUME NEW i \in 1 .. Len(r) - 1, r[i + 1].k = "data"
      PROVE  Leads(r[i], r[i + 1].n)
  <2>1. CASE i + 1 \in 1 .. Len(q)
    <3>1. r[i + 1] = q[i + 1] /\ r[i] = q[i] /\ i \in 1 .. Len(q) - 1
      BY <1>1, <2>1
    <3> QED
      BY <1>2, <3>1 DEF Ordered
  <2>2. CASE i = Len(q)
    <3>1. r[i + 1] = x /\ r[i] = q[Len(q)] /\ q # <<>>
      BY <1>1, <2>2
    <3>2. f.mode # "closed" /\ x.n = f.pos
      BY <1>2, <3>1
    <3> QED
      BY <3>1, <3>2 DEF Ordered
  <2> QED
    BY <1>1, <2>1, <2>2
<1>3. g.mode # "closed" => Leads(r[Len(r)], g.pos)
  BY <1>1
<1>4. ASSUME p.frame, r[1].k = "data"
      PROVE  r[1].n = p.got
  <2>1. CASE q = <<>>
    <3>1. r[1] = x
      BY <1>1, <2>1
    <3> QED
      BY <1>4, <2>1, <3>1 DEF Ordered
  <2>2. CASE q # <<>>
    <3>1. r[1] = q[1]
      BY <1>1, <2>2
    <3> QED
      BY <1>4, <2>2, <3>1 DEF Ordered
  <2> QED
    BY <2>1, <2>2
<1>5. ASSUME NEW i \in 1 .. Len(r), r[i].k = "data"
      PROVE  r[i].n + r[i].len <= FileSize
  <2>1. i \in 1 .. Len(q) \/ r[i] = x
    BY <1>1
  <2> QED
    BY <1>1, <1>5, <2>1 DEF Ordered
<1>6. Ordered(r, g, p)
  BY <1>1, <1>2, <1>3, <1>4, <1>5 DEF Ordered
<1> QED
  BY <1>6 DEF r

\* A frame that is not data may follow, whatever becomes of the file.
LEMMA PlainOrdered ==
  ASSUME NEW q \in Seq(Frames), NEW x \in Frames, NEW f, NEW g, NEW p,
         Ordered(q, f, p), Plain(x)
  PROVE  Ordered(Append(q, x), g, p)
<1>1. g.mode # "closed" => Leads(x, g.pos)
  BY DEF Plain, Leads
<1> QED
  BY <1>1, AppendOrdered DEF Plain

\* In a stream of such frames nothing depends on the file.
LEMMA UnsentOrdered ==
  ASSUME NEW q \in Seq(Frames), NEW f, NEW g, NEW p, Ordered(q, f, p),
         \A i \in 1 .. Len(q) : Plain(q[i]), ~p.frame
  PROVE  Ordered(q, g, p)
<1>1. q # <<>> => Len(q) \in 1 .. Len(q)
  OBVIOUS
<1>2. q # <<>> => Leads(q[Len(q)], g.pos)
  BY <1>1 DEF Plain, Leads
<1> QED
  BY <1>2 DEF Ordered

\* A stream without data stays one when a frame that is not data is added.
LEMMA UnsentAppend ==
  ASSUME NEW q \in Seq(Frames), NEW x, \A i \in 1 .. Len(q) : Plain(q[i]), Plain(x)
  PROVE  \A i \in 1 .. Len(Append(q, x)) : Plain(Append(q, x)[i])
OBVIOUS

\* What is taken from a stream leaves it free of what it was free of.
LEMMA FreeTail ==
  ASSUME NEW S, NEW q \in Seq(S), NEW m \in Nat \ {0}, NEW t, Lacks(q, t)
  PROVE  Lacks(SubSeq(q, m, Len(q)), t)
<1> DEFINE r == SubSeq(q, m, Len(q))
<1>1. CASE m > Len(q)
  BY <1>1, SubSeqEmpty DEF Lacks
<1>2. CASE m <= Len(q)
  <2>1. /\ Len(r) = Len(q) - m + 1 /\ Len(q) \in Nat
        /\ \A i \in 1 .. Len(q) - m + 1 : r[i] = q[m + i - 1]
    <3>1. \A i \in m .. Len(q) : q[i] \in S
      BY ElementOfSeq
    <3> QED
      BY <1>2, <3>1, SubSeqProperties
  <2>2. ASSUME NEW i \in 1 .. Len(r) PROVE r[i].t # t
    <3>1. m + i - 1 \in 1 .. Len(q) /\ r[i] = q[m + i - 1]
      BY <1>2, <2>1
    <3> QED
      BY <3>1 DEF Lacks
  <2> QED
    BY <2>2 DEF Lacks
<1> QED
  BY <1>1, <1>2

\* Two streams joined lack what both lack.
LEMMA FreeJoined ==
  ASSUME NEW S, NEW p \in Seq(S), NEW q \in Seq(S), NEW t
  PROVE  Lacks(p \o q, t) <=> Lacks(p, t) /\ Lacks(q, t)
<1>1. /\ Len(p \o q) = Len(p) + Len(q) /\ Len(p) \in Nat /\ Len(q) \in Nat
      /\ \A i \in 1 .. Len(p) : (p \o q)[i] = p[i]
      /\ \A i \in 1 .. Len(q) : (p \o q)[Len(p) + i] = q[i]
  OBVIOUS
<1>2. Lacks(p \o q, t) => Lacks(p, t) /\ Lacks(q, t)
  <2> SUFFICES ASSUME Lacks(p \o q, t) PROVE Lacks(p, t) /\ Lacks(q, t)
    OBVIOUS
  <2>1. \A i \in 1 .. Len(p) : p[i].t # t
    BY <1>1 DEF Lacks
  <2>2. \A i \in 1 .. Len(q) : q[i].t # t
    <3> SUFFICES ASSUME NEW i \in 1 .. Len(q) PROVE q[i].t # t
      OBVIOUS
    <3>1. Len(p) + i \in 1 .. Len(p \o q) /\ (p \o q)[Len(p) + i] = q[i]
      BY <1>1
    <3> QED
      BY <3>1 DEF Lacks
  <2> QED
    BY <2>1, <2>2 DEF Lacks
<1>3. Lacks(p, t) /\ Lacks(q, t) => Lacks(p \o q, t)
  <2> SUFFICES ASSUME Lacks(p, t), Lacks(q, t), NEW i \in 1 .. Len(p \o q)
               PROVE  (p \o q)[i].t # t
    BY DEF Lacks
  <2>1. CASE i \in 1 .. Len(p)
    BY <1>1, <2>1 DEF Lacks
  <2>2. CASE i - Len(p) \in 1 .. Len(q)
    <3>1. (p \o q)[i] = q[i - Len(p)]
      BY <1>1, <2>2
    <3> QED
      BY <2>2, <3>1 DEF Lacks
  <2> QED
    BY <1>1, <2>1, <2>2
<1> QED
  BY <1>2, <1>3

\* The handlers leave the other program and its stream alone.
LEMMA HandlerAlone ==
  ASSUME Typed, Handler
  PROVE  UNCHANGED <<net, peer>> /\ bounds'.runs = bounds.runs
<1>1. UNCHANGED <<net, peer>>
  <2>1. CASE \/ FirstEvent \/ Undefined \/ Transition \/ MoreToParse \/ InitState
             \/ CheckFrametype \/ ParseWaits \/ ParseHexFrame \/ ParseBinFrame
    BY <2>1 DEF FirstEvent, Undefined, Transition, MoreToParse, InitState,
       CheckFrametype, ParseWaits, ParseHexFrame, ParseBinFrame, HandlerKeeps,
       OutKeeps, envVars
  <2>2. CASE \/ HandleZrqinit \/ HandleZfile \/ HandleZdataCrashes \/ HandleZdata
             \/ HandleZeof \/ HandleZfin \/ HandleZrinit
    BY <2>2, ZdataIs DEF HandleZrqinit, HandleZfile, HandleZdataCrashes,
       HandleZeof, HandleZfin, HandleZrinit, HandlerKeeps, OutKeeps, envVars
  <2>3. CASE \/ HandleZrpos \/ RefuseZrpos \/ EnterSendZdata \/ SendZdataCrashes
             \/ EnterSendFlowCtrl \/ EnterWaitData \/ SendFileInfo \/ DeleteSelf
    BY <2>3 DEF HandleZrpos, RefuseZrpos, EnterSendZdata, SendZdataCrashes,
       EnterSendFlowCtrl, EnterWaitData, SendFileInfo, DeleteSelf, HandlerKeeps,
       OutKeeps, envVars
  <2> QED
    BY <2>1, <2>2, <2>3 DEF Handler
<1>2. bounds' = bounds \/ bounds' = [bounds EXCEPT !.busy = @ + 1]
  <2>1. CASE \/ FirstEvent \/ Undefined \/ Transition \/ MoreToParse \/ InitState
             \/ CheckFrametype \/ ParseWaits \/ ParseHexFrame \/ ParseBinFrame
    BY <2>1 DEF FirstEvent, Undefined, Transition, MoreToParse, InitState,
       CheckFrametype, ParseWaits, ParseHexFrame, ParseBinFrame
  <2>2. CASE \/ HandleZrqinit \/ HandleZfile \/ HandleZdataCrashes \/ HandleZdata
             \/ HandleZeof \/ HandleZfin \/ HandleZrinit
    BY <2>2, ZdataIs DEF HandleZrqinit, HandleZfile, HandleZdataCrashes,
       HandleZeof, HandleZfin, HandleZrinit
  <2>3. CASE \/ RefuseZrpos \/ SendZdataCrashes \/ EnterSendFlowCtrl \/ EnterWaitData
             \/ SendFileInfo \/ DeleteSelf
    BY <2>3 DEF RefuseZrpos, SendZdataCrashes, EnterSendFlowCtrl, EnterWaitData,
       SendFileInfo, DeleteSelf
  <2>4. CASE HandleZrpos \/ EnterSendZdata
    <3>1. \E f, before : SendZdata(f, before) \/ SendZdataLater(f, before)
      BY <2>4 DEF HandleZrpos, EnterSendZdata
    <3> QED
      BY <3>1 DEF SendZdata, SendZdataLater
  <2> QED
    BY <2>1, <2>2, <2>3, <2>4 DEF Handler
<1>3. bounds \in BoundSet
  BY PeerTyped
<1> QED
  BY <1>1, <1>2, <1>3 DEF BoundSet

\* A byte decoded is moved within the buffer.
LEMMA DecodedLacks ==
  ASSUME Typed, DecodeByte, NEW t, Lacks(buffer, t)
  PROVE  Lacks(buffer', t)
<1> DEFINE c == Unscanned[IF AtEscape THEN 2 ELSE 1]
<1>1. buffer' = [buffer EXCEPT ![scan.saved + 1] = c] /\ ~LoopEnds
  BY DEF DecodeByte
<1>2. /\ buffer \in Seq(Tokens) /\ buffer' \in Seq(Tokens) /\ scan.at \in Nat
      /\ Unscanned \in Seq(Tokens) /\ Len(Unscanned) \in Nat
  BY DecodeByteTypes, UnscannedIs DEF Typed
<1>3. ~(Len(Unscanned) < 2)
  BY <1>1 DEF LoopEnds
<1>4. Lacks(Unscanned, t)
  <2>1. scan.at + 1 \in Nat \ {0}
    BY <1>2
  <2> QED
    BY <1>2, <2>1, FreeTail DEF Unscanned
<1>5. c.t # t
  <2>1. 1 \in 1 .. Len(Unscanned) /\ 2 \in 1 .. Len(Unscanned)
    BY <1>2, <1>3
  <2> QED
    BY <1>4, <2>1 DEF Lacks
<1> HIDE DEF c
<1>6. DOMAIN buffer' = DOMAIN buffer /\ \A i \in DOMAIN buffer : buffer'[i] \in {buffer[i], c}
  BY <1>1
<1>7. DOMAIN buffer = 1 .. Len(buffer) /\ DOMAIN buffer' = 1 .. Len(buffer')
  BY <1>2
<1> QED
  BY <1>5, <1>6, <1>7 DEF Lacks

\* A handler brings no frame: it takes those of the buffer.
LEMMA HandlerFree ==
  ASSUME Typed, Handler, NEW t, Free(t)
  PROVE  Free(t)'
<1> buffer \in Seq(Tokens)
  BY DEF Typed
<1>1. Lacks(<<>>, t)
  BY DEF Lacks
<1>2. \A m \in Nat \ {0} : Lacks(SubSeq(buffer, m, Len(buffer)), t)
  BY FreeTail DEF Free
<1>3. buffer # <<>> => buffer[1].t # t /\ Lacks(Tail(buffer), t)
  <2> SUFFICES ASSUME buffer # <<>> PROVE buffer[1].t # t /\ Lacks(Tail(buffer), t)
    OBVIOUS
  <2>1. 1 \in 1 .. Len(buffer) /\ Tail(buffer) = SubSeq(buffer, 2, Len(buffer))
    BY TailIsSubSeq
  <2> QED
    BY <1>2, <2>1 DEF Free, Lacks
<1>4. net' = net
  BY HandlerAlone
<1>5. CASE UNCHANGED <<buffer, frame>>
  BY <1>4, <1>5 DEF Free
<1>6. CASE \/ FirstEvent \/ InitState
  <2>1. buffer' = <<>> /\ frame' = frame
    BY <1>6 DEF FirstEvent, InitState
  <2> QED
    BY <1>1, <1>4, <2>1 DEF Free
<1>7. CASE CheckFrametype /\ FindsEncoding
  <2>1. FirstPad + 2 \in Nat \ {0}
    BY <1>7, FirstPadIs
  <2>2. buffer' = SubSeq(buffer, FirstPad + 2, Len(buffer)) /\ frame' = frame
    BY <1>7 DEF CheckFrametype
  <2>3. Lacks(SubSeq(buffer, FirstPad + 2, Len(buffer)), t)
    BY <1>2, <2>1
  <2> QED
    BY <1>4, <2>2, <2>3 DEF Free
<1>8. CASE ParseHexFrame /\ HexWellFormed
  <2>1. HexTail + 1 \in Nat \ {0} /\ buffer # <<>>
    BY <1>8 DEF HexTail, ParseHexFrame, HexComplete
  <2>2. buffer' = SubSeq(buffer, HexTail + 1, Len(buffer)) /\ frame'.type = buffer[1].t
    BY <1>8 DEF ParseHexFrame
  <2>3. Lacks(SubSeq(buffer, HexTail + 1, Len(buffer)), t)
    BY <1>2, <2>1
  <2> QED
    BY <1>3, <1>4, <2>1, <2>2, <2>3 DEF Free
<1>9. CASE ParseBinFrame /\ buffer[1].k = "header"
  <2>1. buffer # <<>> /\ buffer' = Tail(buffer) /\ frame'.type = buffer[1].t
    BY <1>9 DEF ParseBinFrame
  <2> QED
    BY <1>3, <1>4, <2>1 DEF Free
<1>10. CASE HandleZfile /\ ~(Len(buffer) < 2)
  <2>1. InfoLength + 1 \in Nat \ {0}
    BY DEF InfoLength
  <2>2. buffer' = SubSeq(buffer, InfoLength + 1, Len(buffer)) /\ frame' = frame
    BY <1>10 DEF HandleZfile
  <2>3. Lacks(SubSeq(buffer, InfoLength + 1, Len(buffer)), t)
    BY <1>2, <2>1
  <2> QED
    BY <1>4, <2>2, <2>3 DEF Free
<1>11. CASE HandleZdata
  <2>1. frame' = frame
    BY <1>11, ZdataIs
  <2>2. CASE WaitForData \/ SubpacketWrong
    <3>1. buffer' = buffer
      BY <2>2 DEF WaitForData, SubpacketWrong
    <3> QED
      BY <1>5, <2>1, <3>1
  <2>3. CASE DecodeByte
    BY <1>4, <2>1, <2>3, DecodedLacks DEF Free
  <2>4. CASE SubpacketWritten
    <3>1. buffer' = buffer \/ buffer' = SubSeq(buffer, scan.at + 4, Len(buffer))
      BY <2>4 DEF SubpacketWritten
    <3>2. scan.at + 4 \in Nat \ {0}
      BY UnscannedIs
    <3> QED
      BY <1>2, <1>4, <2>1, <3>1, <3>2 DEF Free
  <2> QED
    BY <1>11, <2>2, <2>3, <2>4 DEF HandleZdata
<1>12. \/ UNCHANGED <<buffer, frame>>
       \/ FirstEvent \/ InitState \/ (CheckFrametype /\ FindsEncoding)
       \/ (ParseHexFrame /\ HexWellFormed) \/ (ParseBinFrame /\ buffer[1].k = "header")
       \/ (HandleZfile /\ ~(Len(buffer) < 2)) \/ HandleZdata
  <2>1. CASE Undefined \/ Transition \/ MoreToParse
    BY <2>1 DEF Undefined, Transition, MoreToParse, StreamKeeps
  <2>2. CASE CheckFrametype \/ ParseWaits \/ ParseHexFrame \/ ParseBinFrame
    BY <2>2 DEF CheckFrametype, ParseWaits, ParseHexFrame, ParseBinFrame, StreamKeeps
  <2>3. CASE \/ HandleZrqinit \/ HandleZfile \/ HandleZdataCrashes \/ HandleZdata
             \/ HandleZeof \/ HandleZfin \/ HandleZrinit
    BY <2>3 DEF HandleZrqinit, HandleZfile, HandleZdataCrashes,
       HandleZeof, HandleZfin, HandleZrinit, StreamKeeps
  <2>4. CASE \/ HandleZrpos \/ RefuseZrpos \/ EnterSendZdata \/ SendZdataCrashes
             \/ EnterSendFlowCtrl \/ EnterWaitData \/ SendFileInfo \/ DeleteSelf
    BY <2>4 DEF HandleZrpos, RefuseZrpos, EnterSendZdata, SendZdataCrashes,
       EnterSendFlowCtrl, EnterWaitData, SendFileInfo, DeleteSelf, StreamKeeps
  <2> QED
    BY <2>1, <2>2, <2>3, <2>4 DEF Handler
<1> QED
  BY <1>5, <1>6, <1>7, <1>8, <1>9, <1>10, <1>11, <1>12

\* A session that is not sending a file starts when it hears ZRPOS.
LEMMA HandlerSilent ==
  ASSUME Typed, Handler, Silent, frame.type # "ZRPOS"
  PROVE  Silent'
<1>1. tasks \in Seq(Posts) /\ ~HandleZrpos /\ ~EnterSendZdata /\ ~SendZdataCrashes
      /\ ~RefuseZrpos /\ ~EnterSendFlowCtrl
  BY DEF Typed, HandleZrpos, EnterSendZdata, SendZdataCrashes, RefuseZrpos,
     EnterSendFlowCtrl, FrameHandled, Entered, Silent
<1>2. CASE UNCHANGED <<state, tasks>> /\ event' \notin Sending
  BY <1>2 DEF Silent
<1>3. CASE InitState
  <2>1. UNCHANGED state /\ event' = "none" /\ state = "IDLE"
        /\ (tasks' = tasks \/ tasks' = Append(tasks, "RESET"))
    BY <1>3 DEF InitState, HandlerKeeps, PostTask, Entered
  <2>2. \A i \in 1 .. Len(Append(tasks, "RESET")) :
          Append(tasks, "RESET")[i] \notin Sending
    BY <1>1 DEF Silent, Sending
  <2> QED
    BY <2>1, <2>2 DEF Silent, Sending
<1>4. CASE Transition
  <2>1. PICK t \in Transitions : t[1] = state /\ t[2] = event /\ ChangeState(t[3])
    BY <1>4 DEF Transition
  <2>2. state' \notin {"SEND_ZDATA", "SEND_FLOW_CTRL"} /\ event' = "entry"
    BY <2>1, TransitionFacts DEF ChangeState, Silent, Sending
  <2>3. tasks' = tasks
    BY <1>4 DEF Transition
  <2> QED
    BY <2>2, <2>3 DEF Silent, Sending
<1>5. CASE Undefined
  BY <1>5 DEF Undefined, ChangeState, Silent, Sending
<1>6. CASE FirstEvent \/ MoreToParse
  <2>1. UNCHANGED <<state, tasks>> /\ event' \in {event, "entry"}
    BY <1>6 DEF FirstEvent, MoreToParse
  <2> QED
    BY <2>1 DEF Silent, Sending
<1>7. CASE CheckFrametype
  <2>1. UNCHANGED <<state, tasks>>
    BY <1>7 DEF CheckFrametype, HandlerKeeps
  <2>2. event' \notin Sending
    <3>1. CASE FindsEncoding
      <4>1. FirstPad + 1 \in 1 .. Len(buffer) /\ buffer[FirstPad + 1].k = "enc"
            /\ buffer \in Seq(Tokens)
        BY <3>1, FirstPadIs DEF Typed
      <4>2. event' \in ParseStates
        BY <1>7, <3>1, <4>1, BufferToken DEF CheckFrametype
      <4> QED
        BY <4>2 DEF ParseStates, Sending
    <3>2. CASE ~FindsEncoding
      BY <1>7, <3>2 DEF CheckFrametype, Sending
    <3> QED
      BY <3>1, <3>2
  <2> QED
    BY <1>2, <2>1, <2>2
<1>8. CASE ParseWaits \/ ParseHexFrame \/ ParseBinFrame
  BY <1>2, <1>8 DEF ParseWaits, ParseHexFrame, ParseBinFrame, HandlerKeeps, Sending
<1>9. CASE \/ HandleZrqinit \/ HandleZfile \/ HandleZdata \/ HandleZeof
           \/ HandleZfin \/ HandleZrinit
  BY <1>2, <1>9, ZdataIs DEF HandleZrqinit, HandleZfile, HandleZeof,
     HandleZfin, HandleZrinit, HandlerKeeps, Sending
<1>10. CASE HandleZdataCrashes
  BY <1>10 DEF HandleZdataCrashes, Silent
<1>11. CASE EnterWaitData \/ SendFileInfo \/ DeleteSelf
  BY <1>2, <1>11 DEF EnterWaitData, SendFileInfo, DeleteSelf, HandlerKeeps, Sending
<1> QED
  BY <1>1, <1>3, <1>4, <1>5, <1>6, <1>7, <1>8, <1>9, <1>10, <1>11 DEF Handler

\* What a handler sends, when it does not send data.
Sends ==
  \/ UNCHANGED <<sent, file>>
  \/ \E x \in Frames : Plain(x) /\ sent' = Append(sent, x)
  \/ \E x, y \in Frames : Plain(x) /\ Plain(y) /\ sent' = Append(Append(sent, x), y)

\* The frames the session sends, but for those of the data, are plain.
LEMMA PlainFrame ==
  ASSUME NEW t \in Names \ {"ZDATA", "ZRPOS"}
  PROVE  Token("header", t, 0) \in Frames /\ Plain(Token("header", t, 0))
BY FrameIs DEF Plain, Token

\* The handlers but those that read the file send plain frames; handleZdata, which
\* need not answer, is told apart.
LEMMA HandlerSends ==
  ASSUME Typed, Handler, ~HandleZrpos, ~EnterSendZdata
  PROVE  \/ Sends
         \/ frame.type = "ZDATA" /\ sent' = sent
<1>0. sent \in Seq(Frames)
  BY DEF Typed
<1>1. CASE \/ FirstEvent \/ Undefined \/ Transition \/ MoreToParse
           \/ CheckFrametype \/ ParseWaits \/ ParseHexFrame \/ ParseBinFrame
  BY <1>1 DEF FirstEvent, Undefined, Transition, MoreToParse,
     CheckFrametype, ParseWaits, ParseHexFrame, ParseBinFrame, StreamKeeps, Sends
<1>2. CASE \/ HandleZdataCrashes \/ HandleZfin \/ SendZdataCrashes
           \/ EnterSendFlowCtrl \/ EnterWaitData \/ DeleteSelf
  BY <1>2 DEF HandleZdataCrashes, HandleZfin, SendZdataCrashes, EnterSendFlowCtrl,
     EnterWaitData, DeleteSelf, StreamKeeps, Sends
<1>3. CASE HandleZdata
  BY <1>3, ZdataIs DEF AtZdata
<1>4. CASE InitState \/ HandleZrqinit \/ HandleZfile \/ HandleZeof \/ HandleZrinit
  <2>1. \/ UNCHANGED <<sent, file>>
        \/ \E t \in {"OO", "ZFIN", "ZRINIT", "ZCOMPL"} : SendFrame(t, 0)
        \/ SendFrame("ZRPOS", 0)
    BY <1>4 DEF InitState, HandleZrqinit, HandleZfile, HandleZeof, HandleZrinit
  <2>2. Token("header", "ZRPOS", 0) \in Frames /\ Plain(Token("header", "ZRPOS", 0))
    BY FrameIs DEF Plain, Token, Names
  <2>3. {"OO", "ZFIN", "ZRINIT", "ZCOMPL"} \subseteq Names \ {"ZDATA", "ZRPOS"}
    BY DEF Names
  <2> QED
    BY <2>1, <2>2, <2>3, PlainFrame DEF Sends, SendFrame
<1>5. CASE RefuseZrpos \/ SendFileInfo
  <2> DEFINE can == Token("header", "ZCAN", 0)
             abort == Token("header", "ZABORT", 0)
             name == Token("header", "ZFILE", 0)
             info == Token("info", "", 0)
  <2>1. /\ can \in Frames /\ abort \in Frames /\ name \in Frames
        /\ Plain(can) /\ Plain(abort) /\ Plain(name)
    BY PlainFrame DEF Names
  <2>2. info \in Frames /\ Plain(info)
    BY Literals DEF Plain, Token
  <2>3. \/ UNCHANGED <<sent, file>>
        \/ sent' = sent \o <<can, abort>>
        \/ sent' = sent \o <<name, info>>
    BY <1>5 DEF RefuseZrpos, SendFileInfo
  <2> HIDE DEF can, abort, name, info
  <2>4. \A x, y \in Frames : sent \o <<x, y>> = Append(Append(sent, x), y)
    BY <1>0
  <2> QED
    BY <2>1, <2>2, <2>3, <2>4 DEF Sends
<1> QED
  BY <1>1, <1>2, <1>3, <1>4, <1>5 DEF Handler

\* sendZdata reads on from the place the last subpacket ended at.
LEMMA SendZdataOrdered ==
  ASSUME Typed, NEW f \in Files, f.mode # "closed", NEW q \in Seq(Frames),
         Ordered(q, f, peer),
         \/ sent' = q \o Block(f) /\ file' = AfterRead(f)
         \/ sent' = q /\ file' = f
  PROVE  Ordered(sent', file', peer)
<1> DEFINE r == ReadLength(f)
           g == AfterRead(f)
           more == Data("G", f.pos, r)
           last == Data("E", f.pos, r)
           eof == Token("header", "ZEOF", g.pos)
<1>1. /\ r \in Nat /\ f.pos \in Nat /\ f.pos + r <= FileSize /\ g \in Files
      /\ g.pos = f.pos + r /\ g.pos \in Nat
  BY FileRead
<1>2. more \in Frames /\ last \in Frames /\ eof \in Frames
  BY <1>1 DEF Frames, Tokens, Kinds, Names, Token, Data
<1>3. /\ more.k = "data" /\ more.t = "G" /\ more.n = f.pos /\ more.len = r
      /\ last.k = "data" /\ last.t = "E" /\ last.n = f.pos /\ last.len = r
      /\ Plain(eof)
  BY DEF Data, Token, Plain
<1>4. Block(f) = <<more>> \/ Block(f) = <<last, eof>>
  BY DEF Block
<1> HIDE DEF r, g, more, last, eof
<1>5. Ordered(Append(q, more), g, peer)
  <2>1. Leads(more, g.pos)
    BY <1>1, <1>3 DEF Leads
  <2> QED
    BY <1>1, <1>2, <1>3, <2>1, AppendOrdered
<1>6. Ordered(Append(Append(q, last), eof), g, peer)
  <2>1. Leads(last, g.pos)
    BY <1>3 DEF Leads
  <2>2. Ordered(Append(q, last), g, peer)
    BY <1>1, <1>2, <1>3, <2>1, AppendOrdered
  <2>3. Append(q, last) \in Seq(Frames)
    BY <1>2, AppendProperties
  <2> QED
    BY <1>2, <1>3, <2>2, <2>3, PlainOrdered
<1>7. /\ q \o <<more>> = Append(q, more)
      /\ q \o <<last, eof>> = Append(Append(q, last), eof)
  BY <1>2
<1>8. Ordered(sent', file', peer)
  <2>1. CASE sent' = q /\ file' = f
    BY <2>1
  <2>2. CASE sent' = q \o Block(f) /\ file' = g
    <3>1. sent' = Append(q, more) \/ sent' = Append(Append(q, last), eof)
      BY <1>4, <1>7, <2>2
    <3> QED
      BY <1>5, <1>6, <2>2, <3>1
  <2> QED
    BY <2>1, <2>2 DEF g
<1> QED
  BY <1>8

\* The handlers keep the order.
LEMMA HandlerOrdered ==
  ASSUME Typed, Handler, Ordered(sent, file, peer),
         frame.type = "ZDATA" => Unsent /\ ~peer.frame
  PROVE  Ordered(sent', file', peer)
<1>0. sent \in Seq(Frames) /\ file \in Files /\ frame.pos \in Nat
  BY DEF Typed
<1>1. CASE HandleZrpos
  <2> DEFINE f == SetPos(file, frame.pos)
             x == Token("header", "ZDATA", f.pos)
  <2>1. f \in Files /\ f.pos \in Nat /\ f.mode # "closed"
    BY <1>0, <1>1, Seeks DEF HandleZrpos, IsOpen
  <2>2. x \in Frames /\ x.k # "data" /\ x.t = "ZDATA" /\ x.n = f.pos
    BY <2>1, FrameIs DEF Names, Token
  <2>3. SendZdata(f, <<x>>) \/ SendZdataLater(f, <<x>>)
    BY <1>1 DEF HandleZrpos
  <2> HIDE DEF f, x
  <2>4. Ordered(Append(sent, x), f, peer)
    <3>1. Leads(x, f.pos)
      BY <2>2 DEF Leads
    <3> QED
      BY <1>0, <2>2, <3>1, AppendOrdered
  <2>5. Append(sent, x) \in Seq(Frames) /\ sent \o <<x>> = Append(sent, x)
    BY <1>0, <2>2, AppendProperties
  <2>6. \/ sent' = Append(sent, x) \o Block(f) /\ file' = AfterRead(f)
        \/ sent' = Append(sent, x) /\ file' = f
    BY <2>3, <2>5 DEF SendZdata, SendZdataLater
  <2> QED
    BY <2>1, <2>4, <2>5, <2>6, SendZdataOrdered
<1>2. CASE EnterSendZdata
  <2>1. sent \o <<>> = sent /\ file.mode # "closed"
    BY <1>0, <1>2 DEF EnterSendZdata, IsOpen
  <2>2. SendZdata(file, <<>>) \/ SendZdataLater(file, <<>>)
    BY <1>2 DEF EnterSendZdata
  <2>3. \/ sent' = sent \o Block(file) /\ file' = AfterRead(file)
        \/ sent' = sent /\ file' = file
    BY <2>1, <2>2 DEF SendZdata, SendZdataLater
  <2> QED
    BY <1>0, <2>1, <2>3, SendZdataOrdered
<1>3. CASE ~HandleZrpos /\ ~EnterSendZdata
  <2>1. CASE UNCHANGED <<sent, file>>
    BY <2>1
  <2>2. ASSUME NEW x \in Frames, Plain(x), sent' = Append(sent, x)
        PROVE  Ordered(sent', file', peer)
    BY <1>0, <2>2, PlainOrdered
  <2>3. ASSUME NEW x \in Frames, NEW y \in Frames, Plain(x), Plain(y),
               sent' = Append(Append(sent, x), y)
        PROVE  Ordered(sent', file', peer)
    <3>1. Append(sent, x) \in Seq(Frames)
      BY <1>0, AppendProperties
    <3>2. Ordered(Append(sent, x), file, peer)
      BY <1>0, <2>3, PlainOrdered
    <3> QED
      BY <2>3, <3>1, <3>2, PlainOrdered
  <2>4. CASE frame.type = "ZDATA" /\ sent' = sent
    BY <1>0, <2>4, UnsentOrdered DEF Unsent
  <2> QED
    BY <1>3, <2>1, <2>2, <2>3, <2>4, HandlerSends DEF Sends
<1> QED
  BY <1>1, <1>2, <1>3

\* A session that is silent sends no data.
LEMMA HandlerUnsent ==
  ASSUME Typed, Handler, Unsent, ~HandleZrpos, ~EnterSendZdata
  PROVE  Unsent'
<1>0. sent \in Seq(Frames)
  BY DEF Typed
<1>1. ASSUME NEW x \in Frames, Plain(x), sent' = Append(sent, x)
      PROVE  Unsent'
  BY <1>0, <1>1, UnsentAppend DEF Unsent
<1>2. ASSUME NEW x \in Frames, NEW y \in Frames, Plain(x), Plain(y),
             sent' = Append(Append(sent, x), y)
      PROVE  Unsent'
  <2>1. Append(sent, x) \in Seq(Frames)
    BY <1>0, AppendProperties
  <2>2. \A i \in 1 .. Len(Append(sent, x)) : Plain(Append(sent, x)[i])
    BY <1>0, <1>2, UnsentAppend DEF Unsent
  <2> QED
    BY <1>2, <2>1, <2>2, UnsentAppend DEF Unsent
<1>3. CASE sent' = sent
  BY <1>3 DEF Unsent
<1> QED
  BY <1>1, <1>2, <1>3, HandlerSends DEF Sends

\* The handlers keep what is said of the first transfer.
LEMMA HandlerFirst ==
  ASSUME Typed, FirstTransfer, Handler
  PROVE  FirstTransfer'
<1>1. UNCHANGED <<net, peer>> /\ bounds'.runs = bounds.runs
  BY HandlerAlone
<1> SUFFICES ASSUME bounds.runs <= 1 PROVE FirstTransfer'
  BY <1>1 DEF FirstTransfer
<1>2. /\ OneWay /\ Ordered(sent, file, peer)
      /\ peer.intact /\ peer.got <= FileSize
      /\ peer.frame => peer.at = "data"
  BY DEF FirstTransfer
<1>3. Ordered(sent', file', peer)
  BY <1>2, HandlerOrdered DEF OneWay, Free
<1>4. OneWay'
  <2>1. peer.prog # "sz" => Free("ZDATA")'
    BY <1>2, HandlerFree DEF OneWay
  <2>2. peer.prog # "rz" => Free("ZRPOS")' /\ Silent' /\ Unsent' /\ ~peer.frame
    <3> SUFFICES ASSUME peer.prog # "rz"
                 PROVE  Free("ZRPOS")' /\ Silent' /\ Unsent' /\ ~peer.frame
      OBVIOUS
    <3>1. Free("ZRPOS") /\ Silent /\ Unsent /\ ~peer.frame /\ frame.type # "ZRPOS"
      BY <1>2 DEF OneWay, Free
    <3>2. ~HandleZrpos /\ ~EnterSendZdata
      BY <3>1 DEF HandleZrpos, EnterSendZdata, FrameHandled, Entered, Silent
    <3> QED
      BY <3>1, <3>2, HandlerFree, HandlerSilent, HandlerUnsent
  <2> QED
    BY <1>1, <1>2, <2>1, <2>2 DEF OneWay
<1> QED
  BY <1>1, <1>2, <1>3, <1>4 DEF FirstTransfer

\* What comes from outside brings no frame: a chunk goes to the buffer.
LEMMA OutsideFree ==
  ASSUME Typed, Outside, NEW t, Free(t)
  PROVE  Free(t)'
<1>1. buffer \in Seq(Tokens) /\ net \in Seq(Tokens)
  BY DEF Typed
<1>2. UNCHANGED frame
  BY DEF Outside, RunTask, Timeout, FileSelected, FileCanceled, UserCancels, Destroy,
     IgnoreInput, ResetOnInput, ProcessNetworkInput, HandlerKeeps, StreamKeeps
<1>3. CASE UNCHANGED <<net, buffer>>
  BY <1>2, <1>3 DEF Free
<1>4. ASSUME NEW chunk, Receives(chunk), buffer' \in {buffer, buffer \o chunk}
      PROVE  Free(t)'
  <2>1. PICK n \in 1 .. Len(net) : chunk = SubSeq(net, 1, n)
    BY <1>4 DEF Receives, Chunks
  <2>2. /\ chunk \in Seq(Tokens) /\ Len(chunk) = n
        /\ \A i \in 1 .. n : chunk[i] = net[i]
    BY <1>1, <2>1, StartOfSeq
  <2>3. Lacks(chunk, t)
    BY <2>1, <2>2 DEF Free, Lacks
  <2>4. net' = SubSeq(net, n + 1, Len(net)) /\ n + 1 \in Nat \ {0}
    BY <1>4, <2>2 DEF Receives
  <2>5. Lacks(net', t)
    BY <1>1, <2>4, FreeTail DEF Free
  <2>6. Lacks(buffer \o chunk, t)
    BY <1>1, <2>2, <2>3, FreeJoined DEF Free
  <2> QED
    BY <1>2, <1>4, <2>5, <2>6 DEF Free
<1>5. \/ UNCHANGED <<net, buffer>>
      \/ \E chunk : Receives(chunk) /\ buffer' \in {buffer, buffer \o chunk}
  BY DEF Outside, RunTask, Timeout, FileSelected, FileCanceled, UserCancels, Destroy,
     IgnoreInput, ResetOnInput, ProcessNetworkInput, HandlerKeeps, StreamKeeps,
     OutKeeps, envVars
<1> QED
  BY <1>3, <1>4, <1>5

\* What comes from outside sends CANCEL at most, and brings no new frame.
LEMMA OutsideFirst ==
  ASSUME Typed, FirstTransfer, Outside
  PROVE  FirstTransfer'
<1>0. /\ sent \in Seq(Frames) /\ tasks \in Seq(Posts) /\ buffer \in Seq(Tokens)
      /\ net \in Seq(Tokens)
  BY DEF Typed
<1>1. UNCHANGED <<peer, bounds, file, frame, state>>
  BY DEF Outside, RunTask, Timeout, FileSelected, FileCanceled, UserCancels, Destroy,
     IgnoreInput, ResetOnInput, ProcessNetworkInput, HandlerKeeps, StreamKeeps,
     OutKeeps, envVars
<1> SUFFICES ASSUME bounds.runs <= 1 PROVE FirstTransfer'
  BY <1>1 DEF FirstTransfer
<1>2. /\ OneWay /\ Ordered(sent, file, peer)
      /\ peer.intact /\ peer.got <= FileSize
      /\ peer.frame => peer.at = "data"
  BY DEF FirstTransfer
<1> DEFINE x == Token("header", "CANCEL", 0)
<1>3. sent' = sent \/ sent' = Append(sent, x)
  BY DEF Outside, RunTask, Timeout, FileSelected, FileCanceled, UserCancels, Destroy,
     IgnoreInput, ResetOnInput, ProcessNetworkInput, StreamKeeps, Reset, SendFrame
<1>4. x \in Frames /\ Plain(x)
  BY PlainFrame DEF Names
<1> HIDE DEF x
<1>5. Ordered(sent', file', peer')
  BY <1>0, <1>1, <1>2, <1>3, <1>4, PlainOrdered
<1>6. Unsent => Unsent'
  BY <1>0, <1>3, <1>4, UnsentAppend DEF Unsent
<1>7. \A t : Free(t) => Free(t)'
  BY OutsideFree
<1>8. ASSUME Silent
      PROVE  Silent'
  <2>1. CASE RunTask
    <3>1. /\ tasks # <<>> /\ tasks' = Tail(tasks)
          /\ event' = event \/ event' = Head(tasks)
      BY <2>1 DEF RunTask, Deliver
    <3>2. /\ Head(tasks) = tasks[1] /\ 1 \in 1 .. Len(tasks)
          /\ \A i \in 1 .. Len(tasks') : i + 1 \in 1 .. Len(tasks) /\ tasks'[i] = tasks[i + 1]
      BY <1>0, <3>1
    <3> QED
      BY <1>1, <1>8, <3>1, <3>2 DEF Silent
  <2>2. CASE Destroy
    <3>1. tasks' = Append(tasks, "DESTROY") /\ event' = event
      BY <2>2 DEF Destroy
    <3>2. \A i \in 1 .. Len(tasks') : tasks'[i] \notin Sending
      BY <1>0, <1>8, <3>1 DEF Silent, Sending
    <3> QED
      BY <1>1, <1>8, <3>1, <3>2 DEF Silent
  <2>3. CASE ~RunTask /\ ~Destroy
    <3>1. UNCHANGED tasks
      BY <2>3 DEF Outside, Timeout, FileSelected, FileCanceled, UserCancels,
         IgnoreInput, ResetOnInput, ProcessNetworkInput, HandlerKeeps, StreamKeeps, OutKeeps
    <3>2. event' = event \/ event' \in {"TIMEOUT", "FILE_SELECTED", "RESET", "NETWORK_INPUT"}
      BY <2>3 DEF Outside, Timeout, FileSelected, FileCanceled, UserCancels, IgnoreInput,
         ResetOnInput, ProcessNetworkInput, Deliver, Reset
    <3> QED
      BY <1>1, <1>8, <3>1, <3>2 DEF Silent, Sending
  <2> QED
    BY <2>1, <2>2, <2>3
<1>9. OneWay'
  BY <1>1, <1>2, <1>6, <1>7, <1>8 DEF OneWay
<1> QED
  BY <1>1, <1>2, <1>5, <1>9 DEF FirstTransfer

-----------------------------------------------------------------------------
(* The other program keeps it.                                             *)

\* The tokens but the frames t.
Without(t) == {x \in Tokens : x.t # t}

\* A stream over the tokens without t lacks t.
LEMMA WithoutLacks ==
  ASSUME NEW t, NEW q \in Seq(Without(t))
  PROVE  Lacks(q, t)
<1>1. \A i \in 1 .. Len(q) : q[i] \in Without(t)
  BY ElementOfSeq
<1> QED
  BY <1>1 DEF Lacks, Without

\* The frames a stream is said to lack: only a header of theirs brings them.
Marks == {"ZDATA", "ZRPOS", "ZRINIT", "ZFILE", "ZEOF", "C"}

\* A header of another frame has no t.
LEMMA HeaderWithout ==
  ASSUME NEW t \in Names, NEW n \in Nat, NEW u \in Marks, t # u
  PROVE  Header(t, n) \in Seq(Without(u))
<1>1. HeadersIn(Without(u))
  BY Literals DEF HeadersIn, Without, Token, Marks
<1>2. Token("header", t, n) \in Without(u)
  BY Literals DEF Without, Token
<1> QED
  BY <1>1, <1>2, HeaderIn

\* A header of another frame lacks t.
LEMMA HeaderLacks ==
  ASSUME NEW t \in Names, NEW n \in Nat
  PROVE  \A u \in Marks : t # u => Lacks(Header(t, n), u)
BY HeaderWithout, WithoutLacks

\* What sz sends to offer a file.
Offer ==
  Header("ZFILE", 0) \o <<Token("info", "", 0), Token("crc", "", 0), Token("xon", "", 0)>>

\* rz sends nothing of a file, and sz does not ask for one.
LEMMA AnswersLack ==
  ASSUME NEW f \in Frames
  PROVE  /\ \A u \in {"ZRPOS", "ZRINIT", "C"} : Lacks(SzAnswer(f)[2], u)
         /\ \A u \in {"ZDATA", "ZFILE", "ZEOF"} : Lacks(RzAnswer(f)[2], u)
<1>1. Otherwise(f)[2] = <<>>
  BY DEF Otherwise
<1>2. ASSUME NEW u \in {"ZRPOS", "ZRINIT", "C"}
      PROVE  Lacks(SzAnswer(f)[2], u)
  <2>1. Lacks(<<>>, u) /\ Lacks(<<Token("noise", "OO", 0)>>, u)
    BY DEF Lacks, Token
  <2>2. u \in Marks /\ Lacks(Header("ZFIN", 0), u)
    BY HeaderLacks DEF Names, Marks
  <2>3. Lacks(Header("ZDATA", f.n), u)
    <3>1. f.n \in Nat
      BY DEF Frames, Tokens
    <3> QED
      BY <2>2, <3>1, HeaderLacks DEF Names
  <2>4. Lacks(Offer, u)
    <3>1. Header("ZFILE", 0) \in Seq(Without(u))
      BY <2>2, HeaderWithout DEF Names
    <3>2. /\ Token("info", "", 0) \in Without(u) /\ Token("crc", "", 0) \in Without(u)
          /\ Token("xon", "", 0) \in Without(u)
      BY Literals DEF Without, Token, Frames
    <3>3. Offer \in Seq(Without(u))
      BY <3>1, <3>2, Tuples, Joined DEF Offer
    <3> QED
      BY <3>3, WithoutLacks
  <2>5. \/ SzAnswer(f)[2] \in {Offer, Header("ZFIN", 0), <<Token("noise", "OO", 0)>>, <<>>}
        \/ SzAnswer(f)[2] = Header("ZDATA", f.n)
    BY <1>1 DEF SzAnswer, Offer
  <2> QED
    BY <2>1, <2>2, <2>3, <2>4, <2>5
<1>3. ASSUME NEW u \in {"ZDATA", "ZFILE", "ZEOF"}
      PROVE  Lacks(RzAnswer(f)[2], u)
  <2>1. Lacks(<<>>, u)
    BY DEF Lacks
  <2>2. /\ Lacks(Header("ZRPOS", 0), u) /\ Lacks(Header("ZRINIT", 0), u)
        /\ Lacks(Header("ZFIN", 0), u)
    BY HeaderLacks DEF Names, Marks
  <2>3. RzAnswer(f)[2] \in {Header("ZRPOS", 0), Header("ZRINIT", 0), Header("ZFIN", 0), <<>>}
    BY <1>1 DEF RzAnswer
  <2> QED
    BY <2>1, <2>2, <2>3
<1> QED
  BY <1>2, <1>3

\* The first of the stream has been heard.
LEMMA TailOrdered ==
  ASSUME NEW q \in Seq(Frames), q # <<>>, NEW f, NEW p, NEW r, Ordered(q, f, p),
         r.frame => \A n : Leads(q[1], n) => n = r.got
  PROVE  Ordered(Tail(q), f, r)
<1> DEFINE s == Tail(q)
<1>1. /\ Len(q) \in Nat /\ Len(q) > 0 /\ Len(s) = Len(q) - 1
      /\ \A i \in 1 .. Len(s) : s[i] = q[i + 1]
      /\ s # <<>> => Len(s) > 0
  OBVIOUS
<1> HIDE DEF s
<1>2. ASSUME NEW i \in 1 .. Len(s) - 1, s[i + 1].k = "data"
      PROVE  Leads(s[i], s[i + 1].n)
  <2>1. i + 1 \in 1 .. Len(q) - 1 /\ s[i] = q[i + 1] /\ s[i + 1] = q[(i + 1) + 1]
    BY <1>1
  <2> QED
    BY <1>2, <2>1 DEF Ordered
<1>3. s # <<>> /\ f.mode # "closed" => Leads(s[Len(s)], f.pos)
  <2>1. s # <<>> => s[Len(s)] = q[Len(q)] /\ q # <<>>
    BY <1>1
  <2> QED
    BY <2>1 DEF Ordered
<1>4. ASSUME r.frame, s # <<>>, s[1].k = "data"
      PROVE  s[1].n = r.got
  <2>1. 1 \in 1 .. Len(q) - 1 /\ s[1] = q[1 + 1]
    BY <1>1, <1>4
  <2>2. Leads(q[1], s[1].n)
    BY <1>4, <2>1 DEF Ordered
  <2> QED
    BY <1>4, <2>2
<1>5. ASSUME r.frame, s = <<>>, f.mode # "closed"
      PROVE  f.pos = r.got
  <2>1. Len(q) = 1
    BY <1>1, <1>5
  <2>2. Leads(q[1], f.pos)
    BY <1>5, <2>1 DEF Ordered
  <2> QED
    BY <1>5, <2>2
<1>6. ASSUME NEW i \in 1 .. Len(s), s[i].k = "data"
      PROVE  s[i].n + s[i].len <= FileSize
  <2>1. i + 1 \in 1 .. Len(q) /\ s[i] = q[i + 1]
    BY <1>1
  <2> QED
    BY <1>6, <2>1 DEF Ordered
<1>7. Ordered(s, f, r)
  BY <1>2, <1>3, <1>4, <1>5, <1>6 DEF Ordered
<1> QED
  BY <1>7 DEF s

\* What a program sends changes only what is free of some frame.
LEMMA EmitsFree ==
  ASSUME Typed, NEW q \in Seq(Tokens), Emits(q), SessionKeeps, NEW t, Free(t), Lacks(q, t)
  PROVE  Free(t)'
<1>1. net \in Seq(Tokens) /\ net' = net \o q /\ UNCHANGED <<buffer, frame>>
  BY DEF Typed, Emits, SessionKeeps
<1> QED
  BY <1>1, FreeJoined DEF Free

\* What leaves the session alone leaves it silent.
LEMMA SilentKept ==
  ASSUME SessionKeeps, Silent
  PROVE  Silent'
BY DEF SessionKeeps, Silent

\* What sz sends of the data, noise and the ZEOF behind it included.
LEMMA DataIs ==
  ASSUME Typed, SzSendsByte \/ Intrude \/ SzEndsSubpacket
  PROVE  /\ SessionKeeps /\ UNCHANGED sent /\ peer.prog = "sz" /\ peer.at = "data"
         /\ peer'.prog = "sz" /\ peer'.got = peer.got /\ peer'.frame = peer.frame
         /\ peer'.intact = peer.intact /\ bounds'.runs = bounds.runs
         /\ \E q \in Seq(Tokens) :
              Emits(q) /\ \A u \in {"ZRPOS", "ZRINIT", "C", "ZDATA", "ZFILE"} : Lacks(q, u)
<1>1. /\ SessionKeeps /\ UNCHANGED sent /\ peer.prog = "sz" /\ peer.at = "data"
      /\ peer \in PeerSet /\ bounds \in BoundSet
  BY PeerTyped DEF SzSendsByte, Intrude, SzEndsSubpacket
<1>2. /\ peer'.prog = "sz" /\ peer'.got = peer.got /\ peer'.frame = peer.frame
      /\ peer'.intact = peer.intact /\ bounds'.runs = bounds.runs
  <2>1. CASE SzSendsByte
    BY <1>1, <2>1 DEF SzSendsByte, PeerSet
  <2>2. CASE Intrude
    BY <1>1, <2>2 DEF Intrude, BoundSet
  <2>3. CASE SzEndsSubpacket
    BY <1>1, <2>3 DEF SzEndsSubpacket, PeerSet
  <2> QED
    BY <2>1, <2>2, <2>3
<1> DEFINE U == {"ZRPOS", "ZRINIT", "C", "ZDATA", "ZFILE"}
           byte == Coded("byte", "", peer.pos, peer.len)
           zdle == Coded("zdle", "", peer.pos, peer.len)
           esc == Coded("esc", "", peer.pos, peer.len)
           noise == Coded("byte", "noise", peer.pos, peer.len)
<1>3. \A u \in U : /\ byte \in Without(u) /\ zdle \in Without(u) /\ esc \in Without(u)
                   /\ noise \in Without(u)
  <2>1. /\ byte \in Tokens /\ zdle \in Tokens /\ esc \in Tokens /\ noise \in Tokens
    BY <1>1, CodedIsToken DEF CodeKinds, PeerSet
  <2>2. byte.t = "" /\ zdle.t = "" /\ esc.t = "" /\ noise.t = "noise"
    BY DEF Coded
  <2> HIDE DEF byte, zdle, esc, noise
  <2> QED
    BY <2>1, <2>2 DEF Without
<1>4. \A u \in U : \A t \in {"G", "E"} : SubpacketEnd(t) \in Seq(Without(u))
  <2> SUFFICES ASSUME NEW u \in U, NEW t \in {"G", "E"}
               PROVE  SubpacketEnd(t) \in Seq(Without(u))
    OBVIOUS
  <2> DEFINE end == Coded("end", t, peer.pos, peer.len)
             crc == Coded("crc", t, peer.pos, peer.len)
  <2>1. end \in Tokens /\ crc \in Tokens /\ end.t = t /\ crc.t = t
    BY <1>1, CodedIsToken DEF CodeKinds, PeerSet, Coded
  <2>2. SubpacketEnd(t) = <<zdle, end, crc>>
    BY DEF SubpacketEnd
  <2> HIDE DEF end, crc, zdle
  <2>3. end \in Without(u) /\ crc \in Without(u) /\ zdle \in Without(u)
    BY <1>3, <2>1 DEF Without, zdle
  <2> QED
    BY <2>2, <2>3, Tuples
<1>5. \A u \in U : SubpacketEnd("E") \o Header("ZEOF", peer.pos) \in Seq(Without(u))
  <2> SUFFICES ASSUME NEW u \in U
               PROVE  SubpacketEnd("E") \o Header("ZEOF", peer.pos) \in Seq(Without(u))
    OBVIOUS
  <2>1. Header("ZEOF", peer.pos) \in Seq(Without(u))
    BY <1>1, HeaderWithout DEF Names, Marks, PeerSet
  <2> QED
    BY <1>4, <2>1, Joined
<1> DEFINE Q == {<<byte>>, <<zdle, esc>>, <<noise>>, SubpacketEnd("G"),
                 SubpacketEnd("E") \o Header("ZEOF", peer.pos)}
<1>6. \E q \in Q : Emits(q)
  BY DEF SzSendsByte, Intrude, SzEndsSubpacket
<1>7. \A u \in U : \A q \in Q : q \in Seq(Without(u))
  <2> HIDE DEF byte, zdle, esc, noise, U
  <2> QED
    BY <1>3, <1>4, <1>5, Tuples
<1> HIDE DEF Q
<1>8. \A q \in Q : q \in Seq(Tokens) /\ \A u \in U : Lacks(q, u)
  <2> SUFFICES ASSUME NEW q \in Q PROVE q \in Seq(Tokens) /\ \A u \in U : Lacks(q, u)
    OBVIOUS
  <2>1. q \in Seq(Without("C"))
    BY <1>7
  <2>2. q \in Seq(Tokens)
    <3>1. Without("C") \subseteq Tokens
      BY DEF Without
    <3> QED
      BY <2>1, <3>1, SeqDef
  <2> QED
    BY <1>7, <2>2, WithoutLacks
<1> QED
  BY <1>1, <1>2, <1>6, <1>8

\* sz sending data keeps what is said of the first transfer.
LEMMA DataFirst ==
  ASSUME Typed, FirstTransfer, SzSendsByte \/ Intrude \/ SzEndsSubpacket
  PROVE  FirstTransfer'
<1>1. /\ SessionKeeps /\ UNCHANGED sent /\ peer.prog = "sz" /\ peer.at = "data"
      /\ peer'.prog = "sz" /\ peer'.got = peer.got /\ peer'.frame = peer.frame
      /\ peer'.intact = peer.intact /\ bounds'.runs = bounds.runs
  BY DataIs
<1> SUFFICES ASSUME bounds.runs <= 1 PROVE FirstTransfer'
  BY <1>1 DEF FirstTransfer
<1>2. PICK q \in Seq(Tokens) : Emits(q) /\ Lacks(q, "ZRPOS")
  BY DataIs
<1>3. /\ OneWay /\ Ordered(sent, file, peer) /\ peer.intact /\ peer.got <= FileSize
      /\ Free("ZRPOS") /\ Silent /\ Unsent /\ ~peer.frame /\ bounds.runs # 0
  BY <1>1 DEF FirstTransfer, OneWay
<1>4. Free("ZRPOS")' /\ Silent' /\ Unsent'
  BY <1>1, <1>2, <1>3, EmitsFree, SilentKept DEF Unsent
<1>5. OneWay'
  BY <1>1, <1>3, <1>4 DEF OneWay
<1>6. Ordered(sent', file', peer')
  BY <1>1, <1>3 DEF Ordered, SessionKeeps
<1> QED
  BY <1>1, <1>3, <1>5, <1>6 DEF FirstTransfer

\* The first program that is started finds no frame on its way and no file sent.
LEMMA StartPeerFirst ==
  ASSUME Typed, FirstTransfer, NEW prog \in {"sz", "rz"}, StartPeer(prog)
  PROVE  FirstTransfer'
<1>1. /\ SessionKeeps /\ UNCHANGED sent
      /\ peer' = [prog |-> prog, at |-> "open", got |-> 0, frame |-> FALSE, intact |-> TRUE,
                  pos |-> 0, len |-> 0]
      /\ Emits(Header(IF prog = "sz" THEN "ZRQINIT" ELSE "ZRINIT", 0))
  BY DEF StartPeer
<1>2. bounds'.runs = bounds.runs + 1 /\ bounds.runs \in Nat
  BY PeerTyped DEF StartPeer, BoundSet
<1> SUFFICES ASSUME bounds.runs = 0 PROVE FirstTransfer'
  BY <1>2 DEF FirstTransfer
<1>3. /\ peer.prog = "none" /\ Free("ZDATA") /\ Free("ZRPOS") /\ Silent /\ Unsent
      /\ Ordered(sent, file, peer)
  BY DEF FirstTransfer, OneWay
<1>4. Free("ZDATA")' /\ Free("ZRPOS")'
  <2> DEFINE t == IF prog = "sz" THEN "ZRQINIT" ELSE "ZRINIT"
  <2>1. t \in Names /\ t # "ZDATA" /\ t # "ZRPOS"
    BY DEF Names
  <2> HIDE DEF t
  <2>2. /\ Header(t, 0) \in Seq(Tokens)
        /\ Lacks(Header(t, 0), "ZDATA") /\ Lacks(Header(t, 0), "ZRPOS")
    BY <2>1, HeaderIsTokens, HeaderLacks DEF Marks
  <2>3. Emits(Header(t, 0))
    BY <1>1 DEF t
  <2> QED
    BY <1>1, <1>3, <2>2, <2>3, EmitsFree
<1>5. Silent' /\ Unsent'
  BY <1>1, <1>3, SilentKept DEF Unsent
<1>6. Ordered(sent', file', peer')
  <2>1. file' = file
    BY <1>1 DEF SessionKeeps
  <2> QED
    BY <1>1, <1>3, <2>1 DEF Ordered
<1>7. OneWay'
  BY <1>1, <1>2, <1>4, <1>5 DEF OneWay
<1> QED
  BY <1>1, <1>6, <1>7, SizeAssumption DEF FirstTransfer

\* rz speaks up: it sends no data.
LEMMA RzSpeaks ==
  ASSUME Typed, FirstTransfer, bounds.runs <= 1, peer.prog = "rz", SessionKeeps,
         NEW q \in Seq(Tokens), Emits(q), Lacks(q, "ZDATA"),
         bounds'.runs = bounds.runs, peer'.prog = "rz",
         Ordered(sent', file', peer'), peer'.intact, peer'.got <= FileSize,
         peer'.frame => peer'.at = "data"
  PROVE  FirstTransfer'
<1>1. OneWay
  BY DEF FirstTransfer
<1>2. Free("ZDATA")'
  BY <1>1, EmitsFree DEF OneWay
<1>3. OneWay'
  BY <1>1, <1>2 DEF OneWay
<1> QED
  BY <1>3 DEF FirstTransfer

\* The questions rz repeats keep what is said of the first transfer.
LEMMA RetriesFirst ==
  ASSUME Typed, FirstTransfer, RetryZrinit \/ ResendZrpos
  PROVE  FirstTransfer'
<1>1. /\ SessionKeeps /\ UNCHANGED sent /\ peer.prog = "rz" /\ file' = file
      /\ peer \in PeerSet /\ bounds \in BoundSet
  BY PeerTyped DEF RetryZrinit, ResendZrpos, SessionKeeps
<1>2. bounds'.runs = bounds.runs
  BY <1>1 DEF RetryZrinit, ResendZrpos, BoundSet
<1> SUFFICES ASSUME bounds.runs <= 1 PROVE FirstTransfer'
  BY <1>2 DEF FirstTransfer
<1>3. /\ Ordered(sent, file, peer) /\ peer.intact /\ peer.got <= FileSize
      /\ peer.frame => peer.at = "data"
  BY DEF FirstTransfer
<1>4. /\ peer'.prog = "rz" /\ peer'.intact = peer.intact /\ peer'.got = peer.got
      /\ peer'.frame => peer.frame /\ peer' = peer
  <2>1. CASE RetryZrinit
    <3>1. ~peer.frame /\ (peer' = peer \/ peer' = [peer EXCEPT !.at = "timed out"])
      BY <1>3, <2>1 DEF RetryZrinit
    <3> QED
      BY <1>1, <3>1 DEF PeerSet
  <2>2. CASE ResendZrpos
    BY <1>1, <2>2 DEF ResendZrpos, PeerSet
  <2> QED
    BY <2>1, <2>2
<1>5. Ordered(sent', file', peer')
  BY <1>1, <1>3, <1>4 DEF Ordered
<1>6. \E q \in Seq(Tokens) : Emits(q) /\ Lacks(q, "ZDATA")
  <2>1. /\ Header("ZRINIT", 0) \in Seq(Tokens) /\ Header("ZRPOS", peer.got) \in Seq(Tokens)
        /\ Lacks(Header("ZRINIT", 0), "ZDATA") /\ Lacks(Header("ZRPOS", peer.got), "ZDATA")
    BY PeerTyped, HeaderIsTokens, HeaderLacks DEF Names, Marks
  <2>2. <<Token("noise", "C", 0)>> \in Seq(Tokens) /\ Lacks(<<Token("noise", "C", 0)>>, "ZDATA")
    <3>1. Token("noise", "C", 0) \in Tokens /\ Token("noise", "C", 0).t # "ZDATA"
      BY Literals DEF Names, Token
    <3> QED
      BY <3>1, Tuples DEF Lacks
  <2> QED
    BY <2>1, <2>2 DEF RetryZrinit, ResendZrpos
<1> QED
  BY <1>1, <1>2, <1>3, <1>4, <1>5, <1>6, RzSpeaks

\* The shell takes the place of a program that has ended, and was not in the middle
\* of the data.
LEMMA ShellHearsFirst ==
  ASSUME Typed, FirstTransfer, ShellHears
  PROVE  FirstTransfer'
<1>1. /\ SessionKeeps /\ sent # <<>> /\ sent' = Tail(sent) /\ peer.at \in Ended
      /\ UNCHANGED <<net, peer, bounds, file>> /\ sent \in Seq(Frames)
  BY DEF ShellHears, SessionKeeps, Typed
<1> SUFFICES ASSUME bounds.runs <= 1 PROVE FirstTransfer'
  BY <1>1 DEF FirstTransfer
<1>2. /\ OneWay /\ Ordered(sent, file, peer) /\ peer.intact /\ peer.got <= FileSize
      /\ ~peer.frame
  BY <1>1 DEF FirstTransfer, Ended
<1>3. Ordered(sent', file', peer')
  BY <1>1, <1>2, TailOrdered
<1>4. Unsent => Unsent'
  BY <1>1 DEF Unsent
<1>5. \A t : Free(t) => Free(t)'
  BY <1>1 DEF SessionKeeps, Free
<1>6. Silent => Silent'
  BY <1>1, SilentKept
<1>7. OneWay'
  BY <1>1, <1>2, <1>4, <1>5, <1>6 DEF OneWay
<1> QED
  BY <1>1, <1>2, <1>3, <1>7 DEF FirstTransfer

\* Data is taken when it is that of the place the program is at.
LEMMA PeerHearsFirst ==
  ASSUME Typed, FirstTransfer, PeerHears
  PROVE  FirstTransfer'
<1> DEFINE f == Head(sent)
           answer == IF peer.prog = "sz" THEN SzAnswer(f) ELSE RzAnswer(f)
           Takes == /\ f.k = "data" /\ peer.frame
                    /\ peer' = [peer EXCEPT !.got = @ + f.len,
                                            !.intact = @ /\ f.n = peer.got,
                                            !.frame = f.t = "G"]
                    /\ UNCHANGED <<net, bounds>>
           Objects == /\ f.k # "data" /\ peer.frame
                      /\ peer' = [peer EXCEPT !.frame = FALSE]
                      /\ Emits(Header("ZRPOS", peer.got))
                      /\ bounds' = [bounds EXCEPT !.resends = @ + 1]
           Goes == /\ ~peer.frame \/ f.t \in Endings
                   /\ \E m, n \in Nat :
                        peer' = [peer EXCEPT !.at = answer[1],
                          !.frame = answer[1] = "data" /\ f.t = "ZDATA" /\ f.n = peer.got,
                          !.pos = m, !.len = n]
                   /\ Emits(answer[2])
                   /\ UNCHANGED bounds
<1>1. /\ SessionKeeps /\ sent # <<>> /\ sent' = Tail(sent) /\ peer.at \notin Ended
      /\ file' = file /\ sent \in Seq(Frames) /\ peer \in PeerSet /\ bounds \in BoundSet
  BY PeerTyped DEF PeerHears, SessionKeeps
<1>2. f = sent[1] /\ 1 \in 1 .. Len(sent) /\ f \in Frames /\ f.len \in Nat /\ f.n \in Nat
  BY <1>1 DEF Frames, Tokens
<1>3. Takes \/ Objects \/ Goes
  <2> DEFINE asked == peer.at = "info" /\ f.t = "ZRPOS"
             m == IF asked THEN f.n ELSE peer.pos
             n == IF asked THEN 0 ELSE peer.len
             at == answer[1]
             frm == answer[1] = "data" /\ f.t = "ZDATA" /\ f.n = peer.got
  <2>1. m \in Nat /\ n \in Nat
    BY <1>2, PeerTyped
  <2>2. \/ Takes \/ Objects
        \/ /\ ~peer.frame \/ f.t \in Endings
           /\ peer' = [peer EXCEPT !.at = at, !.frame = frm,
                !.pos = IF asked THEN f.n ELSE @, !.len = IF asked THEN 0 ELSE @]
           /\ Emits(answer[2])
           /\ UNCHANGED bounds
    BY DEF PeerHears
  <2>3. [peer EXCEPT !.at = at, !.frame = frm, !.pos = IF asked THEN f.n ELSE @,
                     !.len = IF asked THEN 0 ELSE @]
          = [peer EXCEPT !.at = at, !.frame = frm, !.pos = m, !.len = n]
    <3> HIDE DEF at, frm
    <3> QED
      OBVIOUS
  <2> HIDE DEF m, n
  <2>4. CASE Takes \/ Objects
    BY <2>4
  <2>5. CASE ~Takes /\ ~Objects
    <3> HIDE DEF Takes, Objects
    <3>1. /\ ~peer.frame \/ f.t \in Endings
          /\ peer' = [peer EXCEPT !.at = at, !.frame = frm, !.pos = m, !.len = n]
          /\ Emits(answer[2])
          /\ UNCHANGED bounds
      BY <2>2, <2>3, <2>5
    <3> HIDE DEF f, answer
    <3>2. Goes
      BY <2>1, <3>1
    <3> QED
      BY <3>2
  <2> QED
    BY <2>4, <2>5
<1>4. answer[2] \in Seq(Tokens)
  <2>1. answer \in Answers
    BY <1>2, AnswerTypes
  <2> HIDE DEF answer
  <2> QED
    BY <2>1 DEF Answers
<1>5. /\ peer.prog = "sz" => Lacks(answer[2], "ZRPOS")
      /\ peer.prog # "sz" => Lacks(answer[2], "ZDATA")
  BY <1>2, AnswersLack
<1> HIDE DEF f, answer
<1>6. bounds'.runs = bounds.runs /\ peer'.prog = peer.prog
  BY <1>1, <1>3 DEF PeerSet, BoundSet
<1> SUFFICES ASSUME bounds.runs <= 1 PROVE FirstTransfer'
  BY <1>6 DEF FirstTransfer
<1>7. /\ OneWay /\ Ordered(sent, file, peer) /\ peer.intact /\ peer.got <= FileSize
      /\ peer.frame => peer.at = "data"
  BY DEF FirstTransfer
<1>8. peer.prog # "none"
  BY <1>1, <1>7 DEF OneWay, Ended
<1>9. CASE Takes
  <2>1. f.n = peer.got /\ f.n + f.len <= FileSize
    BY <1>1, <1>2, <1>7, <1>9 DEF Ordered
  <2>2. /\ peer'.got = peer.got + f.len /\ peer'.frame = (f.t = "G") /\ peer'.at = peer.at
        /\ peer'.intact = (peer.intact /\ f.n = peer.got)
    BY <1>1, <1>9 DEF PeerSet
  <2>3. peer'.frame => \A n : Leads(sent[1], n) => n = peer'.got
    BY <1>2, <1>9, <2>1, <2>2 DEF Leads
  <2>4. Ordered(sent', file', peer')
    BY <1>1, <1>7, <2>3, TailOrdered
  <2>5. peer.prog = "rz"
    BY <1>7, <1>9 DEF OneWay
  <2>6. Free("ZDATA")'
    BY <1>1, <1>7, <1>9, <2>5 DEF OneWay, SessionKeeps, Free
  <2>7. OneWay'
    BY <1>6, <1>7, <2>5, <2>6 DEF OneWay
  <2>8. peer'.intact /\ peer'.got <= FileSize
    BY <1>7, <2>1, <2>2
  <2>9. peer'.frame => peer'.at = "data"
    BY <1>7, <1>9, <2>2
  <2> QED
    BY <2>4, <2>7, <2>8, <2>9 DEF FirstTransfer
<1>10. CASE Objects
  <2>1. peer'.got = peer.got /\ ~peer'.frame /\ peer'.intact = peer.intact
    BY <1>1, <1>10 DEF PeerSet
  <2>2. Ordered(sent', file', peer')
    BY <1>1, <1>7, <2>1, TailOrdered
  <2>3. peer.prog = "rz"
    BY <1>7, <1>10 DEF OneWay
  <2>4. /\ Header("ZRPOS", peer.got) \in Seq(Tokens)
        /\ Lacks(Header("ZRPOS", peer.got), "ZDATA")
    BY PeerTyped, HeaderIsTokens, HeaderLacks DEF Names, Marks
  <2> QED
    BY <1>1, <1>6, <1>7, <1>10, <2>1, <2>2, <2>3, <2>4, RzSpeaks
<1>11. CASE Goes
  <2>1. /\ peer'.got = peer.got /\ peer'.intact = peer.intact /\ peer'.at = answer[1]
        /\ peer'.frame = (answer[1] = "data" /\ f.t = "ZDATA" /\ f.n = peer.got)
    BY <1>1, <1>11 DEF PeerSet
  <2>2. peer'.frame => \A n : Leads(sent[1], n) => n = peer'.got
    BY <1>2, <2>1 DEF Leads
  <2>3. Ordered(sent', file', peer')
    BY <1>1, <1>7, <2>2, TailOrdered
  <2>4. peer'.frame => peer'.at = "data"
    BY <2>1
  <2>5. CASE peer.prog = "rz"
    BY <1>1, <1>4, <1>5, <1>6, <1>7, <1>11, <2>1, <2>3, <2>4, <2>5, RzSpeaks
  <2>6. CASE peer.prog = "sz"
    <3>1. Free("ZRPOS") /\ Silent /\ Unsent
      BY <1>7, <2>6 DEF OneWay
    <3>2. Free("ZRPOS")'
      BY <1>1, <1>4, <1>5, <1>11, <2>6, <3>1, EmitsFree
    <3>3. Silent' /\ Unsent'
      BY <1>1, <3>1, SilentKept DEF Unsent
    <3>4. ~peer'.frame
      BY <1>2, <2>1, <3>1 DEF Unsent, Plain
    <3>5. OneWay'
      BY <1>6, <1>7, <2>6, <3>2, <3>3, <3>4 DEF OneWay
    <3> QED
      BY <1>7, <2>1, <2>3, <2>4, <3>5 DEF FirstTransfer
  <2> QED
    BY <1>1, <1>8, <2>5, <2>6 DEF PeerSet
<1> QED
  BY <1>3, <1>9, <1>10, <1>11

\* Every step keeps what is said of the first transfer.
LEMMA NextFirst == Typed /\ FirstTransfer /\ [Next]_vars => FirstTransfer'
<1> SUFFICES ASSUME Typed, FirstTransfer, [Next]_vars PROVE FirstTransfer'
  OBVIOUS
<1>1. CASE Handler
  BY <1>1, HandlerFirst
<1>2. CASE Outside
  BY <1>2, OutsideFirst
<1>3. CASE Peer
  BY <1>3, StartPeerFirst, RetriesFirst, DataFirst, PeerHearsFirst, ShellHearsFirst DEF Peer
<1>4. CASE UNCHANGED vars
  <2> USE <1>4 DEF vars
  <2>1. \A t : Free(t) => Free(t)'
    BY DEF Free
  <2>2. Silent => Silent'
    BY DEF Silent
  <2>3. Unsent => Unsent'
    BY DEF Unsent
  <2>4. OneWay => OneWay'
    BY <2>1, <2>2, <2>3 DEF OneWay
  <2>5. Ordered(sent, file, peer) => Ordered(sent', file', peer')
    OBVIOUS
  <2> QED
    BY <2>4, <2>5 DEF FirstTransfer
<1> QED
  BY <1>1, <1>2, <1>3, <1>4 DEF Next

\* No transfer has started yet.
LEMMA InitFirst == Init => FirstTransfer
<1> SUFFICES ASSUME Init PROVE FirstTransfer
  OBVIOUS
<1>1. /\ net = <<Token("noise", "prompt", 0)>> /\ buffer = <<>> /\ frame.type = "none"
      /\ sent = <<>> /\ tasks = <<>> /\ file.mode = "closed" /\ event = "none"
      /\ state = "IDLE" /\ peer.prog = "none" /\ peer.at = "done" /\ ~peer.frame
      /\ peer.intact /\ peer.got = 0
  BY DEF Init, NoFile
<1>2. Free("ZDATA") /\ Free("ZRPOS")
  BY <1>1 DEF Free, Lacks, Token
<1>3. Silent /\ Unsent
  BY <1>1 DEF Silent, Unsent, Sending
<1>4. Ordered(sent, file, peer)
  BY <1>1 DEF Ordered
<1> QED
  BY <1>1, <1>2, <1>3, <1>4, SizeAssumption DEF FirstTransfer, OneWay

-----------------------------------------------------------------------------
-----------------------------------------------------------------------------
(* The theorems.                                                           *)

IndInv == Typed /\ Scanned /\ Life /\ FirstTransfer

\* The invariant the theorems rest on: types, the scan, the life of the session, and
\* the order of what is sent in the first transfer.
LEMMA Inductive == Spec => []IndInv
<1>1. Init => IndInv
  BY InitTyped, InitScanned, InitLife, InitFirst DEF IndInv
<1>2. IndInv /\ [Next]_vars => IndInv'
  BY NextTyped, NextScanned, NextLife, NextFirst DEF IndInv
<1> QED
  BY <1>1, <1>2, PTL DEF Spec

\* The state stays well typed, and the place a file is read or written at in the
\* file, whatever is sent, asked for again and cut off.
THEOREM ZmodemTypes == Spec => []TypeOK
<1>1. IndInv => TypeOK
  <2> SUFFICES ASSUME IndInv PROVE TypeOK
    OBVIOUS
  <2>1. Typed
    BY DEF IndInv
  <2>2. \A i \in DOMAIN tasks : tasks[i] \in Events
    BY <2>1, PostsAreEvents DEF Typed
  <2>3. peer.got \in Nat
    BY <2>1, PeerTyped
  <2>4. scan.at \in 0 .. Len(buffer) /\ scan.saved \in 0 .. scan.at
    <3>1. scan.at \in Nat /\ scan.saved \in Nat /\ Len(buffer) \in Nat
      BY <2>1, UnscannedIs DEF Typed
    <3>2. Scanned
      BY DEF IndInv
    <3> QED
      BY <3>1, <3>2 DEF Scanned
  <2> QED
    BY <2>1, <2>2, <2>3, <2>4 DEF Typed, TypeOK, Files
<1> QED
  BY <1>1, Inductive, PTL

\* Nothing is posted behind the DESTROY of a tab that is closed, so that no task is
\* left with a pointer to the session that deleteSelf frees.
THEOREM ZmodemNoTaskAfterDelete == Spec => []NoTaskAfterDelete
<1>1. IndInv => NoTaskAfterDelete
  BY DEF IndInv, Life, NoTaskAfterDelete
<1> QED
  BY <1>1, Inductive, PTL

\* Of the first transfer of a session rz accepts the bytes of the file in their
\* order, however often it asks for data again and whatever handlers are then
\* posted twice.
THEOREM ZmodemUploadInOrder == Spec => []UploadInOrder
<1>1. IndInv => UploadInOrder
  BY DEF IndInv, FirstTransfer, UploadInOrder
<1> QED
  BY <1>1, Inductive, PTL
=============================================================================
