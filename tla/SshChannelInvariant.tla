-------------------------- MODULE SshChannelInvariant --------------------------
(***************************************************************************)
(* The inductive invariant of SshChannel, for any sizes and any servers,    *)
(* and what of the two streams of HalfStream is under way.                  *)
(*                                                                         *)
(* A handler is an operator on a record w of the state, so the invariant is *)
(* stated of such a record: Base(w, cl, sv) relates it to the packets cl    *)
(* that come from the server and to the server's end sv, Others(w, sv, ap)  *)
(* is what else holds between two handlers.                                 *)
(***************************************************************************)
EXTENDS SshChannel

-----------------------------------------------------------------------------
(* The inductive invariant.                                                *)

\* The packets of each direction, and the records of SshChannel.
UpTypes == {"data", "adjust", "winadj", "eof", "close"}
DownTypes == {"confirm", "failure", "data", "adjust", "reply", "eof", "close"}

Chans == [live : BOOLEAN, halfopen : BOOLEAN,
          type : {"SOCKDATA_DORMANT", "SOCKDATA", "ZOMBIE"},
          closes : SUBSET {"SENT_EOF", "RCVD_EOF", "SENT_CLOSE", "RCVD_CLOSE"},
          pending_eof : BOOLEAN, throttling_conn : BOOLEAN,
          outbuffer : Nat, remwindow : Nat, locwindow : Int,
          locmaxwin : Nat, remlocwin : Int, chanreqs : Seq(Nat),
          throttle_state : {"UNTHROTTLED", "THROTTLED", "UNTHROTTLING"}]
Pfs == [ready : BOOLEAN, throttled : BOOLEAN,
        throttle_override : BOOLEAN, buffer : Nat]
Socks == [live : BOOLEAN, frozen : BOOLEAN, writable : BOOLEAN,
          output : Nat, outgoingeof : {"NO", "PENDING", "SENT"},
          closed : BOOLEAN, pending_error : BOOLEAN]
Sshs == [open : BOOLEAN, conn_throttle_count : Nat,
         throttled_all : BOOLEAN, queued : Nat, reading : BOOLEAN,
         remote_bugs : BugSets]
Pipes == [data : 0 .. PipeSize, shut : BOOLEAN]
Works == [chan : Chans, pf : Pfs, sock : Socks, ssh : Sshs,
          tx : Packets(UpTypes), pipe : Pipes, fault : {"none"}]
Servers == [state : {"asked", "open", "refused"}, win : Int, sent : Nat,
            room : Int, got : Nat, gotEof : BOOLEAN,
            sentEof : BOOLEAN, gotClose : BOOLEAN, sentClose : BOOLEAN,
            excess : Nat, offended : BOOLEAN]
Apps == [sent : Nat, unread : Nat, fin : BOOLEAN, reset : BOOLEAN,
         got : Nat, sawEof : BOOLEAN]

\* The server has the bug of answering requests after its CLOSE.
Late(w) == "BUG_SENDS_LATE_REQUEST_REPLY" \in w.ssh.remote_bugs

\* No packet of these types is in the queue, and the order of those that are.
Lacks(q, types) == \A i \in DOMAIN q : q[i].type \notin types
Ordered(q, R) == \A i, j \in DOMAIN q : i < j => <<q[i].type, q[j].type>> \in R

\* What may follow what: nothing follows CLOSE, no data EOF; a server that
\* answers late sends replies after its CLOSE.
UpOrder == {p \in UpTypes \X UpTypes :
              /\ p[1] # "close"
              /\ p[1] = "eof" => p[2] \notin {"data", "eof"}}
DownOrder(late) ==
  {p \in DownTypes \X DownTypes :
     /\ p[2] \notin {"confirm", "failure"}
     /\ p[1] # "failure"
     /\ p[1] = "eof" => p[2] \notin {"data", "eof"}
     /\ p[1] = "close" => late /\ p[2] = "reply"}

\* Until the server has answered the CHANNEL_OPEN nothing has happened to the
\* channel or to its socket.
HalfOpened(w) ==
  /\ w.chan.type # "SOCKDATA"
  /\ w.chan.closes = {} /\ w.chan.chanreqs = <<>>
  /\ ~w.chan.throttling_conn
  /\ w.chan.outbuffer = 0
  /\ w.sock.output = 0 /\ w.sock.outgoingeof = "NO" /\ w.sock.writable
  /\ ~w.pf.ready /\ ~w.pf.throttled /\ ~w.pf.throttle_override
  /\ w.tx = <<>>

\* The two sides of the channel fit together: the socket lives as long as a
\* channel that uses it, the connection is frozen at most once, by this channel,
\* and CLOSE comes after the EOFs.
Sides(w) ==
  /\ w.sock.live <=> w.chan.live /\ Forwards(w.chan)
  /\ w.ssh.conn_throttle_count = IF w.chan.throttling_conn THEN 1 ELSE 0
  /\ w.chan.halfopen => HalfOpened(w)
  /\ ~w.chan.halfopen => w.chan.type # "SOCKDATA_DORMANT"
  /\ "RCVD_CLOSE" \in w.chan.closes => {"RCVD_EOF", "SENT_EOF"} \subseteq w.chan.closes
  /\ "SENT_CLOSE" \in w.chan.closes => "SENT_EOF" \in w.chan.closes /\ w.chan.chanreqs = <<>>
  /\ w.chan.pending_eof => "SENT_EOF" \notin w.chan.closes /\ w.chan.type # "ZOMBIE"
  /\ w.sock.live /\ w.sock.outgoingeof # "NO" => "RCVD_EOF" \in w.chan.closes
  /\ ~w.ssh.open => ~w.chan.live /\ w.tx = <<>>

\* What PuTTY has sent and what the server has taken: in order, within the
\* window, and nothing is under way that the channel does not know it has sent.
SentUp(w, sv) ==
  /\ ~sv.offended
  /\ Ordered(w.tx, UpOrder)
  /\ "SENT_EOF" \notin w.chan.closes => Lacks(w.tx, {"eof"}) /\ ~sv.gotEof
  /\ "SENT_CLOSE" \notin w.chan.closes => Lacks(w.tx, {"close"}) /\ ~sv.gotClose
  /\ sv.gotEof => Lacks(w.tx, {"data", "eof"})
  /\ sv.gotClose => w.tx = <<>>
  /\ InFlight(w.tx, "data") <= sv.room

\* The same of what the server has sent.
SentDown(w, cl, sv) ==
  /\ Ordered(cl, DownOrder(Late(w)))
  /\ ~sv.sentClose => Lacks(cl, {"close"}) /\ "RCVD_CLOSE" \notin w.chan.closes
  /\ ~sv.sentEof => Lacks(cl, {"eof"})
  /\ "RCVD_EOF" \in w.chan.closes =>
        (sv.sentEof \/ sv.sentClose) /\ Lacks(cl, {"data", "eof"})
  /\ "RCVD_CLOSE" \in w.chan.closes =>
       Lacks(cl, IF Late(w) THEN DownTypes \ {"reply"} ELSE DownTypes)
  /\ sv.state # "refused" => Lacks(cl, {"failure"})
  /\ sv.state # "open" => ~sv.sentClose /\ ~sv.sentEof /\ w.chan.halfopen

\* A half-open channel waits for one packet, which is the first to come; no
\* second answer to the CHANNEL_OPEN comes.
Opening(w, cl, sv) ==
  IF w.chan.halfopen
  THEN w.chan.live =>
       /\ sv.state = "asked" => cl = <<>>
       /\ sv.state = "open" => cl # <<>> /\ Head(cl) = Packet("confirm", RemWindow)
       /\ sv.state = "refused" => cl # <<>> /\ Head(cl) = Packet("failure", 0)
  ELSE Lacks(cl, {"confirm", "failure"})

\* The window the server has opened counts from the confirmation on.
RoomOf(c) == IF c.halfopen THEN RemWindow ELSE c.remwindow
\* The books of BooksAgree, so that a step preserves them: also of a half-open
\* channel, and of one whose server has sent CLOSE.
Books(w, cl, sv) ==
  w.chan.live =>
    /\ w.chan.locwindow = sv.win + InFlight(w.tx, "adjust") + InFlight(cl, "data")
    /\ "SENT_EOF" \notin w.chan.closes =>
         sv.room = RoomOf(w.chan) + InFlight(cl, "adjust") + InFlight(w.tx, "data")
    /\ Len(w.chan.chanreqs) >= Count(cl, "reply")
    /\ Late(w) \/ ~sv.sentClose =>
         Len(w.chan.chanreqs) = Count(w.tx, "winadj") + Count(cl, "reply")

\* No packet is under way to a channel that is gone, and none can still come.
Gone(w, cl, sv) ==
  ~w.chan.live =>
    /\ cl = <<>>
    /\ \/ ~w.ssh.open
       \/ sv.state = "refused" /\ w.tx = <<>>
       \/ sv.sentClose /\ (Late(w) => Count(w.tx, "winadj") = 0)

\* What the packets, the books and the two sides say together.
Base(w, cl, sv) ==
  /\ w \in Works /\ cl \in Packets(DownTypes) /\ sv \in Servers
  /\ Sides(w)
  /\ ~Late(w) => SentUp(w, sv)
  /\ SentDown(w, cl, sv)
  /\ Opening(w, cl, sv)
  /\ Books(w, cl, sv)
  /\ Gone(w, cl, sv)

\* EOF is on its way, or waits, only when the local program has ended.
AppDone(w, ap) ==
  w.sock.live /\ "RCVD_CLOSE" \notin w.chan.closes
   /\ ("SENT_EOF" \in w.chan.closes \/ w.chan.pending_eof) =>
    ap.unread = 0 /\ (ap.fin \/ ap.reset)

\* Between two handlers no channel is left that was to be destroyed, and CLOSE
\* of the server is left unanswered only for the answers it owes.
Settled(w) ==
  w.chan.live => ~Done(w.chan) /\ (Late(w) \/ "RCVD_CLOSE" \notin w.chan.closes)

\* What waits on the socket and what may still come fit into the window.
Within(w) ==
  /\ w.sock.live => w.sock.output + w.chan.locwindow <= w.chan.locmaxwin
  /\ w.ssh.conn_throttle_count = 0

\* What holds the local program back has a reason that is still to be lifted.
Held(w) ==
  /\ w.pf.ready /\ "RCVD_CLOSE" \notin w.chan.closes /\ w.sock.live =>
       /\ w.pf.throttled => w.sock.frozen /\ w.chan.outbuffer > 0
       /\ w.sock.frozen => w.pf.throttled \/ w.pf.throttle_override
       /\ w.pf.throttle_override => w.ssh.throttled_all
  /\ w.chan.live /\ ~w.chan.halfopen =>
       /\ w.sock.live => w.pf.ready
       /\ w.chan.outbuffer > 0 => w.chan.remwindow = 0 \/ SentEof(w.chan)
       /\ w.chan.pending_eof => w.chan.outbuffer > 0
       /\ w.pf.throttled /\ w.sock.live /\ "RCVD_CLOSE" \notin w.chan.closes => ~SentEof(w.chan)

\* What does not depend on the packets.
Others(w, sv, ap) ==
  /\ Settled(w)
  /\ ap \in Apps /\ AppDone(w, ap)
  /\ sv.win >= -sv.excess
  /\ sv.excess = 0 => Within(w)
  /\ Held(w)

\* The inductive invariant.
IndInv ==
  /\ Base(Now, toClient, server)
  /\ Others(Now, server, app)

-----------------------------------------------------------------------------
(***************************************************************************)
(* The two streams.  What the local program has written is with the local  *)
(* connection, in the buffers of the forwarding and of the channel, in     *)
(* packets, or with the server; what the server has sent, likewise.        *)
(***************************************************************************)

\* Every data packet brings something.
Filled(q) == \A i \in DOMAIN q : q[i].type = "data" => q[i].n > 0
EofSent(w) == ~Lacks(w.tx, {"eof"})

\* What the channel has been given and the server has not taken.
Load(w) == w.chan.outbuffer + InFlight(w.tx, "data")

\* Nothing that goes up is made up, or lost while the channel is whole, and EOF
\* comes behind all of it.
Upwards(w, sv, ap) ==
  /\ Filled(w.tx)
  /\ ~w.chan.halfopen /\ w.chan.type # "ZOMBIE" => w.pf.buffer = 0
  /\ sv.got + Load(w) + w.pf.buffer + ap.unread <= ap.sent
  /\ w.ssh.open /\ ~sv.sentClose =>
       /\ ~ap.reset => ap.sent = sv.got + Load(w) + w.pf.buffer + ap.unread
       /\ w.chan.pending_eof => ap.fin /\ ap.sent = sv.got + Load(w) + w.pf.buffer
       /\ EofSent(w) => ap.fin /\ ap.sent = sv.got + InFlight(w.tx, "data")

\* Nothing that comes down is made up, or lost while the channel has its socket,
\* the local connection is shut behind all of it, and its program sees an end
\* only when it is shut or closed.
Downwards(w, cl, sv, ap) ==
  /\ ap.got + w.pipe.data + w.sock.output + InFlight(cl, "data") <= sv.sent
  /\ w.chan.live /\ w.chan.type # "ZOMBIE" =>
       sv.sent = ap.got + w.pipe.data + w.sock.output + InFlight(cl, "data")
  /\ w.pipe.shut => /\ sv.sentEof \/ sv.sentClose
                    /\ sv.sent = ap.got + w.pipe.data
  /\ ap.sawEof => /\ w.pipe.data = 0
                  /\ w.pipe.shut \/ ~(w.chan.live /\ w.chan.type # "ZOMBIE")

Streams(w, cl, sv, ap) == Upwards(w, sv, ap) /\ Downwards(w, cl, sv, ap)

\* What would be read before the channel is open would be lost.
Waits(w) == w.chan.halfopen /\ w.sock.live => w.sock.frozen

\* The streams, and that nothing is read too early.
Flows == Streams(Now, toClient, server, app) /\ Waits(Now)
=============================================================================
