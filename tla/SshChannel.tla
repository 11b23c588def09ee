------------------------------ MODULE SshChannel ------------------------------
(***************************************************************************)
(* One local-to-remote port forwarding of putty/ssh.c over SSH-2, from the  *)
(* CHANNEL_OPEN that portfwd.c sends for an accepted local connection to    *)
(* the destruction of the channel: the channel, its PortForwarding, the     *)
(* local socket of windows/winnet.c, and their environment (the program     *)
(* that connected locally, and a server that keeps to the protocol).        *)
(*                                                                         *)
(* PuTTY runs in one thread, so every handler is one action.  A handler is  *)
(* an operator on a record w of the state it may change, so that handlers   *)
(* call one another as the code's do; Become makes w the next state.  Data  *)
(* is counted in units, and no packet limit cuts it into several messages.  *)
(***************************************************************************)
EXTENDS Integers, FiniteSets, Sequences

CONSTANTS
  WinSize,      \* OUR_V2_WINSIZE
  MaxWin,       \* locmaxwin grows below this (0x40000000)
  RemWindow,    \* the window the server opens with
  MaxUp,        \* bound on the units the local program writes
  MaxDown,      \* bound on the units the server sends
  MaxUnits,     \* bound on both together, once the local program writes
  MaxEarly,     \* bound on the units left over from a SOCKS request
  PipeSize,     \* units the system holds for the local program
  MaxChunk,     \* messages one receive from the network may bring
  Excess,       \* units a server may send beyond its window
  BugSets,      \* what remote_bugs may be: sets of Bugs
  Abrupt,       \* the server may send CLOSE when it likes
  Resets        \* the local connection may be reset

\* Of the bugs of servers that PuTTY knows, the three that matter here.
Bugs == {"BUG_SSH2_MAXPKT", "BUG_CHOKES_ON_WINADJ", "BUG_SENDS_LATE_REQUEST_REPLY"}

ASSUME SizeAssumption ==
  /\ {WinSize, MaxWin, RemWindow, PipeSize, MaxChunk} \subseteq Nat \ {0}
  /\ {MaxUp, MaxDown, MaxUnits, MaxEarly, Excess} \subseteq Nat
  /\ WinSize <= MaxWin
ASSUME SwitchAssumption ==
  /\ BugSets \subseteq SUBSET Bugs
  /\ {Abrupt, Resets} \subseteq BOOLEAN

VARIABLES
  chan,       \* struct ssh_channel
  pf,         \* struct PortForwarding
  sock,       \* its Actual_Socket
  ssh,        \* what the channel shares with the rest of the connection
  toServer,   \* packets on their way to the server
  toClient,   \* packets on their way to PuTTY
  pipe,       \* what the system holds for the local program to read
  app,        \* the local program
  server,     \* the server's end of the channel
  fault       \* an assertion that failed, or another fatal error

vars == <<chan, pf, sock, ssh, toServer, toClient, pipe, app, server, fault>>

Packet(type, n) == [type |-> type, n |-> n]

\* The sum of a sequence of numbers.
Total(s) ==
  LET sum[i \in 0 .. Len(s)] == IF i = 0 THEN 0 ELSE sum[i - 1] + s[i]
  IN sum[Len(s)]

Smaller(a, b) == IF a < b THEN a ELSE b
SentEof(c) == "SENT_EOF" \in c.closes
Has(bug) == bug \in ssh.remote_bugs
LateReplies == Has("BUG_SENDS_LATE_REQUEST_REPLY")
Forwards(c) == c.type \in {"SOCKDATA", "SOCKDATA_DORMANT"}

\* pfl_accepting, new_sock_channel and ssh2_channel_init have just run and the
\* CHANNEL_OPEN is out; early is what pfd_receive kept after a SOCKS request.
Init ==
  /\ chan = [live |-> TRUE, halfopen |-> TRUE, type |-> "SOCKDATA_DORMANT",
             closes |-> {}, pending_eof |-> FALSE, throttling_conn |-> FALSE,
             outbuffer |-> 0, remwindow |-> 0, locwindow |-> WinSize,
             locmaxwin |-> WinSize, remlocwin |-> WinSize, chanreqs |-> <<>>,
             throttle_state |-> "UNTHROTTLED"]
  /\ \E early \in 0 .. MaxEarly :
       /\ pf = [ready |-> FALSE, throttled |-> FALSE,
                throttle_override |-> FALSE, buffer |-> early]
       /\ app = [sent |-> early, unread |-> 0, fin |-> FALSE, reset |-> FALSE,
                 got |-> 0, sawEof |-> FALSE]
  /\ sock = [live |-> TRUE, frozen |-> TRUE, writable |-> TRUE, output |-> 0,
             outgoingeof |-> "NO", closed |-> FALSE, pending_error |-> FALSE]
  /\ \E bugs \in BugSets :
       ssh = [open |-> TRUE, conn_throttle_count |-> 0, throttled_all |-> FALSE,
              queued |-> 0, reading |-> FALSE, remote_bugs |-> bugs]
  /\ toServer = <<>> /\ toClient = <<>>
  /\ pipe = [data |-> 0, shut |-> FALSE]
  /\ \E excess \in 0 .. Excess :
       server = [state |-> "asked", win |-> WinSize, sent |-> 0,
                 room |-> RemWindow, got |-> 0, gotEof |-> FALSE,
                 sentEof |-> FALSE, gotClose |-> FALSE, sentClose |-> FALSE,
                 excess |-> excess, offended |-> FALSE]
  /\ fault = "none"

-----------------------------------------------------------------------------
(* The state a handler works on, and what it sends.                        *)

Now ==
  [chan |-> chan, pf |-> pf, sock |-> sock, ssh |-> ssh, tx |-> toServer,
   pipe |-> pipe, fault |-> fault]

Become(w) ==
  /\ chan' = w.chan /\ pf' = w.pf /\ sock' = w.sock /\ ssh' = w.ssh
  /\ toServer' = w.tx /\ pipe' = w.pipe /\ fault' = w.fault

Send(w, type, n) == [w EXCEPT !.tx = Append(@, Packet(type, n))]

Fail(w, what) == IF w.fault = "none" THEN [w EXCEPT !.fault = what] ELSE w
Asserting(w, holds) == IF holds THEN w ELSE Fail(w, "assertion")

\* The handler reads the channel again after a call that may have freed it.
Touch(w) == IF w.chan.live THEN w ELSE Fail(w, "use after free")

-----------------------------------------------------------------------------
(* The local socket.                                                       *)

\* The last of the data is sent, and an EOF waits behind it.
Shuts(s, n) == s.output = n /\ s.outgoingeof = "PENDING"

\* try_send: to a connection that was reset it only queues the callback.
TrySendSocket(w) ==
  LET s == w.sock
      n == Smaller(s.output, PipeSize - w.pipe.data)
      shuts == Shuts(s, n)
  IN IF s.output > 0 /\ app.reset
     THEN [w EXCEPT !.sock.pending_error = TRUE]
     ELSE [w EXCEPT !.sock.output = @ - n,
                    !.pipe.data = @ + n,
                    !.pipe.shut = @ \/ shuts,
                    !.sock.writable = @ /\ s.output = n,
                    !.sock.outgoingeof = IF shuts THEN "SENT" ELSE @]

IfWritable(w) == IF w.sock.writable THEN TrySendSocket(w) ELSE w

\* sk_tcp_write
SkWrite(w, n) ==
  IfWritable([Asserting(w, w.sock.outgoingeof = "NO")
                EXCEPT !.sock.output = @ + n])

\* Faulty: the EOF does not wait for the data that is still to be sent.
SkWriteEofAtOnce(w) ==
  [w EXCEPT !.sock.outgoingeof = "SENT", !.pipe.shut = TRUE]

\* sk_tcp_write_eof
SkWriteEof(w) ==
  IfWritable([Asserting(w, w.sock.outgoingeof = "NO")
                EXCEPT !.sock.outgoingeof = "PENDING"])

SetFrozen(w, frozen) == [w EXCEPT !.sock.frozen = frozen]

\* pfd_close and sk_tcp_close: closesocket loses output_data, and shows the local
\* program an end of its connection behind what the system holds (AppSeesEof).
PfdClose(w) == [w EXCEPT !.sock.live = FALSE]

-----------------------------------------------------------------------------
(* Closing the channel.                                                    *)

\* ssh_channel_destroy
Destroy(w) ==
  LET v == IF w.chan.type = "SOCKDATA" THEN PfdClose(w) ELSE w
  IN [Asserting(v, w.chan.chanreqs = <<>>) EXCEPT !.chan.live = FALSE]

\* The channel is in final wind-up, and CLOSE has still to be sent.
\* Faulty: a zombie waits for the EOFs like any other channel.
WindUpByEofs(c) ==
  /\ {"SENT_EOF", "RCVD_EOF"} \subseteq c.closes
  /\ c.chanreqs = <<>> /\ "SENT_CLOSE" \notin c.closes
\* Faulty: CLOSE may be sent again.
WindUpAgain(c) ==
  /\ {"SENT_EOF", "RCVD_EOF"} \subseteq c.closes \/ c.type = "ZOMBIE"
  /\ c.chanreqs = <<>>
WindUp(c) ==
  /\ {"SENT_EOF", "RCVD_EOF"} \subseteq c.closes \/ c.type = "ZOMBIE"
  /\ c.chanreqs = <<>> /\ "SENT_CLOSE" \notin c.closes

\* Faulty: the channel is destroyed without waiting for the server's CLOSE.
DoneAtOnce(c) == "SENT_CLOSE" \in c.closes
Done(c) == {"SENT_CLOSE", "RCVD_CLOSE"} \subseteq c.closes

\* ssh2_channel_check_close
CheckClose(w) ==
  LET c == w.chan
      v == IF WindUp(c)
           THEN [Send(w, "close", 0)
                   EXCEPT !.chan.closes = @ \cup {"SENT_EOF", "SENT_CLOSE"}]
           ELSE w
  IN IF c.halfopen THEN w
     ELSE IF Done(v.chan) THEN Destroy(Asserting(v, c.chanreqs = <<>>)) ELSE v

\* Faulty: the EOF overtakes the data.
TryEofAtOnce(w) ==
  IF w.chan.halfopen THEN w
  ELSE CheckClose([Send(w, "eof", 0)
                     EXCEPT !.chan.pending_eof = FALSE,
                            !.chan.closes = @ \cup {"SENT_EOF"}])

\* ssh_channel_try_eof
TryEof(w) ==
  IF w.chan.halfopen \/ w.chan.outbuffer > 0
  THEN Asserting(w, w.chan.pending_eof)
  ELSE CheckClose([Send(Asserting(w, w.chan.pending_eof), "eof", 0)
                     EXCEPT !.chan.pending_eof = FALSE,
                            !.chan.closes = @ \cup {"SENT_EOF"}])

\* sshfwd_write_eof
WriteEof(w) ==
  IF SentEof(w.chan) THEN w ELSE TryEof([w EXCEPT !.chan.pending_eof = TRUE])

\* sshfwd_unclean_close
UncleanClose(w) ==
  LET v == IF Forwards(w.chan) THEN PfdClose(w) ELSE w
  IN CheckClose([v EXCEPT !.chan.type = "ZOMBIE", !.chan.pending_eof = FALSE])

-----------------------------------------------------------------------------
(* Data to the server.                                                     *)

\* Faulty: all is sent, whatever the window.
TrySendAll(w) ==
  LET n == w.chan.outbuffer
      v == [w EXCEPT !.chan.outbuffer = 0, !.chan.remwindow = @ - n]
      u == IF n > 0 THEN Send(v, "data", n) ELSE v
  IN IF u.chan.pending_eof THEN TryEof(u) ELSE u
\* Faulty: the EOF that waited for the data is forgotten.
TrySendKeepsEof(w) ==
  LET n == Smaller(w.chan.remwindow, w.chan.outbuffer)
      v == [w EXCEPT !.chan.outbuffer = @ - n, !.chan.remwindow = @ - n]
  IN IF n > 0 THEN Send(v, "data", n) ELSE v

\* ssh2_try_send; what stays in the outbuffer is its result.
TrySend(w) ==
  LET n == Smaller(w.chan.remwindow, w.chan.outbuffer)
      v == [w EXCEPT !.chan.outbuffer = @ - n, !.chan.remwindow = @ - n]
      u == IF n > 0 THEN Send(v, "data", n) ELSE v
  IN IF u.chan.outbuffer = 0 /\ u.chan.pending_eof THEN TryEof(u) ELSE u

\* sshfwd_write
Write(w, n) == TrySend([w EXCEPT !.chan.outbuffer = @ + n])

\* ssh2_try_send_and_unthrottle, with pfd_unthrottle
TrySendAndUnthrottle(w) ==
  LET v == Touch(TrySend(w))
  IN IF SentEof(w.chan) THEN w
     ELSE IF v.chan.outbuffer = 0 /\ v.chan.type = "SOCKDATA"
          THEN SetFrozen([v EXCEPT !.pf.throttled = FALSE],
                         v.pf.throttle_override)
          ELSE v

\* pfd_override_throttle
OverrideThrottle(w, enable) ==
  SetFrozen([w EXCEPT !.pf.throttle_override = enable],
            w.pf.throttled \/ enable)

-----------------------------------------------------------------------------
(* The window that PuTTY grants.                                           *)

\* ssh2_set_window; OUR_V2_MAXPKT is as large as OUR_V2_WINSIZE.
SetWindow(w, wanted) ==
  LET c == w.chan
      newwin == IF Has("BUG_SSH2_MAXPKT") THEN Smaller(wanted, WinSize) ELSE wanted
      asks == newwin = c.locmaxwin /\ ~Has("BUG_CHOKES_ON_WINADJ")
      more == newwin - c.locwindow
      v == IF asks
           THEN [Send(Asserting(w, c.closes \cap {"SENT_CLOSE", "RCVD_CLOSE"} = {}),
                      "winadj", 0)
                   EXCEPT !.chan.chanreqs = Append(@, more),
                          !.chan.throttle_state =
                            IF @ = "UNTHROTTLED" THEN @ ELSE "UNTHROTTLING"]
           ELSE [w EXCEPT !.chan.remlocwin = newwin,
                          !.chan.throttle_state = "THROTTLED"]
  IN IF \/ {"RCVD_EOF", "SENT_CLOSE"} \cap c.closes # {}
        \/ newwin \div 2 < c.locwindow
     THEN w
     ELSE [Send(v, "adjust", more) EXCEPT !.chan.locwindow = newwin]

\* Faulty: the backlog does not count.
WindowAlways(w, bufsize) == w.chan.locmaxwin

\* What the backlog on the socket leaves of the window.
WindowFor(w, bufsize) ==
  IF bufsize < w.chan.locmaxwin THEN w.chan.locmaxwin - bufsize ELSE 0

\* ssh_throttle_conn
ThrottleConn(w, adjust) ==
  Asserting([w EXCEPT !.ssh.conn_throttle_count = @ + adjust],
         w.ssh.conn_throttle_count + adjust >= 0)

\* sshfwd_unthrottle
SshfwdUnthrottle(w, bufsize) ==
  LET v == SetWindow(w, WindowFor(w, bufsize))
  IN IF v.chan.throttling_conn /\ bufsize <= w.chan.locmaxwin
     THEN ThrottleConn([v EXCEPT !.chan.throttling_conn = FALSE], -1)
     ELSE v

\* ssh2_handle_winadj_response for the first outstanding request, and its
\* removal from the list
Answered(w) ==
  [w EXCEPT !.chan.remlocwin = @ + Head(w.chan.chanreqs),
            !.chan.throttle_state =
              IF @ = "UNTHROTTLING" THEN "UNTHROTTLED" ELSE @,
            !.chan.chanreqs = Tail(@)]

-----------------------------------------------------------------------------
(* Packets from the server, as they are taken from the network.            *)

\* ssh_gotdata goes through a chunk without doing anything else, and leaves in
\* queued_incoming_data what a handler that freezes the connection cuts off.
Left ==
  IF ssh.queued > 0 THEN {ssh.queued - 1}
  ELSE 0 .. Smaller(MaxChunk, Len(toClient)) - 1

Takes ==
  /\ fault = "none" /\ ssh.open
  /\ ssh.conn_throttle_count = 0
  /\ ssh.reading \/ ssh.queued = 0
  /\ toClient # <<>>

\* ssh2_channel_msg finds the channel, open unless the packet opens it.
Knows(type) == chan.live /\ (chan.halfopen => type \in {"confirm", "failure"})

Arrives(type) == Takes /\ Head(toClient).type = type /\ Knows(type)

Taking(left) == [Now EXCEPT !.ssh.queued = left]

Handled(w) ==
  /\ Become([w EXCEPT !.ssh.reading =
                w.ssh.queued > 0 /\ w.ssh.conn_throttle_count = 0])
  /\ toClient' = Tail(toClient)
  /\ UNCHANGED <<app, server>>

\* pfd_confirm
PfdConfirm(w) ==
  LET v == SkWrite(SetFrozen([w EXCEPT !.pf.ready = TRUE, !.pf.buffer = 0],
                             FALSE), 0)
  IN IF w.pf.buffer > 0 THEN Write(v, w.pf.buffer) ELSE v

\* ssh2_msg_channel_open_confirmation
Confirmed(w, window) ==
  LET v == [w EXCEPT !.chan.halfopen = FALSE, !.chan.remwindow = window]
      u == IF w.chan.type = "SOCKDATA_DORMANT"
           THEN PfdConfirm([v EXCEPT !.chan.type = "SOCKDATA"])
           ELSE CheckClose(Asserting(v, w.chan.type = "ZOMBIE"))
  IN IF u.chan.pending_eof THEN TryEof(u) ELSE u

OpenConfirmation ==
  /\ Arrives("confirm")
  /\ \E left \in Left : Handled(Confirmed(Taking(left), Head(toClient).n))

\* ssh2_msg_channel_open_failure
OpenFailure ==
  /\ Arrives("failure")
  /\ \E left \in Left :
       LET w == [Taking(left) EXCEPT !.chan.live = FALSE]
       IN Handled(IF Forwards(chan) THEN PfdClose(w) ELSE w)

\* ssh2_msg_channel_window_adjust
WindowAdjust ==
  /\ Arrives("adjust")
  /\ \E left \in Left :
       Handled(IF SentEof(chan) THEN Taking(left)
               ELSE TrySendAndUnthrottle([Taking(left)
                      EXCEPT !.chan.remwindow = @ + Head(toClient).n]))

\* Faulty: data for a zombie is not accounted for.
AccountsAlive(w, n) ==
  IF w.chan.type = "ZOMBIE" THEN w
  ELSE [w EXCEPT !.chan.locwindow = @ - n, !.chan.remlocwin = @ - n]
Accounts(w, n) ==
  [w EXCEPT !.chan.locwindow = @ - n, !.chan.remlocwin = @ - n]

\* ssh2_msg_channel_data: a zombie has nobody to give the data to, but does
\* account for it.
GotData(w, n) ==
  LET v == Accounts(w, n)
      u == Touch(IF w.chan.type = "SOCKDATA" THEN SkWrite(v, n) ELSE v)
      bufsize == IF w.chan.type = "SOCKDATA" THEN u.sock.output ELSE 0
      grows == /\ u.chan.remlocwin <= 0
               /\ u.chan.throttle_state = "UNTHROTTLED"
               /\ u.chan.locmaxwin < MaxWin
      t == [u EXCEPT !.chan.locmaxwin = IF grows THEN @ + WinSize ELSE @]
      r == SetWindow(t, WindowFor(t, bufsize))
  IN IF bufsize > r.chan.locmaxwin /\ ~r.chan.throttling_conn
     THEN ThrottleConn([r EXCEPT !.chan.throttling_conn = TRUE], 1)
     ELSE r

ChannelData ==
  /\ Arrives("data")
  /\ \E left \in Left : Handled(GotData(Taking(left), Head(toClient).n))

\* ssh2_msg_channel_response; a reply nobody waits for is only reported.
ChannelResponse ==
  /\ Arrives("reply")
  /\ \E left \in Left :
       Handled(IF chan.chanreqs = <<>> THEN Fail(Taking(left), "unexpected")
               ELSE CheckClose(Answered(Taking(left))))

\* ssh2_channel_got_eof, with pfd_send_eof
GotEof(w) ==
  LET v == [w EXCEPT !.chan.closes = @ \cup {"RCVD_EOF"}]
  IN IF "RCVD_EOF" \in w.chan.closes THEN w
     ELSE CheckClose(IF w.chan.type = "SOCKDATA" THEN SkWriteEof(v) ELSE v)

ChannelEof ==
  /\ Arrives("eof")
  /\ \E left \in Left : Handled(GotEof(Taking(left)))

\* What ssh2_msg_channel_close does with the requests that are outstanding.
ForgetRequests(w) ==
  IF LateReplies THEN w
  ELSE [w EXCEPT !.chan.remlocwin = @ + Total(w.chan.chanreqs),
                 !.chan.throttle_state =
                   IF @ = "UNTHROTTLING" /\ w.chan.chanreqs # <<>>
                   THEN "UNTHROTTLED" ELSE @,
                 !.chan.chanreqs = <<>>]

\* ... and with what it still wanted to send
StopSending(w) ==
  LET v == IF w.chan.type = "SOCKDATA" THEN OverrideThrottle(w, TRUE) ELSE w
  IN IF SentEof(w.chan) THEN w
     ELSE Touch(WriteEof([v EXCEPT !.chan.outbuffer = 0]))

\* ssh2_msg_channel_close
GotClose(w) ==
  LET v == StopSending(ForgetRequests(Touch(GotEof(w))))
  IN IF "RCVD_CLOSE" \in v.chan.closes THEN v
     ELSE CheckClose([v EXCEPT !.chan.closes = @ \cup {"RCVD_CLOSE"}])

ChannelClose ==
  /\ Arrives("close")
  /\ \E left \in Left : Handled(GotClose(Taking(left)))

\* What was queued waits for more to come from the network, after the freeze.
QueueResumes ==
  /\ fault = "none" /\ ssh.open
  /\ ssh.conn_throttle_count = 0 /\ ~ssh.reading
  /\ ssh.queued \in 1 .. Len(toClient) - 1
  /\ \E n \in 1 .. Smaller(MaxChunk, Len(toClient) - ssh.queued) :
       ssh' = [ssh EXCEPT !.queued = @ + n, !.reading = TRUE]
  /\ UNCHANGED <<chan, pf, sock, toServer, toClient, pipe, app, server, fault>>

-----------------------------------------------------------------------------
(* Events of the local socket, and of the connection as a whole.           *)

\* The thread is between two handlers.
Idle == fault = "none" /\ ssh.open /\ ~ssh.reading

LocalStep(w) == Idle /\ Become(w) /\ UNCHANGED <<toClient, server>>

ReadDue == Idle /\ sock.live /\ ~sock.frozen /\ ~app.reset /\ app.unread > 0

\* pfd_receive
PfdReceive(w, n) ==
  LET v == IF w.pf.ready THEN Write(w, n) ELSE w
  IN IF w.pf.ready /\ v.chan.outbuffer > 0
     THEN SetFrozen([v EXCEPT !.pf.throttled = TRUE], TRUE)
     ELSE v

\* FD_READ
FdRead ==
  /\ ReadDue
  /\ \E n \in 1 .. app.unread :
       /\ LocalStep(PfdReceive(Now, n))
       /\ app' = [app EXCEPT !.unread = @ - n]

WriteDue == Idle /\ sock.live /\ ~sock.writable /\ pipe.data < PipeSize

\* Faulty: pfd_sent does not tell the channel.
FdWriteSilent ==
  /\ WriteDue
  /\ LocalStep(TrySendSocket([Now EXCEPT !.sock.writable = TRUE]))
  /\ UNCHANGED app

\* FD_WRITE with pfd_sent
FdWrite ==
  /\ WriteDue
  /\ LET v == TrySendSocket([Now EXCEPT !.sock.writable = TRUE])
     IN LocalStep(IF v.sock.output < sock.output
                  THEN SshfwdUnthrottle(v, v.sock.output)
                  ELSE v)
  /\ UNCHANGED app

\* Windows reports an orderly close of a frozen socket only when everything has
\* been read.
CloseDue ==
  /\ Idle /\ sock.live /\ ~sock.closed
  /\ app.reset \/ (app.fin /\ (app.unread = 0 \/ ~sock.frozen))

\* FD_CLOSE, or the FD_READ that finds the error, with pfd_closing.  What is still
\* to be read is read first, even if that freezes the socket.
FdClose ==
  /\ CloseDue
  /\ LET w == [Now EXCEPT !.sock.closed = TRUE]
         v == IF app.unread > 0 THEN PfdReceive(w, app.unread) ELSE w
     IN LocalStep(IF app.reset THEN UncleanClose(w) ELSE WriteEof(v))
  /\ app' = [app EXCEPT !.unread = 0]

\* socket_error_callback
SocketErrorCallback ==
  /\ sock.pending_error
  /\ LET w == [Now EXCEPT !.sock.pending_error = FALSE]
     IN LocalStep(IF sock.live THEN UncleanClose(w) ELSE w)
  /\ UNCHANGED app

\* ssh_throttle_all
ThrottleAll(w, enable) ==
  LET v == [w EXCEPT !.ssh.throttled_all = enable]
  IN IF chan.live /\ chan.type = "SOCKDATA"
     THEN OverrideThrottle(v, enable) ELSE v

\* A packet PuTTY sent, which may be the CHANNEL_OPEN, made the SSH socket's
\* backlog exceed SSH_MAX_BACKLOG.
BacklogHigh ==
  /\ ~ssh.throttled_all
  /\ toServer # <<>> \/ server.state = "asked"
  /\ LocalStep(ThrottleAll(Now, TRUE))
  /\ UNCHANGED app

\* ssh_sent
BacklogLow ==
  /\ ssh.throttled_all
  /\ LocalStep(ThrottleAll(Now, FALSE))
  /\ UNCHANGED app

\* ssh_do_close, when the SSH connection is lost, or when ssh_disconnect ends it
\* for a packet that ssh2_channel_msg knows no channel for
DoClose ==
  /\ Idle
  /\ ssh' = [ssh EXCEPT !.open = FALSE, !.queued = 0]
  /\ chan' = [chan EXCEPT !.live = FALSE]
  /\ sock' = [sock EXCEPT !.live = @ /\ ~(chan.live /\ Forwards(chan))]
  /\ toServer' = <<>> /\ toClient' = <<>>
  /\ UNCHANGED <<pf, pipe, app, server, fault>>

-----------------------------------------------------------------------------
(* The program that connected to the forwarded port.                       *)

AppStep ==
  UNCHANGED <<chan, pf, sock, ssh, toServer, toClient, server, fault>>

AppWrites ==
  /\ sock.live /\ ~app.fin /\ ~app.reset
  /\ app.sent < MaxUp /\ app.sent + server.sent < MaxUnits
  /\ app' = [app EXCEPT !.sent = @ + 1, !.unread = @ + 1]
  /\ AppStep /\ UNCHANGED pipe

AppShuts ==
  /\ sock.live /\ ~app.fin /\ ~app.reset
  /\ app' = [app EXCEPT !.fin = TRUE]
  /\ AppStep /\ UNCHANGED pipe

AppResets ==
  /\ Resets /\ sock.live /\ ~app.reset
  /\ app' = [app EXCEPT !.reset = TRUE, !.unread = 0]
  /\ AppStep /\ UNCHANGED pipe

AppReads ==
  /\ ~app.reset /\ pipe.data > 0
  /\ app' = [app EXCEPT !.got = @ + 1]
  /\ pipe' = [pipe EXCEPT !.data = @ - 1]
  /\ AppStep

\* The end comes from a shutdown, or from the closesocket of sk_tcp_close, which
\* does not tell the program that anything is missing.
AppSeesEof ==
  /\ ~app.reset /\ ~app.sawEof
  /\ pipe.shut \/ ~sock.live
  /\ pipe.data = 0
  /\ app' = [app EXCEPT !.sawEof = TRUE]
  /\ AppStep /\ UNCHANGED pipe

-----------------------------------------------------------------------------
(* The server.                                                             *)

ServerStep == UNCHANGED <<chan, pf, sock, ssh, pipe, app, fault>>

Reply(type, n) == toClient' = Append(toClient, Packet(type, n))

ServerOpens ==
  /\ ssh.open /\ server.state = "asked"
  /\ \/ /\ server' = [server EXCEPT !.state = "open"]
        /\ Reply("confirm", RemWindow)
     \/ /\ server' = [server EXCEPT !.state = "refused"]
        /\ Reply("failure", 0)
  /\ ServerStep /\ UNCHANGED toServer

ServerTalks ==
  /\ ssh.open /\ server.state = "open" /\ ~server.sentClose
  /\ ServerStep /\ UNCHANGED toServer

ServerSends ==
  /\ ~server.sentEof /\ server.win > -server.excess
  /\ server.sent < MaxDown
  /\ app.sent > 0 => app.sent + server.sent < MaxUnits
  /\ server' = [server EXCEPT !.sent = @ + 1, !.win = @ - 1]
  /\ Reply("data", 1)
  /\ ServerTalks

ServerEnds ==
  /\ ~server.sentEof
  /\ server' = [server EXCEPT !.sentEof = TRUE]
  /\ Reply("eof", 0)
  /\ ServerTalks

\* The server has used what it received.
ServerGrants ==
  /\ server.room < RemWindow /\ ~server.gotEof
  /\ server' = [server EXCEPT !.room = RemWindow]
  /\ Reply("adjust", RemWindow - server.room)
  /\ ServerTalks

SendClose ==
  /\ server' = [server EXCEPT !.sentClose = TRUE]
  /\ Reply("close", 0)
  /\ ServerTalks

ServerCloses ==
  /\ server.gotClose \/ (server.sentEof /\ server.gotEof)
  /\ SendClose

ServerAborts == Abrupt /\ SendClose

\* A server answers no request after its CLOSE, unless it has the bug of doing
\* so; what it must never receive marks PuTTY's end as offending.
ServerReceives ==
  /\ ssh.open /\ toServer # <<>>
  /\ toServer' = Tail(toServer)
  /\ LET p == Head(toServer)
         bad == \/ server.gotClose
                \/ p.type \in {"data", "eof"} /\ server.gotEof
                \/ p.type = "data" /\ server.room < p.n
     IN /\ server' = [server EXCEPT
             !.offended = @ \/ bad,
             !.got = IF p.type = "data" THEN @ + p.n ELSE @,
             !.room = IF p.type = "data" THEN @ - p.n ELSE @,
             !.win = IF p.type = "adjust" THEN @ + p.n ELSE @,
             !.gotEof = @ \/ p.type = "eof",
             !.gotClose = @ \/ p.type = "close"]
        /\ IF p.type = "winadj" /\ (~server.sentClose \/ LateReplies)
           THEN Reply("reply", 0)
           ELSE UNCHANGED toClient
  /\ ServerStep

-----------------------------------------------------------------------------
Receive ==
  \/ OpenConfirmation \/ OpenFailure
  \/ WindowAdjust \/ ChannelData \/ ChannelResponse
  \/ ChannelEof \/ ChannelClose

SocketEvent == FdRead \/ FdWrite \/ FdClose \/ SocketErrorCallback

Connection == QueueResumes \/ BacklogHigh \/ BacklogLow \/ DoClose

App == AppWrites \/ AppShuts \/ AppResets \/ AppReads \/ AppSeesEof

Server ==
  \/ ServerOpens \/ ServerSends \/ ServerEnds \/ ServerGrants
  \/ ServerCloses \/ ServerAborts \/ ServerReceives

Next == Receive \/ SocketEvent \/ Connection \/ App \/ Server

Spec == Init /\ [][Next]_vars

\* The message loop serves every event that stays due.  A packet or data that
\* can be taken is taken; the other handlers make their event not due, so weak
\* fairness of one is that the event does not stay due for ever.  The SSH socket
\* drains; the server and the local program take what they are sent.
Fairness ==
  /\ WF_toClient(/\ Takes /\ Knows(Head(toClient).type)
                 /\ toClient' = Tail(toClient))
  /\ WF_app(ReadDue /\ \E n \in 1 .. app.unread :
                          app' = [app EXCEPT !.unread = @ - n])
  /\ []<>~WriteDue /\ []<>~CloseDue
  /\ []<>~(Idle /\ sock.pending_error) /\ []<>~(Idle /\ ssh.throttled_all)
  /\ WF_vars(QueueResumes)
  /\ WF_vars(AppReads) /\ WF_vars(AppSeesEof)
  /\ WF_vars(ServerOpens) /\ WF_vars(ServerReceives)
  /\ WF_vars(ServerGrants) /\ WF_vars(ServerCloses)

FairSpec == Spec /\ Fairness

-----------------------------------------------------------------------------
(* Properties.                                                             *)

\* What is in flight in packets of one type, and how many of them there are.
InFlight(packets, type) ==
  Total([i \in DOMAIN packets |->
           IF packets[i].type = type THEN packets[i].n ELSE 0])
Count(packets, type) ==
  Total([i \in DOMAIN packets |-> IF packets[i].type = type THEN 1 ELSE 0])

Packets(types) == Seq([type : types, n : Nat])

\* Every variable has its type: the sides of the channel, of ssh.c:488-580.
TypeOK ==
  /\ chan \in [live : BOOLEAN, halfopen : BOOLEAN,
               type : {"SOCKDATA_DORMANT", "SOCKDATA", "ZOMBIE"},
               closes : SUBSET {"SENT_EOF", "RCVD_EOF",
                                "SENT_CLOSE", "RCVD_CLOSE"},
               pending_eof : BOOLEAN, throttling_conn : BOOLEAN,
               outbuffer : Nat, remwindow : Nat, locwindow : Int,
               locmaxwin : Nat, remlocwin : Int, chanreqs : Seq(Nat),
               throttle_state : {"UNTHROTTLED", "THROTTLED", "UNTHROTTLING"}]
  /\ pf \in [ready : BOOLEAN, throttled : BOOLEAN,
             throttle_override : BOOLEAN, buffer : Nat]
  /\ sock \in [live : BOOLEAN, frozen : BOOLEAN, writable : BOOLEAN,
               output : Nat, outgoingeof : {"NO", "PENDING", "SENT"},
               closed : BOOLEAN, pending_error : BOOLEAN]
  /\ ssh \in [open : BOOLEAN, conn_throttle_count : Nat,
              throttled_all : BOOLEAN, queued : Nat, reading : BOOLEAN,
              remote_bugs : BugSets]
  /\ toServer \in Packets({"data", "adjust", "winadj", "eof", "close"})
  /\ toClient \in Packets({"confirm", "failure", "data", "adjust", "reply",
                           "eof", "close"})
  /\ pipe \in [data : 0 .. PipeSize, shut : BOOLEAN]

\* No assertion of the handlers fails (ssh.c:3928, 5310, 8284, 8702, 8747 and
\* winnet.c:1627, 1670), none of them touches a channel that a call has freed,
\* no reply comes that nobody asked for, and no packet for a channel that is gone
\* or not open yet, at which ssh2_channel_msg would drop the whole connection.  The
\* socket exists exactly as long as a channel that uses it: none is left open, and
\* no event of one reaches a channel that is gone.
NoFault ==
  /\ fault = "none"
  /\ Takes => Knows(Head(toClient).type)
  /\ sock.live <=> chan.live /\ Forwards(chan)

\* The server never receives data beyond its window or after EOF, nor anything
\* after CLOSE (ssh2_try_send, ssh2_set_window, ssh2_channel_check_close).  One
\* that answers late may: see NoMoreIsRead.
ServerSatisfied == ~LateReplies => ~server.offended

\* The books of the channel agree with what is under way.  locwindow is what the
\* server may still send, in its eyes or by an adjustment under way, with what it
\* has sent already; remwindow likewise.  Every request on the list has its answer
\* to come, in a request or a reply under way, until the server closes; CLOSE goes
\* out with an empty list.
BooksAgree ==
  chan.live =>
    /\ chan.locwindow = server.win + InFlight(toServer, "adjust")
                         + InFlight(toClient, "data")
    /\ ~chan.halfopen /\ ~SentEof(chan) =>
         server.room = chan.remwindow + InFlight(toClient, "adjust")
                       + InFlight(toServer, "data")
    /\ ~server.sentClose =>
         Len(chan.chanreqs) = Count(toServer, "winadj") + Count(toClient, "reply")
    /\ "SENT_CLOSE" \in chan.closes => chan.chanreqs = <<>>

\* With a server that keeps to its window, what PuTTY buffers for a local
\* program and what may still come never exceed locmaxwin, so that the channel
\* never has to stop the whole connection (ssh.c:391).
BacklogBounded ==
  server.excess = 0 =>
    /\ sock.live => sock.output + chan.locwindow <= chan.locmaxwin
    /\ ssh.conn_throttle_count = 0

\* What the local program writes is held back only for a reason: it is not read
\* while its data waits for the server's window, all streams are throttled or the
\* server has closed the channel; data waits for window, and EOF behind data
\* (pfd_receive, pfd_unthrottle, pfd_override_throttle, ssh2_try_send).
HeldForAReason ==
  /\ sock.live /\ pf.ready =>
       /\ pf.throttled /\ "RCVD_CLOSE" \notin chan.closes
            => sock.frozen /\ chan.outbuffer > 0 /\ chan.remwindow = 0
       /\ sock.frozen => \/ pf.throttled \/ ssh.throttled_all
                         \/ "RCVD_CLOSE" \in chan.closes
  /\ chan.live /\ ~chan.halfopen =>
       /\ chan.outbuffer > 0 => chan.remwindow = 0 \/ SentEof(chan)
       /\ chan.pending_eof => chan.outbuffer > 0 /\ ~SentEof(chan)

\* The server sees EOF only after everything the local program wrote before it
\* ended, or when it has closed the channel itself.
Up == INSTANCE HalfStream WITH
  given <- app.sent, taken <- server.got, ended <- app.fin,
  stopped <- server.sentClose, seen <- server.gotEof
UpStream == Up!Spec

\* The forwarding was refused, or one of the three ends has given it up.
Broken ==
  \/ ~ssh.open \/ server.state = "refused" \/ server.sentClose \/ app.reset

\* As long as PuTTY has not closed the local socket, the program behind it sees the
\* end only after everything the server sent (sk_tcp_write_eof, try_send), and
\* PuTTY closes it only when the forwarding is broken.  It then shows the
\* program an end like any other, with output_data thrown away (portfwd.c:642).
Down == INSTANCE HalfStream WITH
  given <- server.sent, taken <- app.got,
  ended <- server.sentEof \/ server.sentClose,
  stopped <- ~sock.live /\ Broken, seen <- app.sawEof
DownStream == Down!Spec

\* The end of what the local program writes reaches the server (pfd_closing,
\* sshfwd_write_eof and the pending_eof they may leave), and the local program is
\* told the end of what the server sends, or that the channel is closed, unless it
\* is gone (ssh2_channel_got_eof, FD_WRITE, pfd_close).  A channel that the server
\* closed, or whose local end failed, goes away (ssh2_msg_channel_close,
\* ssh2_msg_channel_response, sshfwd_unclean_close).
EndsArrive ==
  /\ app.fin ~> server.gotEof \/ Broken
  /\ server.sentEof \/ ~sock.live ~> app.sawEof \/ app.reset
  /\ (server.sentClose \/ chan.type = "ZOMBIE") ~> ~chan.live

\* A server that has used up its window is given more (ssh2_set_window), and what
\* the local program has written is read in the end, or its connection is closed
\* (pfd_unthrottle, ssh_throttle_all).
BytesMove ==
  /\ (server.state = "open" /\ server.win = 0)
       ~> (server.win > 0 \/ server.sentEof \/ Broken)
  /\ app.unread > 0 ~> app.unread = 0 \/ ~sock.live

-----------------------------------------------------------------------------
(* What the code says of itself, and does not keep.                        *)

\* While the connection is frozen, data is delayed "until after the freeze is
\* lifted" (ssh.c:946): it is lifted in the end.
FreezeIsLifted ==
  ssh.conn_throttle_count > 0 ~> ssh.conn_throttle_count = 0 \/ ~ssh.open

\* The CLOSE of the server makes "sure we don't read any more from whatever our
\* local data source is for this channel" (ssh.c:8864).
NoMoreIsRead ==
  [][~("RCVD_CLOSE" \in chan.closes /\ \E n \in 1 .. app.unread :
         app' = [app EXCEPT !.unread = @ - n])]_vars
=============================================================================
