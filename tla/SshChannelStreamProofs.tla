------------------------ MODULE SshChannelStreamProofs ------------------------
(***************************************************************************)
(* That the channel of SshChannel implements the two streams of HalfStream, *)
(* for any sizes and bounds: from the inductive invariant of                *)
(* SshChannelProofs, from what is under way in each direction, and from the *)
(* reasons PuTTY has to close the local socket.                             *)
(***************************************************************************)
EXTENDS SshChannelProofs

-----------------------------------------------------------------------------
(* What carries the streams on.                                           *)

\* A step that sends data on, and EOF behind it, but neither takes nor drops any.
Carried(w, v) ==
  /\ Load(v) = Load(w) /\ v.chan.outbuffer <= w.chan.outbuffer
  /\ Filled(w.tx) => Filled(v.tx)
  /\ v.chan.pending_eof => w.chan.pending_eof
  /\ EofSent(v) => \/ EofSent(w)
                   \/ w.chan.pending_eof /\ v.chan.outbuffer = 0 /\ ~w.chan.halfopen
  /\ v.pf.buffer = w.pf.buffer /\ v.chan.halfopen = w.chan.halfopen
  /\ v.chan.type \in {w.chan.type, "ZOMBIE"} /\ v.ssh.open = w.ssh.open
  /\ v.chan.live => w.chan.live
  /\ v.pipe = w.pipe /\ v.sock.output = w.sock.output

\* The amounts of the streams are numbers.
LEMMA Loads ==
  ASSUME NEW w \in Works
  PROVE  /\ w.chan.outbuffer \in Nat /\ InFlight(w.tx, "data") \in Nat /\ Load(w) \in Nat
         /\ w.pf.buffer \in Nat /\ w.sock.output \in Nat /\ w.pipe.data \in Nat
         /\ w.tx \in Packets(UpTypes)
<1>1. w.tx \in Packets(UpTypes) /\ w.chan.outbuffer \in Nat /\ w.pf.buffer \in Nat
      /\ w.sock.output \in Nat
  BY DEF Works, Chans, Pfs, Socks
<1>2. w.pipe.data \in Nat
  BY Sizes DEF Works, Pipes
<1>3. InFlight(w.tx, "data") \in Nat
  BY <1>1, Amounts
<1> QED
  BY <1>1, <1>2, <1>3 DEF Load

\* What is sent stays filled, and EOF is not among it unless it is sent.
LEMMA FilledAppend ==
  ASSUME NEW types, NEW q \in Packets(types), NEW type, NEW n, Filled(q),
         type = "data" => n > 0
  PROVE  Filled(Append(q, Packet(type, n)))
<1> DEFINE p == Packet(type, n)
<1>1. p.type = type /\ p.n = n
  BY DEF Packet
<1> HIDE DEF p
<1>2. /\ DOMAIN q = 1 .. Len(q) /\ Len(q) \in Nat /\ DOMAIN Append(q, p) = 1 .. Len(q) + 1
      /\ Append(q, p)[Len(q) + 1] = p /\ \A i \in 1 .. Len(q) : Append(q, p)[i] = q[i]
  BY DEF Packets
<1>3. Filled(Append(q, p))
  BY <1>1, <1>2 DEF Filled
<1> QED
  BY <1>3 DEF p

\* What is taken brings something.
LEMMA FilledTail ==
  ASSUME NEW types, NEW q \in Packets(types), q # <<>>, Filled(q)
  PROVE  Filled(Tail(q)) /\ (Head(q).type = "data" => Head(q).n > 0)
<1>1. /\ DOMAIN q = 1 .. Len(q) /\ Len(q) \in Nat \ {0}
      /\ DOMAIN Tail(q) = 1 .. Len(q) - 1 /\ Head(q) = q[1]
      /\ \A i \in 1 .. Len(q) - 1 : Tail(q)[i] = q[i + 1]
  BY DEF Packets
<1> QED
  BY <1>1 DEF Filled

\* Without packets of a type nothing of it is under way.
LEMMA NoneInFlight ==
  ASSUME NEW types, NEW q \in Packets(types), NEW type, Lacks(q, {type})
  PROVE  InFlight(q, type) = 0
<1> DEFINE s == [i \in DOMAIN q |-> IF q[i].type = type THEN q[i].n ELSE 0]
           f == [i \in 0 .. Len(q) |-> 0]
<1>1. DOMAIN q = 1 .. Len(q) /\ Len(q) \in Nat
  BY DEF Packets
<1>2. s = [i \in 1 .. Len(q) |-> 0]
  BY <1>1 DEF Lacks
<1>3. Len(s) = Len(q) /\ \A i \in 1 .. Len(q) : s[i] = 0
  <2>1. [i \in 1 .. Len(q) |-> 0] \in Seq(Nat)
    BY <1>1
  <2> QED
    BY <1>1, <1>2
<1>4. f[0] = 0 /\ f[Len(q)] = 0 /\ \A i \in 1 .. Len(q) : f[i] = 0 /\ f[i - 1] = 0
  BY <1>1
<1>5. InFlight(q, type) = Total(s)
  BY DEF InFlight
<1> HIDE DEF s, f
<1>6. Total(s) = f[Len(s)]
  BY <1>1, <1>3, <1>4, TotalBy
<1> QED
  BY <1>3, <1>4, <1>5, <1>6

\* Steps that carry the streams on may follow each other.
LEMMA CarriedOn ==
  ASSUME NEW w \in Works, NEW u \in Works, NEW v \in Works, Carried(w, u), Carried(u, v)
  PROVE  Carried(w, v)
<1>1. w.chan.outbuffer \in Nat /\ u.chan.outbuffer \in Nat /\ v.chan.outbuffer \in Nat
  BY Loads
<1>2. u.chan.outbuffer = 0 => v.chan.outbuffer = 0
  BY <1>1 DEF Carried
<1>3. EofSent(v) => \/ EofSent(w)
                    \/ w.chan.pending_eof /\ v.chan.outbuffer = 0 /\ ~w.chan.halfopen
  BY <1>2 DEF Carried
<1>4. v.chan.outbuffer <= w.chan.outbuffer
  BY <1>1 DEF Carried
<1> QED
  BY <1>3, <1>4 DEF Carried

\* The streams are what they were where nothing is taken or dropped.
LEMMA CarriedStreams ==
  ASSUME NEW w \in Works, NEW v \in Works, NEW cl, NEW sv \in Servers, NEW ap \in Apps,
         Sides(w), Carried(w, v), Streams(w, cl, sv, ap)
  PROVE  Streams(v, cl, sv, ap)
<1>0. /\ w.chan.outbuffer \in Nat /\ InFlight(w.tx, "data") \in Nat /\ w.pf.buffer \in Nat
      /\ v.chan.outbuffer \in Nat /\ InFlight(v.tx, "data") \in Nat /\ v.pf.buffer = w.pf.buffer
      /\ Load(w) = w.chan.outbuffer + InFlight(w.tx, "data")
      /\ Load(v) = v.chan.outbuffer + InFlight(v.tx, "data")
      /\ sv.got \in Nat /\ ap.sent \in Nat /\ ap.unread \in Nat
      /\ Load(v) = Load(w) /\ v.chan.outbuffer <= w.chan.outbuffer
  BY Loads DEF Load, Servers, Apps, Carried
<1>1. Downwards(v, cl, sv, ap)
  BY DEF Streams, Downwards, Carried
<1>2. ASSUME v.ssh.open, ~sv.sentClose, EofSent(v)
      PROVE  ap.fin /\ ap.sent = sv.got + InFlight(v.tx, "data")
  <2>0. w.ssh.open
    BY <1>2 DEF Carried
  <2>1. CASE EofSent(w)
    <3>1. /\ ap.sent = sv.got + InFlight(w.tx, "data") /\ ap.fin
          /\ sv.got + Load(w) + w.pf.buffer + ap.unread <= ap.sent
      BY <1>2, <2>0, <2>1 DEF Streams, Upwards
    <3>2. w.chan.outbuffer = 0
      <4> DEFINE g == sv.got
                 o == w.chan.outbuffer
                 f == InFlight(w.tx, "data")
                 b == w.pf.buffer
                 u == ap.unread
      <4>1. /\ g \in Nat /\ o \in Nat /\ f \in Nat /\ b \in Nat /\ u \in Nat
            /\ g + (o + f) + b + u <= g + f
        BY <1>0, <3>1
      <4> HIDE DEF g, o, f, b, u
      <4>2. o = 0
        BY <4>1
      <4> QED
        BY <4>2 DEF o
    <3>3. v.chan.outbuffer = 0
      BY <1>0, <3>2
    <3>4. InFlight(v.tx, "data") = InFlight(w.tx, "data")
      BY <1>0, <3>2, <3>3
    <3> QED
      BY <3>1, <3>4
  <2>2. CASE w.chan.pending_eof /\ v.chan.outbuffer = 0 /\ ~w.chan.halfopen
    <3>1. ap.fin /\ ap.sent = sv.got + Load(w) + w.pf.buffer /\ w.pf.buffer = 0
      BY <1>2, <2>0, <2>2 DEF Streams, Upwards, Sides
    <3>2. ap.sent = sv.got + InFlight(v.tx, "data")
      BY <1>0, <2>2, <3>1
    <3> QED
      BY <3>1, <3>2
  <2> QED
    BY <1>2, <2>1, <2>2 DEF Carried
<1>3. /\ v.ssh.open => w.ssh.open
      /\ v.chan.pending_eof => w.chan.pending_eof
      /\ Filled(w.tx) => Filled(v.tx)
      /\ ~v.chan.halfopen /\ v.chan.type # "ZOMBIE" => ~w.chan.halfopen /\ w.chan.type # "ZOMBIE"
  BY DEF Carried
<1>4. Upwards(v, sv, ap)
  BY <1>0, <1>2, <1>3 DEF Streams, Upwards
<1> QED
  BY <1>1, <1>4 DEF Streams

-----------------------------------------------------------------------------
(* What the operators of the handlers carry on.                            *)

\* What Carried asks of everything but the packets.
Still(w, v) ==
  /\ v.chan.outbuffer = w.chan.outbuffer
  /\ v.chan.pending_eof => w.chan.pending_eof
  /\ v.pf.buffer = w.pf.buffer /\ v.chan.halfopen = w.chan.halfopen
  /\ v.chan.type \in {w.chan.type, "ZOMBIE"} /\ v.ssh.open = w.ssh.open
  /\ v.chan.live => w.chan.live
  /\ v.pipe = w.pipe /\ v.sock.output = w.sock.output

\* Nothing is sent.
LEMMA StillCarries ==
  ASSUME NEW w \in Works, NEW v \in Works, Still(w, v), v.tx = w.tx
  PROVE  Carried(w, v)
<1>1. w.chan.outbuffer \in Nat
  BY Loads
<1>2. v.chan.outbuffer <= w.chan.outbuffer
  BY <1>1 DEF Still
<1> QED
  BY <1>2 DEF Still, Carried, Load, EofSent

\* A packet without data is sent, and EOF only for one that waits.
LEMMA SendCarries ==
  ASSUME NEW w \in Works, NEW v \in Works, Still(w, v), NEW type \in UpTypes, NEW n \in Nat,
         v.tx = Append(w.tx, Packet(type, n)), type # "data",
         type = "eof" => w.chan.pending_eof /\ w.chan.outbuffer = 0 /\ ~w.chan.halfopen
  PROVE  Carried(w, v)
<1>1. w.chan.outbuffer \in Nat /\ w.tx \in Packets(UpTypes)
  BY Loads
<1>2. v.chan.outbuffer <= w.chan.outbuffer
  BY <1>1 DEF Still
<1> DEFINE u == Send(w, type, n)
<1>3. /\ u.tx = Append(w.tx, Packet(type, n))
      /\ InFlight(u.tx, "data") = InFlight(w.tx, "data") + 0
      /\ InFlight(w.tx, "data") \in Nat
      /\ Lacks(w.tx, {"eof"}) /\ type # "eof" => Lacks(u.tx, {"eof"})
  <2>1. /\ u \in Works /\ u = [w EXCEPT !.tx = u.tx]
        /\ u.tx = Append(w.tx, Packet(type, n))
        /\ \A t : /\ InFlight(u.tx, t) = InFlight(w.tx, t) + (IF type = t THEN n ELSE 0)
                  /\ Count(u.tx, t) = Count(w.tx, t) + (IF type = t THEN 1 ELSE 0)
        /\ \A t : InFlight(w.tx, t) \in Nat /\ Count(w.tx, t) \in Nat
        /\ \A some : Lacks(w.tx, some) /\ type \notin some => Lacks(u.tx, some)
    BY Zenon, Sending
  <2> HIDE DEF u
  <2> QED
    BY <2>1
<1> HIDE DEF u
<1>4. u.tx = v.tx
  BY <1>3
<1>5. InFlight(v.tx, "data") = InFlight(w.tx, "data")
  BY <1>3, <1>4
<1>6. Load(v) = Load(w)
  BY <1>5 DEF Load, Still
<1>7. EofSent(v) => EofSent(w) \/ type = "eof"
  BY <1>3, <1>4 DEF EofSent
<1>8. Filled(w.tx) => Filled(v.tx)
  BY <1>1, FilledAppend
<1> QED
  BY <1>2, <1>6, <1>7, <1>8 DEF Carried, Still

\* The channel is destroyed.
LEMMA DestroyCarries ==
  ASSUME NEW w, NEW cl, NEW sv, Base(w, cl, sv), w.chan.live, ~w.chan.halfopen,
         Done(w.chan)
  PROVE  Carried(w, Destroy(Asserting(w, w.chan.chanreqs = <<>>)))
<1> DEFINE v == Destroy(Asserting(w, w.chan.chanreqs = <<>>))
<1>0. w \in Works /\ w.chan \in Chans /\ w.sock \in Socks
  BY DEF Base, Works
<1>1. w.chan.chanreqs = <<>>
  BY DEF Base, Sides, Done
<1>2. v = IF w.chan.type = "SOCKDATA"
          THEN [w EXCEPT !.sock.live = FALSE, !.chan.live = FALSE]
          ELSE [w EXCEPT !.chan.live = FALSE]
  BY Zenon, <1>0, <1>1, FALSE \in BOOLEAN DEF Destroy, PfdClose, Asserting, Works
<1>3. v \in Works
  BY DestroyKeepsBase DEF Base
<1> HIDE DEF v
<1>4. /\ v.chan = [w.chan EXCEPT !.live = FALSE]
      /\ v.pf = w.pf /\ v.ssh = w.ssh /\ v.tx = w.tx /\ v.pipe = w.pipe
      /\ v.sock.output = w.sock.output
  <2>1. CASE w.chan.type = "SOCKDATA"
    <3>1. v = [w EXCEPT !.sock.live = FALSE, !.chan.live = FALSE]
      BY <1>2, <2>1
    <3> QED
      BY <1>0, <3>1 DEF Works, Chans, Socks
  <2>2. CASE w.chan.type # "SOCKDATA"
    <3>1. v = [w EXCEPT !.chan.live = FALSE]
      BY <1>2, <2>2
    <3> QED
      BY <1>0, <3>1 DEF Works, Chans, Socks
  <2> QED
    BY <2>1, <2>2
<1>5. Still(w, v)
  BY <1>0, <1>4 DEF Still, Chans
<1> QED
  BY <1>0, <1>3, <1>4, <1>5, StillCarries DEF v

\* ssh2_channel_check_close
LEMMA CheckCloseCarries ==
  ASSUME NEW w, NEW cl, NEW sv, Base(w, cl, sv), w.chan.live
  PROVE  Carried(w, CheckClose(w))
<1> DEFINE u == [Send(w, "close", 0)
                   EXCEPT !.chan.closes = @ \cup {"SENT_EOF", "SENT_CLOSE"}]
           z == IF WindUp(w.chan) THEN u ELSE w
           d == Destroy(Asserting(z, z.chan.chanreqs = <<>>))
           v == CheckClose(w)
<1>0. w \in Works /\ w.chan \in Chans
  BY DEF Base, Works
<1>1. v \in Works
  BY Zenon, CheckCloseKeepsBase DEF Base
<1>2. Carried(w, w)
  <2>1. w.chan.pending_eof => w.chan.pending_eof
    OBVIOUS
  <2>2. Still(w, w)
    BY <2>1 DEF Still
  <2> QED
    BY <1>0, <2>2, StillCarries
<1>3. CASE w.chan.halfopen
  BY <1>2, <1>3 DEF CheckClose
<1>4. CASE ~w.chan.halfopen
  <2>1. /\ Base(z, cl, sv) /\ z \in Works /\ Carried(w, z)
        /\ z.chan.live /\ ~z.chan.halfopen /\ z.chan.chanreqs = w.chan.chanreqs
    <3>1. CASE WindUp(w.chan)
      <4>1. /\ Base(u, cl, sv)
            /\ u.chan = [w.chan EXCEPT !.closes = @ \cup {"SENT_EOF", "SENT_CLOSE"}]
            /\ u.sock = w.sock /\ u.pf = w.pf /\ u.ssh = w.ssh
        BY <1>4, <3>1, ClosingKeepsBase
      <4>2. u.tx = Append(w.tx, Packet("close", 0)) /\ u.pipe = w.pipe
        BY <1>0 DEF Send, Works
      <4>3. z = u
        BY <3>1
      <4> HIDE DEF u, z
      <4>4. Still(w, u)
        BY <1>0, <4>1, <4>2 DEF Still, Chans
      <4>5. "close" \in UpTypes /\ "close" # "data" /\ "close" # "eof"
        BY DEF UpTypes
      <4>6. u \in Works
        BY <4>1 DEF Base
      <4>7. Carried(w, u)
        BY <1>0, <4>2, <4>4, <4>5, <4>6, SendCarries
      <4> QED
        BY Zenon, <1>0, <1>4, <4>1, <4>3, <4>6, <4>7 DEF Chans
    <3>2. CASE ~WindUp(w.chan)
      <4>1. z = w
        BY <3>2
      <4> HIDE DEF z
      <4> QED
        BY <1>0, <1>2, <1>4, <4>1
    <3> QED
      BY <3>1, <3>2
  <2>2. v = IF Done(z.chan) THEN d ELSE z
    BY <1>4, <2>1 DEF CheckClose
  <2>3. CASE Done(z.chan)
    <3>1. Carried(z, d)
      BY Zenon, <2>1, <2>3, DestroyCarries
    <3>2. v = d
      BY <2>2, <2>3
    <3> HIDE DEF z, u, d, v
    <3> QED
      BY <1>0, <1>1, <2>1, <3>1, <3>2, CarriedOn DEF v
  <2>4. CASE ~Done(z.chan)
    <3>1. v = z
      BY <2>2, <2>4
    <3> HIDE DEF z, u, d, v
    <3> QED
      BY <2>1, <3>1 DEF v
  <2> QED
    BY <2>3, <2>4
<1> QED
  BY <1>3, <1>4

\* EOF goes out where nothing is left to be sent.
LEMMA EofCarries ==
  ASSUME NEW w, NEW cl, NEW sv, Base(w, cl, sv), w.chan.live, ~w.chan.halfopen,
         "SENT_EOF" \notin w.chan.closes, w.chan.outbuffer = 0
  PROVE  LET p == [w EXCEPT !.chan.pending_eof = TRUE]
         IN Carried(p, TryEof(p))
<1> DEFINE p == [w EXCEPT !.chan.pending_eof = TRUE]
           u == [Send(w, "eof", 0)
                   EXCEPT !.chan.pending_eof = FALSE, !.chan.closes = @ \cup {"SENT_EOF"}]
           up == [Send(p, "eof", 0)
                   EXCEPT !.chan.pending_eof = FALSE, !.chan.closes = @ \cup {"SENT_EOF"}]
           v == TryEof(p)
<1>0. w \in Works /\ w.chan \in Chans
  BY DEF Base, Works
<1>1. /\ Base(u, cl, sv)
      /\ u.chan = [w.chan EXCEPT !.pending_eof = FALSE, !.closes = @ \cup {"SENT_EOF"}]
      /\ u.sock = w.sock /\ u.pf = w.pf /\ u.ssh = w.ssh
  BY Zenon, SendingEofKeepsBase
<1>2. up = u
  BY Zenon, <1>0, TryEofSends
<1>3. /\ p.chan = [w.chan EXCEPT !.pending_eof = TRUE] /\ p.tx = w.tx /\ p.pipe = w.pipe
      /\ p.sock = w.sock /\ p.pf = w.pf /\ p.ssh = w.ssh /\ p \in Works
  BY Zenon, <1>0 DEF Works, Chans
<1>4. u.tx = Append(w.tx, Packet("eof", 0)) /\ u.pipe = w.pipe
  BY <1>0 DEF Send, Works
<1>5. v = CheckClose(up)
  <2>1. p.chan.pending_eof /\ ~(p.chan.halfopen \/ p.chan.outbuffer > 0)
    BY <1>0, <1>3 DEF Chans
  <2> HIDE DEF p
  <2>2. Asserting(p, p.chan.pending_eof) = p
    BY <2>1 DEF Asserting
  <2> QED
    BY Zenon, <2>1, <2>2 DEF TryEof
<1>6. v \in Works
  BY EofKeepsBase DEF Base
<1> HIDE DEF u, up, p, v
<1>7. u.chan.live /\ u \in Works
  BY <1>0, <1>1 DEF Chans, Base
<1>8. Still(p, u) /\ p.chan.pending_eof /\ p.chan.outbuffer = 0 /\ ~p.chan.halfopen
  BY <1>0, <1>1, <1>3, <1>4 DEF Still, Chans
<1>9. "eof" \in UpTypes /\ "eof" # "data"
  BY DEF UpTypes
<1>10. Carried(p, u)
  <2>1. u.tx = Append(p.tx, Packet("eof", 0)) /\ 0 \in Nat /\ p \in Works
    BY <1>3, <1>4
  <2> QED
    BY <1>7, <1>8, <1>9, <2>1, SendCarries
<1>11. Carried(u, CheckClose(u))
  BY Zenon, <1>1, <1>7, CheckCloseCarries
<1>12. Carried(p, v)
  BY <1>2, <1>3, <1>5, <1>6, <1>7, <1>10, <1>11, CarriedOn
<1> QED
  BY <1>12 DEF p, v

\* sshfwd_write_eof
LEMMA WriteEofCarries ==
  ASSUME NEW w, NEW cl, NEW sv, Base(w, cl, sv), w.chan.live,
         w.chan.type # "ZOMBIE" \/ (w.chan.outbuffer = 0 /\ ~w.chan.halfopen),
         ~Done(w.chan)
  PROVE  Carried([w EXCEPT !.chan.pending_eof = TRUE], WriteEof(w))
<1> DEFINE p == [w EXCEPT !.chan.pending_eof = TRUE]
<1>0. w \in Works /\ w.chan \in Chans
  BY DEF Base, Works
<1>1. /\ p \in Works /\ p.chan = [w.chan EXCEPT !.pending_eof = TRUE]
      /\ p.sock = w.sock /\ p.pf = w.pf /\ p.ssh = w.ssh /\ p.tx = w.tx /\ p.pipe = w.pipe
      /\ p.chan.pending_eof
  BY Zenon, <1>0 DEF Works, Chans
<1>2. CASE SentEof(w.chan)
  <2>1. WriteEof(w) = w
    BY <1>2 DEF WriteEof
  <2> HIDE DEF p
  <2>2. Still(p, w)
    BY <1>0, <1>1 DEF Still, Chans
  <2>3. Carried(p, w)
    BY <1>0, <1>1, <2>2, StillCarries
  <2> QED
    BY <2>1, <2>3 DEF p
<1>3. CASE ~SentEof(w.chan)
  <2>1. WriteEof(w) = TryEof(p)
    BY <1>3 DEF WriteEof
  <2>2. CASE w.chan.halfopen \/ w.chan.outbuffer > 0
    <3> HIDE DEF p
    <3>1. TryEof(p) = p
      BY <1>0, <1>1, <2>2 DEF TryEof, Asserting, Chans
    <3>2. Still(p, p)
      BY <1>0, <1>1 DEF Still, Chans
    <3>3. Carried(p, p)
      BY <1>1, <3>2, StillCarries
    <3> QED
      BY <2>1, <3>1, <3>3 DEF p
  <2>3. CASE ~w.chan.halfopen /\ ~(w.chan.outbuffer > 0)
    <3>1. w.chan.outbuffer = 0 /\ "SENT_EOF" \notin w.chan.closes
      BY <1>0, <1>3, <2>3 DEF Chans, SentEof
    <3>2. Carried(p, TryEof(p))
      BY <2>3, <3>1, EofCarries
    <3> QED
      BY <2>1, <3>2
  <2> QED
    BY <2>2, <2>3
<1> QED
  BY <1>2, <1>3

\* sshfwd_unclean_close
LEMMA UncleanCloseCarries ==
  ASSUME NEW w, NEW cl, NEW sv, Base(w, cl, sv), w.chan.live
  PROVE  Carried(w, UncleanClose(w))
<1> DEFINE x == IF Forwards(w.chan) THEN PfdClose(w) ELSE w
           u == [x EXCEPT !.chan.type = "ZOMBIE", !.chan.pending_eof = FALSE]
           v == UncleanClose(w)
<1>0. w \in Works /\ w.chan \in Chans /\ w.sock \in Socks
  BY DEF Base, Works
<1>1. v = CheckClose(u)
  BY DEF UncleanClose
<1>2. /\ x \in Works /\ ~x.sock.live /\ x.chan = w.chan
      /\ x.pf = w.pf /\ x.ssh = w.ssh /\ x.tx = w.tx /\ x.pipe = w.pipe
      /\ x.sock.output = w.sock.output /\ x.sock.outgoingeof = w.sock.outgoingeof
      /\ x.sock.writable = w.sock.writable
  <2>1. CASE Forwards(w.chan)
    <3>1. x = [w EXCEPT !.sock.live = FALSE]
      BY <2>1 DEF PfdClose
    <3> HIDE DEF x
    <3> QED
      BY Zenon, <1>0, <3>1 DEF Works, Socks
  <2>2. CASE ~Forwards(w.chan)
    <3>1. x = w /\ ~w.sock.live
      BY <2>2 DEF Base, Sides
    <3> HIDE DEF x
    <3> QED
      BY <1>0, <3>1
  <2> QED
    BY <2>1, <2>2
<1> HIDE DEF x
<1>3. /\ u \in Works /\ u.chan = [w.chan EXCEPT !.type = "ZOMBIE", !.pending_eof = FALSE]
      /\ u.sock = x.sock /\ u.pf = w.pf /\ u.ssh = w.ssh /\ u.tx = w.tx /\ u.pipe = w.pipe
  BY Zenon, <1>0, <1>2 DEF Works, Chans
<1>4. v \in Works
  BY Zenon, UncleanCloseKeepsBase DEF Base
<1> HIDE DEF u, v
<1>5. Sides(u)
  BY <1>0, <1>2, <1>3 DEF Base, Sides, Chans, Forwards, HalfOpened
<1>6. ~Late(u) => SentUp(u, sv)
  BY <1>0, <1>3 DEF Base, SentUp, Chans, Late
<1>7. SentDown(u, cl, sv) /\ Opening(u, cl, sv)
  BY <1>0, <1>3 DEF Base, SentDown, Opening, Chans, Late
<1>8. Books(u, cl, sv) /\ Gone(u, cl, sv)
  BY <1>0, <1>3 DEF Base, Books, Gone, Chans, RoomOf, Late
<1>9. Base(u, cl, sv) /\ u.chan.live
  BY <1>0, <1>3, <1>5, <1>6, <1>7, <1>8 DEF Base, Chans
<1>10. Carried(u, CheckClose(u))
  BY <1>9, CheckCloseCarries
<1>11. Still(w, u)
  BY <1>0, <1>2, <1>3 DEF Still, Chans
<1>12. Carried(w, u)
  BY <1>0, <1>3, <1>11, StillCarries
<1>13. Carried(w, v)
  BY <1>0, <1>1, <1>3, <1>4, <1>10, <1>12, CarriedOn
<1> QED
  BY <1>13 DEF v

\* ssh2_try_send
LEMMA TrySendCarries ==
  ASSUME NEW w, NEW cl, NEW sv, Base(w, cl, sv), w.chan.live, ~w.chan.halfopen,
         "SENT_EOF" \notin w.chan.closes \/ Late(w), ~Done(w.chan)
  PROVE  Carried(w, TrySend(w))
<1> DEFINE n == Smaller(w.chan.remwindow, w.chan.outbuffer)
           s == [w EXCEPT !.chan.outbuffer = @ - n, !.chan.remwindow = @ - n]
           u == IF n > 0 THEN Send(s, "data", n) ELSE s
           p == [u EXCEPT !.chan.pending_eof = TRUE]
           v == TrySend(w)
<1>0. /\ w \in Works /\ w.chan \in Chans /\ w.chan.outbuffer \in Nat /\ w.chan.remwindow \in Nat
      /\ w.tx \in Packets(UpTypes)
  BY DEF Base, Works, Chans
<1>1. /\ Base(u, cl, sv) /\ n \in Nat
      /\ u.chan = [w.chan EXCEPT !.outbuffer = @ - n, !.remwindow = @ - n]
      /\ u.sock = w.sock /\ u.pf = w.pf /\ u.ssh = w.ssh
      /\ u.chan.outbuffer > 0 => u.chan.remwindow = 0
  BY Zenon, SendingDataKeepsBase
<1>2. v = IF u.chan.outbuffer = 0 /\ u.chan.pending_eof THEN TryEof(u) ELSE u
  BY DEF TrySend
<1>3. w.chan.outbuffer - n \in Nat /\ w.chan.remwindow - n \in Nat
  BY <1>0 DEF Smaller
<1>4. v \in Works
  BY TrySendKeepsBase DEF Base
<1> HIDE DEF n, v
<1>5. s \in Works /\ s.tx = w.tx /\ s.pipe = w.pipe /\ s.sock = w.sock
  BY Zenon, <1>0, <1>3 DEF Works, Chans
<1>6. /\ u.pipe = w.pipe
      /\ InFlight(u.tx, "data") = InFlight(w.tx, "data") + n
      /\ InFlight(w.tx, "data") \in Nat
      /\ EofSent(u) => EofSent(w)
      /\ Filled(w.tx) => Filled(u.tx)
  <2>1. CASE n > 0
    <3> DEFINE x == Send(s, "data", n)
    <3>0. "data" \in UpTypes
      BY DEF UpTypes
    <3>1. /\ x \in Works /\ x = [s EXCEPT !.tx = x.tx]
          /\ x.tx = Append(s.tx, Packet("data", n))
          /\ \A t : /\ InFlight(x.tx, t) = InFlight(s.tx, t) + (IF "data" = t THEN n ELSE 0)
                    /\ Count(x.tx, t) = Count(s.tx, t) + (IF "data" = t THEN 1 ELSE 0)
          /\ \A t : InFlight(s.tx, t) \in Nat /\ Count(s.tx, t) \in Nat
          /\ \A some : Lacks(s.tx, some) /\ "data" \notin some => Lacks(x.tx, some)
      BY Zenon, <1>1, <1>5, <3>0, Sending
    <3>2. u = x
      BY <2>1
    <3> HIDE DEF x, u, s
    <3>3. Filled(w.tx) => Filled(x.tx)
      BY <1>0, <1>5, <2>1, <3>1, FilledAppend
    <3>4. Lacks(w.tx, {"eof"}) => Lacks(x.tx, {"eof"})
      BY <1>5, <3>1
    <3>5. x.pipe = w.pipe
      BY <1>5, <3>1 DEF Works
    <3>6. InFlight(x.tx, "data") = InFlight(w.tx, "data") + n /\ InFlight(w.tx, "data") \in Nat
      BY <1>5, <3>1
    <3> QED
      BY <3>2, <3>3, <3>4, <3>5, <3>6 DEF EofSent
  <2>2. CASE ~(n > 0)
    <3>1. u = s /\ n = 0
      BY <1>1, <2>2
    <3>2. InFlight(w.tx, "data") \in Nat
      BY <1>0, Loads
    <3> HIDE DEF u, s
    <3> QED
      BY <1>5, <3>1, <3>2 DEF EofSent
  <2> QED
    BY <2>1, <2>2
<1> HIDE DEF s, u
<1>7. u \in Works /\ u.chan \in Chans
  BY <1>1 DEF Base, Works
<1>8. u.chan.outbuffer = w.chan.outbuffer - n
  BY <1>0, <1>1, <1>3 DEF Chans
<1>9. u.chan.outbuffer <= w.chan.outbuffer /\ Load(u) = Load(w)
  BY <1>0, <1>1, <1>6, <1>8 DEF Load
<1>10. /\ u.chan.pending_eof = w.chan.pending_eof /\ u.chan.halfopen = w.chan.halfopen
       /\ u.chan.type = w.chan.type /\ u.chan.live = w.chan.live
       /\ u.chan.closes = w.chan.closes
  BY Zenon, <1>0, <1>1 DEF Chans
<1>11. Carried(w, u)
  BY <1>1, <1>6, <1>9, <1>10 DEF Carried
<1>12. CASE u.chan.outbuffer = 0 /\ u.chan.pending_eof
  <2>1. "SENT_EOF" \notin u.chan.closes
    BY <1>1, <1>12 DEF Base, Sides
  <2>2. p = u
    BY <1>7, <1>12, PendingAgain
  <2>3. Carried(p, TryEof(p))
    BY Zenon, <1>1, <1>10, <1>12, <2>1, EofCarries
  <2>4. Carried(u, v)
    BY Zenon, <1>2, <1>12, <2>2, <2>3
  <2> HIDE DEF p
  <2> QED
    BY <1>0, <1>4, <1>7, <1>11, <2>4, CarriedOn DEF v
<1>13. CASE ~(u.chan.outbuffer = 0 /\ u.chan.pending_eof)
  <2>1. v = u
    BY <1>2, <1>13
  <2> QED
    BY <1>11, <2>1 DEF v
<1> QED
  BY <1>12, <1>13

\* sshfwd_write
LEMMA WriteCarries ==
  ASSUME NEW w, NEW cl, NEW sv, Base(w, cl, sv), w.chan.live, ~w.chan.halfopen,
         "SENT_EOF" \notin w.chan.closes \/ Late(w), ~Done(w.chan), NEW n \in Nat
  PROVE  Carried([w EXCEPT !.chan.outbuffer = @ + n], Write(w, n))
<1> DEFINE u == [w EXCEPT !.chan.outbuffer = @ + n]
<1>0. w \in Works /\ w.chan \in Chans
  BY DEF Base, Works
<1>1. /\ u \in Works /\ u.chan = [w.chan EXCEPT !.outbuffer = @ + n]
      /\ u.sock = w.sock /\ u.pf = w.pf /\ u.ssh = w.ssh /\ u.tx = w.tx
  <2>1. w.chan.outbuffer + n \in Nat
    BY <1>0 DEF Chans
  <2> QED
    BY Zenon, <1>0, <2>1 DEF Works, Chans
<1>2. Write(w, n) = TrySend(u)
  BY DEF Write
<1> HIDE DEF u
<1>3. Base(u, cl, sv)
  <2>1. Sides(u)
    BY <1>0, <1>1 DEF Base, Sides, Chans, Forwards
  <2>2. ~Late(u) => SentUp(u, sv)
    BY <1>0, <1>1 DEF Base, SentUp, Chans, Late
  <2>3. SentDown(u, cl, sv) /\ Opening(u, cl, sv)
    BY <1>0, <1>1 DEF Base, SentDown, Opening, Chans, Late
  <2>4. Books(u, cl, sv) /\ Gone(u, cl, sv)
    BY <1>0, <1>1 DEF Base, Books, Gone, Chans, RoomOf, Late
  <2> QED
    BY <1>1, <2>1, <2>2, <2>3, <2>4 DEF Base
<1>4. u.chan.live /\ ~u.chan.halfopen /\ u.chan.closes = w.chan.closes
  BY <1>0, <1>1 DEF Chans
<1>5. ("SENT_EOF" \notin u.chan.closes \/ Late(u)) /\ ~Done(u.chan)
  BY <1>1, <1>4 DEF Late, Done
<1>6. Carried(u, TrySend(u))
  BY <1>3, <1>4, <1>5, TrySendCarries
<1> QED
  BY <1>2, <1>6 DEF u

\* ssh2_set_window
LEMMA SetWindowCarries ==
  ASSUME NEW w, NEW cl, NEW sv, Base(w, cl, sv), w.chan.live, ~w.chan.halfopen,
         NEW wanted \in Nat
  PROVE  Carried(w, SetWindow(w, wanted))
<1> DEFINE c == w.chan
           newwin == IF Has("BUG_SSH2_MAXPKT") THEN Smaller(wanted, WinSize) ELSE wanted
           asks == newwin = c.locmaxwin /\ ~Has("BUG_CHOKES_ON_WINADJ")
           more == newwin - c.locwindow
           holds == c.closes \cap {"SENT_CLOSE", "RCVD_CLOSE"} = {}
           a == [Send(w, "winadj", 0)
                   EXCEPT !.chan.chanreqs = Append(@, more),
                          !.chan.throttle_state =
                            IF @ = "UNTHROTTLED" THEN @ ELSE "UNTHROTTLING"]
           b == [w EXCEPT !.chan.remlocwin = newwin,
                          !.chan.throttle_state = "THROTTLED"]
           z == IF asks THEN a ELSE b
           stays == \/ {"RCVD_EOF", "SENT_CLOSE"} \cap c.closes # {}
                    \/ newwin \div 2 < c.locwindow
           v == [Send(z, "adjust", more) EXCEPT !.chan.locwindow = newwin]
<1>0. w \in Works /\ w.chan \in Chans /\ w.chan.locwindow \in Int
  BY DEF Base, Works, Chans
<1>1. newwin \in Nat /\ newwin <= wanted
  BY Sizes DEF Smaller
<1>2. CASE stays
  <2>1. SetWindow(w, wanted) = w
    BY Zenon, <1>2 DEF SetWindow
  <2>2. Still(w, w)
    BY <1>0 DEF Still, Chans
  <2> QED
    BY <1>0, <2>1, <2>2, StillCarries
<1>3. CASE ~stays
  <2>1. /\ "RCVD_EOF" \notin c.closes /\ "SENT_CLOSE" \notin c.closes
        /\ ~(newwin \div 2 < c.locwindow)
    BY <1>3
  <2>2. holds
    BY <2>1 DEF Base, Sides
  <2>3. SetWindow(w, wanted) = v
    BY <1>3, <2>2 DEF SetWindow, Asserting
  <2>4. SetWindow(w, wanted) \in Works /\ Windowed(w, SetWindow(w, wanted), wanted)
    BY SetWindowKeepsBase DEF Base
  <2> HIDE DEF newwin
  <2>5. newwin \div 2 \in Nat /\ newwin \div 2 <= newwin
    BY <1>1
  <2>6. more \in Nat
    BY <1>0, <1>1, <2>1, <2>5
  <2>7. z \in Works /\ Carried(w, z) /\ Still(w, z)
    <3>1. CASE asks
      <4>1. /\ Base(a, cl, sv)
            /\ a.chan = [w.chan EXCEPT !.chanreqs = a.chan.chanreqs,
                                       !.throttle_state = a.chan.throttle_state]
            /\ a.sock = w.sock /\ a.pf = w.pf /\ a.ssh = w.ssh
        BY Zenon, <2>1, <2>6, AskingKeepsBase
      <4>2. a.tx = Append(w.tx, Packet("winadj", 0)) /\ a.pipe = w.pipe
        BY <1>0 DEF Send, Works
      <4>3. z = a
        BY <3>1
      <4> HIDE DEF a, z
      <4>4. a \in Works
        BY <4>1 DEF Base
      <4>5. Still(w, a)
        BY Zenon, <1>0, <4>1, <4>2 DEF Still, Chans
      <4>6. "winadj" \in UpTypes /\ "winadj" # "data" /\ "winadj" # "eof" /\ 0 \in Nat
        BY DEF UpTypes
      <4>7. Carried(w, a)
        BY <1>0, <4>2, <4>4, <4>5, <4>6, SendCarries
      <4> QED
        BY <4>3, <4>4, <4>5, <4>7
    <3>2. CASE ~asks
      <4>1. z = b
        BY <3>2
      <4>2. /\ b \in Works /\ b.chan = [w.chan EXCEPT !.remlocwin = newwin,
                                                     !.throttle_state = "THROTTLED"]
            /\ b.sock = w.sock /\ b.pf = w.pf /\ b.ssh = w.ssh /\ b.tx = w.tx
            /\ b.pipe = w.pipe
        <5>1. newwin \in Int
          BY <1>1
        <5> QED
          BY Zenon, <1>0, <5>1 DEF Works, Chans
      <4> HIDE DEF b, z
      <4>3. Still(w, b)
        BY <1>0, <4>2 DEF Still, Chans
      <4> QED
        BY <1>0, <4>1, <4>2, <4>3, StillCarries
    <3> QED
      BY <3>1, <3>2
  <2> HIDE DEF z, more
  <2>8. v.tx = Append(z.tx, Packet("adjust", more)) /\ v.pipe = z.pipe
    BY <2>7 DEF Send, Works
  <2> HIDE DEF v
  <2>9. Still(z, v)
    <3>1. /\ v.sock = w.sock /\ v.pf = w.pf /\ v.ssh = w.ssh
          /\ v.chan.live = w.chan.live /\ v.chan.halfopen = w.chan.halfopen
          /\ v.chan.type = w.chan.type
          /\ v.chan.pending_eof = w.chan.pending_eof
          /\ v.chan.outbuffer = w.chan.outbuffer
      BY <2>3, <2>4 DEF Windowed
    <3>2. z.chan.type = w.chan.type /\ z.chan.live = w.chan.live
          /\ z.chan.pending_eof = w.chan.pending_eof
      <4>1. /\ z.chan.type = w.chan.type
            /\ z.chan.live = w.chan.live
            /\ z.chan.pending_eof = w.chan.pending_eof
        <5>1. CASE asks
          <6>1. z = a
            BY <5>1 DEF z
          <6> HIDE DEF a
          <6>2. /\ a.chan = [w.chan EXCEPT !.chanreqs = a.chan.chanreqs,
                                           !.throttle_state = a.chan.throttle_state]
            BY ZenonT(60), <2>1, <2>6, AskingKeepsBase DEF a, more
          <6> QED
            BY Zenon, <1>0, <6>1, <6>2 DEF Chans
        <5>2. CASE ~asks
          <6>1. z = b
            BY <5>2 DEF z
          <6> QED
            BY Zenon, <1>0, <6>1 DEF Works, Chans
        <5> QED
          BY Zenon, <5>1, <5>2
      <4> QED
        BY <4>1
    <3> QED
      BY <2>7, <2>8, <3>1, <3>2 DEF Still
  <2>10. "adjust" \in UpTypes /\ "adjust" # "data" /\ "adjust" # "eof"
    BY DEF UpTypes
  <2>11. v \in Works
    BY <2>3, <2>4
  <2>12. Carried(z, v)
    BY <2>6, <2>7, <2>8, <2>9, <2>10, <2>11, SendCarries
  <2>13. Carried(w, v)
    BY <1>0, <2>7, <2>11, <2>12, CarriedOn
  <2> QED
    BY <2>3, <2>13
<1> QED
  BY <1>2, <1>3

\* ssh_throttle_conn
LEMMA ThrottleConnCarries ==
  ASSUME NEW w, NEW cl, NEW sv, Base(w, cl, sv), w.chan.live, ~w.chan.halfopen,
         NEW freeze \in BOOLEAN, w.chan.throttling_conn # freeze
  PROVE  Carried(w, ThrottleConn([w EXCEPT !.chan.throttling_conn = freeze],
                                 IF freeze THEN 1 ELSE -1))
<1> DEFINE x == [w EXCEPT !.chan.throttling_conn = freeze]
           n == IF freeze THEN 1 ELSE -1
           v == ThrottleConn(x, n)
<1>0. w \in Works /\ w.chan \in Chans /\ w.ssh \in Sshs
  BY DEF Base, Works
<1>1. /\ Base(v, cl, sv)
      /\ v.chan = [w.chan EXCEPT !.throttling_conn = freeze]
      /\ v.sock = w.sock /\ v.pf = w.pf
      /\ v.ssh = [w.ssh EXCEPT !.conn_throttle_count = IF freeze THEN 1 ELSE 0]
  BY ThrottleConnKeepsBase
<1>2. v.tx = w.tx /\ v.pipe = w.pipe
  BY <1>0 DEF ThrottleConn, Asserting, Fail, Works
<1> HIDE DEF v, x, n
<1>3. v \in Works /\ v.ssh.open = w.ssh.open
  BY <1>0, <1>1 DEF Base, Sshs
<1>4. Still(w, v)
  BY <1>0, <1>1, <1>2, <1>3 DEF Still, Chans
<1>5. Carried(w, v)
  BY <1>0, <1>2, <1>3, <1>4, StillCarries
<1> QED
  BY <1>5 DEF v, x, n

\* sshfwd_unthrottle
LEMMA SshfwdUnthrottleCarries ==
  ASSUME NEW w, NEW cl, NEW sv, Base(w, cl, sv), w.chan.live, ~w.chan.halfopen,
         NEW n \in Nat
  PROVE  Carried(w, SshfwdUnthrottle(w, n))
<1> DEFINE u == SetWindow(w, WindowFor(w, n))
           z == ThrottleConn([u EXCEPT !.chan.throttling_conn = FALSE], -1)
           v == SshfwdUnthrottle(w, n)
<1>0. w \in Works /\ WindowFor(w, n) \in Nat
  BY WindowForNat DEF Base, Works
<1>1. Base(u, cl, sv) /\ Windowed(w, u, WindowFor(w, n)) /\ Carried(w, u)
  BY <1>0, SetWindowKeepsBase, SetWindowCarries
<1>2. v = IF u.chan.throttling_conn /\ n <= w.chan.locmaxwin THEN z ELSE u
  BY DEF SshfwdUnthrottle
<1>3. v \in Works
  BY SshfwdUnthrottleKeepsBase DEF Base
<1> HIDE DEF u, v
<1>4. u \in Works
  BY <1>1 DEF Base
<1>5. CASE u.chan.throttling_conn /\ n <= w.chan.locmaxwin
  <2>1. u.chan.throttling_conn = TRUE /\ u.chan.live /\ ~u.chan.halfopen
    BY <1>1, <1>4, <1>5 DEF Windowed, Works, Chans
  <2>2. Carried(u, z)
    BY Zenon, <1>1, <2>1, ThrottleConnCarries
  <2>3. v = z
    BY <1>2, <1>5
  <2> HIDE DEF z
  <2> QED
    BY <1>0, <1>1, <1>3, <1>4, <2>2, <2>3, CarriedOn DEF v
<1>6. CASE ~(u.chan.throttling_conn /\ n <= w.chan.locmaxwin)
  <2>1. v = u
    BY <1>2, <1>6
  <2> QED
    BY <1>1, <2>1 DEF v
<1> QED
  BY <1>5, <1>6

\* ssh2_try_send_and_unthrottle
LEMMA TrySendAndUnthrottleCarries ==
  ASSUME NEW w, NEW cl, NEW sv, Base(w, cl, sv), w.chan.live, ~w.chan.halfopen,
         "SENT_EOF" \notin w.chan.closes
  PROVE  Carried(w, TrySendAndUnthrottle(w))
<1> DEFINE u == TrySend(w)
           over == u.pf.throttle_override
           z == SetFrozen([u EXCEPT !.pf.throttled = FALSE], over)
<1>1. "RCVD_CLOSE" \notin w.chan.closes /\ ~Done(w.chan) /\ w \in Works
  BY DEF Base, Sides, Done
<1>2. Base(u, cl, sv) /\ Written(w, u) /\ Carried(w, u)
  BY <1>1, TrySendKeepsBase, TrySendCarries
<1>3. TrySendAndUnthrottle(w)
        = IF u.chan.outbuffer = 0 /\ u.chan.type = "SOCKDATA" THEN z ELSE u
  <2>1. Touch(u) = u
    BY <1>2 DEF Touch, Written
  <2> HIDE DEF u
  <2>2. TrySendAndUnthrottle(w)
          = LET v == Touch(TrySend(w))
            IN IF v.chan.outbuffer = 0 /\ v.chan.type = "SOCKDATA"
               THEN SetFrozen([v EXCEPT !.pf.throttled = FALSE], v.pf.throttle_override)
               ELSE v
    BY DEF TrySendAndUnthrottle, SentEof
  <2> QED
    BY <2>1, <2>2 DEF u
<1> HIDE DEF u
<1>4. u \in Works /\ u.chan \in Chans /\ u.sock \in Socks /\ u.pf \in Pfs
  BY <1>2 DEF Base, Works
<1>5. over \in BOOLEAN
  BY <1>4 DEF Pfs
<1>6. /\ z \in Works /\ z.chan = u.chan /\ z.tx = u.tx /\ z.ssh = u.ssh /\ z.pipe = u.pipe
      /\ z.pf = [u.pf EXCEPT !.throttled = FALSE]
      /\ z.sock = [u.sock EXCEPT !.frozen = over]
  BY Zenon, <1>4, <1>5, FALSE \in BOOLEAN DEF SetFrozen, Works, Pfs, Socks
<1> HIDE DEF z
<1>7. Still(u, z)
  BY <1>4, <1>6 DEF Still, Pfs, Socks
<1>8. Carried(u, z)
  BY <1>4, <1>6, <1>7, StillCarries
<1>9. Carried(w, z)
  BY <1>1, <1>2, <1>4, <1>6, <1>8, CarriedOn
<1> QED
  BY <1>2, <1>3, <1>9

-----------------------------------------------------------------------------
(* What the local connection takes of the stream that comes down.          *)

\* What leaves the socket is in the pipe, and the pipe is shut behind all of it.
Drained(w, v) ==
  /\ v.chan = w.chan /\ v.pf = w.pf /\ v.ssh = w.ssh /\ v.tx = w.tx
  /\ v.sock.output + v.pipe.data = w.sock.output + w.pipe.data
  /\ w.pipe.data <= v.pipe.data
  /\ v.pipe.shut =>
       w.pipe.shut \/ (w.sock.outgoingeof = "PENDING" /\ v.sock.output = 0)
  /\ w.pipe.shut => v.pipe.shut

\* try_send
LEMMA TrySendSocketDrains ==
  ASSUME NEW w \in Works
  PROVE  TrySendSocket(w) \in Works /\ Drained(w, TrySendSocket(w))
<1> DEFINE s == w.sock
           n == Smaller(s.output, PipeSize - w.pipe.data)
           shuts == Shuts(s, n)
           writable == s.writable /\ s.output = n
           shut == w.pipe.shut \/ shuts
           oe == IF shuts THEN "SENT" ELSE s.outgoingeof
           a == [w EXCEPT !.sock.pending_error = TRUE]
           b == [w EXCEPT !.sock.output = @ - n,
                          !.pipe.data = @ + n,
                          !.pipe.shut = @ \/ shuts,
                          !.sock.writable = @ /\ s.output = n,
                          !.sock.outgoingeof = IF shuts THEN "SENT" ELSE @]
           v == TrySendSocket(w)
<1>0. /\ w.sock \in Socks /\ w.pipe \in Pipes /\ w.sock.output \in Nat
      /\ w.pipe.data \in 0 .. PipeSize /\ w.pipe.data \in Nat
  BY Sizes DEF Works, Socks, Pipes
<1>1. v = IF s.output > 0 /\ app.reset THEN a ELSE b
  BY DEF TrySendSocket
<1>2. /\ v \in Works /\ v.chan = w.chan /\ v.pf = w.pf /\ v.ssh = w.ssh /\ v.tx = w.tx
  BY TrySendSocketKeeps
<1>3. n \in Nat /\ s.output - n \in Nat /\ (s.output = n => s.output - n = 0)
  BY <1>0, Sizes DEF Smaller
<1>4. CASE v = a
  <2>1. v.sock.output = w.sock.output /\ v.pipe = w.pipe
    <3>1. a.sock = [w.sock EXCEPT !.pending_error = TRUE] /\ a.pipe = w.pipe
      BY <1>0 DEF Works
    <3> HIDE DEF a, v
    <3> QED
      BY <1>0, <1>4, <3>1 DEF Socks
  <2> HIDE DEF v
  <2>2. w.pipe.data <= v.pipe.data
    BY <1>0, <2>1
  <2>3. v.sock.output + v.pipe.data = w.sock.output + w.pipe.data
    BY <2>1
  <2>4. Drained(w, v)
    BY <1>2, <2>1, <2>2, <2>3 DEF Drained
  <2> QED
    BY <1>2, <2>4 DEF v
<1>5. CASE v = b
  <2>1. b = [w EXCEPT !.sock = [s EXCEPT !.output = s.output - n, !.writable = writable,
                                         !.outgoingeof = oe],
                      !.pipe = [w.pipe EXCEPT !.data = @ + n, !.shut = shut]]
    BY ZenonT(60), <1>0 DEF Works, Socks, Pipes
  <2>2. shuts => s.output = n /\ s.outgoingeof = "PENDING"
    BY DEF Shuts
  <2>3. shut <=> w.pipe.shut \/ shuts
    OBVIOUS
  <2> HIDE DEF n, shuts, writable, shut, oe, b, v
  <2>4. v.sock = [s EXCEPT !.output = s.output - n, !.writable = writable,
                           !.outgoingeof = oe]
        /\ v.pipe = [w.pipe EXCEPT !.data = @ + n, !.shut = shut]
    BY <1>5, <2>1 DEF Works
  <2>5. v.sock.output = s.output - n /\ v.pipe.data = w.pipe.data + n /\ v.pipe.shut = shut
    BY <1>0, <2>4 DEF Socks, Pipes
  <2>6. v.sock.output + v.pipe.data = w.sock.output + w.pipe.data
        /\ w.pipe.data <= v.pipe.data
    BY <1>0, <1>3, <2>5
  <2>7. v.pipe.shut =>
          w.pipe.shut \/ (w.sock.outgoingeof = "PENDING" /\ v.sock.output = 0)
    BY <1>3, <2>2, <2>3, <2>5
  <2>8. w.pipe.shut => v.pipe.shut
    BY <2>3, <2>5
  <2>9. Drained(w, v)
    BY <1>2, <2>6, <2>7, <2>8 DEF Drained
  <2> QED
    BY <1>2, <2>9 DEF v
<1> QED
  BY <1>1, <1>4, <1>5

\* ... when the socket is writable
LEMMA IfWritableDrains ==
  ASSUME NEW w \in Works
  PROVE  IfWritable(w) \in Works /\ Drained(w, IfWritable(w))
<1>1. CASE w.sock.writable
  BY <1>1, TrySendSocketDrains DEF IfWritable
<1>2. CASE ~w.sock.writable
  <2>1. w.pipe.data <= w.pipe.data
    BY Loads
  <2>2. Drained(w, w)
    BY <2>1 DEF Drained
  <2> QED
    BY <1>2, <2>2 DEF IfWritable
<1> QED
  BY <1>1, <1>2

\* The streams are what they were when the socket is drained: EOF waits in it for
\* what comes before only, and all that has come.
LEMMA DrainedStreams ==
  ASSUME NEW w \in Works, NEW v \in Works, NEW cl \in Packets(DownTypes), NEW sv \in Servers,
         NEW ap \in Apps, SentDown(w, cl, sv), w.chan.live, w.chan.type # "ZOMBIE",
         w.sock.outgoingeof = "PENDING" => "RCVD_EOF" \in w.chan.closes,
         Drained(w, v), Streams(w, cl, sv, ap)
  PROVE  Streams(v, cl, sv, ap)
<1> DEFINE wo == w.sock.output
           wd == w.pipe.data
           vo == v.sock.output
           vd == v.pipe.data
           f == InFlight(cl, "data")
           g == ap.got
           s == sv.sent
<1>1. Upwards(v, sv, ap)
  BY DEF Streams, Upwards, Drained, Load, EofSent
<1>2. /\ wo \in Nat /\ wd \in Nat /\ vo \in Nat /\ vd \in Nat /\ f \in Nat
      /\ g \in Nat /\ s \in Nat
  BY Loads, Amounts DEF Servers, Apps
<1>3. /\ vo + vd = wo + wd /\ wd <= vd
      /\ g + wd + wo + f <= s /\ s = g + wd + wo + f
      /\ w.pipe.shut => s = g + wd
  BY DEF Drained, Streams, Downwards
<1>4. w.sock.outgoingeof = "PENDING" => (sv.sentEof \/ sv.sentClose) /\ f = 0
  <2>1. w.sock.outgoingeof = "PENDING" =>
          (sv.sentEof \/ sv.sentClose) /\ Lacks(cl, {"data", "eof"})
    BY DEF SentDown
  <2>2. Lacks(cl, {"data", "eof"}) => Lacks(cl, {"data"})
    BY DEF Lacks
  <2> QED
    BY <2>1, <2>2, NoneInFlight
<1>5. /\ v.pipe.shut => w.pipe.shut \/ (w.sock.outgoingeof = "PENDING" /\ vo = 0)
      /\ w.pipe.shut => v.pipe.shut
      /\ w.pipe.shut => sv.sentEof \/ sv.sentClose
      /\ ap.sawEof => w.pipe.shut /\ wd = 0
  BY DEF Drained, Streams, Downwards
<1> HIDE DEF wo, wd, vo, vd, f, g, s
<1>6. g + vd + vo + f = s
  BY <1>2, <1>3
<1>7. w.pipe.shut => vd = wd /\ s = g + vd
  BY <1>2, <1>3
<1>8. f = 0 /\ vo = 0 => s = g + vd
  BY <1>2, <1>6
<1>9. /\ v.pipe.shut => (sv.sentEof \/ sv.sentClose) /\ s = g + vd
      /\ ap.sawEof => v.pipe.shut /\ vd = 0
  BY <1>4, <1>5, <1>7, <1>8
<1>10. g + vd + vo + f <= s
  BY <1>2, <1>6
<1>11. Downwards(v, cl, sv, ap)
  BY <1>6, <1>9, <1>10 DEF Downwards, vo, vd, f, g, s
<1> QED
  BY <1>1, <1>11 DEF Streams

\* sk_tcp_write, for what has come from the server
LEMMA SkWriteStreams ==
  ASSUME NEW w, NEW cl, NEW sv, NEW ap \in Apps, Base(w, cl, sv), w.sock.live, ~w.chan.halfopen,
         "RCVD_EOF" \notin w.chan.closes, NEW n \in Nat,
         Streams([w EXCEPT !.sock.output = @ + n], cl, sv, ap)
  PROVE  Streams(SkWrite(w, n), cl, sv, ap)
<1> DEFINE u == [w EXCEPT !.sock.output = @ + n]
           v == IfWritable(u)
<1>0. w \in Works /\ w.sock \in Socks /\ w.sock.output + n \in Nat
  BY DEF Base, Works, Socks
<1>1. w.sock.outgoingeof = "NO"
  BY DEF Base, Sides
<1>2. SkWrite(w, n) = v
  BY <1>1 DEF SkWrite, Asserting
<1>3. u \in Works /\ u.chan = w.chan /\ u.pf = w.pf /\ u.ssh = w.ssh /\ u.tx = w.tx
      /\ u.sock = [w.sock EXCEPT !.output = @ + n]
  BY <1>0 DEF Works, Socks
<1> HIDE DEF u
<1>4. v \in Works /\ Drained(u, v)
  BY <1>3, IfWritableDrains
<1> HIDE DEF v
<1>5. u.chan.live /\ u.chan.type # "ZOMBIE"
  BY <1>3 DEF Base, Sides, Forwards
<1>6. u.sock.outgoingeof = "NO"
  BY <1>0, <1>1, <1>3 DEF Socks
<1>7. SentDown(u, cl, sv)
  BY <1>3 DEF Base, SentDown, Late
<1>8. Streams(u, cl, sv, ap)
  BY DEF u
<1>9. cl \in Packets(DownTypes) /\ sv \in Servers
  BY DEF Base
<1>10. Streams(v, cl, sv, ap)
  BY Zenon, <1>3, <1>4, <1>5, <1>6, <1>7, <1>8, <1>9, DrainedStreams
<1> QED
  BY <1>2, <1>10

\* sk_tcp_write_eof
LEMMA SkWriteEofStreams ==
  ASSUME NEW w, NEW cl, NEW sv, NEW ap \in Apps, Base(w, cl, sv), w.sock.live, ~w.chan.halfopen,
         w.sock.outgoingeof = "NO", "RCVD_EOF" \in w.chan.closes, Streams(w, cl, sv, ap)
  PROVE  Streams(SkWriteEof(w), cl, sv, ap)
<1> DEFINE u == [w EXCEPT !.sock.outgoingeof = "PENDING"]
           v == IfWritable(u)
<1>0. w \in Works /\ w.sock \in Socks /\ w.chan \in Chans
  BY DEF Base, Works
<1>1. SkWriteEof(w) = v
  BY DEF SkWriteEof, Asserting
<1>2. u \in Works /\ u.chan = w.chan /\ u.pf = w.pf /\ u.ssh = w.ssh /\ u.tx = w.tx
      /\ u.sock = [w.sock EXCEPT !.outgoingeof = "PENDING"] /\ u.pipe = w.pipe
  BY <1>0 DEF Works, Socks
<1> HIDE DEF u
<1>3. v \in Works /\ Drained(u, v)
  BY <1>2, IfWritableDrains
<1> HIDE DEF v
<1>4. u.chan.live /\ u.chan.type # "ZOMBIE" /\ "RCVD_EOF" \in u.chan.closes
  BY <1>2 DEF Base, Sides, Forwards
<1>5. SentDown(u, cl, sv)
  BY <1>2 DEF Base, SentDown, Late
<1>6. cl \in Packets(DownTypes) /\ sv \in Servers /\ Sides(w)
  BY DEF Base
<1>7. Still(w, u)
  BY <1>0, <1>2 DEF Still, Socks, Chans
<1>8. Streams(u, cl, sv, ap)
  BY <1>0, <1>2, <1>6, <1>7, StillCarries, CarriedStreams
<1>9. Streams(v, cl, sv, ap)
  BY <1>2, <1>3, <1>4, <1>5, <1>6, <1>8, DrainedStreams
<1> QED
  BY <1>1, <1>9 DEF v

-----------------------------------------------------------------------------
(* The streams and what comes from the server.                             *)

\* A packet without data is taken.
LEMMA TakingStreams ==
  ASSUME NEW w, NEW q \in Packets(DownTypes), NEW sv, NEW ap, q # <<>>,
         Head(q).type # "data", Streams(w, q, sv, ap)
  PROVE  Streams(w, Tail(q), sv, ap)
<1>1. InFlight(q, "data") = (IF Head(q).type = "data" THEN Head(q).n ELSE 0)
                              + InFlight(Tail(q), "data")
      /\ Tail(q) \in Packets(DownTypes)
  BY AmountsTail
<1>2. InFlight(Tail(q), "data") \in Nat
  BY <1>1, Amounts
<1>3. InFlight(q, "data") = InFlight(Tail(q), "data")
  BY <1>1, <1>2
<1> QED
  BY <1>3 DEF Streams, Downwards

\* Data is taken, and goes to the socket of a channel that has one.
LEMMA TakingDataStreams ==
  ASSUME NEW w \in Works, NEW v \in Works, NEW q \in Packets(DownTypes), NEW sv \in Servers,
         NEW ap \in Apps, q # <<>>, Head(q).type = "data", Streams(w, q, sv, ap),
         v.chan.outbuffer = w.chan.outbuffer, v.chan.pending_eof = w.chan.pending_eof,
         v.chan.halfopen = w.chan.halfopen, v.chan.type = w.chan.type, v.chan.live = w.chan.live,
         v.pf = w.pf, v.ssh = w.ssh, v.tx = w.tx, v.pipe = w.pipe,
         \/ w.chan.type = "ZOMBIE" /\ v.sock.output = w.sock.output
         \/ v.sock.output = w.sock.output + Head(q).n
  PROVE  Streams(v, Tail(q), sv, ap)
<1> DEFINE n == Head(q).n
           f == InFlight(q, "data")
           r == InFlight(Tail(q), "data")
           wo == w.sock.output
           vo == v.sock.output
           d == w.pipe.data
           g == ap.got
           s == sv.sent
<1>1. f = (IF Head(q).type = "data" THEN Head(q).n ELSE 0) + r
      /\ Tail(q) \in Packets(DownTypes) /\ Head(q) \in [type : DownTypes, n : Nat]
  BY ZenonT(60), AmountsTail
<1>2. f = n + r
  BY <1>1
<1>3. n \in Nat /\ r \in Nat /\ wo \in Nat /\ vo \in Nat /\ d \in Nat /\ g \in Nat /\ s \in Nat
  BY Zenon, <1>1, Amounts, Loads DEF Servers, Apps
<1>4. Upwards(v, sv, ap)
  BY DEF Streams, Upwards, Load, EofSent
<1>5. /\ g + d + wo + f <= s
      /\ w.chan.live /\ w.chan.type # "ZOMBIE" => s = g + d + wo + f
      /\ w.pipe.shut => /\ sv.sentEof \/ sv.sentClose
                        /\ s = g + d
      /\ ap.sawEof => d = 0 /\ (w.pipe.shut \/ ~(w.chan.live /\ w.chan.type # "ZOMBIE"))
      /\ v.pipe.data = d
      /\ (w.chan.type = "ZOMBIE" /\ vo = wo) \/ vo = wo + n
  BY DEF Streams, Downwards
<1> HIDE DEF n, f, r, wo, vo, d, g, s
<1>6. g + d + vo + r <= s
  BY <1>2, <1>3, <1>5
<1>7. w.chan.live /\ w.chan.type # "ZOMBIE" => s = g + d + vo + r
  BY <1>2, <1>3, <1>5
<1>8. Downwards(v, Tail(q), sv, ap)
  BY <1>5, <1>6, <1>7 DEF Downwards, n, f, r, wo, vo, d, g, s
<1> QED
  BY <1>4, <1>8 DEF Streams

\* ssh2_msg_channel_data
LEMMA GotDataStreams ==
  ASSUME NEW w, NEW q, NEW sv, NEW ap, Base(w, q, sv), Others(w, sv, ap), q # <<>>,
         w.chan.live, ~w.chan.halfopen, Head(q).type = "data", Streams(w, q, sv, ap)
  PROVE  Streams(GotData(w, Head(q).n), Tail(q), sv, ap)
<1> DEFINE n == Head(q).n
           cl == Tail(q)
           a == Accounts(w, n)
           e == [a EXCEPT !.sock.output = @ + n]
           b == IF w.chan.type = "SOCKDATA" THEN SkWrite(a, n) ELSE a
           size == IF w.chan.type = "SOCKDATA" THEN b.sock.output ELSE 0
           grows == /\ b.chan.remlocwin <= 0
                    /\ b.chan.throttle_state = "UNTHROTTLED"
                    /\ b.chan.locmaxwin < MaxWin
           t == [b EXCEPT !.chan.locmaxwin = IF grows THEN @ + WinSize ELSE @]
           r == SetWindow(t, WindowFor(t, size))
           z == ThrottleConn([r EXCEPT !.chan.throttling_conn = TRUE], 1)
           v == GotData(w, n)
<1>0. /\ w \in Works /\ w.chan \in Chans
      /\ w.chan.type \in {"SOCKDATA_DORMANT", "SOCKDATA", "ZOMBIE"}
      /\ sv \in Servers /\ ap \in Apps /\ q \in Packets(DownTypes)
  BY Fields DEF Base, Others
<1>1. /\ Base(a, cl, sv) /\ a.sock = w.sock /\ a.pf = w.pf /\ a.ssh = w.ssh
      /\ a.chan = [w.chan EXCEPT !.locwindow = @ - n, !.remlocwin = @ - n]
      /\ n \in Nat /\ "RCVD_EOF" \notin w.chan.closes
  BY Zenon, TakeData
<1>2. a.tx = w.tx /\ a.pipe = w.pipe
  BY <1>0 DEF Accounts, Works
<1> HIDE DEF a
<1>3. a \in Works /\ a.sock \in Socks /\ a.sock.output + n \in Nat
  BY <1>1 DEF Base, Works, Socks
<1>4. /\ a.chan.live /\ ~a.chan.halfopen /\ a.chan.type = w.chan.type
      /\ a.chan.closes = w.chan.closes /\ a.chan.live = w.chan.live
      /\ a.chan.halfopen = w.chan.halfopen /\ a.chan.pending_eof = w.chan.pending_eof
      /\ a.chan.outbuffer = w.chan.outbuffer
  BY Zenon, <1>0, <1>1 DEF Chans
<1>5. w.chan.type # "SOCKDATA" => w.chan.type = "ZOMBIE"
  BY <1>0 DEF Base, Sides
<1>6. /\ Base(b, cl, sv) /\ b.chan = a.chan /\ Streams(b, cl, sv, ap)
  <2>1. CASE w.chan.type = "SOCKDATA"
    <3>1. /\ e \in Works /\ e.chan = a.chan /\ e.pf = a.pf /\ e.ssh = a.ssh /\ e.tx = a.tx
          /\ e.pipe = a.pipe /\ e.sock = [a.sock EXCEPT !.output = @ + n]
      BY <1>3 DEF Works, Socks
    <3>2. e.sock.output = w.sock.output + n
      <4> HIDE DEF e
      <4> QED
        BY <1>1, <1>3, <3>1 DEF Socks
    <3>3. Streams(e, cl, sv, ap)
      <4> HIDE DEF e
      <4> QED
        BY ZenonT(60), <1>0, <1>1, <1>2, <1>4, <3>1, <3>2, TakingDataStreams DEF n, cl
    <3>4. a.sock.live /\ "RCVD_EOF" \notin a.chan.closes
      BY <1>1, <1>4, <2>1 DEF Base, Sides, Forwards
    <3>5. b = SkWrite(a, n)
      BY <2>1
    <3> HIDE DEF b, n, cl
    <3>6. Base(SkWrite(a, n), cl, sv) /\ SkWrite(a, n).chan = a.chan
      BY ZenonT(60), <1>1, <1>4, <3>4, SkWriteKeepsBase
    <3>7. Streams(SkWrite(a, n), cl, sv, ap)
      BY Zenon, <1>0, <1>1, <1>4, <3>3, <3>4, SkWriteStreams
    <3> QED
      BY <3>5, <3>6, <3>7
  <2>2. CASE w.chan.type # "SOCKDATA"
    <3>1. Streams(a, cl, sv, ap)
      BY Zenon, <1>0, <1>1, <1>2, <1>3, <1>4, <1>5, <2>2, TakingDataStreams
    <3> QED
      BY <1>1, <2>2, <3>1
  <2> QED
    BY <2>1, <2>2
<1> HIDE DEF n, cl, b
<1>7. b \in Works /\ b.sock.output \in Nat /\ b.chan \in Chans /\ Sides(b)
  BY <1>6, Fields DEF Base
<1>8. size \in Nat /\ grows \in BOOLEAN
  BY <1>7
<1> HIDE DEF grows
<1>9. /\ Base(t, cl, sv) /\ t.sock = b.sock /\ t.pf = b.pf /\ t.ssh = b.ssh
      /\ t.chan = [b.chan EXCEPT !.locmaxwin = t.chan.locmaxwin]
      /\ t.tx = b.tx /\ t.pipe = b.pipe
  <2>1. t.tx = b.tx /\ t.pipe = b.pipe
    BY <1>7 DEF Works
  <2> QED
    BY <1>6, <1>8, <2>1, GrowKeepsBase
<1> HIDE DEF t
<1>10. t \in Works /\ WindowFor(t, size) \in Nat
  BY <1>8, <1>9, WindowForNat DEF Base
<1>11. t.chan.live /\ ~t.chan.halfopen /\ Still(b, t)
  BY Zenon, <1>4, <1>6, <1>7, <1>9 DEF Chans, Still
<1>12. Carried(b, t)
  BY <1>7, <1>9, <1>10, <1>11, StillCarries
<1>13. Base(r, cl, sv) /\ Windowed(t, r, WindowFor(t, size)) /\ Carried(t, r)
  BY <1>9, <1>10, <1>11, SetWindowKeepsBase, SetWindowCarries
<1> HIDE DEF r
<1>14. r \in Works /\ r.chan \in Chans
  BY <1>13 DEF Base, Works
<1>15. Carried(b, r)
  BY <1>7, <1>10, <1>12, <1>13, <1>14, CarriedOn
<1>16. v = IF size > r.chan.locmaxwin /\ ~r.chan.throttling_conn THEN z ELSE r
  <2>1. Touch(b) = b
    BY <1>4, <1>6 DEF Touch
  <2> QED
    BY ZenonT(60), <1>1, <2>1 DEF GotData, a, b, t, r, grows
<1>17. CASE ~(size > r.chan.locmaxwin /\ ~r.chan.throttling_conn)
  <2>1. v = r
    BY <1>16, <1>17
  <2>2. Streams(r, cl, sv, ap)
    BY <1>0, <1>6, <1>7, <1>14, <1>15, CarriedStreams
  <2> QED
    BY <2>1, <2>2 DEF n, cl
<1>18. CASE size > r.chan.locmaxwin /\ ~r.chan.throttling_conn
  <2>1. v = z
    BY <1>16, <1>18
  <2>2. r.chan.live /\ ~r.chan.halfopen /\ r.chan.throttling_conn # TRUE /\ TRUE \in BOOLEAN
    BY Zenon, <1>11, <1>13, <1>18 DEF Windowed
  <2> DEFINE freeze == TRUE
  <2>3. /\ Base(z, cl, sv) /\ Carried(r, z)
    <3> DEFINE y == ThrottleConn([r EXCEPT !.chan.throttling_conn = freeze],
                                 IF freeze THEN 1 ELSE -1)
    <3>1. y = z
      OBVIOUS
    <3>2. Base(y, cl, sv) /\ Carried(r, y)
      <4>1. freeze \in BOOLEAN /\ r.chan.throttling_conn # freeze
        BY Zenon, <2>2
      <4> HIDE DEF freeze
      <4> QED
        BY Zenon, <1>13, <2>2, <4>1, ThrottleConnKeepsBase, ThrottleConnCarries
    <3> QED
      BY <3>1, <3>2
  <2> HIDE DEF z
  <2>4. z \in Works
    BY <2>3 DEF Base
  <2>5. Carried(b, z)
    BY <1>7, <1>14, <1>15, <2>3, <2>4, CarriedOn
  <2>6. Streams(z, cl, sv, ap)
    BY <1>0, <1>6, <1>7, <2>4, <2>5, CarriedStreams
  <2> QED
    BY <2>1, <2>6 DEF n, cl
<1> QED
  BY <1>17, <1>18

\* The EOF of the server is noted.
LEMMA NotedKeepsBase ==
  ASSUME NEW w, NEW cl, NEW sv, Base(w, cl, sv), w.chan.live, ~w.chan.halfopen,
         "RCVD_EOF" \notin w.chan.closes,
         sv.sentEof \/ sv.sentClose, Lacks(cl, {"data", "eof"})
  PROVE  LET x == [w EXCEPT !.chan.closes = @ \cup {"RCVD_EOF"}]
         IN /\ Base(x, cl, sv) /\ Still(w, x) /\ x.tx = w.tx /\ x.sock = w.sock
            /\ x.chan.live /\ ~x.chan.halfopen /\ x.chan.type = w.chan.type
            /\ x.chan.closes = w.chan.closes \cup {"RCVD_EOF"}
<1> DEFINE x == [w EXCEPT !.chan.closes = @ \cup {"RCVD_EOF"}]
<1>0. w \in Works /\ w.chan \in Chans
  BY DEF Base, Works
<1>1. /\ x \in Works /\ x.chan = [w.chan EXCEPT !.closes = @ \cup {"RCVD_EOF"}]
      /\ x.sock = w.sock /\ x.pf = w.pf /\ x.ssh = w.ssh /\ x.tx = w.tx /\ x.pipe = w.pipe
  BY Zenon, <1>0 DEF Works, Chans
<1> HIDE DEF x
<1>2. Sides(x)
  BY <1>0, <1>1 DEF Base, Sides, Chans, Forwards
<1>3. ~Late(x) => SentUp(x, sv)
  BY <1>0, <1>1 DEF Base, SentUp, Chans, Late
<1>4. SentDown(x, cl, sv)
  BY <1>0, <1>1 DEF Base, SentDown, Chans, Late
<1>5. Opening(x, cl, sv) /\ Gone(x, cl, sv)
  BY <1>0, <1>1 DEF Base, Opening, Gone, Chans, Late
<1>6. Books(x, cl, sv)
  BY <1>0, <1>1 DEF Base, Books, Chans, RoomOf, Late
<1>7. /\ x.chan.live /\ ~x.chan.halfopen /\ x.chan.type = w.chan.type
      /\ x.chan.closes = w.chan.closes \cup {"RCVD_EOF"}
      /\ x.chan.outbuffer = w.chan.outbuffer /\ x.chan.pending_eof = w.chan.pending_eof
      /\ x.chan.halfopen = w.chan.halfopen
  BY <1>0, <1>1 DEF Chans
<1>8. Base(x, cl, sv) /\ Still(w, x)
  BY <1>1, <1>2, <1>3, <1>4, <1>5, <1>6, <1>7 DEF Base, Still
<1> QED
  BY <1>1, <1>7, <1>8 DEF x

\* ssh2_channel_got_eof
LEMMA GotEofStreams ==
  ASSUME NEW w, NEW cl, NEW sv, NEW ap, Base(w, cl, sv), Others(w, sv, ap),
         w.chan.live, ~w.chan.halfopen,
         sv.sentEof \/ sv.sentClose, Lacks(cl, {"data", "eof"}), Streams(w, cl, sv, ap)
  PROVE  Streams(GotEof(w), cl, sv, ap)
<1> DEFINE x == [w EXCEPT !.chan.closes = @ \cup {"RCVD_EOF"}]
           y == IF w.chan.type = "SOCKDATA" THEN SkWriteEof(x) ELSE x
           v == CheckClose(y)
<1>1. CASE "RCVD_EOF" \in w.chan.closes
  BY <1>1 DEF GotEof
<1>2. CASE "RCVD_EOF" \notin w.chan.closes
  <2>1. GotEof(w) = v
    BY <1>2 DEF GotEof
  <2>2. /\ Base(x, cl, sv) /\ Still(w, x) /\ x.tx = w.tx /\ x.sock = w.sock
        /\ x.chan.live /\ ~x.chan.halfopen /\ x.chan.type = w.chan.type
        /\ x.chan.closes = w.chan.closes \cup {"RCVD_EOF"}
    BY Zenon, <1>2, NotedKeepsBase
  <2> HIDE DEF x
  <2>3. /\ w \in Works /\ x \in Works /\ sv \in Servers /\ ap \in Apps /\ Sides(w)
    BY <2>2 DEF Base, Others
  <2>4. Carried(w, x)
    BY <2>2, <2>3, StillCarries
  <2>5. Streams(x, cl, sv, ap)
    BY <2>3, <2>4, CarriedStreams
  <2>6. Base(y, cl, sv) /\ y.chan = x.chan /\ Streams(y, cl, sv, ap)
    <3>1. CASE w.chan.type = "SOCKDATA"
      <4>1. y = SkWriteEof(x)
        BY <3>1
      <4>2. x.sock.live /\ x.sock.outgoingeof = "NO" /\ "RCVD_EOF" \in x.chan.closes
        <5>1. w.sock.live
          BY <3>1 DEF Base, Sides, Forwards
        <5>2. w.sock.outgoingeof # "NO" => "RCVD_EOF" \in w.chan.closes
          BY <5>1 DEF Base, Sides
        <5> QED
          BY <1>2, <2>2, <5>1, <5>2
      <4> HIDE DEF y
      <4>3. Base(SkWriteEof(x), cl, sv) /\ SkWriteEof(x).chan = x.chan
        BY <2>2, <4>2, SkWriteEofKeepsBase
      <4>4. Streams(SkWriteEof(x), cl, sv, ap)
        BY <2>2, <2>3, <2>5, <4>2, SkWriteEofStreams
      <4> QED
        BY <4>1, <4>3, <4>4
    <3>2. CASE w.chan.type # "SOCKDATA"
      BY <2>2, <2>5, <3>2
    <3> QED
      BY <3>1, <3>2
  <2> HIDE DEF y
  <2>7. y.chan.live
    BY <2>2, <2>6
  <2>8. Carried(y, v) /\ Base(v, cl, sv)
    BY <2>6, <2>7, CheckCloseCarries, CheckCloseKeepsBase
  <2> HIDE DEF v
  <2>9. Streams(v, cl, sv, ap)
    <3>1. y \in Works /\ v \in Works /\ Sides(y)
      BY <2>6, <2>8 DEF Base
    <3> QED
      BY <2>3, <2>6, <2>8, <3>1, CarriedStreams
  <2> QED
    BY <2>1, <2>9
<1> QED
  BY <1>1, <1>2

\* Once the server has closed the channel, what still waits for it may be dropped.
LEMMA DroppedStreams ==
  ASSUME NEW w \in Works, NEW v \in Works, NEW cl, NEW sv \in Servers, NEW ap \in Apps,
         sv.sentClose, Streams(w, cl, sv, ap),
         Load(v) <= Load(w), Filled(w.tx) => Filled(v.tx), v.pf.buffer = w.pf.buffer,
         v.chan.halfopen = w.chan.halfopen, v.chan.type \in {w.chan.type, "ZOMBIE"},
         v.chan.live => w.chan.live, v.pipe = w.pipe, v.sock.output = w.sock.output
  PROVE  Streams(v, cl, sv, ap)
<1> DEFINE g == sv.got
           wl == Load(w)
           vl == Load(v)
           b == w.pf.buffer
           u == ap.unread
           s == ap.sent
<1>1. g \in Nat /\ wl \in Nat /\ vl \in Nat /\ b \in Nat /\ u \in Nat /\ s \in Nat
  BY Loads DEF Servers, Apps
<1>2. g + wl + b + u <= s /\ vl <= wl
  BY DEF Streams, Upwards
<1> HIDE DEF g, wl, vl, b, u, s
<1>3. g + vl + b + u <= s
  BY <1>1, <1>2
<1>4. Upwards(v, sv, ap)
  BY <1>3 DEF Streams, Upwards, g, vl, b, u, s
<1> QED
  BY <1>4 DEF Streams, Downwards

\* Nothing is taken, sent or dropped.
LEMMA StillStreams ==
  ASSUME NEW w \in Works, NEW v \in Works, NEW cl, NEW sv \in Servers, NEW ap \in Apps,
         Sides(w), Still(w, v), v.tx = w.tx, Streams(w, cl, sv, ap)
  PROVE  Streams(v, cl, sv, ap)
<1>1. Carried(w, v)
  BY StillCarries
<1> QED
  BY <1>1, CarriedStreams

\* The list of requests has nothing to do with the streams.
LEMMA ForgetStreams ==
  ASSUME NEW w, NEW cl, NEW sv \in Servers, NEW ap \in Apps, Base(w, cl, sv),
         Streams(w, cl, sv, ap)
  PROVE  Streams(ForgetRequests(w), cl, sv, ap)
<1> DEFINE rem == w.chan.remlocwin + Total(w.chan.chanreqs)
           state == IF w.chan.throttle_state = "UNTHROTTLING" /\ w.chan.chanreqs # <<>>
                    THEN "UNTHROTTLED" ELSE w.chan.throttle_state
           v == [w EXCEPT !.chan.remlocwin = rem, !.chan.throttle_state = state,
                          !.chan.chanreqs = <<>>]
<1>0. w \in Works /\ w.chan \in Chans
  BY DEF Base, Works
<1>1. ForgetRequests(w) = IF LateReplies THEN w ELSE v
  BY DEF ForgetRequests
<1> HIDE DEF rem, state
<1>2. v.chan = [w.chan EXCEPT !.remlocwin = rem, !.throttle_state = state, !.chanreqs = <<>>]
      /\ v.pf = w.pf /\ v.sock = w.sock /\ v.ssh = w.ssh /\ v.tx = w.tx /\ v.pipe = w.pipe
  BY <1>0 DEF Works
<1> HIDE DEF v
<1>3. /\ v.chan.live = w.chan.live /\ v.chan.halfopen = w.chan.halfopen
      /\ v.chan.type = w.chan.type /\ v.chan.pending_eof = w.chan.pending_eof
      /\ v.chan.outbuffer = w.chan.outbuffer
  BY <1>0, <1>2 DEF Chans
<1>4. Streams(v, cl, sv, ap)
  BY <1>2, <1>3 DEF Streams, Upwards, Downwards, Load, EofSent
<1> QED
  BY <1>1, <1>4

\* What ssh2_msg_channel_close does with what the channel still wanted to send.
LEMMA StopSendingStreams ==
  ASSUME NEW w, NEW cl, NEW sv, NEW ap, Base(w, cl, sv), Others(w, sv, ap),
         w.chan.live, ~w.chan.halfopen, "RCVD_CLOSE" \notin w.chan.closes,
         sv.sentClose, Streams(w, cl, sv, ap)
  PROVE  Streams(StopSending(w), cl, sv, ap)
<1> DEFINE x == IF w.chan.type = "SOCKDATA" THEN OverrideThrottle(w, TRUE) ELSE w
           y == [x EXCEPT !.chan.outbuffer = 0]
           p == [y EXCEPT !.chan.pending_eof = TRUE]
           v == WriteEof(y)
<1>0. /\ w \in Works /\ w.chan \in Chans /\ w.sock \in Socks /\ w.pf \in Pfs
      /\ sv \in Servers /\ ap \in Apps
  BY DEF Base, Works, Others
<1>1. ~Done(w.chan)
  BY DEF Done
<1>2. CASE "SENT_EOF" \in w.chan.closes
  <2>1. StopSending(w) = w
    BY <1>2 DEF StopSending, SentEof
  <2> QED
    BY <2>1
<1>3. CASE "SENT_EOF" \notin w.chan.closes
  <2>1. StopSending(w) = Touch(v)
    BY <1>3 DEF StopSending, SentEof
  <2>2. /\ Base(x, cl, sv) /\ x.chan = w.chan /\ x.tx = w.tx /\ x.pipe = w.pipe
        /\ x.pf.buffer = w.pf.buffer /\ x.sock.output = w.sock.output
    <3>1. CASE w.chan.type = "SOCKDATA"
      <4>1. TRUE \in BOOLEAN
        OBVIOUS
      <4>2. /\ Base(x, cl, sv) /\ x.chan = w.chan /\ x.ssh = w.ssh
            /\ x.sock = [w.sock EXCEPT !.frozen = w.pf.throttled \/ TRUE]
            /\ x.pf = [w.pf EXCEPT !.throttle_override = TRUE]
        BY Zenon, <3>1, <4>1, OverrideKeepsBase
      <4>3. x.tx = w.tx /\ x.pipe = w.pipe
        BY <1>0, <3>1 DEF OverrideThrottle, SetFrozen, Works
      <4> HIDE DEF x
      <4> QED
        BY <1>0, <4>2, <4>3 DEF Socks, Pfs
    <3>2. CASE w.chan.type # "SOCKDATA"
      BY <3>2
    <3> QED
      BY Zenon, <3>1, <3>2
  <2> HIDE DEF x
  <2>3. x \in Works /\ x.chan \in Chans /\ 0 \in Nat
    BY <2>2 DEF Base, Works
  <2>4. /\ Base(y, cl, sv) /\ y.chan = [w.chan EXCEPT !.outbuffer = 0]
        /\ y.ssh = x.ssh /\ y.sock = x.sock /\ y.pf = x.pf
    BY <2>2, EmptyingKeepsBase
  <2>5. y.tx = w.tx /\ y.pipe = w.pipe
    BY <2>2, <2>3 DEF Works
  <2> HIDE DEF y
  <2>6. y \in Works /\ y.chan \in Chans
    BY <2>4 DEF Base, Works
  <2>7. /\ y.chan.live /\ ~y.chan.halfopen /\ y.chan.outbuffer = 0
        /\ y.chan.closes = w.chan.closes
        /\ y.chan.type = w.chan.type /\ y.chan.halfopen = w.chan.halfopen
    BY <1>0, <2>3, <2>4 DEF Chans
  <2>8. /\ p \in Works /\ p.pf = y.pf /\ p.ssh = y.ssh /\ p.sock = y.sock /\ p.tx = y.tx
        /\ p.pipe = y.pipe
        /\ p.chan = [y.chan EXCEPT !.pending_eof = TRUE]
    BY Zenon, <2>6 DEF Works, Chans
  <2>9. Carried(p, v) /\ Base(v, cl, sv) /\ v.chan.live
    <3>1. ~Done(y.chan)
      BY <1>1, <2>7 DEF Done
    <3> QED
      BY Zenon, <2>4, <2>7, <3>1, WriteEofCarries, WriteEofKeepsBase
  <2> HIDE DEF v, p
  <2>10. /\ p.chan.live /\ ~p.chan.halfopen /\ p.chan.type = w.chan.type
         /\ p.chan.outbuffer = 0 /\ p.chan.halfopen = w.chan.halfopen
    BY <2>6, <2>7, <2>8 DEF Chans
  <2>11. p.tx = w.tx /\ p.pipe = w.pipe /\ p.pf.buffer = w.pf.buffer
         /\ p.sock.output = w.sock.output
    BY <2>2, <2>4, <2>5, <2>8
  <2>12. Load(p) <= Load(w)
    <3>1. w.chan.outbuffer \in Nat /\ InFlight(w.tx, "data") \in Nat
      BY <1>0, Loads
    <3> DEFINE o == w.chan.outbuffer
               f == InFlight(w.tx, "data")
    <3>2. Load(w) = o + f /\ Load(p) = 0 + f
      BY <2>10, <2>11 DEF Load
    <3> HIDE DEF o, f
    <3>3. o \in Nat /\ f \in Nat
      BY <3>1 DEF o, f
    <3> QED
      BY <3>2, <3>3
  <2>13. v \in Works /\ Touch(v) = v
    BY <2>9 DEF Base, Touch
  <2>14. /\ Load(v) <= Load(w) /\ (Filled(w.tx) => Filled(v.tx)) /\ v.pf.buffer = w.pf.buffer
         /\ v.chan.halfopen = w.chan.halfopen /\ v.chan.type \in {w.chan.type, "ZOMBIE"}
         /\ v.pipe = w.pipe /\ v.sock.output = w.sock.output
    BY <2>9, <2>10, <2>11, <2>12 DEF Carried
  <2>15. Streams(v, cl, sv, ap)
    BY <1>0, <2>13, <2>14, DroppedStreams
  <2> QED
    BY <2>1, <2>13, <2>15
<1> QED
  BY <1>2, <1>3

\* The CLOSE of the server is noted.
LEMMA ClosedKeepsBase ==
  ASSUME NEW w, NEW cl, NEW sv, Base(w, cl, sv), w.chan.live, ~w.chan.halfopen,
         {"SENT_EOF", "RCVD_EOF"} \subseteq w.chan.closes, sv.sentClose,
         Lacks(cl, IF Late(w) THEN DownTypes \ {"reply"} ELSE DownTypes)
  PROVE  LET d == [w EXCEPT !.chan.closes = @ \cup {"RCVD_CLOSE"}]
         IN /\ Base(d, cl, sv) /\ Still(w, d) /\ d.tx = w.tx
            /\ d.chan.live /\ ~d.chan.halfopen
<1> DEFINE d == [w EXCEPT !.chan.closes = @ \cup {"RCVD_CLOSE"}]
<1>0. w \in Works /\ w.chan \in Chans
  BY DEF Base, Works
<1>1. /\ d \in Works /\ d.chan = [w.chan EXCEPT !.closes = @ \cup {"RCVD_CLOSE"}]
      /\ d.sock = w.sock /\ d.pf = w.pf /\ d.ssh = w.ssh /\ d.tx = w.tx /\ d.pipe = w.pipe
  BY Zenon, <1>0 DEF Works, Chans
<1> HIDE DEF d
<1>2. /\ d.chan.live /\ ~d.chan.halfopen
      /\ d.chan.closes = w.chan.closes \cup {"RCVD_CLOSE"}
      /\ d.chan.pending_eof = w.chan.pending_eof /\ d.chan.outbuffer = w.chan.outbuffer
      /\ d.chan.halfopen = w.chan.halfopen /\ d.chan.type = w.chan.type
  BY <1>0, <1>1 DEF Chans
<1>3. Sides(d)
  BY <1>0, <1>1 DEF Base, Sides, Chans, Forwards
<1>4. ~Late(d) => SentUp(d, sv)
  BY <1>0, <1>1 DEF Base, SentUp, Chans, Late
<1>5. SentDown(d, cl, sv)
  <2>1. Lacks(cl, IF Late(d) THEN DownTypes \ {"reply"} ELSE DownTypes)
    BY <1>1 DEF Late
  <2>2. Lacks(cl, {"data", "eof"})
    BY DEF Lacks, DownTypes
  <2>3. /\ Ordered(cl, DownOrder(Late(d)))
        /\ ~sv.sentEof => Lacks(cl, {"eof"})
        /\ sv.state # "refused" => Lacks(cl, {"failure"})
        /\ sv.state # "open" => ~sv.sentClose /\ ~sv.sentEof /\ d.chan.halfopen
    BY <1>1 DEF Base, SentDown, Late
  <2> QED
    BY <2>1, <2>2, <2>3 DEF SentDown
<1>6. Opening(d, cl, sv) /\ Gone(d, cl, sv)
  BY <1>0, <1>1 DEF Base, Opening, Gone, Chans, Late
<1>7. Books(d, cl, sv)
  BY <1>0, <1>1 DEF Base, Books, Chans, RoomOf, Late
<1>8. Base(d, cl, sv) /\ Still(w, d)
  BY <1>1, <1>2, <1>3, <1>4, <1>5, <1>6, <1>7 DEF Base, Still
<1> QED
  BY <1>1, <1>2, <1>8 DEF d

\* ssh2_msg_channel_close
LEMMA GotCloseStreams ==
  ASSUME NEW w, NEW cl, NEW sv, NEW ap, Base(w, cl, sv), Others(w, sv, ap),
         w.chan.live, ~w.chan.halfopen, "RCVD_CLOSE" \notin w.chan.closes,
         sv.sentClose,
         Lacks(cl, IF Late(w) THEN DownTypes \ {"reply"} ELSE DownTypes),
         w.ssh.remote_bugs = ssh.remote_bugs, Streams(w, cl, sv, ap)
  PROVE  Streams(GotClose(w), cl, sv, ap)
<1> DEFINE a == GotEof(w)
           b == ForgetRequests(a)
           c == StopSending(b)
           d == [c EXCEPT !.chan.closes = @ \cup {"RCVD_CLOSE"}]
           v == CheckClose(d)
<1>0. Lacks(cl, {"data", "eof"})
  BY DEF Lacks, DownTypes
<1>1. /\ Base(a, cl, sv) /\ Others(a, sv, ap)
      /\ a.chan.live /\ ~a.chan.halfopen /\ "RCVD_CLOSE" \notin a.chan.closes
      /\ "RCVD_EOF" \in a.chan.closes /\ a.ssh = w.ssh
  BY <1>0, GotEofKeeps
<1>2. Streams(a, cl, sv, ap)
  BY <1>0, GotEofStreams
<1>3. Touch(a) = a
  BY <1>1 DEF Touch
<1> HIDE DEF a
<1>4. a.chan \in Chans /\ (Late(a) <=> Late(w)) /\ sv \in Servers /\ ap \in Apps
  BY <1>1 DEF Base, Works, Late, Others
<1>5. /\ Base(b, cl, sv) /\ Others(b, sv, ap)
      /\ b.chan = [a.chan EXCEPT !.remlocwin = b.chan.remlocwin,
                                 !.throttle_state = b.chan.throttle_state,
                                 !.chanreqs = b.chan.chanreqs]
      /\ b.ssh = a.ssh
  <2>1. Lacks(cl, IF Late(a) THEN DownTypes \ {"reply"} ELSE DownTypes)
    BY <1>4
  <2> QED
    BY Zenon, <1>1, <2>1, ForgetKeeps
<1>6. Streams(b, cl, sv, ap)
  BY <1>1, <1>2, <1>4, ForgetStreams
<1> HIDE DEF b
<1>7. /\ b.chan.live /\ ~b.chan.halfopen /\ "RCVD_CLOSE" \notin b.chan.closes
      /\ "RCVD_EOF" \in b.chan.closes
  BY Zenon, <1>1, <1>4, <1>5 DEF Chans
<1>8. /\ Base(c, cl, sv)
      /\ c.chan.live /\ ~c.chan.halfopen
      /\ "SENT_EOF" \in c.chan.closes
      /\ b.chan.closes \subseteq c.chan.closes
      /\ "RCVD_CLOSE" \notin c.chan.closes /\ c.ssh = b.ssh
  BY Zenon, <1>5, <1>7, StopSendingKeeps
<1>9. Streams(c, cl, sv, ap)
  BY <1>5, <1>6, <1>7, StopSendingStreams
<1> HIDE DEF c
<1>10. Late(c) <=> Late(w)
  BY <1>1, <1>5, <1>8 DEF Late
<1>11. /\ Base(d, cl, sv) /\ Still(c, d) /\ d.tx = c.tx
       /\ d.chan.live /\ ~d.chan.halfopen
  <2>1. {"SENT_EOF", "RCVD_EOF"} \subseteq c.chan.closes
    BY <1>7, <1>8
  <2>2. Lacks(cl, IF Late(c) THEN DownTypes \ {"reply"} ELSE DownTypes)
    BY <1>10
  <2> QED
    BY Zenon, <1>8, <2>1, <2>2, ClosedKeepsBase
<1>12. GotClose(w) = v
  BY <1>3, <1>8 DEF GotClose, a, b, c, d
<1> HIDE DEF d
<1>13. c \in Works /\ d \in Works /\ Sides(c) /\ Sides(d)
  BY <1>8, <1>11 DEF Base
<1>14. Streams(d, cl, sv, ap)
  BY <1>4, <1>9, <1>11, <1>13, StillStreams
<1>15. Carried(d, v) /\ v \in Works
  BY Zenon, <1>11, CheckCloseCarries, CheckCloseKeepsBase DEF Base
<1> HIDE DEF v
<1>16. Streams(v, cl, sv, ap)
  BY <1>4, <1>13, <1>14, <1>15, CarriedStreams
<1> QED
  BY <1>12, <1>16

\* ssh2_msg_channel_window_adjust
LEMMA AdjustStreams ==
  ASSUME NEW w, NEW q, NEW sv, NEW ap, Base(w, q, sv), Others(w, sv, ap), q # <<>>,
         w.chan.live, ~w.chan.halfopen, Head(q).type = "adjust", "SENT_EOF" \notin w.chan.closes,
         Streams(w, q, sv, ap)
  PROVE  Streams(TrySendAndUnthrottle([w EXCEPT !.chan.remwindow = @ + Head(q).n]),
                 Tail(q), sv, ap)
<1> DEFINE n == Head(q).n
           cl == Tail(q)
           x == [w EXCEPT !.chan.remwindow = @ + n]
           v == TrySendAndUnthrottle(x)
<1>0. /\ w \in Works /\ w.chan \in Chans /\ q \in Packets(DownTypes) /\ Sides(w)
      /\ sv \in Servers /\ ap \in Apps
  BY DEF Base, Works, Others
<1>1. /\ Base(x, cl, sv) /\ x.sock = w.sock /\ x.pf = w.pf /\ x.ssh = w.ssh
      /\ x.chan = [w.chan EXCEPT !.remwindow = @ + n]
  BY TakeAdjust
<1>2. x.tx = w.tx /\ x.pipe = w.pipe
  BY <1>0 DEF Works
<1>3. Streams(w, cl, sv, ap)
  <2>1. Head(q).type # "data"
    OBVIOUS
  <2> QED
    BY <1>0, <2>1, TakingStreams
<1> HIDE DEF x, cl, n
<1>4. /\ x.chan.live /\ ~x.chan.halfopen /\ x.chan.closes = w.chan.closes
      /\ x.chan.type = w.chan.type /\ x.chan.live = w.chan.live
      /\ x.chan.halfopen = w.chan.halfopen
      /\ x.chan.pending_eof = w.chan.pending_eof /\ x.chan.outbuffer = w.chan.outbuffer
  BY Zenon, <1>0, <1>1 DEF Chans
<1>5. Still(w, x) /\ x \in Works /\ Sides(x)
  BY <1>1, <1>2, <1>4 DEF Still, Base
<1>6. Streams(x, cl, sv, ap)
  BY <1>0, <1>2, <1>3, <1>5, StillStreams
<1>7. Carried(x, v) /\ v \in Works
  <2>1. Held([x EXCEPT !.chan.remwindow = 0])
    <3> DEFINE o == [x EXCEPT !.chan.remwindow = 0]
    <3>1. /\ o.pf = x.pf /\ o.sock = x.sock /\ o.ssh = x.ssh
          /\ o.chan = [x.chan EXCEPT !.remwindow = 0]
      BY <1>5 DEF Works
    <3> HIDE DEF o
    <3>2. x.chan \in Chans
      BY <1>5 DEF Works
    <3>3. /\ o.chan.live = x.chan.live /\ o.chan.halfopen = x.chan.halfopen
          /\ o.chan.closes = x.chan.closes /\ o.chan.remwindow = 0
          /\ o.chan.pending_eof = x.chan.pending_eof /\ o.chan.outbuffer = x.chan.outbuffer
      BY <3>1, <3>2 DEF Chans
    <3>4. Held(o)
      BY <1>1, <1>4, <3>1, <3>3 DEF Others, Held, SentEof
    <3> QED
      BY <3>4 DEF o
  <2> QED
    BY Zenon, <1>1, <1>4, <2>1, TrySendAndUnthrottleCarries, TrySendAndUnthrottleKeepsBase DEF Base
<1> HIDE DEF v
<1>8. Streams(v, cl, sv, ap)
  BY <1>0, <1>5, <1>6, <1>7, CarriedStreams
<1> QED
  BY <1>8 DEF v, x, cl, n

\* ssh2_msg_channel_response
LEMMA ResponseStreams ==
  ASSUME NEW w, NEW q, NEW sv, NEW ap \in Apps, Base(w, q, sv), q # <<>>,
         w.chan.live, ~w.chan.halfopen, Head(q).type = "reply", Streams(w, q, sv, ap)
  PROVE  Streams(CheckClose(Answered(w)), Tail(q), sv, ap)
<1> DEFINE cl == Tail(q)
           x == Answered(w)
           v == CheckClose(x)
<1>0. w \in Works /\ w.chan \in Chans /\ q \in Packets(DownTypes) /\ Sides(w) /\ sv \in Servers
  BY DEF Base, Works
<1>1. /\ Base(x, cl, sv) /\ x.sock = w.sock /\ x.pf = w.pf /\ x.ssh = w.ssh
      /\ x.chan = [w.chan EXCEPT !.remlocwin = x.chan.remlocwin,
                                 !.throttle_state = x.chan.throttle_state,
                                 !.chanreqs = Tail(w.chan.chanreqs)]
  BY Zenon, TakeReply
<1>2. x.tx = w.tx /\ x.pipe = w.pipe
  BY <1>0 DEF Answered, Works
<1>3. Streams(w, cl, sv, ap)
  <2>1. Head(q).type # "data"
    OBVIOUS
  <2> QED
    BY <1>0, <2>1, TakingStreams
<1> HIDE DEF x, cl
<1>4. /\ x.chan.live /\ x.chan.type = w.chan.type /\ x.chan.live = w.chan.live
      /\ x.chan.halfopen = w.chan.halfopen
      /\ x.chan.pending_eof = w.chan.pending_eof /\ x.chan.outbuffer = w.chan.outbuffer
  BY Zenon, <1>0, <1>1 DEF Chans
<1>5. Still(w, x) /\ x \in Works /\ Sides(x)
  BY <1>1, <1>2, <1>4 DEF Still, Base
<1>6. Streams(x, cl, sv, ap)
  BY <1>0, <1>2, <1>3, <1>5, StillStreams
<1>7. Carried(x, v) /\ v \in Works
  BY Zenon, <1>1, <1>4, CheckCloseCarries, CheckCloseKeepsBase DEF Base
<1> HIDE DEF v
<1>8. Streams(v, cl, sv, ap)
  BY <1>0, <1>5, <1>6, <1>7, CarriedStreams
<1> QED
  BY <1>8 DEF v, x, cl

\* ssh2_msg_channel_open_failure
LEMMA FailureStreams ==
  ASSUME NEW w, NEW q, NEW sv, NEW ap, Base(w, q, sv), q # <<>>,
         w.chan.live, Head(q).type = "failure", Streams(w, q, sv, ap)
  PROVE  LET u == [w EXCEPT !.chan.live = FALSE]
             v == IF Forwards(w.chan) THEN PfdClose(u) ELSE u
         IN Streams(v, Tail(q), sv, ap)
<1> DEFINE cl == Tail(q)
           u == [w EXCEPT !.chan.live = FALSE]
           v == IF Forwards(w.chan) THEN PfdClose(u) ELSE u
<1>0. w \in Works /\ w.chan \in Chans /\ w.sock \in Socks /\ q \in Packets(DownTypes)
  BY DEF Base, Works
<1>1. Streams(w, cl, sv, ap)
  <2>1. Head(q).type # "data"
    OBVIOUS
  <2> QED
    BY <1>0, <2>1, TakingStreams
<1> HIDE DEF cl
<1>2. /\ u.chan = [w.chan EXCEPT !.live = FALSE] /\ u.sock = w.sock /\ u.pf = w.pf
      /\ u.ssh = w.ssh /\ u.tx = w.tx /\ u.pipe = w.pipe
  BY <1>0 DEF Works
<1>3. /\ v.chan = [w.chan EXCEPT !.live = FALSE] /\ v.sock.output = w.sock.output
      /\ v.pf = w.pf /\ v.ssh = w.ssh /\ v.tx = w.tx /\ v.pipe = w.pipe
  BY <1>0, <1>2 DEF PfdClose, Works, Socks
<1> HIDE DEF v
<1>4. /\ ~v.chan.live /\ v.chan.type = w.chan.type /\ v.chan.halfopen = w.chan.halfopen
      /\ v.chan.pending_eof = w.chan.pending_eof /\ v.chan.outbuffer = w.chan.outbuffer
  BY <1>0, <1>3 DEF Chans
<1>5. Streams(v, cl, sv, ap)
  BY <1>1, <1>3, <1>4 DEF Streams, Upwards, Downwards, Load, EofSent
<1> QED
  BY <1>5 DEF v, cl

\* pfd_confirm: what waited for the opening goes from the buffer of the forwarding
\* into that of the channel.
LEMMA BeginningStreams ==
  ASSUME NEW w, NEW x, NEW cl, NEW sv, NEW ap \in Apps, w \in Works, HalfOpened(w), w.chan.live,
         w.chan.type # "ZOMBIE", Base(x, cl, sv), x.sock = w.sock, x.pf = w.pf, x.ssh = w.ssh,
         x.tx = w.tx, x.pipe = w.pipe, x.chan.live, x.sock.live, ~x.chan.halfopen,
         "RCVD_EOF" \notin x.chan.closes, x.chan.type = "SOCKDATA",
         x.chan.outbuffer = 0, x.chan.pending_eof = w.chan.pending_eof, Streams(w, cl, sv, ap)
  PROVE  LET c == SetFrozen([x EXCEPT !.pf.ready = TRUE, !.pf.buffer = 0], FALSE)
             d == SkWrite(c, 0)
         IN /\ Base(d, cl, sv) /\ d.chan = x.chan
            /\ Streams([d EXCEPT !.chan.outbuffer = @ + w.pf.buffer], cl, sv, ap)
<1> DEFINE n == w.pf.buffer
           c == SetFrozen([x EXCEPT !.pf.ready = TRUE, !.pf.buffer = 0], FALSE)
           d == SkWrite(c, 0)
           a == [c EXCEPT !.chan.outbuffer = @ + n]
           b == [d EXCEPT !.chan.outbuffer = @ + n]
<1>0. /\ x \in Works /\ x.chan \in Chans /\ x.pf \in Pfs /\ x.sock \in Socks
      /\ w.chan \in Chans /\ sv \in Servers /\ cl \in Packets(DownTypes)
  BY DEF Base, Works
<1>1. n \in Nat /\ 0 \in Nat
  BY Loads
<1> HIDE DEF n
<1>2. /\ c \in Works /\ c.chan = x.chan /\ c.ssh = x.ssh /\ c.tx = x.tx /\ c.pipe = x.pipe
      /\ c.pf = [x.pf EXCEPT !.ready = TRUE, !.buffer = 0]
      /\ c.sock = [x.sock EXCEPT !.frozen = FALSE]
  BY Zenon, <1>0, FALSE \in BOOLEAN DEF SetFrozen, Works, Pfs, Socks
<1> HIDE DEF c
<1>3. /\ c.sock.live /\ c.sock.live = x.sock.live /\ c.sock.output = x.sock.output
      /\ c.sock.outgoingeof = x.sock.outgoingeof /\ c.pf.buffer = 0
      /\ c.sock.outgoingeof = "NO" /\ c.sock \in Socks
  BY Zenon, <1>0, <1>2 DEF Pfs, Socks, HalfOpened, Works
<1>4. Base(c, cl, sv)
  BY Zenon, <1>2, <1>3, SocketStepKeepsBase
<1>5. Base(d, cl, sv) /\ d.chan = c.chan
  <2>1. c.sock.live /\ ~c.chan.halfopen /\ "RCVD_EOF" \notin c.chan.closes
    BY <1>2, <1>3
  <2> QED
    BY <1>1, <1>4, <2>1, SkWriteKeepsBase
<1>6. d \in Works /\ Drained(c, d)
  <2>1. [c EXCEPT !.sock.output = @ + 0] = c
    <3>0. c.sock.output + 0 \in Nat
      BY <1>3 DEF Socks
    <3> DEFINE e == [c EXCEPT !.sock.output = @ + 0]
    <3>1. /\ e \in Works /\ e.chan = c.chan /\ e.pf = c.pf /\ e.ssh = c.ssh /\ e.tx = c.tx
          /\ e.pipe = c.pipe /\ e.fault = c.fault
          /\ e.sock = [c.sock EXCEPT !.output = @ + 0]
      BY Zenon, <1>2, <1>3, <3>0 DEF Works, Socks
    <3> HIDE DEF e
    <3>2. c.sock.output + 0 = c.sock.output
      BY <1>3 DEF Socks
    <3>3. e.sock = c.sock
      BY <1>3, <3>1, <3>2 DEF Socks
    <3>4. e = c
      BY <1>2, <3>1, <3>3, SameWork
    <3> QED
      BY <3>4 DEF e
  <2>2. d = IfWritable(c)
    BY <1>3, <2>1 DEF SkWrite, Asserting
  <2> QED
    BY <1>2, <2>2, IfWritableDrains
<1> HIDE DEF d
<1>7. /\ a \in Works /\ a.pf = c.pf /\ a.ssh = c.ssh /\ a.tx = c.tx /\ a.pipe = c.pipe
      /\ a.sock = c.sock /\ a.chan = [x.chan EXCEPT !.outbuffer = 0 + n]
      /\ b \in Works /\ b.pf = d.pf /\ b.ssh = d.ssh /\ b.tx = d.tx /\ b.pipe = d.pipe
      /\ b.sock = d.sock /\ b.chan = [x.chan EXCEPT !.outbuffer = 0 + n]
  <2>1. c.chan.outbuffer = 0 /\ d.chan.outbuffer = 0 /\ d.chan = x.chan /\ 0 + n \in Nat
    BY <1>1, <1>2, <1>5
  <2>2. /\ a \in Works /\ a.pf = c.pf /\ a.ssh = c.ssh /\ a.tx = c.tx /\ a.pipe = c.pipe
        /\ a.sock = c.sock /\ a.chan = [x.chan EXCEPT !.outbuffer = 0 + n]
    BY Zenon, <1>0, <1>2, <2>1 DEF Works, Chans
  <2>3. /\ b \in Works /\ b.pf = d.pf /\ b.ssh = d.ssh /\ b.tx = d.tx /\ b.pipe = d.pipe
        /\ b.sock = d.sock /\ b.chan = [x.chan EXCEPT !.outbuffer = 0 + n]
    BY Zenon, <1>0, <1>6, <2>1 DEF Works, Chans
  <2> QED
    BY <2>2, <2>3
<1> HIDE DEF a, b
<1>8. /\ a.chan.live /\ ~a.chan.halfopen /\ a.chan.type = "SOCKDATA" /\ a.chan.outbuffer = n
      /\ a.chan.pending_eof = w.chan.pending_eof /\ a.chan.closes = x.chan.closes
      /\ a.chan.halfopen = x.chan.halfopen
  BY <1>0, <1>1, <1>7 DEF Chans
<1>9. Drained(a, b)
  BY <1>6, <1>7 DEF Drained
<1>10. SentDown(a, cl, sv)
  BY <1>2, <1>4, <1>7, <1>8 DEF Base, SentDown, Late
<1>11. Load(a) + 0 = Load(w) + n /\ InFlight(w.tx, "data") \in Nat /\ Load(w) \in Nat
       /\ Load(a) \in Nat /\ InFlight(a.tx, "data") = InFlight(w.tx, "data")
       /\ EofSent(a) = EofSent(w) /\ Filled(a.tx) = Filled(w.tx) /\ w.tx = <<>>
  <2>1. a.tx = w.tx /\ w.tx = <<>>
    BY <1>2, <1>7 DEF HalfOpened
  <2>2. w.chan.outbuffer = 0 /\ InFlight(w.tx, "data") \in Nat /\ Load(a) \in Nat
    BY <1>7, Loads DEF HalfOpened
  <2> QED
    BY <1>1, <1>8, <2>1, <2>2 DEF Load, EofSent
<1>12. ~EofSent(w)
  <2>1. DOMAIN w.tx = {}
    BY <1>11
  <2> QED
    BY <2>1 DEF EofSent, Lacks
<1>13. Upwards(a, sv, ap)
  <2> DEFINE g == sv.got
             al == Load(a)
             wl == Load(w)
             u == ap.unread
             s == ap.sent
  <2>1. g \in Nat /\ al \in Nat /\ wl \in Nat /\ u \in Nat /\ s \in Nat /\ al + 0 = wl + n
    BY <1>0, <1>11 DEF Servers, Apps
  <2>2. /\ g + wl + n + u <= s
        /\ w.ssh.open /\ ~sv.sentClose =>
             /\ ~ap.reset => s = g + wl + n + u
             /\ w.chan.pending_eof => ap.fin /\ s = g + wl + n
    BY DEF Streams, Upwards, n
  <2> HIDE DEF g, al, wl, u, s
  <2>3. /\ g + al + 0 + u <= s
        /\ w.ssh.open /\ ~sv.sentClose =>
             /\ ~ap.reset => s = g + al + 0 + u
             /\ w.chan.pending_eof => ap.fin /\ s = g + al + 0
    BY <1>1, <2>1, <2>2
  <2>4. Filled(a.tx) /\ a.pf.buffer = 0 /\ a.ssh.open = w.ssh.open
    BY <1>2, <1>3, <1>7, <1>11 DEF Streams, Upwards
  <2> QED
    BY <1>8, <1>11, <1>12, <2>3, <2>4 DEF Upwards, g, al, u, s
<1>14. Downwards(a, cl, sv, ap)
  <2>1. a.sock.output = w.sock.output /\ a.pipe = w.pipe
    BY <1>2, <1>3, <1>7
  <2> QED
    BY <2>1 DEF Streams, Downwards
<1>15. Streams(b, cl, sv, ap)
  <2>1. a.sock.outgoingeof = "PENDING" => "RCVD_EOF" \in a.chan.closes
    BY <1>3, <1>7
  <2>2. Streams(a, cl, sv, ap)
    BY <1>13, <1>14 DEF Streams
  <2> QED
    BY Zenon, <1>0, <1>7, <1>8, <1>9, <1>10, <2>1, <2>2, DrainedStreams
<1> QED
  BY Zenon, <1>2, <1>5, <1>15 DEF b, d, c, n

\* ssh2_msg_channel_open_confirmation
LEMMA ConfirmStreams ==
  ASSUME NEW w, NEW q, NEW sv, NEW ap \in Apps, Base(w, q, sv), q # <<>>,
         w.chan.live, Head(q).type = "confirm", Streams(w, q, sv, ap)
  PROVE  Streams(Confirmed(w, Head(q).n), Tail(q), sv, ap)
<1> DEFINE n == Head(q).n
           cl == Tail(q)
           type == IF w.chan.type = "SOCKDATA_DORMANT" THEN "SOCKDATA" ELSE w.chan.type
           x == [w EXCEPT !.chan.halfopen = FALSE, !.chan.remwindow = n, !.chan.type = type]
           a == [w EXCEPT !.chan.halfopen = FALSE, !.chan.remwindow = n]
           v == Confirmed(w, n)
<1>0. /\ w \in Works /\ w.chan \in Chans /\ w.pf \in Pfs /\ w.sock \in Socks
      /\ q \in Packets(DownTypes) /\ sv \in Servers
  BY DEF Base, Works
<1>1. /\ Base(x, cl, sv) /\ x.sock = w.sock /\ x.pf = w.pf /\ x.ssh = w.ssh
      /\ x.chan = [w.chan EXCEPT !.halfopen = FALSE, !.remwindow = n, !.type = type]
      /\ w.chan.halfopen /\ HalfOpened(w) /\ n \in Nat
  BY Zenon, TakeConfirm
<1>2. Streams(w, cl, sv, ap)
  <2>1. Head(q).type # "data"
    OBVIOUS
  <2> QED
    BY <1>0, <2>1, TakingStreams
<1> HIDE DEF n, cl
<1>3. x.chan \in Chans /\ x \in Works /\ x.tx = w.tx /\ x.pipe = w.pipe /\ x.fault = w.fault
      /\ Sides(x)
  BY Zenon, <1>0, <1>1 DEF Base, Works
<1>4. /\ x.chan.live /\ ~x.chan.halfopen /\ x.chan.closes = w.chan.closes
      /\ x.chan.type = type /\ x.chan.live = w.chan.live
      /\ x.chan.pending_eof = w.chan.pending_eof /\ x.chan.outbuffer = w.chan.outbuffer
  <2> HIDE DEF x, type
  <2> QED
    BY Zenon, <1>0, <1>1 DEF Chans
<1>5. w.chan.closes = {} /\ w.chan.outbuffer = 0
  BY <1>1 DEF HalfOpened
<1>6. ASSUME w.chan.type = "ZOMBIE"
      PROVE  Streams(v, cl, sv, ap)
  <2>1. a = x
    <3>1. /\ a \in Works /\ a.sock = w.sock /\ a.pf = w.pf /\ a.ssh = w.ssh
          /\ a.tx = w.tx /\ a.pipe = w.pipe /\ a.fault = w.fault
          /\ a.chan = [w.chan EXCEPT !.halfopen = FALSE, !.remwindow = n]
      BY Zenon, <1>0, <1>1, FALSE \in BOOLEAN DEF Works, Chans
    <3>2. type = w.chan.type
      BY <1>6
    <3> HIDE DEF a, x, type
    <3>3. a.chan = x.chan
      <4>1. x.chan = [w.chan EXCEPT !.halfopen = FALSE, !.remwindow = n, !.type = w.chan.type]
        BY <1>1, <3>2
      <4>2. [w.chan EXCEPT !.halfopen = FALSE, !.remwindow = n, !.type = w.chan.type]
              = [w.chan EXCEPT !.halfopen = FALSE, !.remwindow = n]
        BY Zenon, <1>0 DEF Chans
      <4> QED
        BY <3>1, <4>1, <4>2
    <3> QED
      BY <1>1, <1>3, <3>1, <3>3, SameWork
  <2>2. Asserting(a, w.chan.type = "ZOMBIE") = a
    BY <1>6 DEF Asserting
  <2> HIDE DEF x
  <2>3. ~x.chan.pending_eof /\ x.chan.type = "ZOMBIE"
    BY <1>1, <1>4, <1>6 DEF Base, Sides
  <2>4. /\ Base(CheckClose(x), cl, sv) /\ Carried(x, CheckClose(x))
        /\ CheckClose(x).chan.pending_eof = x.chan.pending_eof
    BY Zenon, <1>1, <1>4, CheckCloseKeepsBase, CheckCloseCarries
  <2>5. v = CheckClose(x)
    BY <1>6, <2>1, <2>2, <2>3, <2>4 DEF Confirmed
  <2>6. Streams(x, cl, sv, ap)
    BY <1>1, <1>2, <1>3, <1>4, <1>6, <2>3
    DEF Streams, Upwards, Downwards, Load, EofSent
  <2>7. v \in Works
    BY <2>4, <2>5 DEF Base
  <2> HIDE DEF v
  <2> QED
    BY <1>0, <1>3, <2>4, <2>5, <2>6, <2>7, CarriedStreams
<1>7. ASSUME w.chan.type # "ZOMBIE"
      PROVE  Streams(v, cl, sv, ap)
  <2> DEFINE c == SetFrozen([x EXCEPT !.pf.ready = TRUE, !.pf.buffer = 0], FALSE)
             d == SkWrite(c, 0)
             m == w.pf.buffer
             b == [d EXCEPT !.chan.outbuffer = @ + m]
             u == IF m > 0 THEN Write(d, m) ELSE d
  <2>1. w.chan.type = "SOCKDATA_DORMANT"
    BY <1>0, <1>1, <1>7 DEF HalfOpened, Chans
  <2>2. [a EXCEPT !.chan.type = "SOCKDATA"] = x
    BY <1>0, <2>1 DEF Works, Chans
  <2>3. v = IF u.chan.pending_eof THEN TryEof(u) ELSE u
    BY <1>1, <2>1, <2>2 DEF Confirmed, PfdConfirm
  <2>4. x.sock.live /\ x.chan.type = "SOCKDATA"
    BY <1>0, <1>1, <1>4, <2>1 DEF Base, Sides, Forwards
  <2> HIDE DEF x
  <2>5. Base(d, cl, sv) /\ d.chan = x.chan /\ Streams(b, cl, sv, ap)
    BY Zenon, <1>0, <1>1, <1>2, <1>3, <1>4, <1>5, <1>7, <2>4, BeginningStreams
  <2> HIDE DEF c, d
  <2>6. /\ "SENT_EOF" \notin d.chan.closes /\ ~Done(d.chan) /\ d.chan.live /\ ~d.chan.halfopen
        /\ d.chan.outbuffer = 0 /\ d.chan \in Chans /\ d \in Works /\ Sides(d)
    BY <1>3, <1>4, <1>5, <2>5 DEF Done, Base
  <2>7. m \in Nat
    BY <1>0, Loads
  <2> HIDE DEF m
  <2>8. /\ b \in Works /\ b.chan = [d.chan EXCEPT !.outbuffer = 0 + m] /\ b.pf = d.pf
        /\ b.sock = d.sock /\ b.ssh = d.ssh /\ b.tx = d.tx /\ b.pipe = d.pipe
    <3>1. 0 + m \in Nat
      BY <2>7
    <3> QED
      BY Zenon, <2>6, <3>1 DEF Works, Chans
  <2>9. Carried(b, Write(d, m)) /\ Base(Write(d, m), cl, sv) /\ Written(d, Write(d, m))
    BY <2>5, <2>6, <2>7, WriteCarries, WriteKeepsBase
  <2> HIDE DEF b
  <2>10. Sides(b)
    BY <2>6, <2>8 DEF Sides, Chans, Forwards
  <2>11. CASE m > 0
    <3>1. u = Write(d, m)
      BY <2>11
    <3>2. Base(u, cl, sv) /\ Carried(b, u) /\ Written(d, u)
      BY <2>9, <3>1
    <3> HIDE DEF u
    <3>3. v = u
      <4>1. CASE u.chan.pending_eof
        <5>1. u.chan.outbuffer > 0
          BY <3>2, <4>1 DEF Written
        <5>2. TryEof(u) = u
          BY <4>1, <5>1 DEF TryEof, Asserting
        <5> QED
          BY <2>3, <4>1, <5>2
      <4>2. CASE ~u.chan.pending_eof
        BY <2>3, <4>2
      <4> QED
        BY <4>1, <4>2
    <3> HIDE DEF v
    <3>4. Streams(u, cl, sv, ap)
      <4>1. u \in Works
        BY <3>2 DEF Base
      <4> QED
        BY <1>0, <2>5, <2>8, <2>10, <3>2, <4>1, CarriedStreams
    <3> QED
      BY <3>3, <3>4
  <2>12. CASE ~(m > 0)
    <3>1. u = d /\ m = 0
      BY <2>7, <2>12
    <3> HIDE DEF u
    <3>2. Streams(d, cl, sv, ap)
      <4>1. /\ b.chan.live = d.chan.live /\ b.chan.halfopen = d.chan.halfopen
            /\ b.chan.type = d.chan.type /\ b.chan.pending_eof = d.chan.pending_eof
            /\ b.chan.outbuffer = d.chan.outbuffer
        <5>1. b.chan = [d.chan EXCEPT !.outbuffer = 0]
          BY <2>7, <2>8, <3>1
        <5> QED
          BY Zenon, <2>6, <5>1 DEF Chans
      <4> QED
        BY <2>5, <2>8, <4>1 DEF Streams, Upwards, Downwards, Load, EofSent
    <3>3. CASE d.chan.pending_eof
      <4> DEFINE p == [d EXCEPT !.chan.pending_eof = TRUE]
      <4>1. p = d
        BY <2>6, <3>3, PendingAgain
      <4>2. v = TryEof(p)
        BY Zenon, <2>3, <3>1, <3>3, <4>1
      <4>3. Base(TryEof(p), cl, sv) /\ Carried(p, TryEof(p))
        BY Zenon, <2>5, <2>6, EofKeepsBase, EofCarries
      <4>4. v \in Works /\ Carried(d, v)
        BY Zenon, <4>1, <4>2, <4>3 DEF Base
      <4> HIDE DEF p, v
      <4> QED
        BY <1>0, <2>6, <3>2, <4>4, CarriedStreams
    <3>4. CASE ~d.chan.pending_eof
      <4>1. v = d
        BY <2>3, <3>1, <3>4
      <4> QED
        BY <3>2, <4>1
    <3> QED
      BY <3>3, <3>4
  <2> QED
    BY <2>11, <2>12
<1> QED
  BY <1>6, <1>7 DEF v, n, cl

-----------------------------------------------------------------------------
(* Until the channel is open its socket is not read.                       *)

\* The packet that opens the channel, or ends it, has come, and is the only one.
LEMMA OpenedWaits ==
  ASSUME NEW w, NEW q, NEW sv, Base(w, q, sv), w.chan.live, q # <<>>,
         NEW v, Base(v, Tail(q), sv)
  PROVE  Waits(v)
<1> DEFINE r == Tail(q)
<1>0. /\ q \in Packets(DownTypes) /\ Ordered(q, DownOrder(Late(w))) /\ sv \in Servers
      /\ v.sock.live => v.chan.live
  BY DEF Base, SentDown, Sides
<1>1. /\ DOMAIN q = 1 .. Len(q) /\ Len(q) \in Nat \ {0} /\ r \in Seq([type : DownTypes, n : Nat])
      /\ r # <<>> => Len(q) > 1 /\ Head(r) = q[2]
  BY <1>0 DEF Packets
<1>2. r # <<>> => Head(r).type \notin {"confirm", "failure"}
  <2> SUFFICES ASSUME r # <<>> PROVE q[2].type \notin {"confirm", "failure"}
    BY Zenon, <1>1
  <2>1. 1 \in DOMAIN q /\ 2 \in DOMAIN q /\ 1 < 2
    BY <1>1
  <2>2. <<q[1].type, q[2].type>> \in DownOrder(Late(w))
    BY <1>0, <2>1 DEF Ordered
  <2> QED
    BY <2>2 DEF DownOrder
<1> HIDE DEF r
<1>3. Packet("confirm", RemWindow).type = "confirm" /\ Packet("failure", 0).type = "failure"
  BY DEF Packet
<1> SUFFICES ASSUME v.chan.halfopen, v.sock.live PROVE FALSE
  BY DEF Waits
<1>4. sv.state \in {"asked", "open", "refused"}
  BY <1>0 DEF Servers
<1>5. sv.state = "asked"
  BY <1>0, <1>2, <1>3, <1>4 DEF Base, Opening, r
<1>6. w.chan.halfopen
  BY <1>5 DEF Base, SentDown
<1> QED
  BY <1>5, <1>6 DEF Base, Opening

\* A channel that is open does not become half-open again.
LEMMA OpenWaits ==
  ASSUME NEW w, NEW cl, NEW sv, Base(w, cl, sv), ~w.chan.halfopen,
         NEW v, Base(v, cl, sv)
  PROVE  Waits(v)
<1> SUFFICES ASSUME v.chan.halfopen, v.sock.live PROVE FALSE
  BY DEF Waits
<1>1. v.chan.live /\ sv.state = "open" /\ Lacks(cl, {"confirm", "failure"})
  BY DEF Base, Sides, SentDown, Opening
<1>2. cl # <<>> /\ Head(cl) = Packet("confirm", RemWindow) /\ cl \in Packets(DownTypes)
  BY <1>1 DEF Base, Opening
<1>3. Head(cl) = cl[1] /\ 1 \in DOMAIN cl
  BY <1>2 DEF Packets
<1>4. Packet("confirm", RemWindow).type = "confirm"
  BY DEF Packet
<1> QED
  BY <1>1, <1>2, <1>3, <1>4 DEF Lacks

\* Neither does one whose socket stays as frozen as it was.
LEMMA FrozenWaits ==
  ASSUME NEW w, NEW v, Waits(w), v.chan.halfopen => w.chan.halfopen,
         v.sock.live => w.sock.live, v.sock.frozen = w.sock.frozen
  PROVE  Waits(v)
BY DEF Waits

-----------------------------------------------------------------------------
(* The messages of the local socket keep the streams.                      *)

\* What is read goes into the channel.
LEMMA ReadStreams ==
  ASSUME NEW w, NEW cl, NEW sv, NEW ap, Base(w, cl, sv), Others(w, sv, ap),
         w.sock.live, ~w.sock.frozen, Waits(w), NEW n \in 1 .. ap.unread,
         Streams(w, cl, sv, ap)
  PROVE  Streams(PfdReceive(w, n), cl, sv, [ap EXCEPT !.unread = @ - n])
<1> DEFINE u == [w EXCEPT !.chan.outbuffer = @ + n]
           x == Write(w, n)
           z == SetFrozen([x EXCEPT !.pf.throttled = TRUE], TRUE)
           left == [ap EXCEPT !.unread = @ - n]
<1>0. /\ w \in Works /\ w.chan \in Chans /\ ap \in Apps /\ sv \in Servers /\ w.chan.live
      /\ ap.unread \in Nat /\ n \in Nat /\ n > 0 /\ n <= ap.unread
      /\ w.chan.outbuffer \in Nat
  BY LiveSocket, Fields DEF Base, Others, Apps
<1>1. ~w.chan.halfopen /\ w.pf.ready
  BY <1>0 DEF Waits, Others, Held
<1>2. left \in Apps /\ left.unread = ap.unread - n /\ left.sent = ap.sent /\ left.fin = ap.fin
      /\ left.reset = ap.reset /\ left.got = ap.got /\ left.sawEof = ap.sawEof
  <2>1. ap.unread - n \in Nat
    BY <1>0
  <2> QED
    BY <1>0, <2>1 DEF Apps
<1> HIDE DEF left
<1>3. /\ u \in Works /\ u.chan = [w.chan EXCEPT !.outbuffer = @ + n] /\ u.pf = w.pf
      /\ u.sock = w.sock /\ u.ssh = w.ssh /\ u.tx = w.tx /\ u.pipe = w.pipe
  <2>1. w.chan.outbuffer + n \in Nat
    BY <1>0
  <2> QED
    BY Zenon, <1>0, <2>1 DEF Works, Chans
<1> HIDE DEF u
<1>4. /\ u.chan.live = w.chan.live /\ u.chan.halfopen = w.chan.halfopen
      /\ u.chan.type = w.chan.type /\ u.chan.closes = w.chan.closes
      /\ u.chan.chanreqs = w.chan.chanreqs /\ u.chan.pending_eof = w.chan.pending_eof
      /\ u.chan.throttling_conn = w.chan.throttling_conn
      /\ u.chan.outbuffer = w.chan.outbuffer + n
  BY Zenon, <1>0, <1>3 DEF Chans
<1>5. Sides(u)
  BY <1>1, <1>3, <1>4 DEF Base, Sides, Forwards
<1>6. Streams(u, cl, sv, left)
  <2> DEFINE g == sv.got
             o == w.chan.outbuffer
             f == InFlight(w.tx, "data")
             b == w.pf.buffer
             r == ap.unread
             s == ap.sent
  <2>1. g \in Nat /\ o \in Nat /\ f \in Nat /\ b \in Nat /\ r \in Nat /\ s \in Nat
    BY <1>0, Loads DEF Servers, Apps
  <2>2. /\ Load(w) = o + f /\ Load(u) = (o + n) + f /\ InFlight(u.tx, "data") = f
        /\ u.pf.buffer = b /\ left.unread = r - n /\ left.sent = s
        /\ EofSent(u) = EofSent(w) /\ Filled(u.tx) = Filled(w.tx)
    BY <1>2, <1>3, <1>4 DEF Load, EofSent
  <2>3. /\ g + (o + f) + b + r <= s
        /\ w.ssh.open /\ ~sv.sentClose =>
             /\ ~ap.reset => s = g + (o + f) + b + r
             /\ w.chan.pending_eof => s = g + (o + f) + b
             /\ EofSent(w) => s = g + f
    BY <2>2 DEF Streams, Upwards
  <2> HIDE DEF g, o, f, b, r, s
  <2>4. n > 0 /\ n <= r /\ n \in Nat
    BY <1>0 DEF r
  <2>5. /\ g + ((o + n) + f) + b + (r - n) <= s
        /\ w.ssh.open /\ ~sv.sentClose =>
             /\ ~ap.reset => s = g + ((o + n) + f) + b + (r - n)
             /\ ~w.chan.pending_eof /\ ~EofSent(w)
    BY <2>1, <2>3, <2>4
  <2>6. sv.got = g
    BY DEF g
  <2>7. Upwards(u, sv, left)
    BY <1>2, <1>3, <1>4, <2>2, <2>5, <2>6 DEF Streams, Upwards
  <2>8. Downwards(u, cl, sv, left)
    BY <1>2, <1>3, <1>4 DEF Streams, Downwards
  <2> QED
    BY <2>7, <2>8 DEF Streams
<1>7. Base(x, cl, sv) /\ Carried(u, x)
  <2>1. "SENT_EOF" \notin w.chan.closes \/ Late(w)
    BY <1>0 DEF Others, Settled, AppDone
  <2>2. ~Done(w.chan)
    BY <1>0 DEF Others, Settled
  <2>3. Base(x, cl, sv)
    BY <1>0, <1>1, <2>1, <2>2, WriteKeepsBase
  <2>4. Carried(u, x)
    BY <1>0, <1>1, <2>1, <2>2, WriteCarries DEF u
  <2> QED
    BY <2>3, <2>4
<1>8. PfdReceive(w, n) = IF x.chan.outbuffer > 0 THEN z ELSE x
  BY <1>1 DEF PfdReceive
<1> HIDE DEF x
<1>9. x \in Works /\ x.pf \in Pfs /\ x.sock \in Socks /\ Sides(x)
  BY <1>7 DEF Base, Works
<1>10. Streams(x, cl, sv, left)
  BY <1>0, <1>2, <1>3, <1>5, <1>6, <1>7, <1>9, CarriedStreams
<1>11. Streams(z, cl, sv, left)
  <2>1. /\ z \in Works /\ z.chan = x.chan /\ z.ssh = x.ssh /\ z.tx = x.tx /\ z.pipe = x.pipe
        /\ z.pf = [x.pf EXCEPT !.throttled = TRUE] /\ z.sock = [x.sock EXCEPT !.frozen = TRUE]
    BY Zenon, <1>9 DEF SetFrozen, Works, Pfs, Socks
  <2> HIDE DEF z
  <2>2. z.pf.buffer = x.pf.buffer /\ z.sock.output = x.sock.output
    BY <1>9, <2>1 DEF Pfs, Socks
  <2>3. Still(x, z)
    BY <2>1, <2>2 DEF Still
  <2> QED
    BY <1>0, <1>2, <1>9, <1>10, <2>1, <2>3, StillStreams
<1> QED
  BY Zenon, <1>8, <1>10, <1>11 DEF left

\* What an end finds unread is read before it, unless a reset has lost it.
LEMMA DrainsStreams ==
  ASSUME NEW w, NEW cl, NEW sv, NEW ap, Base(w, cl, sv), Others(w, sv, ap),
         w.sock.live, ap.unread = 0 \/ ~w.sock.frozen, Waits(w), Streams(w, cl, sv, ap)
  PROVE  /\ Streams(Drains(w, ap.unread), cl, sv, [ap EXCEPT !.unread = 0])
         /\ Waits(Drains(w, ap.unread))
<1>1. ap \in Apps /\ ap.unread \in Nat
  BY DEF Others, Apps
<1>2. CASE ap.unread > 0
  <2>1. ap.unread \in 1 .. ap.unread /\ ~w.sock.frozen /\ ap.unread - ap.unread = 0
    BY <1>1, <1>2
  <2>2. [ap EXCEPT !.unread = @ - ap.unread] = [ap EXCEPT !.unread = 0]
    BY <1>1, <2>1 DEF Apps
  <2>3. Drains(w, ap.unread) = PfdReceive(w, ap.unread)
    BY <1>2 DEF Drains
  <2>4. Streams(PfdReceive(w, ap.unread), cl, sv, [ap EXCEPT !.unread = @ - ap.unread])
    BY <2>1, ReadStreams
  <2>5. Base(PfdReceive(w, ap.unread), cl, sv)
    BY <2>1, ReadKeeps
  <2>6. ~w.chan.halfopen
    BY <2>1 DEF Waits
  <2>7. Waits(PfdReceive(w, ap.unread))
    BY <2>5, <2>6, OpenWaits
  <2> QED
    BY <2>2, <2>3, <2>4, <2>7
<1>3. CASE ~(ap.unread > 0)
  <2>1. ap.unread = 0
    BY <1>1, <1>3
  <2>2. [ap EXCEPT !.unread = 0] = ap
    BY <1>1, <2>1 DEF Apps
  <2> QED
    BY <1>3, <2>2 DEF Drains
<1> QED
  BY <1>2, <1>3

\* A connection that was reset loses what was still to be read, and its streams are cut anyway.
LEMMA LostStreams ==
  ASSUME NEW w \in Works, NEW cl, NEW sv \in Servers, NEW ap \in Apps, ap.reset,
         Streams(w, cl, sv, ap)
  PROVE  Streams(w, cl, sv, [ap EXCEPT !.unread = 0])
<1> DEFINE none == [ap EXCEPT !.unread = 0]
           g == sv.got
           l == Load(w)
           b == w.pf.buffer
           r == ap.unread
           s == ap.sent
<1>1. /\ none.unread = 0 /\ none.sent = s /\ none.fin = ap.fin /\ none.reset
      /\ none.got = ap.got /\ none.sawEof = ap.sawEof
  BY DEF Apps
<1>2. g \in Nat /\ l \in Nat /\ b \in Nat /\ r \in Nat /\ s \in Nat
  BY Loads DEF Servers, Apps
<1>3. g + l + b + r <= s
  BY DEF Streams, Upwards
<1> HIDE DEF none, g, l, b, r
<1>4. g + l + b + 0 <= s
  BY <1>2, <1>3
<1>5. Upwards(w, sv, none)
  BY <1>1, <1>4 DEF Streams, Upwards, g, l, b
<1>6. Downwards(w, cl, sv, none)
  BY <1>1 DEF Streams, Downwards
<1> QED
  BY <1>5, <1>6 DEF Streams, none

\* What is written to the local connection comes from the socket.
LEMMA SentStreams ==
  ASSUME NEW w, NEW cl, NEW sv, NEW ap, Base(w, cl, sv), Others(w, sv, ap),
         w.sock.live, ~w.sock.writable, Streams(w, cl, sv, ap)
  PROVE  Streams(Sent(w), cl, sv, ap)
<1> DEFINE x == [w EXCEPT !.sock.writable = TRUE]
           u == TrySendSocket(x)
           z == SshfwdUnthrottle(u, u.sock.output)
<1>0. /\ w \in Works /\ w.chan \in Chans /\ w.sock \in Socks /\ w.chan.live
      /\ w.chan.type # "ZOMBIE" /\ sv \in Servers /\ ap \in Apps /\ cl \in Packets(DownTypes)
      /\ Sides(w) /\ SentDown(w, cl, sv)
  BY LiveSocket DEF Base, Works, Others
<1>1. ~w.chan.halfopen
  BY DEF Base, Sides, HalfOpened
<1>2. /\ x \in Works /\ x.chan = w.chan /\ x.pf = w.pf /\ x.ssh = w.ssh /\ x.tx = w.tx
      /\ x.pipe = w.pipe /\ x.sock = [w.sock EXCEPT !.writable = TRUE]
  BY Zenon, <1>0 DEF Works, Socks
<1>5. Sent(w) = IF u.sock.output < w.sock.output THEN z ELSE u
  BY DEF Sent
<1> HIDE DEF x
<1>3. /\ x.sock.live = w.sock.live /\ x.sock.frozen = w.sock.frozen
      /\ x.sock.output = w.sock.output /\ x.sock.outgoingeof = w.sock.outgoingeof
  BY Zenon, <1>0, <1>2 DEF Socks
<1>4. /\ u \in Works /\ u.chan = x.chan /\ u.pf = x.pf /\ u.ssh = x.ssh /\ u.tx = x.tx
      /\ u.sock.live = x.sock.live /\ u.sock.frozen = x.sock.frozen
      /\ u.sock.output <= x.sock.output
      /\ u.sock.outgoingeof = "NO" <=> x.sock.outgoingeof = "NO"
  BY Zenon, <1>2, TrySendSocketKeeps
<1>6. Streams(x, cl, sv, ap)
  <2>1. Still(w, x)
    BY <1>2, <1>3 DEF Still
  <2> QED
    BY <1>0, <1>2, <2>1, StillStreams
<1>7. Drained(x, u)
  BY <1>2, TrySendSocketDrains
<1> HIDE DEF u
<1>8. Streams(u, cl, sv, ap)
  <2>1. SentDown(x, cl, sv)
    BY <1>0, <1>2 DEF SentDown, Late
  <2>2. x.sock.outgoingeof = "PENDING" => "RCVD_EOF" \in x.chan.closes
    BY <1>0, <1>2, <1>3 DEF Sides
  <2>3. x.chan.live /\ x.chan.type # "ZOMBIE"
    BY <1>0, <1>2
  <2> QED
    BY Zenon, <1>0, <1>2, <1>4, <1>6, <1>7, <2>1, <2>2, <2>3, DrainedStreams
<1>9. Base(u, cl, sv)
  <2>1. u.sock.live /\ u.sock.outgoingeof # "NO" => "RCVD_EOF" \in w.chan.closes
    BY <1>2, <1>3, <1>4 DEF Base, Sides
  <2> QED
    BY <1>1, <1>2, <1>3, <1>4, <2>1, SocketStepKeepsBase
<1>10. Streams(z, cl, sv, ap)
  <2>1. u.chan.live /\ ~u.chan.halfopen /\ u.sock.output \in Nat
    BY <1>0, <1>1, <1>2, <1>4, Fields
  <2>2. Base(z, cl, sv) /\ Carried(u, z)
    BY <1>9, <2>1, SshfwdUnthrottleKeepsBase, SshfwdUnthrottleCarries
  <2> HIDE DEF z
  <2>3. z \in Works /\ Sides(u)
    BY <1>9, <2>2 DEF Base
  <2> QED
    BY <1>0, <1>4, <1>8, <2>2, <2>3, CarriedStreams
<1> QED
  BY <1>5, <1>8, <1>10

\* EOF comes behind everything that was read.
LEMMA WriteEofStreams ==
  ASSUME NEW w, NEW cl, NEW sv, NEW ap, Base(w, cl, sv), Others(w, sv, ap),
         w.sock.live, ap.unread = 0, ap.fin, ~ap.reset, Streams(w, cl, sv, ap)
  PROVE  Streams(WriteEof(w), cl, sv, ap)
<1> DEFINE p == [w EXCEPT !.chan.pending_eof = TRUE]
           v == WriteEof(w)
<1>0. /\ w \in Works /\ w.chan \in Chans /\ w.chan.live /\ w.chan.type # "ZOMBIE"
      /\ ~Done(w.chan) /\ sv \in Servers /\ ap \in Apps
  BY LiveSocket, Fields DEF Base, Others, Settled
<1>1. CASE SentEof(w.chan)
  BY <1>1 DEF WriteEof
<1>2. CASE ~SentEof(w.chan)
  <2>1. /\ p \in Works /\ p.pf = w.pf /\ p.ssh = w.ssh /\ p.sock = w.sock /\ p.tx = w.tx
        /\ p.pipe = w.pipe /\ p.chan = [w.chan EXCEPT !.pending_eof = TRUE]
    BY Zenon, <1>0 DEF Works, Chans
  <2>2. Carried(p, v) /\ Base(v, cl, sv)
    BY <1>0, WriteEofCarries, WriteEofKeepsBase
  <2> HIDE DEF p, v
  <2>3. /\ p.chan.live = w.chan.live /\ p.chan.halfopen = w.chan.halfopen
        /\ p.chan.type = w.chan.type /\ p.chan.closes = w.chan.closes
        /\ p.chan.chanreqs = w.chan.chanreqs /\ p.chan.outbuffer = w.chan.outbuffer
        /\ p.chan.throttling_conn = w.chan.throttling_conn
    BY Zenon, <1>0, <2>1 DEF Chans
  <2>4. Sides(p)
    BY <1>0, <1>2, <2>1, <2>3 DEF Base, Sides, Forwards, HalfOpened, SentEof
  <2>5. Load(p) = Load(w) /\ EofSent(p) = EofSent(w) /\ p.pf.buffer = w.pf.buffer
        /\ InFlight(p.tx, "data") = InFlight(w.tx, "data") /\ Filled(p.tx) = Filled(w.tx)
    BY <2>1, <2>3 DEF Load, EofSent
  <2>6. w.ssh.open /\ ~sv.sentClose => ap.sent = sv.got + Load(w) + w.pf.buffer
    <3> DEFINE g == sv.got
               l == Load(w)
               b == w.pf.buffer
    <3>1. g \in Nat /\ l \in Nat /\ b \in Nat
      BY <1>0, Loads DEF Servers
    <3>2. w.ssh.open /\ ~sv.sentClose => ap.sent = g + l + b + 0
      BY DEF Streams, Upwards
    <3> HIDE DEF g, l, b
    <3>3. w.ssh.open /\ ~sv.sentClose => ap.sent = g + l + b
      BY <3>1, <3>2
    <3> QED
      BY <3>3 DEF g, l, b
  <2>7. Upwards(p, sv, ap)
    BY <2>1, <2>3, <2>5, <2>6 DEF Streams, Upwards
  <2>8. Downwards(p, cl, sv, ap)
    BY <2>1, <2>3 DEF Streams, Downwards
  <2>9. Streams(p, cl, sv, ap) /\ v \in Works
    BY <2>2, <2>7, <2>8 DEF Streams, Base
  <2>10. Streams(v, cl, sv, ap)
    BY <1>0, <2>1, <2>2, <2>4, <2>9, CarriedStreams
  <2> QED
    BY <2>10 DEF v
<1> QED
  BY <1>1, <1>2

\* A local connection that failed leaves what was read from it.
LEMMA UncleanCloseStreams ==
  ASSUME NEW w, NEW cl, NEW sv, NEW ap \in Apps, Base(w, cl, sv), w.sock.live,
         Streams(w, cl, sv, ap)
  PROVE  Streams(UncleanClose(w), cl, sv, ap)
<1> DEFINE v == UncleanClose(w)
<1>0. w \in Works /\ w.chan.live /\ sv \in Servers /\ Sides(w)
  BY LiveSocket DEF Base
<1>1. Base(v, cl, sv) /\ Carried(w, v)
  BY <1>0, UncleanCloseKeepsBase, UncleanCloseCarries
<1> HIDE DEF v
<1>2. v \in Works
  BY <1>1 DEF Base
<1>3. Streams(v, cl, sv, ap)
  BY <1>0, <1>1, <1>2, CarriedStreams
<1> QED
  BY <1>3 DEF v

\* Throttling sends nothing.
LEMMA ThrottleAllStreams ==
  ASSUME NEW w, NEW cl, NEW sv, NEW ap \in Apps, Base(w, cl, sv), Waits(w),
         NEW enable \in BOOLEAN, w.chan = chan, Streams(w, cl, sv, ap)
  PROVE  Streams(ThrottleAll(w, enable), cl, sv, ap) /\ Waits(ThrottleAll(w, enable))
<1> DEFINE x == [w EXCEPT !.ssh.throttled_all = enable]
           z == OverrideThrottle(x, enable)
<1>0. /\ w \in Works /\ w.ssh \in Sshs /\ w.sock \in Socks /\ w.pf \in Pfs /\ sv \in Servers
      /\ Sides(w)
  BY DEF Base, Works
<1>1. /\ x \in Works /\ x.chan = w.chan /\ x.pf = w.pf /\ x.sock = w.sock /\ x.tx = w.tx
      /\ x.pipe = w.pipe /\ x.ssh = [w.ssh EXCEPT !.throttled_all = enable]
  BY <1>0 DEF Works, Sshs
<1>2. ThrottleAll(w, enable) = IF w.chan.live /\ w.chan.type = "SOCKDATA" THEN z ELSE x
  BY DEF ThrottleAll
<1> HIDE DEF x
<1>3. x.ssh.open = w.ssh.open
  BY <1>0, <1>1 DEF Sshs
<1>4. Streams(x, cl, sv, ap) /\ Waits(x)
  <2>1. Still(w, x)
    BY <1>1, <1>3 DEF Still
  <2> QED
    BY <1>0, <1>1, <2>1, StillStreams DEF Waits
<1>5. CASE w.chan.live /\ w.chan.type = "SOCKDATA"
  <2>1. ~w.chan.halfopen
    BY <1>0, <1>5 DEF Sides, HalfOpened
  <2>2. x.pf.throttled \/ enable \in BOOLEAN
    BY <1>0, <1>1 DEF Pfs
  <2>3. /\ z \in Works /\ z.chan = x.chan /\ z.ssh = x.ssh /\ z.tx = x.tx /\ z.pipe = x.pipe
        /\ z.sock = [x.sock EXCEPT !.frozen = x.pf.throttled \/ enable]
        /\ z.pf = [x.pf EXCEPT !.throttle_override = enable]
    BY ZenonT(60), <1>0, <1>1, <2>2 DEF OverrideThrottle, SetFrozen, Works, Pfs, Socks
  <2> HIDE DEF z
  <2>4. z.pf.buffer = x.pf.buffer /\ z.sock.output = x.sock.output
    BY <1>0, <1>1, <2>3 DEF Pfs, Socks
  <2>5. Still(w, z) /\ z.tx = w.tx
    BY <1>1, <1>3, <2>3, <2>4 DEF Still
  <2>6. Streams(z, cl, sv, ap) /\ Waits(z)
    BY <1>0, <1>1, <2>1, <2>3, <2>5, StillStreams DEF Waits
  <2> QED
    BY <1>2, <1>5, <2>6
<1> QED
  BY <1>2, <1>4, <1>5

-----------------------------------------------------------------------------
(* Every action of PuTTY keeps the streams.                                *)

\* A handler that leaves the streams whole leaves the variables so.
LEMMA BecomingFlows ==
  ASSUME NEW w \in Works, Become(w), Streams(w, toClient', server', app'), Waits(w)
  PROVE  Flows'
<1>1. Now' = w
  BY DEF Now, Works, Become
<1>2. Streams(Now', toClient', server', app') /\ Waits(Now')
  BY <1>1
<1> QED
  BY <1>2 DEF Flows

\* So does one that was run for an event of this side.
LEMMA LocalFlows ==
  ASSUME NEW w, LocalStep(w), Base(w, toClient, server), Streams(w, toClient, server, app'),
         Waits(w)
  PROVE  Flows'
<1>1. Become(w) /\ toClient' = toClient /\ server' = server
  BY DEF LocalStep
<1>2. Streams(w, toClient', server', app') /\ w \in Works
  BY <1>1 DEF Base
<1> QED
  BY <1>1, <1>2, BecomingFlows

\* So does one that was run for a packet, which it has taken.
LEMMA HandlingFlows ==
  ASSUME NEW w, Handled(w), Base(w, Tail(toClient), server), Others(w, server, app),
         Streams(w, Tail(toClient), server, app), Waits(w)
  PROVE  Flows'
<1> DEFINE b == w.ssh.queued > 0 /\ w.ssh.conn_throttle_count = 0
           v == [w EXCEPT !.ssh.reading = b]
<1>1. w \in Works /\ w.ssh \in Sshs /\ server \in Servers /\ app \in Apps /\ Sides(w)
  BY DEF Base, Works, Others
<1>2. b \in BOOLEAN
  OBVIOUS
<1>3. Become(v) /\ toClient' = Tail(toClient) /\ app' = app /\ server' = server
  BY DEF Handled
<1> HIDE DEF b
<1>4. /\ v \in Works /\ v.chan = w.chan /\ v.pf = w.pf /\ v.sock = w.sock /\ v.tx = w.tx
      /\ v.pipe = w.pipe /\ v.ssh = [w.ssh EXCEPT !.reading = b]
  BY <1>1, <1>2 DEF Works, Sshs
<1> HIDE DEF v
<1>5. v.ssh.open = w.ssh.open
  BY <1>1, <1>4 DEF Sshs
<1>6. Streams(v, Tail(toClient), server, app)
  <2>1. Still(w, v)
    BY <1>4, <1>5 DEF Still
  <2> QED
    BY <1>1, <1>4, <2>1, StillStreams
<1>7. Waits(v)
  BY <1>4 DEF Waits
<1> QED
  BY <1>3, <1>4, <1>6, <1>7, BecomingFlows

\* Going on in the chunk.
LEMMA TakingFlows ==
  ASSUME IndInv, Flows, NEW left \in Left, Takes
  PROVE  LET w == Taking(left)
         IN /\ Base(w, toClient, server) /\ Others(w, server, app)
            /\ w.chan = chan /\ w.ssh.remote_bugs = ssh.remote_bugs
            /\ toClient # <<>> /\ toClient \in Packets(DownTypes) /\ app \in Apps
            /\ Streams(w, toClient, server, app)
<1> DEFINE w == Taking(left)
<1>1. /\ Base(w, toClient, server) /\ Others(w, server, app)
      /\ w.chan = chan /\ w.ssh.remote_bugs = ssh.remote_bugs
      /\ toClient # <<>>
  BY TakingIs
<1>2. /\ Now \in Works /\ ssh \in Sshs /\ server \in Servers /\ app \in Apps
      /\ Base(Now, toClient, server)
  BY InvHolds
<1>3. /\ w.chan = Now.chan /\ w.pf = Now.pf /\ w.sock = Now.sock /\ w.tx = Now.tx
      /\ w.pipe = Now.pipe /\ w.ssh = [ssh EXCEPT !.queued = left]
  BY DEF Taking, Now
<1> HIDE DEF w
<1>4. w.ssh.open = Now.ssh.open
  BY <1>2, <1>3, NowIs DEF Sshs
<1>5. Still(Now, w)
  BY <1>3, <1>4 DEF Still
<1>6. w \in Works /\ Sides(Now) /\ toClient \in Packets(DownTypes)
  BY <1>1, <1>2 DEF Base
<1>7. Streams(w, toClient, server, app)
  BY <1>2, <1>3, <1>5, <1>6, StillStreams DEF Flows
<1> QED
  BY <1>1, <1>2, <1>6, <1>7 DEF w

\* The handlers of packets.
LEMMA ReceivingFlows ==
  ASSUME IndInv, Flows, Receive
  PROVE  Flows'
<1>1. CASE OpenConfirmation
  <2>1. PICK left \in Left : Handled(Confirmed(Taking(left), Head(toClient).n))
    BY <1>1 DEF OpenConfirmation
  <2>2. Takes /\ Head(toClient).type = "confirm" /\ chan.live
    BY <1>1 DEF OpenConfirmation, Arrives, Knows
  <2> DEFINE w == Taking(left)
             v == Confirmed(w, Head(toClient).n)
  <2>3. /\ Base(w, toClient, server) /\ Others(w, server, app)
        /\ w.chan = chan /\ toClient # <<>> /\ app \in Apps
        /\ Streams(w, toClient, server, app)
    BY <2>2, TakingFlows
  <2>4. Handled(v)
    BY <2>1
  <2> HIDE DEF w
  <2>5. Base(v, Tail(toClient), server) /\ Others(v, server, app)
    BY <2>2, <2>3, ConfirmKeeps
  <2>6. Streams(v, Tail(toClient), server, app)
    BY <2>2, <2>3, ConfirmStreams
  <2> HIDE DEF v
  <2>7. Waits(v)
    BY <2>2, <2>3, <2>5, OpenedWaits
  <2> QED
    BY <2>4, <2>5, <2>6, <2>7, HandlingFlows
<1>2. CASE OpenFailure
  <2>1. PICK left \in Left :
          LET w == [Taking(left) EXCEPT !.chan.live = FALSE]
          IN Handled(IF Forwards(chan) THEN PfdClose(w) ELSE w)
    BY Zenon, <1>2 DEF OpenFailure
  <2>2. Takes /\ Head(toClient).type = "failure" /\ chan.live
    BY <1>2 DEF OpenFailure, Arrives, Knows
  <2> DEFINE w == Taking(left)
             u == [w EXCEPT !.chan.live = FALSE]
             v == IF Forwards(w.chan) THEN PfdClose(u) ELSE u
  <2>3. /\ Base(w, toClient, server) /\ Others(w, server, app)
        /\ w.chan = chan /\ toClient # <<>>
        /\ Streams(w, toClient, server, app)
    BY <2>2, TakingFlows
  <2>4. Handled(v)
    BY <2>1, <2>3
  <2> HIDE DEF w
  <2>5. Base(v, Tail(toClient), server) /\ Others(v, server, app)
    BY <2>2, <2>3, FailureKeeps
  <2>6. Streams(v, Tail(toClient), server, app)
    BY <2>2, <2>3, FailureStreams
  <2> HIDE DEF v
  <2>7. Waits(v)
    BY <2>2, <2>3, <2>5, OpenedWaits
  <2> QED
    BY <2>4, <2>5, <2>6, <2>7, HandlingFlows
<1>3. CASE WindowAdjust
  <2>1. PICK left \in Left :
          Handled(IF SentEof(chan) THEN Taking(left)
                  ELSE TrySendAndUnthrottle([Taking(left)
                         EXCEPT !.chan.remwindow = @ + Head(toClient).n]))
    BY <1>3 DEF WindowAdjust
  <2>2. Takes /\ Head(toClient).type = "adjust" /\ chan.live /\ ~chan.halfopen
    BY <1>3 DEF WindowAdjust, Arrives, Knows
  <2> DEFINE w == Taking(left)
             u == TrySendAndUnthrottle([w EXCEPT !.chan.remwindow = @ + Head(toClient).n])
  <2>3. /\ Base(w, toClient, server) /\ Others(w, server, app)
        /\ w.chan = chan /\ toClient # <<>> /\ toClient \in Packets(DownTypes)
        /\ Streams(w, toClient, server, app)
    BY <2>2, TakingFlows
  <2>4. Handled(IF SentEof(chan) THEN w ELSE u)
    BY <2>1
  <2> HIDE DEF w
  <2>5. CASE SentEof(chan)
    <3>1. Base(w, Tail(toClient), server)
      BY <2>2, <2>3, <2>5, TakeOther DEF SentEof
    <3>2. Streams(w, Tail(toClient), server, app)
      BY <2>2, <2>3, TakingStreams
    <3>3. Waits(w)
      BY <2>2, <2>3, <3>1, OpenedWaits
    <3> QED
      BY <2>3, <2>4, <2>5, <3>1, <3>2, <3>3, HandlingFlows
  <2>6. CASE ~SentEof(chan)
    <3>1. Base(u, Tail(toClient), server) /\ Others(u, server, app)
      BY <2>2, <2>3, <2>6, AdjustKeeps DEF SentEof
    <3>2. Streams(u, Tail(toClient), server, app)
      BY <2>2, <2>3, <2>6, AdjustStreams DEF SentEof
    <3> HIDE DEF u
    <3>3. Waits(u)
      BY <2>2, <2>3, <3>1, OpenedWaits
    <3> QED
      BY <2>4, <2>6, <3>1, <3>2, <3>3, HandlingFlows
  <2> QED
    BY <2>5, <2>6
<1>4. CASE ChannelData
  <2>1. PICK left \in Left : Handled(GotData(Taking(left), Head(toClient).n))
    BY <1>4 DEF ChannelData
  <2>2. Takes /\ Head(toClient).type = "data" /\ chan.live /\ ~chan.halfopen
    BY <1>4 DEF ChannelData, Arrives, Knows
  <2> DEFINE w == Taking(left)
             v == GotData(w, Head(toClient).n)
  <2>3. /\ Base(w, toClient, server) /\ Others(w, server, app)
        /\ w.chan = chan /\ toClient # <<>>
        /\ Streams(w, toClient, server, app)
    BY <2>2, TakingFlows
  <2>4. Handled(v)
    BY <2>1
  <2> HIDE DEF w
  <2>5. Base(v, Tail(toClient), server) /\ Others(v, server, app)
    BY <2>2, <2>3, GotDataKeeps
  <2>6. Streams(v, Tail(toClient), server, app)
    BY <2>2, <2>3, GotDataStreams
  <2> HIDE DEF v
  <2>7. Waits(v)
    BY <2>2, <2>3, <2>5, OpenedWaits
  <2> QED
    BY <2>4, <2>5, <2>6, <2>7, HandlingFlows
<1>5. CASE ChannelResponse
  <2>1. PICK left \in Left :
          Handled(IF chan.chanreqs = <<>> THEN Fail(Taking(left), "unexpected")
                  ELSE CheckClose(Answered(Taking(left))))
    BY <1>5 DEF ChannelResponse
  <2>2. Takes /\ Head(toClient).type = "reply" /\ chan.live /\ ~chan.halfopen
    BY <1>5 DEF ChannelResponse, Arrives, Knows
  <2> DEFINE w == Taking(left)
             v == CheckClose(Answered(w))
  <2>3. /\ Base(w, toClient, server) /\ Others(w, server, app)
        /\ w.chan = chan /\ toClient # <<>> /\ app \in Apps
        /\ Streams(w, toClient, server, app)
    BY <2>2, TakingFlows
  <2>4. Handled(IF chan.chanreqs = <<>> THEN Fail(w, "unexpected") ELSE v)
    BY <2>1
  <2> HIDE DEF w
  <2>5. /\ Base(v, Tail(toClient), server) /\ Others(v, server, app)
        /\ w.chan.chanreqs # <<>>
    BY <2>2, <2>3, ResponseKeeps
  <2>6. Streams(v, Tail(toClient), server, app)
    BY <2>2, <2>3, ResponseStreams
  <2> HIDE DEF v
  <2>7. Waits(v)
    BY <2>2, <2>3, <2>5, OpenedWaits
  <2> QED
    BY <2>3, <2>4, <2>5, <2>6, <2>7, HandlingFlows
<1>6. CASE ChannelEof
  <2>1. PICK left \in Left : Handled(GotEof(Taking(left)))
    BY <1>6 DEF ChannelEof
  <2>2. Takes /\ Head(toClient).type = "eof" /\ chan.live /\ ~chan.halfopen
    BY <1>6 DEF ChannelEof, Arrives, Knows
  <2> DEFINE w == Taking(left)
             v == GotEof(w)
  <2>3. /\ Base(w, toClient, server) /\ Others(w, server, app)
        /\ w.chan = chan /\ toClient # <<>> /\ toClient \in Packets(DownTypes)
        /\ Streams(w, toClient, server, app)
    BY <2>2, TakingFlows
  <2>4. Handled(v)
    BY <2>1
  <2> HIDE DEF w
  <2>5. /\ Base(w, Tail(toClient), server)
        /\ "RCVD_CLOSE" \notin w.chan.closes
        /\ server.sentEof /\ Lacks(Tail(toClient), {"data", "eof"})
    BY <2>2, <2>3, TakeOther
  <2>6. Streams(w, Tail(toClient), server, app)
    BY <2>2, <2>3, TakingStreams
  <2>7. Base(v, Tail(toClient), server) /\ Others(v, server, app)
    BY <2>2, <2>3, <2>5, GotEofKeeps
  <2>8. Streams(v, Tail(toClient), server, app)
    BY <2>2, <2>3, <2>5, <2>6, GotEofStreams
  <2> HIDE DEF v
  <2>9. Waits(v)
    BY <2>2, <2>3, <2>7, OpenedWaits
  <2> QED
    BY <2>4, <2>7, <2>8, <2>9, HandlingFlows
<1>7. CASE ChannelClose
  <2>1. PICK left \in Left : Handled(GotClose(Taking(left)))
    BY <1>7 DEF ChannelClose
  <2>2. Takes /\ Head(toClient).type = "close" /\ chan.live /\ ~chan.halfopen
    BY <1>7 DEF ChannelClose, Arrives, Knows
  <2> DEFINE w == Taking(left)
             v == GotClose(w)
  <2>3. /\ Base(w, toClient, server) /\ Others(w, server, app)
        /\ w.chan = chan /\ toClient # <<>> /\ toClient \in Packets(DownTypes)
        /\ w.ssh.remote_bugs = ssh.remote_bugs
        /\ Streams(w, toClient, server, app)
    BY <2>2, TakingFlows
  <2>4. Handled(v)
    BY <2>1
  <2> HIDE DEF w
  <2>5. /\ Base(w, Tail(toClient), server)
        /\ "RCVD_CLOSE" \notin w.chan.closes
        /\ server.sentClose
        /\ Lacks(Tail(toClient), IF Late(w) THEN DownTypes \ {"reply"} ELSE DownTypes)
    BY Zenon, <2>2, <2>3, TakeOther
  <2>6. Streams(w, Tail(toClient), server, app)
    BY <2>2, <2>3, TakingStreams
  <2>7. Base(v, Tail(toClient), server) /\ Others(v, server, app)
    BY Zenon, <2>2, <2>3, <2>5, GotCloseKeeps
  <2>8. Streams(v, Tail(toClient), server, app)
    BY Zenon, <2>2, <2>3, <2>5, <2>6, GotCloseStreams
  <2> HIDE DEF v
  <2>9. Waits(v)
    BY <2>2, <2>3, <2>7, OpenedWaits
  <2> QED
    BY <2>4, <2>7, <2>8, <2>9, HandlingFlows
<1> QED
  BY <1>1, <1>2, <1>3, <1>4, <1>5, <1>6, <1>7 DEF Receive

\* A handler that changes neither side of the channel.
LEMMA SameFlows ==
  ASSUME NEW w, NEW v \in Works, NEW cl, NEW sv, NEW ap \in Apps, Base(w, cl, sv),
         v.chan = w.chan, v.pf = w.pf, v.tx = w.tx, v.pipe = w.pipe,
         v.ssh.open = w.ssh.open, v.sock.live = w.sock.live,
         v.sock.frozen = w.sock.frozen, v.sock.output = w.sock.output,
         Streams(w, cl, sv, ap), Waits(w)
  PROVE  Streams(v, cl, sv, ap) /\ Waits(v)
<1>1. Still(w, v)
  BY DEF Still
<1>2. w \in Works /\ sv \in Servers /\ Sides(w)
  BY DEF Base
<1> QED
  BY <1>1, <1>2, StillStreams DEF Waits

\* An orderly end, before the channel is open or after.
LEMMA WriteEofWaits ==
  ASSUME NEW w, NEW cl, NEW sv, NEW ap, Base(w, cl, sv), Others(w, sv, ap), w.sock.live,
         Waits(w)
  PROVE  Waits(WriteEof(w))
<1> DEFINE p == [w EXCEPT !.chan.pending_eof = TRUE]
           v == WriteEof(w)
<1>0. /\ w \in Works /\ w.chan \in Chans /\ w.chan.live /\ w.chan.type # "ZOMBIE"
      /\ ~Done(w.chan)
  BY LiveSocket, Fields DEF Base, Others, Settled
<1>1. Kept(p, v)
  BY <1>0, WriteEofKeepsBase
<1>2. p.sock = w.sock /\ p.chan = [w.chan EXCEPT !.pending_eof = TRUE]
  BY <1>0 DEF Works
<1> HIDE DEF p, v
<1>3. p.chan.halfopen = w.chan.halfopen
  BY <1>0, <1>2 DEF Chans
<1>4. /\ v.chan.halfopen = w.chan.halfopen /\ v.sock.frozen = w.sock.frozen
      /\ v.sock.live => w.sock.live
  BY <1>1, <1>2, <1>3 DEF Kept
<1>5. Waits(v)
  BY <1>4, FrozenWaits
<1> QED
  BY <1>5 DEF v

\* The messages of the local socket.
LEMMA SocketFlows ==
  ASSUME IndInv, Flows, SocketEvent
  PROVE  Flows'
<1> DEFINE w == Now
<1>0. /\ Base(w, toClient, server) /\ Others(w, server, app) /\ w \in Works
      /\ w.sock = sock /\ w.pf = pf /\ w.chan = chan /\ app \in Apps
      /\ Streams(w, toClient, server, app) /\ Waits(w)
  BY InvHolds, NowIs DEF Flows
<1> HIDE DEF w
<1>1. CASE FdRead
  <2>1. PICK n \in 1 .. app.unread :
          /\ LocalStep(PfdReceive(Now, n))
          /\ app' = [app EXCEPT !.unread = @ - n]
    BY Zenon, <1>1 DEF FdRead
  <2> DEFINE v == PfdReceive(w, n)
  <2>2. LocalStep(v)
    BY <2>1 DEF w
  <2>3. w.sock.live /\ ~w.sock.frozen /\ ~w.chan.halfopen
    BY <1>0, <1>1 DEF FdRead, ReadDue, Waits
  <2>4. Base(v, toClient, server) /\ Streams(v, toClient, server, app')
    BY <1>0, <2>1, <2>3, ReadKeeps, ReadStreams
  <2> HIDE DEF v
  <2>5. Waits(v)
    BY <1>0, <2>3, <2>4, OpenWaits
  <2> QED
    BY <2>2, <2>4, <2>5, LocalFlows
<1>2. CASE FdWrite
  <2>1. LocalStep(Sent(w)) /\ app' = app
    BY <1>0, <1>2 DEF FdWrite, Sent, w
  <2>2. w.sock.live /\ ~w.sock.writable
    BY <1>0, <1>2 DEF FdWrite, WriteDue
  <2>3. Base(Sent(w), toClient, server) /\ Streams(Sent(w), toClient, server, app')
    BY <1>0, <2>1, <2>2, SentKeeps, SentStreams
  <2>4. ~w.chan.halfopen
    BY <1>0, <2>2 DEF Base, Sides, HalfOpened
  <2>5. Waits(Sent(w))
    BY <1>0, <2>3, <2>4, OpenWaits
  <2> QED
    BY <2>1, <2>3, <2>5, LocalFlows
<1>3. CASE FdClose
  <2> DEFINE x == [w EXCEPT !.sock.closed = TRUE]
             r == Drains(x, app.unread)
  <2>1. /\ LocalStep(IF app.reset THEN UncleanClose(x) ELSE WriteEof(r))
        /\ app' = [app EXCEPT !.unread = 0]
    BY <1>3 DEF FdClose, Drains, w
  <2>2. w.sock.live /\ (app.reset \/ (app.fin /\ (app.unread = 0 \/ ~w.sock.frozen)))
    BY <1>0, <1>3 DEF FdClose, CloseDue
  <2>3. /\ x \in Works /\ x.chan = w.chan /\ x.pf = w.pf /\ x.ssh = w.ssh /\ x.tx = w.tx
        /\ x.pipe = w.pipe
        /\ x.sock = [w.sock EXCEPT !.closed = TRUE] /\ w.sock \in Socks
    BY Zenon, <1>0 DEF Works, Socks
  <2> HIDE DEF x
  <2>4. /\ x.sock.live = w.sock.live /\ x.sock.frozen = w.sock.frozen
        /\ x.sock.output = w.sock.output /\ x.sock.outgoingeof = w.sock.outgoingeof
        /\ x.sock.writable = w.sock.writable
    BY <2>3 DEF Socks
  <2>5. Base(x, toClient, server)
    <3>1. x.sock.live /\ x.sock.outgoingeof # "NO" => "RCVD_EOF" \in w.chan.closes
      BY <1>0, <2>4 DEF Base, Sides
    <3>2. w.chan.halfopen => HalfOpened(x)
      BY <1>0, <2>3, <2>4 DEF Base, Sides, HalfOpened
    <3> QED
      BY Zenon, <1>0, <2>3, <2>4, <3>1, <3>2, SocketStepKeepsBase
  <2>6. Others(x, server, app)
    <3>1. x.sock.output <= w.sock.output
      BY <1>0, <2>4, Fields
    <3> QED
      BY Zenon, <1>0, <2>3, <2>4, <3>1, SocketOthers
  <2>7. Streams(x, toClient, server, app) /\ Waits(x)
    BY Zenon, <1>0, <2>3, <2>4, SameFlows
  <2>8. CASE app.reset
    <3> DEFINE v == UncleanClose(x)
    <3>1. Base(v, toClient, server) /\ ~v.sock.live
      BY Zenon, <2>2, <2>4, <2>5, LiveSocket, UncleanCloseKeepsBase
    <3>2. Streams(v, toClient, server, app')
      <4>1. Streams(x, toClient, server, app') /\ app' \in Apps
        BY <1>0, <2>1, <2>3, <2>7, <2>8, InvHolds, LostStreams DEF Apps
      <4> QED
        BY Zenon, <2>2, <2>4, <2>5, <4>1, UncleanCloseStreams
    <3>3. LocalStep(v)
      BY <2>1, <2>8
    <3> HIDE DEF v
    <3>4. Waits(v)
      BY <3>1 DEF Waits
    <3> QED
      BY <3>1, <3>2, <3>3, <3>4, LocalFlows
  <2>9. CASE ~app.reset
    <3> DEFINE v == WriteEof(r)
    <3>1. /\ Base(r, toClient, server) /\ r.sock.live
          /\ Others(r, server, [app EXCEPT !.unread = 0])
      BY <2>2, <2>4, <2>5, <2>6, <2>9, DrainsKeeps
    <3>2. Streams(r, toClient, server, [app EXCEPT !.unread = 0]) /\ Waits(r)
      BY <2>2, <2>4, <2>5, <2>6, <2>7, <2>9, DrainsStreams
    <3> HIDE DEF r
    <3>3. app'.unread = 0 /\ app'.fin = app.fin /\ app'.reset = app.reset
      BY <1>0, <2>1 DEF Apps
    <3>4. Others(r, server, app') /\ Streams(r, toClient, server, app')
      BY <2>1, <3>1, <3>2
    <3>5. Base(v, toClient, server)
      BY <2>2, <2>9, <3>1, <3>3, <3>4, WriteEofKeeps
    <3>6. Streams(v, toClient, server, app')
      BY <2>2, <2>9, <3>1, <3>3, <3>4, WriteEofStreams
    <3>7. Waits(v)
      BY <3>1, <3>2, WriteEofWaits
    <3>8. LocalStep(v)
      BY <2>1, <2>9
    <3> HIDE DEF v
    <3> QED
      BY <3>5, <3>6, <3>7, <3>8, LocalFlows
  <2> QED
    BY <2>8, <2>9
<1>4. CASE SocketErrorCallback
  <2> DEFINE x == [w EXCEPT !.sock.pending_error = FALSE]
  <2>1. LocalStep(IF sock.live THEN UncleanClose(x) ELSE x) /\ app' = app
    BY <1>4 DEF SocketErrorCallback, w
  <2>3. /\ x \in Works /\ x.chan = w.chan /\ x.pf = w.pf /\ x.ssh = w.ssh /\ x.tx = w.tx
        /\ x.pipe = w.pipe
        /\ x.sock = [w.sock EXCEPT !.pending_error = FALSE] /\ w.sock \in Socks
    BY Zenon, <1>0, FALSE \in BOOLEAN DEF Works, Socks
  <2> HIDE DEF x
  <2>4. /\ x.sock.live = w.sock.live /\ x.sock.frozen = w.sock.frozen
        /\ x.sock.output = w.sock.output /\ x.sock.outgoingeof = w.sock.outgoingeof
        /\ x.sock.writable = w.sock.writable
    BY <2>3 DEF Socks
  <2>5. Base(x, toClient, server)
    <3>1. x.sock.live /\ x.sock.outgoingeof # "NO" => "RCVD_EOF" \in w.chan.closes
      BY <1>0, <2>4 DEF Base, Sides
    <3>2. w.chan.halfopen => HalfOpened(x)
      BY <1>0, <2>3, <2>4 DEF Base, Sides, HalfOpened
    <3> QED
      BY Zenon, <1>0, <2>3, <2>4, <3>1, <3>2, SocketStepKeepsBase
  <2>7. Streams(x, toClient, server, app') /\ Waits(x)
    BY Zenon, <1>0, <2>1, <2>3, <2>4, SameFlows
  <2>8. CASE sock.live
    <3> DEFINE v == UncleanClose(x)
    <3>0. x.sock.live
      BY <1>0, <2>4, <2>8
    <3>1. Base(v, toClient, server) /\ ~v.sock.live
      BY <2>5, <3>0, LiveSocket, UncleanCloseKeepsBase
    <3>2. Streams(v, toClient, server, app')
      BY <1>0, <2>1, <2>5, <2>7, <3>0, UncleanCloseStreams
    <3>3. LocalStep(v)
      BY <2>1, <2>8
    <3> HIDE DEF v
    <3>4. Waits(v)
      BY <3>1 DEF Waits
    <3> QED
      BY <3>1, <3>2, <3>3, <3>4, LocalFlows
  <2>9. CASE ~sock.live
    BY <2>1, <2>5, <2>7, <2>9, LocalFlows
  <2> QED
    BY <2>8, <2>9
<1> QED
  BY <1>1, <1>2, <1>3, <1>4 DEF SocketEvent

\* What concerns the connection as a whole: its end loses what is under way.
LEMMA ConnectionFlows ==
  ASSUME IndInv, Flows, Connection
  PROVE  Flows'
<1> DEFINE w == Now
<1>0. /\ Base(w, toClient, server) /\ Others(w, server, app) /\ w \in Works
      /\ w.sock = sock /\ w.pf = pf /\ w.chan = chan /\ w.ssh = ssh /\ w.pipe = pipe
      /\ w.tx = toServer /\ w.fault = fault /\ app \in Apps /\ server \in Servers
      /\ ssh \in Sshs /\ sock \in Socks /\ chan \in Chans /\ pf \in Pfs
      /\ Streams(w, toClient, server, app) /\ Waits(w)
  BY InvHolds, NowIs DEF Flows
<1> HIDE DEF w
<1>1. CASE QueueResumes
  <2>1. PICK n \in 1 .. Smaller(MaxChunk, Len(toClient) - ssh.queued) :
          ssh' = [ssh EXCEPT !.queued = @ + n, !.reading = TRUE]
    BY Zenon, <1>1 DEF QueueResumes
  <2>2. UNCHANGED <<chan, pf, sock, toServer, toClient, pipe, app, server, fault>>
    BY <1>1 DEF QueueResumes
  <2> DEFINE v == [w EXCEPT !.ssh = ssh']
  <2>3. ssh.queued + n \in Nat
    BY <1>0 DEF Sshs
  <2>4. ssh' \in Sshs /\ ssh'.open = ssh.open
    BY Zenon, <1>0, <2>1, <2>3 DEF Sshs
  <2>5. /\ v \in Works /\ v.chan = w.chan /\ v.pf = w.pf /\ v.sock = w.sock /\ v.tx = w.tx
        /\ v.ssh = ssh' /\ v.pipe = w.pipe /\ v.fault = w.fault
    BY <1>0, <2>4 DEF Works
  <2> HIDE DEF v
  <2>6. Become(v)
    BY <1>0, <2>2, <2>5 DEF Become
  <2>7. Streams(v, toClient, server, app) /\ Waits(v)
    BY <1>0, <2>4, <2>5, SameFlows
  <2> QED
    BY <2>2, <2>5, <2>6, <2>7, BecomingFlows
<1>2. CASE BacklogHigh
  <2> DEFINE v == ThrottleAll(w, TRUE)
  <2>1. LocalStep(v) /\ app' = app
    BY Zenon, <1>2 DEF BacklogHigh, w
  <2>2. Base(v, toClient, server) /\ Streams(v, toClient, server, app') /\ Waits(v)
    BY Zenon, <1>0, <2>1, ThrottleAllKeeps, ThrottleAllStreams
  <2> HIDE DEF v
  <2> QED
    BY <2>1, <2>2, LocalFlows
<1>3. CASE BacklogLow
  <2> DEFINE v == ThrottleAll(w, FALSE)
  <2>1. LocalStep(v) /\ app' = app
    BY Zenon, <1>3 DEF BacklogLow, w
  <2>2. Base(v, toClient, server) /\ Streams(v, toClient, server, app') /\ Waits(v)
    BY Zenon, <1>0, <2>1, ThrottleAllKeeps, ThrottleAllStreams, FALSE \in BOOLEAN
  <2> HIDE DEF v
  <2> QED
    BY <2>1, <2>2, LocalFlows
<1>4. CASE DoClose
  <2> DEFINE c == [chan EXCEPT !.live = FALSE]
             s == [sock EXCEPT !.live = @ /\ ~(chan.live /\ Forwards(chan))]
             h == [ssh EXCEPT !.open = FALSE, !.queued = 0]
             v == [w EXCEPT !.chan = c, !.sock = s, !.ssh = h, !.tx = <<>>]
  <2>1. /\ chan' = c /\ sock' = s /\ ssh' = h /\ toServer' = <<>> /\ toClient' = <<>>
        /\ UNCHANGED <<pf, pipe, app, server, fault>>
    BY <1>4 DEF DoClose
  <2>2. /\ c \in Chans /\ ~c.live /\ c.halfopen = chan.halfopen /\ c.type = chan.type
        /\ c.outbuffer = chan.outbuffer
    BY Zenon, <1>0, FALSE \in BOOLEAN DEF Chans
  <2>3. sock.live => chan.live /\ Forwards(chan)
    BY <1>0 DEF Base, Sides
  <2>4. s \in Socks /\ ~s.live /\ s.output = sock.output
    BY Zenon, <1>0, <2>3 DEF Socks
  <2>5. h \in Sshs /\ ~h.open
    BY Zenon, <1>0, FALSE \in BOOLEAN DEF Sshs
  <2>6. <<>> \in Packets(UpTypes) /\ <<>> \in Packets(DownTypes)
    BY DEF Packets
  <2> HIDE DEF c, s, h
  <2>7. /\ v \in Works /\ v.chan = c /\ v.sock = s /\ v.ssh = h /\ v.tx = <<>>
        /\ v.pf = w.pf /\ v.pipe = w.pipe /\ v.fault = w.fault
    BY Zenon, <1>0, <2>2, <2>4, <2>5, <2>6 DEF Works
  <2> HIDE DEF v
  <2>8. Become(v)
    BY <1>0, <2>1, <2>7 DEF Become
  <2>9. Filled(v.tx)
    BY <2>7 DEF Filled
  <2>10. InFlight(<<>>, "data") = 0
    BY AmountsOfNone
  <2>11. server.got + Load(v) + v.pf.buffer + app.unread <= app.sent
    <3> DEFINE g == server.got
               o == w.chan.outbuffer
               f == InFlight(w.tx, "data")
               b == w.pf.buffer
               r == app.unread
               a == app.sent
    <3>1. g \in Nat /\ o \in Nat /\ f \in Nat /\ b \in Nat /\ r \in Nat /\ a \in Nat
      BY <1>0, Loads DEF Servers, Apps
    <3>2. g + (o + f) + b + r <= a
      BY <1>0 DEF Streams, Upwards, Load
    <3>3. Load(v) = o + 0 /\ v.pf.buffer = b
      BY <1>0, <2>2, <2>7, <2>10 DEF Load
    <3> HIDE DEF g, o, f, b, r, a
    <3>4. g + (o + 0) + b + r <= a
      BY <3>1, <3>2
    <3> QED
      BY <3>3, <3>4 DEF g, r, a
  <2>12. Upwards(v, server, app)
    <3>1. ~v.chan.halfopen /\ v.chan.type # "ZOMBIE" => v.pf.buffer = 0
      BY <1>0, <2>2, <2>7 DEF Streams, Upwards
    <3> QED
      BY <2>5, <2>7, <2>9, <2>11, <3>1 DEF Upwards
  <2>13. app.got + v.pipe.data + v.sock.output + InFlight(<<>>, "data") <= server.sent
    <3> DEFINE g == app.got
               o == w.sock.output
               f == InFlight(toClient, "data")
               b == w.pipe.data
               a == server.sent
    <3>1. g \in Nat /\ o \in Nat /\ f \in Nat /\ b \in Nat /\ a \in Nat
      <4>1. toClient \in Packets(DownTypes)
        BY <1>0 DEF Base
      <4> QED
        BY <1>0, <4>1, Loads, Amounts DEF Servers, Apps
    <3>2. g + b + o + f <= a
      BY <1>0 DEF Streams, Downwards
    <3>3. v.sock.output = o /\ v.pipe.data = b
      BY <1>0, <2>4, <2>7
    <3> HIDE DEF g, o, f, b, a
    <3>4. g + b + o + 0 <= a
      BY <3>1, <3>2
    <3> QED
      BY <2>10, <3>3, <3>4 DEF g, a
  <2>14. Downwards(v, <<>>, server, app)
    BY <1>0, <2>2, <2>7, <2>13 DEF Streams, Downwards
  <2>15. Streams(v, <<>>, server, app) /\ Waits(v)
    BY <2>4, <2>7, <2>12, <2>14 DEF Streams, Waits
  <2> QED
    BY <2>1, <2>7, <2>8, <2>15, BecomingFlows
<1> QED
  BY <1>1, <1>2, <1>3, <1>4 DEF Connection

-----------------------------------------------------------------------------
(* The local program and the server keep the streams.                      *)

\* What the local program does.
LEMMA AppFlows ==
  ASSUME IndInv, Flows, App
  PROVE  Flows'
<1> DEFINE w == Now
           v == [w EXCEPT !.pipe = pipe']
<1>0. /\ Base(w, toClient, server) /\ Others(w, server, app) /\ w \in Works
      /\ w.sock = sock /\ w.pf = pf /\ w.chan = chan /\ w.ssh = ssh /\ w.tx = toServer
      /\ w.pipe = pipe /\ w.fault = fault
      /\ app \in Apps /\ pipe \in Pipes /\ server \in Servers
      /\ Upwards(w, server, app) /\ Downwards(w, toClient, server, app) /\ Waits(w)
  BY InvHolds, NowIs DEF Flows, Streams
<1> HIDE DEF w
<1>1. AppStep
  BY DEF App, AppWrites, AppShuts, AppResets, AppReads, AppSeesEof
<1>2. pipe' \in Pipes
  <2>1. CASE AppReads
    <3>1. pipe' = [pipe EXCEPT !.data = @ - 1] /\ pipe.data > 0
      BY <2>1 DEF AppReads
    <3>2. pipe.data - 1 \in 0 .. PipeSize
      BY <1>0, <3>1, Sizes DEF Pipes
    <3> QED
      BY <1>0, <3>1, <3>2 DEF Pipes
  <2>2. CASE ~AppReads
    <3>1. pipe' = pipe
      BY <2>2 DEF App, AppWrites, AppShuts, AppResets, AppSeesEof
    <3> QED
      BY <1>0, <3>1
  <2> QED
    BY <2>1, <2>2
<1>3. /\ v \in Works /\ v.chan = w.chan /\ v.pf = w.pf /\ v.sock = w.sock /\ v.tx = w.tx
      /\ v.ssh = w.ssh /\ v.pipe = pipe' /\ v.fault = w.fault
  BY <1>0, <1>2 DEF Works
<1> HIDE DEF v
<1>4. Become(v) /\ toClient' = toClient /\ server' = server
  BY <1>0, <1>1, <1>3 DEF Become, AppStep
<1>5. /\ Load(v) = Load(w) /\ EofSent(v) = EofSent(w)
      /\ InFlight(v.tx, "data") = InFlight(w.tx, "data")
  BY <1>3 DEF Load, EofSent
<1> DEFINE g == server.got
           l == Load(w)
           b == w.pf.buffer
           r == app.unread
           s == app.sent
<1>6. /\ g \in Nat /\ l \in Nat /\ b \in Nat /\ r \in Nat /\ s \in Nat
      /\ app.got \in Nat /\ app.fin \in BOOLEAN /\ app.reset \in BOOLEAN
      /\ app.sawEof \in BOOLEAN
  BY <1>0, Loads DEF Servers, Apps
<1>7. /\ g + l + b + r <= s
      /\ w.ssh.open /\ ~server.sentClose /\ ~app.reset => s = g + l + b + r
  BY <1>0 DEF Upwards
<1>8. server.got = g /\ Load(w) = l /\ w.pf.buffer = b
  OBVIOUS
<1>9. Upwards(v, server, app')
  <2>1. CASE AppWrites
    <3>1. /\ app' = [app EXCEPT !.sent = @ + 1, !.unread = @ + 1]
          /\ ~app.fin /\ ~app.reset
      BY <2>1 DEF AppWrites
    <3>2. /\ app'.sent = s + 1 /\ app'.unread = r + 1 /\ ~app'.fin /\ ~app'.reset
      BY <1>0, <1>6, <3>1 DEF Apps
    <3> HIDE DEF g, l, b, r, s
    <3>3. /\ g + l + b + (r + 1) <= s + 1
          /\ w.ssh.open /\ ~server.sentClose => s + 1 = g + l + b + (r + 1)
      BY <1>6, <1>7, <3>1
    <3>4. w.ssh.open /\ ~server.sentClose => ~w.chan.pending_eof /\ ~EofSent(w)
      BY <1>0, <3>1 DEF Upwards
    <3> QED
      BY <1>0, <1>3, <1>5, <1>8, <3>2, <3>3, <3>4 DEF Upwards
  <2>2. CASE AppShuts
    <3>1. /\ app'.sent = app.sent /\ app'.unread = app.unread /\ app'.fin
          /\ app'.reset = app.reset
      BY <1>0, <2>2, TRUE \in BOOLEAN DEF AppShuts, Apps
    <3> HIDE DEF g, l, b, r, s
    <3> QED
      BY <1>0, <1>3, <1>5, <3>1 DEF Upwards
  <2>3. CASE AppResets
    <3>1. /\ app'.sent = s /\ app'.unread = 0 /\ app'.fin = app.fin /\ app'.reset
      BY <1>0, <2>3, TRUE \in BOOLEAN DEF AppResets, Apps
    <3>2. app'.sent = app.sent
      BY <3>1
    <3> HIDE DEF g, l, b, r, s
    <3>3. g + l + b + 0 <= s
      BY <1>6, <1>7
    <3> QED
      BY <1>0, <1>3, <1>5, <1>8, <3>1, <3>2, <3>3 DEF Upwards
  <2>4. CASE AppReads \/ AppSeesEof
    <3>1. /\ app'.sent = app.sent /\ app'.unread = app.unread /\ app'.fin = app.fin
          /\ app'.reset = app.reset
      BY <1>0, <2>4, TRUE \in BOOLEAN DEF AppReads, AppSeesEof, Apps
    <3> HIDE DEF g, l, b, r, s
    <3> QED
      BY <1>0, <1>3, <1>5, <3>1 DEF Upwards
  <2> QED
    BY <2>1, <2>2, <2>3, <2>4 DEF App
<1>10. Downwards(v, toClient, server, app')
  <2>1. CASE AppReads
    <3> DEFINE a == app.got
               d == pipe.data
               o == w.sock.output
               f == InFlight(toClient, "data")
               t == server.sent
    <3>1. /\ app'.got = a + 1 /\ app'.sawEof = app.sawEof
          /\ pipe'.data = d - 1 /\ pipe'.shut = pipe.shut /\ d > 0
      BY <1>0, <2>1 DEF AppReads, Apps, Pipes
    <3>2. a \in Nat /\ d \in Nat /\ o \in Nat /\ f \in Nat /\ t \in Nat
      <4>1. toClient \in Packets(DownTypes)
        BY <1>0 DEF Base
      <4> QED
        BY <1>0, <4>1, Loads, Amounts DEF Servers, Apps
    <3>3. /\ a + d + o + f <= t
          /\ w.chan.live /\ w.chan.type # "ZOMBIE" => t = a + d + o + f
          /\ pipe.shut => (server.sentEof \/ server.sentClose) /\ t = a + d
          /\ app.sawEof => d = 0
      BY <1>0 DEF Downwards
    <3>4. v.sock.output = o /\ server.sent = t /\ InFlight(toClient, "data") = f
      BY <1>3
    <3> HIDE DEF a, d, o, f, t
    <3>5. /\ (a + 1) + (d - 1) + o + f <= t
          /\ w.chan.live /\ w.chan.type # "ZOMBIE" => t = (a + 1) + (d - 1) + o + f
          /\ pipe.shut => (server.sentEof \/ server.sentClose) /\ t = (a + 1) + (d - 1)
          /\ ~app.sawEof
      BY <3>1, <3>2, <3>3
    <3> QED
      BY <1>3, <3>1, <3>4, <3>5 DEF Downwards
  <2>2. CASE AppSeesEof
    <3>1. app'.got = app.got /\ pipe' = pipe /\ pipe.data = 0 /\ (pipe.shut \/ ~sock.live)
      BY <1>0, <2>2 DEF AppSeesEof, Apps
    <3>2. ~sock.live => ~(w.chan.live /\ w.chan.type # "ZOMBIE")
      BY <1>0 DEF Base, Sides, Forwards, Works, Chans
    <3> QED
      BY <1>0, <1>3, <3>1, <3>2 DEF Downwards
  <2>3. CASE AppWrites \/ AppShuts \/ AppResets
    <3>1. app'.got = app.got /\ app'.sawEof = app.sawEof /\ pipe' = pipe
      BY Zenon, <1>0, <2>3 DEF AppWrites, AppShuts, AppResets, Apps
    <3> QED
      BY <1>0, <1>3, <3>1 DEF Downwards
  <2> QED
    BY <2>1, <2>2, <2>3 DEF App
<1>11. Waits(v)
  BY <1>0, <1>3 DEF Waits
<1> QED
  BY <1>3, <1>4, <1>9, <1>10, <1>11, BecomingFlows DEF Streams

\* What the server adds to what it has sent.
LEMMA TellingStreams ==
  ASSUME NEW w, NEW cl \in Packets(DownTypes), NEW sv \in Servers, NEW ap \in Apps,
         w \in Works, Streams(w, cl, sv, ap),
         NEW type \in DownTypes, NEW n \in Nat, NEW sv2,
         sv2.got = sv.got, sv2.sent = sv.sent + (IF type = "data" THEN n ELSE 0),
         sv.sentEof => sv2.sentEof, sv.sentClose => sv2.sentClose,
         type = "data" => ~sv.sentEof /\ ~sv.sentClose
  PROVE  Streams(w, Append(cl, Packet(type, n)), sv2, ap)
<1> DEFINE p == Packet(type, n)
           q == Append(cl, p)
           m == IF type = "data" THEN n ELSE 0
           g == ap.got
           d == w.pipe.data
           o == w.sock.output
           f == InFlight(cl, "data")
           t == sv.sent
<1>1. p \in [type : DownTypes, n : Nat] /\ p.type = type /\ p.n = n
  BY DEF Packet
<1> HIDE DEF p
<1>2. InFlight(q, "data") = InFlight(cl, "data") + (IF p.type = "data" THEN p.n ELSE 0)
  BY <1>1, AmountsAppend
<1> HIDE DEF q
<1>3. InFlight(q, "data") = f + m /\ sv2.sent = t + m
  BY <1>1, <1>2
<1>4. g \in Nat /\ d \in Nat /\ o \in Nat /\ f \in Nat /\ t \in Nat /\ m \in Nat
  BY Loads, Amounts DEF Servers, Apps
<1>5. /\ g + d + o + f <= t
      /\ w.chan.live /\ w.chan.type # "ZOMBIE" => t = g + d + o + f
      /\ w.pipe.shut => (sv.sentEof \/ sv.sentClose) /\ t = g + d
      /\ ap.sawEof => d = 0 /\ (w.pipe.shut \/ ~(w.chan.live /\ w.chan.type # "ZOMBIE"))
  BY DEF Streams, Downwards
<1>6. w.pipe.shut => m = 0
  BY <1>5
<1>7. ap.got = g /\ w.pipe.data = d /\ w.sock.output = o
  OBVIOUS
<1> HIDE DEF g, d, o, f, t, m
<1>8. /\ g + d + o + (f + m) <= t + m
      /\ w.chan.live /\ w.chan.type # "ZOMBIE" => t + m = g + d + o + (f + m)
      /\ w.pipe.shut => (sv.sentEof \/ sv.sentClose) /\ t + m = g + d
  BY <1>4, <1>5, <1>6
<1>9. Downwards(w, q, sv2, ap)
  BY <1>3, <1>5, <1>7, <1>8 DEF Downwards
<1>10. Upwards(w, sv2, ap)
  BY DEF Streams, Upwards
<1> QED
  BY <1>9, <1>10 DEF Streams, q, p

\* What the server takes from what it was sent.
LEMMA TakenStreams ==
  ASSUME NEW w \in Works, NEW v \in Works, NEW cl, NEW sv \in Servers, NEW ap \in Apps,
         Streams(w, cl, sv, ap), w.tx # <<>>,
         v.chan = w.chan, v.pf = w.pf, v.sock = w.sock, v.ssh = w.ssh, v.pipe = w.pipe,
         v.tx = Tail(w.tx), NEW sv2,
         sv2.got = sv.got + (IF Head(w.tx).type = "data" THEN Head(w.tx).n ELSE 0),
         sv2.sent = sv.sent, sv2.sentEof = sv.sentEof, sv2.sentClose = sv.sentClose
  PROVE  Streams(v, cl, sv2, ap)
<1> DEFINE h == Head(w.tx)
           m == IF h.type = "data" THEN h.n ELSE 0
           g == sv.got
           o == w.chan.outbuffer
           f == InFlight(w.tx, "data")
           k == InFlight(v.tx, "data")
           b == w.pf.buffer
           r == ap.unread
           s == ap.sent
<1>1. /\ h \in [type : UpTypes, n : Nat] /\ Filled(w.tx)
      /\ \A some : Lacks(w.tx, some) => Lacks(v.tx, some)
      /\ f = m + k
  <2>1. w.tx \in Packets(UpTypes) /\ Filled(w.tx)
    BY Loads DEF Streams, Upwards
  <2>2. /\ h \in [type : UpTypes, n : Nat]
        /\ \A some : Lacks(w.tx, some) => Lacks(Tail(w.tx), some) /\ h.type \notin some
        /\ InFlight(w.tx, "data")
             = (IF h.type = "data" THEN h.n ELSE 0) + InFlight(Tail(w.tx), "data")
    BY Zenon, <2>1, UpFacts
  <2> HIDE DEF h
  <2> QED
    BY <2>1, <2>2
<1>2. Filled(v.tx)
  BY <1>1, Loads, FilledTail
<1>3. EofSent(v) => EofSent(w)
  BY <1>1 DEF EofSent
<1>4. m \in Nat
  <2>1. h.n \in Nat
    BY <1>1
  <2> HIDE DEF h
  <2> QED
    BY <2>1
<1>5. /\ g \in Nat /\ o \in Nat /\ f \in Nat /\ k \in Nat /\ b \in Nat /\ r \in Nat /\ s \in Nat
  BY Loads DEF Servers, Apps
<1>6. Load(v) = o + k /\ Load(w) = o + f /\ sv2.got = g + m /\ v.pf.buffer = b
      /\ w.pf.buffer = b /\ ap.unread = r /\ ap.sent = s /\ InFlight(v.tx, "data") = k
      /\ InFlight(w.tx, "data") = f /\ sv.got = g
  BY DEF Load
<1> HIDE DEF h, m, g, o, f, k, b, r, s
<1>7. /\ g + (o + f) + b + r <= s
      /\ w.ssh.open /\ ~sv.sentClose =>
           /\ ~ap.reset => s = g + (o + f) + b + r
           /\ w.chan.pending_eof => ap.fin /\ s = g + (o + f) + b
           /\ EofSent(w) => ap.fin /\ s = g + f
  BY <1>6 DEF Streams, Upwards
<1>8. /\ (g + m) + (o + k) + b + r <= s
      /\ w.ssh.open /\ ~sv.sentClose =>
           /\ ~ap.reset => s = (g + m) + (o + k) + b + r
           /\ w.chan.pending_eof => ap.fin /\ s = (g + m) + (o + k) + b
           /\ EofSent(w) => ap.fin /\ s = (g + m) + k
  BY <1>1, <1>4, <1>5, <1>7
<1>9. ~v.chan.halfopen /\ v.chan.type # "ZOMBIE" => v.pf.buffer = 0
  BY DEF Streams, Upwards
<1>10. Upwards(v, sv2, ap)
  BY <1>2, <1>3, <1>6, <1>8, <1>9 DEF Upwards
<1>11. Downwards(v, cl, sv2, ap)
  BY DEF Streams, Downwards
<1> QED
  BY <1>10, <1>11 DEF Streams

\* What the server does.
LEMMA ServerFlows ==
  ASSUME IndInv, Flows, Server
  PROVE  Flows'
<1> DEFINE w == Now
<1>0. /\ Base(w, toClient, server) /\ w \in Works /\ app \in Apps /\ server \in Servers
      /\ w.ssh = ssh /\ w.tx = toServer /\ w.chan = chan /\ w.pf = pf /\ w.sock = sock
      /\ w.pipe = pipe /\ w.fault = fault
      /\ Streams(w, toClient, server, app) /\ Waits(w)
      /\ toClient \in Packets(DownTypes)
      /\ server.sent \in Nat /\ server.room \in Int /\ server.got \in Nat
  <2>1. server \in Servers /\ Base(w, toClient, server)
    BY InvHolds
  <2>2. server.sent \in Nat /\ server.room \in Int /\ server.got \in Nat
    BY <2>1 DEF Servers
  <2> QED
    BY <2>1, <2>2, InvHolds, NowIs DEF Flows, Base
<1>1. /\ toServer' = toServer
      /\ UNCHANGED <<chan, pf, sock, ssh, pipe, app, fault>>
      => Now' = w /\ app' = app
  BY DEF Now
<1>2. ASSUME UNCHANGED <<chan, pf, sock, ssh, pipe, app, fault>>, toServer' = toServer,
             NEW type \in DownTypes, NEW n \in Nat,
             toClient' = Append(toClient, Packet(type, n)),
             server'.got = server.got,
             server'.sent = server.sent + (IF type = "data" THEN n ELSE 0),
             server.sentEof => server'.sentEof, server.sentClose => server'.sentClose,
             type = "data" => ~server.sentEof /\ ~server.sentClose
      PROVE  Flows'
  <2>1. Now' = w /\ app' = app
    BY <1>1, <1>2
  <2> HIDE DEF w
  <2>2. Streams(w, toClient', server', app)
    BY <1>0, <1>2, TellingStreams
  <2> QED
    BY <1>0, <2>1, <2>2 DEF Flows
<1>3. {"confirm", "failure", "data", "adjust", "eof", "close"} \subseteq DownTypes /\ 0 \in Nat
      /\ server.sent + 0 = server.sent
  BY <1>0 DEF DownTypes
<1>4. CASE ServerOpens
  <2>1. PICK state \in {"open", "refused"} :
          /\ server' = [server EXCEPT !.state = state]
          /\ toClient' = Append(toClient, IF state = "open" THEN Packet("confirm", RemWindow)
                                          ELSE Packet("failure", 0))
    BY <1>4 DEF ServerOpens, Reply
  <2>2. UNCHANGED <<chan, pf, sock, ssh, pipe, app, fault>> /\ toServer' = toServer
    BY <1>4 DEF ServerOpens, ServerStep
  <2>3. /\ server'.got = server.got /\ server'.sent = server.sent + 0
        /\ server'.sentEof = server.sentEof /\ server'.sentClose = server.sentClose
    BY <1>0, <1>3, <2>1 DEF Servers
  <2>4. CASE state = "open"
    BY Zenon, <1>2, <1>3, <2>1, <2>2, <2>3, <2>4, Sizes
  <2>5. CASE state = "refused"
    BY <1>2, <1>3, <2>1, <2>2, <2>3, <2>5
  <2> QED
    BY <2>4, <2>5
<1>5. CASE ServerSends
  <2>1. /\ server' = [server EXCEPT !.sent = @ + 1, !.win = @ - 1]
        /\ toClient' = Append(toClient, Packet("data", 1))
        /\ ~server.sentEof /\ ~server.sentClose
        /\ UNCHANGED <<chan, pf, sock, ssh, pipe, app, fault>> /\ toServer' = toServer
    BY <1>5 DEF ServerSends, Reply, ServerTalks, ServerStep
  <2>2. /\ server'.got = server.got /\ server'.sent = server.sent + 1
        /\ server'.sentEof = server.sentEof /\ server'.sentClose = server.sentClose
    BY <1>0, <2>1 DEF Servers
  <2> QED
    BY <1>2, <1>3, <2>1, <2>2, 1 \in Nat
<1>6. CASE ServerEnds
  <2>1. /\ server' = [server EXCEPT !.sentEof = TRUE]
        /\ toClient' = Append(toClient, Packet("eof", 0))
        /\ UNCHANGED <<chan, pf, sock, ssh, pipe, app, fault>> /\ toServer' = toServer
    BY <1>6 DEF ServerEnds, Reply, ServerTalks, ServerStep
  <2>2. /\ server'.got = server.got /\ server'.sent = server.sent + 0
        /\ server'.sentEof /\ server'.sentClose = server.sentClose
    BY <1>0, <1>3, <2>1 DEF Servers
  <2> QED
    BY <1>2, <1>3, <2>1, <2>2
<1>7. CASE ServerGrants
  <2>1. /\ server' = [server EXCEPT !.room = RemWindow]
        /\ toClient' = Append(toClient, Packet("adjust", RemWindow - server.room))
        /\ server.room < RemWindow
        /\ UNCHANGED <<chan, pf, sock, ssh, pipe, app, fault>> /\ toServer' = toServer
    BY <1>7 DEF ServerGrants, Reply, ServerTalks, ServerStep
  <2>2. RemWindow - server.room \in Nat
    <3>1. RemWindow \in Nat /\ server.room \in Int /\ server.room < RemWindow
      BY Zenon, <1>0, <2>1, Sizes
    <3> QED
      BY <3>1
  <2>3. /\ server'.got = server.got /\ server'.sent = server.sent + 0
        /\ server'.sentEof = server.sentEof /\ server'.sentClose = server.sentClose
    BY <1>0, <1>3, <2>1 DEF Servers
  <2> QED
    BY <1>2, <1>3, <2>1, <2>2, <2>3
<1>8. CASE ServerCloses \/ ServerAborts
  <2>1. /\ server' = [server EXCEPT !.sentClose = TRUE]
        /\ toClient' = Append(toClient, Packet("close", 0))
        /\ UNCHANGED <<chan, pf, sock, ssh, pipe, app, fault>> /\ toServer' = toServer
    BY <1>8 DEF ServerCloses, ServerAborts, SendClose, Reply, ServerTalks, ServerStep
  <2>2. /\ server'.got = server.got /\ server'.sent = server.sent + 0
        /\ server'.sentEof = server.sentEof /\ server'.sentClose
    BY <1>0, <1>3, <2>1 DEF Servers
  <2> QED
    BY <1>2, <1>3, <2>1, <2>2
<1>9. CASE ServerReceives
  <2> DEFINE p == Head(toServer)
             v == [w EXCEPT !.tx = Tail(@)]
             q == Append(toClient, Packet("reply", 0))
  <2>1. /\ toServer # <<>> /\ toServer' = Tail(toServer)
        /\ UNCHANGED <<chan, pf, sock, ssh, pipe, app, fault>>
        /\ server'.got = (IF p.type = "data" THEN server.got + p.n ELSE server.got)
        /\ server'.sent = server.sent
        /\ server'.sentEof = server.sentEof /\ server'.sentClose = server.sentClose
        /\ toClient' = toClient \/ toClient' = q
    BY <1>0, <1>9 DEF ServerReceives, ServerStep, Reply, Servers
  <2>2. w.tx \in Packets(UpTypes) /\ p \in [type : UpTypes, n : Nat]
        /\ Tail(w.tx) \in Packets(UpTypes)
    BY <1>0, <2>1, Fields, UpFacts
  <2>3. server'.got = server.got + (IF p.type = "data" THEN p.n ELSE 0)
    BY <1>0, <2>1
  <2> HIDE DEF w
  <2>4. /\ v \in Works
        /\ v.chan = w.chan /\ v.pf = w.pf /\ v.sock = w.sock /\ v.ssh = w.ssh
        /\ v.pipe = w.pipe /\ v.fault = w.fault /\ v.tx = Tail(w.tx)
    BY Zenon, <1>0, <2>2 DEF Works
  <2> HIDE DEF v
  <2>5. Become(v) /\ app' = app
    BY <1>0, <2>1, <2>4 DEF Become
  <2>6. p = Head(w.tx) /\ w.tx # <<>>
    BY <1>0, <2>1
  <2> HIDE DEF p, q
  <2>7. Streams(v, toClient, server', app)
    BY Zenon, <1>0, <2>1, <2>3, <2>4, <2>6, TakenStreams
  <2>8. Waits(v)
    BY <1>0, <2>4 DEF Waits
  <2>9. server' \in Servers
    <3>1. IndInv'
      BY ServerSteps
    <3> QED
      BY <3>1 DEF IndInv, Base
  <2>10. server'.sent \in Nat /\ server'.sent + 0 = server'.sent /\ "reply" \in DownTypes
    BY <2>9 DEF Servers, DownTypes
  <2>11. Streams(v, q, server', app)
    BY <1>0, <1>3, <2>4, <2>7, <2>9, <2>10, TellingStreams DEF q
  <2> QED
    BY <2>1, <2>4, <2>5, <2>7, <2>8, <2>11, BecomingFlows
<1> QED
  BY <1>4, <1>5, <1>6, <1>7, <1>8, <1>9 DEF Server

\* Of what was left over from a SOCKS request the server has nothing yet.
LEMMA InitialFlows ==
  ASSUME Init
  PROVE  Flows
<1> DEFINE w == Now
<1>1. PICK early \in 0 .. MaxEarly :
       /\ pf = [ready |-> FALSE, throttled |-> FALSE,
                throttle_override |-> FALSE, buffer |-> early]
       /\ app = [sent |-> early, unread |-> 0, fin |-> FALSE, reset |-> FALSE,
                 got |-> 0, sawEof |-> FALSE]
  BY Zenon DEF Init
<1>2. /\ w.chan.halfopen /\ w.chan.outbuffer = 0 /\ ~w.chan.pending_eof
      /\ w.pf.buffer = early /\ w.sock.output = 0 /\ w.sock.frozen
      /\ w.pipe.data = 0 /\ ~w.pipe.shut /\ w.tx = <<>> /\ toClient = <<>>
      /\ server.got = 0 /\ server.sent = 0
      /\ app.sent = early /\ app.unread = 0 /\ app.got = 0 /\ ~app.sawEof
  BY <1>1, NowIs DEF Init
<1> HIDE DEF w
<1>3. InFlight(w.tx, "data") = 0 /\ InFlight(toClient, "data") = 0
  BY <1>2, AmountsOfNone
<1>4. Load(w) = 0 /\ early \in Nat
  BY <1>2, <1>3, Sizes DEF Load
<1>5. Filled(w.tx) /\ ~EofSent(w)
  BY <1>2 DEF Filled, EofSent, Lacks
<1>6. Upwards(w, server, app)
  BY <1>2, <1>4, <1>5 DEF Upwards
<1>7. Downwards(w, toClient, server, app)
  BY <1>2, <1>3 DEF Downwards
<1>8. Waits(w)
  BY <1>2 DEF Waits
<1> QED
  BY <1>6, <1>7, <1>8 DEF Flows, Streams, w

\* Every step keeps the streams.
LEMMA StepFlows ==
  ASSUME IndInv, Flows, [Next]_vars
  PROVE  Flows'
<1>1. CASE Receive
  BY <1>1, ReceivingFlows
<1>2. CASE SocketEvent
  BY <1>2, SocketFlows
<1>3. CASE Connection
  BY <1>3, ConnectionFlows
<1>4. CASE App
  BY <1>4, AppFlows
<1>5. CASE Server
  BY <1>5, ServerFlows
<1>6. CASE UNCHANGED vars
  <2>1. Now' = Now /\ toClient' = toClient /\ server' = server /\ app' = app
    BY <1>6 DEF vars, Now
  <2> QED
    BY <2>1 DEF Flows
<1> QED
  BY <1>1, <1>2, <1>3, <1>4, <1>5, <1>6 DEF Next

-----------------------------------------------------------------------------
(***************************************************************************)
(* Why PuTTY closes the local socket.  No handler opens it again, none but  *)
(* the unclean close turns the channel into a zombie, and an error waits    *)
(* for its callback only after the connection was reset.  For that the      *)
(* types of a handler's record do not matter, only that it has the fields.  *)
(***************************************************************************)
Shape(w) ==
  /\ {"chan", "sock"} \subseteq DOMAIN w
  /\ {"live", "type"} \subseteq DOMAIN w.chan
  /\ {"live", "pending_error"} \subseteq DOMAIN w.sock

\* From w to v the socket is closed, if at all, and given up only for a reset.
Keeps(w, v) ==
  /\ Shape(v)
  /\ v.sock.live => w.sock.live
  /\ v.chan.type = "ZOMBIE" => w.chan.type = "ZOMBIE" \/ app.reset
  /\ v.sock.pending_error => w.sock.pending_error \/ app.reset

\* One after the other.
LEMMA KeepsOn == \A w, u, v : Keeps(w, u) /\ Keeps(u, v) => Keeps(w, v)
BY DEF Keeps

\* A record that is not changed.
LEMMA KeepsItself == \A w : Shape(w) => Keeps(w, w)
BY DEF Keeps

\* What was kept has its fields.
LEMMA KeptShape == \A w, v : Keeps(w, v) => Shape(v)
BY DEF Keeps

\* Sending a packet does not touch the socket.
LEMMA SendCuts == \A w, type, n : Shape(w) => Keeps(w, Send(w, type, n))
BY DEF Shape, Keeps, Send

\* Nor does an assertion.
LEMMA AssertingCuts == \A w, holds : Shape(w) => Keeps(w, Asserting(w, holds))
BY DEF Shape, Keeps, Asserting, Fail

\* Nor does a look at the channel.
LEMMA TouchCuts == \A w : Shape(w) => Keeps(w, Touch(w))
BY DEF Shape, Keeps, Touch, Fail

\* try_send notes an error only for a connection that was reset.
LEMMA TrySendSocketCuts == \A w : Shape(w) => Keeps(w, TrySendSocket(w))
BY DEF Shape, Keeps, TrySendSocket

\* So does a write that calls it or not.
LEMMA IfWritableCuts == \A w : Shape(w) => Keeps(w, IfWritable(w))
BY TrySendSocketCuts, KeepsItself DEF IfWritable

\* sk_set_frozen neither opens nor closes.
LEMMA SetFrozenCuts == \A w, frozen : Shape(w) => Keeps(w, SetFrozen(w, frozen))
BY DEF Shape, Keeps, SetFrozen

\* pfd_close closes.
LEMMA PfdCloseCuts == \A w : Shape(w) => Keeps(w, PfdClose(w))
BY DEF Shape, Keeps, PfdClose

\* sk_write and its try_send.
LEMMA SkWriteCuts ==
  ASSUME NEW w, Shape(w), NEW n
  PROVE  Keeps(w, SkWrite(w, n))
<1> DEFINE a == Asserting(w, w.sock.outgoingeof = "NO")
           b == [a EXCEPT !.sock.output = @ + n]
<1>1. Keeps(w, a)
  BY AssertingCuts
<1> HIDE DEF a
<1>2. Keeps(a, b)
  BY <1>1 DEF Shape, Keeps
<1> HIDE DEF b
<1>3. Keeps(b, IfWritable(b))
  BY <1>2, IfWritableCuts, KeptShape
<1> QED
  BY <1>1, <1>2, <1>3, KeepsOn DEF SkWrite, a, b

\* sk_write_eof and its try_send.
LEMMA SkWriteEofCuts ==
  ASSUME NEW w, Shape(w)
  PROVE  Keeps(w, SkWriteEof(w))
<1> DEFINE a == Asserting(w, w.sock.outgoingeof = "NO")
           b == [a EXCEPT !.sock.outgoingeof = "PENDING"]
<1>1. Keeps(w, a)
  BY AssertingCuts
<1> HIDE DEF a
<1>2. Keeps(a, b)
  BY <1>1 DEF Shape, Keeps
<1> HIDE DEF b
<1>3. Keeps(b, IfWritable(b))
  BY <1>2, IfWritableCuts, KeptShape
<1> QED
  BY <1>1, <1>2, <1>3, KeepsOn DEF SkWriteEof, a, b

\* ssh_channel_destroy closes, and makes no zombie.
LEMMA DestroyCuts ==
  ASSUME NEW w, Shape(w)
  PROVE  Keeps(w, Destroy(w))
<1> DEFINE a == IF w.chan.type = "SOCKDATA" THEN PfdClose(w) ELSE w
           b == Asserting(a, w.chan.chanreqs = <<>>)
<1>1. Keeps(w, a)
  BY PfdCloseCuts, KeepsItself
<1> HIDE DEF a
<1>2. Keeps(a, b)
  BY <1>1, AssertingCuts, KeptShape
<1> HIDE DEF b
<1>3. Keeps(b, [b EXCEPT !.chan.live = FALSE])
  BY <1>2 DEF Shape, Keeps
<1> QED
  BY <1>1, <1>2, <1>3, KeepsOn DEF Destroy, a, b

\* ssh2_channel_check_close may destroy the channel.
LEMMA CheckCloseCuts ==
  ASSUME NEW w, Shape(w)
  PROVE  Keeps(w, CheckClose(w))
<1> DEFINE s == Send(w, "close", 0)
           u == [s EXCEPT !.chan.closes = @ \cup {"SENT_EOF", "SENT_CLOSE"}]
           v == IF WindUp(w.chan) THEN u ELSE w
           a == Asserting(v, w.chan.chanreqs = <<>>)
<1>1. Keeps(w, s)
  BY SendCuts
<1> HIDE DEF s
<1>2. Keeps(s, u)
  BY <1>1 DEF Shape, Keeps
<1> HIDE DEF u
<1>3. Keeps(w, v)
  BY <1>1, <1>2, KeepsOn, KeepsItself
<1>4. CheckClose(w) = IF w.chan.halfopen THEN w
                      ELSE IF Done(v.chan) THEN Destroy(a) ELSE v
  BY DEF CheckClose, v, u, s
<1> HIDE DEF v
<1>5. Keeps(v, a)
  BY <1>3, AssertingCuts, KeptShape
<1> HIDE DEF a
<1>6. Keeps(a, Destroy(a))
  BY <1>5, DestroyCuts, KeptShape
<1> QED
  BY <1>3, <1>4, <1>5, <1>6, KeepsOn, KeepsItself

\* ssh_channel_try_eof, which ends in it.
LEMMA TryEofCuts ==
  ASSUME NEW w, Shape(w)
  PROVE  Keeps(w, TryEof(w))
<1> DEFINE a == Asserting(w, w.chan.pending_eof)
           s == Send(a, "eof", 0)
           u == [s EXCEPT !.chan.pending_eof = FALSE, !.chan.closes = @ \cup {"SENT_EOF"}]
<1>1. Keeps(w, a)
  BY AssertingCuts
<1> HIDE DEF a
<1>2. Keeps(a, s)
  BY <1>1, SendCuts, KeptShape
<1> HIDE DEF s
<1>3. Keeps(s, u)
  BY <1>2 DEF Shape, Keeps
<1> HIDE DEF u
<1>4. Keeps(u, CheckClose(u))
  BY <1>3, CheckCloseCuts, KeptShape
<1>5. TryEof(w) = IF w.chan.halfopen \/ w.chan.outbuffer > 0 THEN a ELSE CheckClose(u)
  BY DEF TryEof, u, s, a
<1> QED
  BY <1>1, <1>2, <1>3, <1>4, <1>5, KeepsOn

\* sshfwd_write_eof, which ends in that.
LEMMA WriteEofCuts ==
  ASSUME NEW w, Shape(w)
  PROVE  Keeps(w, WriteEof(w))
<1> DEFINE u == [w EXCEPT !.chan.pending_eof = TRUE]
<1>1. Keeps(w, u)
  BY DEF Shape, Keeps
<1> HIDE DEF u
<1>2. Keeps(u, TryEof(u))
  BY <1>1, TryEofCuts, KeptShape
<1>3. WriteEof(w) = IF SentEof(w.chan) THEN w ELSE TryEof(u)
  BY DEF WriteEof, u
<1> QED
  BY <1>1, <1>2, <1>3, KeepsOn, KeepsItself

\* sshfwd_unclean_close makes a zombie, of a connection that was reset.
LEMMA UncleanCloseCuts ==
  ASSUME NEW w, Shape(w), app.reset
  PROVE  Keeps(w, UncleanClose(w))
<1> DEFINE a == IF Forwards(w.chan) THEN PfdClose(w) ELSE w
           u == [a EXCEPT !.chan.type = "ZOMBIE", !.chan.pending_eof = FALSE]
<1>1. Keeps(w, a)
  BY PfdCloseCuts, KeepsItself
<1> HIDE DEF a
<1>2. Keeps(a, u)
  BY <1>1 DEF Shape, Keeps
<1> HIDE DEF u
<1>3. Keeps(u, CheckClose(u))
  BY <1>2, CheckCloseCuts, KeptShape
<1> QED
  BY <1>1, <1>2, <1>3, KeepsOn DEF UncleanClose, u, a

\* ssh2_try_send may send the EOF that waited.
LEMMA TrySendCuts ==
  ASSUME NEW w, Shape(w)
  PROVE  Keeps(w, TrySend(w))
<1> DEFINE n == Smaller(w.chan.remwindow, w.chan.outbuffer)
           v == [w EXCEPT !.chan.outbuffer = @ - n, !.chan.remwindow = @ - n]
           u == IF n > 0 THEN Send(v, "data", n) ELSE v
<1> HIDE DEF n
<1>1. Keeps(w, v)
  BY DEF Shape, Keeps
<1> HIDE DEF v
<1>2. Keeps(v, u)
  BY <1>1, SendCuts, KeptShape, KeepsItself
<1> HIDE DEF u
<1>3. Keeps(u, TryEof(u))
  BY <1>2, TryEofCuts, KeptShape
<1>4. TrySend(w) = IF u.chan.outbuffer = 0 /\ u.chan.pending_eof THEN TryEof(u) ELSE u
  BY DEF TrySend, u, v, n
<1> QED
  BY <1>1, <1>2, <1>3, <1>4, KeepsOn

\* sshfwd_write.
LEMMA WriteCuts ==
  ASSUME NEW w, Shape(w), NEW n
  PROVE  Keeps(w, Write(w, n))
<1> DEFINE u == [w EXCEPT !.chan.outbuffer = @ + n]
<1>1. Keeps(w, u)
  BY DEF Shape, Keeps
<1> HIDE DEF u
<1>2. Keeps(u, TrySend(u))
  BY <1>1, TrySendCuts, KeptShape
<1> QED
  BY <1>1, <1>2, KeepsOn DEF Write, u

\* ssh2_try_send_and_unthrottle.
LEMMA TrySendAndUnthrottleCuts ==
  ASSUME NEW w, Shape(w)
  PROVE  Keeps(w, TrySendAndUnthrottle(w))
<1> DEFINE s == TrySend(w)
           v == Touch(s)
           u == [v EXCEPT !.pf.throttled = FALSE]
           z == SetFrozen(u, v.pf.throttle_override)
<1>1. Keeps(w, s)
  BY TrySendCuts
<1> HIDE DEF s
<1>2. Keeps(s, v)
  BY <1>1, TouchCuts, KeptShape
<1> HIDE DEF v
<1>3. Keeps(v, u)
  BY <1>2 DEF Shape, Keeps
<1> HIDE DEF u
<1>4. Keeps(u, z)
  BY <1>3, SetFrozenCuts, KeptShape
<1>5. TrySendAndUnthrottle(w) =
        IF SentEof(w.chan) THEN w
        ELSE IF v.chan.outbuffer = 0 /\ v.chan.type = "SOCKDATA" THEN z ELSE v
  BY DEF TrySendAndUnthrottle, z, u, v, s
<1> QED
  BY <1>1, <1>2, <1>3, <1>4, <1>5, KeepsOn, KeepsItself

\* pfd_override_throttle.
LEMMA OverrideCuts ==
  ASSUME NEW w, Shape(w), NEW enable
  PROVE  Keeps(w, OverrideThrottle(w, enable))
<1> DEFINE u == [w EXCEPT !.pf.throttle_override = enable]
<1>1. Keeps(w, u)
  BY DEF Shape, Keeps
<1> HIDE DEF u
<1>2. Keeps(u, SetFrozen(u, w.pf.throttled \/ enable))
  BY <1>1, SetFrozenCuts, KeptShape
<1> QED
  BY <1>1, <1>2, KeepsOn DEF OverrideThrottle, u

\* ssh2_set_window.
LEMMA SetWindowCuts ==
  ASSUME NEW w, Shape(w), NEW wanted
  PROVE  Keeps(w, SetWindow(w, wanted))
<1> DEFINE c == w.chan
           newwin == IF Has("BUG_SSH2_MAXPKT") THEN Smaller(wanted, WinSize) ELSE wanted
           asks == newwin = c.locmaxwin /\ ~Has("BUG_CHOKES_ON_WINADJ")
           more == newwin - c.locwindow
           a == Asserting(w, c.closes \cap {"SENT_CLOSE", "RCVD_CLOSE"} = {})
           s == Send(a, "winadj", 0)
           x == [s EXCEPT !.chan.chanreqs = Append(@, more),
                          !.chan.throttle_state =
                            IF @ = "UNTHROTTLED" THEN @ ELSE "UNTHROTTLING"]
           y == [w EXCEPT !.chan.remlocwin = newwin, !.chan.throttle_state = "THROTTLED"]
           v == IF asks THEN x ELSE y
           e == Send(v, "adjust", more)
           z == [e EXCEPT !.chan.locwindow = newwin]
<1>0. SetWindow(w, wanted) =
        IF \/ {"RCVD_EOF", "SENT_CLOSE"} \cap c.closes # {}
           \/ newwin \div 2 < c.locwindow
        THEN w ELSE z
  BY DEF SetWindow
<1> HIDE DEF newwin, asks, more
<1>1. Keeps(w, a)
  BY AssertingCuts
<1> HIDE DEF a
<1>2. Keeps(a, s)
  BY <1>1, SendCuts, KeptShape
<1> HIDE DEF s
<1>3. Keeps(s, x)
  BY <1>2 DEF Shape, Keeps
<1>4. Keeps(w, y)
  BY DEF Shape, Keeps
<1> HIDE DEF x, y
<1>5. Keeps(w, v)
  BY <1>1, <1>2, <1>3, <1>4, KeepsOn
<1> HIDE DEF v
<1>6. Keeps(v, e)
  BY <1>5, SendCuts, KeptShape
<1> HIDE DEF e
<1>7. Keeps(e, z)
  BY <1>6 DEF Shape, Keeps
<1> HIDE DEF z
<1> QED
  BY <1>0, <1>5, <1>6, <1>7, KeepsOn, KeepsItself

\* ssh_throttle_conn.
LEMMA ThrottleConnCuts ==
  ASSUME NEW w, Shape(w), NEW adjust
  PROVE  Keeps(w, ThrottleConn(w, adjust))
<1> DEFINE u == [w EXCEPT !.ssh.conn_throttle_count = @ + adjust]
<1>1. Keeps(w, u)
  BY DEF Shape, Keeps
<1> HIDE DEF u
<1>2. Keeps(u, Asserting(u, w.ssh.conn_throttle_count + adjust >= 0))
  BY <1>1, AssertingCuts, KeptShape
<1> QED
  BY <1>1, <1>2, KeepsOn DEF ThrottleConn, u

\* sshfwd_unthrottle.
LEMMA SshfwdUnthrottleCuts ==
  ASSUME NEW w, Shape(w), NEW bufsize
  PROVE  Keeps(w, SshfwdUnthrottle(w, bufsize))
<1> DEFINE v == SetWindow(w, WindowFor(w, bufsize))
           u == [v EXCEPT !.chan.throttling_conn = FALSE]
<1>1. Keeps(w, v)
  BY SetWindowCuts
<1>2. SshfwdUnthrottle(w, bufsize) =
        IF v.chan.throttling_conn /\ bufsize <= w.chan.locmaxwin
        THEN ThrottleConn(u, -1) ELSE v
  BY DEF SshfwdUnthrottle
<1> HIDE DEF v
<1>3. Keeps(v, u)
  BY <1>1 DEF Shape, Keeps
<1> HIDE DEF u
<1>4. Keeps(u, ThrottleConn(u, -1))
  BY <1>3, ThrottleConnCuts, KeptShape
<1> QED
  BY <1>1, <1>2, <1>3, <1>4, KeepsOn

\* pfd_confirm, with what the SOCKS request left over.
LEMMA PfdConfirmCuts ==
  ASSUME NEW w, Shape(w)
  PROVE  Keeps(w, PfdConfirm(w))
<1> DEFINE a == [w EXCEPT !.pf.ready = TRUE, !.pf.buffer = 0]
           b == SetFrozen(a, FALSE)
           v == SkWrite(b, 0)
<1>1. Keeps(w, a)
  BY DEF Shape, Keeps
<1> HIDE DEF a
<1>2. Keeps(a, b)
  BY <1>1, SetFrozenCuts, KeptShape
<1> HIDE DEF b
<1>3. Keeps(b, v)
  BY <1>2, SkWriteCuts, KeptShape
<1>4. PfdConfirm(w) = IF w.pf.buffer > 0 THEN Write(v, w.pf.buffer) ELSE v
  BY DEF PfdConfirm, v, b, a
<1> HIDE DEF v
<1>5. Keeps(v, Write(v, w.pf.buffer))
  BY <1>3, WriteCuts, KeptShape
<1> QED
  BY <1>1, <1>2, <1>3, <1>4, <1>5, KeepsOn

\* The confirmation of the channel.
LEMMA ConfirmedCuts ==
  ASSUME NEW w, Shape(w), NEW window
  PROVE  Keeps(w, Confirmed(w, window))
<1> DEFINE v == [w EXCEPT !.chan.halfopen = FALSE, !.chan.remwindow = window]
           x == [v EXCEPT !.chan.type = "SOCKDATA"]
           a == Asserting(v, w.chan.type = "ZOMBIE")
           u == IF w.chan.type = "SOCKDATA_DORMANT" THEN PfdConfirm(x) ELSE CheckClose(a)
<1>0. Confirmed(w, window) = IF u.chan.pending_eof THEN TryEof(u) ELSE u
  BY DEF Confirmed
<1>1. Keeps(w, v)
  BY DEF Shape, Keeps
<1> HIDE DEF v
<1>2. Keeps(v, x)
  BY <1>1 DEF Shape, Keeps
<1> HIDE DEF x
<1>3. Keeps(x, PfdConfirm(x))
  BY <1>2, PfdConfirmCuts, KeptShape
<1>4. Keeps(v, a)
  BY <1>1, AssertingCuts, KeptShape
<1> HIDE DEF a
<1>5. Keeps(a, CheckClose(a))
  BY <1>4, CheckCloseCuts, KeptShape
<1>6. Keeps(w, u)
  BY <1>1, <1>2, <1>3, <1>4, <1>5, KeepsOn
<1> HIDE DEF u
<1>7. Keeps(u, TryEof(u))
  BY <1>6, TryEofCuts, KeptShape
<1> QED
  BY <1>0, <1>6, <1>7, KeepsOn

\* Data from the server.
LEMMA GotDataCuts ==
  ASSUME NEW w, Shape(w), NEW n
  PROVE  Keeps(w, GotData(w, n))
<1> DEFINE v == Accounts(w, n)
           x == IF w.chan.type = "SOCKDATA" THEN SkWrite(v, n) ELSE v
           u == Touch(x)
           bufsize == IF w.chan.type = "SOCKDATA" THEN u.sock.output ELSE 0
           grows == /\ u.chan.remlocwin <= 0
                    /\ u.chan.throttle_state = "UNTHROTTLED"
                    /\ u.chan.locmaxwin < MaxWin
           t == [u EXCEPT !.chan.locmaxwin = IF grows THEN @ + WinSize ELSE @]
           r == SetWindow(t, WindowFor(t, bufsize))
           y == [r EXCEPT !.chan.throttling_conn = TRUE]
<1>0. GotData(w, n) = IF bufsize > r.chan.locmaxwin /\ ~r.chan.throttling_conn
                      THEN ThrottleConn(y, 1) ELSE r
  BY DEF GotData
<1>1. Keeps(w, v)
  BY DEF Shape, Keeps, Accounts
<1> HIDE DEF v
<1>2. Keeps(v, x)
  BY <1>1, SkWriteCuts, KeptShape, KeepsItself
<1> HIDE DEF x
<1>3. Keeps(x, u)
  BY <1>2, TouchCuts, KeptShape
<1> HIDE DEF u, bufsize, grows
<1>4. Keeps(u, t)
  BY <1>3 DEF Shape, Keeps
<1> HIDE DEF t
<1>5. Keeps(t, r)
  BY <1>4, SetWindowCuts, KeptShape
<1> HIDE DEF r
<1>6. Keeps(r, y)
  BY <1>5 DEF Shape, Keeps
<1> HIDE DEF y
<1>7. Keeps(y, ThrottleConn(y, 1))
  BY <1>6, ThrottleConnCuts, KeptShape
<1>8. Keeps(w, r)
  BY <1>1, <1>2, <1>3, <1>4, <1>5, KeepsOn
<1> QED
  BY <1>0, <1>6, <1>7, <1>8, KeepsOn

\* EOF from the server.
LEMMA GotEofCuts ==
  ASSUME NEW w, Shape(w)
  PROVE  Keeps(w, GotEof(w))
<1> DEFINE v == [w EXCEPT !.chan.closes = @ \cup {"RCVD_EOF"}]
           x == IF w.chan.type = "SOCKDATA" THEN SkWriteEof(v) ELSE v
<1>1. Keeps(w, v)
  BY DEF Shape, Keeps
<1>0. GotEof(w) = IF "RCVD_EOF" \in w.chan.closes THEN w ELSE CheckClose(x)
  BY DEF GotEof
<1> HIDE DEF v
<1>2. Keeps(v, x)
  BY <1>1, SkWriteEofCuts, KeptShape, KeepsItself
<1> HIDE DEF x
<1>3. Keeps(x, CheckClose(x))
  BY <1>2, CheckCloseCuts, KeptShape
<1> QED
  BY <1>0, <1>1, <1>2, <1>3, KeepsOn, KeepsItself

\* The server's CLOSE ends the sending ...
LEMMA StopSendingCuts ==
  ASSUME NEW w, Shape(w)
  PROVE  Keeps(w, StopSending(w))
<1> DEFINE v == IF w.chan.type = "SOCKDATA" THEN OverrideThrottle(w, TRUE) ELSE w
           x == [v EXCEPT !.chan.outbuffer = 0]
           e == WriteEof(x)
<1>0. StopSending(w) = IF SentEof(w.chan) THEN w ELSE Touch(e)
  BY DEF StopSending
<1>1. Keeps(w, v)
  BY OverrideCuts, KeepsItself
<1> HIDE DEF v
<1>2. Keeps(v, x)
  BY <1>1 DEF Shape, Keeps
<1> HIDE DEF x
<1>3. Keeps(x, e)
  BY <1>2, WriteEofCuts, KeptShape
<1> HIDE DEF e
<1>4. Keeps(e, Touch(e))
  BY <1>3, TouchCuts, KeptShape
<1> QED
  BY <1>0, <1>1, <1>2, <1>3, <1>4, KeepsOn, KeepsItself

\* ... and the channel.
LEMMA GotCloseCuts ==
  ASSUME NEW w, Shape(w)
  PROVE  Keeps(w, GotClose(w))
<1> DEFINE e == GotEof(w)
           t == Touch(e)
           f == ForgetRequests(t)
           v == StopSending(f)
           x == [v EXCEPT !.chan.closes = @ \cup {"RCVD_CLOSE"}]
<1>0. GotClose(w) = IF "RCVD_CLOSE" \in v.chan.closes THEN v ELSE CheckClose(x)
  BY DEF GotClose
<1>1. Keeps(w, e)
  BY GotEofCuts
<1> HIDE DEF e
<1>2. Keeps(e, t)
  BY <1>1, TouchCuts, KeptShape
<1> HIDE DEF t
<1>3. Keeps(t, f)
  <2>1. Shape(t)
    BY <1>2, KeptShape
  <2> QED
    BY <2>1 DEF Shape, Keeps, ForgetRequests
<1> HIDE DEF f
<1>4. Keeps(f, v)
  BY <1>3, StopSendingCuts, KeptShape
<1> HIDE DEF v
<1>5. Keeps(v, x)
  BY <1>4 DEF Shape, Keeps
<1> HIDE DEF x
<1>6. Keeps(x, CheckClose(x))
  BY <1>5, CheckCloseCuts, KeptShape
<1> QED
  BY <1>0, <1>1, <1>2, <1>3, <1>4, <1>5, <1>6, KeepsOn

\* pfd_receive, which may freeze the socket.
LEMMA PfdReceiveCuts ==
  ASSUME NEW w, Shape(w), NEW n
  PROVE  Keeps(w, PfdReceive(w, n))
<1> DEFINE v == IF w.pf.ready THEN Write(w, n) ELSE w
           x == [v EXCEPT !.pf.throttled = TRUE]
<1>0. PfdReceive(w, n) = IF w.pf.ready /\ v.chan.outbuffer > 0 THEN SetFrozen(x, TRUE) ELSE v
  BY DEF PfdReceive
<1>1. Keeps(w, v)
  BY WriteCuts, KeepsItself
<1> HIDE DEF v
<1>2. Keeps(v, x)
  BY <1>1 DEF Shape, Keeps
<1> HIDE DEF x
<1>3. Keeps(x, SetFrozen(x, TRUE))
  BY <1>2, SetFrozenCuts, KeptShape
<1> QED
  BY <1>0, <1>1, <1>2, <1>3, KeepsOn

\* What FD_CLOSE reads first.
LEMMA DrainsCuts ==
  ASSUME NEW w, Shape(w), NEW n
  PROVE  Keeps(w, Drains(w, n))
BY PfdReceiveCuts, KeepsItself DEF Drains

-----------------------------------------------------------------------------
(* ... and so for the steps.                                               *)

\* The local socket is given up only after a reset.
CutInv ==
  /\ chan.type = "ZOMBIE" => app.reset
  /\ sock.pending_error => app.reset

\* The state of the model has the fields.
LEMMA NowShape ==
  ASSUME IndInv
  PROVE  Shape(Now)
<1>1. chan \in Chans /\ sock \in Socks
  BY InvHolds
<1>2. {"live", "type"} \subseteq DOMAIN chan
  BY <1>1 DEF Chans
<1>3. {"live", "pending_error"} \subseteq DOMAIN sock
  BY <1>1 DEF Socks
<1>4. {"chan", "sock"} \subseteq DOMAIN Now
  BY DEF Now
<1> QED
  BY <1>2, <1>3, <1>4, NowIs DEF Shape

\* What a handler leaves is the next state.
LEMMA BecomingCuts ==
  ASSUME CutInv, NEW w, Keeps(Now, w), Become(w), app.reset => app'.reset
  PROVE  CutInv' /\ (sock'.live => sock.live)
BY NowIs DEF CutInv, Keeps, Become

\* A handler of the socket or of the connection that keeps them.
LEMMA LocalCuts ==
  ASSUME CutInv, NEW w, Keeps(Now, w), LocalStep(w), app.reset => app'.reset
  PROVE  CutInv' /\ (sock'.live => sock.live)
BY BecomingCuts DEF LocalStep

\* Taking a packet from the network.
LEMMA TakingCuts ==
  ASSUME IndInv, NEW left
  PROVE  Keeps(Now, Taking(left)) /\ Shape(Taking(left))
<1>1. Keeps(Now, Taking(left))
  BY NowShape DEF Taking, Shape, Keeps
<1> QED
  BY <1>1, KeptShape

\* The handler of a packet that keeps them.
LEMMA HandlingCuts ==
  ASSUME IndInv, CutInv, NEW left, NEW w, Keeps(Taking(left), w), Handled(w)
  PROVE  CutInv' /\ (sock'.live => sock.live)
<1> DEFINE v == [w EXCEPT !.ssh.reading = w.ssh.queued > 0 /\ w.ssh.conn_throttle_count = 0]
<1>1. Become(v) /\ app' = app
  BY DEF Handled
<1>2. Keeps(w, v)
  <2>1. Shape(w)
    BY KeptShape
  <2> QED
    BY <2>1 DEF Shape, Keeps
<1> HIDE DEF v
<1>3. Keeps(Now, v)
  BY <1>2, TakingCuts, KeepsOn
<1> QED
  BY <1>1, <1>3, BecomingCuts

\* Every packet from the server.
LEMMA ReceivingCuts ==
  ASSUME IndInv, CutInv, Receive
  PROVE  CutInv' /\ (sock'.live => sock.live)
<1>1. CASE OpenConfirmation
  <2>1. PICK left \in Left : Handled(Confirmed(Taking(left), Head(toClient).n))
    BY <1>1 DEF OpenConfirmation
  <2>2. Keeps(Taking(left), Confirmed(Taking(left), Head(toClient).n))
    BY TakingCuts, ConfirmedCuts
  <2> QED
    BY <2>1, <2>2, HandlingCuts
<1>2. CASE OpenFailure
  <2>1. PICK left \in Left :
          LET w == [Taking(left) EXCEPT !.chan.live = FALSE]
          IN Handled(IF Forwards(chan) THEN PfdClose(w) ELSE w)
    BY <1>2 DEF OpenFailure
  <2> DEFINE w == [Taking(left) EXCEPT !.chan.live = FALSE]
             v == IF Forwards(chan) THEN PfdClose(w) ELSE w
  <2>2. Handled(v)
    BY <2>1
  <2>3. Keeps(Taking(left), w)
    BY TakingCuts DEF Shape, Keeps
  <2> HIDE DEF w
  <2>4. Keeps(w, v)
    BY <2>3, PfdCloseCuts, KeptShape, KeepsItself
  <2> HIDE DEF v
  <2>5. Keeps(Taking(left), v)
    BY <2>3, <2>4, KeepsOn
  <2> QED
    BY <2>2, <2>5, HandlingCuts
<1>3. CASE WindowAdjust
  <2>1. PICK left \in Left :
          Handled(IF SentEof(chan) THEN Taking(left)
                  ELSE TrySendAndUnthrottle([Taking(left)
                         EXCEPT !.chan.remwindow = @ + Head(toClient).n]))
    BY <1>3 DEF WindowAdjust
  <2> DEFINE w == [Taking(left) EXCEPT !.chan.remwindow = @ + Head(toClient).n]
             v == IF SentEof(chan) THEN Taking(left) ELSE TrySendAndUnthrottle(w)
  <2>2. Handled(v)
    BY <2>1
  <2>3. Keeps(Taking(left), w)
    BY TakingCuts DEF Shape, Keeps
  <2> HIDE DEF w
  <2>4. Keeps(w, TrySendAndUnthrottle(w))
    BY <2>3, TrySendAndUnthrottleCuts, KeptShape
  <2>5. Keeps(Taking(left), v)
    BY <2>3, <2>4, KeepsOn, KeepsItself, TakingCuts
  <2> HIDE DEF v
  <2> QED
    BY <2>2, <2>5, HandlingCuts
<1>4. CASE ChannelData
  <2>1. PICK left \in Left : Handled(GotData(Taking(left), Head(toClient).n))
    BY <1>4 DEF ChannelData
  <2>2. Keeps(Taking(left), GotData(Taking(left), Head(toClient).n))
    BY TakingCuts, GotDataCuts
  <2> QED
    BY <2>1, <2>2, HandlingCuts
<1>5. CASE ChannelResponse
  <2>1. PICK left \in Left :
          Handled(IF chan.chanreqs = <<>> THEN Fail(Taking(left), "unexpected")
                  ELSE CheckClose(Answered(Taking(left))))
    BY <1>5 DEF ChannelResponse
  <2> DEFINE f == Fail(Taking(left), "unexpected")
             a == Answered(Taking(left))
             v == IF chan.chanreqs = <<>> THEN f ELSE CheckClose(a)
  <2>2. Handled(v)
    BY <2>1
  <2>3. Keeps(Taking(left), f)
    BY TakingCuts DEF Shape, Keeps, Fail
  <2>4. Keeps(Taking(left), a)
    BY TakingCuts DEF Shape, Keeps, Answered
  <2> HIDE DEF f, a
  <2>5. Keeps(a, CheckClose(a))
    BY <2>4, CheckCloseCuts, KeptShape
  <2>6. Keeps(Taking(left), v)
    BY <2>3, <2>4, <2>5, KeepsOn
  <2> HIDE DEF v
  <2> QED
    BY <2>2, <2>6, HandlingCuts
<1>6. CASE ChannelEof
  <2>1. PICK left \in Left : Handled(GotEof(Taking(left)))
    BY <1>6 DEF ChannelEof
  <2> QED
    BY <2>1, TakingCuts, GotEofCuts, HandlingCuts
<1>7. CASE ChannelClose
  <2>1. PICK left \in Left : Handled(GotClose(Taking(left)))
    BY <1>7 DEF ChannelClose
  <2> QED
    BY <2>1, TakingCuts, GotCloseCuts, HandlingCuts
<1> QED
  BY <1>1, <1>2, <1>3, <1>4, <1>5, <1>6, <1>7 DEF Receive

\* Every event of the local socket.
LEMMA SocketCuts ==
  ASSUME IndInv, CutInv, SocketEvent
  PROVE  CutInv' /\ (sock'.live => sock.live)
<1>0. Shape(Now) /\ app \in Apps
  BY NowShape, InvHolds
<1>1. CASE FdRead
  <2>1. PICK n \in 1 .. app.unread :
          LocalStep(PfdReceive(Now, n)) /\ app' = [app EXCEPT !.unread = @ - n]
    BY <1>1 DEF FdRead
  <2>2. app'.reset = app.reset
    BY <1>0, <2>1 DEF Apps
  <2> QED
    BY <1>0, <2>1, <2>2, PfdReceiveCuts, LocalCuts
<1>2. CASE FdWrite
  <2> DEFINE x == [Now EXCEPT !.sock.writable = TRUE]
             u == TrySendSocket(x)
             v == IF u.sock.output < sock.output THEN SshfwdUnthrottle(u, u.sock.output) ELSE u
  <2>1. LocalStep(v) /\ app' = app
    BY <1>2 DEF FdWrite
  <2>2. Keeps(Now, x)
    BY <1>0 DEF Shape, Keeps
  <2> HIDE DEF x
  <2>3. Keeps(x, u)
    BY <2>2, TrySendSocketCuts, KeptShape
  <2> HIDE DEF u
  <2>4. Keeps(u, SshfwdUnthrottle(u, u.sock.output))
    BY <2>3, SshfwdUnthrottleCuts, KeptShape
  <2>5. Keeps(Now, v)
    BY <2>2, <2>3, <2>4, KeepsOn
  <2> HIDE DEF v
  <2> QED
    BY <2>1, <2>5, LocalCuts
<1>3. CASE FdClose
  <2> DEFINE x == [Now EXCEPT !.sock.closed = TRUE]
             r == Drains(x, app.unread)
             v == IF app.reset THEN UncleanClose(x) ELSE WriteEof(r)
  <2>1. LocalStep(v) /\ app' = [app EXCEPT !.unread = 0]
    BY <1>3 DEF FdClose, Drains
  <2>2. app'.reset = app.reset
    BY <1>0, <2>1 DEF Apps
  <2>3. Keeps(Now, x)
    BY <1>0 DEF Shape, Keeps
  <2> HIDE DEF x
  <2>4. app.reset => Keeps(x, UncleanClose(x))
    BY <2>3, UncleanCloseCuts, KeptShape
  <2>5. Keeps(x, r)
    BY <2>3, DrainsCuts, KeptShape
  <2> HIDE DEF r
  <2>6. Keeps(r, WriteEof(r))
    BY <2>5, WriteEofCuts, KeptShape
  <2>7. Keeps(Now, v)
    BY <2>3, <2>4, <2>5, <2>6, KeepsOn
  <2> HIDE DEF v
  <2> QED
    BY <2>1, <2>2, <2>7, LocalCuts
<1>4. CASE SocketErrorCallback
  <2> DEFINE x == [Now EXCEPT !.sock.pending_error = FALSE]
             v == IF sock.live THEN UncleanClose(x) ELSE x
  <2>1. LocalStep(v) /\ app' = app /\ app.reset
    BY <1>4 DEF SocketErrorCallback, CutInv
  <2>2. Keeps(Now, x)
    BY <1>0 DEF Shape, Keeps
  <2> HIDE DEF x
  <2>3. Keeps(x, UncleanClose(x))
    BY <2>1, <2>2, UncleanCloseCuts, KeptShape
  <2>4. Keeps(Now, v)
    BY <2>2, <2>3, KeepsOn
  <2> HIDE DEF v
  <2> QED
    BY <2>1, <2>4, LocalCuts
<1> QED
  BY <1>1, <1>2, <1>3, <1>4 DEF SocketEvent

\* ssh_throttle_all.
LEMMA ThrottleAllCuts ==
  ASSUME NEW w, Shape(w), NEW enable
  PROVE  Keeps(w, ThrottleAll(w, enable))
<1> DEFINE v == [w EXCEPT !.ssh.throttled_all = enable]
<1>1. Keeps(w, v)
  BY DEF Shape, Keeps
<1>2. ThrottleAll(w, enable) =
        IF chan.live /\ chan.type = "SOCKDATA" THEN OverrideThrottle(v, enable) ELSE v
  BY DEF ThrottleAll
<1> HIDE DEF v
<1>3. Keeps(v, OverrideThrottle(v, enable))
  BY <1>1, OverrideCuts, KeptShape
<1> QED
  BY <1>1, <1>2, <1>3, KeepsOn

\* Every event of the connection as a whole.
LEMMA ConnectionCuts ==
  ASSUME IndInv, CutInv, Connection
  PROVE  CutInv' /\ (sock'.live => sock.live)
<1>0. Shape(Now) /\ chan \in Chans /\ sock \in Socks
  BY NowShape, InvHolds
<1>1. CASE QueueResumes
  BY <1>1 DEF QueueResumes, CutInv
<1>2. CASE BacklogHigh
  <2>1. LocalStep(ThrottleAll(Now, TRUE)) /\ app' = app
    BY <1>2 DEF BacklogHigh
  <2>2. Keeps(Now, ThrottleAll(Now, TRUE))
    BY <1>0, ThrottleAllCuts
  <2> QED
    BY <2>1, <2>2, LocalCuts
<1>3. CASE BacklogLow
  <2>1. LocalStep(ThrottleAll(Now, FALSE)) /\ app' = app
    BY <1>3 DEF BacklogLow
  <2>2. Keeps(Now, ThrottleAll(Now, FALSE))
    BY <1>0, ThrottleAllCuts
  <2> QED
    BY <2>1, <2>2, LocalCuts
<1>4. CASE DoClose
  <2>1. /\ chan' = [chan EXCEPT !.live = FALSE] /\ app' = app
        /\ sock' = [sock EXCEPT !.live = @ /\ ~(chan.live /\ Forwards(chan))]
    BY <1>4 DEF DoClose
  <2>2. chan'.type = chan.type
    BY <1>0, <2>1 DEF Chans
  <2>3. sock'.pending_error = sock.pending_error /\ (sock'.live => sock.live)
    BY <1>0, <2>1 DEF Socks
  <2> QED
    BY <2>1, <2>2, <2>3 DEF CutInv
<1> QED
  BY <1>1, <1>2, <1>3, <1>4 DEF Connection

\* The two ends and the stutters change neither the channel nor the socket.
LEMMA EndsCuts ==
  ASSUME IndInv, CutInv, App \/ Server \/ UNCHANGED vars
  PROVE  CutInv' /\ (sock'.live => sock.live)
<1>1. chan' = chan /\ sock' = sock
  BY DEF App, AppWrites, AppShuts, AppResets, AppReads, AppSeesEof, AppStep, Server, ServerOpens,
         ServerSends, ServerEnds, ServerGrants, ServerCloses, ServerAborts, SendClose,
         ServerReceives, ServerTalks, ServerStep, vars
<1>2. app.reset => app'.reset
  <2>1. app \in Apps
    BY InvHolds
  <2>2. CASE App
    BY <2>1, <2>2 DEF App, AppWrites, AppShuts, AppResets, AppReads, AppSeesEof, Apps
  <2>3. CASE Server \/ UNCHANGED vars
    BY <2>3 DEF Server, ServerOpens, ServerSends, ServerEnds, ServerGrants, ServerCloses,
                ServerAborts, SendClose, ServerReceives, ServerTalks, ServerStep, vars
  <2> QED
    BY <2>2, <2>3
<1> QED
  BY <1>1, <1>2 DEF CutInv

\* So no step opens the socket, and it is given up only for a reset.
LEMMA StepCuts ==
  ASSUME IndInv, CutInv, [Next]_vars
  PROVE  CutInv' /\ (sock'.live => sock.live)
BY ReceivingCuts, SocketCuts, ConnectionCuts, EndsCuts DEF Next

\* At the start there is neither a zombie nor an error.
LEMMA InitialCuts ==
  ASSUME Init
  PROVE  CutInv
BY DEF Init, CutInv

\* So the socket is closed only when the forwarding is broken.
LEMMA ClosedWhenBroken ==
  ASSUME NEW w, NEW cl, NEW sv, NEW ap, Base(w, cl, sv), w.chan.type = "ZOMBIE" => ap.reset,
         ~w.sock.live
  PROVE  ~w.ssh.open \/ sv.state = "refused" \/ sv.sentClose \/ ap.reset
<1>1. CASE ~w.chan.live
  BY <1>1 DEF Base, Gone
<1>2. CASE w.chan.live
  <2>1. w \in Works /\ ~Forwards(w.chan)
    BY <1>2 DEF Base, Sides
  <2>2. w.chan.type \in {"SOCKDATA_DORMANT", "SOCKDATA", "ZOMBIE"}
    BY <2>1 DEF Works, Chans
  <2> QED
    BY <2>1, <2>2 DEF Forwards
<1> QED
  BY <1>1, <1>2

-----------------------------------------------------------------------------
(* Each direction implements the stream that HalfStream promises.          *)

\* PuTTY's handlers give and take nothing at either end.
LEMMA HandlersStutter ==
  ASSUME IndInv, Receive \/ SocketEvent \/ Connection
  PROVE  /\ server' = server /\ app'.sent = app.sent /\ app'.fin = app.fin
         /\ app'.got = app.got /\ app'.sawEof = app.sawEof
<1>0. app \in Apps
  BY InvHolds
<1>1. CASE Receive
  BY Zenon, <1>1 DEF Receive, OpenConfirmation, OpenFailure, WindowAdjust, ChannelData,
              ChannelResponse, ChannelEof, ChannelClose, Handled
<1>2. CASE FdRead
  <2>1. PICK n \in 1 .. app.unread : app' = [app EXCEPT !.unread = @ - n]
    BY <1>2 DEF FdRead
  <2>2. server' = server
    BY <1>2 DEF FdRead, LocalStep
  <2> QED
    BY <1>0, <2>1, <2>2 DEF Apps
<1>3. CASE FdClose
  BY <1>0, <1>3 DEF FdClose, LocalStep, Apps
<1>5. CASE FdWrite \/ SocketErrorCallback
  BY <1>5 DEF FdWrite, SocketErrorCallback, LocalStep
<1>4. CASE Connection
  BY Zenon, <1>4 DEF Connection, QueueResumes, BacklogHigh, BacklogLow, DoClose, LocalStep
<1> QED
  BY <1>1, <1>2, <1>3, <1>4, <1>5 DEF SocketEvent

\* What the server does, as far as the streams see it.
LEMMA ServerSees ==
  ASSUME IndInv, Server
  PROVE  /\ app' = app /\ server \in Servers /\ server.sent \in Nat /\ server.got \in Nat
         /\ \/ /\ ServerSends /\ ~server.sentEof /\ ~server.sentClose
               /\ server'.sent = server.sent + 1 /\ server'.got = server.got
               /\ server'.sentEof = server.sentEof /\ server'.sentClose = server.sentClose
               /\ server'.gotEof = server.gotEof
            \/ /\ ServerEnds /\ ~server.sentEof /\ ~server.sentClose
               /\ server'.sentEof /\ server'.sentClose = server.sentClose
               /\ server'.sent = server.sent /\ server'.got = server.got
               /\ server'.gotEof = server.gotEof
            \/ /\ SendClose /\ ~server.sentClose
               /\ server'.sentClose /\ server'.sentEof = server.sentEof
               /\ server'.sent = server.sent /\ server'.got = server.got
               /\ server'.gotEof = server.gotEof
            \/ /\ ServerOpens \/ ServerGrants
               /\ server'.sent = server.sent /\ server'.got = server.got
               /\ server'.sentEof = server.sentEof /\ server'.sentClose = server.sentClose
               /\ server'.gotEof = server.gotEof
            \/ /\ ServerReceives
               /\ server'.sent = server.sent
               /\ server'.sentEof = server.sentEof /\ server'.sentClose = server.sentClose
               /\ server'.gotEof = (server.gotEof \/ Head(toServer).type = "eof")
               /\ server'.got = IF Head(toServer).type = "data"
                                THEN server.got + Head(toServer).n ELSE server.got
<1>0. server \in Servers
  BY InvHolds
<1>1. server.sent \in Nat /\ server.got \in Nat
  BY <1>0 DEF Servers
<1>2. app' = app
  BY DEF Server, ServerOpens, ServerSends, ServerEnds, ServerGrants, ServerCloses, ServerAborts,
         SendClose, ServerReceives, ServerTalks, ServerStep
<1>3. CASE ServerOpens \/ ServerGrants
  BY <1>0, <1>1, <1>2, <1>3 DEF ServerOpens, ServerGrants, Servers
<1>4. CASE ServerSends
  BY <1>0, <1>1, <1>2, <1>4 DEF ServerSends, ServerTalks, Servers
<1>5. CASE ServerEnds
  BY Zenon, <1>0, <1>1, <1>2, <1>5 DEF ServerEnds, ServerTalks, Servers
<1>6. CASE ServerCloses \/ ServerAborts
  <2>1. SendClose
    BY <1>6 DEF ServerCloses, ServerAborts
  <2> QED
    BY Zenon, <1>0, <1>1, <1>2, <2>1 DEF SendClose, ServerTalks, Servers
<1>7. CASE ServerReceives
  BY <1>0, <1>1, <1>2, <1>7 DEF ServerReceives, Servers
<1> QED
  BY <1>3, <1>4, <1>5, <1>6, <1>7 DEF Server

\* What comes down: every step that closes the socket stops the stream.
LEMMA DownSteps ==
  ASSUME IndInv, IndInv', CutInv, CutInv', Flows, sock'.live => sock.live, [Next]_vars
  PROVE  [Down!Next]_(Down!vars)
<1> DEFINE w == Now
           stopped == ~sock.live /\ Broken
           now == ~sock'.live /\ Broken'
<1>0. /\ app \in Apps /\ server \in Servers /\ pipe \in Pipes /\ w \in Works /\ w.pipe = pipe
      /\ toClient \in Packets(DownTypes) /\ Downwards(w, toClient, server, app)
      /\ Base(w, toClient, server)
  BY InvHolds, NowIs DEF Flows, Streams, Base
<1>r. sock.live \in BOOLEAN
  <2>1. sock \in Socks
    BY InvHolds
  <2> QED
    BY <2>1 DEF Socks
<1>s. stopped <=> ~sock.live
  <2>1. w.sock = sock /\ w.ssh = ssh /\ w.chan = chan
    BY NowIs
  <2>2. ~sock.live => ~ssh.open \/ server.state = "refused" \/ server.sentClose \/ app.reset
    BY <1>0, <2>1, ClosedWhenBroken DEF CutInv
  <2> QED
    BY <2>2 DEF Broken
<1>t. now <=> ~sock'.live
  <2> DEFINE v == Now'
  <2>1. v.sock = sock' /\ v.ssh = ssh' /\ v.chan = chan'
    BY DEF Now
  <2>2. Base(v, toClient', server') /\ (v.chan.type = "ZOMBIE" => app'.reset)
    BY <2>1 DEF IndInv, CutInv
  <2> HIDE DEF v
  <2>3. ~sock'.live =>
          ~ssh'.open \/ server'.state = "refused" \/ server'.sentClose \/ app'.reset
    BY <2>1, <2>2, ClosedWhenBroken
  <2> QED
    BY <2>3 DEF Broken
<1> HIDE DEF w, stopped, now
<1>1. CASE Receive \/ SocketEvent \/ Connection \/ UNCHANGED vars
  <2>1. /\ server' = server /\ app'.got = app.got /\ app'.sawEof = app.sawEof
    BY <1>1, HandlersStutter DEF vars
  <2>2. CASE sock.live /\ ~sock'.live
    <3>1. stopped = FALSE /\ now = TRUE
      BY <1>s, <1>t, <2>2 DEF stopped, now
    <3>2. Down!Stop
      BY <2>1, <3>1 DEF Down!Stop, stopped, now
    <3> QED
      BY <3>2 DEF Down!Next
  <2>3. CASE ~(sock.live /\ ~sock'.live)
    <3>1. now = stopped
      BY <1>s, <1>t, <2>3 DEF stopped, now
    <3> QED
      BY <2>1, <3>1 DEF Down!vars, stopped, now
  <2> QED
    BY <2>2, <2>3
<1>6. CASE App \/ Server
  <2>1. sock' = sock
    BY <1>6 DEF App, AppWrites, AppShuts, AppResets, AppReads, AppSeesEof, AppStep, Server,
            ServerOpens, ServerSends, ServerEnds, ServerGrants, ServerCloses, ServerAborts,
            SendClose, ServerReceives, ServerTalks, ServerStep
  <2>2. now = stopped
    BY <1>s, <1>t, <2>1 DEF stopped, now
  <2>3. CASE AppWrites \/ AppShuts \/ AppResets
    <3>1. /\ server' = server /\ app'.got = app.got /\ app'.sawEof = app.sawEof
      BY Zenon, <1>0, <2>3 DEF AppWrites, AppShuts, AppResets, AppStep, Apps
    <3> QED
      BY <2>2, <3>1 DEF Down!vars, stopped, now
  <2>4. CASE AppReads
    <3>1. /\ server' = server /\ app'.got = app.got + 1 /\ app'.sawEof = app.sawEof
          /\ pipe.data > 0
      BY <1>0, <2>4 DEF AppReads, AppStep, Apps
    <3>2. app.got + 1 \in app.got + 1 .. server.sent /\ ~app.sawEof
      <4> DEFINE a == app.got
                 d == pipe.data
                 o == w.sock.output
                 f == InFlight(toClient, "data")
                 t == server.sent
      <4>1. a \in Nat /\ d \in Nat /\ o \in Nat /\ f \in Nat /\ t \in Nat
        BY <1>0, Loads, Amounts DEF Servers, Apps
      <4>2. a + d + o + f <= t /\ (app.sawEof => d = 0)
        BY <1>0 DEF Downwards
      <4>3. d > 0
        BY <3>1
      <4> HIDE DEF a, d, o, f, t
      <4>4. a + 1 \in a + 1 .. t /\ ~app.sawEof
        BY <4>1, <4>2, <4>3
      <4> QED
        BY <4>4 DEF a, t
    <3>3. Down!Take
      BY <2>2, <3>1, <3>2 DEF Down!Take, stopped, now
    <3> QED
      BY <3>3 DEF Down!Next
  <2>5. CASE AppSeesEof
    <3>1. /\ server' = server /\ app'.got = app.got /\ ~app.sawEof /\ app'.sawEof = TRUE
          /\ pipe.shut \/ ~sock.live
          /\ pipe.data = 0
      BY <1>0, <2>5 DEF AppSeesEof, AppStep, Apps
    <3>2. pipe.shut => (server.sentEof \/ server.sentClose) /\ server.sent = app.got + 0
      BY <1>0, <3>1 DEF Downwards
    <3>3. stopped \/ ((server.sentEof \/ server.sentClose) /\ app.got = server.sent)
      BY <1>0, <1>s, <3>1, <3>2 DEF Apps
    <3>4. Down!See
      BY <2>2, <3>1, <3>3 DEF Down!See, stopped, now
    <3> QED
      BY <3>4 DEF Down!Next
  <2>6. CASE Server
    <3>1. CASE /\ ~server.sentEof /\ ~server.sentClose
               /\ server'.sent = server.sent + 1 /\ app' = app
               /\ server'.sentEof = server.sentEof /\ server'.sentClose = server.sentClose
      <4>1. Down!Give
        BY <2>2, <3>1 DEF Down!Give, stopped, now
      <4> QED
        BY <4>1 DEF Down!Next
    <3>2. CASE /\ ~server.sentEof /\ ~server.sentClose
               /\ server'.sentEof \/ server'.sentClose
               /\ server'.sent = server.sent /\ app' = app
      <4>1. Down!End
        BY <2>2, <3>2 DEF Down!End, stopped, now
      <4> QED
        BY <4>1 DEF Down!Next
    <3>3. CASE /\ server'.sent = server.sent /\ app' = app
               /\ server'.sentEof = server.sentEof /\ server'.sentClose = server.sentClose
      BY <2>2, <3>3 DEF Down!vars, stopped, now
    <3>4. CASE /\ server.sentEof /\ server'.sentEof
               /\ server'.sent = server.sent /\ app' = app
      BY <2>2, <3>4 DEF Down!vars, stopped, now
    <3> QED
      BY <2>6, <3>1, <3>2, <3>3, <3>4, ServerSees
  <2> QED
    BY <1>6, <2>3, <2>4, <2>5, <2>6 DEF App
<1> QED
  BY <1>1, <1>6 DEF Next

\* What goes up.
LEMMA UpSteps ==
  ASSUME IndInv, Flows, [Next]_vars, ~Late(Now)
  PROVE  [Up!Next]_(Up!vars)
<1> DEFINE w == Now
<1>0. /\ app \in Apps /\ server \in Servers /\ w \in Works /\ w.tx = toServer /\ w.ssh = ssh
      /\ SentUp(w, server) /\ Upwards(w, server, app)
  BY InvHolds, NowIs DEF Flows, Streams, Base
<1> HIDE DEF w
<1>1. CASE Receive \/ SocketEvent \/ Connection \/ UNCHANGED vars
  <2>1. server' = server /\ app'.sent = app.sent /\ app'.fin = app.fin
    BY <1>1, HandlersStutter DEF vars
  <2> QED
    BY <2>1 DEF Up!vars
<1>2. CASE AppWrites
  <2>1. /\ server' = server /\ app'.sent = app.sent + 1 /\ app'.fin = app.fin /\ ~app.fin
    BY <1>0, <1>2 DEF AppWrites, AppStep, Apps
  <2>2. Up!Give
    BY <2>1 DEF Up!Give
  <2> QED
    BY <2>2 DEF Up!Next
<1>3. CASE AppShuts
  <2>1. /\ server' = server /\ app'.sent = app.sent /\ app'.fin = TRUE /\ ~app.fin
    BY <1>0, <1>3 DEF AppShuts, AppStep, Apps
  <2>2. Up!End
    BY <2>1 DEF Up!End
  <2> QED
    BY <2>2 DEF Up!Next
<1>4. CASE AppResets \/ AppReads \/ AppSeesEof
  <2>1. server' = server /\ app'.sent = app.sent /\ app'.fin = app.fin
    BY Zenon, <1>0, <1>4 DEF AppResets, AppReads, AppSeesEof, AppStep, Apps
  <2> QED
    BY <2>1 DEF Up!vars
<1>5. CASE Server
  <2>1. CASE /\ app' = app /\ server'.got = server.got
             /\ server'.sentClose = server.sentClose /\ server'.gotEof = server.gotEof
    BY <2>1 DEF Up!vars
  <2>2. CASE /\ app' = app /\ ~server.sentClose /\ server'.sentClose = TRUE
             /\ server'.got = server.got /\ server'.gotEof = server.gotEof
    <3>1. Up!Stop
      BY <2>2 DEF Up!Stop
    <3> QED
      BY <3>1 DEF Up!Next
  <2>3. CASE ServerReceives
    <3> DEFINE h == Head(toServer)
               n == h.n
               g == server.got
               o == w.chan.outbuffer
               f == InFlight(toServer, "data")
               k == InFlight(Tail(toServer), "data")
               b == w.pf.buffer
               r == app.unread
               s == app.sent
    <3>1. /\ toServer \in Packets(UpTypes) /\ toServer # <<>> /\ w.ssh.open
          /\ Ordered(toServer, UpOrder)
          /\ server.gotEof => Lacks(toServer, {"data", "eof"})
      BY <1>0, <2>3, Loads DEF ServerReceives, SentUp
    <3>2. /\ h \in [type : UpTypes, n : Nat] /\ Tail(toServer) \in Packets(UpTypes)
          /\ \A some : Lacks(toServer, some) => Lacks(Tail(toServer), some) /\ h.type \notin some
          /\ f = (IF h.type = "data" THEN h.n ELSE 0) + k
          /\ h.type = "eof" => Lacks(Tail(toServer), {"data", "eof"})
      BY <3>1, UpFacts
    <3>3. server.gotEof => h.type \notin {"data", "eof"}
      BY <3>1, <3>2
    <3>4. /\ app' = app /\ server'.sentClose = server.sentClose
          /\ server'.gotEof = (server.gotEof \/ h.type = "eof")
          /\ server'.got = IF h.type = "data" THEN g + n ELSE g
      BY <2>3 DEF ServerReceives, ServerStep, Servers
    <3>5. h.type = "data" => n > 0
      BY <1>0, <3>1, FilledTail DEF Upwards
    <3>6. /\ g \in Nat /\ o \in Nat /\ f \in Nat /\ k \in Nat /\ b \in Nat /\ r \in Nat
          /\ s \in Nat /\ n \in Nat
      <4>1. n \in Nat
        BY <3>2
      <4> HIDE DEF n
      <4> QED
        BY Zenon, <1>0, <3>1, <3>2, <4>1, Loads, Amounts DEF Servers, Apps
    <3>7. /\ g + (o + f) + b + r <= s
          /\ ~server.sentClose /\ EofSent(w) => app.fin /\ s = g + f
      BY <1>0, <3>1 DEF Upwards, Load
    <3>8. server.got = g /\ app.sent = s
      OBVIOUS
    <3>9. CASE h.type = "data"
      <4>1. f = n + k
        BY <3>2, <3>9
      <4>2. server'.got = g + n /\ server'.gotEof = server.gotEof /\ ~server.gotEof
        BY <1>0, <3>3, <3>4, <3>9 DEF Servers
      <4>3. n > 0
        BY <3>5, <3>9
      <4> HIDE DEF h, n, g, o, f, k, b, r, s
      <4>4. g + n \in g + 1 .. s
        BY <3>6, <3>7, <4>1, <4>3
      <4>5. Up!Take
        BY <3>4, <3>8, <4>2, <4>4 DEF Up!Take
      <4> QED
        BY <4>5 DEF Up!Next
    <3>10. CASE h.type = "eof"
      <4>1. server'.got = g /\ server'.gotEof = TRUE /\ ~server.gotEof
        BY Zenon, <3>3, <3>4, <3>10
      <4>2. EofSent(w)
        <5>1. Lacks(toServer, {"eof"}) => h.type \notin {"eof"}
          BY <3>2
        <5> QED
          BY <1>0, <3>10, <5>1 DEF EofSent
      <4>3. k = 0
        <5>1. Lacks(Tail(toServer), {"data"})
          BY <3>2, <3>10 DEF Lacks
        <5> QED
          BY <3>2, <5>1, NoneInFlight
      <4>4. f = 0
        BY <3>2, <3>10, <4>3
      <4> HIDE DEF h, n, g, o, f, k, b, r, s
      <4>5. server.sentClose \/ (app.fin /\ g = s)
        BY <3>6, <3>7, <4>2, <4>4
      <4>6. Up!See
        BY <3>4, <3>8, <4>1, <4>5 DEF Up!See
      <4> QED
        BY <4>6 DEF Up!Next
    <3>11. CASE h.type \notin {"data", "eof"}
      <4>1. server'.got = server.got /\ server'.gotEof = server.gotEof
        BY <1>0, <3>4, <3>11 DEF Servers
      <4> QED
        BY <2>1, <3>4, <4>1
    <3> QED
      BY <3>9, <3>10, <3>11
  <2>4. server'.sentClose \in BOOLEAN
    <3>1. IndInv'
      BY <1>5, ServerSteps
    <3>2. server' \in Servers
      BY <3>1 DEF IndInv, Base
    <3> QED
      BY <3>2 DEF Servers
  <2> QED
    BY Zenon, <1>5, <2>1, <2>2, <2>3, <2>4, ServerSees
<1> QED
  BY <1>1, <1>2, <1>3, <1>4, <1>5 DEF Next, App

\* As long as PuTTY has not closed the local socket, the local program reads what
\* the server sent, nothing else and nothing more, and sees the end only after all
\* of it, whatever the windows, the throttles and the backlog do (sk_tcp_write,
\* try_send, ssh2_channel_got_eof).  PuTTY closes the socket only when the SSH
\* connection is down, the opening was refused, the server has sent CLOSE or the
\* local connection was reset (pfd_close, ssh_do_close): only then can an
\* end come too soon.
THEOREM SshChannelDownStream == Spec => DownStream
<1>1. Init => IndInv /\ CutInv /\ Flows /\ Down!Init
  <2> SUFFICES ASSUME Init PROVE Down!Init
    BY Initially, InitialFlows, InitialCuts
  <2>1. /\ app.got = 0
        /\ app.sawEof = FALSE
    BY DEF Init
  <2>2. /\ server.sent = 0
        /\ server.sentEof = FALSE
        /\ server.sentClose = FALSE
    BY DEF Init
  <2>3. (server.sentEof \/ server.sentClose) = FALSE
    BY <2>2
  <2>4. server.sent \in Nat
    BY <2>2, 0 \in Nat
  <2>5. (~sock.live /\ Broken) = FALSE
    BY DEF Init
  <2> QED
    BY <2>1, <2>3, <2>4, <2>5 DEF Down!Init
<1>2. IndInv /\ CutInv /\ Flows /\ [Next]_vars
        => IndInv' /\ CutInv' /\ Flows' /\ [Down!Next]_(Down!vars)
  BY Steps, StepCuts, StepFlows, DownSteps
<1> QED
  BY <1>1, <1>2, PTL DEF Spec, DownStream, Down!Spec

\* The server takes what the local program wrote, nothing else and nothing more,
\* and EOF only after all of it, unless it has closed the channel itself
\* (sshfwd_write, ssh2_try_send, ssh_channel_try_eof, sshfwd_unclean_close).  It is
\* so with servers that do not answer a request after their CLOSE: to those that
\* do, data may go after EOF, as NoMoreIsRead shows.
THEOREM SshChannelUpStream ==
  ASSUME \A bugs \in BugSets : "BUG_SENDS_LATE_REQUEST_REPLY" \notin bugs
  PROVE  Spec => UpStream
<1>1. Init => IndInv /\ Flows /\ Up!Init
  <2> SUFFICES ASSUME Init PROVE Up!Init
    BY Initially, InitialFlows
  <2>1. app \in Apps
    BY Initially, InvHolds
  <2>2. app.sent \in Nat
    BY <2>1 DEF Apps
  <2> QED
    BY <2>2 DEF Init, Up!Init
<1>2. IndInv => ~Late(Now)
  BY InvHolds, NowIs DEF Late, Sshs
<1>3. IndInv /\ Flows /\ [Next]_vars => IndInv' /\ Flows' /\ [Up!Next]_(Up!vars)
  BY <1>2, Steps, StepFlows, UpSteps
<1> QED
  BY <1>1, <1>3, PTL DEF Spec, UpStream, Up!Spec
=============================================================================
