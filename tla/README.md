# Specifications of PuTTY-nd6x

PuTTY-nd6x is a tabbed PuTTY for Windows.  Around a fork of PuTTY (`putty/`,
`psftp/`) it adds its own event framework (`fsm/`), a ZMODEM transfer engine
(`zmodem/`), the tabbed windows (`putty_view/`), a Google Drive store for the
sessions (`putty_view/google_drive_fsm_session.cpp`) and an Android device
scanner (`adb/`).  This directory holds TLA+ specifications of the parts whose
correctness depends on the order in which things happen.

## Inventory

### The parts written for this program

**KfifoBuffer** (`fsm/KfifoBuffer.*`).  *State*: a ring of bytes whose size is a
power of two and two unsigned indices that are never reset.  *Operations*: `put`,
`putn`, `get`, `getn`, `peek`, `peekn`, `commitRead`.  *Used by* WinWorker's job
queue and the two queues of a SocketConnection, by one producer and one consumer
thread, without a lock.  *Hard*: the two threads copy at the same time; the
indices wrap at 2^32; full and empty must be told apart.  *Correct when* it is a
FIFO of bytes.

**WinWorker and WinProcessor** (`fsm/WinWorker.*`, `fsm/WinProcessor.*`).
*State*: a queue of jobs, a mutex, a condition variable, a heap of timers, a stop
flag; one worker on a background thread, one polled on the UI thread.
*Operations*: `process` (post a job), `addLocalTimer`, `cancelLocalTimer`, `run`,
`stop`.  *Used by* every asynchronous call of the program.  *Hard*: the worker
takes jobs and tests the queue without the mutex the posting threads hold, a post
signals after it has released the mutex, and a stop sets its flag and signals
without it.  *Correct when* each job is run once and in order, no job and no due
timer is slept on, and a stop ends.

**SocketConnection, Reactor, Protocol** (`fsm/`).  *State*: a status, an input and
an output queue, whether reading was stopped, two libevent events, a heartbeat
timer, a reference to itself.  *Operations*: `onRead`, `onWrite`, `_close`,
`_release`, `onHeartbeat`, adding events, on the background worker; `getInput`,
`sendn`, `close`, `closeAfterSent`, from the protocol on the UI worker.  *Hard*:
the two threads share the status, the queues, `stopReadingM` and `selfM` without
locks; jobs are bound to a bare `this`.  *Correct when* data never stalls in
either direction, one read at a time is under way, and the connection is
destroyed once, after everything that uses it.

**TcpServer** (`fsm/TcpServer.*`).  The listening socket, its `accept` loop, and
`start` and `stop`.  *Hard*: the accept event is not persistent.

**Session, Fsm, State, Action** (`fsm/`).  A table of transitions with entry and
exit actions; `handleEvent` dispatches, an undefined event leads to a default
handler; `asynHandleEvent` posts an event to the message loop.  The base of the
two machines below.

**ZmodemSession** (`zmodem/`, `putty_view/zmodem_file.*`).  *State*: the state of
the machine, the undecoded input, the last frame, the file and its position, six
flags.  *Operations*: one handler per state and event; input from the back end,
the file dialog, the user's cancel and the closing of the tab come from outside.
*Hard*: input is cut into chunks anywhere; events are posted and overtaken by
input; the user cancels or closes the tab at any moment; the back end may be full.
*Correct when* a file is transferred whole and in order in both directions, and
nothing refers to a session that is gone.

**GoogleDriveFsmSession** (`putty_view/google_drive_fsm_session.*`).  *State*: the
state of the machine, two tokens, the request and the answer of the moment, the ids
of the files of the folder by session, three work lists.  *Operations*: the dialog
opens and closes, edits the lists and applies them; the machine signs in, lists,
uploads, downloads and deletes, with HTTP requests made on the background worker
and an OAuth code received by a SocketConnection.  *Hard*: a request is read when
its job runs and an answer is delivered to whatever state the machine is in when it
comes; requests and answers are lost and retried; a listing comes in pages; the
three lists interact.  *Correct when* the session comes to rest, the map it shows is
the drive, and each change that was applied is made, or left unmade, whole.

**AdbManager** (`adb/`).  A scan repeated by a timer of the background worker,
started and stopped from the UI thread.

**min_heap** (`fsm/min_heap.h`).  The array heap under WinWorker's timers.

**Tabbed windows** (`putty_view/`).  Chromium views; they deliver input, keys and
closes to the other parts.

### The fork of PuTTY

**SSH-2 channels and local forwarding** (`putty/ssh.c`, `putty/portfwd.c`,
`putty/windows/winnet.c`).  *State*: per channel its type, what EOF and CLOSE went
which way, the two windows, the outstanding requests, a buffer towards the server;
per forwarding two throttle flags; per local socket a buffer, a frozen flag and a
pending EOF; for the connection a count of the channels that freeze it.
*Operations*: one handler per channel message, per socket event, and the two
throttles of the whole connection.  *Hard*: data, window adjustments, EOF and CLOSE
cross on the wire; a slow local reader must stop the peer and a fast one must never
leave it without a window; either end may fail at any stage; a call may free the
channel its caller still uses.  *Correct when* each direction is a stream whose end
comes last, the two ends agree on the windows, and channel and socket go together.

**SSH transport and authentication** (`putty/ssh.c`).  The packet protocol, key
exchange and rekeying, user authentication: coroutines over one socket.

**Connection sharing** (`putty/sshshare.c`): switched off in this program.
The constants `share_can_be_downstream` and `share_can_be_upstream` are 0 (2149), and `share_receive` is `assert(false)` (1928).

**Other users of a channel** (`portfwd.c`'s listeners and SOCKS dialogue,
`x11fwd.c`, `pageant.c`, the main session).

**Timers** (`putty/timing.c`, `putty_view/putty_timer.h`) and their clients
(`putty/pinger.c`, the rekeying of `putty/ssh.c`).  *State*: a tree of timers, the
set of contexts that are alive, the one-shot timer of the front end; per pinger and
per session the time of the timer that counts.  *Operations*: `schedule_timer`,
`expire_timer_context`, `run_timers`; a client is made, changed and freed, and its
callback called.  *Hard*: the order of the tree is relative to a clock that wraps and
moves on; no timer can be taken back; the timers of a freed client stay in the tree,
and its address goes to another.  *Correct when* no timer is forgotten or called too
soon, none is called for a client that is gone, a connection with keepalives on has
a ping to come, and keys do not outlive the time set for them.

**Terminal, other protocols, proxies, cryptography, configuration, psftp**: see
"Not modelled".

### Interactions

```
 UI thread                                         background worker thread
 ---------                                         ------------------------
 tabs ----> ZmodemSession <---> back end           WinWorker.run
              |  ^                                   |   jobs, then timers
   message loop, file dialog                         |
 GoogleDriveFsmSession  --process(job)-->  job queue (KfifoBuffer + mutex)
   ^   handleInput                                   |
   |                                                 v
 UI worker's job queue  <--process(job)--  SocketConnection  <-- Reactor timer
                                             in/out KfifoBuffers    (libevent)

 UI thread only:
 local program <--pipe--> Actual_Socket <--> PortForwarding <--> ssh_channel
                           (winnet.c)         (portfwd.c)          |  (ssh.c)
                                                                   v
                                      server <--packets--> SSH connection
```

## Modules

| Module | Models | Kind |
| --- | --- | --- |
| `ByteFifo` | the FIFO that KfifoBuffer promises | abstract |
| `KfifoBuffer` | the ring buffer, one byte copied per step | detailed |
| `KfifoBufferProofs` | its theorems | proofs |
| `JobQueue` | the queue of jobs that a worker promises | abstract |
| `WinWorker` | posting threads, one worker, its timers, a stop | detailed |
| `WinWorkerProofs` | its theorems | proofs |
| `SocketConnection` | one connection between its accept and its destruction | detailed |
| `SocketConnectionProofs` | its theorems | proofs |
| `ZmodemSession` | one ZMODEM session and the program at the other end | detailed |
| `ZmodemSessionProofs` | its theorems | proofs |
| `HalfStream` | what a forwarded connection promises in one direction | abstract |
| `SshChannel` | one local-to-remote forwarding, its local program and its server | detailed |
| `SshChannelInvariant` | its inductive invariant, and what of the two streams is under way | definitions for the proofs |
| `SshChannelProofs` | lemmas about the operators the handlers are built from, the handlers keep the invariant, its theorems | proofs |
| `SshChannelStreamProofs` | what the handlers do to the two streams, why PuTTY closes the local socket, the theorems about the streams | proofs |
| `DriveSession` | the cloud session, its requests on the worker, and the drive | detailed |
| `DriveSessionProofs` | its theorems | proofs |
| `Timing` | the timers and the front end's timer that serves them | detailed, a library |
| `SessionTimers` | the pinger and the rekeying timer, on `Timing` | composition |
| `SessionTimersProofs` | the order of times on a clock that wraps, the inductive invariant of the timers, its theorems | proofs |
| `MC...` | instances of these for TLC, with the `.cfg` files | instances |

Some definitions are preceded by a comment "Faulty ...": a variant of the
definition that follows with a plausible mistake in it.  No specification uses
them.  Each shows that a property would notice the mistake.

### KfifoBuffer

A call reads the other side's index once, copies with two `memcpy` calls, and then
moves its own index.  Each of these is a step, and so is each byte copied; the two
threads interleave between any two of them.  `UAdd` and `USub` are the unsigned
arithmetic at `Modulus`, `Slot` the `& maskM`, `CopyOffset` where the two copies
put byte i.  Byte number p of the stream is the number p, so order is visible.
`commitRead` checks nothing in the code; its guard is what its one caller,
`SocketConnection::onWrite`, passes.

### WinWorker

`slots`, `readIndexM` and `writeIndexM` are the ring of the job queue with its indices,
which wrap; a slot holds a job, that is a pointer (KfifoBuffer has the bytes), and
`Jobs` is a set, so that the same job is posted again and again and the queue is told
apart from another by what is in it.  `post[t]` is where a thread is in `process`: it
has the mutex and has looked at the queue, has copied its job into the ring, has moved
the index and released the mutex, has signalled.  `pc` is where the worker is in `run` and `handle_jobs`: loop test, jobs, timers, the unlocked choice
between the two waits, taking the mutex, the test under it, the wait.  The
condition variable is that of the vendored library: a wait releases the mutex and
starts waiting in one step, a signal wakes the worker if it waits and is lost if
not, and a worker may wake by itself.  The worker copies a job out of the ring and
then moves its index without the mutex.  Nothing bounds how many jobs are posted, so
that jobs may keep coming for ever.  A Reactor may exist or not; its timer arms itself
again in every callback (`loop_in_bg_processor`).

`JobQueue` is what the callers may count on: a sequence of jobs, to which a call of
`process` adds its job at the end, or drops it when the sequence is full, in one step,
and from which the worker takes the first and runs it.  `Queued` reads that sequence out
of the ring.

### SocketConnection

The background worker runs one job at a time, in the order posted, and its
timers when there is no job; `bg` is where it is in its job and `bgJobs` what is
posted.  The UI worker runs the handlers of the protocol; `ui` is where it is in
them.  Every access to what both threads share is a step.  The protocol is
`GoogleDriveFsmSession`, the only one the program has: `handleInput` drains the
queue and may reply, or closes.  A job records whether it holds a reference; the
connection is destroyed when `selfM` and all references are gone.  What the code
cannot survive (a job on a destroyed connection, a freed event, a null pointer)
ends the behaviour in `crash`, which names it.  `WSAGetLastError` is not consulted
by the code, so a read or write that would block, or that finds the connection reset,
is taken for a failure or not, whatever `errno` last held.  The test of the water mark
at the end of `onRead` and the store to `stopReadingM` are two steps, between which the
UI thread may take from the queue.  The `event_add` of the constructor may fail like
any other, and is then posted.

### ZmodemSession

`Transitions` is the table of `getZmodemFsm`.  `event` is the event being handled;
"entry" means that a state has just been entered and its entry action is next, and
"more data" that `handleZdata` has asked for another round.  An event from outside
is taken only when none is being handled: everything runs on the UI thread.  The
stream is a sequence of tokens: the parts of a header where a chunk may be cut
(its padding, its encoding byte, its body, its line end and XON), the bytes of the data
(each may come escaped, as two tokens), the end of a subpacket and its CRC, and noise,
which another program on the terminal may print into the data.  A chunk is any prefix
of what is in flight, so it may end behind any byte, inside an escape and inside a CRC.

`HandleZdata` decodes a byte or an escape at a time.  `scan.at` and `scan.saved` are the
indices `lastCheckExcaped_` and `lastCheckExcapedSaved_`, up to which the buffer has been
looked at and decoded in place, and `scan.crc` is what `dataCrc_` covers: the places in
the file of the bytes decoded.  A CRC is right exactly if these are the bytes it was
made of.  When the buffer ends too soon the scan breaks off (`WaitForData`,
`ScanBreaksOff`), and goes on with these three when more input comes.

The program at the other end is sz or rz of lrzsz, modelled from what the session
waits for and answers; it is external.  Files are counted in bytes.

`Calm` states the conditions in which the decoder works as its author meant it to:
a chunk holds one frame and ends where the decoder can bear it, a RESET that was
posted is handled before more input comes, and nothing of a transfer is left in
flight when the next begins.  Both kinds of conditions are checked, for different
properties.

### SshChannel

PuTTY runs its handlers one at a time on one thread, so a handler is an action.
The handlers call each other deeply (a WINDOW_ADJUST may send the last data, then
an EOF, then CLOSE, and free the channel), so each function of the code is an
operator on a record `w` of what it may change: `chan`, `pf`, `sock`, `ssh`, what it
sends and the first assertion that failed.  `Become(w)` makes the result the next
state.  A function that the code lets run on after a call that may have freed its
channel calls `Touch`, which is a fault if it did.

`chan`, `pf` and `sock` have the fields of `struct ssh_channel`,
`struct PortForwarding` and `struct Socket_tag` that matter; `closes` is the set of
the four bits.  The list of requests holds the size that each `winadj` request
carries.  `ssh.queued` counts the packets in `queued_incoming_data` and of the chunk
being taken; `ssh.reading` says that `ssh_gotdata` has not returned.  The model
begins when the CHANNEL_OPEN has just gone; `MaxEarly` is what `pfd_receive` kept
after a SOCKS request.  A chunk may bring several packets, which are handled
without a local event in between (`Idle`).

`ssh_throttle_all` is called when a packet PuTTY sends makes the backlog of the SSH
socket too long.  That moment depends on the network only, so `BacklogHigh` is an
action of its own: any time a packet is under way.  The connection may break at any
time (`DoClose`).

The server is any that keeps to RFC 4254, up to `Excess` units beyond its window: it
answers requests in order until its CLOSE, and closes when it likes.  `ssh.remote_bugs`
is one of the sets in `BugSets`, chosen when the model begins as the code chooses it
from the server's version, of the three bugs that matter here; the code's behaviour
towards them follows.  A server with `BUG_SENDS_LATE_REQUEST_REPLY` answers requests
after its CLOSE too (`LateReplies`).
The local program writes, ends, resets, and reads what the pipe of `PipeSize` units
holds.  Winsock tells of a reset by failing the next read or write.  FD_CLOSE first
reads what is outstanding, frozen or not (`FdClose`); that Winsock reports the close of a
frozen socket only when there is nothing left to read is assumed (`CloseDue`), while
the close of any other may come before its data is read.

`sk_tcp_close` frees the socket with its `output_data` and calls `closesocket`, which
ends the connection in an orderly way, since nobody sets SO_LINGER.  So when PuTTY closes
the socket the local program reads what the system holds and then an end (`AppSeesEof`),
no matter what PuTTY has thrown away: it cannot tell a stream that was cut short from a
whole one.  `DownStream` says exactly when this can happen: only when the forwarding is
`Broken`, that is when the server refused or closed the channel, the local connection was
reset, or the SSH connection is gone.

### DriveSession

`gd` holds the members of the session and the settings of this machine.  Every
action of the machine is an operator on `gd` that returns it after all states
entered on the way; a handler of the UI thread is one action, `Commit`.  An action
that needs a request writes `http`, which is the address, the body and the headers,
and posts a job (`jobs`) that carries only the method.  The worker reads `http`
when it takes the job (`BgStart`), and leaves the answer in the two members that
`HandleHttpRsp` reads when it runs.  So an answer may come to a state that did not
ask for it, and a job may perform a request written after it was posted: with a
method the address is not meant for, the service refuses.

An event with no entry in the table sends the machine to its last state,
RENAME_SESSION.  Nothing ever fills that state's list, so its entry action goes on
to CHECK_ACTION: `Undefined`.

A request may be lost, or served and its answer lost; curl then tries again, and
after `MaxTries` gives up.  The service may refuse, or answer what was not asked
for (`OddAnswers`).  The dialog may be closed while an answer is due and opened
again.  These are bounded by `MaxTrouble` in all.

Two history variables say what the properties are about.  `plan` is what the lists
asked for when they were last applied.  `orderly` becomes false when the dialog is
opened with an answer still due, when an event has no action, when a refusal is
saved as a session, and when the answer to a creation is lost: what the program
then does is listed under "What the models show besides".

A download may go to a local session of another name (`saveAs`): the text of the file
is saved under that name, by the entry of the list that is worked on.

Simplifications: the progress timer of 100 ms is taken to fire before the next
event, so that the buttons are shown exactly in CHECK_ACTION, where `ApplyChanges` does
not find the session busy (its other branch is in the model); a message box is not
taken to run handlers; an answer comes whole or not at all; the listening socket
can be opened.

### Timing and SessionTimers

The clock is the set `0..Wrap-1`.  The tree is a sequence, into which
`schedule_timer` inserts where `compare_timers` says, with the clock of that moment;
nothing keeps it sorted afterwards, which is why `NothingForgotten` says that it is.
`tm` is the static state of `timing.c` and the timer of the front end (`wake`, which
counts down and may go off `Early` ticks too soon or `Lag` too late).  `run_timers`
is a step per timer, so that the clock moves while it runs; it reads the clock once,
when it starts, and ignores the time it is passed.

A context is an address.  An address that was freed may be used again, with timers
of the former client still in the tree.  `tm.lost` is a history variable: the
contexts that `schedule_timer` left out of the set of live ones since it found an
identical timer, see below.  `ssh[c].age` is another, the ticks since the last key
exchange.  A session is modelled from the time its first key exchange is under way.
`ssh[c].bug` says that the server has BUG_SSH2_REKEY: `do_ssh2_transport` then begins no
exchange but sets the timer for the next one (`Rekey`), and the age of the keys says
nothing.  The other clients of the timers are left out.

## Runs

| Run | Configuration | States | What it shows |
| --- | --- | --- | --- |
| `kfifo` | 4 bytes, indices that wrap at 8, lengths 0, 1, 3, 5, a stream of 18 | 6 377 | bytes are read once, in order and untorn (`CopiedInOrder`), unread bytes are never overwritten (`NeverOverwritesUnread`), occupancy is exact across the wrap (`OccupancyExact`), the buffer implements `ByteFifo` |
| `worker` | a posting thread and the worker's own jobs, which post 2 jobs without end, a ring of 2 places whose indices wrap at 4, 1 timer, with a reactor and without | 266 669 | an unlimited wait never has work waiting (`SleepsOnlyWhenIdle`), the jobs accepted are run in that order, each as often as it was accepted (`ImplementsJobQueue`), all jobs run, and due timers fire unless jobs keep coming (`WorkIsDone`), `WinProcessor::stop` returns when there is a reactor, unless jobs keep coming (`StopReturns`) |
| `connection` | input queue 3 with marks 1 and 2, output queue 2, 3 units of input, 1 reply | 180 868 | neither direction stalls (`NeverStalls`), one reader (`SingleReader`), lifetime (`JobsFindConnection`, `ClosedIsReleased`) |
| `connection_upper_jobs` | the same, 4 units of input | | violated: see "Findings" |
| `zmodem` | file of 3 bytes in subpackets of up to 2, each byte escaped or not, one transfer, one repeat by rz of each kind, one full back end, one byte of noise in the data, chunks cut anywhere, cancel and close at any moment | ZSTATES | `DownloadWhole`, `UploadInOrder`, `NoTaskAfterDelete` |
| `zmodem_calm` | the same file, two transfers, calm conditions, no cancel | 11 731 | `NoCrash`, `TransferCompletes` (both directions) |
| `channel` | window 1 that may grow to 2, 4 units down, or 3 in both directions, with up to 1 beyond the window, chunks of 2 packets, a server with the two window bugs or without | CSTATES | no assertion fails, PuTTY gets no packet for a channel that is gone, and a socket has an owner (`NoFault`), both ends agree on windows and requests (`BooksAgree`), the server receives nothing it must not (`ServerSatisfied`), the local program is held back only for a reason (`HeldForAReason`), a server in its window never fills PuTTY (`BacklogBounded`), both streams refine `HalfStream` (`UpStream`, `DownStream`) |
| `channel_live` | 2 units down, 1 up, a server that answers after its CLOSE | LSTATES | `EndsArrive`, `BytesMove` |
| `channel_freeze` | a small instance | | violated: see "Findings" |
| `channel_reads` | a small instance, a server that answers after its CLOSE | | violated: see "Findings" |
| `drive` | 2 sessions, each downloaded under either name, listings of one file a page, 1 round of changes, 1 fault of any kind | 779 224 | a busy session waits for something that comes (`WaitIsAnswered`) and comes to rest (`Rests`), the map it shows is the drive (`MapIsDrive`), changes are made whole or not at all (`ChangesAreDone`) |
| `timers` | a clock of 14 values, delays up to 2, a front end 1 tick early or late, a pinger and a session, whose server may have the bug, 3 changes | 4 509 242 | no timer is forgotten (`NothingForgotten`) or called too soon or for a client that is gone (`CallsWhenDue`), a ping is always to come (`PingIsSet`), keys do not grow too old and the next exchange is not forgotten (`KeysAreFresh`) |

### Bounds

- KfifoBuffer: 18 bytes take both indices past the wrap at 8 twice; the lengths
  include none, one, one less than the size, and more than the size.  The theorems
  remove the bound.
- WinWorker: what can go wrong is a race between a post, the worker's test and a
  second post, or the worker's own; a posting thread and the worker, each posting
  without end, cover all of them.  A ring of two overflows, and its indices pass the
  wrap again and again.  Two jobs are told apart, so that one run twice or in the place
  of another is seen.  The clock passes the one timer's interval.  The theorems remove
  the bounds for safety.
- SocketConnection: a queue of three with marks at one and two has all four of
  empty, low, above low water and full, and three units fill it.
  `MaxQueue` only bounds how often `event_add` is retried.
- ZmodemSession: a file of three bytes in subpackets of two has a full one, which ends
  in ZCRCG, and a short one, which ends in ZCRCE, and a chunk may be cut at every place
  of both.  A byte of noise makes the CRC of a subpacket wrong.  One transfer suffices
  with cancels, since what goes wrong across transfers is known (below); two show that a
  session can be used again.

- SshChannel: with windows of one and two an adjustment is sent, or not, for every
  count, and `locmaxwin` can grow once.  Four units down, one of them beyond the
  window, through a pipe of one that makes the local reader slow, freeze the
  connection with packets left in the queue and let it resume (`QueueResumes`).  Three
  units up through a window of one leave data in `outbuffer` with an EOF behind it.
  `MaxUnits` leaves out that both directions are long at once, since what they share
  is whether the channel is open, closing or a zombie, and the throttle of all
  streams.  The theorems remove the bounds for the six invariants.  The loop
  that cuts data into packets of `remmaxpkt` is left out: no property depends on
  packet size.
- DriveSession: with two sessions and pages of one file, a listing has a second
  page, the lists have a first and a later entry, and a session can be uploaded or
  downloaded under the name of the other.  One fault reaches every retry and every
  failure.
- SessionTimers: the assumptions of `Timing` say how long delays may be for a clock of
  `Wrap` values; 14 values with delays of 2 leave room for a timer that is late and one
  that was set a while ago, and short enough a clock to wrap during each run of the
  system.  Three changes make a client, free it and make it again at its address, or
  change its interval twice.

`CHECK_DEADLOCK FALSE` is set where the system may stop: a worker that was told to
stop, a connection that is gone, a program that crashed, transfers that are over, a
user who does nothing more, sessions that are closed.

### Fairness

- WinWorker: the scheduler runs each thread that can run, that is the worker, a
  thread inside `process` and the stopping thread.  The worker gets the mutex in the
  end, however often the others take it, and a job or a callback ends whatever it posts
  before.  Nothing is assumed to post, to stop or to wake spuriously, nor to end
  posting: `DueTimersFire` and `StopReturns` allow a worker that never leaves the loop of
  `handle_jobs`, which is the starvation that the code does not prevent.
- SocketConnection: both workers run their next step; a dispatch of libevent ends
  and does not pass over a ready socket for ever (strong fairness, since other
  steps come between two dispatches); `event_add`, which fails when memory is
  short, does not fail for ever; and `errno` does not hold EWOULDBLOCK each time that
  a read fails.
- ZmodemSession: the UI thread finishes what it handles and runs its message loop,
  the timer fires, bytes arrive and the other program answers.  The user is not
  assumed to do anything: `TransferCompletes` allows a file dialog left open.

- SshChannel: the message loop serves each socket event that stays due.  Taking a
  packet or reading may leave the same kind of event due, so these have weak
  fairness (of the effect on the queue they take from); every other handler makes
  its own event not due, so its fairness is stated as that the event does not stay
  due for ever.  The SSH socket drains, the server answers, grants and closes, and
  the local program reads.  Nobody is assumed to write, to end or to fail.

- DriveSession: the worker takes its jobs and the UI worker runs its own, and a try
  of curl ends, which its timeout sees to.  Nothing is assumed of the user, nor of
  the browser: `Rests` allows a session that waits to be signed in.
- SessionTimers: none.  That time passes is a step like any other, and its guards
  bound how late the front end may be.

`StopReturns` needs the reactor: without an armed timer, the worker may test
`isToStopM`, then the stop sets it and signals, then the worker waits for ever.
The program always creates a Reactor, and its 10 ms timer bounds the wait.

### Findings

`connection_upper_jobs`: a comment in `SocketConnection.h` (150-152) says that for
the upper protocol "selfM should be applied" in case a message comes after the
connection is deleted.  `close()` and the `asynRead` of `getInput` post their jobs
bound to `this` instead.  In the run `_close` falls between the test in `close()`
and its post; `_release` then destroys the connection before that job runs.

`channel_freeze`: a comment says data is delayed "until after the freeze is lifted"
(ssh.c:946).  If the channel that froze the connection loses its local end, nothing
lifts the freeze.  It takes a server that sends beyond its window, which the code
expects (8604).

`channel_reads`: when the server's CLOSE comes, the code overrides the throttle of the
channel to "make sure we don't read any more from whatever our local data source is"
(ssh.c:8864).  The same flag is what `ssh_throttle_all` sets for every channel, and
clears again for every channel (3970).  A channel that stays behind, because the server
still owes it answers, is then read from again, and data goes out after EOF.  This is
why `ServerSatisfied` excepts a server that answers late; of any other server it is
proved.

### What the models show besides

These are reached in the models.  Nothing in the repository promises the contrary,
so they are recorded here and as hazards rather than as findings.

- `closeAfterSent` overwrites `CloseE` of a connection that has been closed, which
  revives it: freed events are then added or deleted again.
- When `sendn` is written out before `closeAfterSent` is called, nobody looks at
  the status again, and the connection is closed only when the peer goes away.
- A ZMODEM chunk cut within the prefix of a header, or before its XON, aborts the
  transfer; a second frame in one chunk is handled only when more input comes.
- An rz that asks for data again after the session has read to the end of the file
  gets none: `seekg` fails on a stream at its end, and the ZEOF that follows carries
  the position rz asked for.  rz takes the part it has for the whole file.  This is
  why `TransferCompletes` is checked with `MaxResends = 0`.
- A ZRPOS that finds the back end full, or input that comes while the session waits
  in SEND_FLOW_CTRL, is undefined in the table and aborts the upload.
- After a cancel, data in flight finds no file, and `handleZdata` dereferences it.
- `ssh_unthrottle` processes the queued packets when it lifts a freeze (ssh.c:12638),
  `sshfwd_unthrottle` does not: they wait for more data from the network
  (`QueueResumes`).
- An adjustment that is taken as acknowledged at once (8395) and an earlier request
  answered later count twice in `remlocwin`, which then exceeds the window; the
  effect is a `locmaxwin` that grows less than it might.
- A channel closed in both directions is destroyed with what the local program has
  not read yet, also after an orderly end (8752).
- Data for a zombie is accounted for as if it was consumed, and the window kept
  open with new requests, which hold CLOSE back while the server keeps sending.
- Data that comes with FD_CLOSE before the channel is confirmed would be read and
  dropped by `pfd_receive`, since the socket is read whether frozen or not.  A
  Winsock that reports the close of a frozen socket only after the data does not do that.
- A local program whose forwarding breaks sees an orderly end of a stream that lacks
  its last part, as `sk_tcp_close` throws `output_data` away and closes without a reset
  (winnet.c:1486, portfwd.c:642).
- Jobs that keep coming starve the timers of a worker and hold up its stop
  (WinWorker.cpp:256).
- A subpacket that ends in ZCRCE with the wrong CRC is taken for data and waited behind
  for ever: the ZEOF behind it is scanned as data too, and both ends wait.
- `pfd_confirm` does not look at the result of `sshfwd_write`: the data after a
  SOCKS request may stay in `outbuffer` without the socket being throttled, until
  the next read.
- `socket_error_callback` looks up a socket that may have been freed meanwhile by a
  number it reads from the freed structure.
- `ssh_throttle_all` (ssh.c:3940: "Throttle or unthrottle _all_ local data streams")
  skips a channel that is not confirmed yet, and `pfd_confirm` unfreezes its socket
  whatever `throttled_all` says.
- The dialog of the cloud session, closed and opened again while an answer is due:
  the old answer is taken for that of the first request of the new visit.  The
  machine then may say "Done!" with an empty map, after which an upload makes a second
  file of the same name; edits that were never applied may be carried out.  `initAll`
  may also clear the address of a request that the worker is about to read.
- RETRY_EVT has no action in GET_ACCESS_TOKEN_STATE: a sign-in that the service
  refuses with an error in JSON ends in "Done!", with no folder and no files.
- `parseDownloadSession` saves any answer as the settings of the session
  (google_drive_fsm_session.cpp:1179), the text of a refusal too.
- A second sign-in starts the TCP server without having stopped it (TcpServer.cpp:102).
- Tokens that last less than the margin the session asks for are refreshed for ever:
  `Rests` relies on the bound on odd answers.
- When the answer to a creation is lost, curl makes the request again (1335): a
  second folder, or a second file of the same title.
- `schedule_timer` enters a context among those alive only when it adds a timer.  If
  an identical timer of a freed client at the same address is in the tree
  (timing.c:135), the new client is not entered and its timer is deleted uncalled: its
  pings start only when it is reconfigured.  `PingIsSet` and `KeysAreFresh` leave
  these clients out (`tm.lost`).
- `pinger_schedule` compares times as they are (pinger.c:43).  When the clock wraps
  between, a shorter interval takes effect only once the old one is over.  The copy in
  psftp/pinger.c (42-47) compares differences.
- `run_timers` ignores the time it is passed, contrary to putty.h (1536ff): an early
  wake-up finds nothing due, and another is set.
- A file chosen late, in the dialog of a transfer that was cancelled, replaces the
  file of the next one.  This is why `zmodem` has one transfer.

## Theorems

All are checked by TLAPS, for every value of the constants that satisfies the
named assumptions of the module.

| Theorem | Statement |
| --- | --- |
| `KfifoBufferProofs!ReadsAreInOrder` | `Spec => []CopiedInOrder` |
| `KfifoBufferProofs!OccupancyIsExact` | `Spec => []OccupancyExact` |
| `KfifoBufferProofs!NeverOverwrites` | `Spec => NeverOverwritesUnread` |
| `KfifoBufferProofs!RefinesFifo` | `Spec => ImplementsFifo` |
| `WinWorkerProofs!TypeCorrect` | `Spec => []TypeOK` |
| `WinWorkerProofs!NeverSleepsOnWork` | `Spec => []SleepsOnlyWhenIdle` |
| `WinWorkerProofs!RefinesJobQueue` | `Spec => ImplementsJobQueue` |
| `SocketConnectionProofs!TypeCorrect` | `Spec => []TypeOK` |
| `SocketConnectionProofs!OneReaderAtATime` | `Spec => []SingleReader` |
| `SocketConnectionProofs!OpenConnectionGoesOn` | `Spec => []NeverStalls` |
| `SocketConnectionProofs!JobsFindTheConnection` | `Spec => []JobsFindConnection` |
| `ZmodemSessionProofs!ZmodemTypes` | `Spec => []TypeOK` |
| `ZmodemSessionProofs!ZmodemNoTaskAfterDelete` | `Spec => []NoTaskAfterDelete` |
| `ZmodemSessionProofs!ZmodemUploadInOrder` | `Spec => []UploadInOrder` |
| `SshChannelProofs!SshChannelTypes` | `Spec => []TypeOK` |
| `SshChannelProofs!SshChannelNoFault` | `Spec => []NoFault` |
| `SshChannelProofs!SshChannelBooks` | `Spec => []BooksAgree` |
| `SshChannelProofs!SshChannelSatisfies` | `Spec => []ServerSatisfied` |
| `SshChannelProofs!SshChannelHeld` | `Spec => []HeldForAReason` |
| `SshChannelProofs!SshChannelBacklog` | `Spec => []BacklogBounded` |
| `SshChannelStreamProofs!SshChannelDownStream` | `Spec => DownStream` |
| `SshChannelStreamProofs!SshChannelUpStream` | `Spec => UpStream`, if no set of bugs has the late reply |
| `DriveSessionProofs!BusyIsAnswered` | `Spec => []WaitIsAnswered` |
| `DriveSessionProofs!DriveTypes` | `Spec => []TypeOK` |
| `DriveSessionProofs!DriveMapIsDrive` | `Spec => []MapIsDrive` |
| `DriveSessionProofs!DriveChangesAreDone` | `Spec => []ChangesAreDone` |
| `SessionTimersProofs!TimersTypes` | `Spec => []TypeOK` |
| `SessionTimersProofs!NoTimerForgotten` | `Spec => []NothingForgotten` |
| `SessionTimersProofs!PingsAreSet` | `Spec => []PingIsSet` |
| `SessionTimersProofs!KeysStayFresh` | `Spec => []KeysAreFresh` |
| `SessionTimersProofs!CallsAreDue` | `Spec => CallsWhenDue` |

**KfifoBuffer.**  Assumed: the size is positive and divides the modulus, which is
larger.  (In the code it is a power of two below 2^32.)  A first group of lemmas is
about `%`: unwrapped counters can be compared through wrapped ones, the difference
of two is exact when it is below the modulus, and counters less than a size apart
fall in different slots.  The inductive invariant says that the indices are the
wrapped counters of the bytes put and got, that neither side's call claims more
than it saw, which the other side can only increase, and `WindowLoaded`: every byte
between the consumer's counter and the place the producer has copied up to is in
its slot.  `CopiedInOrder` alone is not inductive, for it says nothing of the bytes
not copied yet.

**WinWorker.**  Assumed: the worker is not one of the posting threads, the null pointer
is no job, and the size of the ring divides the modulus of its indices.  That a
sleeping worker has nothing to do has to be known one step earlier, when it stands
before the wait with the mutex (`ReadyToSleep`, `MutexHeld`), and of a thread that
holds the mutex and has looked at the queue but not put its job (`PutWillSignal`):
if the worker sleeps, either that thread saw the queue empty and will signal, or
another one that did is about to.  Only the worker adds timers, so the heap cannot
fill while it sleeps.

`Ring` says what is in the slots: jobs in all those between the indices, the pointer a
thread has copied in the slot at the write index (`Copied`), and, while the worker has
taken a pointer and not moved its index, that pointer in the slot at the read index.
The mutex is needed for it: two threads between the copy and the move of the index
would share a slot.  `RefinesJobQueue` maps the slots between the indices to the
abstract sequence.  Moving the write index appends to it the job that was copied
(`PutAppends`), moving the read index takes off the job that the worker has copied out
(`FreeTails`), and the copies themselves are stutters (`CopyHidden`), all of it modulo
the size of the ring and modulo the range of the indices.

**SocketConnection.**  Assumed: LowWater < HighWater < InCapacity, and an output
queue that holds something.  The inductive invariant `IndInv` has, beside the type:

- `OneToken`: the right to read goes round as a token.  It is the armed event, or
  the one onRead or addRead job in the queue, or onRead under way, or the UI thread
  between clearing `stopReadingM` and posting the read, or `stopReadingM` itself.
  `SingleReader` alone is not inductive: the UI thread could post a second read
  if the reading could be stopped and go on at once.
- `ClosedOnce`: the events are deleted together, before the release is posted, and
  a connection is `CloseE` only from then on or while `_close` runs.
- `ReadOn` and `WriteOn`, which are `NeverStalls` in terms of the queues, and
  `DrainedIsLow`: when getInput has found nothing and stands before its test of the
  water mark, the queue is low, or a notice of new input is on its way.  Without
  that the test could decline to resume with nobody left to repeat it.
- `InOrder`: no job of the reactor stands behind the release or outlives the
  connection; the worker's jobs to itself do so only if the connection was closed
  and opened again; the heartbeat starts before anything can close it.

Each part is kept by each of the actions, a step per action in the lemmas that
end in `Step`.  What posting and taking do to the kinds and to the order of the
jobs in the queue is stated once (`QueuePosted`, `QueueTaken`, `OrderPosted`,
`OrderTaken`).

**DriveSession.**  `BusyIsAnswered` holds for any sessions, page size, number of
tries and amount of trouble, because every handler settles the machine: whatever
event it starts with, when it returns the session is at rest, listens for the
browser, or stands in a state that asks the drive and has posted a request
(`Settled`, lemmas `AskSettles` to `AnswersSettle`).  On the worker a request is
queued, then performed, then an answer, and a performed one that has used up its
tries is an answer too, so the number in flight falls only when the session
handles an answer (`Jobs` gives the queue its type).

`DriveTypes` needs to know what requests and answers are made of, for an answer is
entered into the map of ids and into the local sessions (`TypeInv`).  Which places
and answers there can be depends on whether the folder has been made (`Parents`,
`Made`, `Answers` take that as a parameter), and as a folder stays, what was of the
right type remains so (`FolderStays`).

`DriveMapIsDrive` and `DriveChangesAreDone` rest on `OrderInv`.  Neither property is
inductive: they speak of the moments when the buttons are shown, or of the drive, and
say nothing of what is on its way there.  Both are claims about `orderly` behaviours
(each answer comes in the state that asked, each event has an action, no refusal was
saved as a session, no answer to a creation was lost); outside them they are false,
as the hazards of this component say.

- `Ordered` relates the ids the machine has to the drive, by state (`MapFits`): right
  but maybe not all before the listing (`Valid`), all those of the pages seen during
  it, exact after it (`Exact`), and exact but for the session of the state while that
  is deleted or uploaded; `One`: no name is given to two files.  `Asked` says which
  request a state makes, `Flow` where that request is (posted, performed, answered),
  `AnswerFits` what its answer says of the drive, and `Unanswered` what may have
  happened to the session of the state: a deletion may have been served and its answer
  lost, and then the next try is refused.
- `Planned` carries a plan from `ApplyChanges` to the end (`Carried`): a session is
  still to be worked on (`ToCome`), is worked on (`UnderWay`), or is what was asked.
  Deletions wait for the downloads and uploads for both (`Turns`), without which an
  upload could take the settings that a download was still to bring.

What the drive does for the request of a state is stated once (`Served`, `Touches`),
and so is what a handler comes to (`Goes`, `Handled`); a step of the specification is
then one or the other.

**ZmodemSession.**  Assumed: the sizes of a file and of a subpacket are positive.
The invariant has four parts.  `Typed` says what tokens and frames are made of, which
is needed to know that a place taken from a header is a number.  `Scanned`: the scan
of a chunk stays in the buffer, never ahead of what was received and never decoding
into a place that it has not read, and it is under way only between a ZDATA header and
the end of its data; without this the types of the buffer are lost when a decoded byte
is written back.  `Life`: no DESTROY
is posted or handled while the tab is open; afterwards it is the last task, since
`asynHandleEvent` posts nothing for a destroyed session, so that nothing is queued
when `deleteSelf` runs.  `NoTaskAfterDelete` alone is not inductive: it says nothing
of the queue before the deletion.  `FirstTransfer` is about the stream to rz.  It is
`Ordered`: behind a ZDATA that names a place, and behind each subpacket but the last,
comes data of the next place, or, at the end of the stream, the file is at that place.
A `sendZdata` that was posted twice continues the stream where it stands, which is
why it does no harm.  Ordered is kept only because nobody else moves the file
meanwhile: in the first transfer no ZDATA reaches a session that uploads, and no ZRPOS
one that downloads (`OneWay`).  What an earlier transfer left in the stream can break
this, so `UploadInOrder` and `DownloadWhole` speak of the first.

`DownloadWhole` and `NoCrash` are model-checked only.

**SshChannel.**  Assumed: the sizes are positive, `WinSize <= MaxWin`, and `BugSets`
holds sets of the three bugs.  A handler is an operator on a record of the state, so
the inductive invariant is a predicate of such a record `w`, of the packets `cl` on
their way to PuTTY, of the server's end `sv` and of the local program `ap`: `IndInv`
is `Base` and `Others` of the variables.

- `Sides`: socket and channel go together, the connection is frozen at most once, by
  this channel, and the four bits of `closes` come in an order the code relies on.
  `HalfOpened`: nothing happens to a channel before the answer to its CHANNEL_OPEN,
  since its socket is frozen and it is not SOCKDATA yet.
- `SentUp` and `SentDown`: what is under way is in an order (`UpOrder`, `DownOrder`),
  and nothing that ends a direction is under way or has arrived without the bit that
  says so.  `ServerSatisfied` needs both: what the server must not receive has to be
  known to be in no packet.
- `Opening` and `Gone`: the first packet a half-open channel gets is the answer to its
  CHANNEL_OPEN, and nothing comes any more for a channel that is gone.
- `Books`: the windows of both ends and what is in flight between them, as sums over
  the queues.  `BooksAgree` alone is not inductive: it says nothing of the channel
  that is half open, nor of one whose answers are still due.
- `Settled`, `AppDone`, `Within`, `Held`: a channel closed in both directions is
  destroyed before the handler returns; EOF waits only after the local program ended;
  what waits for it fits into the window; who is held back has a reason.

Sums over the packets of a queue are a recursive function, `Total`.  What it does at
the two ends of a queue (`TotalAppend`, `TotalTail`) rests on induction over the set of
numbers for which the claim holds, which needs no operator as a parameter.  There is
then a lemma for each operator the handlers call (`CheckCloseKeepsBase`,
`TrySendKeepsBase`, `SetWindowKeepsBase`, ...), which says what it keeps and what it
leaves alone, one for what taking each packet does to the queue and the books, one for
each handler, and one for each kind of step the server takes.

That the channel implements `HalfStream` in both directions rests on `IndInv` and on
`Flows`, which has two parts:

- `Streams`: what the local program wrote is what the server has got, what is in
  packets of data (`Load`), what the channel and the forwarding buffer, and what the
  socket has not been read for, with the end only behind it; from the server to the
  local program likewise.  `Upwards` and `Downwards` say it of one direction each, with
  an escape for the streams that a reset, a refusal or a close has cut off.
- `Waits`: a socket whose channel is not open is not read.  Without it what is read
  early would be lost, since `pfd_confirm` sends the buffer of the forwarding and
  only that.

The operators the handlers call carry the units on (`Carried`, `CarriedOn`); each handler
is then a lemma about `Streams`, and each kind of step one about `Flows`.  `UpStream` is
stated for servers that do not answer a request after their CLOSE, as the run `channel`
has them: a late answer lets PuTTY send data behind its EOF, which is the finding of
the run `channel_reads`.  `DownStream` needs no such condition.  It needs to know why
PuTTY closes the local socket (`ClosedWhenBroken`): a zombie, or an error that waits for
its callback, is due to a reset of the local connection (`CutInv`), and a channel that is
destroyed otherwise has had the server's CLOSE.

**SessionTimers.**  Assumed: `TimingAssumption`, by which the range of the clock is even,
a delay with all the lateness there can be is less than half of it, and the slack of
`run_timers` still fits (in the program the range is 2^32 ms and the slack 10 ms, so the
seconds or minutes a user sets must come to less than about 24 days), and `ContextsAssumption`: pingers and sessions are at different
addresses.  Nothing bounds the number of contexts or of changes.

All times are differences modulo `Wrap`, so a first group of lemmas turns `Minus` and
`Signed` into linear arithmetic (`WrapsOnce`, `MinusIs`, `SignedIs`, `MinusBetween`) and
says what a tick does to them (`TickMoves`).  The invariant is said of a state `s` of
timing.c, so that it can be said in the middle of a handler:

- `Sound`: the time since a timer was set and the time left make up the delay it was set
  for.  This is how it is known that the clock has not gone round since, and without it
  nothing can be concluded from a comparison.
- `Sorted`: the tree is in the order of `compare_timers` at the time at hand, although
  it was built at earlier ones.  The order is total and transitive at any one time, and
  a tick moves all timers alike.
- `Punctual` says how late a timer can be, while the front end sleeps, while it is late
  and while timers run.  `NothingForgotten` alone is not inductive: it does not relate
  the lateness of a timer to that of the front end, nor to `now`, which `run_timers`
  read when it started (`Age`).  `DueIs` says that its test, which takes the slack off
  both sides, then finds exactly the timers that are due.
- `Owned`, `Pinging`, `Rekeying`: a live context belongs to a client that is there, and
  what a client waits for is in the tree under its context.  For keys, age and time left
  are at most the time set, and a tick, unless the server has the bug (`KeySet`); `KeysAreFresh` follows since a timer
  in the tree is at most `MaxLate` overdue.
- `Kept`: if a callback has armed the front end's timer while timers run, a pinger waits
  in the tree, so a run that empties the tree leaves the front end's timer off.

What `schedule_timer` does is stated once for a new timer and once for one that has a
twin in the tree (`ScheduleIs`, `ScheduleFits`, `ScheduleSets`), and each handler of a
client is then a change of its record and one or two such calls.  `PingIsSet` and
`KeysAreFresh` speak of the contexts outside `lost`, as the runs do: for the others they
are false, see the hazards.

**Only model-checked.**  Liveness (`WorkIsDone`, `StopReturns`, `ClosedIsReleased`,
`TransferCompletes`, `EndsArrive`, `BytesMove`, `Rests`) is beyond the prover.
`DownloadWhole` and `NoCrash` are not proved.  `NoCrash` is false of the program in
general, as the hazards of its component say: a chunk can end behind a ZDATA header, a
cancel closes the file while data comes, and what is left of one transfer meets the
next; it is checked in calm conditions.  Every other invariant and action property of
the runs is stated by a theorem, but for those that a run is expected to violate.

## Not modelled

- Of WinWorker: `waitStop`, which nothing calls, `start`, and the polling of the UI
  worker's jobs by a timer of 100 ms, which never waits.
- Of SocketConnection: the client-side constructor and timer, which nothing uses,
  and the heartbeats of the peer, which no protocol asks for.
- Of ZmodemSession: damaged frames (the transport is reliable), 16-bit binary
  frames, subpackets that end in ZCRCQ or ZCRCW, ZNAK, and progress lines.
- Of the SSH channels: those of other types (main session, X11, agent, sharing),
  those the server opens, simple mode, SSH-1, several channels at once, and SOCKS.
- Of the cloud session and of the timers: see their sections above.
- Connection sharing cannot be reached in this program, see the inventory.
- `TcpServer`, `AdbManager`, `min_heap` and the packets queued during SSH rekeying:
  planned, see below.
- The terminal is a sequential interpreter of escape sequences with a large data
  state.  The other protocols and the proxies are sequential engines over one
  socket.  Cryptography is arithmetic beyond a model checker.  Configuration is
  typed maps and their storage.  `psftp/` is a second copy of the SSH code.
- Chromium's base, libevent, curl, boost and rapidjson are vendored.

## Plan

Modules, in order:

1. `TcpServer` and `AdbManager`: small modules over the worker's jobs and timers.
2. `MinHeap` (min_heap.h): an algorithm against a reference definition.
3. `SshRekey` (ssh.c): packets queued while keys are exchanged, and what starts an
   exchange: data counters, the server, the user; its timer is in `SessionTimers`.
4. Two channels on one connection, which share `conn_throttle_count` and
   `throttled_all`, as a composition of what SshChannel states of one.
