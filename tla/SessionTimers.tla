---------------------------- MODULE SessionTimers ----------------------------
(***************************************************************************)
(* Two clients of Timing: the pinger that keeps a connection alive         *)
(* (putty/pinger.c) and the re-exchange of keys of an SSH session after a  *)
(* while (putty/ssh.c).  Neither can take a timer back: each keeps the     *)
(* time of the one that counts, and its callback does nothing when it is   *)
(* called for any other.                                                   *)
(*                                                                         *)
(* A context is an address.  The address of a session that is freed goes   *)
(* to one that is made later, whose timers those of the former then join.  *)
(***************************************************************************)
EXTENDS Timing

CONSTANTS
  Pingers,     \* the addresses of pingers
  Sessions,    \* the addresses of SSH sessions
  MaxChanges   \* bound: sessions made, changed and closed, and other key exchanges

ASSUME ContextsAssumption ==
  /\ Pingers \subseteq Nat /\ Sessions \subseteq Nat /\ Pingers \cap Sessions = {}
  /\ MaxChanges \in Nat

VARIABLES
  pingers,     \* struct pinger_tag, by address
  ssh,         \* the part of the SSH backend that has to do with rekeying
  changes      \* how much of MaxChanges is used

vars == <<clock, tm, running, late, pingers, ssh, changes>>

\* What somebody does, in a handler of the UI thread, between runs of timers.
Change ==
  /\ ~running /\ changes < MaxChanges
  /\ changes' = changes + 1
  /\ UNCHANGED <<clock, running, late>>

Delays == 0 .. MaxDelay

NoPinger == [alive |-> FALSE, interval |-> 0, pending |-> FALSE, next |-> 0]
NoSession == [alive |-> FALSE, bug |-> FALSE, kex |-> FALSE, time |-> 0, last |-> 0,
              next |-> 0, age |-> 0]

-----------------------------------------------------------------------------
(* The pinger.                                                             *)

\* Faulty: a pinger that has been off does not become pending again.
pingerScheduleOnce(p, g, s) ==
  IF g.interval = 0
  THEN [g |-> [g EXCEPT !.pending = FALSE], s |-> s]
  ELSE LET next == when(g.interval)
       IN  [s |-> scheduleTimer(s, g.interval, "pinger_timer", p),
            g |-> IF next < g.next THEN [g EXCEPT !.next = next, !.pending = TRUE]
                  ELSE g]

\* pinger_schedule: `g' is the pinger at p, `s' the timers.
pingerSchedule(p, g, s) ==
  IF g.interval = 0
  THEN [g |-> [g EXCEPT !.pending = FALSE], s |-> s]
  ELSE LET next == when(g.interval)
       IN  [s |-> scheduleTimer(s, g.interval, "pinger_timer", p),
            g |-> IF ~g.pending \/ next < g.next
                  THEN [g EXCEPT !.next = next, !.pending = TRUE] ELSE g]

Becomes(p, r) == pingers' = [pingers EXCEPT ![p] = r.g] /\ tm' = r.s

\* pinger_new, of a backend that has set up its connection.
pingerNew(p) ==
  /\ Change /\ ~pingers[p].alive
  /\ \E interval \in Delays :
       Becomes(p, pingerSchedule(p, [NoPinger EXCEPT !.alive = TRUE,
                                                     !.interval = interval], tm))
  /\ UNCHANGED ssh

\* pinger_reconfig: the user changes the interval of a session.
pingerReconfig(p) ==
  /\ Change /\ pingers[p].alive
  /\ \E interval \in Delays \ {pingers[p].interval} :
       Becomes(p, pingerSchedule(p, [pingers[p] EXCEPT !.interval = interval], tm))
  /\ UNCHANGED ssh

\* Faulty: the pinger is freed and its timers are not.
pingerFreeOnly(p) ==
  /\ Change /\ pingers[p].alive
  /\ Becomes(p, [g |-> NoPinger, s |-> tm])
  /\ UNCHANGED ssh

\* pinger_free.
pingerFree(p) ==
  /\ Change /\ pingers[p].alive
  /\ Becomes(p, [g |-> NoPinger, s |-> expireTimerContext(tm, p)])
  /\ UNCHANGED ssh

\* pinger_timer, called by run_timers: TS_PING goes out, and the next is set.
pingerTimer(p) ==
  /\ Calls /\ Head(tm.timers).ctx = p
  /\ LET g == pingers[p]
     IN  IF g.pending /\ g.next = Head(tm.timers).now
         THEN Becomes(p, pingerSchedule(p, [g EXCEPT !.pending = FALSE], Called))
         ELSE Becomes(p, [g |-> g, s |-> Called])
  /\ UNCHANGED <<clock, running, late, ssh, changes>>

-----------------------------------------------------------------------------
(* Rekeying.                                                               *)

\* A session, from the time its first key exchange is under way.  The version of the
\* server tells whether it has BUG_SSH2_REKEY: it does not stand a second one.
sshBegins(c) ==
  /\ Change /\ ~ssh[c].alive
  /\ \E time \in Delays, bug \in BOOLEAN :
       ssh' = [ssh EXCEPT ![c] = [NoSession EXCEPT !.alive = TRUE, !.kex = TRUE,
                                                   !.time = time, !.bug = bug]]
  /\ UNCHANGED <<tm, pingers>>

\* ssh_do_close: the state is SSH_STATE_CLOSED and the context expires.
sshDoClose(c) ==
  /\ Change /\ ssh[c].alive
  /\ ssh' = [ssh EXCEPT ![c] = NoSession]
  /\ tm' = expireTimerContext(tm, c)
  /\ UNCHANGED pingers

\* do_ssh2_transport is told to begin a key exchange: `k' is the session at c, `s' the
\* timers.  A server with the bug is spared it, and the time starts again.
Rekey(c, k, s) ==
  IF ~k.bug THEN [k |-> [k EXCEPT !.kex = TRUE], s |-> s]
  ELSE IF k.time = 0 THEN [k |-> k, s |-> s]
  ELSE [k |-> [k EXCEPT !.next = when(k.time)],
        s |-> scheduleTimer(s, k.time, "ssh2_timer", c)]

Goes(c, r) == ssh' = [ssh EXCEPT ![c] = r.k] /\ tm' = r.s

\* A key exchange begins for another reason: the server's, the user's, or the
\* amount of data.
BeginKex(c) ==
  /\ Change /\ ssh[c].alive /\ ~ssh[c].kex
  /\ \/ Goes(c, [k |-> [ssh[c] EXCEPT !.kex = TRUE], s |-> tm])
     \/ Goes(c, Rekey(c, ssh[c], tm))
  /\ UNCHANGED pingers

\* The end of a key exchange in do_ssh2_transport.
EndKex(c) ==
  /\ ~running /\ ssh[c].alive /\ ssh[c].kex
  /\ LET k == [ssh[c] EXCEPT !.kex = FALSE, !.last = clock, !.age = 0]
     IN  IF k.time = 0
         THEN ssh' = [ssh EXCEPT ![c] = k] /\ tm' = tm
         ELSE /\ ssh' = [ssh EXCEPT ![c] = [k EXCEPT !.next = when(k.time)]]
              /\ tm' = scheduleTimer(tm, k.time, "ssh2_timer", c)
  /\ UNCHANGED <<clock, running, late, pingers, changes>>

\* Faulty: the whole of the new time is waited for.
sshReconfigAfresh(c) ==
  /\ Change /\ ssh[c].alive /\ ssh[c].age < Wrap
  /\ \E time \in Delays \ {ssh[c].time} :
       LET k == [ssh[c] EXCEPT !.time = time]
       IN  IF time = 0
           THEN ssh' = [ssh EXCEPT ![c] = k] /\ tm' = tm
           ELSE IF Minus(clock, k.last) > time
           THEN Goes(c, IF k.kex THEN [k |-> k, s |-> tm] ELSE Rekey(c, k, tm))
           ELSE /\ ssh' = [ssh EXCEPT ![c] = [k EXCEPT !.next = when(time)]]
                /\ tm' = scheduleTimer(tm, time, "ssh2_timer", c)
  /\ UNCHANGED pingers

\* ssh_reconfig with another time between key exchanges: one begins at once
\* when the new time is over, unless one is under way.
sshReconfig(c) ==
  /\ Change /\ ssh[c].alive /\ ssh[c].age < Wrap
  /\ \E time \in Delays \ {ssh[c].time} :
       LET k == [ssh[c] EXCEPT !.time = time]
           rest == Minus(Minus(k.last, -time), clock)
       IN  IF time = 0
           THEN ssh' = [ssh EXCEPT ![c] = k] /\ tm' = tm
           ELSE IF Minus(clock, k.last) > time
           THEN Goes(c, IF k.kex THEN [k |-> k, s |-> tm] ELSE Rekey(c, k, tm))
           ELSE /\ ssh' = [ssh EXCEPT ![c] = [k EXCEPT !.next = when(rest)]]
                /\ tm' = scheduleTimer(tm, rest, "ssh2_timer", c)
  /\ UNCHANGED pingers

\* ssh2_timer, called by run_timers.
ssh2Timer(c) ==
  /\ Calls /\ Head(tm.timers).ctx = c
  /\ LET k == ssh[c]
     IN  IF k.alive /\ ~k.kex /\ k.time # 0 /\ k.next = Head(tm.timers).now
         THEN Goes(c, Rekey(c, k, Called))
         ELSE Goes(c, [k |-> k, s |-> Called])
  /\ UNCHANGED <<clock, running, late, pingers, changes>>

-----------------------------------------------------------------------------
(* The specification.                                                      *)

\* The age of keys that the server's bug keeps from being renewed is not counted.
Tick ==
  /\ Passes
  /\ ssh' = [c \in Sessions |->
               IF ssh[c].alive /\ ~ssh[c].bug /\ ssh[c].age < Wrap
               THEN [ssh[c] EXCEPT !.age = @ + 1] ELSE ssh[c]]
  /\ UNCHANGED <<pingers, changes>>

FrontEnd ==
  (OnTimeout \/ DropExpired \/ RunEnds) /\ UNCHANGED <<pingers, ssh, changes>>

Init ==
  /\ TimingInit
  /\ pingers = [p \in Pingers |-> NoPinger]
  /\ ssh = [c \in Sessions |-> NoSession]
  /\ changes = 0

Next ==
  \/ Tick \/ FrontEnd
  \/ \E p \in Pingers :
       pingerNew(p) \/ pingerReconfig(p) \/ pingerFree(p) \/ pingerTimer(p)
  \/ \E c \in Sessions :
       \/ sshBegins(c) \/ sshDoClose(c) \/ BeginKex(c) \/ EndKex(c)
       \/ sshReconfig(c) \/ ssh2Timer(c)

Spec == Init /\ [][Next]_vars

-----------------------------------------------------------------------------
(* Properties.                                                             *)

Contexts == Pingers \cup Sessions
Fns == {"pinger_timer", "ssh2_timer"}
Timers == [fn : Fns, ctx : Contexts, now : Clocks, when_set : Clocks]

\* A timer that runs is at most this late: it comes due just after a run has
\* read the clock, and the front end is late again.
MaxLate == 2 * Lag + 1

Max1(n) == IF n <= 0 THEN 1 ELSE n

\* The state is well typed; among others the front end is never later than Lag.
TypeOK ==
  /\ clock \in Clocks
  /\ tm.now \in Clocks
  /\ tm.timers \in Seq(Timers)
  /\ tm.contexts \subseteq Contexts
  /\ tm.wake \in [on : BOOLEAN, left : -Lag .. MaxDelay + 1]
  /\ running \in BOOLEAN /\ late \in 0..Lag
  /\ pingers \in [Pingers -> [alive : BOOLEAN, interval : Delays,
                              pending : BOOLEAN, next : Clocks]]
  /\ ssh \in [Sessions -> [alive : BOOLEAN, bug : BOOLEAN, kex : BOOLEAN, time : Delays,
                           last : Clocks, next : Clocks, age : 0..Wrap]]
  /\ changes \in 0..MaxChanges

\* No timer is forgotten.  The tree stays sorted by the time left and holds no
\* timer twice, though the clock its order is relative to moves on and wraps while
\* timers sit in it; the front end sleeps at most until the first one is due,
\* whichever call armed it; and none is more than MaxLate overdue.
NothingForgotten ==
  /\ \A i, j \in DOMAIN tm.timers :
       i < j => /\ Left(tm.timers[i]) <= Left(tm.timers[j])
                /\ ~sameTimer(tm.timers[i], tm.timers[j])
  /\ \A i \in DOMAIN tm.timers :
       LET left == Left(tm.timers[i])
       IN  /\ left >= -MaxLate
           /\ running \/ (tm.wake.on /\ tm.wake.left <= Max1(left))

\* A callback is called only when its timer is due, and only for a client that
\* is there: not for one that was freed, whose timers are still in the tree.
CallsWhenDue ==
  [][/\ \A p \in Pingers :
          pingerTimer(p) => Left(Head(tm.timers)) < 0 /\ pingers[p].alive
     /\ \A c \in Sessions :
          ssh2Timer(c) => Left(Head(tm.timers)) < 0 /\ ssh[c].alive]_vars

IsSet(c, next) ==
  c \in tm.contexts /\ \E i \in DOMAIN tm.timers :
                         tm.timers[i].ctx = c /\ tm.timers[i].now = next

\* A connection with keepalives on always has a ping to come, and the time the
\* pinger waits for is that of a timer that will call it: whatever the changes
\* of the interval, and whichever timers of before are still about.  Left out is
\* a pinger whose timer was taken for that of one that is dead.
PingIsSet ==
  \A p \in Pingers \ tm.lost :
    (pingers[p].alive /\ pingers[p].interval # 0) =>
      pingers[p].pending /\ IsSet(p, pingers[p].next)

\* Keys are never older than the time the user set last, but for the lateness of
\* the timers: through changes of the time, key exchanges begun for another
\* reason, and the wrapping of the clock.  There is always a timer for the next
\* exchange, which with BUG_SSH2_REKEY only sets the one after it.
KeysAreFresh ==
  \A c \in Sessions \ tm.lost :
    (ssh[c].alive /\ ~ssh[c].kex /\ ssh[c].time # 0) =>
      /\ ssh[c].bug \/ ssh[c].age <= ssh[c].time + MaxLate + 1
      /\ IsSet(c, ssh[c].next)
=============================================================================
