-------------------------------- MODULE Wake --------------------------------
(***************************************************************************)
(* What wakes a node that drives the graph: the wake selection of          *)
(* node/timing.rs over the kqueue wake driver of freebsd_oss/event.rs.     *)
(*                                                                         *)
(* A driving node keeps two things armed at once: a registration of the    *)
(* running device (an edge-triggered knote) and a one-shot timer on the    *)
(* graph's next deadline, its watchdog.  Either may fire, both may fire    *)
(* together, registration and removal may fail, the device may be replaced *)
(* while its edge is queued, and the clock may be unreadable.              *)
(*                                                                         *)
(* Time is kept relative to now: due is next_time - now, timer the delay   *)
(* left.  A port generation is kept as "still the port's or not", a device *)
(* as "still the port's or not"; the two differ, since a rebuild that      *)
(* retires its device keeps the generation.  Rebuilds and commands appear  *)
(* by their effect on the port (module Rebuild).                           *)
(***************************************************************************)
EXTENDS Integers

CONSTANTS
    Period,     \* one graph period, in ticks
    Advances,   \* what a corrected period can come to (corr within 0.5..2)
    Retry,      \* the 10 ms of the relative retries
    Stall,      \* the second after which a late wake starts a new phase
    NoReg, NoWake, Off

(* A device edge's stream: still the port's generation, still its device.  *)
Streams == [cur : BOOLEAN, dev : {"cur", "old"}]

ASSUME WakeAssumption ==
    /\ {Period, Retry, Stall} \subseteq Nat \ {0}
    /\ Advances \subseteq Nat \ {0}
    /\ NoReg \notin Streams /\ NoWake \notin Streams
    /\ Off \notin Int

VARIABLES
    node,   \* started, following, the io areas, whether a wake driver exists
    port,   \* the device, the rebuild claim and latch
    w,      \* the wake driver, the port's snapshot, next_time and the timer
    pc,     \* "ready" while the host's ready() callback runs
    owed,   \* the host was told and has not called process() yet
    sick    \* clock_gettime fails

vars == <<node, port, w, pc, owed, sick>>

Greatest(a, b) == IF a > b THEN a ELSE b

NoKnote == [on |-> FALSE, active |-> FALSE]

(* A node has a wake driver unless its properties ask for the timer or the *)
(* kernel refuses one.                                                     *)
WakeDrivers == BOOLEAN

Init ==
    /\ node \in [started : {FALSE}, following : {FALSE}, pos : {"none"}, clk : {FALSE},
                 dur : {0}, native : WakeDrivers]
    /\ port = [dsp |-> "closed", pending |-> FALSE, required |-> FALSE]
    /\ w = [reg |-> NoReg, knote |-> NoKnote, failed |-> FALSE, snap |-> NoWake,
            due |-> 0, timer |-> Off, fired |-> FALSE]
    /\ pc = "idle"
    /\ owed = FALSE
    /\ sick = FALSE

Driving(n) == n.started /\ ~n.following /\ n.pos # "none" /\ n.clk

(* node_is_follower: both areas are there and name different clocks.       *)
Follower(n) == n.pos = "theirs" /\ n.clk

-----------------------------------------------------------------------------
(* OssWakeDriver.  Removing a registration whose descriptor is gone        *)
(* succeeds; the kernel may refuse to remove a live one.                   *)

unregister_stream(u) ==
    {[u EXCEPT !.reg = NoReg, !.knote = NoKnote]} \cup (IF u.knote.on THEN {u} ELSE {})

(* A registration is kept when descriptor, identity and filter agree; a    *)
(* new device may have been given the number of a closed descriptor.       *)
Registered(u) ==
    u.reg # NoReg /\ u.reg.cur /\ (u.reg.dev = "cur" \/ ~u.knote.on)

(* Dsp::register_wake: the low-water mark, then the registration.          *)
register_wake(u) ==
    LET added == [u EXCEPT !.reg = [cur |-> TRUE, dev |-> "cur"],
                           !.knote = [on |-> TRUE, active |-> FALSE]]
        tries == IF Registered(u) THEN {[w |-> u, ok |-> TRUE]}
                 ELSE {[w |-> v, ok |-> FALSE] : v \in unregister_stream(u)}
                      \cup {[w |-> added, ok |-> TRUE]}
    IN  {[w |-> u, ok |-> FALSE]} \cup tries

(* disable_device_wake and invalidate_device_wake.                         *)
disable_device_wake(u) == {[v EXCEPT !.snap = NoWake] : v \in unregister_stream(u)}
invalidate_device_wake(u) == {[v EXCEPT !.failed = FALSE] : v \in disable_device_wake(u)}

(* refresh_device_wake_inner: a stream whose registration failed is only   *)
(* tried again by an explicit state change.  (A running device was primed, *)
(* so setup_period is set.)                                                *)
Candidate(n, p) ==
    Driving(n) /\ p.dsp = "running" /\ ~p.pending /\ ~p.required

refresh_device_wake(u, n, p, retry) ==
    LET Unarmed(v) == [w |-> v, armed |-> FALSE]
    IN  IF ~n.native THEN {Unarmed(u)}
        ELSE IF ~Candidate(n, p) THEN {Unarmed(v) : v \in disable_device_wake(u)}
        ELSE IF u.failed /\ ~retry THEN {Unarmed(u)}
        ELSE UNION {IF r.ok THEN {[w |-> [r.w EXCEPT !.failed = FALSE], armed |-> TRUE]}
                    ELSE {Unarmed([v EXCEPT !.failed = TRUE]) : v \in unregister_stream(r.w)}
                      : r \in register_wake(u)}

-----------------------------------------------------------------------------
(* The timer: one shot; arming it again replaces an expiration nobody has  *)
(* read.  A deadline that cannot be turned into a delay is retried.        *)

Parked(u) == [u EXCEPT !.timer = Off, !.fired = FALSE]
Armed(u, delay) == [u EXCEPT !.timer = Greatest(delay, 0), !.fired = FALSE]
set_timeout(u, delay) == Armed(u, IF sick THEN Retry ELSE delay)

watchdog_grace(dur) == IF dur = 0 THEN 0 ELSE Greatest(dur \div 8, 1)

\* Mutant: the second half of a pair is a wake like any other.
wake_is_never_late(u, dur) == FALSE

wake_is_from_previous_cycle(u, dur) == dur # 0 /\ u.due > watchdog_grace(dur)

\* Mutant: a registered device makes the watchdog superfluous.
select_without_watchdog(u, n, p) ==
    {IF Driving(n) /\ ~r.armed THEN set_timeout(r.w, r.w.due) ELSE Parked(r.w)
       : r \in refresh_device_wake(u, n, p, FALSE)}

select_next_wake(u, n, p) ==
    {IF Driving(n)
       THEN set_timeout(r.w, r.w.due + (IF r.armed THEN watchdog_grace(n.dur) ELSE 0))
       ELSE Parked(r.w)
       : r \in refresh_device_wake(u, n, p, FALSE)}

\* Mutant: a transition keeps the old phase and leaves the timer alone.
update_keeps_timer(u, n, p) ==
    IF ~(n.started /\ ~n.following /\ n.pos # "none")
      THEN {Parked(r.w) : r \in refresh_device_wake(u, n, p, FALSE)}
      ELSE {IF sick THEN r.w ELSE [Armed(r.w, 0) EXCEPT !.due = 0]
              : r \in refresh_device_wake(u, n, p, TRUE)}

(* update_driver_wake: after an explicit change a driver starts a new      *)
(* phase at once, everybody else parks.                                    *)
update_driver_wake(u, n, p) ==
    IF ~(n.started /\ ~n.following /\ n.pos # "none")
      THEN {Parked(r.w) : r \in refresh_device_wake(u, n, p, FALSE)}
      ELSE {IF sick THEN Armed(r.w, Retry) ELSE [Armed(r.w, 0) EXCEPT !.due = 0]
              : r \in refresh_device_wake(u, n, p, TRUE)}

(* Ownership changes: the generation is bumped (a registration that failed *)
(* for the old one no longer counts), the device replaced.                 *)
Bumped(u) ==
    [u EXCEPT !.reg    = IF @ = NoReg THEN @ ELSE [@ EXCEPT !.cur = FALSE],
              !.snap   = IF @ = NoWake THEN @ ELSE [@ EXCEPT !.cur = FALSE],
              !.failed = FALSE]

Replaced(u) ==
    [u EXCEPT !.reg  = IF @ = NoReg THEN @ ELSE [@ EXCEPT !.dev = "old"],
              !.snap = IF @ = NoWake THEN @ ELSE [@ EXCEPT !.dev = "old"]]

-----------------------------------------------------------------------------
(* on_wake.  What the loop found readable was the timer, the device, both  *)
(* (the device's edge wins and the expiration is consumed with it) ...     *)

drain_wake(kind, lost) ==
    LET read == [w EXCEPT !.knote.active = FALSE, !.timer = IF w.fired THEN Off ELSE @,
                          !.fired = FALSE]
    IN  CASE kind = "stream" -> [w    |-> [read EXCEPT !.snap = w.reg],
                                 port |-> [port EXCEPT !.required = @ \/ lost]]
          [] kind = "timer"  -> [w |-> [read EXCEPT !.snap = NoWake], port |-> port]
          [] kind = "stale"  -> [w |-> read, port |-> port]

\* Mutant: the edge is accepted whatever generation it was queued for.
KindOfAnyStream ==
    IF w.knote.active THEN "stream" ELSE IF w.fired THEN "timer" ELSE "nothing"

Kind ==
    IF w.knote.active THEN IF w.reg.cur THEN "stream" ELSE "stale"
    ELSE IF w.fired THEN "timer" ELSE "nothing"

(* ... or nothing any more: a transition took the event, or the read       *)
(* failed and took nothing.                                                *)
WakeSpurious ==
    /\ pc = "idle"
    /\ w' \in select_next_wake(w, node, port)
    /\ UNCHANGED <<node, port, pc, owed, sick>>

(* The edge of an older generation is dropped; a node that does not drive  *)
(* (any more) parks.                                                       *)
WakeIgnored ==
    /\ pc = "idle"
    /\ Kind # "nothing"
    /\ Kind = "stale" \/ ~Driving(node)
    /\ \E lost \in BOOLEAN :
         LET r == drain_wake(Kind, lost)
         IN  port' = r.port /\ w' \in select_next_wake(r.w, node, r.port)
    /\ UNCHANGED <<node, pc, owed, sick>>

(* A disconnect the edge reported is claimed before anything else.         *)
queue_required_rebuilds(p) ==
    IF p.required /\ ~p.pending THEN {p, [p EXCEPT !.pending = TRUE]} ELSE {p}

Wakes == pc = "idle" /\ Driving(node) /\ Kind \in {"stream", "timer"}

Claimed ==
    UNION {{[w |-> r.w, port |-> p] : p \in queue_required_rebuilds(r.port)}
             : r \in {drain_wake(Kind, lost) : lost \in BOOLEAN}}

WakeClockFails ==
    /\ Wakes /\ sick
    /\ \E c \in Claimed : \E u \in disable_device_wake(c.w) :
         port' = c.port /\ w' = Armed(u, Retry)
    /\ UNCHANGED <<node, pc, owed, sick>>

(* The other half of a pair that already drove this cycle.                 *)
WakeOfPreviousCycle ==
    /\ Wakes /\ ~sick
    /\ wake_is_from_previous_cycle(w, node.dur)
    /\ \E c \in Claimed :
         /\ port' = c.port
         /\ w' \in select_next_wake([c.w EXCEPT !.snap = NoWake], node, c.port)
    /\ UNCHANGED <<node, pc, owed, sick>>

(* A late wake after a stall starts a new phase; without a period the node *)
(* ticks idly; otherwise the deadline advances and the host is told.       *)
Accepted == Wakes /\ ~sick /\ ~wake_is_from_previous_cycle(w, node.dur)
Resynced == IF -w.due > Stall THEN 0 ELSE w.due

WakeIdle ==
    /\ Accepted /\ node.dur = 0
    /\ LET next == Retry + (IF Kind = "stream" THEN 0 ELSE Resynced)
       IN  \E c \in Claimed : \E u \in disable_device_wake(c.w) :
             port' = c.port /\ w' = set_timeout([u EXCEPT !.due = next], next)
    /\ UNCHANGED <<node, pc, owed, sick>>

(* The servo stretches or shrinks the period that leads to the next        *)
(* deadline, within bounds; its filter is left out.                        *)
driver_servo(due) == {due + a : a \in Advances}

WakeCycle ==
    /\ Accepted /\ node.dur # 0
    /\ \E c \in Claimed, next \in driver_servo(Resynced) :
         port' = c.port /\ w' = [c.w EXCEPT !.due = next]
    /\ pc' = "ready"
    /\ owed' = TRUE
    /\ UNCHANGED <<node, sick>>

ReadyReturns ==
    /\ pc = "ready"
    /\ pc' = "idle"
    /\ w' \in select_next_wake(w, node, port)
    /\ UNCHANGED <<node, port, owed, sick>>

-----------------------------------------------------------------------------
(* process(), inline from ready() or later: the device may be primed,      *)
(* suspended or found gone, and a rebuild may complete, before the         *)
(* snapshot is discarded and, outside ready(), the next wake selected.     *)

Finished(u, p) ==
    /\ port' \in queue_required_rebuilds(p)
    /\ LET v == [u EXCEPT !.snap = NoWake]
       IN  w' \in IF pc = "ready" THEN {v} ELSE select_next_wake(v, node, port')
    /\ owed' = FALSE
    /\ UNCHANGED <<node, pc, sick>>

(* A driver's host calls it once per ready(), a follower's whenever its    *)
(* driver runs.                                                            *)
Processes == node.started /\ node.pos # "none" /\ (owed \/ node.following)

ProcessPorts ==
    /\ Processes
    /\ \E p \in queue_required_rebuilds(port) :
         \/ Finished(w, p)
         \/ ~p.pending /\ p.dsp # "closed" /\
              Finished(w, [p EXCEPT !.dsp = "running"])
         \/ ~p.pending /\ p.dsp = "running" /\ Finished(w, [p EXCEPT !.dsp = "open"])
         \/ ~p.pending /\ p.dsp = "running" /\ Finished(w, [p EXCEPT !.required = TRUE])
         \/ ~p.pending /\ p.dsp = "closed" /\ Finished(w, [p EXCEPT !.pending = TRUE])

(* poll_rebuild_completion.                                                *)
SwapInstalled ==
    /\ Processes /\ port.pending
    /\ LET p == [port EXCEPT !.dsp = "open", !.pending = FALSE, !.required = FALSE]
       IN  \E u \in invalidate_device_wake(w) :
             \E v \in update_driver_wake(Replaced(Bumped(u)), node, p) : Finished(v, p)

SwapAborted ==
    Processes /\ port.pending /\ Finished(w, [port EXCEPT !.pending = FALSE])

(* The device goes behind a placeholder, the generation stays.             *)
SwapRetired ==
    /\ Processes /\ port.pending
    /\ LET p == [port EXCEPT !.dsp = "closed", !.required = FALSE]
       IN  \E u \in update_driver_wake(Replaced([w EXCEPT !.snap = NoWake]), node, p) :
             Finished(u, p)

SwapFailed ==
    /\ Processes /\ port.pending
    /\ LET p == [port EXCEPT !.dsp = "closed", !.pending = FALSE, !.required = FALSE]
       IN  \E u \in invalidate_device_wake(w) :
             \E v \in update_driver_wake(Replaced(Bumped(u)), node, p) : Finished(v, p)

(* A cycle that lands on a stopped node only drops the snapshot.           *)
ProcessStopped ==
    /\ owed /\ ~(node.started /\ node.pos # "none")
    /\ w' = [w EXCEPT !.snap = NoWake]
    /\ owed' = FALSE
    /\ UNCHANGED <<node, port, pc, sick>>

-----------------------------------------------------------------------------
(* Commands, run on the data loop, also from inside ready().               *)

Start ==
    /\ ~node.started
    /\ LET n == [node EXCEPT !.started = TRUE, !.following = Follower(node)]
       IN  node' = n /\ w' \in update_driver_wake(w, n, port)
    /\ UNCHANGED <<port, pc, owed, sick>>

Pause ==
    /\ node.started
    /\ LET n == [node EXCEPT !.started = FALSE]
       IN  node' = n /\ \E u \in update_driver_wake(w, n, port) : w' = Bumped(u)
    /\ port' \in {[port EXCEPT !.pending = FALSE, !.dsp = s]
                    : s \in {port.dsp} \cup (IF port.dsp = "running" THEN {"open"} ELSE {})}
    /\ UNCHANGED <<pc, owed, sick>>

Suspend ==
    /\ LET n == [node EXCEPT !.started = FALSE]
       IN  /\ node' = n
           /\ \E u \in invalidate_device_wake(w) : \E v \in update_driver_wake(u, n, port) :
                w' = Bumped(Replaced([v EXCEPT !.snap = NoWake]))
    /\ port' = [dsp |-> "closed", pending |-> FALSE, required |-> FALSE]
    /\ UNCHANGED <<pc, owed, sick>>

(* install_device in two steps around the open, release_format, and the    *)
(* takeover lease given back.                                              *)
Updated(u, p) == IF node.started THEN update_driver_wake(u, node, p) ELSE {u}

InstallBegin ==
    /\ ~port.pending
    /\ LET p == [port EXCEPT !.pending = TRUE]
       IN  port' = p /\ w' \in Updated(Bumped(w), p)
    /\ UNCHANGED <<node, pc, owed, sick>>

InstallEnd ==
    /\ port.pending
    /\ \E s \in {"open", "closed"} :
         LET p == [port EXCEPT !.dsp = s, !.pending = FALSE, !.required = FALSE]
         IN  /\ port' = p
             /\ \E u \in invalidate_device_wake(w) : w' \in Updated(Replaced(Bumped(u)), p)
    /\ UNCHANGED <<node, pc, owed, sick>>

ReleaseFormat ==
    /\ LET p == [port EXCEPT !.dsp = "closed", !.pending = TRUE, !.required = FALSE]
       IN  /\ port' = p
           /\ \E u \in invalidate_device_wake(w) :
                w' \in Updated(Replaced(Bumped([u EXCEPT !.snap = NoWake])), p)
    /\ UNCHANGED <<node, pc, owed, sick>>

TakeoverReleased ==
    /\ port.pending
    /\ port' = [port EXCEPT !.pending = FALSE]
    /\ UNCHANGED <<node, w, pc, owed, sick>>

(* set_io: only a change of presence or of role touches the wake.          *)
SetIo ==
    /\ \E pos \in {"none", "ours", "theirs"}, clk \in BOOLEAN :
         /\ pos = node.pos \/ clk = node.clk
         /\ LET io == [node EXCEPT !.pos = pos, !.clk = clk,
                                   !.dur = IF pos = "none" THEN 0 ELSE @]
                n  == IF io.started THEN [io EXCEPT !.following = Follower(io)] ELSE io
                changed == n.following # node.following
                           \/ (pos # "none" /\ clk) # (node.pos # "none" /\ node.clk)
            IN  /\ node' = n
                /\ w' \in IF n.started /\ changed THEN update_driver_wake(w, n, port) ELSE {w}
    /\ UNCHANGED <<port, pc, owed, sick>>

-----------------------------------------------------------------------------
(* Outside: time (kept only while a deadline or a timer can tell), the     *)
(* kernel, the worker that closes retired devices, the host's position     *)
(* and the clock.                                                          *)

Tick ==
    /\ Driving(node) \/ w.timer # Off
    /\ w' = [w EXCEPT !.due = Greatest(@ - 1, -(Stall + 1)),
                      !.timer = IF @ = Off THEN Off ELSE Greatest(@ - 1, 0)]
    /\ UNCHANGED <<node, port, pc, owed, sick>>

TimerExpires ==
    /\ w.timer = 0 /\ ~w.fired
    /\ w' = [w EXCEPT !.fired = TRUE]
    /\ UNCHANGED <<node, port, pc, owed, sick>>

DeviceActivates ==
    /\ w.knote.on /\ ~w.knote.active
    /\ w' = [w EXCEPT !.knote.active = TRUE]
    /\ UNCHANGED <<node, port, pc, owed, sick>>

RetiredCloses ==
    /\ w.reg # NoReg /\ w.reg.dev = "old" /\ w.knote.on
    /\ w' = [w EXCEPT !.knote = NoKnote]
    /\ UNCHANGED <<node, port, pc, owed, sick>>

HostWritesPosition ==
    /\ Driving(node)
    /\ \E dur \in {0, Period} : node' = [node EXCEPT !.dur = dur]
    /\ UNCHANGED <<port, w, pc, owed, sick>>

ClockChanges ==
    /\ sick' = ~sick
    /\ UNCHANGED <<node, port, w, pc, owed>>

-----------------------------------------------------------------------------
Dispatch == WakeIgnored \/ WakeClockFails \/ WakeOfPreviousCycle \/ WakeIdle \/ WakeCycle

Process == ProcessPorts \/ SwapInstalled \/ SwapAborted \/ SwapRetired \/ SwapFailed
           \/ ProcessStopped

Command == Start \/ Pause \/ Suspend \/ InstallBegin \/ InstallEnd \/ ReleaseFormat
           \/ TakeoverReleased \/ SetIo

Environment == Tick \/ TimerExpires \/ DeviceActivates \/ RetiredCloses
               \/ HostWritesPosition \/ ClockChanges

Next == Dispatch \/ WakeSpurious \/ ReadyReturns \/ Process \/ Command \/ Environment

(* Time passes, an armed timer expires, the host's callback returns, and   *)
(* the loop serves what it keeps finding readable, be it an expiration or  *)
(* an edge.                                                                *)
Fairness ==
    /\ WF_vars(Tick) /\ WF_vars(TimerExpires) /\ WF_vars(ReadyReturns)
    /\ SF_vars(Kind = "timer" /\ Dispatch)
    /\ SF_vars(Kind = "stream" /\ Dispatch)

Spec == Init /\ [][Next]_vars /\ Fairness

-----------------------------------------------------------------------------
WakeState ==
    [reg : Streams \cup {NoReg}, knote : [on : BOOLEAN, active : BOOLEAN],
     failed : BOOLEAN, snap : Streams \cup {NoWake}, due : Int,
     timer : Nat \cup {Off}, fired : BOOLEAN]

NodeState ==
    [started : BOOLEAN, following : BOOLEAN, pos : {"none", "ours", "theirs"},
     clk : BOOLEAN, dur : {0, Period}, native : BOOLEAN]

PortState ==
    [dsp : {"closed", "open", "running"}, pending : BOOLEAN, required : BOOLEAN]

TypeOK ==
    /\ node \in NodeState
    /\ port \in PortState
    /\ w \in WakeState
    /\ pc \in {"idle", "ready"}
    /\ owed \in BOOLEAN
    /\ sick \in BOOLEAN

(* An edge is only ever attributed to the device and generation it was     *)
(* queued for: the snapshot a cycle's servo and I/O use describes the      *)
(* running device, and a registration in force is a live one on it.        *)
WakeIsCurrent ==
    /\ w.snap # NoWake => w.snap.cur /\ (port.dsp = "running" => w.snap.dev = "cur")
    /\ w.reg # NoReg /\ w.reg.cur /\ port.dsp = "running" => w.reg.dev = "cur" /\ w.knote.on

(* Between callbacks a driver always has its deadline armed (no path loses *)
(* the one-shot timer), and a stopped or following node has parked it.     *)
WakeSelected ==
    pc = "idle" =>
        /\ Driving(node) => w.timer # Off
        /\ ~node.started \/ node.following => w.timer = Off

(* A deadline and a device edge for the same period drive one cycle, never *)
(* two: the predicted deadline never runs more than one period (or the     *)
(* idle tick of a node without one) and the grace ahead of time.           *)
NotAhead == \E a \in Advances \cup {Retry} : w.due <= watchdog_grace(Period) + a

(* A node that keeps driving with a valid period and a readable clock,     *)
(* left alone by the host's commands and by a registration the kernel      *)
(* refuses to remove, keeps starting cycles, whatever becomes of its       *)
(* device.                                                                 *)
KeepsDriving ==
    /\ <>[](Driving(node) /\ node.dur # 0 /\ ~sick)
    /\ <>[](w.reg # NoReg => w.reg.cur)
    /\ <>[][~Command]_vars
    =>
        []<>(pc = "ready") /\ []<>(pc = "idle")
=============================================================================
