------------------------------ MODULE Capture ------------------------------
(***************************************************************************)
(* The capture data path: the source node's process cycle                  *)
(* (node/source/mod.rs, node/source/buffer.rs) reading an OSS PCM channel  *)
(* through Dsp (freebsd_oss/dsp.rs) into host buffers, with the ring       *)
(* geometry of Geometry.                                                   *)
(*                                                                         *)
(* Sample boundaries are fixed by the number of bytes consumed, a read may *)
(* stop in the middle of a frame, and the ring is only partly drained by   *)
(* each cycle.  The model keeps, for the bytes in the ring, how many there *)
(* are, the frame position of the first, and how many were captured before *)
(* the stream was last primed.                                             *)
(*                                                                         *)
(* A process cycle is a read step (or a prime, whose backlog is discarded  *)
(* read by read) and a step that looks at the overrun counter and          *)
(* publishes the buffer; the channel fills between them.  Commands run     *)
(* between cycles.  Rebuilds appear by their effect (module Rebuild).      *)
(***************************************************************************)
EXTENDS Geometry

CONSTANTS
    Stride,      \* bytes of one PCM frame
    Rate,        \* device rate, and graph rate
    Periods,     \* graph periods the driver can ask for, in device bytes
    MaxSize,     \* size of a host buffer
    NumBuffers,  \* registered host buffers
    Grants,      \* ring capacities the kernel may grant
    Blocks,      \* fragment sizes the kernel may grant
    DeliveryNs,  \* the delivery quantum the backend measured for the device
    Lumps,       \* sizes in which the hardware delivers
    XrunModulus, \* values of the kernel's overrun counter
    NoFill       \* a missing measurement (Option::None)

ASSUME CaptureAssumption ==
    /\ {Stride, Rate, MaxSize, NumBuffers} \subseteq Nat \ {0}
    /\ Stride <= MaxSize  \* build_buffers_info asks for 2048 frames and more
    /\ Periods \subseteq Nat \ {0}
    /\ Grants \subseteq Nat \ {0} /\ Grants # {}
    /\ Blocks \subseteq Nat \ {0} /\ Blocks # {}
    /\ Lumps \subseteq Nat \ {0}
    /\ DeliveryNs \in Nat
    /\ XrunModulus \in Nat \ {0, 1}
    /\ NoFill \notin Nat

VARIABLES
    d,        \* the Dsp and the kernel channel behind its descriptor
    port,     \* the port fields the source cycle owns
    io,       \* the host's io area: status and buffer id (-1: none)
    cyc,      \* where the data loop is in the cycle, and the cycle's locals
    node,     \* started, negotiated format, registered buffers
    period,   \* the graph period the driver announces (0: no position yet)
    snap,     \* the overrun count of the last wake, or NoFill
    owed      \* overruns of this device that no cycle has reported yet

vars == <<d, port, io, cyc, node, period, snap, owed>>

PinnedCycleLimit == 3

-----------------------------------------------------------------------------
(* Dsp and its channel.  state, skip, trig (needs_trigger), th             *)
(* (wake_threshold), per, quantum, cap, mism and pin (CaptureBufferState)  *)
(* are the handle's; fill, phase, old, room, block, lw, xruns and dead are *)
(* the kernel's; a reset of the ring also resets the overrun counter.      *)

Fresh ==
    [state |-> "setup", skip |-> 0, trig |-> FALSE, th |-> 0,
     per |-> 0, quantum |-> 0, cap |-> 0, mism |-> 0, pin |-> 0,
     fill |-> 0, phase |-> 0, old |-> 0, room |-> CHOOSE g \in Grants : TRUE,
     block |-> CHOOSE b \in Blocks : TRUE, lw |-> 1, xruns |-> 0, dead |-> FALSE]

Closed == [Fresh EXCEPT !.state = "closed"]

Running(v) == v.state = "running"

(* read(2) hands over the k oldest bytes.                                  *)
Taken(v, k) ==
    [v EXCEPT !.fill = @ - k, !.phase = (@ + k) % Stride, !.old = Less(@, k)]

(* Dsp::read: the tail of a torn frame is dropped first; then one read,    *)
(* which a signal may cut short, and whose own torn frame is hidden.       *)
(* n bytes were delivered, the first of them from frame position `first`.  *)
read(v, want) ==
    LET skipped == Least(v.skip, v.fill)
        u       == [Taken(v, skipped) EXCEPT !.skip = @ - skipped]
        none    == [d |-> u, n |-> 0, first |-> 0, st |-> "block"]
        Got(k)  == [d     |-> [Taken(u, k) EXCEPT !.skip = (Stride - (k % Stride)) % Stride],
                    n     |-> k - (k % Stride),
                    first |-> u.phase,
                    st    |-> "progress"]
    IN  IF v.dead THEN {[none EXCEPT !.d = v, !.st = "lost"]}
        ELSE IF u.skip # 0 \/ u.fill = 0 THEN {none}
        ELSE {Got(k) : k \in 1..Least(want, u.fill)}

\* Mutant: the torn frame outlives the ring it was torn in.
suspend_keeps_skip(v) ==
    IF ~Running(v) THEN {[d |-> v, ok |-> TRUE]}
    ELSE {[d  |-> [v EXCEPT !.state = "setup", !.trig = TRUE,
                            !.fill = 0, !.phase = 0, !.old = 0, !.xruns = 0],
           ok |-> TRUE]}
         \cup IF v.dead THEN {[d |-> v, ok |-> FALSE]} ELSE {}

(* SETTRIGGER(0): the ring is gone, the next prime starts the channel      *)
(* again.  A dying device may refuse.                                      *)
suspend(v) ==
    IF ~Running(v) THEN {[d |-> v, ok |-> TRUE]}
    ELSE {[d  |-> [v EXCEPT !.state = "setup", !.trig = TRUE, !.skip = 0,
                            !.fill = 0, !.phase = 0, !.old = 0, !.xruns = 0],
           ok |-> TRUE]}
         \cup IF v.dead THEN {[d |-> v, ok |-> FALSE]} ELSE {}

(* set_small_fragments: only a channel in setup can be laid out again.     *)
Ring ==
    capture_buffer_request(period, max_buffer_period_bytes(Stride, Rate, Rate),
                           buffer_capacity_limit(Stride, Rate))

LaidOut(v, g, b) == [v EXCEPT !.th = 0, !.lw = 1, !.room = g, !.block = b]

set_small_fragments(v) ==
    IF v.state # "setup" THEN {v}
    ELSE {LaidOut(v, g, b)
            : g \in {g \in Grants : g <= Clamp(Ring, MinBuffer, CapacityMax)}, b \in Blocks}

\* Mutant: the channel is started and NOTRIGGER left set.
PolledUnarmed(v) == [v EXCEPT !.state = "running", !.old = v.fill]

(* ready_for_reading: poll starts the channel, and reports data only from  *)
(* the low-water mark on.  A channel that was suspended is armed again.    *)
Polled(v) == [v EXCEPT !.state = "running", !.trig = FALSE, !.old = v.fill]
Ready(v) == ~v.dead /\ v.fill >= v.lw

Quantum(v) == Greatest(v.block, delivery_quantum_bytes(DeliveryNs, Rate, Stride))

-----------------------------------------------------------------------------
NewPort ==
    [setup |-> 0, quantum |-> 0, cap |-> 0, target |-> 0, peak |-> 0,
     primed |-> FALSE, active |-> 0, retune_pending |-> FALSE,
     was_freewheeling |-> FALSE, required |-> FALSE, pending |-> FALSE,
     base |-> NoFill]

queue_required_rebuilds(p) ==
    IF p.required /\ ~p.pending THEN {p, [p EXCEPT !.pending = TRUE]} ELSE {p}

reset_stream_epoch(p) == [p EXCEPT !.required = FALSE, !.base = NoFill]

(* A read from a device that is gone asks for its replacement.             *)
requires_rebuild(st) == st = "lost"
latch_rebuild_required(p, st) == [p EXCEPT !.required = @ \/ requires_rebuild(st)]

on_device_swapped(p) ==
    [reset_stream_epoch(p) EXCEPT !.primed = FALSE, !.active = 0]

(* A fresh device brings the delivery quantum its configuration reported.  *)
Configured(p) ==
    {[on_device_swapped(p) EXCEPT !.pending = FALSE, !.quantum = q] : q \in {0} \cup Blocks}

commit_geometry(p, per, g) ==
    [p EXCEPT !.setup = per, !.quantum = g.quantum, !.cap = g.capacity,
              !.target = g.target, !.peak = g.peak]

NoOutput == [size |-> 0, real |-> 0, first |-> 0]
Idle == [pc |-> "idle", buffer |-> -1, out |-> NoOutput, pre |-> NoFill,
         freewheel |-> FALSE, backlog |-> 0, lost |-> FALSE]

Init ==
    /\ d = Fresh
    /\ port = NewPort
    /\ io = [status |-> "need", buffer |-> -1]
    /\ cyc = Idle
    /\ node = [started |-> FALSE, format |-> TRUE, buffers |-> TRUE]
    /\ period = 0
    /\ snap = NoFill
    /\ owed = 0

-----------------------------------------------------------------------------
(* The cycle up to the retune.                                             *)

AtRest == cyc.pc = "idle"
Runs == AtRest /\ node.started

(* A ring reset or a new device starts a new measurement epoch.            *)
Owed(v) == IF Running(v) THEN owed ELSE 0
Snap(v) == IF Running(v) THEN snap ELSE NoFill

Skipped(v, p) ==
    /\ d' = v
    /\ port' \in queue_required_rebuilds(p)
    /\ cyc' = Idle
    /\ snap' = NoFill
    /\ owed' = Owed(v)
    /\ UNCHANGED <<io, node, period>>

(* poll_rebuild: the fresh device is installed and the cycle goes on ...   *)
RebuildInstalled ==
    /\ Runs /\ port.pending
    /\ \E p \in Configured(port) : Skipped(Fresh, p)

(* ... or the rebuild was given up, closed the old device to try again, or *)
(* failed and took the format with it.                                     *)
RebuildAborted ==
    /\ Runs /\ port.pending
    /\ Skipped(d, [port EXCEPT !.pending = FALSE])

RebuildRetried ==
    /\ Runs /\ port.pending
    /\ Skipped(Closed, reset_stream_epoch(port))

RebuildFailed ==
    /\ Runs /\ port.pending
    /\ d' = Closed
    /\ port' = [on_device_swapped(port) EXCEPT !.pending = FALSE]
    /\ node' = [node EXCEPT !.format = FALSE]
    /\ snap' = NoFill
    /\ owed' = 0
    /\ UNCHANGED <<io, cyc, period>>

(* A started node without a device asks for one.                           *)
CycleReplaces ==
    \E p \in queue_required_rebuilds(port), queued \in BOOLEAN :
        /\ Runs
        /\ ~p.pending /\ node.format /\ node.buffers
        /\ d.state = "closed"
        /\ Skipped(d, [p EXCEPT !.pending = queued])

(* Nothing else is done while a rebuild is in flight, before the port is   *)
(* negotiated, or while the peer has not consumed the last buffer.         *)
Usable(p) ==
    /\ ~p.pending /\ node.format /\ node.buffers
    /\ d.state # "closed"
    /\ io.status # "have"

CycleSkips ==
    \E p \in queue_required_rebuilds(port) :
        /\ Runs
        /\ ~Usable(p)
        /\ d.state = "closed" => p.pending \/ ~node.format \/ ~node.buffers
        /\ Skipped(d, p)

(* The next never-used buffer, unless the host returned one.               *)
Buffer(p) == IF io.buffer = -1 THEN p.active ELSE io.buffer
HandedOut(p) == IF io.buffer = -1 THEN [p EXCEPT !.active = Least(@ + 1, NumBuffers + 1)] ELSE p

(* No such buffer, or one the peer made unusable.                          *)
CycleNoBlock ==
    \E p \in queue_required_rebuilds(port) :
        /\ Runs
        /\ Usable(p)
        /\ Skipped(d, HandedOut(p))

-----------------------------------------------------------------------------
(* retune_period and Dsp::retune_buffer: what the cycle goes on with.      *)

SamePeriod(v, p) == ~p.primed \/ v.per = 0 \/ period = 0 \/ period = v.per

retune(v, p) ==
    LET m == v.mism + 1
        g == capture_applied_geometry(period, v.cap, Greatest(v.quantum, Quantum(v)))
    IN  IF SamePeriod(v, p)
          THEN {[d |-> [v EXCEPT !.mism = 0],
                 port |-> [p EXCEPT !.retune_pending = FALSE], rebuild |-> FALSE]}
        ELSE IF m < 2
          THEN {[d |-> [v EXCEPT !.mism = m],
                 port |-> [p EXCEPT !.retune_pending = TRUE], rebuild |-> FALSE]}
        ELSE IF g.capacity >= g.required
          THEN {[d |-> [v EXCEPT !.per = period, !.mism = 0],
                 port |-> [commit_geometry(p, period, g) EXCEPT !.retune_pending = FALSE],
                 rebuild |-> FALSE]}
        ELSE {IF s.ok
                THEN [d |-> [s.d EXCEPT !.mism = 0],
                      port |-> [reset_stream_epoch(p) EXCEPT !.retune_pending = FALSE,
                                                             !.primed = FALSE],
                      rebuild |-> FALSE]
                ELSE [d |-> [s.d EXCEPT !.mism = Least(m, 2)],
                      port |-> [p EXCEPT !.retune_pending = TRUE], rebuild |-> TRUE]
                : s \in suspend(v)}

(* What a usable cycle goes on with: the stream and port behind the retune *)
(* and the freewheel edge (leaving freewheel asks for a new prime).        *)
Reprimed(p, fw) ==
    [p EXCEPT !.primed = @ /\ (~p.was_freewheeling \/ fw), !.was_freewheeling = fw]

Tunings(fw) ==
    UNION {{[d |-> r.d, port |-> Reprimed(r.port, fw), rebuild |-> r.rebuild,
             buffer |-> Buffer(p)] : r \in retune(d, HandedOut(p))}
             : p \in {q \in queue_required_rebuilds(port) : Usable(q) /\ Buffer(q) < NumBuffers}}

CycleRetuneRefused ==
    Runs /\ \E t \in Tunings(port.was_freewheeling) :
        /\ t.rebuild
        /\ Skipped(t.d, [t.port EXCEPT !.pending = TRUE])

(* On to the overrun counter with what this cycle produced.                *)
Produced(v, p, b, o, pre, fw) ==
    /\ d' = v
    /\ port' = p
    /\ cyc' = [Idle EXCEPT !.pc = "overrun", !.buffer = b, !.out = o,
                           !.pre = pre, !.freewheel = fw]
    /\ snap' = Snap(v)
    /\ owed' = Owed(v)
    /\ UNCHANGED <<io, node, period>>

Silence(n) == [size |-> Least(n, MaxSize), real |-> 0, first |-> 0]

CycleFreewheel ==
    Runs /\ \E t \in Tunings(TRUE) :
        /\ period > 0
        /\ Produced(t.d, t.port, t.buffer, Silence(period), NoFill, TRUE)

(* prime_capture: lay the ring out, start the channel, look at it once ... *)
CyclePrime ==
    Runs /\ \E t \in Tunings(FALSE) :
        /\ ~t.port.primed /\ period > 0
        /\ \E v \in set_small_fragments(t.d) :
             /\ d' = [Polled(v) EXCEPT !.cap = IF v.dead THEN 0 ELSE v.room,
                                       !.quantum = Quantum(v), !.per = period,
                                       !.mism = 0, !.pin = 0]
             /\ port' = t.port
             /\ cyc' = [Idle EXCEPT !.pc = "discard", !.buffer = t.buffer,
                                    !.backlog = IF Ready(v) THEN v.fill ELSE 0]
             /\ snap' = Snap(t.d)
             /\ owed' = Owed(t.d)
             /\ UNCHANGED <<io, node, period>>

(* ... discard the backlog read by read, in whole frames ...               *)
Chunk == (Least(cyc.backlog, MaxSize) \div Stride) * Stride

\* Mutant: the backlog is discarded with a single read.
DiscardOnce ==
    /\ cyc.pc = "discard"
    /\ Chunk > 0
    /\ \E r \in read(d, Chunk) :
         /\ d' = r.d
         /\ cyc' = [cyc EXCEPT !.backlog = 0, !.lost = r.st = "lost"]
    /\ UNCHANGED <<port, io, node, period, snap, owed>>

PrimeDiscard ==
    /\ cyc.pc = "discard"
    /\ Chunk > 0
    /\ \E r \in read(d, Chunk) :
         /\ d' = r.d
         /\ cyc' = [cyc EXCEPT !.backlog = IF r.n = 0 THEN 0 ELSE Less(@, r.n),
                               !.lost    = @ \/ requires_rebuild(r.st)]
    /\ UNCHANGED <<port, io, node, period, snap, owed>>

(* ... and hand out one period of silence.                                 *)
PrimeDone ==
    /\ cyc.pc = "discard"
    /\ Chunk = 0
    /\ LET g == capture_applied_geometry(period, d.cap, d.quantum)
       IN  Produced([d EXCEPT !.old = 0], [commit_geometry(port, period, g) EXCEPT
                          !.primed = TRUE, !.required = @ \/ cyc.lost],
                    cyc.buffer, Silence(period), NoFill, FALSE)

(* Nothing runs and no period is known yet: an empty cycle.                *)
CycleEmpty ==
    Runs /\ \E t \in Tunings(FALSE) :
        /\ period = 0
        /\ ~Running(t.d)
        /\ Produced(t.d, t.port, t.buffer, [NoOutput EXCEPT !.size = -1], NoFill, FALSE)

(* The live queue, or what a wake saw in it earlier.                       *)
measured_fill(v) == 0..(IF v.dead THEN v.room ELSE v.fill)

(* Whether the ring was pinned at its ceiling when the cycle read it: all  *)
(* that recover_overrun asks of the fill before the read.                  *)
Pinned(v, queued) == v.cap > 0 => queued > Less(v.cap, v.quantum)

(* bounded_read: a period, plus the backlog above the healthy peak, padded *)
(* with silence when the device is late.                                   *)
BoundedRead(t, queued) ==
    LET want  == IF t.port.setup # 0
                   THEN Sat(t.port.setup + Less(queued, t.port.peak)) ELSE queued
        space == (Least(Least(want, queued), MaxSize) \div Stride) * Stride
        reads == IF space > 0 THEN read(t.d, space)
                 ELSE {[d |-> t.d, n |-> 0, first |-> 0, st |-> "progress"]}
    IN  \E r \in reads :
          Produced(r.d, latch_rebuild_required(t.port, r.st), t.buffer,
                   [size  |-> Greatest(r.n, Least(t.port.setup, MaxSize)),
                    real  |-> r.n,
                    first |-> IF r.n = 0 THEN 0 ELSE r.first],
                   Pinned(t.d, queued), FALSE)

CycleRead ==
    Runs /\ \E t \in Tunings(FALSE) :
        /\ t.port.primed \/ period = 0
        /\ Running(t.d)
        /\ \E queued \in measured_fill(t.d) : BoundedRead(t, queued)

-----------------------------------------------------------------------------
(* Dsp::recover_overrun: a counted overrun only matters when the ring      *)
(* stays pinned at its ceiling.                                            *)
recover_overrun(v, p, pre) ==
    LET pins == IF pre = TRUE THEN v.pin + 1 ELSE 0
    IN  IF pins < PinnedCycleLimit
          THEN {[d |-> [v EXCEPT !.pin = pins], port |-> p]}
          ELSE {[d |-> s.d, port |-> [p EXCEPT !.primed = FALSE,
                                               !.base = IF s.ok THEN NoFill ELSE @]]
                  : s \in suspend([v EXCEPT !.pin = 0])}

(* XrunTracker::observe.  A wake carries a snapshot of the wrapping        *)
(* counter, which becomes the baseline; a poll returns the counter and     *)
(* resets it (and reads zero when the ioctl fails).                        *)
cumulative_delta(current, previous) ==
    IF previous = NoFill THEN current
    ELSE (current + XrunModulus - previous) % XrunModulus

\* Mutant: a resetting poll leaves the old baseline in place.
baseline_kept(p) == IF snap = NoFill THEN p ELSE [p EXCEPT !.base = snap]

baseline(p) == [p EXCEPT !.base = snap]

Observed == IF snap # NoFill THEN snap ELSE IF d.dead THEN 0 ELSE d.xruns

(* The counter is looked at, then the buffer is published.                 *)
CycleOverrun ==
    /\ cyc.pc = "overrun"
    /\ LET counted == Running(d) /\ ~cyc.freewheel
           events  == IF counted THEN cumulative_delta(Observed, port.base) ELSE 0
           v       == IF counted /\ snap = NoFill THEN [d EXCEPT !.xruns = 0] ELSE d
           p       == IF counted THEN baseline(port) ELSE port
           ends    == IF events > 0
                        THEN recover_overrun(v, p, cyc.pre)
                        ELSE {[d |-> [v EXCEPT !.pin = 0], port |-> p]}
       IN  \E e \in ends :
             /\ d' = e.d
             /\ port' \in queue_required_rebuilds(e.port)
             /\ owed' = IF Running(d) /\ ~Running(e.d) THEN 0 ELSE owed - events
    /\ io' = [status |-> IF cyc.out.size = -1 THEN "ok" ELSE "have", buffer |-> cyc.buffer]
    /\ cyc' = Idle
    /\ snap' = NoFill
    /\ UNCHANGED <<node, period>>

-----------------------------------------------------------------------------
(* Commands, run on the data loop between cycles.  The device keeps        *)
(* capturing across a Pause; Start asks for a new prime.                   *)

Start ==
    /\ AtRest /\ node.format /\ node.buffers
    /\ port' = [port EXCEPT !.primed = FALSE]
    /\ node' = [node EXCEPT !.started = TRUE]
    /\ UNCHANGED <<d, io, cyc, period, snap, owed>>

Pause ==
    /\ AtRest /\ node.started
    /\ port' = [port EXCEPT !.pending = FALSE]
    /\ node' = [node EXCEPT !.started = FALSE]
    /\ snap' = NoFill
    /\ UNCHANGED <<d, io, cyc, period, owed>>

Suspend ==
    /\ AtRest
    /\ d' = Closed
    /\ port' = [on_device_swapped(port) EXCEPT !.setup = 0, !.quantum = 0, !.pending = FALSE]
    /\ node' = [started |-> FALSE, format |-> FALSE, buffers |-> FALSE]
    /\ io' = [status |-> "need", buffer |-> -1]
    /\ snap' = NoFill
    /\ owed' = 0
    /\ UNCHANGED <<cyc, period>>

Negotiate ==
    /\ AtRest /\ ~node.format
    /\ d' = Fresh
    /\ port' \in Configured(port)
    /\ node' = [node EXCEPT !.format = TRUE]
    /\ snap' = NoFill
    /\ owed' = 0
    /\ UNCHANGED <<io, cyc, period>>

UseBuffers ==
    /\ AtRest /\ node.format
    /\ port' = [port EXCEPT !.active = 0]
    /\ node' = [node EXCEPT !.buffers = TRUE]
    /\ io' = [status |-> "need", buffer |-> -1]
    /\ UNCHANGED <<d, cyc, period, snap, owed>>

(* register_wake, when this node drives: the low-water mark follows the    *)
(* fill target, and is moved only by a whole delivery.                     *)
capture_wake_threshold(p) == Greatest(Greatest(p.target, p.setup), 1)

wake_threshold_changed(current, desired, quantum) ==
    current = 0 \/ Greatest(Less(current, desired), Less(desired, current)) >= Greatest(quantum, 1)

RegisterWake ==
    /\ AtRest /\ node.started /\ Running(d) /\ ~d.dead
    /\ ~port.pending /\ ~port.required /\ port.setup # 0
    /\ wake_threshold_changed(d.th, capture_wake_threshold(port), port.quantum)
    /\ d' = [d EXCEPT !.th = capture_wake_threshold(port), !.lw = capture_wake_threshold(port)]
    /\ UNCHANGED <<port, io, cyc, node, period, snap, owed>>

-----------------------------------------------------------------------------
(* The hardware delivers a lump; what does not fit is dropped in whole     *)
(* frames upstream of the ring and counted (the counter never laps the     *)
(* baseline: fewer than XrunModulus go unreported).                        *)
Arrive ==
    /\ Running(d) /\ ~d.dead
    /\ \E n \in Lumps :
         \/ /\ d.fill + n <= d.room
            /\ d' = [d EXCEPT !.fill = @ + n]
            /\ UNCHANGED owed
         \/ /\ d.fill + n > d.room
            /\ owed < XrunModulus - 1
            /\ d' = [d EXCEPT !.xruns = (@ + 1) % XrunModulus]
            /\ owed' = owed + 1
    /\ UNCHANGED <<port, io, cyc, node, period, snap>>

(* A wake deposits the counter it saw; a disconnect event asks for a       *)
(* rebuild.                                                                *)
Wake ==
    /\ AtRest /\ node.started /\ Running(d) /\ ~port.pending
    /\ snap' = d.xruns
    /\ \E lost \in {FALSE, d.dead} : port' = [port EXCEPT !.required = @ \/ lost]
    /\ UNCHANGED <<d, io, cyc, node, period, owed>>

DeviceDies ==
    /\ Running(d) /\ ~d.dead
    /\ d' = [d EXCEPT !.dead = TRUE, !.fill = 0, !.old = 0]
    /\ UNCHANGED <<port, io, cyc, node, period, snap, owed>>

(* The peer consumes a buffer, and returns it with the request for the     *)
(* next one or keeps it.                                                   *)
HostConsumes ==
    /\ AtRest /\ io.status = "have"
    /\ \E b \in {io.buffer, -1} : io' = [status |-> "need", buffer |-> b]
    /\ UNCHANGED <<d, port, cyc, node, period, snap, owed>>

QuantumChange ==
    /\ AtRest /\ node.started
    /\ period' \in Periods
    /\ UNCHANGED <<d, port, io, cyc, node, snap, owed>>

-----------------------------------------------------------------------------
Cycle ==
    \/ RebuildInstalled \/ RebuildAborted \/ RebuildRetried \/ RebuildFailed
    \/ CycleReplaces \/ CycleSkips \/ CycleNoBlock \/ CycleRetuneRefused
    \/ CycleFreewheel \/ CyclePrime \/ PrimeDiscard \/ PrimeDone
    \/ CycleEmpty \/ CycleRead \/ CycleOverrun

Command == Start \/ Pause \/ Suspend \/ Negotiate \/ UseBuffers \/ RegisterWake

Environment == Arrive \/ Wake \/ DeviceDies \/ HostConsumes \/ QuantumChange

Next == Cycle \/ Command \/ Environment

Spec == Init /\ [][Next]_vars

-----------------------------------------------------------------------------
Counts == 0..(XrunModulus - 1)

DspState ==
    [state : {"closed", "setup", "running"}, skip : 0..(Stride - 1), trig : BOOLEAN,
     th : Nat, per : Nat, quantum : Nat, cap : Nat, mism : 0..2,
     pin : 0..(PinnedCycleLimit - 1), fill : Nat, phase : 0..(Stride - 1), old : Nat,
     room : Nat, block : Nat, lw : Nat, xruns : Counts, dead : BOOLEAN]

PortState ==
    [setup : Nat, quantum : Nat, cap : Nat, target : Nat, peak : Nat,
     primed : BOOLEAN, active : 0..(NumBuffers + 1), retune_pending : BOOLEAN,
     was_freewheeling : BOOLEAN, required : BOOLEAN, pending : BOOLEAN,
     base : Counts \cup {NoFill}]

CycState ==
    [pc : {"idle", "discard", "overrun"}, buffer : -1..(NumBuffers - 1),
     out : [size : Int, real : Nat, first : Nat], pre : BOOLEAN \cup {NoFill},
     freewheel : BOOLEAN, backlog : Nat, lost : BOOLEAN]

TypeOK ==
    /\ d \in DspState /\ d.fill <= d.room /\ d.old <= d.fill
    /\ port \in PortState
    /\ io \in [status : {"need", "have", "ok"}, buffer : -1..(NumBuffers - 1)]
    /\ cyc \in CycState
    /\ node \in [started : BOOLEAN, format : BOOLEAN, buffers : BOOLEAN]
    /\ period \in Nat
    /\ snap \in Counts \cup {NoFill}
    /\ owed \in Int

(* Every published buffer holds whole frames from a frame boundary on,     *)
(* and the bytes the handle will skip are exactly those that bring the     *)
(* stream back to a boundary: a read cut short in the middle of a frame    *)
(* never shifts what follows.                                              *)
FrameAligned ==
    /\ cyc.out.first = 0 /\ cyc.out.real % Stride = 0
    /\ ~d.dead /\ Running(d) => (d.phase + d.skip) % Stride = 0

(* Once a period is established the graph gets a whole one every cycle,    *)
(* from a running, armed channel that was primed with it.                  *)
PeriodsAreWhole ==
    /\ cyc.pc = "overrun" /\ cyc.pre # NoFill /\ port.setup # 0 =>
         cyc.out.size >= Least(port.setup, MaxSize) /\ cyc.out.size <= MaxSize
    /\ Running(d) => ~d.trig
    /\ port.primed /\ cyc.pc = "idle" /\ d.state # "closed" => Running(d) /\ port.setup = d.per

(* The geometry in force leaves room: a ring as large as the period needs  *)
(* is read down before the next delivery could overflow it, and the peak   *)
(* never lies below the level the servo steers to.                         *)
PeakFits ==
    port.primed /\ port.setup # 0
        /\ port.cap >= capture_buffer_required(port.setup, port.quantum) =>
             /\ port.target <= port.peak
             /\ port.peak + port.quantum <= port.cap

(* What was captured before a prime is discarded by it, except what lies   *)
(* below the low-water mark (poll does not report it), less than a frame,  *)
(* or what is behind a read that was cut short inside a frame.             *)
BacklogDiscarded ==
    cyc.pc = "discard" /\ Chunk = 0 => d.old < Greatest(d.lw, Stride) \/ d.skip # 0

(* Every overrun of a live device is reported exactly once, whichever of   *)
(* wake snapshots and resetting polls see it, in whatever order: what no   *)
(* cycle has reported is what the counter is ahead of the baseline.        *)
XrunsAccounted ==
    Running(d) /\ ~d.dead =>
        LET base == IF port.base = NoFill THEN 0 ELSE port.base
        IN  owed \in 0..(XrunModulus - 1) /\ (base + owed) % XrunModulus = d.xruns

(* No cycle reports an overrun that did not happen.                        *)
NoPhantomXruns == owed >= 0
=============================================================================
