------------------------------ MODULE Playback ------------------------------
(***************************************************************************)
(* The playback data path: the sink node's process cycle                   *)
(* (node/sink/mod.rs, node/sink/buffer.rs) writing host buffers into an    *)
(* OSS PCM channel through DspWriter (freebsd_oss/dsp.rs), with the ring   *)
(* geometry of Geometry.                                                   *)
(*                                                                         *)
(* The descriptor is nonblocking and byte-granular, so a write may stop in *)
(* the middle of a PCM frame.  The unaccepted suffix stays in the host     *)
(* buffer and the stream's frame phase must survive pauses, resets, ring   *)
(* retunes, buffer swaps and device replacement; one byte of error turns   *)
(* everything after it into noise.  The model therefore keeps the ring     *)
(* byte by byte: a nonnegative entry k is byte k of a host buffer, Silent  *)
(* is synthetic silence and Paused is the silence the kernel substitutes   *)
(* while a pause shadows the queue.                                        *)
(*                                                                         *)
(* One process cycle is three steps of the data loop (take the input and   *)
(* retune, prepare the stream, write), so that the channel drains between  *)
(* them; commands run on the same loop and only between cycles.  Rebuilds  *)
(* appear by their effect on the port (module Rebuild has the protocol).   *)
(***************************************************************************)
EXTENDS Geometry, Sequences

CONSTANTS
    Stride,      \* bytes of one PCM frame
    Rate,        \* device rate, and graph rate
    Periods,     \* graph periods the driver can ask for, in device bytes
    Sizes,       \* sizes of the chunks the host offers
    Buffers,     \* host buffer ids
    NoBuffer,    \* pending_buffer = None
    Grants,      \* ring capacities the kernel may grant
    Blocks,      \* fragment sizes the kernel may grant
    Eighths,     \* oss.delay, in eighths of a period
    NoSnapshot   \* stream_wake = None

ASSUME PlaybackAssumption ==
    /\ Stride \in Nat \ {0} /\ Rate \in Nat \ {0} /\ Eighths \in Nat
    /\ Periods \subseteq Nat /\ \A per \in Periods : per >= Stride  \* whole frames
    /\ Sizes \subseteq Nat \ {0}
    /\ Grants \subseteq Nat /\ Grants # {}
    /\ \A g \in Grants : g >= 2 * Stride  \* MIN_BUFFER_BYTES is many frames
    /\ Blocks \subseteq Nat \ {0}
    /\ NoBuffer \notin Buffers
    /\ NoSnapshot \notin Nat

VARIABLES
    w,        \* the DspWriter and the kernel channel behind its descriptor
    port,     \* the port fields the sink cycle owns
    inp,      \* the host's io area: status, buffer id, chunk size
    cyc,      \* where the data loop is in the cycle, and the cycle's locals
    node,     \* started, negotiated format, registered buffers
    period,   \* the graph period the driver announces (0: no position yet)
    snap      \* the queue fill of the last wake, or NoSnapshot

vars == <<w, port, inp, cyc, node, period, snap>>

Silent == -1
Paused == -2

-----------------------------------------------------------------------------
(* DspWriter and its channel.  state, off (frame_off), trig                *)
(* (needs_trigger), shadowed (pause_shadowed), per, mism, cap and block    *)
(* (PlaybackBufferState) are the handle's; ring, shadow, room, on, xr and  *)
(* dead are the kernel's.  A dead device accepts nothing, and only a dead  *)
(* one refuses SETTRIGGER, SILENCE or SKIP or fails to read back its ring. *)

Fresh ==
    [state |-> "setup", off |-> 0, trig |-> FALSE, shadowed |-> FALSE,
     per |-> 0, mism |-> 0, cap |-> 0, block |-> 0,
     ring |-> <<>>, shadow |-> <<>>, room |-> CHOOSE g \in Grants : TRUE,
     on |-> FALSE, xr |-> FALSE, dead |-> FALSE]

Closed == [Fresh EXCEPT !.state = "closed"]

Running(v) == v.state = "running"
Free(v) == v.room - Len(v.ring)
Begun(v) == IF v.state = "setup" THEN [v EXCEPT !.state = "running"] ELSE v

(* n bytes of bs enter the ring; a channel that is not trigger-suspended   *)
(* starts by itself.                                                       *)
Push(v, bs, n) ==
    [v EXCEPT !.ring = @ \o SubSeq(bs, 1, n),
              !.off  = (@ + n) % Stride,
              !.on   = @ \/ (n > 0 /\ ~v.trig)]

Drained(v, n) == [v EXCEPT !.ring = SubSeq(@, n + 1, Len(@))]

(* write(2): the kernel takes what fits, or fails when the device is gone. *)
write_buffered(v0, bs) ==
    LET v == Begun(v0)
        n == Least(Len(bs), Free(v))
    IN  IF v.dead
          THEN [w |-> v, n |-> 0, st |-> "fatal"]
          ELSE [w |-> Push(v, bs, n), n |-> n, st |-> IF n = 0 THEN "block" ELSE "progress"]

(* The tail of a split frame, retried while the channel drains: it fits,   *)
(* or the channel makes room in time, or the retries run out (at once when *)
(* the channel is trigger-suspended), or the device dies meanwhile.        *)
write_exact(v0, bs) ==
    LET v    == Begun(v0)
        n    == Least(Len(bs), Free(v))
        late == Len(bs) - n
        some == Push(v, bs, n)
    IN  IF v.dead THEN {[w |-> v, n |-> 0, st |-> "fatal"]}
        ELSE IF late = 0 THEN {[w |-> some, n |-> n, st |-> "progress"]}
        ELSE {[w |-> some, n |-> n, st |-> "block"],
              [w |-> [some EXCEPT !.dead = TRUE, !.on = FALSE, !.ring = <<>>], n |-> n, st |-> "fatal"]}
             \cup IF v.on /\ ~v.trig
                    THEN {[w  |-> Push(Drained(v, late), bs, Len(bs)),
                           n  |-> Len(bs),
                           st |-> "progress"]}
                    ELSE {}

(* SETTRIGGER(OUTPUT) once real data is buffered; a dead device ignores it.*)
arm(v) == IF v.trig THEN [v EXCEPT !.trig = FALSE, !.on = ~v.dead] ELSE v

Need(v, count) == Least(Stride - v.off, count)

(* The bulk of a write, from byte `done` of bs on, and the completion of a *)
(* frame that the bulk write splits.                                       *)
WriteBulk(r, bs) ==
    LET f    == write_buffered(r.w, SubSeq(bs, r.n + 1, Len(bs)))
        done == r.n + f.n
        tail == SubSeq(bs, done + 1, done + Need(f.w, Len(bs) - done))
    IN  IF f.n = 0 \/ f.w.off = 0 \/ done = Len(bs)
          THEN {[w |-> f.w, n |-> done, st |-> f.st]}
          ELSE {[w |-> t.w, n |-> done + t.n, st |-> t.st] : t \in write_exact(f.w, tail)}

(* DspWriter::write: finish an open frame with the first bytes of bs, then *)
(* the bulk, then arm.  A write that took everything is Progress.          *)
write(v0, bs) ==
    LET v     == Begun(v0)
        need  == Need(v, Len(bs))
        first == IF v.off = 0
                   THEN {[w |-> v, n |-> 0, st |-> "progress"]}
                   ELSE write_exact(v, SubSeq(bs, 1, need))
        Bulk(r) == IF (v.off # 0 /\ r.n < need) \/ r.n = Len(bs)
                     THEN {r} ELSE WriteBulk(r, bs)
    IN  {[w  |-> arm(r.w),
          n  |-> r.n,
          st |-> IF r.n = Len(bs) THEN "progress" ELSE r.st]
            : r \in UNION {Bulk(f) : f \in first}}

SilentBytes(n) == [i \in 1..n |-> Silent]

(* Close an open frame with format silence; the frame may stay open.       *)
realign_with_silence(v) ==
    IF v.off = 0 THEN {v}
    ELSE {r.w : r \in write_exact(v, SilentBytes(Stride - v.off))}

\* Mutant: silence is not cut to whole frames.
write_silence_unaligned(v0, count) ==
    {IF v.off # 0 THEN v ELSE write_buffered(v, SilentBytes(count)).w
        : v \in realign_with_silence(Begun(v0))}

(* Whole frames of silence, best effort.                                   *)
write_silence(v0, count) ==
    {IF v.off # 0 THEN v
     ELSE write_buffered(v, SilentBytes(count - (count % Stride))).w
        : v \in realign_with_silence(Begun(v0))}

(* SETTRIGGER(0): the ring and any split frame are gone, the channel waits *)
(* to be armed.  The driver of a dying device may refuse.                  *)
suspend(v) ==
    IF ~Running(v) THEN {[w |-> v, ok |-> TRUE]}
    ELSE {[w  |-> [v EXCEPT !.state = "setup", !.trig = TRUE, !.shadowed = FALSE,
                            !.off = 0, !.ring = <<>>, !.shadow = <<>>, !.on = FALSE],
           ok |-> TRUE]}
         \cup IF v.dead THEN {[w |-> v, ok |-> FALSE]} ELSE {}

(* The retained input sequence ends: close its open frame, or reset.       *)
end_buffer_sequence(v) ==
    IF v.off = 0 THEN {[w |-> v, reset |-> FALSE]}
    ELSE IF ~Running(v) THEN {[w |-> [v EXCEPT !.off = 0], reset |-> FALSE]}
    ELSE LET closed == IF v.shadowed THEN {v} ELSE realign_with_silence(v)
         IN  UNION {IF c.off = 0
                      THEN {[w |-> c, reset |-> FALSE]}
                      ELSE {[w |-> s.w, reset |-> s.ok] : s \in suspend(c)}
                        : c \in closed}

-----------------------------------------------------------------------------
(* The port.                                                               *)

NewPort ==
    [setup |-> 0, block |-> 0, cap |-> 0, target |-> 0, goal |-> 0, min |-> 0,
     xrun |-> FALSE, retune_pending |-> FALSE, resuming |-> FALSE,
     after_start |-> FALSE, buffer |-> NoBuffer, offset |-> 0,
     required |-> FALSE, pending |-> FALSE]

clear_pending_write(p) == [p EXCEPT !.buffer = NoBuffer, !.offset = 0]

(* queue_required_rebuilds: the submission may or may not become pending.  *)
queue_required_rebuilds(p) ==
    IF p.required /\ ~p.pending THEN {p, [p EXCEPT !.pending = TRUE]} ELSE {p}

reset_stream_epoch(p) == [p EXCEPT !.required = FALSE]

(* A device that is gone is remembered until it has been replaced.         *)
latch_rebuild_required(p, st) == [p EXCEPT !.required = @ \/ st = "fatal"]

on_device_swapped(p) ==
    clear_pending_write([reset_stream_epoch(p) EXCEPT
        !.xrun = FALSE, !.resuming = FALSE, !.after_start = FALSE])

(* A fresh device brings the delivery quantum its configuration reported.  *)
Configured(p) ==
    {[on_device_swapped(p) EXCEPT !.pending = FALSE, !.block = q] : q \in {0} \cup Blocks}

commit_geometry(p, per, g) ==
    [p EXCEPT !.setup = per, !.block = g.quantum, !.cap = g.capacity,
              !.target = g.target, !.goal = g.goal, !.min = g.minimum]

measured_fill == IF snap # NoSnapshot THEN snap ELSE Len(w.ring)

MaxPeriod == max_buffer_period_bytes(Stride, Rate, Rate)

(* NEED_DATA: the rest of the io area is not read.                         *)
NoInput == [status |-> "need", buffer |-> NoBuffer, size |-> 0]

Idle == [pc |-> "idle", from |-> 0, retuned |-> FALSE]

Init ==
    /\ w = Fresh
    /\ port = NewPort
    /\ inp = NoInput
    /\ cyc = Idle
    /\ node = [started |-> FALSE, format |-> TRUE, buffers |-> TRUE]
    /\ period = 0
    /\ snap = NoSnapshot

-----------------------------------------------------------------------------
(* How a cycle ends: the io status, the required rebuilds, the snapshot.   *)
EndCycle(v, p, status) ==
    /\ w' = v
    /\ port' \in queue_required_rebuilds(p)
    /\ inp' = IF status = "need" THEN NoInput ELSE inp
    /\ cyc' = Idle
    /\ snap' = NoSnapshot
    /\ UNCHANGED period

(* release_input: nothing of this buffer is left to write.                 *)
Release(v, p) ==
    \E e \in end_buffer_sequence(v) :
        /\ EndCycle(e.w, clear_pending_write(p), "need")
        /\ UNCHANGED node

(* The cycle's prologue: process() on a started node.                      *)
CycleStarts(p) ==
    /\ cyc.pc = "idle"
    /\ node.started
    /\ p \in queue_required_rebuilds(port)

Ready(p) == ~p.pending /\ node.format /\ node.buffers

CycleFreewheel ==
    \E p \in queue_required_rebuilds(port) :
        /\ CycleStarts(p)
        /\ Release(w, p)

(* poll_rebuild: the fresh device is installed and the cycle goes on ...   *)
RebuildInstalled ==
    /\ cyc.pc = "idle" /\ node.started /\ port.pending
    /\ w' = Fresh
    /\ port' \in Configured(port)
    /\ snap' = NoSnapshot
    /\ UNCHANGED <<inp, cyc, node, period>>

(* ... or the rebuild was given up, closed the old device to try again, or *)
(* failed and took the format with it; the cycle ends.                     *)
RebuildAborted ==
    /\ cyc.pc = "idle" /\ node.started /\ port.pending
    /\ Release(w, [port EXCEPT !.pending = FALSE])

RebuildRetried ==
    /\ cyc.pc = "idle" /\ node.started /\ port.pending
    /\ Release(Closed, reset_stream_epoch(port))

RebuildFailed ==
    /\ cyc.pc = "idle" /\ node.started /\ port.pending
    /\ EndCycle(Closed, [on_device_swapped(port) EXCEPT !.pending = FALSE], "need")
    /\ node' = [node EXCEPT !.format = FALSE]

(* ... or it is still in flight.                                           *)
CycleRebuilding ==
    \E p \in queue_required_rebuilds(port) :
        /\ CycleStarts(p)
        /\ p.pending
        /\ Release(w, p)

CycleUnnegotiated ==
    \E p \in queue_required_rebuilds(port) :
        /\ CycleStarts(p)
        /\ ~p.pending /\ ~(node.format /\ node.buffers)
        /\ EndCycle(w, p, inp.status)
        /\ UNCHANGED node

(* Closed, or unknown queue contents after a Pause: replace the device.    *)
CycleReplaces ==
    \E p \in queue_required_rebuilds(port), queued \in BOOLEAN :
        /\ CycleStarts(p)
        /\ Ready(p)
        /\ w.state = "closed" \/ p.after_start
        /\ Release(w, [p EXCEPT !.pending = queued,
                                !.after_start = @ /\ (w.state = "closed" \/ ~queued)])

Usable(p) == Ready(p) /\ w.state # "closed" /\ ~p.after_start

(* No input, or a block the peer made unusable.                            *)
CycleNoInput ==
    \E p \in queue_required_rebuilds(port) :
        /\ CycleStarts(p)
        /\ Usable(p)
        /\ Release(w, p)

(* prepare_pending_write: go on behind the accepted prefix, unless the     *)
(* host replaced the buffer, which ends the old sequence.                  *)
Takes(p) ==
    LET changed == p.offset # 0 /\ (p.buffer # inp.buffer \/ p.offset > inp.size)
        q       == IF changed \/ p.buffer # inp.buffer
                     THEN [p EXCEPT !.buffer = inp.buffer, !.offset = 0]
                     ELSE p
        ends    == IF changed THEN end_buffer_sequence(w) ELSE {[w |-> w, reset |-> FALSE]}
    IN  {[w |-> e.w, port |-> q, snap |-> IF e.reset THEN NoSnapshot ELSE snap] : e \in ends}

(* A buffer waits for the cycle.                                           *)
Offered == cyc.pc = "idle" /\ node.started /\ inp.status = "have"

(* A usable cycle with input: t is the stream, port and snapshot at the    *)
(* point where the retune decides.                                         *)
CycleInput(t) ==
    \E p \in queue_required_rebuilds(port) :
        /\ CycleStarts(p)
        /\ Usable(p)
        /\ t \in Takes(p)

Inputs == UNION {Takes(p) : p \in queue_required_rebuilds(port)}

(* The host cut the chunk down to the accepted prefix: nothing is left.    *)
CycleNothingLeft ==
    Offered /\ \E t \in Inputs :
        /\ CycleInput(t)
        /\ t.port.offset = inp.size
        /\ Release(t.w, t.port)

-----------------------------------------------------------------------------
(* retune_period and DspWriter::retune_buffer.                             *)

SamePeriod(v) == ~Running(v) \/ v.per = 0 \/ period = 0 \/ period = v.per

CycleRetune(t) == CycleInput(t) /\ t.port.offset # inp.size

Retuned(v, p, s, retuned) ==
    /\ w' = v
    /\ port' = p
    /\ snap' = s
    /\ cyc' = [pc |-> "prepare", from |-> p.offset, retuned |-> retuned]
    /\ UNCHANGED <<inp, node, period>>

RetuneUnchanged ==
    Offered /\ \E t \in Inputs :
        /\ CycleRetune(t)
        /\ SamePeriod(t.w)
        /\ Retuned([t.w EXCEPT !.mism = 0],
                   [t.port EXCEPT !.retune_pending = FALSE], t.snap, FALSE)

RetunePending ==
    Offered /\ \E t \in Inputs :
        /\ CycleRetune(t)
        /\ ~SamePeriod(t.w) /\ t.w.mism + 1 < 2
        /\ Retuned([t.w EXCEPT !.mism = @ + 1],
                   [t.port EXCEPT !.retune_pending = TRUE], t.snap, FALSE)

(* What the new period needs, with the ring as it was granted.             *)
RetuneGeometry(t) ==
    playback_retuned_geometry(period, period, t.w.cap, t.w.block, Eighths,
                              IF t.snap # NoSnapshot THEN t.snap ELSE Len(t.w.ring),
                              inp.size - t.port.offset)

RetuneDue(t, fits) ==
    /\ CycleRetune(t)
    /\ ~SamePeriod(t.w) /\ t.w.mism + 1 >= 2
    /\ fits = (RetuneGeometry(t).capacity >= RetuneGeometry(t).required)

\* Mutant: the new period is taken over, its geometry is not.
RetuneKeepsGeometry ==
    Offered /\ \E t \in Inputs :
        /\ RetuneDue(t, TRUE)
        /\ Retuned([t.w EXCEPT !.per = period, !.mism = 0],
                   [t.port EXCEPT !.retune_pending = FALSE, !.setup = period],
                   t.snap, TRUE)

RetuneInPlace ==
    Offered /\ \E t \in Inputs :
        /\ RetuneDue(t, TRUE)
        /\ Retuned([t.w EXCEPT !.per = period, !.mism = 0],
                   [commit_geometry(t.port, period, RetuneGeometry(t)) EXCEPT
                      !.retune_pending = FALSE],
                   t.snap, TRUE)

(* The ring is too small: reset it and prime again.                        *)
RetuneReprime ==
    Offered /\ \E t \in Inputs :
        /\ RetuneDue(t, FALSE)
        /\ \E s \in suspend(t.w) :
             /\ s.ok
             /\ Retuned([s.w EXCEPT !.mism = 0],
                        [reset_stream_epoch(t.port) EXCEPT !.retune_pending = FALSE,
                                                           !.xrun = FALSE],
                        NoSnapshot, TRUE)

(* The driver refuses the reset: replace the device, or, when no rebuild   *)
(* can be queued, go on at the stale geometry.                             *)
RetuneRefused ==
    Offered /\ \E t \in Inputs :
        /\ RetuneDue(t, FALSE)
        /\ \E s \in suspend(t.w) :
             /\ ~s.ok
             /\ LET v == [s.w EXCEPT !.mism = Least(@ + 1, 2)]
                    p == [t.port EXCEPT !.retune_pending = TRUE]
                IN  \/ Release(v, [p EXCEPT !.pending = TRUE])
                    \/ Retuned(v, p, t.snap, FALSE)

-----------------------------------------------------------------------------
(* Writing, and what becomes of the buffer.                                *)

Data(from) == [i \in 1..(inp.size - from) |-> from + i - 1]

(* The outcome of this cycle's write decides: blocked or retryable partial *)
(* writes keep HAVE_DATA, everything else releases the buffer.             *)
Conclude(o, p, from) ==
    LET done == [latch_rebuild_required(p, o.st) EXCEPT
                   !.resuming = @ /\ (p.offset = 0 \/ (o.n = 0 /\ o.st = "block"))]
    IN  IF o.n = 0 /\ o.st = "block"
          THEN EndCycle(o.w, done, "have") /\ UNCHANGED node
        ELSE IF o.n < inp.size - from /\ o.st # "fatal"
          THEN EndCycle(o.w, [done EXCEPT !.offset = @ + o.n], "have") /\ UNCHANGED node
        ELSE Release(o.w, done)

Consumed == [w |-> w, n |-> inp.size - cyc.from, st |-> "progress"]

ToWrite(v, p, from) ==
    /\ w' = v
    /\ port' = p
    /\ cyc' = [cyc EXCEPT !.pc = "write", !.from = from]
    /\ UNCHANGED <<inp, node, period, snap>>

(* prime_buffer: ask for a ring, take what the kernel grants, pre-fill it  *)
(* to the target.  The capacity reads back as zero when the ioctl fails.   *)
Asked ==
    playback_buffer_request(period, MaxPeriod, buffer_capacity_limit(Stride, Rate),
                            0, 0, period, Eighths)

Primed(v, room, cap, block) ==
    [v EXCEPT !.room = room, !.cap = cap, !.block = block, !.per = period, !.mism = 0]

PreparePrime ==
    /\ cyc.pc = "prepare"
    /\ ~Running(w)
    /\ period # 0
    /\ \E room \in {g \in Grants : g <= Asked}, block \in Blocks :
         LET cap == IF w.dead THEN 0 ELSE room
             g   == playback_applied_geometry(period, period, cap, block, Eighths)
             p   == [port EXCEPT !.offset = 0, !.resuming = FALSE]
         IN  \E v \in write_silence(Primed(w, room, cap, block), g.target) :
               ToWrite(v, commit_geometry(p, period, g), 0)

PrepareNoPeriod ==
    /\ cyc.pc = "prepare"
    /\ ~Running(w)
    /\ period = 0
    /\ Release(w, [port EXCEPT !.offset = 0])

(* resume_playback: the first buffer after Pause.  A queue that really ran *)
(* dry is primed again; otherwise the surviving fill becomes the target.   *)
PrepareResume ==
    /\ cyc.pc = "prepare"
    /\ Running(w) /\ port.resuming /\ port.offset = 0
    /\ LET dry   == measured_fill = 0 /\ w.xr
           v0    == [w EXCEPT !.xr = FALSE]
           ready == IF dry THEN write_silence(v0, port.goal) ELSE {v0}
       IN  \E v \in ready : \E o \in write(v, Data(cyc.from)) :
             LET seed == Least(port.goal,
                               predicted_next_fill(measured_fill, o.n, port.setup))
             IN  Conclude(o,
                          [port EXCEPT
                             !.target   = IF dry THEN port.goal
                                          ELSE IF o.n > 0 THEN seed ELSE @,
                             !.resuming = o.n = 0 /\ o.st = "block"],
                          cyc.from)

(* Underruns counted while paused are no xrun; a retained tail comes first.*)
PrepareResumeTail ==
    /\ cyc.pc = "prepare"
    /\ Running(w) /\ port.resuming /\ port.offset # 0
    /\ ToWrite([w EXCEPT !.xr = FALSE], port, cyc.from)

(* detect_underrun: a counted underrun starts the hold only when the fill  *)
(* is really low; `drained` is what left the queue since the cycle began.  *)
PrepareDetect ==
    /\ cyc.pc = "prepare"
    /\ Running(w) /\ ~port.resuming
    /\ \E drained \in {0, period} :
         LET low == measured_fill < underrun_low(port.target, port.block, period, drained)
         IN  ToWrite([w EXCEPT !.xr = FALSE],
                     [port EXCEPT !.xrun = @ \/ (w.xr /\ low)],
                     cyc.from)

Writing == cyc.pc = "write"

(* write_retained_tail: nothing may come between the two pieces.           *)
WriteTail ==
    /\ Writing
    /\ port.offset # 0
    /\ \E o \in write(w, Data(cyc.from)) : Conclude(o, port, cyc.from)

(* recover_or_hold, before the recovery cycle: the buffer is dropped.      *)
WriteHold ==
    /\ Writing
    /\ port.offset = 0 /\ port.xrun
    /\ Conclude(Consumed, port, cyc.from)

(* ... and in the recovery cycle: refill to a safe target and resume.      *)
WriteRecover ==
    /\ Writing
    /\ port.offset = 0 /\ port.xrun
    /\ LET target == Least(Greatest(port.target, Least(port.min, port.goal)), port.goal)
           p      == [port EXCEPT !.xrun = FALSE, !.target = target]
       IN  \E v \in write_silence(w, Less(target, measured_fill)) :
           \E o \in write(v, Data(cyc.from)) : Conclude(o, p, cyc.from)

(* settle_target: a live target creeps toward its goal with the fill.      *)
settle_target(p, fill) ==
    IF p.target >= p.goal THEN p
    ELSE [p EXCEPT !.target =
            Greatest(@, Least(Sat(fill + Greatest(p.setup \div 4, Stride)), p.goal))]

Corrects == ~cyc.retuned /\ port.setup # 0 /\ ~port.retune_pending

(* The fill snap of follower_servo and level_correct: more than a period   *)
(* short is refilled, more than a period over drops this buffer.           *)
LevelWrite(p) ==
    LET fill == measured_fill
    IN  IF fill > p.target + p.setup
          THEN Conclude(Consumed, p, cyc.from)
          ELSE \E v \in IF fill + p.setup < p.target
                          THEN write_silence(w, p.target - fill) ELSE {w} :
               \E o \in write(v, Data(cyc.from)) : Conclude(o, p, cyc.from)

(* A follower of a foreign clock (settling its target first), or of ours.  *)
WriteFollower ==
    /\ Writing
    /\ port.offset = 0 /\ ~port.xrun
    /\ Corrects
    /\ \/ LevelWrite(settle_target(port, measured_fill))
       \/ LevelWrite(port)

WritePlain ==
    /\ Writing
    /\ port.offset = 0 /\ ~port.xrun
    /\ \E o \in write(w, Data(cyc.from)) : Conclude(o, port, cyc.from)

-----------------------------------------------------------------------------
(* Commands, run on the data loop between cycles.                          *)

AtRest == cyc.pc = "idle"

Stopped(v, p) ==
    /\ w' = v
    /\ port' = [p EXCEPT !.pending = FALSE]
    /\ node' = [node EXCEPT !.started = FALSE]
    /\ snap' = NoSnapshot
    /\ UNCHANGED <<inp, cyc, period>>

(* Pause with nothing queued, or nothing running: Preserved as it is.      *)
PauseEmpty ==
    /\ AtRest /\ node.started
    /\ ~Running(w) \/ w.ring = <<>>
    /\ Stopped([w EXCEPT !.shadowed = FALSE], port)

(* SILENCE: the kernel saves the queue and plays silence in its place.  If *)
(* that silence is gone before it is looked at, SKIP is not armed.         *)
PauseShadow ==
    /\ AtRest /\ node.started
    /\ Running(w) /\ w.ring # <<>> /\ ~w.dead
    /\ \E gone \in BOOLEAN :
         /\ gone => w.on
         /\ Stopped([w EXCEPT !.shadow   = IF gone THEN <<>> ELSE w.ring,
                              !.ring     = IF gone THEN <<>>
                                           ELSE [i \in 1..Len(w.ring) |-> Paused],
                              !.shadowed = ~gone],
                    port)

(* The queue cannot be preserved (an ioctl fails, or a repeated byte is    *)
(* not silence in this format): reset, or ask for a new device.            *)
PauseUnpreserved ==
    /\ AtRest /\ node.started
    /\ Running(w)
    /\ \E s \in suspend([w EXCEPT !.shadowed = FALSE]) :
         Stopped(s.w, IF s.ok THEN clear_pending_write(port)
                              ELSE [port EXCEPT !.after_start = TRUE])

Resumes == ~node.started /\ ~port.after_start /\ Running(w) /\ port.setup # 0

Started(v, p) ==
    /\ w' = v
    /\ port' = [p EXCEPT !.xrun = FALSE]
    /\ node' = [node EXCEPT !.started = TRUE]
    /\ UNCHANGED <<inp, cyc, period>>

CanStart == AtRest /\ node.format /\ node.buffers

\* Mutant: the queue is not restored before new audio is written.
StartUnrestored ==
    /\ CanStart
    /\ Started(w, [port EXCEPT !.resuming = Resumes])
    /\ UNCHANGED snap

(* on_start_loop: restore the shadowed queue with SKIP ...                 *)
Start ==
    /\ CanStart
    /\ Resumes => ~(w.shadowed /\ w.dead)
    /\ Started(IF Resumes /\ w.shadowed
                 THEN [w EXCEPT !.shadowed = FALSE, !.ring = w.shadow, !.shadow = <<>>]
                 ELSE w,
               [port EXCEPT !.resuming = Resumes])
    /\ UNCHANGED snap

(* ... or, when SKIP fails, reset, or ask for a new device.                *)
StartSkipFails ==
    /\ CanStart
    /\ Resumes /\ w.shadowed
    /\ \E s \in suspend([w EXCEPT !.shadowed = FALSE]) :
         /\ Started(s.w, IF s.ok THEN [reset_stream_epoch(port) EXCEPT !.resuming = FALSE]
                         ELSE [port EXCEPT !.after_start = TRUE, !.resuming = FALSE])
         /\ snap' = IF s.ok THEN NoSnapshot ELSE snap

(* Suspend closes the device and clears the format; the host negotiates    *)
(* again before the next Start.                                            *)
Suspend ==
    /\ AtRest /\ node.format
    /\ w' = Closed
    /\ port' = [on_device_swapped(port) EXCEPT !.setup = 0, !.block = 0, !.pending = FALSE]
    /\ node' = [started |-> FALSE, format |-> FALSE, buffers |-> FALSE]
    /\ inp' = NoInput
    /\ snap' = NoSnapshot
    /\ UNCHANGED <<cyc, period>>

Negotiate ==
    /\ AtRest /\ ~node.format
    /\ w' = Fresh
    /\ port' \in Configured(port)
    /\ node' = [node EXCEPT !.format = TRUE]
    /\ snap' = NoSnapshot
    /\ UNCHANGED <<inp, cyc, period>>

(* port_use_buffers: the retained buffer is no longer ours.  The host      *)
(* takes all buffers away only from a stopped node.                        *)
UseBuffers ==
    /\ AtRest /\ node.format
    /\ \E e \in end_buffer_sequence(w), given \in {TRUE, node.started} :
         /\ w' = e.w
         /\ port' = clear_pending_write(IF e.reset THEN reset_stream_epoch(port) ELSE port)
         /\ snap' = IF e.reset THEN NoSnapshot ELSE snap
         /\ node' = [node EXCEPT !.buffers = given]
    /\ inp' = NoInput
    /\ UNCHANGED <<cyc, period>>

-----------------------------------------------------------------------------
(* The kernel, the wake and the host.                                      *)

(* The channel plays a byte (the silence of a pause in one go), or counts  *)
(* an underrun when there is none.                                         *)
Drain ==
    /\ w.on /\ Running(w)
    /\ w' = IF w.ring = <<>> THEN [w EXCEPT !.xr = TRUE]
            ELSE Drained(w, IF w.shadowed THEN Len(w.ring) ELSE 1)
    /\ UNCHANGED <<port, inp, cyc, node, period, snap>>

(* The device goes away with whatever it had queued.                       *)
DeviceDies ==
    /\ Running(w) /\ ~w.dead
    /\ w' = [w EXCEPT !.dead = TRUE, !.on = FALSE, !.ring = <<>>, !.shadow = <<>>]
    /\ UNCHANGED <<port, inp, cyc, node, period, snap>>

(* A wake deposits the fill it saw; a disconnect event asks for a rebuild. *)
Wake ==
    /\ AtRest /\ node.started /\ Running(w) /\ ~port.pending
    /\ snap' = Len(w.ring)
    /\ \E lost \in {FALSE, w.dead} : port' = [port EXCEPT !.required = @ \/ lost]
    /\ UNCHANGED <<w, inp, cyc, node, period>>

Offer ==
    \E b \in Buffers, n \in Sizes :
        inp' = [status |-> "have", buffer |-> b, size |-> n]

HostOffers ==
    /\ AtRest /\ node.started
    /\ inp.status = "need" /\ node.buffers
    /\ Offer
    /\ UNCHANGED <<w, port, cyc, node, period, snap>>

(* A host that breaks the HAVE_DATA contract and replaces the buffer.      *)
HostReplaces ==
    /\ AtRest /\ node.started
    /\ inp.status = "have" /\ port.offset # 0
    /\ Offer
    /\ UNCHANGED <<w, port, cyc, node, period, snap>>

QuantumChange ==
    /\ AtRest /\ node.started
    /\ period' \in Periods
    /\ UNCHANGED <<w, port, inp, cyc, node, snap>>

-----------------------------------------------------------------------------
Cycle ==
    \/ CycleFreewheel \/ CycleRebuilding \/ CycleUnnegotiated \/ CycleReplaces
    \/ RebuildInstalled \/ RebuildAborted \/ RebuildRetried \/ RebuildFailed
    \/ CycleNoInput \/ CycleNothingLeft
    \/ RetuneUnchanged \/ RetunePending \/ RetuneInPlace \/ RetuneReprime \/ RetuneRefused
    \/ PreparePrime \/ PrepareNoPeriod \/ PrepareResume \/ PrepareResumeTail
    \/ PrepareDetect
    \/ WriteTail \/ WriteHold \/ WriteRecover \/ WriteFollower \/ WritePlain

Command ==
    \/ PauseEmpty \/ PauseShadow \/ PauseUnpreserved \/ Start \/ StartSkipFails
    \/ Suspend \/ Negotiate \/ UseBuffers

Environment ==
    \/ Drain \/ DeviceDies \/ Wake \/ HostOffers \/ HostReplaces \/ QuantumChange

Next == Cycle \/ Command \/ Environment

Spec == Init /\ [][Next]_vars

-----------------------------------------------------------------------------
WriterState ==
    [state : {"closed", "setup", "running"}, off : 0..(Stride - 1), trig : BOOLEAN,
     shadowed : BOOLEAN, per : Nat, mism : 0..2, cap : Nat, block : Nat,
     ring : Seq(Int), shadow : Seq(Int), room : Nat,
     on : BOOLEAN, xr : BOOLEAN, dead : BOOLEAN]

PortState ==
    [setup : Nat, block : Nat, cap : Nat, target : Nat, goal : Nat, min : Nat,
     xrun : BOOLEAN, retune_pending : BOOLEAN, resuming : BOOLEAN,
     after_start : BOOLEAN, buffer : Buffers \cup {NoBuffer}, offset : Nat,
     required : BOOLEAN, pending : BOOLEAN]

TypeOK ==
    /\ w \in WriterState /\ Len(w.ring) <= w.room
    /\ port \in PortState
    /\ inp \in [status : {"need", "have"}, buffer : Buffers \cup {NoBuffer}, size : Nat]
    /\ cyc \in [pc : {"idle", "prepare", "write"}, from : Nat, retuned : BOOLEAN]
    /\ node \in [started : BOOLEAN, format : BOOLEAN, buffers : BOOLEAN]
    /\ period \in Periods \cup {0}
    /\ snap \in Nat \cup {NoSnapshot}

(* The frame position of the i-th byte of the ring.                        *)
Place(i) == (w.off + Stride * Len(w.ring) - (Len(w.ring) - i) - 1) % Stride

(* Every byte of a host buffer is queued at its own place in its frame and *)
(* directly behind the byte before it: nothing is lost, repeated, shifted  *)
(* or inserted inside a buffer, and no audio is queued behind the silence  *)
(* of a pause, whatever short writes, pauses, retunes and buffer swaps     *)
(* happen.                                                                 *)
Seamless ==
    \A i \in 1..Len(w.ring) :
        w.ring[i] >= 0 =>
            /\ Place(i) = w.ring[i] % Stride
            /\ i > 1 => /\ w.ring[i] > 0 => w.ring[i - 1] = w.ring[i] - 1
                        /\ w.ring[i - 1] # Paused

(* A frame is left open only by the accepted prefix of the retained        *)
(* buffer, whose next bytes then complete it: synthetic silence never ends *)
(* in the middle of a frame.                                               *)
OpenFrameOwned ==
    ~w.dead /\ Running(w) => w.off = port.offset % Stride

(* The committed geometry can be kept: the live target never passes its    *)
(* goal, and when the ring has the capacity the period requires, the goal  *)
(* is above the safe floor and leaves room for the largest write and one   *)
(* more delivery, in place retunes included.                               *)
GoalFits ==
    LET required == playback_buffer_required(port.setup,
                        playback_desired_delay(port.setup, Eighths), port.block, port.setup)
    IN  /\ port.target <= port.goal
        /\ Running(w) /\ port.setup # 0 /\ port.cap >= required =>
             /\ port.min <= port.goal
             /\ port.goal + port.setup + port.block <= port.cap
=============================================================================
