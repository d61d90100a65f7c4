------------------------------ MODULE Geometry ------------------------------
(***************************************************************************)
(* The PCM soft-ring policy of freebsd_oss/buffer.rs: how large a ring is  *)
(* asked for, how much audio is kept queued in it, and when a new graph    *)
(* quantum can be adopted without resizing it.  Every operator is pure;    *)
(* Playback and Capture apply them to their streams.                       *)
(*                                                                         *)
(* All quantities are u32 byte counts.  The code uses saturating           *)
(* arithmetic everywhere, so the width is a parameter: Sat and Less are    *)
(* saturating_add/mul and saturating_sub for a word whose largest value    *)
(* is U32Max.                                                              *)
(***************************************************************************)
EXTENDS Integers

CONSTANTS
    U32Max,         \* u32::MAX
    MinBuffer,      \* MIN_BUFFER_BYTES
    CapacityMin,    \* BUFFER_CAPACITY_MIN_BYTES
    CapacityMax,    \* BUFFER_CAPACITY_MAX_BYTES
    MaxQuantum,     \* the largest commonly negotiable quantum (2048 frames)
    DefaultFragment,\* the fragment assumed when none is configured (1024)
    NsPerSecond     \* 1_000_000_000

ASSUME GeometryAssumption ==
    /\ {U32Max, MinBuffer, CapacityMin, CapacityMax, MaxQuantum,
        DefaultFragment} \subseteq Nat
    /\ NsPerSecond \in Nat \ {0}
    /\ CapacityMin <= CapacityMax
    /\ CapacityMax < U32Max
    /\ DefaultFragment <= U32Max

Least(a, b) == IF a <= b THEN a ELSE b
Greatest(a, b) == IF a >= b THEN a ELSE b
Sat(x) == Least(x, U32Max)
Less(a, b) == IF a <= b THEN 0 ELSE a - b
Clamp(x, lo, hi) == Least(Greatest(x, lo), hi)

(* The kernel's budget for one channel: 200 ms of audio within the bounds. *)
buffer_capacity_limit(stride, rate) ==
    Clamp((stride * rate * 200) \div 1000, CapacityMin, CapacityMax)

(* A graph duration in device bytes; graph rate 0 means "same rate".       *)
graph_frames_in_device_bytes(frames, deviceRate, graphRate, stride) ==
    IF graphRate = 0
      THEN Sat(frames * stride)
      ELSE Sat(((frames * deviceRate) \div graphRate) * stride)

max_buffer_period_bytes(stride, deviceRate, graphRate) ==
    Least(graph_frames_in_device_bytes(MaxQuantum, deviceRate, graphRate, stride),
          Sat(((buffer_capacity_limit(stride, deviceRate) \div stride) \div 4) * stride))

(* The bytes one delivery of `ns` nanoseconds carries, in whole frames.    *)
delivery_quantum_bytes(ns, rate, stride) ==
    LET bytes == Sat((ns * rate * stride) \div NsPerSecond)
        whole == ((bytes + stride - 1) \div stride) * stride
    IN  IF whole <= U32Max THEN whole ELSE U32Max - (U32Max % stride)

-----------------------------------------------------------------------------
(* Playback.                                                               *)

playback_desired_delay(period, eighths) == Sat((period \div 8) * eighths)

playback_fill_floor(period, quantum) ==
    Sat(period + Greatest(period \div 4, quantum))

playback_buffer_required(period, desired, quantum, writeMax) ==
    Greatest(Sat(Sat(2 * period) + desired),
             Sat(Sat(playback_fill_floor(period, quantum) + writeMax) + quantum))

playback_buffer_request(period, maxPeriod, limit, fragment, hardware, writeMax, eighths) ==
    LET transfer == Greatest(IF fragment = 0 THEN DefaultFragment ELSE fragment, hardware)
        now      == playback_buffer_required(period,
                        playback_desired_delay(period, eighths), transfer, writeMax)
        stable   == playback_buffer_required(maxPeriod,
                        playback_desired_delay(maxPeriod, eighths), transfer, maxPeriod)
    IN  Least(Greatest(Greatest(now, stable), MinBuffer), limit)

playback_target_delay(granted, period, quantum, writeMax, desired) ==
    IF granted >= Sat(2 * period)
      THEN LET ceiling == Greatest(Less(granted, Sat(writeMax + quantum)), period)
               wanted  == Greatest(desired, playback_fill_floor(period, quantum))
           IN  Greatest(Least(wanted, ceiling), period)
      ELSE granted \div 2

playback_applied_geometry(period, writeMax, capacity, quantum, eighths) ==
    LET desired == playback_desired_delay(period, eighths)
        goal    == playback_target_delay(capacity, period, quantum, writeMax, desired)
    IN  [capacity |-> capacity,
         quantum  |-> quantum,
         target   |-> goal,
         goal     |-> goal,
         minimum  |-> playback_fill_floor(period, quantum),
         required |-> playback_buffer_required(period, desired, quantum, writeMax)]

predicted_next_fill(fill, write, period) == Less(Sat(fill + write), period)

playback_retuned_geometry(period, writeMax, capacity, quantum, eighths, fill, write) ==
    LET g == playback_applied_geometry(period, writeMax, capacity, quantum, eighths)
    IN  [g EXCEPT !.target = Least(g.goal, predicted_next_fill(fill, write, period))]

(* The fill below which a reported underrun is a real one.                 *)
underrun_low(target, quantum, period, drained) ==
    LET low    == Greatest(Least(period, Less(target, quantum)), period \div 4)
        wander == Greatest(period \div 4, quantum)
    IN  Greatest(Least(low, Less(Less(target, drained), wander)), period \div 16)

-----------------------------------------------------------------------------
(* Capture.                                                                *)

\* Mutant: the peak is not capped by the granted ring.
capture_fill_uncapped(period, quantum, ring) ==
    LET target == Sat(period + quantum \div 2)
    IN  [target |-> target, peak |-> Sat(Sat(target + quantum \div 2) + period \div 2)]

capture_fill_targets(period, quantum, ring) ==
    LET target  == Sat(period + quantum \div 2)
        peak    == Sat(Sat(target + quantum \div 2) + period \div 2)
        ceiling == Less(ring, quantum)
        minPeak == Least(Sat(target + quantum), ceiling)
    IN  [target |-> target,
         peak   |-> IF ring > 0 THEN Greatest(Least(peak, ceiling), minPeak) ELSE peak]

capture_buffer_request(period, maxPeriod, limit) ==
    Least(Greatest(Greatest(Sat(4 * period), Sat(4 * maxPeriod)), MinBuffer), limit)

capture_buffer_required(period, quantum) ==
    Greatest(Sat(capture_fill_targets(period, quantum, 0).target + Sat(2 * quantum)),
             Sat(2 * period))

capture_applied_geometry(period, capacity, quantum) ==
    LET fill == capture_fill_targets(period, quantum, capacity)
    IN  [capacity |-> capacity,
         quantum  |-> quantum,
         target   |-> fill.target,
         peak     |-> fill.peak,
         required |-> capture_buffer_required(period, quantum)]
=============================================================================
