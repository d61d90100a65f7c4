--------------------------- MODULE CaptureProofs ---------------------------
(***************************************************************************)
(* The capture path publishes whole, frame aligned periods, discards what  *)
(* is stale, keeps room in the ring and reports every overrun once, for    *)
(* every stride, ring, fragment, period, delivery and counter width.       *)
(***************************************************************************)
EXTENDS Capture, TLAPS

(* The stream: an idle ring is empty, a dead one too, the bytes to skip    *)
(* lead back to a frame boundary, and a running ring was laid out.         *)
Stream(v) ==
    /\ v \in DspState
    /\ v.fill <= v.room /\ v.old <= v.fill
    /\ v.dead => v.fill = 0
    /\ (v.phase + v.skip) % Stride = 0
    /\ v.cap <= CapacityMax
    /\ IF Running(v) THEN ~v.trig /\ v.room <= CapacityMax ELSE v.fill = 0 /\ v.xruns = 0

(* A primed port works with the geometry of the period its stream runs at. *)
Geared(v, p) ==
    /\ p.cap <= CapacityMax
    /\ p.primed /\ v.state # "closed" => Running(v) /\ p.setup = v.per
    /\ p.primed =>
         /\ p.target = capture_fill_targets(p.setup, p.quantum, p.cap).target
         /\ p.peak = capture_fill_targets(p.setup, p.quantum, p.cap).peak

(* The overruns not yet reported are what the counter is ahead of the      *)
(* baseline, and a snapshot lies between the two.                          *)
Base(p) == IF p.base = NoFill THEN 0 ELSE p.base

Accounted(v, p, o, s) ==
    /\ o \in Int /\ s \in Counts \cup {NoFill}
    /\ ~v.dead =>
         IF Running(v)
           THEN /\ o \in Counts /\ (Base(p) + o) % XrunModulus = v.xruns
                /\ s # NoFill => \E e \in 0..o : (Base(p) + e) % XrunModulus = s
           ELSE p.base = NoFill /\ o = 0

Epoch(v, p, o, s) ==
    /\ Stream(v)
    /\ p \in PortState
    /\ Geared(v, p)
    /\ Accounted(v, p, o, s)

(* What is left of the backlog is what was captured before the prime, but  *)
(* for what poll did not report and what a torn read gave up.              *)
Discarding(v, c) ==
    v.old < v.lw \/ v.old <= c.backlog \/ (c.backlog = 0 /\ v.skip # 0)

Whole(p, c) ==
    c.pc = "overrun" /\ c.pre # NoFill /\ p.setup # 0 =>
        c.out.size >= Least(p.setup, MaxSize) /\ c.out.size <= MaxSize

(* The inductive invariant.                                                *)
CaptureInv ==
    /\ Epoch(d, port, owed, snap)
    /\ io \in [status : {"need", "have", "ok"}, buffer : -1..(NumBuffers - 1)]
    /\ cyc \in CycState
    /\ node \in [started : BOOLEAN, format : BOOLEAN, buffers : BOOLEAN]
    /\ period \in Nat
    /\ cyc.out.first = 0 /\ cyc.out.real % Stride = 0
    /\ Whole(port, cyc)
    /\ cyc.pc = "discard" =>
         Running(d) /\ ~port.primed /\ d.per = period /\ Discarding(d, cyc)

-----------------------------------------------------------------------------
(* Remainders, for any modulus.                                            *)

\* A remainder is smaller than the modulus.
LEMMA ModRange ==
  ASSUME NEW s \in Nat \ {0}, NEW a \in Int
  PROVE  a % s \in 0..(s - 1)
BY Z3

\* What is smaller than the modulus is its own remainder.
LEMMA ModSmall ==
  ASSUME NEW s \in Nat \ {0}, NEW a \in 0..(s - 1)
  PROVE  a % s = a
BY Z3

\* Remainders are unique.
LEMMA ModUnique ==
  ASSUME NEW s \in Nat \ {0}, NEW q \in Int, NEW r \in 0..(s - 1)
  PROVE  (s * q + r) % s = r
BY Z3

\* A number is a multiple of the modulus and its remainder.
LEMMA ModSplit ==
  ASSUME NEW s \in Nat \ {0}, NEW a \in Nat
  PROVE  \E q \in Nat : a = s * q + (a % s)
<1>1. a % s = a - s * (a \div s) BY SMTT(30)
<1>2. a \div s \in Nat BY Z3
<1> DEFINE q == a \div s
           r == a % s
<1>3. s * q \in Nat BY <1>2
<1>4. r \in Int BY ModRange
<1> HIDE DEF q, r
<1>5. a = s * q + r BY <1>1, <1>3, <1>4 DEF q, r
<1>6. q \in Nat BY <1>2 DEF q
<1> QED BY <1>5, <1>6 DEF r

\* A remainder can be taken before an addition.
LEMMA ModAdd ==
  ASSUME NEW s \in Nat \ {0}, NEW a \in Nat, NEW b \in Nat
  PROVE  ((a % s) + b) % s = (a + b) % s
<1>1. PICK q \in Nat : a = s * q + (a % s) BY ModSplit
<1> DEFINE r == a % s
<1>2. r \in 0..(s - 1) BY ModRange
<1> HIDE DEF r
<1>3. PICK k \in Nat : r + b = s * k + ((r + b) % s)
  <2>1. r + b \in Nat BY <1>2
  <2> QED BY <2>1, ModSplit
<1> DEFINE t == (r + b) % s
<1>4. t \in 0..(s - 1) BY <1>2, ModRange
<1> HIDE DEF t
<1>5. a + b = s * (q + k) + t
  <2>1. s * q + s * k = s * (q + k) BY Z3
  <2>2. s * q \in Nat /\ s * k \in Nat /\ s * (q + k) \in Nat OBVIOUS
  <2>3. a = s * q + r /\ r + b = s * k + t BY <1>1, <1>3 DEF r, t
  <2> QED BY <1>2, <1>4, <2>1, <2>2, <2>3
<1>6. (s * (q + k) + t) % s = t BY <1>4, ModUnique
<1> QED BY <1>5, <1>6 DEF r, t

\* Nor does a whole modulus change it.
LEMMA ModPlus ==
  ASSUME NEW s \in Nat \ {0}, NEW a \in Nat
  PROVE  (a + s) % s = a % s
<1>1. PICK q \in Nat : a = s * q + (a % s) BY ModSplit
<1> DEFINE r == a % s
<1>2. r \in 0..(s - 1) BY ModRange
<1>3. a + s = s * (q + 1) + r
  <2>1. s * (q + 1) = s * q + s BY Z3
  <2>2. s * q \in Nat OBVIOUS
  <2> HIDE DEF r
  <2> QED BY <1>1, <1>2, <2>1, <2>2 DEF r
<1> HIDE DEF r
<1>4. (s * (q + 1) + r) % s = r BY <1>2, ModUnique
<1> QED BY <1>3, <1>4 DEF r

\* Whole multiples leave nothing.
LEMMA ModWhole ==
  ASSUME NEW s \in Nat \ {0}, NEW k \in Nat
  PROVE  k % s <= k /\ (k - (k % s)) % s = 0
<1>1. PICK q \in Nat : k = s * q + (k % s) BY ModSplit
<1>2. k % s \in 0..(s - 1) BY ModRange
<1>3. s * q \in Nat OBVIOUS
<1>4. k - (k % s) = s * q + 0 BY <1>1, <1>2, <1>3
<1>5. (s * q + 0) % s = 0 BY ModUnique
<1> QED BY <1>1, <1>2, <1>3, <1>4, <1>5

\* Rounding down to whole frames does not exceed.
LEMMA RoundDown ==
  ASSUME NEW s \in Nat \ {0}, NEW a \in Nat
  PROVE  /\ (a \div s) * s \in Nat
         /\ (a \div s) * s <= a
         /\ (a \div s) * s = 0 => a < s
<1>1. (a \div s) * s \in Nat /\ (a \div s) * s <= a BY Z3
<1>2. (a \div s) * s = 0 => a < s
  <2>1. a % s = a - s * (a \div s) BY SMTT(30)
  <2>2. a % s \in 0..(s - 1) BY ModRange
  <2>3. (a \div s) * s = s * (a \div s) BY Z3
  <2> QED BY <1>1, <2>1, <2>2, <2>3
<1> QED BY <1>1, <1>2

\* What the tail of a torn frame needs to reach the next boundary.
LEMMA TornFrame ==
  ASSUME NEW s \in Nat \ {0}, NEW k \in Nat
  PROVE  /\ (s - (k % s)) % s \in 0..(s - 1)
         /\ ((k % s) + ((s - (k % s)) % s)) % s = 0
         /\ (s - (k % s)) % s = 0 => k % s = 0
<1> DEFINE r == k % s
<1>1. r \in 0..(s - 1) BY ModRange
<1> HIDE DEF r
<1>2. s % s = 0
  <2>1. s = 0 + s OBVIOUS
  <2>2. (0 + s) % s = 0 % s BY ModPlus
  <2>3. 0 % s = 0 BY ModSmall
  <2> QED BY <2>1, <2>2, <2>3
<1>3. CASE r = 0
  <2>1. s - r = s BY <1>3
  <2>2. (s - r) % s = 0 BY <1>2, <2>1
  <2>3. r + ((s - r) % s) = 0 BY <1>3, <2>2
  <2>4. 0 % s = 0 BY ModSmall
  <2> QED BY <1>3, <2>2, <2>3, <2>4 DEF r
<1>4. CASE r # 0
  <2>1. s - r \in 1..(s - 1) BY <1>1, <1>4
  <2>2. (s - r) % s = s - r BY <2>1, ModSmall
  <2>3. r + ((s - r) % s) = s BY <1>1, <2>2
  <2> QED BY <1>2, <2>1, <2>2, <2>3 DEF r
<1> QED BY <1>3, <1>4

-----------------------------------------------------------------------------
(* The ring geometry.                                                      *)

\* The fill targets are byte counts.
LEMMA FillNat ==
  ASSUME NEW p \in Nat, NEW q \in Nat, NEW c \in Nat
  PROVE  /\ capture_fill_targets(p, q, c).target \in Nat
         /\ capture_fill_targets(p, q, c).peak \in Nat
<1>1. U32Max \in Nat BY GeometryAssumption
<1>2. q \div 2 \in Nat /\ p \div 2 \in Nat OBVIOUS
<1>3. \A x \in Nat : Sat(x) \in Nat BY <1>1 DEF Sat, Least
<1> DEFINE t == Sat(p + (q \div 2))
           m == Sat(t + (q \div 2))
           k == Sat(m + (p \div 2))
<1>5. t \in Nat BY <1>2, <1>3
<1> HIDE DEF t
<1>6. m \in Nat BY <1>2, <1>3, <1>5
<1> HIDE DEF m
<1>7. k \in Nat BY <1>2, <1>3, <1>6
<1> HIDE DEF k
<1> DEFINE l == Less(c, q)
           n == Sat(t + q)
<1>8. l \in Nat /\ n \in Nat BY <1>1, <1>5 DEF Less, Sat, Least
<1> HIDE DEF l, n
<1>9. capture_fill_targets(p, q, c).target = t BY DEF capture_fill_targets, t
<1>10. capture_fill_targets(p, q, c).peak =
         IF c > 0 THEN Greatest(Least(k, l), Least(n, l)) ELSE k
  BY DEF capture_fill_targets, t, m, k, l, n
<1> QED BY <1>5, <1>7, <1>8, <1>9, <1>10 DEF Greatest, Least

\* A ring as large as required leaves the peak above the target and a whole
\* delivery of room above the peak.
LEMMA FillFits ==
  ASSUME NEW p \in Nat, NEW q \in Nat, NEW c \in Nat, c <= CapacityMax,
         c >= capture_buffer_required(p, q)
  PROVE  /\ capture_fill_targets(p, q, c).target <= capture_fill_targets(p, q, c).peak
         /\ capture_fill_targets(p, q, c).peak + q <= c
<1>1. CapacityMax \in Nat /\ U32Max \in Nat /\ CapacityMax < U32Max BY GeometryAssumption
<1> DEFINE t == Sat(p + (q \div 2))
<1>2. t \in Nat /\ q \div 2 \in Nat /\ p \div 2 \in Nat BY <1>1 DEF Sat, Least
<1>3. capture_buffer_required(p, q) = Greatest(Sat(t + Sat(2 * q)), Sat(2 * p))
  BY DEF capture_buffer_required, capture_fill_targets
<1>4. capture_fill_targets(p, q, c).target = t
  BY DEF capture_fill_targets
<1>5. capture_fill_targets(p, q, c).peak =
        IF c > 0
          THEN Greatest(Least(Sat(Sat(t + (q \div 2)) + (p \div 2)), Less(c, q)),
                        Least(Sat(t + q), Less(c, q)))
          ELSE Sat(Sat(t + (q \div 2)) + (p \div 2))
  BY DEF capture_fill_targets
<1>6. c = 0 => p = 0 /\ q = 0
  BY <1>1, <1>2, <1>3 DEF Sat, Least, Greatest
<1>7. t + 2 * q <= c
  BY <1>1, <1>2, <1>3 DEF Sat, Least, Greatest
<1> HIDE DEF t
<1>8. CASE c > 0
  <2>1. Less(c, q) = c - q BY <1>2, <1>7 DEF Less
  <2>2. Sat(Sat(t + (q \div 2)) + (p \div 2)) >= t /\ Sat(Sat(t + (q \div 2)) + (p \div 2)) \in Nat
    BY <1>1, <1>2, <1>7 DEF Sat, Least
  <2>3. Sat(t + q) >= t /\ Sat(t + q) \in Nat BY <1>1, <1>2, <1>7 DEF Sat, Least
  <2>4. capture_fill_targets(p, q, c).peak \in t..(c - q)
    BY <1>2, <1>5, <1>7, <1>8, <2>1, <2>2, <2>3 DEF Greatest, Least
  <2> QED BY <1>2, <1>4, <2>4
<1>9. CASE c = 0
  <2>1. p = 0 /\ q = 0 /\ t = 0 BY <1>2, <1>6, <1>7, <1>9
  <2>2. 0 \div 2 = 0 OBVIOUS
  <2>3. capture_fill_targets(p, q, c).peak = 0
    BY <1>1, <1>5, <1>9, <2>1, <2>2 DEF Sat, Least
  <2> QED BY <1>4, <1>9, <2>1, <2>3
<1> QED BY <1>8, <1>9

\* The geometry a prime or a retune applies is the one of the fill targets.
LEMMA AppliedFact ==
  ASSUME NEW per, NEW cap, NEW q
  PROVE  LET g == capture_applied_geometry(per, cap, q)
         IN  /\ g.capacity = cap /\ g.quantum = q
             /\ g.target = capture_fill_targets(per, q, cap).target
             /\ g.peak = capture_fill_targets(per, q, cap).peak
BY DEF capture_applied_geometry

\* A delivery is a byte count.
LEMMA DeliveryNat == delivery_quantum_bytes(DeliveryNs, Rate, Stride) \in Nat
<1> DEFINE raw == (DeliveryNs * Rate * Stride) \div NsPerSecond
           bytes == Sat(raw)
           whole == ((bytes + Stride - 1) \div Stride) * Stride
<1>1. NsPerSecond \in Nat \ {0} /\ U32Max \in Nat BY GeometryAssumption
<1>2. Stride \in Nat \ {0} /\ Rate \in Nat /\ DeliveryNs \in Nat BY CaptureAssumption
<1>3. raw \in Nat
  <2>1. DeliveryNs * Rate \in Nat BY <1>2
  <2>2. DeliveryNs * Rate * Stride \in Nat BY <1>2, <2>1
  <2> QED BY <1>1, <2>2, Z3
<1> HIDE DEF raw
<1>4. bytes \in Nat BY <1>1, <1>3 DEF Sat, Least
<1> HIDE DEF bytes
<1>5. bytes + Stride - 1 \in Nat BY <1>2, <1>4
<1>6. whole \in Nat BY <1>2, <1>5, RoundDown
<1>7. U32Max - (U32Max % Stride) \in Nat
  <2>1. U32Max % Stride <= U32Max BY <1>1, <1>2, ModWhole
  <2>2. U32Max \in Int BY <1>1
  <2>3. U32Max % Stride \in 0..(Stride - 1) BY <1>2, <2>2, ModRange
  <2> QED BY <1>1, <1>2, <2>1, <2>3
<1>8. delivery_quantum_bytes(DeliveryNs, Rate, Stride)
        = IF whole <= U32Max THEN whole ELSE U32Max - (U32Max % Stride)
  BY DEF delivery_quantum_bytes, whole, bytes, raw
<1> HIDE DEF whole
<1> QED BY <1>6, <1>7, <1>8

-----------------------------------------------------------------------------
(* The stream.                                                             *)

(* What a read leaves alone.                                               *)
Same(v, x) ==
    /\ x.state = v.state /\ x.trig = v.trig /\ x.per = v.per /\ x.quantum = v.quantum
    /\ x.cap = v.cap /\ x.room = v.room /\ x.lw = v.lw /\ x.xruns = v.xruns
    /\ x.dead = v.dead

\* The bytes of a read leave the ring in order.
LEMMA TakenFact ==
  ASSUME NEW v \in DspState, v.old <= v.fill, NEW k \in 0..v.fill
  PROVE  /\ Taken(v, k) \in DspState
         /\ Taken(v, k).fill = v.fill - k
         /\ Taken(v, k).phase = (v.phase + k) % Stride
         /\ Taken(v, k).skip = v.skip
         /\ Taken(v, k).old = Less(v.old, k)
         /\ Taken(v, k).old <= Taken(v, k).fill
         /\ Same(v, Taken(v, k))
<1> DEFINE phase == (v.phase + k) % Stride
           fill == v.fill - k
           old == Less(v.old, k)
<1>1. /\ v.fill \in Nat /\ v.old \in Nat /\ v.phase \in Nat /\ k \in Nat
      /\ Stride \in Nat \ {0}
  BY CaptureAssumption DEF DspState
<1>2. phase \in 0..(Stride - 1)
  <2>1. v.phase + k \in Int BY <1>1
  <2> QED BY <1>1, <2>1, ModRange
<1>3. fill \in Nat /\ old \in Nat /\ old <= fill BY <1>1 DEF Less
<1> HIDE DEF phase, fill, old
<1>4. Taken(v, k) = [v EXCEPT !.fill = fill, !.phase = phase, !.old = old]
  BY DEF Taken, fill, phase, old
<1>5. Taken(v, k) \in DspState BY <1>2, <1>3, <1>4 DEF DspState
<1>6. /\ Taken(v, k).fill = fill /\ Taken(v, k).phase = phase /\ Taken(v, k).old = old
      /\ Taken(v, k).skip = v.skip
      /\ Same(v, Taken(v, k))
  BY <1>4 DEF DspState, Same
<1> QED BY <1>3, <1>5, <1>6 DEF fill, phase, old

\* Dropping the tail of a torn frame brings the stream towards the boundary.
LEMMA SkippedFact ==
  ASSUME NEW v, Stream(v), NEW j, j = Least(v.skip, v.fill),
         NEW u, u = [Taken(v, j) EXCEPT !.skip = @ - j]
  PROVE  /\ Stream(u) /\ Same(v, u)
         /\ u.old <= v.old /\ u.old <= u.fill
         /\ u.skip = 0 => u.phase = 0
<1> DEFINE t == Taken(v, j)
<1>1. /\ v \in DspState /\ v.old <= v.fill /\ v.fill <= v.room
      /\ v.skip \in Nat /\ v.fill \in Nat /\ v.phase \in Nat /\ v.old \in Nat
      /\ Stride \in Nat \ {0} /\ v.room \in Nat
  BY CaptureAssumption DEF Stream, DspState
<1>2. j \in 0..v.fill /\ j \in Nat /\ v.skip - j \in Nat BY <1>1 DEF Least
<1>3. /\ t \in DspState
      /\ t.fill = v.fill - j /\ t.phase = (v.phase + j) % Stride
      /\ t.skip = v.skip /\ t.old = Less(v.old, j) /\ t.old <= t.fill
      /\ Same(v, t)
  BY <1>1, <1>2, TakenFact
<1>4. u = [t EXCEPT !.skip = v.skip - j] BY <1>3
<1> HIDE DEF t
<1>5. v.skip - j \in 0..(Stride - 1) BY <1>1, <1>2 DEF DspState
<1>6. /\ u \in DspState /\ u.fill = t.fill /\ u.phase = t.phase /\ u.old = t.old
      /\ u.skip = v.skip - j /\ Same(t, u)
  BY <1>3, <1>4, <1>5 DEF DspState, Same
<1>7. Same(v, u) BY <1>3, <1>6 DEF Same
<1>8. (u.phase + u.skip) % Stride = 0
  <2>1. v.phase + j \in Nat /\ v.skip - j \in Nat BY <1>1, <1>2
  <2>2. (((v.phase + j) % Stride) + (v.skip - j)) % Stride = (v.phase + j + (v.skip - j)) % Stride
    BY <1>1, <2>1, ModAdd
  <2>3. v.phase + j + (v.skip - j) = v.phase + v.skip BY <1>1, <1>2
  <2> QED BY <1>3, <1>6, <2>2, <2>3 DEF Stream
<1>9. u.skip = 0 => u.phase = 0
  <2>1. u.phase \in 0..(Stride - 1) BY <1>6 DEF DspState
  <2>2. u.phase % Stride = u.phase BY <1>1, <2>1, ModSmall
  <2>3. u.skip = 0 => u.phase + u.skip = u.phase BY <2>1
  <2> QED BY <1>8, <2>2, <2>3
<1>10. u.old <= v.old /\ u.old <= u.fill /\ u.fill <= v.fill /\ u.fill \in Nat
  BY <1>1, <1>2, <1>3, <1>6 DEF Less
<1>11. Stream(u)
  BY <1>1, <1>6, <1>7, <1>8, <1>10 DEF Stream, Same, Running
<1> QED BY <1>7, <1>9, <1>10, <1>11

\* Dsp::read delivers whole frames from a frame boundary on and leaves the
\* stream knowing how far the next one is; when it delivers nothing, nothing
\* old is left or the read was cut inside a frame.
LEMMA ReadFact ==
  ASSUME NEW v, Stream(v), NEW want \in Nat, NEW r \in read(v, want)
  PROVE  /\ Stream(r.d) /\ Same(v, r.d)
         /\ r.n \in Nat /\ r.n <= want /\ r.n % Stride = 0
         /\ r.first \in Nat /\ (r.n # 0 => r.first = 0)
         /\ r.d.old <= Less(v.old, r.n)
         /\ r.n = 0 => r.d.old = 0 \/ r.d.skip # 0
<1> DEFINE j == Least(v.skip, v.fill)
           u == [Taken(v, j) EXCEPT !.skip = @ - j]
           none == [d |-> u, n |-> 0, first |-> 0, st |-> "block"]
           Got(k) == [d     |-> [Taken(u, k) EXCEPT !.skip = (Stride - (k % Stride)) % Stride],
                      n     |-> k - (k % Stride),
                      first |-> u.phase,
                      st    |-> "progress"]
<1>1. /\ Stream(u) /\ Same(v, u)
      /\ u.old <= v.old /\ u.old <= u.fill
      /\ u.skip = 0 => u.phase = 0
  BY SkippedFact
<1>2. Stride \in Nat \ {0} /\ v.old \in Nat /\ v.fill \in Nat BY CaptureAssumption DEF Stream, DspState
<1>3. u \in DspState /\ u.old \in Nat /\ u.fill \in Nat /\ u.phase \in Nat
  BY <1>1 DEF Stream, DspState
<1>4. 0 % Stride = 0 BY <1>2, ModSmall
<1>5. r \in IF v.dead THEN {[none EXCEPT !.d = v, !.st = "lost"]}
             ELSE IF u.skip # 0 \/ u.fill = 0 THEN {none}
             ELSE {Got(k) : k \in 1..Least(want, u.fill)}
  BY DEF read
<1> HIDE DEF u, j
<1>6. CASE v.dead
  <2>1. r.d = v /\ r.n = 0 /\ r.first = 0 BY <1>5, <1>6
  <2>2. v.old = 0 BY <1>2, <1>6 DEF Stream
  <2> QED BY <1>2, <1>4, <2>1, <2>2 DEF Same, Less
<1>7. CASE ~v.dead /\ (u.skip # 0 \/ u.fill = 0)
  <2>1. r.d = u /\ r.n = 0 /\ r.first = 0 BY <1>5, <1>7
  <2>2. u.old <= Less(v.old, 0) BY <1>1, <1>2, <1>3 DEF Less
  <2>3. u.skip # 0 \/ u.old = 0 BY <1>1, <1>3, <1>7
  <2> QED BY <1>1, <1>4, <2>1, <2>2, <2>3
<1>8. CASE ~v.dead /\ u.skip = 0 /\ u.fill # 0
  <2>1. PICK k \in 1..Least(want, u.fill) : r = Got(k) BY <1>5, <1>8
  <2>2. k \in Nat /\ k # 0 /\ k <= want /\ k <= u.fill /\ k \in 0..u.fill
    BY <1>3, <2>1 DEF Least
  <2> DEFINE skip == (Stride - (k % Stride)) % Stride
             t == Taken(u, k)
  <2>3. /\ skip \in 0..(Stride - 1)
        /\ ((k % Stride) + skip) % Stride = 0
        /\ skip = 0 => k % Stride = 0
    BY <1>2, <2>2, TornFrame
  <2>4. r.d = [t EXCEPT !.skip = skip] /\ r.n = k - (k % Stride) /\ r.first = u.phase BY <2>1
  <2> HIDE DEF skip
  <2>5. /\ t \in DspState
        /\ t.fill = u.fill - k /\ t.phase = (u.phase + k) % Stride
        /\ t.old = Less(u.old, k) /\ t.old <= t.fill
        /\ Same(u, t)
    BY <1>1, <1>3, <2>2, TakenFact
  <2> HIDE DEF t
  <2>6. k % Stride \in 0..(Stride - 1) /\ k % Stride <= k /\ (k - (k % Stride)) % Stride = 0
    <3>1. k \in Int BY <2>2
    <3>2. k % Stride \in 0..(Stride - 1) BY <1>2, <3>1, ModRange
    <3> QED BY <1>2, <2>2, <3>2, ModWhole
  <2>7. t.phase = k % Stride
    <3>1. u.phase = 0 BY <1>1, <1>8
    <3>2. u.phase + k = k BY <2>2, <3>1
    <3> QED BY <2>5, <3>2
  <2>8. /\ r.d \in DspState /\ r.d.fill = t.fill /\ r.d.phase = t.phase /\ r.d.old = t.old
        /\ r.d.skip = skip /\ Same(t, r.d)
    BY <2>3, <2>4, <2>5 DEF DspState, Same
  <2>9. Same(v, r.d) BY <1>1, <2>5, <2>8 DEF Same
  <2>10. (r.d.phase + r.d.skip) % Stride = 0 BY <2>3, <2>7, <2>8
  <2>11. t.fill <= u.fill /\ t.fill \in Nat BY <1>3, <2>2, <2>5
  <2>12. Stream(r.d)
    <3>1. u.fill <= u.room /\ u.cap <= CapacityMax BY <1>1 DEF Stream
    <3>2. r.d.fill <= r.d.room
      <4>1. r.d.room = u.room /\ u.room \in Nat BY <1>3, <2>5, <2>8 DEF Same, DspState
      <4> QED BY <1>3, <2>8, <2>11, <3>1, <4>1
    <3>3. r.d.old <= r.d.fill BY <2>5, <2>8
    <3>4. ~r.d.dead BY <1>8, <2>9 DEF Same
    <3>5. IF Running(r.d) THEN ~r.d.trig /\ r.d.room <= CapacityMax ELSE r.d.fill = 0 /\ r.d.xruns = 0
      <4>1. Running(u) BY <1>3, <1>8, <1>1 DEF Stream
      <4>2. ~u.trig /\ u.room <= CapacityMax BY <1>1, <4>1 DEF Stream
      <4>3. Running(r.d) /\ r.d.trig = u.trig /\ r.d.room = u.room
        BY <2>5, <2>8, <4>1 DEF Same, Running
      <4> QED BY <4>2, <4>3
    <3>6. r.d.cap <= CapacityMax BY <2>5, <2>8, <3>1 DEF Same
    <3> QED BY <2>8, <2>10, <3>2, <3>3, <3>4, <3>5, <3>6 DEF Stream
  <2>13. r.n \in Nat /\ r.n <= want /\ r.n <= k /\ r.n % Stride = 0 BY <1>2, <2>2, <2>4, <2>6
  <2>14. r.d.old <= Less(v.old, r.n) BY <1>1, <1>2, <1>3, <2>2, <2>5, <2>8, <2>13 DEF Less
  <2>15. r.n = 0 => r.d.skip # 0
    <3>1. r.n = 0 => k % Stride = k BY <1>2, <2>2, <2>4, <2>6
    <3> QED BY <2>2, <2>3, <2>8, <3>1
  <2> QED BY <1>1, <1>3, <1>8, <2>4, <2>9, <2>12, <2>13, <2>14, <2>15
<1> QED BY <1>6, <1>7, <1>8

\* A fresh or closed device is an empty, idle stream.
LEMMA FreshFact ==
  /\ Stream(Fresh) /\ Fresh.state = "setup"
  /\ Stream(Closed) /\ Closed.state = "closed"
<1> DEFINE g == CHOOSE g \in Grants : TRUE
           b == CHOOSE b \in Blocks : TRUE
<1>1. g \in Nat /\ b \in Nat BY CaptureAssumption
<1>2. 0 \in 0..(Stride - 1) /\ 0 \in Counts /\ 0 \in 0..(PinnedCycleLimit - 1)
      /\ (0 + 0) % Stride = 0 /\ Stride \in Nat \ {0} /\ 0 <= CapacityMax
  <2>1. Stride \in Nat \ {0} /\ XrunModulus \in Nat \ {0} BY CaptureAssumption
  <2>2. 0 % Stride = 0 BY <2>1, ModSmall
  <2> QED BY <2>1, <2>2, GeometryAssumption DEF Counts, PinnedCycleLimit
<1> HIDE DEF g, b
<1>3. Fresh = [state |-> "setup", skip |-> 0, trig |-> FALSE, th |-> 0,
               per |-> 0, quantum |-> 0, cap |-> 0, mism |-> 0, pin |-> 0,
               fill |-> 0, phase |-> 0, old |-> 0, room |-> g,
               block |-> b, lw |-> 1, xruns |-> 0, dead |-> FALSE]
  BY DEF Fresh, g, b
<1>4. Fresh \in DspState BY <1>1, <1>2, <1>3 DEF DspState
<1>5. Stream(Fresh) BY <1>1, <1>2, <1>3, <1>4 DEF Stream, Running
<1>6. /\ Closed \in DspState /\ Closed.state = "closed" /\ Closed.fill = 0 /\ Closed.old = 0
      /\ Closed.xruns = 0 /\ Closed.phase = 0 /\ Closed.skip = 0 /\ Closed.room = g
      /\ Closed.cap = 0 /\ ~Closed.dead
  <2> DEFINE x == Fresh
  <2>1. x \in DspState /\ x.fill = 0 /\ x.old = 0 /\ x.xruns = 0 /\ x.phase = 0 /\ x.skip = 0
        /\ x.room = g /\ x.cap = 0 /\ ~x.dead
    BY <1>3, <1>4
  <2>2. Closed = [x EXCEPT !.state = "closed"] BY DEF Closed
  <2> HIDE DEF x
  <2> QED BY <2>1, <2>2 DEF DspState
<1>7. Stream(Closed) BY <1>1, <1>2, <1>6 DEF Stream, Running
<1> QED BY <1>3, <1>5, <1>6, <1>7

\* A suspended ring is empty and its counter zero; only a dead one refuses.
LEMMA SuspendFact ==
  ASSUME NEW v, Stream(v), NEW s \in suspend(v)
  PROVE  /\ Stream(s.d)
         /\ s.ok => ~Running(s.d)
         /\ ~s.ok => v.dead /\ s.d = v
         /\ v.state # "closed" => s.d.state # "closed"
<1>1. CASE ~Running(v)
  <2>1. s = [d |-> v, ok |-> TRUE] BY <1>1 DEF suspend
  <2> QED BY <1>1, <2>1
<1>2. CASE Running(v)
  <2> DEFINE x == [v EXCEPT !.state = "setup", !.trig = TRUE, !.skip = 0,
                            !.fill = 0, !.phase = 0, !.old = 0, !.xruns = 0]
  <2>1. s = [d |-> x, ok |-> TRUE] \/ (v.dead /\ s = [d |-> v, ok |-> FALSE])
    BY <1>2 DEF suspend
  <2>2. 0 \in 0..(Stride - 1) /\ 0 \in Counts /\ (0 + 0) % Stride = 0
    BY FreshFact, CaptureAssumption, ModSmall DEF Counts
  <2>a. v \in DspState BY DEF Stream
  <2>b. x \in DspState BY <2>2, <2>a DEF DspState
  <2>c. x.state = "setup" /\ x.fill = 0 /\ x.old = 0 /\ x.xruns = 0
    BY <2>a DEF DspState
  <2>d. x.phase = 0 /\ x.skip = 0 /\ x.room = v.room /\ x.cap = v.cap
    BY <2>a DEF DspState
  <2>3. /\ x \in DspState /\ x.state = "setup" /\ x.fill = 0 /\ x.old = 0 /\ x.xruns = 0
        /\ x.phase = 0 /\ x.skip = 0 /\ x.room = v.room /\ x.cap = v.cap
    BY <2>b, <2>c, <2>d
  <2> HIDE DEF x
  <2>4. Stream(x) /\ ~Running(x) /\ x.state # "closed"
    BY <2>2, <2>3 DEF Stream, Running, DspState
  <2> QED BY <1>2, <2>1, <2>4
<1> QED BY <1>1, <1>2

\* The ring the code asks for is a byte count.
LEMMA RingNat == period \in Nat => Ring \in Nat
<1> SUFFICES ASSUME period \in Nat PROVE Ring \in Nat OBVIOUS
<1>1. /\ U32Max \in Nat /\ MinBuffer \in Nat /\ CapacityMin \in Nat /\ CapacityMax \in Nat
      /\ MaxQuantum \in Nat
  BY GeometryAssumption
<1>2. Stride \in Nat \ {0} /\ Rate \in Nat \ {0} BY CaptureAssumption
<1>3. \A x \in Nat : Sat(x) \in Nat BY <1>1 DEF Sat, Least
<1> DEFINE limit == buffer_capacity_limit(Stride, Rate)
           max == max_buffer_period_bytes(Stride, Rate, Rate)
<1>4. limit \in Nat
  <2>1. Stride * Rate * 200 \in Nat BY <1>2
  <2>2. (Stride * Rate * 200) \div 1000 \in Nat BY <2>1
  <2> QED BY <1>1, <2>2 DEF buffer_capacity_limit, Clamp, Least, Greatest
<1>5. max \in Nat
  <2> DEFINE x == ((MaxQuantum * Rate) \div Rate) * Stride
             y == ((limit \div Stride) \div 4) * Stride
  <2>1. x \in Nat
    <3>1. MaxQuantum * Rate \in Nat BY <1>1, <1>2
    <3>2. (MaxQuantum * Rate) \div Rate \in Nat BY <1>2, <3>1, Z3
    <3> QED BY <1>2, <3>2
  <2>2. y \in Nat
    <3>1. limit \div Stride \in Nat BY <1>2, <1>4, Z3
    <3>2. (limit \div Stride) \div 4 \in Nat BY <3>1
    <3> QED BY <1>2, <3>2
  <2>3. max = Least(Sat(x), Sat(y))
    BY <1>2 DEF max_buffer_period_bytes, graph_frames_in_device_bytes
  <2> HIDE DEF x, y
  <2> QED BY <1>3, <2>1, <2>2, <2>3 DEF Least
<1>6. Ring = Least(Greatest(Greatest(Sat(4 * period), Sat(4 * max)), MinBuffer), limit)
  BY DEF Ring, capture_buffer_request
<1> HIDE DEF limit, max
<1>7. Sat(4 * period) \in Nat /\ Sat(4 * max) \in Nat BY <1>3, <1>5
<1> QED BY <1>1, <1>4, <1>6, <1>7 DEF Least, Greatest

\* Laying the ring out keeps it empty, within the capacity the code asks for.
LEMMA FragmentsFact ==
  ASSUME period \in Nat, NEW v, Stream(v), NEW x \in set_small_fragments(v)
  PROVE  /\ Stream(x)
         /\ x.state = v.state /\ x.xruns = v.xruns /\ x.dead = v.dead
         /\ v.state # "closed" => x.room <= CapacityMax
<1>1. CASE v.state # "setup"
  <2>1. x = v BY <1>1 DEF set_small_fragments
  <2>2. v.state # "closed" => Running(v) BY <1>1 DEF Stream, DspState, Running
  <2> QED BY <2>1, <2>2 DEF Stream
<1>2. CASE v.state = "setup"
  <2> DEFINE Fits == {g \in Grants : g <= Clamp(Ring, MinBuffer, CapacityMax)}
  <2>1. PICK g \in Fits, b \in Blocks : x = LaidOut(v, g, b)
    BY <1>2 DEF set_small_fragments
  <2>2. g \in Nat /\ b \in Nat /\ CapacityMax \in Nat /\ MinBuffer \in Nat
    BY CaptureAssumption, GeometryAssumption
  <2>3. g <= CapacityMax
    BY <2>2, RingNat DEF Clamp, Least, Greatest
  <2>4. /\ x \in DspState /\ x.state = v.state /\ x.xruns = v.xruns /\ x.dead = v.dead
        /\ x.room = g /\ x.fill = v.fill /\ x.old = v.old /\ x.cap = v.cap
        /\ x.phase = v.phase /\ x.skip = v.skip
    <3>1. v \in DspState BY DEF Stream
    <3>2. x \in DspState BY <2>1, <2>2, <3>1 DEF DspState, LaidOut
    <3>3. x.state = v.state /\ x.xruns = v.xruns /\ x.dead = v.dead /\ x.room = g
      BY <2>1, <3>1 DEF DspState, LaidOut
    <3>4. x.fill = v.fill /\ x.old = v.old /\ x.cap = v.cap
      BY <2>1, <3>1 DEF DspState, LaidOut
    <3>5. x.phase = v.phase /\ x.skip = v.skip BY <2>1, <3>1 DEF DspState, LaidOut
    <3> QED BY <3>2, <3>3, <3>4, <3>5
  <2>5. ~Running(v) /\ v.fill = 0 BY <1>2 DEF Stream, Running
  <2>6. Stream(x) BY <2>2, <2>4, <2>5 DEF Stream, Running
  <2> QED BY <2>2, <2>3, <2>4, <2>6
<1> QED BY <1>1, <1>2

-----------------------------------------------------------------------------
(* Epochs.                                                                 *)

(* What a port's geometry and baseline depend on.                          *)
SameGear(p, q) ==
    /\ q.setup = p.setup /\ q.quantum = p.quantum /\ q.cap = p.cap
    /\ q.target = p.target /\ q.peak = p.peak /\ q.base = p.base

\* The other fields of the port do not matter, and a prime may be asked for.
LEMMA EpochPort ==
  ASSUME NEW v, NEW p, NEW o, NEW s, Epoch(v, p, o, s),
         NEW q \in PortState, SameGear(p, q), q.primed => p.primed
  PROVE  Epoch(v, q, o, s)
BY DEF Epoch, Geared, Accounted, Base, SameGear

\* Nor does what a read changes in the stream.
LEMMA EpochStream ==
  ASSUME NEW v, NEW p, NEW o, NEW s, Epoch(v, p, o, s), NEW x, Stream(x),
         x.state = v.state, x.per = v.per, x.xruns = v.xruns, x.dead = v.dead
  PROVE  Epoch(x, p, o, s)
BY DEF Epoch, Geared, Accounted, Running

\* A snapshot may be dropped.
LEMMA EpochSnap ==
  ASSUME NEW v, NEW p, NEW o, NEW s, Epoch(v, p, o, s)
  PROVE  Epoch(v, p, o, NoFill)
BY DEF Epoch, Accounted

\* An idle or dead stream owes nothing.
LEMMA EpochOwed ==
  ASSUME NEW v, NEW p, Epoch(v, p, owed, snap)
  PROVE  Epoch(v, p, Owed(v), Snap(v)) /\ Epoch(v, p, Owed(v), NoFill)
BY DEF Epoch, Accounted, Owed, Snap

\* A stream that does not run starts a new epoch.
LEMMA EpochReset ==
  ASSUME NEW x, Stream(x), ~Running(x), NEW q \in PortState, q.base = NoFill,
         q.cap <= CapacityMax, ~q.primed
  PROVE  Epoch(x, q, 0, NoFill)
<1>1. 0 \in Int OBVIOUS
<1> QED BY <1>1 DEF Epoch, Geared, Accounted

\* So does a closed one, even under a port that was primed.
LEMMA EpochClosed ==
  ASSUME NEW v, NEW p, NEW o, NEW s, Epoch(v, p, o, s),
         NEW q \in PortState, q.base = NoFill, q.primed => p.primed,
         q.setup = p.setup, q.quantum = p.quantum, q.cap = p.cap,
         q.target = p.target, q.peak = p.peak
  PROVE  Epoch(Closed, q, 0, NoFill)
<1>1. Stream(Closed) /\ Closed.state = "closed" BY FreshFact
<1>2. ~Running(Closed) BY <1>1 DEF Running
<1>3. Geared(Closed, q) BY <1>1 DEF Epoch, Geared
<1> QED BY <1>1, <1>2, <1>3 DEF Epoch, Accounted

\* Claiming a latched rebuild.
LEMMA QueueFact ==
  ASSUME NEW p \in PortState, NEW q \in queue_required_rebuilds(p)
  PROVE  q \in PortState /\ SameGear(p, q) /\ q.primed = p.primed
<1>1. q = p \/ q = [p EXCEPT !.pending = TRUE] BY DEF queue_required_rebuilds
<1> QED BY <1>1 DEF PortState, SameGear

\* The end of a cycle that does nothing more.
LEMMA SkippedKeeps ==
  ASSUME CaptureInv, NEW v, NEW p, Epoch(v, p, Owed(v), NoFill), Skipped(v, p)
  PROVE  CaptureInv'
<1>1. port' \in PortState /\ SameGear(p, port') /\ port'.primed = p.primed
  BY QueueFact DEF Skipped, Epoch
<1>2. Epoch(d', port', owed', snap') BY <1>1, EpochPort DEF Skipped
<1>3. cyc' = Idle BY DEF Skipped
<1>4. Idle \in CycState /\ Idle.out.first = 0 /\ Idle.out.real = 0 /\ Idle.pc = "idle"
  BY CaptureAssumption DEF Idle, NoOutput, CycState
<1>5. 0 % Stride = 0 BY CaptureAssumption, ModSmall
<1>6. Whole(port', cyc') BY <1>3, <1>4 DEF Whole
<1> QED BY <1>2, <1>3, <1>4, <1>5, <1>6 DEF CaptureInv, Skipped

\* So it is for a rebuild that was given up, ...
LEMMA AbortedKeeps ==
  ASSUME CaptureInv, RebuildAborted
  PROVE  CaptureInv'
<1> DEFINE p == [port EXCEPT !.pending = FALSE]
<1>1. Epoch(d, port, owed, snap) /\ port \in PortState BY DEF CaptureInv, Epoch
<1>2. p \in PortState /\ SameGear(port, p) /\ p.primed = port.primed
  BY <1>1 DEF PortState, SameGear
<1>3. Skipped(d, p) BY DEF RebuildAborted
<1> HIDE DEF p
<1>4. Epoch(d, p, owed, snap) BY <1>1, <1>2, EpochPort
<1>5. Epoch(d, p, Owed(d), NoFill) BY <1>4, EpochOwed
<1> QED BY <1>3, <1>5, SkippedKeeps

\* ... for one that closed the old device first, ...
LEMMA RetriedKeeps ==
  ASSUME CaptureInv, RebuildRetried
  PROVE  CaptureInv'
<1> DEFINE p == reset_stream_epoch(port)
<1>1. Epoch(d, port, owed, snap) /\ port \in PortState BY DEF CaptureInv, Epoch
<1>2. /\ p \in PortState /\ p.base = NoFill /\ p.primed = port.primed
      /\ p.setup = port.setup /\ p.quantum = port.quantum /\ p.cap = port.cap
      /\ p.target = port.target /\ p.peak = port.peak
  BY <1>1 DEF PortState, reset_stream_epoch
<1>3. Skipped(Closed, p) BY DEF RebuildRetried
<1> HIDE DEF p
<1>4. Epoch(Closed, p, 0, NoFill) BY <1>1, <1>2, EpochClosed
<1>5. Owed(Closed) = 0 BY FreshFact DEF Owed, Running
<1> QED BY <1>3, <1>4, <1>5, SkippedKeeps

\* A port that swapped its device has no epoch and asks for a prime.
LEMMA SwappedFact ==
  ASSUME NEW p \in PortState
  PROVE  LET q == on_device_swapped(p)
         IN  q \in PortState /\ q.base = NoFill /\ ~q.primed /\ q.cap = p.cap
<1> DEFINE r == reset_stream_epoch(p)
           q == [r EXCEPT !.primed = FALSE, !.active = 0]
<1>1. r \in PortState /\ r.base = NoFill /\ r.cap = p.cap BY DEF reset_stream_epoch, PortState
<1> HIDE DEF r
<1>2. 0 \in 0..(NumBuffers + 1) BY CaptureAssumption
<1>3. q \in PortState /\ q.base = NoFill /\ ~q.primed /\ q.cap = p.cap
  BY <1>1, <1>2 DEF PortState
<1>4. on_device_swapped(p) = q BY DEF on_device_swapped, r
<1> QED BY <1>3, <1>4

\* So has one whose device was configured anew.
LEMMA ConfiguredFact ==
  ASSUME NEW p \in PortState, NEW q \in Configured(p)
  PROVE  q \in PortState /\ q.base = NoFill /\ ~q.primed /\ q.cap = p.cap
<1> DEFINE r == on_device_swapped(p)
<1>1. PICK b \in {0} \cup Blocks : q = [r EXCEPT !.pending = FALSE, !.quantum = b]
  BY DEF Configured
<1>2. r \in PortState /\ r.base = NoFill /\ ~r.primed /\ r.cap = p.cap BY SwappedFact
<1>3. b \in Nat BY CaptureAssumption
<1> HIDE DEF r
<1> QED BY <1>1, <1>2, <1>3 DEF PortState

\* ... and for one that installed the new device.
LEMMA InstalledKeeps ==
  ASSUME CaptureInv, RebuildInstalled
  PROVE  CaptureInv'
<1>1. PICK p \in Configured(port) : Skipped(Fresh, p) BY DEF RebuildInstalled
<1>2. port \in PortState /\ port.cap <= CapacityMax BY DEF CaptureInv, Epoch, Geared
<1>3. p \in PortState /\ p.base = NoFill /\ ~p.primed /\ p.cap = port.cap
  BY <1>2, ConfiguredFact
<1>4. Stream(Fresh) /\ ~Running(Fresh) /\ Owed(Fresh) = 0 BY FreshFact DEF Running, Owed
<1>5. Epoch(Fresh, p, 0, NoFill) BY <1>2, <1>3, <1>4, EpochReset
<1> QED BY <1>1, <1>4, <1>5, SkippedKeeps

(* What an idle cycle's locals amount to.                                  *)
Quiet(c) == c \in CycState /\ c.out.first = 0 /\ c.out.real % Stride = 0 /\ c.pc = "idle"

\* An idle data loop needs no more than a sound epoch.
LEMMA RestKeeps ==
  ASSUME CaptureInv, Epoch(d', port', owed', snap'), Quiet(cyc'),
         io' \in [status : {"need", "have", "ok"}, buffer : -1..(NumBuffers - 1)],
         node' \in [started : BOOLEAN, format : BOOLEAN, buffers : BOOLEAN],
         period' \in Nat
  PROVE  CaptureInv'
<1>1. Whole(port', cyc') BY DEF Whole, Quiet
<1> QED BY <1>1 DEF CaptureInv, Quiet

\* At rest the locals are idle.
LEMMA RestQuiet ==
  ASSUME CaptureInv, AtRest
  PROVE  Quiet(cyc)
BY DEF CaptureInv, AtRest, Quiet

\* The invariant's parts.
LEMMA Parts ==
  ASSUME CaptureInv
  PROVE  /\ Epoch(d, port, owed, snap) /\ Stream(d) /\ d \in DspState
         /\ port \in PortState /\ port.cap <= CapacityMax
         /\ io \in [status : {"need", "have", "ok"}, buffer : -1..(NumBuffers - 1)]
         /\ cyc \in CycState
         /\ node \in [started : BOOLEAN, format : BOOLEAN, buffers : BOOLEAN]
         /\ period \in Nat
         /\ snap \in Counts \cup {NoFill} /\ owed \in Int
BY DEF CaptureInv, Epoch, Geared, Stream, Accounted

\* A failed rebuild leaves a closed device and no format.
LEMMA FailedKeeps ==
  ASSUME CaptureInv, RebuildFailed
  PROVE  CaptureInv'
<1> DEFINE r == on_device_swapped(port)
           q == [r EXCEPT !.pending = FALSE]
<1>1. r \in PortState /\ r.base = NoFill /\ ~r.primed /\ r.cap = port.cap
  BY Parts, SwappedFact
<1>2. port' = q BY DEF RebuildFailed
<1> HIDE DEF r
<1>3. q \in PortState /\ q.base = NoFill /\ ~q.primed /\ q.cap = port.cap
  BY <1>1 DEF PortState
<1> HIDE DEF q
<1>4. Stream(Closed) /\ ~Running(Closed) BY FreshFact DEF Running
<1>5. Epoch(Closed, q, 0, NoFill) BY <1>3, <1>4, Parts, EpochReset
<1>6. Quiet(cyc') BY RestQuiet DEF RebuildFailed, Runs
<1>7. node' \in [started : BOOLEAN, format : BOOLEAN, buffers : BOOLEAN]
  BY Parts DEF RebuildFailed
<1> QED BY <1>2, <1>5, <1>6, <1>7, Parts, RestKeeps DEF RebuildFailed

\* A cycle without a device may ask for one.
LEMMA ReplacesKeeps ==
  ASSUME CaptureInv, CycleReplaces
  PROVE  CaptureInv'
<1>1. PICK p \in queue_required_rebuilds(port), queued \in BOOLEAN :
        Skipped(d, [p EXCEPT !.pending = queued])
  BY DEF CycleReplaces
<1> DEFINE q == [p EXCEPT !.pending = queued]
<1>2. p \in PortState /\ SameGear(port, p) /\ p.primed = port.primed BY Parts, QueueFact
<1>3. q \in PortState /\ SameGear(port, q) /\ q.primed = port.primed
  BY <1>2 DEF PortState, SameGear
<1> HIDE DEF q
<1>4. Epoch(d, q, owed, snap) BY <1>3, Parts, EpochPort
<1>5. Epoch(d, q, Owed(d), NoFill) BY <1>4, EpochOwed
<1> QED BY <1>1, <1>5, SkippedKeeps DEF q

\* A cycle that may not run.
LEMMA SkipsKeeps ==
  ASSUME CaptureInv, CycleSkips
  PROVE  CaptureInv'
<1>1. PICK p \in queue_required_rebuilds(port) : Skipped(d, p) BY DEF CycleSkips
<1>2. p \in PortState /\ SameGear(port, p) /\ p.primed = port.primed BY Parts, QueueFact
<1>3. Epoch(d, p, owed, snap) BY <1>2, Parts, EpochPort
<1>4. Epoch(d, p, Owed(d), NoFill) BY <1>3, EpochOwed
<1> QED BY <1>1, <1>4, SkippedKeeps

\* Handing out a buffer only counts it.
LEMMA HandedFact ==
  ASSUME NEW p \in PortState
  PROVE  HandedOut(p) \in PortState /\ SameGear(p, HandedOut(p)) /\ HandedOut(p).primed = p.primed
<1> DEFINE n == Least(p.active + 1, NumBuffers + 1)
<1>1. n \in 0..(NumBuffers + 1) BY CaptureAssumption DEF Least, PortState
<1>2. HandedOut(p) = p \/ HandedOut(p) = [p EXCEPT !.active = n] BY DEF HandedOut
<1> HIDE DEF n
<1> QED BY <1>1, <1>2 DEF PortState, SameGear

\* A cycle without a usable buffer.
LEMMA NoBlockKeeps ==
  ASSUME CaptureInv, CycleNoBlock
  PROVE  CaptureInv'
<1>1. PICK p \in queue_required_rebuilds(port) : Skipped(d, HandedOut(p)) BY DEF CycleNoBlock
<1> DEFINE q == HandedOut(p)
<1>2. p \in PortState /\ SameGear(port, p) /\ p.primed = port.primed BY Parts, QueueFact
<1>3. q \in PortState /\ SameGear(p, q) /\ q.primed = p.primed BY <1>2, HandedFact
<1> HIDE DEF q
<1>4. SameGear(port, q) BY <1>2, <1>3 DEF SameGear
<1>5. Epoch(d, q, owed, snap) BY <1>2, <1>3, <1>4, Parts, EpochPort
<1>6. Epoch(d, q, Owed(d), NoFill) BY <1>5, EpochOwed
<1> QED BY <1>1, <1>6, SkippedKeeps DEF q

-----------------------------------------------------------------------------
(* The retune.                                                             *)

\* Whatever the retune decides, the epoch stays sound: the ring keeps its
\* geometry, adopts the new one, or starts over.
LEMMA RetuneFact ==
  ASSUME CaptureInv, NEW p \in PortState, Epoch(d, p, owed, snap), d.state # "closed",
         NEW r \in retune(d, p)
  PROVE  /\ Epoch(r.d, r.port, Owed(r.d), Snap(r.d))
         /\ r.d.state # "closed"
<1> DEFINE m == d.mism + 1
           q == Greatest(d.quantum, Quantum(d))
           g == capture_applied_geometry(period, d.cap, q)
<1>1. /\ d \in DspState /\ period \in Nat /\ Stream(d)
      /\ d.mism \in 0..2 /\ d.cap \in Nat /\ d.cap <= CapacityMax
  BY Parts DEF DspState, Stream
<1>2. CASE SamePeriod(d, p)
  <2> DEFINE x == [d EXCEPT !.mism = 0]
             y == [p EXCEPT !.retune_pending = FALSE]
  <2>1. r.d = x /\ r.port = y BY <1>2 DEF retune
  <2>2. y \in PortState /\ SameGear(p, y) /\ y.primed = p.primed BY DEF PortState, SameGear
  <2>3. Stream(x) /\ Same(d, x) BY <1>1 DEF Stream, Same, DspState, Running
  <2> HIDE DEF x, y
  <2>4. Epoch(x, y, owed, snap) BY <2>2, <2>3, EpochPort, EpochStream DEF Same
  <2>5. Epoch(x, y, Owed(x), Snap(x)) BY <2>4, EpochOwed
  <2> QED BY <2>1, <2>3, <2>5 DEF Same
<1>3. CASE ~SamePeriod(d, p) /\ m < 2
  <2> DEFINE x == [d EXCEPT !.mism = m]
             y == [p EXCEPT !.retune_pending = TRUE]
  <2>1. r.d = x /\ r.port = y BY <1>3 DEF retune
  <2>2. y \in PortState /\ SameGear(p, y) /\ y.primed = p.primed BY DEF PortState, SameGear
  <2>3. m \in 0..2 BY <1>1, <1>3
  <2> HIDE DEF m
  <2>4. Stream(x) /\ Same(d, x) BY <1>1, <2>3 DEF Stream, Same, DspState, Running
  <2> HIDE DEF x, y
  <2>5. Epoch(x, y, owed, snap) BY <2>2, <2>4, EpochPort, EpochStream DEF Same
  <2>6. Epoch(x, y, Owed(x), Snap(x)) BY <2>5, EpochOwed
  <2> QED BY <2>1, <2>4, <2>6 DEF Same
<1>4. CASE ~SamePeriod(d, p) /\ ~(m < 2) /\ g.capacity >= g.required
  <2> DEFINE x == [d EXCEPT !.per = period, !.mism = 0]
             z == commit_geometry(p, period, g)
             y == [z EXCEPT !.retune_pending = FALSE]
  <2>1. r.d = x /\ r.port = y BY <1>4 DEF retune
  <2>2. /\ g.capacity = d.cap /\ g.quantum = q
        /\ g.target = capture_fill_targets(period, q, d.cap).target
        /\ g.peak = capture_fill_targets(period, q, d.cap).peak
    BY AppliedFact
  <2>3. q \in Nat
    BY <1>1, DeliveryNat DEF Quantum, Greatest, DspState
  <2>4. g.target \in Nat /\ g.peak \in Nat BY <1>1, <2>2, <2>3, FillNat
  <2> HIDE DEF g, q
  <2>5. /\ y \in PortState /\ y.setup = period /\ y.quantum = q /\ y.cap = d.cap
        /\ y.target = g.target /\ y.peak = g.peak /\ y.base = p.base /\ y.primed = p.primed
    BY <1>1, <2>2, <2>3, <2>4 DEF PortState, commit_geometry
  <2> HIDE DEF y
  <2>6. Stream(x) /\ x.state = d.state /\ x.per = period /\ x.xruns = d.xruns /\ x.dead = d.dead
    <3>0. d \in DspState /\ period \in Nat /\ 0 \in 0..2 BY <1>1
    <3>1. x \in DspState BY <3>0 DEF DspState
    <3>2. x.state = d.state /\ x.per = period /\ x.xruns = d.xruns /\ x.dead = d.dead
      BY <1>1 DEF DspState
    <3>3. x.fill = d.fill /\ x.old = d.old /\ x.room = d.room /\ x.cap = d.cap
      BY <1>1 DEF DspState
    <3>4. x.phase = d.phase /\ x.skip = d.skip /\ x.trig = d.trig BY <1>1 DEF DspState
    <3> HIDE DEF x
    <3> QED BY <1>1, <3>1, <3>2, <3>3, <3>4 DEF Stream, Running
  <2> HIDE DEF x
  <2>7. p.primed BY <1>4 DEF SamePeriod
  <2>8. Running(x) BY <2>6, <2>7 DEF Epoch, Geared, Running
  <2>9. Geared(x, y) BY <1>1, <2>2, <2>5, <2>6, <2>8 DEF Geared
  <2>10. Accounted(x, y, owed, snap)
    BY <2>5, <2>6 DEF Epoch, Accounted, Base, Running
  <2>11. Epoch(x, y, owed, snap) BY <2>5, <2>6, <2>9, <2>10 DEF Epoch
  <2>12. Epoch(x, y, Owed(x), Snap(x)) BY <2>11, EpochOwed
  <2> QED BY <2>1, <2>6, <2>12
<1>5. CASE ~SamePeriod(d, p) /\ ~(m < 2) /\ ~(g.capacity >= g.required)
  <2> DEFINE A(s) == [d |-> [s.d EXCEPT !.mism = 0],
                      port |-> [reset_stream_epoch(p) EXCEPT !.retune_pending = FALSE,
                                                             !.primed = FALSE],
                      rebuild |-> FALSE]
             B(s) == [d |-> [s.d EXCEPT !.mism = Least(m, 2)],
                      port |-> [p EXCEPT !.retune_pending = TRUE], rebuild |-> TRUE]
  <2>1. r \in {IF s.ok THEN A(s) ELSE B(s) : s \in suspend(d)} BY <1>5 DEF retune
  <2>2. PICK s \in suspend(d) : r = IF s.ok THEN A(s) ELSE B(s)
    <3> HIDE DEF A, B
    <3> QED BY <2>1
  <2>3. /\ Stream(s.d)
        /\ s.ok => ~Running(s.d)
        /\ ~s.ok => d.dead /\ s.d = d
        /\ s.d.state # "closed"
    BY <1>1, SuspendFact
  <2>4. CASE s.ok
    <3> DEFINE x == [s.d EXCEPT !.mism = 0]
               z == reset_stream_epoch(p)
               y == [z EXCEPT !.retune_pending = FALSE, !.primed = FALSE]
    <3>1. r.d = x /\ r.port = y BY <2>2, <2>4
    <3>2. z \in PortState /\ z.base = NoFill /\ z.cap = p.cap
      BY DEF reset_stream_epoch, PortState
    <3> HIDE DEF z
    <3>3. y \in PortState /\ y.base = NoFill /\ y.cap = p.cap /\ ~y.primed BY <3>2 DEF PortState
    <3> HIDE DEF y
    <3>4. Stream(x) /\ ~Running(x) /\ x.state # "closed"
      BY <2>3, <2>4 DEF Stream, DspState, Running
    <3> HIDE DEF x
    <3>5. p.cap <= CapacityMax BY DEF Epoch, Geared
    <3>6. Epoch(x, y, 0, NoFill) BY <3>3, <3>4, <3>5, EpochReset
    <3>7. Owed(x) = 0 /\ Snap(x) = NoFill BY <3>4 DEF Owed, Snap
    <3> QED BY <3>1, <3>4, <3>6, <3>7
  <2>5. CASE ~s.ok
    <3> DEFINE k == Least(m, 2)
               x == [s.d EXCEPT !.mism = k]
               y == [p EXCEPT !.retune_pending = TRUE]
    <3>1. r.d = x /\ r.port = y BY <2>2, <2>5
    <3>2. y \in PortState /\ SameGear(p, y) /\ y.primed = p.primed BY DEF PortState, SameGear
    <3>3. k \in 0..2 BY <1>1 DEF Least
    <3> HIDE DEF k
    <3>4. Stream(x) /\ Same(d, x) BY <1>1, <2>3, <2>5, <3>3 DEF Stream, Same, DspState, Running
    <3> HIDE DEF x, y
    <3>5. Epoch(x, y, owed, snap) BY <3>2, <3>4, EpochPort, EpochStream DEF Same
    <3>6. Epoch(x, y, Owed(x), Snap(x)) BY <3>5, EpochOwed
    <3> QED BY <3>1, <3>4, <3>6 DEF Same
  <2> QED BY <2>4, <2>5
<1> QED BY <1>2, <1>3, <1>4, <1>5

\* The freewheel edge may ask for a new prime.
LEMMA ReprimedFact ==
  ASSUME NEW p \in PortState, NEW fw \in BOOLEAN
  PROVE  /\ Reprimed(p, fw) \in PortState /\ SameGear(p, Reprimed(p, fw))
         /\ Reprimed(p, fw).primed => p.primed
BY DEF Reprimed, PortState, SameGear

\* What a usable cycle goes on with is a sound epoch and a real buffer.
LEMMA TuningsFact ==
  ASSUME CaptureInv, NEW fw \in BOOLEAN, NEW t \in Tunings(fw)
  PROVE  /\ Epoch(t.d, t.port, Owed(t.d), Snap(t.d))
         /\ t.d.state # "closed"
         /\ t.buffer \in -1..(NumBuffers - 1)
<1> DEFINE T(p, r) == [d |-> r.d, port |-> Reprimed(r.port, fw), rebuild |-> r.rebuild,
                       buffer |-> Buffer(p)]
<1>1. PICK p \in queue_required_rebuilds(port) :
        /\ Usable(p) /\ Buffer(p) < NumBuffers
        /\ t \in {T(p, r) : r \in retune(d, HandedOut(p))}
  BY DEF Tunings
<1>2. PICK r \in retune(d, HandedOut(p)) : t = T(p, r)
  <2> HIDE DEF T
  <2> QED BY <1>1
<1>3. p \in PortState /\ SameGear(port, p) /\ p.primed = port.primed BY Parts, QueueFact
<1> DEFINE q == HandedOut(p)
<1>4. q \in PortState /\ SameGear(p, q) /\ q.primed = p.primed BY <1>3, HandedFact
<1> HIDE DEF q
<1>5. SameGear(port, q) BY <1>3, <1>4 DEF SameGear
<1>6. Epoch(d, q, owed, snap) BY <1>3, <1>4, <1>5, Parts, EpochPort
<1>7. d.state # "closed" BY <1>1 DEF Usable
<1>8. Epoch(r.d, r.port, Owed(r.d), Snap(r.d)) /\ r.d.state # "closed"
  BY <1>2, <1>4, <1>6, <1>7, RetuneFact DEF q
<1>9. r.port \in PortState BY <1>8 DEF Epoch
<1>10. t.d = r.d /\ t.port = Reprimed(r.port, fw) /\ t.buffer = Buffer(p) BY <1>2
<1>11. Epoch(r.d, Reprimed(r.port, fw), Owed(r.d), Snap(r.d))
  BY <1>8, <1>9, ReprimedFact, EpochPort
<1>12. Buffer(p) \in -1..(NumBuffers - 1)
  BY <1>1, <1>3, Parts, CaptureAssumption DEF Buffer, PortState
<1> QED BY <1>8, <1>10, <1>11, <1>12

\* A refused suspend asks for a rebuild.
LEMMA RefusedKeeps ==
  ASSUME CaptureInv, CycleRetuneRefused
  PROVE  CaptureInv'
<1>1. PICK t \in Tunings(port.was_freewheeling) : Skipped(t.d, [t.port EXCEPT !.pending = TRUE])
  BY DEF CycleRetuneRefused
<1> DEFINE q == [t.port EXCEPT !.pending = TRUE]
<1>2. port.was_freewheeling \in BOOLEAN BY Parts DEF PortState
<1>3. Epoch(t.d, t.port, Owed(t.d), Snap(t.d)) BY <1>2, TuningsFact
<1>4. q \in PortState /\ SameGear(t.port, q) /\ q.primed = t.port.primed
  BY <1>3 DEF Epoch, PortState, SameGear
<1> HIDE DEF q
<1>5. Epoch(t.d, q, Owed(t.d), NoFill) BY <1>3, <1>4, EpochPort, EpochSnap
<1> QED BY <1>1, <1>5, SkippedKeeps DEF q

\* A cycle that produced a buffer goes on to the overrun counter.
LEMMA ProducedKeeps ==
  ASSUME CaptureInv, NEW v, NEW p, Epoch(v, p, Owed(v), Snap(v)),
         NEW b \in -1..(NumBuffers - 1),
         NEW o \in [size : Int, real : Nat, first : Nat], o.first = 0, o.real % Stride = 0,
         NEW pre \in BOOLEAN \cup {NoFill}, NEW fw \in BOOLEAN,
         pre # NoFill /\ p.setup # 0 => o.size >= Least(p.setup, MaxSize) /\ o.size <= MaxSize,
         Produced(v, p, b, o, pre, fw)
  PROVE  CaptureInv'
<1>1. Epoch(d', port', owed', snap') BY DEF Produced
<1>2. cyc' = [Idle EXCEPT !.pc = "overrun", !.buffer = b, !.out = o, !.pre = pre,
                          !.freewheel = fw]
  BY DEF Produced
<1>3. Idle \in CycState BY CaptureAssumption DEF Idle, NoOutput, CycState
<1>4. cyc' \in CycState /\ cyc'.pc = "overrun" /\ cyc'.out = o /\ cyc'.pre = pre
  <2> DEFINE i == Idle
  <2>1. i \in CycState BY <1>3
  <2>2. cyc' = [i EXCEPT !.pc = "overrun", !.buffer = b, !.out = o, !.pre = pre,
                         !.freewheel = fw]
    BY <1>2
  <2> HIDE DEF i
  <2> QED BY <2>1, <2>2 DEF CycState
<1>5. Whole(port', cyc') BY <1>4 DEF Whole, Produced
<1> QED BY <1>1, <1>4, <1>5 DEF CaptureInv, Produced

\* Freewheeling cycles, silent periods and empty cycles.
LEMMA SilentOut ==
  ASSUME NEW n \in Nat
  PROVE  Silence(n) \in [size : Int, real : Nat, first : Nat]
         /\ Silence(n).first = 0 /\ Silence(n).real % Stride = 0
<1>1. 0 % Stride = 0 BY CaptureAssumption, ModSmall
<1>2. Least(n, MaxSize) \in Int BY CaptureAssumption DEF Least
<1> QED BY <1>1, <1>2 DEF Silence

\* A freewheeling cycle is silent.
LEMMA FreewheelKeeps ==
  ASSUME CaptureInv, CycleFreewheel
  PROVE  CaptureInv'
<1>1. PICK t \in Tunings(TRUE) :
        Produced(t.d, t.port, t.buffer, Silence(period), NoFill, TRUE)
  BY DEF CycleFreewheel
<1>2. Epoch(t.d, t.port, Owed(t.d), Snap(t.d)) /\ t.buffer \in -1..(NumBuffers - 1)
  BY TuningsFact
<1>3. Silence(period) \in [size : Int, real : Nat, first : Nat]
      /\ Silence(period).first = 0 /\ Silence(period).real % Stride = 0
  BY Parts, SilentOut
<1> QED BY <1>1, <1>2, <1>3, ProducedKeeps

\* A cycle before any period is known is empty.
LEMMA EmptyKeeps ==
  ASSUME CaptureInv, CycleEmpty
  PROVE  CaptureInv'
<1> DEFINE o == [NoOutput EXCEPT !.size = -1]
<1>1. PICK t \in Tunings(FALSE) : Produced(t.d, t.port, t.buffer, o, NoFill, FALSE)
  BY DEF CycleEmpty
<1>2. Epoch(t.d, t.port, Owed(t.d), Snap(t.d)) /\ t.buffer \in -1..(NumBuffers - 1)
  BY TuningsFact
<1>3. 0 % Stride = 0 BY CaptureAssumption, ModSmall
<1>4. o \in [size : Int, real : Nat, first : Nat] /\ o.first = 0 /\ o.real % Stride = 0
  BY <1>3 DEF NoOutput
<1> HIDE DEF o
<1> QED BY <1>1, <1>2, <1>4, ProducedKeeps

-----------------------------------------------------------------------------
(* The prime.                                                              *)

(* The prime records the ring it was granted.                              *)
Granted(v, cap, q, per) ==
    [Polled(v) EXCEPT !.cap = cap, !.quantum = q, !.per = per, !.mism = 0, !.pin = 0]

\* The record has its type.
LEMMA GrantedState ==
  ASSUME NEW y \in DspState, NEW cap \in Nat, NEW q \in Nat, NEW per \in Nat,
         NEW x, x = [y EXCEPT !.cap = cap, !.quantum = q, !.per = per, !.mism = 0, !.pin = 0]
  PROVE  x \in DspState
<1> DEFINE w == [y EXCEPT !.cap = cap, !.quantum = q, !.per = per]
           z == [w EXCEPT !.mism = 0, !.pin = 0]
<1>1. 0 \in 0..2 /\ 0 \in 0..(PinnedCycleLimit - 1) BY DEF PinnedCycleLimit
<1>2. w \in DspState BY DEF DspState
<1>3. x = z BY Zenon
<1> HIDE DEF w
<1> QED BY <1>1, <1>2, <1>3 DEF DspState

\* Starting the channel makes everything in the ring old.
LEMMA PolledFact ==
  ASSUME NEW v, Stream(v), v.room <= CapacityMax, NEW cap \in Nat, cap <= CapacityMax,
         NEW q \in Nat, NEW per \in Nat, NEW x, x = Granted(v, cap, q, per)
  PROVE  /\ Stream(x) /\ Running(x)
         /\ x.old = v.fill /\ x.lw = v.lw /\ x.per = per /\ x.xruns = v.xruns /\ x.dead = v.dead
<1> DEFINE y == Polled(v)
<1>1. v \in DspState /\ v.fill \in Nat BY DEF Stream, DspState
<1>2. y = [v EXCEPT !.state = "running", !.trig = FALSE, !.old = v.fill] BY DEF Polled
<1>3. y \in DspState BY <1>1, <1>2 DEF DspState
<1>4. y.state = "running" /\ ~y.trig /\ y.old = v.fill /\ y.lw = v.lw /\ y.xruns = v.xruns
  BY <1>1, <1>2 DEF DspState
<1>5. /\ y.fill = v.fill /\ y.room = v.room /\ y.phase = v.phase /\ y.skip = v.skip
      /\ y.dead = v.dead
  BY <1>1, <1>2 DEF DspState
<1> HIDE DEF y
<1>6. x = [y EXCEPT !.cap = cap, !.quantum = q, !.per = per, !.mism = 0, !.pin = 0] BY DEF y, Granted
<1>8. x \in DspState BY <1>3, <1>6, GrantedState
<1>9. x.state = y.state /\ x.trig = y.trig /\ x.old = y.old /\ x.lw = y.lw /\ x.xruns = y.xruns
  BY <1>3, <1>6 DEF DspState
<1>10. x.fill = y.fill /\ x.room = y.room /\ x.phase = y.phase /\ x.skip = y.skip
  BY <1>3, <1>6 DEF DspState
<1>11. x.dead = y.dead /\ x.cap = cap /\ x.per = per BY <1>3, <1>6 DEF DspState
<1>12. Running(x) BY <1>4, <1>9 DEF Running
<1>13. Stream(x)
  BY <1>1, <1>4, <1>5, <1>8, <1>9, <1>10, <1>11, <1>12 DEF Stream
<1> QED BY <1>4, <1>5, <1>9, <1>11, <1>12, <1>13

\* A prime starts the channel at the period it was asked for, with the ring
\* it was granted and the backlog poll reports.
LEMMA PrimeKeeps ==
  ASSUME CaptureInv, CyclePrime
  PROVE  CaptureInv'
<1>1. PICK t \in Tunings(FALSE) :
        /\ ~t.port.primed /\ period > 0
        /\ \E v \in set_small_fragments(t.d) :
             /\ d' = [Polled(v) EXCEPT !.cap = IF v.dead THEN 0 ELSE v.room,
                                       !.quantum = Quantum(v), !.per = period,
                                       !.mism = 0, !.pin = 0]
             /\ port' = t.port
             /\ cyc' = [Idle EXCEPT !.pc = "discard", !.buffer = t.buffer,
                                    !.backlog = IF Ready(v) THEN v.fill ELSE 0]
             /\ snap' = Snap(t.d)
             /\ owed' = Owed(t.d)
             /\ UNCHANGED <<io, node, period>>
  BY Zenon DEF CyclePrime
<1>2. PICK v \in set_small_fragments(t.d) :
             /\ d' = [Polled(v) EXCEPT !.cap = IF v.dead THEN 0 ELSE v.room,
                                       !.quantum = Quantum(v), !.per = period,
                                       !.mism = 0, !.pin = 0]
             /\ port' = t.port
             /\ cyc' = [Idle EXCEPT !.pc = "discard", !.buffer = t.buffer,
                                    !.backlog = IF Ready(v) THEN v.fill ELSE 0]
             /\ snap' = Snap(t.d)
             /\ owed' = Owed(t.d)
             /\ UNCHANGED <<io, node, period>>
  BY <1>1, Zenon
<1> DEFINE cap == IF v.dead THEN 0 ELSE v.room
           backlog == IF Ready(v) THEN v.fill ELSE 0
<1>3. /\ Epoch(t.d, t.port, Owed(t.d), Snap(t.d))
      /\ t.d.state # "closed"
      /\ t.buffer \in -1..(NumBuffers - 1)
  BY TuningsFact
<1>4. period \in Nat BY Parts
<1>5. Stream(t.d) /\ t.port \in PortState /\ t.port.cap <= CapacityMax
  BY <1>3 DEF Epoch, Geared
<1>6. /\ Stream(v)
      /\ v.state = t.d.state /\ v.xruns = t.d.xruns /\ v.dead = t.d.dead
      /\ v.room <= CapacityMax
  BY <1>3, <1>4, <1>5, FragmentsFact
<1>7. /\ v \in DspState /\ v.fill \in Nat /\ v.lw \in Nat /\ v.room \in Nat /\ v.block \in Nat
      /\ v.dead \in BOOLEAN
  BY <1>6 DEF Stream, DspState
<1>8. cap \in Nat /\ cap <= CapacityMax BY <1>6, <1>7, GeometryAssumption
<1>9. Quantum(v) \in Nat BY <1>7, DeliveryNat DEF Quantum, Greatest
<1> DEFINE q == Quantum(v)
<1>10. d' = Granted(v, cap, q, period) BY <1>2 DEF Granted
<1> HIDE DEF cap, q
<1>11. /\ Stream(d') /\ Running(d')
       /\ d'.old = v.fill /\ d'.lw = v.lw /\ d'.per = period /\ d'.xruns = v.xruns
       /\ d'.dead = v.dead
  <2>1. q \in Nat BY <1>9 DEF q
  <2> QED BY <1>4, <1>6, <1>8, <1>10, <2>1, PolledFact
<1>12. Accounted(d', t.port, Owed(t.d), Snap(t.d))
  <2>1. Accounted(t.d, t.port, Owed(t.d), Snap(t.d)) BY <1>3 DEF Epoch
  <2>2. CASE Running(t.d) BY <1>6, <1>11, <2>1, <2>2 DEF Accounted
  <2>3. CASE ~Running(t.d)
    <3>1. t.d.xruns = 0 /\ Snap(t.d) = NoFill /\ Owed(t.d) = 0
      BY <1>5, <2>3 DEF Stream, Snap, Owed
    <3>2. 0 \in Counts /\ (0 + 0) % XrunModulus = 0
      <4>1. XrunModulus \in Nat \ {0} BY CaptureAssumption
      <4>2. 0 \in 0..(XrunModulus - 1) BY <4>1
      <4>3. 0 % XrunModulus = 0 BY <4>1, <4>2, ModSmall
      <4> QED BY <4>2, <4>3 DEF Counts
    <3>3. ~t.d.dead => t.port.base = NoFill BY <2>1, <2>3 DEF Accounted
    <3> QED BY <1>6, <1>11, <3>1, <3>2, <3>3 DEF Accounted, Base
  <2> QED BY <2>2, <2>3
<1>13. Epoch(d', port', owed', snap')
  BY <1>1, <1>2, <1>5, <1>11, <1>12 DEF Epoch, Geared
<1>14. backlog \in Nat BY <1>7
<1>15. cyc' = [Idle EXCEPT !.pc = "discard", !.buffer = t.buffer, !.backlog = backlog]
  BY <1>2
<1>16. v.fill < v.lw \/ v.fill <= backlog
  BY <1>6, <1>7 DEF Ready, Stream
<1> HIDE DEF backlog
<1>17. /\ cyc' \in CycState /\ cyc'.pc = "discard" /\ cyc'.backlog = backlog
       /\ cyc'.out = NoOutput
  <2> DEFINE i == Idle
  <2>1. i \in CycState /\ i.out = NoOutput BY CaptureAssumption DEF Idle, NoOutput, CycState
  <2>2. cyc' = [i EXCEPT !.pc = "discard", !.buffer = t.buffer, !.backlog = backlog] BY <1>15
  <2> HIDE DEF i
  <2> QED BY <1>3, <1>14, <2>1, <2>2 DEF CycState
<1>18. cyc'.out.first = 0 /\ cyc'.out.real % Stride = 0
  <2>1. 0 % Stride = 0 BY CaptureAssumption, ModSmall
  <2> QED BY <1>17, <2>1 DEF NoOutput
<1>19. Discarding(d', cyc') BY <1>11, <1>16, <1>17 DEF Discarding
<1>20. ~port'.primed /\ d'.per = period' BY <1>1, <1>2, <1>11
<1>21. Whole(port', cyc') BY <1>17 DEF Whole
<1>22. UNCHANGED <<io, node, period>> BY <1>2
<1> QED BY <1>11, <1>13, <1>17, <1>18, <1>19, <1>20, <1>21, <1>22 DEF CaptureInv

\* A chunk is a byte count; none is left below a frame.
LEMMA ChunkFact ==
  ASSUME CaptureInv
  PROVE  Chunk \in Nat /\ (Chunk = 0 => cyc.backlog < Stride)
<1> DEFINE n == Least(cyc.backlog, MaxSize)
<1>1. /\ Stride \in Nat \ {0} /\ MaxSize \in Nat /\ Stride <= MaxSize /\ cyc.backlog \in Nat
  BY CaptureAssumption, Parts DEF CycState
<1>2. n \in Nat /\ (n < Stride => cyc.backlog < Stride) BY <1>1 DEF Least
<1> HIDE DEF n
<1>3. (n \div Stride) * Stride \in Nat /\ ((n \div Stride) * Stride = 0 => n < Stride)
  BY <1>1, <1>2, RoundDown
<1> QED BY <1>2, <1>3 DEF Chunk, n

\* Each discarding read takes what it delivered off the backlog, and ends it
\* when it delivered nothing.
LEMMA DiscardKeeps ==
  ASSUME CaptureInv, PrimeDiscard
  PROVE  CaptureInv'
<1>1. PICK r \in read(d, Chunk) :
        /\ d' = r.d
        /\ cyc' = [cyc EXCEPT !.backlog = IF r.n = 0 THEN 0 ELSE Less(@, r.n),
                              !.lost    = @ \/ requires_rebuild(r.st)]
  BY DEF PrimeDiscard
<1>2. Chunk \in Nat BY ChunkFact
<1>3. /\ Stream(r.d) /\ Same(d, r.d) /\ r.n \in Nat
      /\ r.d.old <= Less(d.old, r.n)
      /\ r.n = 0 => r.d.old = 0 \/ r.d.skip # 0
  BY <1>2, Parts, ReadFact
<1> DEFINE backlog == IF r.n = 0 THEN 0 ELSE Less(cyc.backlog, r.n)
<1>4. cyc.backlog \in Nat /\ backlog \in Nat BY <1>3, Parts DEF CycState, Less
<1>5. /\ cyc' \in CycState /\ cyc'.pc = cyc.pc /\ cyc'.out = cyc.out
      /\ cyc'.backlog = backlog
  <2> HIDE DEF backlog
  <2>1. cyc' = [cyc EXCEPT !.backlog = backlog, !.lost = @ \/ requires_rebuild(r.st)]
    BY <1>1 DEF backlog
  <2> QED BY <1>4, <2>1, Parts DEF CycState, requires_rebuild
<1>6. Running(d) /\ ~port.primed /\ d.per = period /\ Discarding(d, cyc)
  BY DEF CaptureInv, PrimeDiscard
<1>7. Discarding(d', cyc')
  <2>1. /\ d.old \in Nat /\ d.lw \in Nat /\ r.d.old \in Nat /\ r.d.lw = d.lw
    BY <1>3, Parts DEF Stream, DspState, Same
  <2>2. Chunk > 0 BY DEF PrimeDiscard
  <2>3. cyc.backlog # 0
    <3>1. cyc.backlog = 0 => Least(cyc.backlog, MaxSize) = 0 BY CaptureAssumption DEF Least
    <3>2. (0 \div Stride) * Stride <= 0 BY CaptureAssumption, RoundDown
    <3> QED BY <1>2, <2>2, <3>1, <3>2 DEF Chunk
  <2>4. d.old < d.lw \/ d.old <= cyc.backlog BY <1>6, <2>3 DEF Discarding
  <2>5. CASE r.n = 0
    BY <1>1, <1>3, <1>5, <2>1, <2>5 DEF Discarding
  <2>6. CASE r.n # 0
    BY <1>1, <1>3, <1>4, <1>5, <2>1, <2>4, <2>6 DEF Discarding, Less
  <2> QED BY <2>5, <2>6
<1>8. Epoch(d', port', owed', snap')
  BY <1>1, <1>3, Parts, EpochStream DEF PrimeDiscard, Same
<1>9. Running(d') /\ d'.per = period BY <1>1, <1>3, <1>6 DEF Same, Running
<1>10. cyc.pc = "discard" BY DEF PrimeDiscard
<1>11. Whole(port', cyc') BY <1>5, <1>10 DEF Whole
<1> QED BY <1>5, <1>6, <1>7, <1>8, <1>9, <1>11 DEF CaptureInv, PrimeDiscard

\* The primed port works with the geometry of the ring it was granted.
LEMMA DoneKeeps ==
  ASSUME CaptureInv, PrimeDone
  PROVE  CaptureInv'
<1> DEFINE g == capture_applied_geometry(period, d.cap, d.quantum)
           x == [d EXCEPT !.old = 0]
           z == commit_geometry(port, period, g)
           y == [z EXCEPT !.primed = TRUE, !.required = @ \/ cyc.lost]
<1>1. Produced(x, y, cyc.buffer, Silence(period), NoFill, FALSE) BY DEF PrimeDone
<1>2. Running(d) /\ d.per = period BY DEF CaptureInv, PrimeDone
<1>3. period \in Nat /\ d.cap \in Nat /\ d.quantum \in Nat /\ d.cap <= CapacityMax
  BY Parts DEF DspState, Stream
<1>4. /\ g.capacity = d.cap /\ g.quantum = d.quantum
      /\ g.target = capture_fill_targets(period, d.quantum, d.cap).target
      /\ g.peak = capture_fill_targets(period, d.quantum, d.cap).peak
  BY AppliedFact
<1>5. g.target \in Nat /\ g.peak \in Nat BY <1>3, <1>4, FillNat
<1> HIDE DEF g
<1>6. /\ z \in PortState /\ z.setup = period /\ z.quantum = d.quantum /\ z.cap = d.cap
      /\ z.target = g.target /\ z.peak = g.peak /\ z.base = port.base
  BY <1>3, <1>4, <1>5, Parts DEF PortState, commit_geometry
<1> HIDE DEF z
<1>7. /\ y \in PortState /\ y.setup = period /\ y.quantum = d.quantum /\ y.cap = d.cap
      /\ y.target = g.target /\ y.peak = g.peak /\ y.base = port.base
  BY <1>6, Parts DEF PortState, CycState
<1> HIDE DEF y
<1>8. /\ x \in DspState /\ x.state = d.state /\ x.per = d.per /\ x.xruns = d.xruns
      /\ x.dead = d.dead /\ x.old = 0
  BY Parts DEF DspState
<1>9. /\ x.fill = d.fill /\ x.room = d.room /\ x.cap = d.cap /\ x.phase = d.phase
      /\ x.skip = d.skip /\ x.trig = d.trig
  BY Parts DEF DspState
<1> HIDE DEF x
<1>10. d.fill \in Nat BY Parts DEF DspState
<1>11. Stream(x) BY <1>8, <1>9, <1>10, Parts DEF Stream, Running
<1>12. Geared(x, y) BY <1>2, <1>3, <1>4, <1>7, <1>8 DEF Geared, Running
<1>13. Accounted(x, y, owed, snap)
  BY <1>7, <1>8, Parts DEF Epoch, Accounted, Base, Running
<1>14. Epoch(x, y, owed, snap) BY <1>7, <1>11, <1>12, <1>13 DEF Epoch
<1>15. Epoch(x, y, Owed(x), Snap(x)) BY <1>14, EpochOwed
<1>16. cyc.buffer \in -1..(NumBuffers - 1) BY Parts DEF CycState
<1>17. Silence(period) \in [size : Int, real : Nat, first : Nat]
       /\ Silence(period).first = 0 /\ Silence(period).real % Stride = 0
  BY Parts, SilentOut
<1> QED BY <1>1, <1>15, <1>16, <1>17, ProducedKeeps

\* A read publishes what it was given, in whole frames, padded to a period.
LEMMA ReadKeeps ==
  ASSUME CaptureInv, CycleRead
  PROVE  CaptureInv'
<1>1. PICK t \in Tunings(FALSE) : \E queued \in measured_fill(t.d) : BoundedRead(t, queued)
  BY DEF CycleRead
<1>2. PICK queued \in measured_fill(t.d) : BoundedRead(t, queued) BY <1>1
<1>3. Epoch(t.d, t.port, Owed(t.d), Snap(t.d)) /\ t.buffer \in -1..(NumBuffers - 1)
  BY TuningsFact
<1>4. /\ Stream(t.d) /\ t.d \in DspState /\ t.port \in PortState
      /\ t.d.fill \in Nat /\ t.d.room \in Nat /\ t.port.setup \in Nat /\ t.port.peak \in Nat
  BY <1>3 DEF Epoch, Stream, DspState, PortState
<1>5. queued \in Nat BY <1>2, <1>4 DEF measured_fill
<1>6. Stride \in Nat \ {0} /\ MaxSize \in Nat /\ U32Max \in Nat
  BY CaptureAssumption, GeometryAssumption
<1> DEFINE want == IF t.port.setup # 0
                     THEN Sat(t.port.setup + Less(queued, t.port.peak)) ELSE queued
           most == Least(Least(want, queued), MaxSize)
           space == (most \div Stride) * Stride
           reads == IF space > 0 THEN read(t.d, space)
                    ELSE {[d |-> t.d, n |-> 0, first |-> 0, st |-> "progress"]}
<1>7. want \in Nat BY <1>4, <1>5, <1>6 DEF Sat, Less, Least
<1>8. most \in Nat /\ most <= MaxSize
  <2> HIDE DEF want
  <2> QED BY <1>5, <1>6, <1>7 DEF Least
<1>9. space \in Nat /\ space <= MaxSize
  <2> HIDE DEF want, most
  <2>1. (most \div Stride) * Stride \in Nat /\ (most \div Stride) * Stride <= most
    BY <1>6, <1>8, RoundDown
  <2> QED BY <1>6, <1>8, <2>1
<1>10. PICK r \in reads :
          Produced(r.d, latch_rebuild_required(t.port, r.st), t.buffer,
                   [size  |-> Greatest(r.n, Least(t.port.setup, MaxSize)),
                    real  |-> r.n,
                    first |-> IF r.n = 0 THEN 0 ELSE r.first],
                   Pinned(t.d, queued), FALSE)
  BY <1>2, Zenon DEF BoundedRead
<1>11. /\ Stream(r.d) /\ Same(t.d, r.d)
       /\ r.n \in Nat /\ r.n <= MaxSize /\ r.n % Stride = 0
       /\ r.first \in Nat /\ (r.n # 0 => r.first = 0)
  <2> HIDE DEF want, most, space
  <2>1. CASE space > 0
    <3>1. r \in read(t.d, space) BY <2>1
    <3>2. /\ Stream(r.d) /\ Same(t.d, r.d)
          /\ r.n \in Nat /\ r.n <= space /\ r.n % Stride = 0
          /\ r.first \in Nat /\ (r.n # 0 => r.first = 0)
      BY <1>4, <1>9, <3>1, ReadFact
    <3> QED BY <1>6, <1>9, <3>2
  <2>2. CASE ~(space > 0)
    <3>1. r.d = t.d /\ r.n = 0 /\ r.first = 0 BY <2>2
    <3>2. 0 % Stride = 0 BY <1>6, ModSmall
    <3> QED BY <1>4, <1>6, <3>1, <3>2 DEF Same
  <2> QED BY <2>1, <2>2
<1> HIDE DEF reads
<1> DEFINE p == latch_rebuild_required(t.port, r.st)
           o == [size  |-> Greatest(r.n, Least(t.port.setup, MaxSize)),
                 real  |-> r.n,
                 first |-> IF r.n = 0 THEN 0 ELSE r.first]
           pre == Pinned(t.d, queued)
<1>12. Produced(r.d, p, t.buffer, o, pre, FALSE) BY <1>10
<1>13. p \in PortState /\ SameGear(t.port, p) /\ p.primed = t.port.primed
  BY <1>4 DEF latch_rebuild_required, requires_rebuild, PortState, SameGear
<1>14. o \in [size : Int, real : Nat, first : Nat] /\ o.first = 0 /\ o.real % Stride = 0
  BY <1>4, <1>6, <1>11 DEF Greatest, Least
<1>15. o.size >= Least(t.port.setup, MaxSize) /\ o.size <= MaxSize
  BY <1>4, <1>6, <1>11 DEF Greatest, Least
<1>16. pre \in BOOLEAN BY DEF Pinned
<1> HIDE DEF p, o, pre
<1>17. Epoch(r.d, p, Owed(r.d), Snap(r.d))
  <2>1. Epoch(t.d, p, Owed(t.d), Snap(t.d)) BY <1>3, <1>13, EpochPort
  <2>2. Epoch(r.d, p, Owed(t.d), Snap(t.d)) BY <1>11, <2>1, EpochStream DEF Same
  <2>3. Owed(r.d) = Owed(t.d) /\ Snap(r.d) = Snap(t.d)
    BY <1>11 DEF Owed, Snap, Running, Same
  <2> QED BY <2>2, <2>3
<1>18. p.setup = t.port.setup BY <1>13 DEF SameGear
<1> QED BY <1>3, <1>12, <1>14, <1>15, <1>16, <1>17, <1>18, ProducedKeeps

-----------------------------------------------------------------------------
(* The overrun counter.                                                    *)

\* Two counts together wrap at most once.
LEMMA ModWrap ==
  ASSUME NEW s \in Nat \ {0}, NEW a \in 0..(s - 1), NEW b \in 0..(s - 1)
  PROVE  (a + b) % s = IF a + b < s THEN a + b ELSE a + b - s
<1>1. CASE a + b < s
  <2>1. a + b \in 0..(s - 1) BY <1>1
  <2> QED BY <1>1, <2>1, ModSmall
<1>2. CASE ~(a + b < s)
  <2>1. a + b - s \in 0..(s - 1) BY <1>2
  <2>2. (s * 1 + (a + b - s)) % s = a + b - s BY <2>1, ModUnique
  <2>3. s * 1 + (a + b - s) = a + b OBVIOUS
  <2> QED BY <1>2, <2>2, <2>3
<1> QED BY <1>1, <1>2

\* The wrapping difference to a baseline is what was counted since.
LEMMA DeltaFact ==
  ASSUME NEW p \in PortState, NEW e \in Counts, NEW c, c = (Base(p) + e) % XrunModulus
  PROVE  cumulative_delta(c, p.base) = e
<1> DEFINE s == XrunModulus
           b == Base(p)
<1>1. s \in Nat \ {0} /\ NoFill \notin Nat BY CaptureAssumption
<1>2. b \in 0..(s - 1) /\ e \in 0..(s - 1)
  BY <1>1, CaptureAssumption DEF Base, PortState, Counts
<1>3. c = IF b + e < s THEN b + e ELSE b + e - s BY <1>1, <1>2, ModWrap
<1>4. CASE p.base = NoFill
  <2>1. b = 0 BY <1>4 DEF Base
  <2> HIDE DEF b
  <2>2. c = e BY <1>1, <1>2, <1>3, <2>1
  <2> QED BY <1>4, <2>2 DEF cumulative_delta
<1>5. CASE p.base # NoFill
  <2>1. b = p.base BY <1>5 DEF Base
  <2> HIDE DEF b, s
  <2>2. (c + s - b) % s = e
    <3>1. CASE b + e < s
      <4>1. c + s - b = s * 1 + e BY <1>1, <1>2, <1>3, <3>1
      <4>2. (s * 1 + e) % s = e BY <1>1, <1>2, ModUnique
      <4> QED BY <4>1, <4>2
    <3>2. CASE ~(b + e < s)
      <4>1. c + s - b = e BY <1>1, <1>2, <1>3, <3>2
      <4>2. e % s = e BY <1>1, <1>2, ModSmall
      <4> QED BY <4>1, <4>2
    <3> QED BY <3>1, <3>2
  <2> QED BY <1>5, <2>1, <2>2 DEF cumulative_delta, s
<1> QED BY <1>4, <1>5

\* A difference of counts is a number.
LEMMA DeltaInt ==
  ASSUME NEW c \in Counts, NEW b \in Counts \cup {NoFill}
  PROVE  cumulative_delta(c, b) \in Int
<1>1. XrunModulus \in Nat \ {0} BY CaptureAssumption
<1>2. CASE b = NoFill BY <1>1, <1>2 DEF cumulative_delta, Counts
<1>3. CASE b # NoFill
  <2>1. c + XrunModulus - b \in Int BY <1>1, <1>3 DEF Counts
  <2>2. (c + XrunModulus - b) % XrunModulus \in 0..(XrunModulus - 1) BY <1>1, <2>1, ModRange
  <2> QED BY <1>1, <1>3, <2>2 DEF cumulative_delta
<1> QED BY <1>2, <1>3

(* The cycle's look at the counter, as the action's locals.                *)
Counted == Running(d) /\ ~cyc.freewheel
Events == IF Counted THEN cumulative_delta(Observed, port.base) ELSE 0
Read == IF Counted /\ snap = NoFill THEN [d EXCEPT !.xruns = 0] ELSE d
Rebased == IF Counted THEN baseline(port) ELSE port

\* What was observed is no longer owed: the new baseline has caught up.
LEMMA ObservedFact ==
  ASSUME CaptureInv
  PROVE  /\ Epoch(Read, Rebased, owed - Events, NoFill)
         /\ Events \in Int
         /\ Read.state = d.state /\ Read.dead = d.dead
<1> DEFINE v == Read
           p == Rebased
           n == Events
           M == XrunModulus
<1>1. /\ d \in DspState /\ port \in PortState /\ snap \in Counts \cup {NoFill} /\ owed \in Int
      /\ Stream(d) /\ Geared(d, port) /\ Accounted(d, port, owed, snap)
  BY Parts DEF Epoch
<1>2. M \in Nat \ {0} /\ NoFill \notin Counts BY CaptureAssumption DEF Counts
<1>3. 0 \in Counts /\ 0 % M = 0
  <2>1. 0 \in 0..(M - 1) BY <1>2
  <2> QED BY <1>2, <2>1, ModSmall DEF Counts
<1>4. v = d \/ v = [d EXCEPT !.xruns = 0] BY DEF Read
<1>5. /\ v \in DspState /\ v.state = d.state /\ v.dead = d.dead /\ v.per = d.per
  BY <1>1, <1>3, <1>4 DEF DspState
<1>6. /\ v.fill = d.fill /\ v.room = d.room /\ v.old = d.old /\ v.phase = d.phase
      /\ v.skip = d.skip /\ v.cap = d.cap /\ v.trig = d.trig
  BY <1>1, <1>4 DEF DspState
<1>7. v.xruns = IF Counted /\ snap = NoFill THEN 0 ELSE d.xruns BY <1>1 DEF DspState, Read
<1>8. p = port \/ p = [port EXCEPT !.base = snap] BY DEF Rebased, baseline
<1>9. /\ p \in PortState /\ p.setup = port.setup /\ p.quantum = port.quantum
      /\ p.cap = port.cap /\ p.target = port.target /\ p.peak = port.peak
      /\ p.primed = port.primed
  BY <1>1, <1>8 DEF PortState
<1>10. p.base = IF Counted THEN snap ELSE port.base
  BY <1>1 DEF PortState, Rebased, baseline
<1>11. n \in Int
  <2>1. Observed \in Counts BY <1>1, <1>3 DEF Observed, DspState
  <2>2. port.base \in Counts \cup {NoFill} BY <1>1 DEF PortState
  <2> QED BY <2>1, <2>2, DeltaInt DEF Events
<1> HIDE DEF v, p
<1>12. Stream(v)
  <2>1. Counted => Running(d) BY DEF Counted
  <2> QED BY <1>1, <1>5, <1>6, <1>7, <2>1 DEF Stream, Running
<1>13. Geared(v, p) BY <1>1, <1>5, <1>9 DEF Geared, Running
<1>14. Running(v) <=> Running(d) BY <1>5 DEF Running
<1>15. ASSUME ~d.dead
       PROVE  IF Running(v)
                THEN owed - n \in Counts /\ (Base(p) + (owed - n)) % M = v.xruns
                ELSE p.base = NoFill /\ owed - n = 0
  <2>1. CASE ~Running(d)
    <3>1. ~Counted /\ n = 0 BY <2>1 DEF Counted, Events
    <3> QED BY <1>1, <1>10, <1>14, <1>15, <2>1, <3>1 DEF Accounted
  <2>2. CASE Running(d) /\ ~Counted
    <3>1. n = 0 BY <2>2 DEF Events
    <3>2. Base(p) = Base(port) /\ v.xruns = d.xruns BY <1>7, <1>10, <2>2 DEF Base
    <3> HIDE DEF n, M
    <3>3. owed - n = owed BY <1>1, <3>1
    <3> QED BY <1>1, <1>14, <1>15, <2>2, <3>2, <3>3 DEF Accounted, M
  <2>3. CASE Counted /\ snap = NoFill
    <3>1. owed \in Counts /\ (Base(port) + owed) % M = d.xruns
      BY <1>1, <1>15, <2>3 DEF Accounted, Counted
    <3>2. Observed = d.xruns BY <1>15, <2>3 DEF Observed
    <3>3. n = owed BY <1>1, <2>3, <3>1, <3>2, DeltaFact DEF Events
    <3>4. owed - n = 0 BY <1>1, <3>3
    <3>5. Base(p) = 0 /\ v.xruns = 0 BY <1>7, <1>10, <2>3 DEF Base
    <3> HIDE DEF n, M
    <3>6. Base(p) + (owed - n) = 0 BY <3>4, <3>5
    <3> QED BY <1>3, <1>14, <2>3, <3>4, <3>5, <3>6 DEF Counted
  <2>4. CASE Counted /\ snap # NoFill
    <3>1. owed \in Counts /\ (Base(port) + owed) % M = d.xruns
      BY <1>1, <1>15, <2>4 DEF Accounted, Counted
    <3>2. PICK e \in 0..owed : (Base(port) + e) % M = snap
      BY <1>1, <1>15, <2>4 DEF Accounted, Counted
    <3>3. e \in Counts /\ e \in Nat /\ owed \in Nat /\ owed - e \in Counts /\ owed - e \in Nat
      BY <1>2, <3>1, <3>2 DEF Counts
    <3>4. Observed = snap BY <2>4 DEF Observed
    <3>5. n = e BY <1>1, <2>4, <3>2, <3>3, <3>4, DeltaFact DEF Events
    <3>6. Base(p) = snap /\ v.xruns = d.xruns BY <1>7, <1>10, <2>4 DEF Base
    <3>7. Base(port) \in Nat BY <1>1, <1>2 DEF Base, PortState, Counts
    <3> DEFINE b == Base(port)
    <3> HIDE DEF b, M, n
    <3>8. b \in Nat /\ b + e \in Nat /\ (b + e) + (owed - e) = b + owed BY <3>3, <3>7 DEF b
    <3>9. (((b + e) % M) + (owed - e)) % M = ((b + e) + (owed - e)) % M
      BY <1>2, <3>3, <3>8, ModAdd
    <3>10. (snap + (owed - e)) % M = (b + owed) % M BY <3>2, <3>8, <3>9 DEF b
    <3> QED BY <1>14, <2>4, <3>1, <3>3, <3>5, <3>6, <3>10 DEF Counted, b
  <2> QED BY <2>1, <2>2, <2>3, <2>4
<1>16. Accounted(v, p, owed - n, NoFill)
  <2>1. owed - n \in Int BY <1>1, <1>11
  <2> QED BY <1>5, <1>15, <2>1 DEF Accounted
<1> QED BY <1>5, <1>9, <1>11, <1>12, <1>13, <1>16 DEF Epoch, v, p

\* The pin counter is the recovery's own.
LEMMA PinFact ==
  ASSUME NEW v, NEW p, NEW o, NEW s, Epoch(v, p, o, s), NEW k \in 0..(PinnedCycleLimit - 1),
         NEW x, x = [v EXCEPT !.pin = k]
  PROVE  Epoch(x, p, o, s) /\ Stream(x) /\ x.state = v.state /\ x.dead = v.dead
<1>1. Stream(v) /\ v \in DspState BY DEF Epoch, Stream
<1>2. /\ x \in DspState /\ x.state = v.state /\ x.dead = v.dead /\ x.per = v.per
      /\ x.xruns = v.xruns
  BY <1>1 DEF DspState
<1>3. /\ x.fill = v.fill /\ x.room = v.room /\ x.old = v.old /\ x.phase = v.phase
      /\ x.skip = v.skip /\ x.cap = v.cap /\ x.trig = v.trig
  BY <1>1 DEF DspState
<1>4. Stream(x) BY <1>1, <1>2, <1>3 DEF Stream, Running
<1> QED BY <1>2, <1>4, EpochStream

\* A recovered stream starts a new epoch, any other keeps its own.
LEMMA RecoverFact ==
  ASSUME NEW v, NEW p, NEW o, Epoch(v, p, o, NoFill), v.state # "closed",
         NEW pre, NEW e \in recover_overrun(v, p, pre)
  PROVE  Epoch(e.d, e.port, IF Running(v) /\ ~Running(e.d) THEN 0 ELSE o, NoFill)
<1> DEFINE pins == IF pre = TRUE THEN v.pin + 1 ELSE 0
           x == [v EXCEPT !.pin = pins]
           y == [v EXCEPT !.pin = 0]
           Q(s) == [p EXCEPT !.primed = FALSE, !.base = IF s.ok THEN NoFill ELSE @]
<1>1. Stream(v) /\ v \in DspState /\ p \in PortState /\ v.pin \in 0..(PinnedCycleLimit - 1)
  BY DEF Epoch, Stream, DspState
<1>2. pins \in Nat /\ 0 \in 0..(PinnedCycleLimit - 1) BY <1>1 DEF PinnedCycleLimit
<1>3. CASE pins < PinnedCycleLimit
  <2>1. e = [d |-> x, port |-> p] BY <1>3 DEF recover_overrun
  <2>2. pins \in 0..(PinnedCycleLimit - 1) BY <1>2, <1>3 DEF PinnedCycleLimit
  <2> HIDE DEF pins
  <2>3. Epoch(x, p, o, NoFill) /\ x.state = v.state BY <2>2, PinFact
  <2> HIDE DEF x
  <2> QED BY <2>1, <2>3 DEF Running
<1>4. CASE ~(pins < PinnedCycleLimit)
  <2>1. e \in {[d |-> s.d, port |-> Q(s)] : s \in suspend(y)} BY <1>4 DEF recover_overrun
  <2>2. Epoch(y, p, o, NoFill) /\ Stream(y) /\ y.state = v.state /\ y.dead = v.dead
    BY <1>2, PinFact
  <2> HIDE DEF y, pins, Q
  <2>3. PICK s \in suspend(y) : e = [d |-> s.d, port |-> Q(s)] BY <2>1
  <2>4. /\ Stream(s.d) /\ (s.ok => ~Running(s.d)) /\ (~s.ok => y.dead /\ s.d = y)
    BY <2>2, SuspendFact
  <2>6. /\ Q(s) \in PortState /\ ~Q(s).primed
        /\ Q(s).base = IF s.ok THEN NoFill ELSE p.base
    BY <1>1 DEF Q, PortState
  <2>7. /\ Q(s).setup = p.setup /\ Q(s).quantum = p.quantum /\ Q(s).cap = p.cap
        /\ Q(s).target = p.target /\ Q(s).peak = p.peak
    BY <1>1 DEF Q, PortState
  <2>8. p.cap <= CapacityMax BY DEF Epoch, Geared
  <2>9. CASE s.ok
    <3>1. Epoch(s.d, Q(s), 0, NoFill) BY <2>4, <2>6, <2>7, <2>8, <2>9, EpochReset
    <3>2. Running(v) => Epoch(e.d, e.port, 0, NoFill) /\ ~Running(e.d)
      BY <2>3, <2>4, <2>9, <3>1
    <3>3. CASE Running(v) BY <3>2, <3>3
    <3>4. CASE ~Running(v)
      <4>1. ~Running(y) BY <2>2, <3>4 DEF Running
      <4>2. s.d = y BY <4>1 DEF suspend
      <4>3. Accounted(y, Q(s), o, NoFill)
        BY <2>2, <2>6, <2>9, <4>1 DEF Epoch, Accounted
      <4>4. Epoch(y, Q(s), o, NoFill)
        BY <2>2, <2>6, <2>7, <4>3 DEF Epoch, Geared
      <4> QED BY <2>3, <3>4, <4>2, <4>4
    <3> QED BY <3>3, <3>4
  <2>10. CASE ~s.ok
    <3>1. s.d = y BY <2>4, <2>10
    <3>2. SameGear(p, Q(s)) BY <2>6, <2>7, <2>10 DEF SameGear
    <3>3. Epoch(y, Q(s), o, NoFill) BY <2>2, <2>6, <3>2, EpochPort
    <3>4. Running(v) => Running(e.d) BY <2>2, <2>3, <3>1 DEF Running
    <3> QED BY <2>3, <3>1, <3>3, <3>4
  <2> QED BY <2>9, <2>10
<1> QED BY <1>3, <1>4

\* A cycle's end observes the counter, recovers if it has to, and publishes.
LEMMA OverrunKeeps ==
  ASSUME CaptureInv, CycleOverrun
  PROVE  CaptureInv'
<1> DEFINE ends == IF Events > 0 THEN recover_overrun(Read, Rebased, cyc.pre)
                   ELSE {[d |-> [Read EXCEPT !.pin = 0], port |-> Rebased]}
<1>1. PICK e \in ends :
        /\ d' = e.d
        /\ port' \in queue_required_rebuilds(e.port)
        /\ owed' = IF Running(d) /\ ~Running(e.d) THEN 0 ELSE owed - Events
  BY DEF CycleOverrun, Events, Read, Rebased, Counted
<1>2. /\ Epoch(Read, Rebased, owed - Events, NoFill) /\ Events \in Int
      /\ Read.state = d.state /\ Read.dead = d.dead
  BY ObservedFact
<1>3. Epoch(e.d, e.port, owed', NoFill)
  <2>1. CASE Events > 0
    <3>1. e \in recover_overrun(Read, Rebased, cyc.pre) BY <2>1
    <3>2. Counted BY <2>1 DEF Events
    <3>3. Running(Read) /\ Read.state # "closed" BY <1>2, <3>2 DEF Counted, Running
    <3>4. Epoch(e.d, e.port, IF Running(Read) /\ ~Running(e.d) THEN 0 ELSE owed - Events, NoFill)
      BY <1>2, <3>1, <3>3, RecoverFact
    <3> QED BY <1>1, <3>2, <3>3, <3>4 DEF Counted
  <2>2. CASE ~(Events > 0)
    <3>1. e.d = [Read EXCEPT !.pin = 0] /\ e.port = Rebased BY <2>2
    <3>2. 0 \in 0..(PinnedCycleLimit - 1) BY DEF PinnedCycleLimit
    <3>3. Epoch(e.d, Rebased, owed - Events, NoFill) /\ e.d.state = Read.state
      BY <1>2, <3>1, <3>2, PinFact
    <3>4. owed' = owed - Events BY <1>1, <1>2, <3>3 DEF Running
    <3> QED BY <3>1, <3>3, <3>4
  <2> QED BY <2>1, <2>2
<1> HIDE DEF ends
<1>4. e.port \in PortState BY <1>3 DEF Epoch
<1>5. port' \in PortState /\ SameGear(e.port, port') /\ port'.primed = e.port.primed
  BY <1>1, <1>4, QueueFact
<1>6. Epoch(d', port', owed', NoFill) BY <1>1, <1>3, <1>5, EpochPort
<1>7. Quiet(Idle)
  <2>1. 0 % Stride = 0 BY CaptureAssumption, ModSmall
  <2> QED BY <2>1, CaptureAssumption DEF Idle, NoOutput, CycState, Quiet
<1>8. io' \in [status : {"need", "have", "ok"}, buffer : -1..(NumBuffers - 1)]
  BY Parts DEF CycleOverrun, CycState
<1>9. cyc' = Idle /\ snap' = NoFill /\ UNCHANGED <<node, period>> BY DEF CycleOverrun
<1> QED BY <1>6, <1>7, <1>8, <1>9, Parts, RestKeeps

-----------------------------------------------------------------------------
(* Commands.                                                               *)

\* Start asks for a new prime.
LEMMA StartKeeps ==
  ASSUME CaptureInv, Start
  PROVE  CaptureInv'
<1>1. port' \in PortState /\ SameGear(port, port') /\ ~port'.primed
  BY Parts DEF Start, PortState, SameGear
<1>2. Epoch(d', port', owed', snap') BY <1>1, Parts, EpochPort DEF Start
<1>3. Quiet(cyc') BY RestQuiet DEF Start
<1>4. node' \in [started : BOOLEAN, format : BOOLEAN, buffers : BOOLEAN] BY Parts DEF Start
<1> QED BY <1>2, <1>3, <1>4, Parts, RestKeeps DEF Start

\* Pause gives a rebuild up and forgets the wake's measurement.
LEMMA PauseKeeps ==
  ASSUME CaptureInv, Pause
  PROVE  CaptureInv'
<1>1. port' \in PortState /\ SameGear(port, port') /\ port'.primed = port.primed
  BY Parts DEF Pause, PortState, SameGear
<1>2. Epoch(d, port', owed, snap) BY <1>1, Parts, EpochPort
<1>3. Epoch(d', port', owed', snap') BY <1>2, EpochSnap DEF Pause
<1>4. Quiet(cyc') BY RestQuiet DEF Pause
<1>5. node' \in [started : BOOLEAN, format : BOOLEAN, buffers : BOOLEAN] BY Parts DEF Pause
<1> QED BY <1>3, <1>4, <1>5, Parts, RestKeeps DEF Pause

\* Suspend closes the device.
LEMMA SuspendKeeps ==
  ASSUME CaptureInv, Suspend
  PROVE  CaptureInv'
<1> DEFINE r == on_device_swapped(port)
           q == [r EXCEPT !.setup = 0, !.quantum = 0, !.pending = FALSE]
<1>1. r \in PortState /\ r.base = NoFill /\ ~r.primed /\ r.cap = port.cap
  BY Parts, SwappedFact
<1>2. port' = q BY DEF Suspend
<1> HIDE DEF r
<1>3. q \in PortState /\ q.base = NoFill /\ ~q.primed /\ q.cap = port.cap
  BY <1>1 DEF PortState
<1> HIDE DEF q
<1>4. Stream(Closed) /\ ~Running(Closed) BY FreshFact DEF Running
<1>5. Epoch(Closed, q, 0, NoFill) BY <1>3, <1>4, Parts, EpochReset
<1>6. Quiet(cyc') BY RestQuiet DEF Suspend
<1>7. /\ node' \in [started : BOOLEAN, format : BOOLEAN, buffers : BOOLEAN]
      /\ io' \in [status : {"need", "have", "ok"}, buffer : -1..(NumBuffers - 1)]
  BY CaptureAssumption DEF Suspend
<1> QED BY <1>2, <1>5, <1>6, <1>7, Parts, RestKeeps DEF Suspend

\* A negotiated format opens a fresh device.
LEMMA NegotiateKeeps ==
  ASSUME CaptureInv, Negotiate
  PROVE  CaptureInv'
<1>1. port' \in PortState /\ port'.base = NoFill /\ ~port'.primed /\ port'.cap = port.cap
  BY Parts, ConfiguredFact DEF Negotiate
<1>2. Stream(Fresh) /\ ~Running(Fresh) BY FreshFact DEF Running
<1>3. Epoch(Fresh, port', 0, NoFill) BY <1>1, <1>2, Parts, EpochReset
<1>4. Quiet(cyc') BY RestQuiet DEF Negotiate
<1>5. node' \in [started : BOOLEAN, format : BOOLEAN, buffers : BOOLEAN]
  BY Parts DEF Negotiate
<1> QED BY <1>3, <1>4, <1>5, Parts, RestKeeps DEF Negotiate

\* New buffers are handed out from the first.
LEMMA BuffersKeeps ==
  ASSUME CaptureInv, UseBuffers
  PROVE  CaptureInv'
<1>1. 0 \in 0..(NumBuffers + 1) BY CaptureAssumption
<1>2. port' \in PortState /\ SameGear(port, port') /\ port'.primed = port.primed
  BY <1>1, Parts DEF UseBuffers, PortState, SameGear
<1>3. Epoch(d', port', owed', snap') BY <1>2, Parts, EpochPort DEF UseBuffers
<1>4. Quiet(cyc') BY RestQuiet DEF UseBuffers
<1>5. node' \in [started : BOOLEAN, format : BOOLEAN, buffers : BOOLEAN]
  BY Parts DEF UseBuffers
<1>6. io' \in [status : {"need", "have", "ok"}, buffer : -1..(NumBuffers - 1)]
  BY CaptureAssumption DEF UseBuffers
<1> QED BY <1>3, <1>4, <1>5, <1>6, Parts, RestKeeps DEF UseBuffers

\* Arming the wake moves the low-water mark.
LEMMA RegisterKeeps ==
  ASSUME CaptureInv, RegisterWake
  PROVE  CaptureInv'
<1> DEFINE n == capture_wake_threshold(port)
<1>1. n \in Nat BY Parts DEF capture_wake_threshold, Greatest, PortState
<1>2. d' = [d EXCEPT !.th = n, !.lw = n] BY DEF RegisterWake
<1> HIDE DEF n
<1>3. /\ d' \in DspState /\ d'.state = d.state /\ d'.dead = d.dead /\ d'.per = d.per
      /\ d'.xruns = d.xruns
  BY <1>1, <1>2, Parts DEF DspState
<1>4. /\ d'.fill = d.fill /\ d'.room = d.room /\ d'.old = d.old /\ d'.phase = d.phase
      /\ d'.skip = d.skip /\ d'.cap = d.cap /\ d'.trig = d.trig
  BY <1>2, Parts DEF DspState
<1>5. Stream(d') BY <1>3, <1>4, Parts DEF Stream, Running
<1>6. Epoch(d', port', owed', snap') BY <1>3, <1>5, Parts, EpochStream DEF RegisterWake
<1>7. Quiet(cyc') BY RestQuiet DEF RegisterWake
<1> QED BY <1>6, <1>7, Parts, RestKeeps DEF RegisterWake

-----------------------------------------------------------------------------
(* The environment.                                                        *)

\* What the hardware and the peer may change while a cycle is under way.
LEMMA AmidKeeps ==
  ASSUME CaptureInv, Epoch(d', port, owed', snap), d'.state = d.state, d'.per = d.per,
         d'.old <= d.old, d'.lw = d.lw, d'.skip = d.skip, d'.old \in Nat,
         UNCHANGED <<port, io, cyc, node, period, snap>>
  PROVE  CaptureInv'
<1>1. d.old \in Nat /\ d.lw \in Nat /\ cyc.backlog \in Nat BY Parts DEF DspState, CycState
<1>2. Discarding(d, cyc) => Discarding(d', cyc)
  BY <1>1 DEF Discarding
<1>3. Running(d) => Running(d') BY DEF Running
<1>4. Epoch(d', port', owed', snap') OBVIOUS
<1>5. cyc'.pc = "discard" =>
        Running(d') /\ ~port'.primed /\ d'.per = period' /\ Discarding(d', cyc')
  BY <1>2, <1>3 DEF CaptureInv
<1>6. Whole(port', cyc') BY DEF CaptureInv, Whole
<1> QED BY <1>4, <1>5, <1>6 DEF CaptureInv

\* A delivery fills the ring or is counted.
LEMMA ArriveKeeps ==
  ASSUME CaptureInv, Arrive
  PROVE  CaptureInv'
<1>1. PICK n \in Lumps :
         \/ /\ d.fill + n <= d.room
            /\ d' = [d EXCEPT !.fill = @ + n]
            /\ UNCHANGED owed
         \/ /\ d.fill + n > d.room
            /\ owed < XrunModulus - 1
            /\ d' = [d EXCEPT !.xruns = (@ + 1) % XrunModulus]
            /\ owed' = owed + 1
  BY Zenon DEF Arrive
<1>2. Running(d) /\ ~d.dead /\ UNCHANGED <<port, io, cyc, node, period, snap>> BY DEF Arrive
<1>3. n \in Nat /\ d.fill \in Nat /\ d.old \in Nat /\ d.room \in Nat
  BY CaptureAssumption, Parts DEF DspState
<1>4. CASE d.fill + n <= d.room /\ d' = [d EXCEPT !.fill = @ + n] /\ UNCHANGED owed
  <2> DEFINE f == d.fill + n
  <2>1. f \in Nat /\ f <= d.room /\ d.fill <= f BY <1>3, <1>4
  <2>2. d' = [d EXCEPT !.fill = f] BY <1>4
  <2> HIDE DEF f
  <2>3. /\ d' \in DspState /\ d'.state = d.state /\ d'.dead = d.dead /\ d'.per = d.per
        /\ d'.xruns = d.xruns
    BY <2>1, <2>2, Parts DEF DspState
  <2>4. /\ d'.fill = f /\ d'.room = d.room /\ d'.old = d.old /\ d'.phase = d.phase
        /\ d'.skip = d.skip /\ d'.cap = d.cap /\ d'.trig = d.trig /\ d'.lw = d.lw
    BY <2>2, Parts DEF DspState
  <2>5. Stream(d')
    <3>1. d.old <= d.fill BY Parts DEF Stream
    <3>2. d'.old <= d'.fill BY <1>3, <2>1, <2>4, <3>1
    <3> QED BY <1>2, <2>1, <2>3, <2>4, <3>2, Parts DEF Stream, Running
  <2>6. Epoch(d', port, owed', snap) BY <1>4, <2>3, <2>5, Parts, EpochStream
  <2> QED BY <1>2, <1>3, <2>3, <2>4, <2>6, AmidKeeps
<1>5. CASE /\ owed < XrunModulus - 1
           /\ d' = [d EXCEPT !.xruns = (@ + 1) % XrunModulus]
           /\ owed' = owed + 1
  <2> DEFINE x == (d.xruns + 1) % XrunModulus
             b == Base(port)
  <2>1. XrunModulus \in Nat \ {0} /\ d.xruns \in Nat
    BY CaptureAssumption, Parts DEF DspState, Counts
  <2>2. x \in Counts BY <2>1, ModRange DEF Counts
  <2>3. d' = [d EXCEPT !.xruns = x] BY <1>5
  <2> HIDE DEF x
  <2>4. /\ d' \in DspState /\ d'.state = d.state /\ d'.dead = d.dead /\ d'.per = d.per
        /\ d'.xruns = x
    BY <2>2, <2>3, Parts DEF DspState
  <2>5. /\ d'.fill = d.fill /\ d'.room = d.room /\ d'.old = d.old /\ d'.phase = d.phase
        /\ d'.skip = d.skip /\ d'.cap = d.cap /\ d'.trig = d.trig /\ d'.lw = d.lw
    BY <2>3, Parts DEF DspState
  <2>6. Stream(d') BY <1>2, <2>4, <2>5, Parts DEF Stream, Running
  <2>7. Geared(d', port) BY <2>4, Parts DEF Epoch, Geared, Running
  <2>8. /\ owed \in Counts /\ (b + owed) % XrunModulus = d.xruns
        /\ snap # NoFill => \E e \in 0..owed : (b + e) % XrunModulus = snap
        /\ snap \in Counts \cup {NoFill}
    BY <1>2, Parts DEF Epoch, Accounted
  <2>9. b \in Nat BY Parts, CaptureAssumption DEF Base, PortState, Counts
  <2> HIDE DEF b
  <2>10. owed \in Nat /\ owed + 1 \in Counts /\ owed' = owed + 1
    BY <1>5, <2>1, <2>8 DEF Counts
  <2>11. (b + (owed + 1)) % XrunModulus = x
    <3>1. (((b + owed) % XrunModulus) + 1) % XrunModulus = ((b + owed) + 1) % XrunModulus
      <4>1. b + owed \in Nat BY <2>9, <2>10
      <4> QED BY <2>1, <4>1, ModAdd
    <3>2. (b + owed) + 1 = b + (owed + 1) BY <2>9, <2>10
    <3> QED BY <2>8, <3>1, <3>2 DEF x
  <2>12. snap # NoFill => \E e \in 0..(owed + 1) : (b + e) % XrunModulus = snap
    <3>1. 0..owed \subseteq 0..(owed + 1) BY <2>10
    <3> QED BY <2>8, <3>1
  <2>13. Accounted(d', port, owed', snap)
    BY <1>2, <2>4, <2>8, <2>10, <2>11, <2>12 DEF Accounted, Running, b
  <2>14. Epoch(d', port, owed', snap) BY <2>6, <2>7, <2>13, Parts DEF Epoch
  <2> QED BY <1>2, <1>3, <2>4, <2>5, <2>14, AmidKeeps
<1> QED BY <1>1, <1>4, <1>5

\* A device that dies empties its ring; nothing is owed of it any more.
LEMMA DiesKeeps ==
  ASSUME CaptureInv, DeviceDies
  PROVE  CaptureInv'
<1>1. d' = [d EXCEPT !.dead = TRUE, !.fill = 0, !.old = 0]
      /\ Running(d) /\ UNCHANGED <<port, io, cyc, node, period, snap, owed>>
  BY DEF DeviceDies
<1>2. /\ d' \in DspState /\ d'.state = d.state /\ d'.dead /\ d'.per = d.per
      /\ d'.xruns = d.xruns
  BY <1>1, Parts DEF DspState
<1>3. /\ d'.fill = 0 /\ d'.room = d.room /\ d'.old = 0 /\ d'.phase = d.phase
      /\ d'.skip = d.skip /\ d'.cap = d.cap /\ d'.trig = d.trig /\ d'.lw = d.lw
  BY <1>1, Parts DEF DspState
<1>4. d.old \in Nat /\ d.room \in Nat BY Parts DEF DspState
<1>5. Stream(d') BY <1>1, <1>2, <1>3, <1>4, Parts DEF Stream, Running
<1>6. Geared(d', port) BY <1>2, Parts DEF Epoch, Geared, Running
<1>7. Accounted(d', port, owed, snap) BY <1>2, Parts DEF Accounted
<1>8. Epoch(d', port, owed', snap) BY <1>1, <1>5, <1>6, <1>7, Parts DEF Epoch
<1> QED BY <1>1, <1>2, <1>3, <1>4, <1>8, AmidKeeps

\* A wake's snapshot is the counter itself.
LEMMA WakeKeeps ==
  ASSUME CaptureInv, Wake
  PROVE  CaptureInv'
<1>1. /\ Running(d) /\ snap' = d.xruns /\ UNCHANGED <<d, io, cyc, node, period, owed>>
      /\ AtRest
  BY DEF Wake
<1>2. PICK lost \in {FALSE, d.dead} : port' = [port EXCEPT !.required = @ \/ lost]
  BY DEF Wake
<1>3. port' \in PortState /\ SameGear(port, port') /\ port'.primed = port.primed
  BY <1>2, Parts DEF PortState, SameGear, DspState
<1>4. Epoch(d, port', owed, snap) BY <1>3, Parts, EpochPort
<1>5. d.xruns \in Counts BY Parts DEF DspState
<1>6. ~d.dead => \E e \in 0..owed : (Base(port') + e) % XrunModulus = d.xruns
  <2> SUFFICES ASSUME ~d.dead PROVE \E e \in 0..owed : (Base(port') + e) % XrunModulus = d.xruns
    OBVIOUS
  <2>1. owed \in Counts /\ (Base(port') + owed) % XrunModulus = d.xruns
    BY <1>1, <1>4 DEF Epoch, Accounted
  <2>2. owed \in 0..owed BY <2>1, CaptureAssumption DEF Counts
  <2> QED BY <2>1, <2>2
<1>7. Accounted(d, port', owed, d.xruns) BY <1>1, <1>4, <1>5, <1>6 DEF Epoch, Accounted
<1>8. Epoch(d', port', owed', snap') BY <1>1, <1>4, <1>7 DEF Epoch
<1>9. Quiet(cyc') BY <1>1, RestQuiet
<1> QED BY <1>1, <1>8, <1>9, Parts, RestKeeps

\* The peer only touches the io area.
LEMMA ConsumesKeeps ==
  ASSUME CaptureInv, HostConsumes
  PROVE  CaptureInv'
<1>1. io' \in [status : {"need", "have", "ok"}, buffer : -1..(NumBuffers - 1)]
  BY Parts, CaptureAssumption DEF HostConsumes
<1>2. Quiet(cyc') BY RestQuiet DEF HostConsumes
<1>3. Epoch(d', port', owed', snap') BY Parts DEF HostConsumes
<1> QED BY <1>1, <1>2, <1>3, Parts, RestKeeps DEF HostConsumes

\* A new quantum is noticed by the next cycle.
LEMMA QuantumKeeps ==
  ASSUME CaptureInv, QuantumChange
  PROVE  CaptureInv'
<1>1. period' \in Nat BY CaptureAssumption DEF QuantumChange
<1>2. Quiet(cyc') BY RestQuiet DEF QuantumChange
<1>3. Epoch(d', port', owed', snap') BY Parts DEF QuantumChange
<1> QED BY <1>1, <1>2, <1>3, Parts, RestKeeps DEF QuantumChange

-----------------------------------------------------------------------------
(* The invariant.                                                          *)

\* The invariant holds before the first command.
LEMMA InitInv == Init => CaptureInv
<1> SUFFICES ASSUME Init PROVE CaptureInv OBVIOUS
<1>1. 0 % Stride = 0 BY CaptureAssumption, ModSmall
<1>2. 0 \in 0..(NumBuffers + 1) /\ CapacityMax \in Nat BY CaptureAssumption, GeometryAssumption
<1>3. port \in PortState /\ port.base = NoFill /\ ~port.primed /\ port.cap = 0
  BY <1>2 DEF Init, NewPort, PortState
<1>4. Stream(Fresh) /\ ~Running(Fresh) BY FreshFact DEF Running
<1>5. Epoch(Fresh, port, 0, NoFill) BY <1>2, <1>3, <1>4, EpochReset
<1>6. cyc \in CycState /\ cyc.out.first = 0 /\ cyc.out.real = 0 /\ cyc.pc = "idle"
  BY CaptureAssumption DEF Init, Idle, NoOutput, CycState
<1>7. Whole(port, cyc) BY <1>6 DEF Whole
<1>8. io \in [status : {"need", "have", "ok"}, buffer : -1..(NumBuffers - 1)]
  BY CaptureAssumption DEF Init
<1> QED BY <1>1, <1>5, <1>6, <1>7, <1>8 DEF Init, CaptureInv

\* Every step of the cycle, of the commands and of the environment keeps it.
LEMMA NextKeeps ==
  ASSUME CaptureInv, [Next]_vars
  PROVE  CaptureInv'
<1>1. CASE Cycle
  BY <1>1, InstalledKeeps, AbortedKeeps, RetriedKeeps, FailedKeeps, ReplacesKeeps, SkipsKeeps,
     NoBlockKeeps, RefusedKeeps, FreewheelKeeps, PrimeKeeps, DiscardKeeps, DoneKeeps,
     EmptyKeeps, ReadKeeps, OverrunKeeps DEF Cycle
<1>2. CASE Command
  BY <1>2, StartKeeps, PauseKeeps, SuspendKeeps, NegotiateKeeps, BuffersKeeps, RegisterKeeps
     DEF Command
<1>3. CASE Environment
  BY <1>3, ArriveKeeps, WakeKeeps, DiesKeeps, ConsumesKeeps, QuantumKeeps DEF Environment
<1>4. CASE UNCHANGED vars
  <2>1. UNCHANGED <<d, port, io, cyc, node, period, snap, owed>> BY <1>4 DEF vars
  <2>2. Epoch(d', port', owed', snap') BY <2>1, Parts
  <2>3. Whole(port', cyc') BY <2>1 DEF CaptureInv, Whole
  <2>4. Discarding(d, cyc) => Discarding(d', cyc') BY <2>1
  <2>5. Running(d) => Running(d') BY <2>1
  <2> QED BY <2>1, <2>2, <2>3, <2>4, <2>5 DEF CaptureInv
<1> QED BY <1>1, <1>2, <1>3, <1>4 DEF Next

\* The ring, the port's geometry, the discard and the overrun account stay
\* sound through every interleaving of cycles (process), commands and the
\* channel behind the descriptor.
THEOREM CaptureInvariance == Spec => []CaptureInv
BY InitInv, NextKeeps, PTL DEF Spec

\* Every variable keeps its type: the ring never holds more than its
\* capacity, the bytes to skip stay below a frame, the counters in range.
THEOREM CaptureTypes == Spec => []TypeOK
<1>1. CaptureInv => TypeOK BY Parts DEF Stream, TypeOK
<1> QED BY <1>1, CaptureInvariance, PTL

\* A published buffer starts at a frame and holds whole ones, and the handle
\* skips exactly the tail of a frame a short read tore (Dsp::read).
THEOREM FramesStayAligned == Spec => []FrameAligned
<1>1. CaptureInv => FrameAligned BY DEF CaptureInv, Epoch, Stream, FrameAligned
<1> QED BY <1>1, CaptureInvariance, PTL

\* A cycle hands the graph a whole period from a running, armed channel that
\* was primed with it (bounded_read, retune_period).
THEOREM PeriodsStayWhole == Spec => []PeriodsAreWhole
<1>1. CaptureInv => PeriodsAreWhole
  BY DEF CaptureInv, Epoch, Stream, Geared, Whole, PeriodsAreWhole
<1> QED BY <1>1, CaptureInvariance, PTL

\* A ring as large as its period requires leaves room for the next delivery
\* above the peak, and the peak is never below the servo's target
\* (capture_fill_targets, capture_buffer_required).
THEOREM PeakLeavesRoom == Spec => []PeakFits
<1>1. CaptureInv => PeakFits
  <2> SUFFICES ASSUME CaptureInv, port.primed, port.setup # 0,
                      port.cap >= capture_buffer_required(port.setup, port.quantum)
               PROVE  port.target <= port.peak /\ port.peak + port.quantum <= port.cap
    BY DEF PeakFits
  <2>1. /\ port.target = capture_fill_targets(port.setup, port.quantum, port.cap).target
        /\ port.peak = capture_fill_targets(port.setup, port.quantum, port.cap).peak
    BY Parts DEF Epoch, Geared
  <2>2. /\ port.setup \in Nat /\ port.quantum \in Nat /\ port.cap \in Nat
        /\ port.cap <= CapacityMax
    BY Parts DEF PortState
  <2> QED BY <2>1, <2>2, FillFits
<1> QED BY <1>1, CaptureInvariance, PTL

\* A prime leaves nothing of the old backlog but what lies below the
\* low-water mark, less than a frame, or what a torn read gave up
\* (prime_capture).
THEOREM BacklogIsDiscarded == Spec => []BacklogDiscarded
<1>1. CaptureInv => BacklogDiscarded
  <2> SUFFICES ASSUME CaptureInv, cyc.pc = "discard", Chunk = 0
               PROVE  d.old < Greatest(d.lw, Stride) \/ d.skip # 0
    BY DEF BacklogDiscarded
  <2>1. Discarding(d, cyc) BY DEF CaptureInv
  <2>2. cyc.backlog < Stride BY ChunkFact
  <2>3. /\ d.old \in Nat /\ d.lw \in Nat /\ Stride \in Nat /\ cyc.backlog \in Nat
    BY Parts, CaptureAssumption DEF DspState, CycState
  <2> QED BY <2>1, <2>2, <2>3 DEF Discarding, Greatest
<1> QED BY <1>1, CaptureInvariance, PTL

\* Every overrun of a live device is reported once, whatever mix of wake
\* snapshots and resetting polls sees it (XrunTracker::observe).
THEOREM XrunsAreAccounted == Spec => []XrunsAccounted
<1>1. CaptureInv => XrunsAccounted
  <2> SUFFICES ASSUME CaptureInv, Running(d), ~d.dead
               PROVE  owed \in Counts /\ (Base(port) + owed) % XrunModulus = d.xruns
    BY DEF XrunsAccounted, Counts, Base
  <2> QED BY Parts DEF Epoch, Accounted
<1> QED BY <1>1, CaptureInvariance, PTL
=============================================================================
