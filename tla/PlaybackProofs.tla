--------------------------- MODULE PlaybackProofs ---------------------------
(***************************************************************************)
(* The playback path queues every byte of a host buffer in its place, ends *)
(* no frame early and keeps the geometry it committed, for every stride,   *)
(* period, buffer size, ring and fragment.                                 *)
(***************************************************************************)
EXTENDS Playback, SequenceTheorems, TLAPS

(* The frame position of the i-th of the bytes r when the stream, behind   *)
(* the last of them, is off bytes into a frame.                            *)
PlaceIn(r, off, i) == (off + Stride * Len(r) - (Len(r) - i) - 1) % Stride

(* Host bytes in their places, each behind the one before it.              *)
Flow(r, off) ==
    \A i \in 1..Len(r) :
        /\ r[i] >= Silent
        /\ r[i] >= 0 => PlaceIn(r, off, i) = r[i] % Stride
        /\ r[i] > 0 /\ i > 1 => r[i - 1] = r[i] - 1

(* The bytes bs may be queued behind r at off bytes into a frame.          *)
Suits(r, off, bs) ==
    \A j \in 1..Len(bs) :
        /\ bs[j] >= Silent
        /\ bs[j] >= 0 => (off + j - 1) % Stride = bs[j] % Stride
        /\ bs[j] > 0 => IF j > 1 THEN bs[j - 1] = bs[j] - 1
                        ELSE r = <<>> \/ r[Len(r)] = bs[j] - 1

(* Byte k of the retained buffer is what comes next behind r.              *)
Fits(r, off, k) ==
    /\ off = k % Stride
    /\ k > 0 => r = <<>> \/ r[Len(r)] = k - 1

(* The writer: a dead or idle channel is empty, an idle one stands at a    *)
(* frame boundary, and the queue, or its shadow, flows.                    *)
Sound(v) ==
    /\ v \in WriterState
    /\ Len(v.ring) <= v.room
    /\ v.room >= 2 * Stride
    /\ v.dead => v.ring = <<>>
    /\ ~Running(v) => v.off = 0 /\ v.ring = <<>> /\ ~v.shadowed
    /\ IF v.shadowed
         THEN /\ \A i \in 1..Len(v.ring) : v.ring[i] = Paused
              /\ ~v.dead => Flow(v.shadow, v.off) /\ Len(v.shadow) <= v.room
         ELSE Flow(v.ring, v.off)

(* What the writer holds of the retained buffer is its accepted prefix.    *)
Owned(v, k) ==
    Running(v) /\ ~v.dead => Fits(IF v.shadowed THEN v.shadow ELSE v.ring, v.off, k)

(* The committed geometry is the one of the period in force, for the ring  *)
(* the kernel granted.                                                     *)
Geared(v, p) ==
    /\ p.target <= p.goal
    /\ Running(v) =>
         /\ p.setup >= Stride /\ p.cap = v.cap /\ v.cap <= CapacityMax
         /\ ~v.dead => v.cap = v.room
         /\ p.goal = playback_target_delay(p.cap, p.setup, p.block, p.setup,
                                           playback_desired_delay(p.setup, Eighths))
         /\ p.min = playback_fill_floor(p.setup, p.block)

(* How many bytes close an open frame.                                     *)
Pad(off) == IF off = 0 THEN 0 ELSE Stride - off

(* A wake's snapshot is at most an open frame's closing silence behind.    *)
Recent(v, s) ==
    s # NoSnapshot => s \in Nat /\ Len(v.ring) + Pad(v.off) <= s + Stride - 1

(* The stream, the port and the snapshot together.                         *)
Core(v, p, s) ==
    /\ Sound(v)
    /\ p \in PortState
    /\ Owned(v, p.offset)
    /\ Geared(v, p)
    /\ Recent(v, s)
    /\ p.after_start /\ Running(v) => v.dead
    /\ s # NoSnapshot => Running(v)

(* The host, the node and the cycle in progress.                           *)
Around ==
    /\ inp \in [status : {"need", "have"}, buffer : Buffers \cup {NoBuffer}, size : Nat]
    /\ cyc \in [pc : {"idle", "prepare", "write"}, from : Nat, retuned : BOOLEAN]
    /\ node \in [started : BOOLEAN, format : BOOLEAN, buffers : BOOLEAN]
    /\ period \in Periods \cup {0}
    /\ w.shadowed => ~node.started /\ ~port.after_start
    /\ snap # NoSnapshot => node.started
    /\ cyc.pc # "idle" => /\ node.started /\ w.state # "closed" /\ ~port.after_start
                          /\ cyc.from = port.offset /\ port.offset < inp.size
    /\ cyc.pc = "write" => Running(w)

(* The inductive invariant.                                                *)
PlaybackInv == Core(w, port, snap) /\ Around

-----------------------------------------------------------------------------
(* Remainders, for any modulus.                                            *)

\* The stride is a positive number of bytes.
LEMMA StrideNat == Stride \in Nat \ {0} /\ Stride \in Nat /\ Stride \in Int /\ Stride >= 1
BY PlaybackAssumption

\* A remainder is smaller than the modulus.
LEMMA ModRange ==
  ASSUME NEW s \in Nat \ {0}, NEW a \in Int
  PROVE  a % s \in 0..(s - 1)
BY Z3

\* What is smaller than the modulus is its own remainder.
LEMMA ModSmall ==
  ASSUME NEW s \in Nat \ {0}, NEW a \in 0..(s - 1)
  PROVE  a % s = a
BY Z3

\* Remainders are unique.
LEMMA ModUnique ==
  ASSUME NEW s \in Nat \ {0}, NEW q \in Int, NEW r \in 0..(s - 1)
  PROVE  (s * q + r) % s = r
BY Z3

\* A number is a multiple of the modulus and its remainder.
LEMMA ModSplit ==
  ASSUME NEW s \in Nat \ {0}, NEW a \in Int
  PROVE  \E q \in Int : a = s * q + (a % s)
<1>1. a % s = a - s * (a \div s) BY SMTT(30)
<1>2. a \div s \in Int BY Z3
<1> DEFINE q == a \div s
           r == a % s
<1>3. s * q \in Int BY <1>2
<1>4. r \in Int BY ModRange
<1> HIDE DEF q, r
<1>5. a = s * q + r BY <1>1, <1>3, <1>4 DEF q, r
<1>6. q \in Int BY <1>2 DEF q
<1> QED BY <1>5, <1>6 DEF r

\* Whole multiples of the modulus do not change a remainder.
LEMMA ModShift ==
  ASSUME NEW s \in Nat \ {0}, NEW a \in Int, NEW k \in Int
  PROVE  (a + s * k) % s = a % s
<1>1. PICK q \in Int : a = s * q + (a % s) BY ModSplit
<1> DEFINE r == a % s
<1>2. r \in 0..(s - 1) BY ModRange
<1> HIDE DEF r
<1>3. s * (q + k) = s * q + s * k BY Z3
<1>4. s * q \in Int /\ s * k \in Int /\ s * (q + k) \in Int OBVIOUS
<1>5. a + s * k = s * (q + k) + r BY <1>1, <1>2, <1>3, <1>4 DEF r
<1>6. (s * (q + k) + r) % s = r BY <1>2, ModUnique
<1> QED BY <1>5, <1>6 DEF r

\* A remainder can be taken before an addition.
LEMMA ModAdd ==
  ASSUME NEW s \in Nat \ {0}, NEW a \in Int, NEW b \in Int
  PROVE  ((a % s) + b) % s = (a + b) % s
<1> DEFINE r == a % s
<1>1. PICK q \in Int : a = s * q + r BY ModSplit
<1>2. r \in Int BY ModRange
<1> HIDE DEF r
<1> DEFINE x == s * q
<1>3. x \in Int OBVIOUS
<1>5. r + b \in Int BY <1>2
<1>6. ((r + b) + x) % s = (r + b) % s BY <1>5, ModShift
<1>7. a = x + r BY <1>1
<1> HIDE DEF x
<1>4. a + b = (r + b) + x BY <1>2, <1>3, <1>7
<1> QED BY <1>4, <1>6 DEF r

\* Whole multiples leave nothing.
LEMMA ModWhole ==
  ASSUME NEW s \in Nat \ {0}, NEW k \in Nat
  PROVE  k - (k % s) \in 0..k /\ (k - (k % s)) % s = 0
<1> DEFINE r == k % s
<1>0. k \in Int OBVIOUS
<1>1. PICK q \in Int : k = s * q + r BY <1>0, ModSplit
<1>2. r \in 0..(s - 1) BY <1>0, ModRange
<1>3. k < s => r = k BY ModSmall
<1> HIDE DEF r
<1>4. s * q \in Int OBVIOUS
<1>5. (s * q + 0) % s = 0 BY ModUnique
<1> DEFINE x == s * q
<1> HIDE DEF x
<1>6. x \in Int /\ k = x + r BY <1>1, <1>4 DEF x
<1>7. k - r = x + 0 BY <1>2, <1>6
<1>8. k - r \in 0..k BY <1>0, <1>2, <1>3
<1> QED BY <1>5, <1>7, <1>8 DEF r, x

\* The remainder of a sum of remainders' rests, the other way round.
LEMMA ModSum ==
  ASSUME NEW s \in Nat \ {0}, NEW a \in Int, NEW b \in Int, a % s = 0
  PROVE  (a + b) % s = b % s
<1>1. ((a % s) + b) % s = (a + b) % s BY ModAdd
<1>2. 0 + b = b OBVIOUS
<1> QED BY <1>1, <1>2

-----------------------------------------------------------------------------
(* Queues.                                                                 *)

\* An empty queue flows, wherever the stream stands.
LEMMA FlowEmpty == \A off : Flow(<<>>, off)
BY DEF Flow

\* A byte's frame position counts back from the stream's.
LEMMA PlaceMod ==
  ASSUME NEW r \in Seq(Int), NEW off \in Int, NEW i \in Int
  PROVE  PlaceIn(r, off, i) = (off - (Len(r) - i) - 1) % Stride
<1> DEFINE a == off - (Len(r) - i) - 1
           x == Stride * Len(r)
<1>1. Stride \in Nat \ {0} /\ Stride \in Int BY StrideNat
<1>2. Len(r) \in Nat /\ Len(r) \in Int OBVIOUS
<1>3. a \in Int BY <1>2
<1>4. x \in Int BY <1>1, <1>2
<1>5. (a + x) % Stride = a % Stride BY <1>1, <1>2, <1>3, ModShift
<1> HIDE DEF x
<1>6. off + x - (Len(r) - i) - 1 = a + x BY <1>2, <1>4
<1> QED BY <1>5, <1>6 DEF PlaceIn, x

\* The bytes of a prefix.
LEMMA Prefix ==
  ASSUME NEW bs \in Seq(Int), NEW n \in 0..Len(bs)
  PROVE  /\ SubSeq(bs, 1, n) \in Seq(Int)
         /\ Len(SubSeq(bs, 1, n)) = n
         /\ \A j \in 1..n : SubSeq(bs, 1, n)[j] = bs[j]
OBVIOUS

\* The bytes of a suffix.
LEMMA Suffix ==
  ASSUME NEW bs \in Seq(Int), NEW n \in 0..Len(bs)
  PROVE  /\ SubSeq(bs, n + 1, Len(bs)) \in Seq(Int)
         /\ Len(SubSeq(bs, n + 1, Len(bs))) = Len(bs) - n
         /\ \A j \in 1..(Len(bs) - n) : SubSeq(bs, n + 1, Len(bs))[j] = bs[n + j]
OBVIOUS

\* The bytes of two queues put together.
LEMMA Joined ==
  ASSUME NEW r \in Seq(Int), NEW p \in Seq(Int)
  PROVE  /\ r \o p \in Seq(Int)
         /\ Len(r \o p) = Len(r) + Len(p)
         /\ \A i \in 1..Len(r) : (r \o p)[i] = r[i]
         /\ \A j \in 1..Len(p) : (r \o p)[Len(r) + j] = p[j]
<1>1. Len(r) \in Nat /\ Len(p) \in Nat OBVIOUS
<1>2. r \o p \in Seq(Int) OBVIOUS
<1>3. Len(r \o p) = Len(r) + Len(p) OBVIOUS
<1>4. ASSUME NEW i \in 1..Len(r) PROVE (r \o p)[i] = r[i] OBVIOUS
<1>5. ASSUME NEW j \in 1..Len(p) PROVE (r \o p)[Len(r) + j] = p[j] OBVIOUS
<1> QED BY <1>2, <1>3, <1>4, <1>5

\* The bytes of a queue with a prefix of bs behind it.
LEMMA Queued ==
  ASSUME NEW r \in Seq(Int), NEW bs \in Seq(Int), NEW n \in 0..Len(bs)
  PROVE  LET q == r \o SubSeq(bs, 1, n)
         IN  /\ q \in Seq(Int)
             /\ Len(q) = Len(r) + n
             /\ \A i \in 1..Len(r) : q[i] = r[i]
             /\ \A j \in 1..n : q[Len(r) + j] = bs[j]
<1> DEFINE p == SubSeq(bs, 1, n)
<1>1. p \in Seq(Int) /\ Len(p) = n /\ \A j \in 1..n : p[j] = bs[j]
  BY Prefix
<1> HIDE DEF p
<1> DEFINE q == r \o p
<1>2. /\ q \in Seq(Int) /\ Len(q) = Len(r) + Len(p)
      /\ \A i \in 1..Len(r) : q[i] = r[i]
      /\ \A j \in 1..Len(p) : q[Len(r) + j] = p[j]
  BY <1>1, Joined
<1> HIDE DEF q
<1>3. \A j \in 1..n : q[Len(r) + j] = bs[j]
  BY <1>1, <1>2
<1>4. Len(q) = Len(r) + n
  BY <1>1, <1>2
<1> QED BY <1>2, <1>3, <1>4 DEF p, q

\* Queueing bytes that suit keeps the queue flowing.
LEMMA FlowAppend ==
  ASSUME NEW r \in Seq(Int), NEW bs \in Seq(Int), NEW n \in 0..Len(bs),
         NEW off \in 0..(Stride - 1), Flow(r, off), Suits(r, off, bs)
  PROVE  Flow(r \o SubSeq(bs, 1, n), (off + n) % Stride)
<1> DEFINE q == r \o SubSeq(bs, 1, n)
           L == Len(r)
           new == (off + n) % Stride
<1>1. /\ q \in Seq(Int) /\ Len(q) = L + n /\ L \in Nat /\ n \in Nat
      /\ \A i \in 1..L : q[i] = r[i]
      /\ \A j \in 1..n : q[L + j] = bs[j]
  BY Queued
<1>2. off + n \in Int /\ Stride \in Nat \ {0} /\ off \in Int /\ Stride \in Int
      /\ Len(bs) \in Nat
  BY <1>1, StrideNat
<1>3. new \in Int
  BY <1>2, ModRange
<1>4. \A b \in Int : (new + b) % Stride = (off + n + b) % Stride
  BY <1>2, ModAdd
<1> HIDE DEF new, q
<1>5. ASSUME NEW i \in 1..(L + n)
      PROVE  PlaceIn(q, new, i) = (off + i - L - 1) % Stride
  <2> DEFINE b == i - L - n - 1
  <2>1. i \in Int /\ b \in Int BY <1>1
  <2>2. PlaceIn(q, new, i) = (new - (Len(q) - i) - 1) % Stride
    BY <1>1, <1>3, <2>1, PlaceMod
  <2>3. new - (Len(q) - i) - 1 = new + b BY <1>1, <1>3, <2>1
  <2>4. off + n + b = off + i - L - 1 BY <1>1, <1>2, <2>1
  <2>5. (new + b) % Stride = (off + n + b) % Stride BY <1>4, <2>1
  <2> QED BY <2>2, <2>3, <2>4, <2>5
<1>6. ASSUME NEW i \in 1..L
      PROVE  PlaceIn(q, new, i) = PlaceIn(r, off, i)
  <2>1. i \in 1..(L + n) /\ i \in Int BY <1>1
  <2>2. PlaceIn(r, off, i) = (off - (L - i) - 1) % Stride
    BY <1>2, <2>1, PlaceMod
  <2>3. off - (L - i) - 1 = off + i - L - 1 BY <1>1, <1>2, <2>1
  <2> QED BY <1>5, <2>1, <2>2, <2>3
<1>7. ASSUME NEW j \in 1..n
      PROVE  PlaceIn(q, new, L + j) = (off + j - 1) % Stride
  <2>1. L + j \in 1..(L + n) /\ off + (L + j) - L - 1 = off + j - 1 BY <1>1, <1>2
  <2> QED BY <1>5, <2>1
<1>8. ASSUME NEW i \in 1..L
      PROVE  /\ q[i] >= Silent
             /\ q[i] >= 0 => PlaceIn(q, new, i) = q[i] % Stride
             /\ q[i] > 0 /\ i > 1 => q[i - 1] = q[i] - 1
  <2>1. /\ r[i] >= Silent
        /\ r[i] >= 0 => PlaceIn(r, off, i) = r[i] % Stride
        /\ r[i] > 0 /\ i > 1 => r[i - 1] = r[i] - 1
    BY DEF Flow
  <2>2. q[i] = r[i] BY <1>1
  <2>3. i > 1 => q[i - 1] = r[i - 1]
    <3>1. i > 1 => i - 1 \in 1..L BY <1>1
    <3> QED BY <1>1, <3>1
  <2> QED BY <1>6, <2>1, <2>2, <2>3
<1>9. ASSUME NEW j \in 1..n
      PROVE  /\ q[L + j] >= Silent
             /\ q[L + j] >= 0 => PlaceIn(q, new, L + j) = q[L + j] % Stride
             /\ q[L + j] > 0 /\ L + j > 1 => q[L + j - 1] = q[L + j] - 1
  <2>0. j \in 1..Len(bs) /\ j \in Int BY <1>1, <1>2
  <2>1. /\ bs[j] >= Silent
        /\ bs[j] >= 0 => (off + j - 1) % Stride = bs[j] % Stride
        /\ bs[j] > 0 => IF j > 1 THEN bs[j - 1] = bs[j] - 1
                        ELSE r = <<>> \/ r[Len(r)] = bs[j] - 1
    BY <2>0 DEF Suits
  <2>2. q[L + j] = bs[j] BY <1>1
  <2>3. CASE j > 1
    <3>1. q[L + j - 1] = bs[j - 1]
      <4>1. j - 1 \in 1..n /\ L + (j - 1) = L + j - 1 BY <1>1, <2>0, <2>3
      <4>2. q[L + (j - 1)] = bs[j - 1] BY <1>1, <4>1
      <4> QED BY <4>1, <4>2
    <3> QED BY <1>7, <2>1, <2>2, <2>3, <3>1
  <2>4. CASE j = 1
    <3>1. CASE L = 0
      <4>1. ~(L + j > 1) BY <2>4, <3>1
      <4> QED BY <1>7, <2>1, <2>2, <4>1
    <3>2. CASE L > 0
      <4>1. r # <<>> BY <3>2
      <4>2. L \in 1..L /\ L + j - 1 = L BY <1>1, <2>4, <3>2
      <4>3. q[L + j - 1] = r[L] BY <1>1, <4>2
      <4>4. bs[j] > 0 => r[L] = bs[j] - 1 BY <2>1, <2>4, <4>1
      <4> QED BY <1>7, <2>1, <2>2, <4>3, <4>4
    <3> QED BY <1>1, <3>1, <3>2
  <2> QED BY <2>0, <2>3, <2>4
<1> DEFINE Good(k) == /\ q[k] >= Silent
                      /\ q[k] >= 0 => PlaceIn(q, new, k) = q[k] % Stride
                      /\ q[k] > 0 /\ k > 1 => q[k - 1] = q[k] - 1
<1>10. /\ \A i \in 1..L : Good(i)
       /\ \A j \in 1..n : Good(L + j)
  BY <1>8, <1>9
<1> HIDE DEF Good
<1>11. ASSUME NEW i \in 1..Len(q)
       PROVE  Good(i)
  <2>0. i \in Int /\ i <= L + n /\ i >= 1 BY <1>1
  <2>1. CASE i <= L
    <3>1. i \in 1..L BY <1>1, <2>0, <2>1
    <3> QED BY <1>10, <3>1
  <2>2. CASE i > L
    <3>1. i - L \in 1..n /\ L + (i - L) = i BY <1>1, <2>0, <2>2
    <3> QED BY <1>10, <3>1
  <2> QED BY <1>1, <2>0, <2>1, <2>2
<1>12. Flow(q, new)
  BY <1>11 DEF Flow, Good
<1> QED BY <1>12 DEF q, new

\* What is left of the bytes suits what has been queued of them.
LEMMA SuitsRest ==
  ASSUME NEW r \in Seq(Int), NEW bs \in Seq(Int), NEW n \in 0..Len(bs),
         NEW off \in 0..(Stride - 1), Suits(r, off, bs)
  PROVE  Suits(r \o SubSeq(bs, 1, n), (off + n) % Stride, SubSeq(bs, n + 1, Len(bs)))
<1> DEFINE q == r \o SubSeq(bs, 1, n)
           L == Len(r)
           new == (off + n) % Stride
           rest == SubSeq(bs, n + 1, Len(bs))
<1>1. /\ q \in Seq(Int) /\ Len(q) = L + n /\ L \in Nat /\ n \in Nat
      /\ \A i \in 1..L : q[i] = r[i]
      /\ \A j \in 1..n : q[L + j] = bs[j]
  BY Queued
<1>2. rest \in Seq(Int) /\ Len(rest) = Len(bs) - n
      /\ \A j \in 1..(Len(bs) - n) : rest[j] = bs[n + j]
  BY Suffix
<1>3. off + n \in Int /\ Stride \in Nat \ {0} /\ off \in Int /\ Len(bs) \in Nat
      /\ Stride \in Int
  BY <1>1, StrideNat
<1>4. new \in Int BY <1>3, ModRange
<1>5. \A b \in Int : (new + b) % Stride = (off + n + b) % Stride
  BY <1>3, ModAdd
<1> HIDE DEF q, rest, new
<1>6. ASSUME NEW j \in 1..Len(rest)
      PROVE  /\ rest[j] >= Silent
             /\ rest[j] >= 0 => (new + j - 1) % Stride = rest[j] % Stride
             /\ rest[j] > 0 => IF j > 1 THEN rest[j - 1] = rest[j] - 1
                               ELSE q = <<>> \/ q[Len(q)] = rest[j] - 1
  <2>0. j \in Int /\ j \in 1..(Len(bs) - n) /\ n + j \in 1..Len(bs) BY <1>1, <1>2, <1>3
  <2>1. rest[j] = bs[n + j]
    BY <1>2, <2>0
  <2>2. /\ bs[n + j] >= Silent
        /\ bs[n + j] >= 0 => (off + (n + j) - 1) % Stride = bs[n + j] % Stride
        /\ bs[n + j] > 0 => IF n + j > 1 THEN bs[n + j - 1] = bs[n + j] - 1
                            ELSE r = <<>> \/ r[Len(r)] = bs[n + j] - 1
    BY <2>0 DEF Suits
  <2>3. (new + (j - 1)) % Stride = (off + n + (j - 1)) % Stride
    <3>1. j - 1 \in Int BY <2>0
    <3> QED BY <1>5, <3>1
  <2>4. new + (j - 1) = new + j - 1 /\ off + n + (j - 1) = off + (n + j) - 1
    BY <1>1, <1>3, <1>4, <2>0
  <2>5. (new + j - 1) % Stride = (off + (n + j) - 1) % Stride
    BY <2>3, <2>4
  <2>6. CASE j > 1
    <3>1. j - 1 \in 1..(Len(bs) - n) /\ n + (j - 1) = n + j - 1 /\ n + j > 1
      BY <1>1, <1>3, <2>0, <2>6
    <3>2. rest[j - 1] = bs[n + (j - 1)] BY <1>2, <3>1
    <3> QED BY <2>1, <2>2, <2>5, <2>6, <3>1, <3>2
  <2>7. CASE j = 1 /\ n > 0
    <3>1. n \in 1..n /\ n + j - 1 = n /\ n + j > 1 BY <1>1, <2>7
    <3>2. q[L + n] = bs[n] BY <1>1, <3>1
    <3>3. q[Len(q)] = bs[n] BY <1>1, <3>2
    <3>4. bs[n + j] > 0 => bs[n] = bs[n + j] - 1 BY <2>2, <3>1
    <3>5. ~(j > 1) BY <2>7
    <3>6. rest[j] > 0 => IF j > 1 THEN rest[j - 1] = rest[j] - 1
                         ELSE q = <<>> \/ q[Len(q)] = rest[j] - 1
      BY <2>1, <3>3, <3>4, <3>5
    <3>7. rest[j] >= Silent /\ (rest[j] >= 0 => (new + j - 1) % Stride = rest[j] % Stride)
      BY <2>1, <2>2, <2>5
    <3> QED BY <3>6, <3>7
  <2>8. CASE j = 1 /\ n = 0
    <3>1. Len(q) = L BY <1>1, <2>8
    <3>2. r = <<>> => q = <<>> BY <1>1, <3>1
    <3>3. r # <<>> => q[Len(q)] = r[L]
      <4>1. r # <<>> => L \in 1..L BY <1>1
      <4> QED BY <1>1, <3>1, <4>1
    <3>4. n + j = 1 BY <2>8
    <3>5. ~(j > 1) /\ ~(n + j > 1) BY <2>8
    <3>6. bs[n + j] > 0 => q = <<>> \/ q[Len(q)] = bs[n + j] - 1
      BY <2>2, <3>2, <3>3, <3>5
    <3>7. rest[j] > 0 => IF j > 1 THEN rest[j - 1] = rest[j] - 1
                         ELSE q = <<>> \/ q[Len(q)] = rest[j] - 1
      BY <2>1, <3>5, <3>6
    <3>8. rest[j] >= Silent /\ (rest[j] >= 0 => (new + j - 1) % Stride = rest[j] % Stride)
      BY <2>1, <2>2, <2>5
    <3> QED BY <3>7, <3>8
  <2> QED BY <1>1, <2>0, <2>6, <2>7, <2>8
<1>7. Suits(q, new, rest)
  BY <1>6 DEF Suits
<1> QED BY <1>7 DEF q, rest, new

\* A prefix of what suits suits.
LEMMA SuitsPrefix ==
  ASSUME NEW r \in Seq(Int), NEW bs \in Seq(Int), NEW n \in 0..Len(bs),
         NEW off, Suits(r, off, bs)
  PROVE  Suits(r, off, SubSeq(bs, 1, n))
<1> DEFINE p == SubSeq(bs, 1, n)
<1>1. p \in Seq(Int) /\ Len(p) = n /\ \A j \in 1..n : p[j] = bs[j]
  BY Prefix
<1> HIDE DEF p
<1>2. ASSUME NEW j \in 1..Len(p)
      PROVE  /\ p[j] >= Silent
             /\ p[j] >= 0 => (off + j - 1) % Stride = p[j] % Stride
             /\ p[j] > 0 => IF j > 1 THEN p[j - 1] = p[j] - 1
                            ELSE r = <<>> \/ r[Len(r)] = p[j] - 1
  <2>1. j \in 1..Len(bs) /\ j \in 1..n /\ p[j] = bs[j] BY <1>1
  <2>2. j > 1 => j - 1 \in 1..n BY <2>1
  <2>3. j > 1 => p[j - 1] = bs[j - 1] BY <1>1, <2>2
  <2>4. /\ bs[j] >= Silent
        /\ bs[j] >= 0 => (off + j - 1) % Stride = bs[j] % Stride
        /\ bs[j] > 0 => IF j > 1 THEN bs[j - 1] = bs[j] - 1
                        ELSE r = <<>> \/ r[Len(r)] = bs[j] - 1
    BY <2>1 DEF Suits
  <2> QED BY <2>1, <2>3, <2>4
<1>3. Suits(r, off, p)
  BY <1>2 DEF Suits
<1> QED BY <1>3 DEF p

\* Bytes that leave the front of a queue leave the rest flowing.
LEMMA FlowDrop ==
  ASSUME NEW r \in Seq(Int), NEW n \in 0..Len(r), NEW off \in 0..(Stride - 1)
  PROVE  LET q == SubSeq(r, n + 1, Len(r))
         IN  /\ q \in Seq(Int) /\ Len(q) = Len(r) - n
             /\ \A i \in 1..(Len(r) - n) : q[i] = r[n + i]
             /\ Flow(r, off) => Flow(q, off)
             /\ \A bs : Suits(r, off, bs) => Suits(q, off, bs)
             /\ \A k \in Nat : Fits(r, off, k) => Fits(q, off, k)
<1> DEFINE q == SubSeq(r, n + 1, Len(r))
           L == Len(r)
<1>1. /\ q \in Seq(Int) /\ Len(q) = L - n /\ L \in Nat /\ n \in Nat
      /\ \A i \in 1..(L - n) : q[i] = r[n + i]
  <2>1. L \in Nat /\ n \in Nat OBVIOUS
  <2> QED BY <2>1, Suffix
<1>2. Stride \in Nat \ {0} /\ Stride \in Int /\ off \in Int
  BY StrideNat
<1> HIDE DEF q
<1>5. ASSUME NEW i \in 1..(L - n)
      PROVE  PlaceIn(q, off, i) = PlaceIn(r, off, n + i)
  <2>1. i \in Int /\ n + i \in Int BY <1>1
  <2>2. PlaceIn(q, off, i) = (off - (Len(q) - i) - 1) % Stride
    BY <1>1, <1>2, <2>1, PlaceMod
  <2>3. PlaceIn(r, off, n + i) = (off - (Len(r) - (n + i)) - 1) % Stride
    BY <1>1, <1>2, <2>1, PlaceMod
  <2>4. off - (Len(q) - i) - 1 = off - (Len(r) - (n + i)) - 1
    BY <1>1, <1>2, <2>1
  <2> QED BY <2>2, <2>3, <2>4
<1>6. ASSUME Flow(r, off)
      PROVE  Flow(q, off)
  <2>1. ASSUME NEW i \in 1..Len(q)
        PROVE  /\ q[i] >= Silent
               /\ q[i] >= 0 => PlaceIn(q, off, i) = q[i] % Stride
               /\ q[i] > 0 /\ i > 1 => q[i - 1] = q[i] - 1
    <3>1. i \in 1..(L - n) /\ n + i \in 1..L /\ q[i] = r[n + i] BY <1>1
    <3>2. /\ r[n + i] >= Silent
          /\ r[n + i] >= 0 => PlaceIn(r, off, n + i) = r[n + i] % Stride
          /\ r[n + i] > 0 /\ n + i > 1 => r[n + i - 1] = r[n + i] - 1
      BY <1>6, <3>1 DEF Flow
    <3>3. i > 1 => i - 1 \in 1..(L - n) /\ n + (i - 1) = n + i - 1 /\ n + i > 1
      BY <1>1, <3>1
    <3>4. i > 1 => q[i - 1] = r[n + (i - 1)]
      BY <1>1, <3>3
    <3> QED BY <1>5, <3>1, <3>2, <3>3, <3>4
  <2> QED BY <2>1 DEF Flow
<1>7. q # <<>> => r # <<>> /\ q[Len(q)] = r[Len(r)]
  <2>1. q # <<>> => L - n \in 1..(L - n) /\ n + (L - n) = L /\ L > 0 BY <1>1
  <2>2. q # <<>> => q[L - n] = r[n + (L - n)] BY <1>1, <2>1
  <2>3. L > 0 => r # <<>> OBVIOUS
  <2> QED BY <1>1, <2>1, <2>2, <2>3
<1>8. \A bs : Suits(r, off, bs) => Suits(q, off, bs)
  BY <1>7 DEF Suits
<1>9. \A k \in Nat : Fits(r, off, k) => Fits(q, off, k)
  BY <1>7 DEF Fits
<1> QED BY <1>1, <1>6, <1>8, <1>9 DEF q

-----------------------------------------------------------------------------
(* The writer's operations.                                                *)

(* The writer can be handed the bytes bs.                                  *)
Able(v, bs) ==
    /\ Sound(v) /\ v.state # "closed" /\ ~v.shadowed
    /\ bs \in Seq(Int)
    /\ ~v.dead => Suits(v.ring, v.off, bs)

(* What a write of bs that took n bytes makes of v: the frame phase has    *)
(* moved by what was taken, and the rest of bs still suits.                *)
Wrote(v, u, bs, n) ==
    /\ n \in 0..Len(bs)
    /\ Able(u, SubSeq(bs, n + 1, Len(bs)))
    /\ Running(u)
    /\ u.room = v.room /\ u.cap = v.cap
    /\ ~u.dead => ~v.dead /\ u.off = (v.off + n) % Stride
    /\ Len(u.ring) <= Len(v.ring) + n

\* The fields of a writer have their types.
LEMMA WriterFields ==
  ASSUME NEW v \in WriterState
  PROVE  /\ v.state \in {"closed", "setup", "running"} /\ v.off \in 0..(Stride - 1)
         /\ v.ring \in Seq(Int) /\ v.shadow \in Seq(Int) /\ Len(v.ring) \in Nat
         /\ v.room \in Nat /\ v.cap \in Nat /\ v.block \in Nat /\ v.per \in Nat
         /\ v.mism \in 0..2 /\ v.off \in Int /\ v.off \in Nat /\ v.off < Stride
         /\ v.trig \in BOOLEAN /\ v.shadowed \in BOOLEAN /\ v.on \in BOOLEAN
         /\ v.xr \in BOOLEAN /\ v.dead \in BOOLEAN
<1>1. Stride \in Nat BY StrideNat
<1> QED BY <1>1 DEF WriterState

\* A stream that has begun is running, and otherwise as it was.
LEMMA BegunFact ==
  ASSUME NEW v, Sound(v), v.state # "closed"
  PROVE  LET b == Begun(v)
         IN  /\ Sound(b) /\ Running(b)
             /\ b.state = "running" /\ b.off = v.off /\ b.ring = v.ring
             /\ b.room = v.room /\ b.cap = v.cap /\ b.dead = v.dead
             /\ b.shadowed = v.shadowed /\ b.trig = v.trig /\ b.on = v.on
<1> DEFINE b == Begun(v)
<1>1. v \in WriterState BY DEF Sound
<1>2. b \in WriterState BY <1>1 DEF Begun, WriterState
<1>3. /\ b.state = "running" /\ b.off = v.off /\ b.ring = v.ring
      /\ b.room = v.room /\ b.cap = v.cap /\ b.dead = v.dead
      /\ b.shadowed = v.shadowed /\ b.trig = v.trig /\ b.on = v.on
      /\ b.shadow = v.shadow
  BY <1>1 DEF Begun, WriterState
<1> HIDE DEF b
<1>4. Sound(b) /\ Running(b)
  BY <1>2, <1>3 DEF Sound, Running
<1> QED BY <1>3, <1>4 DEF b

\* A stream that has begun can be handed the same bytes.
LEMMA BegunAble ==
  ASSUME NEW v, NEW bs, Able(v, bs)
  PROVE  Able(Begun(v), bs)
<1>1. Sound(v) /\ v.state # "closed" BY DEF Able
<1>2. /\ Sound(Begun(v)) /\ Begun(v).state # "closed" /\ Begun(v).off = v.off
      /\ Begun(v).ring = v.ring /\ Begun(v).dead = v.dead
      /\ Begun(v).shadowed = v.shadowed
  BY <1>1, BegunFact
<1> QED BY <1>2 DEF Able

\* The fields of a writer that was pushed to.
LEMMA PushFields ==
  ASSUME NEW v \in WriterState, NEW bs \in Seq(Int), NEW n \in 0..Len(bs)
  PROVE  LET u == Push(v, bs, n)
         IN  /\ u \in WriterState
             /\ u.state = v.state /\ u.room = v.room /\ u.cap = v.cap
             /\ u.shadowed = v.shadowed /\ u.dead = v.dead
             /\ u.ring = v.ring \o SubSeq(bs, 1, n)
             /\ u.off = (v.off + n) % Stride
             /\ Len(u.ring) = Len(v.ring) + n
<1> DEFINE u == Push(v, bs, n)
           q == v.ring \o SubSeq(bs, 1, n)
           o == (v.off + n) % Stride
           x == v.on \/ (n > 0 /\ ~v.trig)
<1>1. v.ring \in Seq(Int) /\ v.off \in Int /\ n \in Int BY WriterFields
<1>2. q \in Seq(Int) /\ Len(q) = Len(v.ring) + n BY <1>1, Queued
<1>3. o \in 0..(Stride - 1)
  <2>1. v.off + n \in Int BY <1>1
  <2> QED BY <2>1, StrideNat, ModRange
<1>4. x \in BOOLEAN BY Zenon
<1>5. u = [v EXCEPT !.ring = q, !.off = o, !.on = x] BY DEF Push
<1> HIDE DEF u, q, o, x
<1>6. u \in WriterState BY <1>2, <1>3, <1>4, <1>5 DEF WriterState
<1>7. /\ u.state = v.state /\ u.room = v.room /\ u.cap = v.cap
      /\ u.shadowed = v.shadowed /\ u.dead = v.dead
      /\ u.ring = q /\ u.off = o
  BY <1>5 DEF WriterState
<1> QED BY <1>2, <1>6, <1>7 DEF u, q, o

\* Bytes that suit and fit are taken.
LEMMA PushFact ==
  ASSUME NEW v, NEW all, Able(v, all), Running(v), ~v.dead,
         NEW bs \in Seq(Int), NEW n \in 0..Len(bs), n <= Len(all), n <= Free(v),
         SubSeq(bs, 1, n) = SubSeq(all, 1, n)
  PROVE  Wrote(v, Push(v, bs, n), all, n)
<1> DEFINE u == Push(v, bs, n)
           rest == SubSeq(all, n + 1, Len(all))
<1>1. /\ v \in WriterState /\ Len(v.ring) <= v.room /\ v.room >= 2 * Stride
      /\ Flow(v.ring, v.off) /\ ~v.shadowed /\ all \in Seq(Int)
      /\ Suits(v.ring, v.off, all) /\ v.state = "running"
  BY DEF Able, Sound, Running
<1>2. /\ u \in WriterState
      /\ u.state = v.state /\ u.room = v.room /\ u.cap = v.cap
      /\ u.shadowed = v.shadowed /\ u.dead = v.dead
      /\ u.ring = v.ring \o SubSeq(bs, 1, n)
      /\ u.off = (v.off + n) % Stride
      /\ Len(u.ring) = Len(v.ring) + n
  BY <1>1, PushFields
<1> HIDE DEF u
<1>3. v.ring \in Seq(Int) /\ v.off \in 0..(Stride - 1) /\ Len(v.ring) \in Nat
      /\ v.room \in Nat
  BY <1>1, WriterFields
<1>4. n \in 0..Len(all) /\ n \in Nat BY <1>1
<1>5. Flow(u.ring, u.off)
  BY <1>1, <1>2, <1>3, <1>4, FlowAppend
<1>6. Suits(u.ring, u.off, rest)
  BY <1>1, <1>2, <1>3, <1>4, SuitsRest
<1>7. rest \in Seq(Int) BY <1>1, <1>4, Suffix
<1>8. Len(u.ring) <= u.room BY <1>2, <1>3, <1>4 DEF Free
<1> HIDE DEF rest
<1>9. Sound(u) BY <1>1, <1>2, <1>5, <1>8 DEF Sound, Running
<1>10. Able(u, rest) BY <1>1, <1>2, <1>6, <1>7, <1>9 DEF Able
<1>11. Len(u.ring) <= Len(v.ring) + n
  <2>1. Len(u.ring) = Len(v.ring) + n BY <1>2
  <2> QED BY <1>3, <1>4, <2>1
<1>12. Running(u) BY <1>1, <1>2 DEF Running
<1>13. n \in 0..Len(all) /\ Able(u, SubSeq(all, n + 1, Len(all)))
  BY <1>4, <1>10 DEF rest
<1> QED BY <1>2, <1>11, <1>12, <1>13 DEF Wrote, u

\* What the channel plays leaves the rest of the queue as it was.
LEMMA DrainFact ==
  ASSUME NEW v, Sound(v), ~v.shadowed, NEW d \in 0..Len(v.ring)
  PROVE  LET u == Drained(v, d)
         IN  /\ Sound(u) /\ Len(u.ring) = Len(v.ring) - d
             /\ u.state = v.state /\ u.room = v.room /\ u.cap = v.cap
             /\ u.shadowed = v.shadowed /\ u.dead = v.dead /\ u.off = v.off
             /\ \A bs : Suits(v.ring, v.off, bs) => Suits(u.ring, u.off, bs)
             /\ \A k \in Nat : Fits(v.ring, v.off, k) => Fits(u.ring, u.off, k)
<1> DEFINE u == Drained(v, d)
           q == SubSeq(v.ring, d + 1, Len(v.ring))
<1>1. /\ v \in WriterState /\ Len(v.ring) <= v.room /\ v.room >= 2 * Stride
      /\ Flow(v.ring, v.off) /\ v.ring \in Seq(Int) /\ v.off \in 0..(Stride - 1)
      /\ Len(v.ring) \in Nat /\ v.room \in Nat
  BY WriterFields DEF Sound
<1>2. /\ q \in Seq(Int) /\ Len(q) = Len(v.ring) - d
      /\ Flow(v.ring, v.off) => Flow(q, v.off)
      /\ \A bs : Suits(v.ring, v.off, bs) => Suits(q, v.off, bs)
      /\ \A k \in Nat : Fits(v.ring, v.off, k) => Fits(q, v.off, k)
  BY <1>1, FlowDrop
<1>3. u = [v EXCEPT !.ring = q] BY DEF Drained
<1> HIDE DEF u, q
<1>4. u \in WriterState BY <1>1, <1>2, <1>3 DEF WriterState
<1>5. /\ u.state = v.state /\ u.room = v.room /\ u.cap = v.cap
      /\ u.shadowed = v.shadowed /\ u.dead = v.dead /\ u.off = v.off
      /\ u.ring = q
  BY <1>1, <1>3 DEF WriterState
<1>6. Len(q) <= u.room /\ Len(q) \in Nat BY <1>1, <1>2, <1>5
<1>7. v.ring = <<>> => q = <<>> BY <1>1, <1>2
<1>8. Sound(u)
  BY <1>1, <1>2, <1>4, <1>5, <1>6, <1>7 DEF Sound, Running
<1> QED BY <1>2, <1>5, <1>8 DEF u

\* The least of two numbers.
LEMMA LeastFact ==
  ASSUME NEW a \in Int, NEW b \in Int
  PROVE  /\ Least(a, b) \in Int /\ Least(a, b) <= a /\ Least(a, b) <= b
         /\ Least(a, b) = a \/ Least(a, b) = b
         /\ a \in Nat /\ b \in Nat => Least(a, b) \in Nat
BY DEF Least

\* A writer after nothing was taken.
LEMMA WroteNothing ==
  ASSUME NEW v, NEW u, NEW bs, Able(v, bs), Running(u), u.room = v.room, u.cap = v.cap,
         u.dead = v.dead, u.off = v.off, u.ring = v.ring, Able(u, bs)
  PROVE  Wrote(v, u, bs, 0)
<1>1. bs \in Seq(Int) /\ v \in WriterState /\ v.off \in 0..(Stride - 1)
      /\ v.ring \in Seq(Int)
  BY WriterFields DEF Able, Sound
<1>2. SubSeq(bs, 0 + 1, Len(bs)) = bs BY <1>1
<1>3. 0 \in 0..Len(bs) /\ Len(v.ring) <= Len(v.ring) + 0 BY <1>1
<1>4. (v.off + 0) % Stride = v.off
  <2>1. v.off + 0 = v.off BY <1>1, StrideNat
  <2> QED BY <1>1, <2>1, StrideNat, ModSmall
<1> QED BY <1>2, <1>3, <1>4 DEF Wrote

\* The suffix of a suffix.
LEMMA RestOfRest ==
  ASSUME NEW bs \in Seq(Int), NEW n \in 0..Len(bs), NEW m \in 0..(Len(bs) - n)
  PROVE  LET rest == SubSeq(bs, n + 1, Len(bs))
         IN  SubSeq(rest, m + 1, Len(rest)) = SubSeq(bs, (n + m) + 1, Len(bs))
<1> DEFINE rest == SubSeq(bs, n + 1, Len(bs))
           x == SubSeq(rest, m + 1, Len(rest))
           y == SubSeq(bs, (n + m) + 1, Len(bs))
<1>1. rest \in Seq(Int) /\ Len(rest) = Len(bs) - n
      /\ \A j \in 1..(Len(bs) - n) : rest[j] = bs[n + j]
  BY Suffix
<1>2. n \in Nat /\ m \in Nat /\ Len(bs) \in Nat /\ n + m \in 0..Len(bs) OBVIOUS
<1>3. y \in Seq(Int) /\ Len(y) = Len(bs) - (n + m)
      /\ \A j \in 1..(Len(bs) - (n + m)) : y[j] = bs[(n + m) + j]
  BY <1>2, Suffix
<1> HIDE DEF rest
<1>4. m \in 0..Len(rest) BY <1>1, <1>2
<1>5. x \in Seq(Int) /\ Len(x) = Len(rest) - m
      /\ \A j \in 1..(Len(rest) - m) : x[j] = rest[m + j]
  BY <1>1, <1>4, Suffix
<1> HIDE DEF x, y
<1>6. Len(x) = Len(y) BY <1>1, <1>2, <1>3, <1>5
<1>7. ASSUME NEW j \in 1..Len(x) PROVE x[j] = y[j]
  <2>1. /\ j \in Int /\ j \in 1..(Len(rest) - m) /\ j \in 1..(Len(bs) - (n + m))
        /\ m + j \in 1..(Len(bs) - n) /\ n + (m + j) = (n + m) + j
    BY <1>1, <1>2, <1>5
  <2>2. x[j] = rest[m + j] BY <1>5, <2>1
  <2>3. rest[m + j] = bs[n + (m + j)] BY <1>1, <2>1
  <2>4. y[j] = bs[(n + m) + j] BY <1>3, <2>1
  <2> QED BY <2>1, <2>2, <2>3, <2>4
<1>8. x = y BY <1>3, <1>5, <1>6, <1>7, SeqEqual
<1> QED BY <1>8 DEF x, y, rest

\* Two writes in a row are one.
LEMMA WroteTrans ==
  ASSUME NEW v, NEW u, NEW x, NEW bs, NEW n, NEW m, Able(v, bs),
         Wrote(v, u, bs, n), Wrote(u, x, SubSeq(bs, n + 1, Len(bs)), m)
  PROVE  Wrote(v, x, bs, n + m)
<1> DEFINE rest == SubSeq(bs, n + 1, Len(bs))
<1>1. /\ bs \in Seq(Int) /\ v \in WriterState /\ v.off \in Int /\ v.ring \in Seq(Int)
  BY WriterFields DEF Able, Sound
<1>2. n \in 0..Len(bs) /\ n \in Nat /\ Len(bs) \in Nat BY <1>1 DEF Wrote
<1>3. rest \in Seq(Int) /\ Len(rest) = Len(bs) - n BY <1>1, <1>2, Suffix
<1>4. m \in 0..Len(rest) BY DEF Wrote
<1> HIDE DEF rest
<1>5. m \in 0..(Len(bs) - n) /\ m \in Nat /\ n + m \in 0..Len(bs) BY <1>2, <1>3, <1>4
<1>6. SubSeq(rest, m + 1, Len(rest)) = SubSeq(bs, (n + m) + 1, Len(bs))
  BY <1>1, <1>2, <1>5, RestOfRest DEF rest
<1>7. Able(x, SubSeq(rest, m + 1, Len(rest))) /\ Running(x) BY DEF Wrote, rest
<1>8. x.room = v.room /\ x.cap = v.cap BY DEF Wrote
<1>9. ~x.dead => ~v.dead /\ x.off = (v.off + (n + m)) % Stride
  <2>1. SUFFICES ASSUME ~x.dead PROVE ~v.dead /\ x.off = (v.off + (n + m)) % Stride
    OBVIOUS
  <2>2. ~v.dead /\ x.off = (u.off + m) % Stride /\ u.off = (v.off + n) % Stride
    BY <2>1 DEF Wrote
  <2>3. v.off + n \in Int /\ m \in Int BY <1>1, <1>2, <1>5
  <2>4. (((v.off + n) % Stride) + m) % Stride = (v.off + n + m) % Stride
    BY <2>3, StrideNat, ModAdd
  <2>5. v.off + n + m = v.off + (n + m) BY <1>1, <1>2, <1>5
  <2> QED BY <2>2, <2>4, <2>5
<1>10. Len(x.ring) <= Len(v.ring) + (n + m)
  <2>1. Len(x.ring) <= Len(u.ring) + m /\ Len(u.ring) <= Len(v.ring) + n
    BY DEF Wrote
  <2>2. x \in WriterState /\ u \in WriterState BY DEF Able, Sound, Wrote
  <2> DEFINE a == Len(x.ring)
             b == Len(u.ring)
             c == Len(v.ring)
  <2>3. a \in Nat /\ b \in Nat /\ c \in Nat
    BY <1>1, <2>2, WriterFields
  <2> HIDE DEF a, b, c
  <2>4. a <= b + m /\ b <= c + n BY <2>1 DEF a, b, c
  <2>5. a <= c + (n + m) BY <1>2, <1>5, <2>3, <2>4
  <2> QED BY <2>5 DEF a, c
<1> QED BY <1>5, <1>6, <1>7, <1>8, <1>9, <1>10 DEF Wrote

\* A nonblocking write takes what fits.
LEMMA WriteBuffered ==
  ASSUME NEW v, NEW bs, Able(v, bs)
  PROVE  LET f == write_buffered(v, bs) IN Wrote(v, f.w, bs, f.n)
<1> DEFINE b == Begun(v)
           n == Least(Len(bs), Free(b))
           f == write_buffered(v, bs)
<1>1. Able(b, bs) /\ Running(b) /\ b.off = v.off /\ b.ring = v.ring
      /\ b.room = v.room /\ b.cap = v.cap /\ b.dead = v.dead
  BY BegunFact, BegunAble DEF Able
<1>2. /\ Len(b.ring) \in Nat /\ b.room \in Nat /\ Len(b.ring) <= b.room
      /\ bs \in Seq(Int) /\ Len(bs) \in Nat /\ Free(b) \in Nat
  BY <1>1, WriterFields DEF Able, Sound, Free
<1>3. Wrote(v, b, bs, 0) BY <1>1, WroteNothing
<1>4. f = IF b.dead THEN [w |-> b, n |-> 0, st |-> "fatal"]
          ELSE [w |-> Push(b, bs, n), n |-> n, st |-> IF n = 0 THEN "block" ELSE "progress"]
  BY DEF write_buffered
<1> HIDE DEF b, f
<1>5. n \in 0..Len(bs) /\ n <= Free(b) BY <1>2, LeastFact
<1> HIDE DEF n
<1>6. CASE b.dead
  BY <1>3, <1>4, <1>6 DEF f
<1>7. CASE ~b.dead
  <2>1. Wrote(b, Push(b, bs, n), bs, n) BY <1>1, <1>2, <1>5, <1>7, PushFact
  <2>2. Wrote(v, Push(b, bs, n), bs, n) BY <1>1, <2>1 DEF Wrote
  <2>3. f.w = Push(b, bs, n) /\ f.n = n BY <1>4, <1>7
  <2> QED BY <2>2, <2>3 DEF f
<1> QED BY <1>6, <1>7

\* A prefix of what can be handed over has the prefix's bytes.
LEMMA PrefixOfPrefix ==
  ASSUME NEW bs \in Seq(Int), NEW k \in 0..Len(bs), NEW n \in 0..k
  PROVE  SubSeq(SubSeq(bs, 1, k), 1, n) = SubSeq(bs, 1, n)
<1> DEFINE p == SubSeq(bs, 1, k)
           x == SubSeq(p, 1, n)
           y == SubSeq(bs, 1, n)
<1>1. p \in Seq(Int) /\ Len(p) = k /\ \A j \in 1..k : p[j] = bs[j] BY Prefix
<1>2. Len(bs) \in Nat /\ n \in 0..Len(bs) /\ k \in Nat /\ n \in Nat OBVIOUS
<1>3. y \in Seq(Int) /\ Len(y) = n /\ \A j \in 1..n : y[j] = bs[j] BY <1>2, Prefix
<1> HIDE DEF p
<1>4. x \in Seq(Int) /\ Len(x) = n /\ \A j \in 1..n : x[j] = p[j] BY <1>1, Prefix
<1> HIDE DEF x, y
<1>5. ASSUME NEW j \in 1..Len(x) PROVE x[j] = y[j]
  <2>1. j \in 1..n /\ j \in 1..k BY <1>2, <1>4
  <2> QED BY <1>1, <1>3, <1>4, <2>1
<1>6. x = y BY <1>3, <1>4, <1>5, SeqEqual
<1> QED BY <1>6 DEF x, y, p

\* The device may die while it is being written to.
LEMMA DyingFact ==
  ASSUME NEW v, NEW u, NEW all, NEW n, Wrote(v, u, all, n)
  PROVE  Wrote(v, [u EXCEPT !.dead = TRUE, !.on = FALSE, !.ring = <<>>], all, n)
<1> DEFINE x == [u EXCEPT !.dead = TRUE, !.on = FALSE, !.ring = <<>>]
<1>1. /\ n \in 0..Len(all) /\ Sound(u) /\ u \in WriterState /\ Running(u) /\ ~u.shadowed
      /\ SubSeq(all, n + 1, Len(all)) \in Seq(Int)
      /\ u.room = v.room /\ u.cap = v.cap
      /\ Len(u.ring) <= Len(v.ring) + n
  BY DEF Wrote, Able, Sound
<1>0. <<>> \in Seq(Int) OBVIOUS
<1>2. x \in WriterState BY <1>0, <1>1 DEF WriterState
<1>3. /\ x.dead = TRUE /\ x.ring = <<>> /\ x.state = u.state /\ x.room = u.room
      /\ x.cap = u.cap /\ x.off = u.off /\ x.shadowed = u.shadowed
  BY <1>1 DEF WriterState
<1> HIDE DEF x
<1>4. x.room >= 2 * Stride /\ Len(x.ring) = 0 /\ x.room \in Nat
  BY <1>1, <1>3, WriterFields DEF Sound
<1>5. Flow(x.ring, x.off) BY <1>3, FlowEmpty
<1>6. Sound(x) BY <1>1, <1>2, <1>3, <1>4, <1>5 DEF Sound, Running
<1>7. Len(u.ring) \in Nat BY <1>1, WriterFields
<1>8. Len(x.ring) <= Len(u.ring) BY <1>4, <1>7
<1>9. Running(x) /\ x.state # "closed" BY <1>1, <1>3 DEF Running
<1>10. Able(x, SubSeq(all, n + 1, Len(all))) BY <1>1, <1>3, <1>6, <1>9 DEF Able
<1>11. 0 <= Len(v.ring) + n BY <1>1, <1>7
<1>12. Len(x.ring) <= Len(v.ring) + n BY <1>4, <1>11
<1> QED BY <1>1, <1>3, <1>9, <1>10, <1>12 DEF Wrote, x

\* The tail of a split frame, however it is retried.
LEMMA WriteExact ==
  ASSUME NEW v, NEW all, Able(v, all), NEW k \in 0..Len(all), k <= Stride,
         NEW f \in write_exact(v, SubSeq(all, 1, k))
  PROVE  Wrote(v, f.w, all, f.n) /\ f.n <= k
<1> DEFINE b == Begun(v)
           bs == SubSeq(all, 1, k)
           n == Least(Len(bs), Free(b))
           late == Len(bs) - n
           some == Push(b, bs, n)
<1>1. Able(b, all) /\ Running(b) /\ b.off = v.off /\ b.ring = v.ring
      /\ b.room = v.room /\ b.cap = v.cap /\ b.dead = v.dead
  BY BegunFact, BegunAble DEF Able
<1>2. all \in Seq(Int) /\ Len(all) \in Nat /\ Sound(b) /\ ~b.shadowed BY <1>1 DEF Able
<1>3. bs \in Seq(Int) /\ Len(bs) = k /\ k \in Nat BY <1>2, Prefix
<1>4. /\ Len(b.ring) \in Nat /\ b.room \in Nat /\ Len(b.ring) <= b.room
      /\ b.room >= 2 * Stride /\ Free(b) = b.room - Len(b.ring)
  BY <1>2, WriterFields DEF Sound, Free
<1>5. Wrote(v, b, all, 0) BY <1>1, WroteNothing
<1>6. \A x, m : Wrote(b, x, all, m) => Wrote(v, x, all, m) BY <1>1 DEF Wrote
<1>7. \A m \in 0..k : SubSeq(bs, 1, m) = SubSeq(all, 1, m) BY <1>2, PrefixOfPrefix
<1>8. \/ f = [w |-> b, n |-> 0, st |-> "fatal"]
      \/ ~b.dead /\ f = [w |-> some, n |-> n, st |-> "progress"]
      \/ ~b.dead /\ f = [w |-> some, n |-> n, st |-> "block"]
      \/ ~b.dead /\ f = [w |-> [some EXCEPT !.dead = TRUE, !.on = FALSE, !.ring = <<>>],
                         n |-> n, st |-> "fatal"]
      \/ ~b.dead /\ late # 0
           /\ f = [w |-> Push(Drained(b, late), bs, Len(bs)), n |-> Len(bs), st |-> "progress"]
  BY Zenon DEF write_exact
<1> HIDE DEF b, bs
<1>9. n \in 0..k /\ n <= Free(b) /\ n \in Nat /\ (n = k \/ n = Free(b))
  <2>1. Len(bs) \in Int /\ Free(b) \in Int /\ Len(bs) \in Nat /\ Free(b) \in Nat
    BY <1>3, <1>4
  <2>2. n \in Nat /\ n <= Len(bs) /\ n <= Free(b) /\ (n = Len(bs) \/ n = Free(b))
    BY <2>1, LeastFact
  <2> HIDE DEF n
  <2> QED BY <1>3, <2>2
<1> HIDE DEF n
<1>10. ~b.dead => Wrote(b, some, all, n)
  <2>1. n \in 0..Len(bs) /\ n <= Len(all) BY <1>2, <1>3, <1>9
  <2> QED BY <1>1, <1>3, <1>7, <1>9, <2>1, PushFact
<1> HIDE DEF some
<1>11. ~b.dead => Wrote(v, some, all, n) BY <1>6, <1>10
<1>12. CASE f = [w |-> b, n |-> 0, st |-> "fatal"]
  <2>1. f.w = b /\ f.n = 0 BY <1>12
  <2> QED BY <1>3, <1>5, <2>1
<1>13. CASE ~b.dead /\ f.w = some /\ f.n = n
  BY <1>9, <1>11, <1>13
<1>14. CASE ~b.dead /\ f = [w |-> [some EXCEPT !.dead = TRUE, !.on = FALSE, !.ring = <<>>],
                            n |-> n, st |-> "fatal"]
  <2>1. f.w = [some EXCEPT !.dead = TRUE, !.on = FALSE, !.ring = <<>>] /\ f.n = n BY <1>14
  <2>2. Wrote(v, [some EXCEPT !.dead = TRUE, !.on = FALSE, !.ring = <<>>], all, n)
    BY <1>11, <1>14, DyingFact
  <2>3. Wrote(v, f.w, all, f.n) BY <2>1, <2>2, Zenon
  <2> QED BY <1>9, <2>1, <2>3
<1>15. CASE ~b.dead /\ late # 0
            /\ f = [w |-> Push(Drained(b, late), bs, Len(bs)), n |-> Len(bs),
                    st |-> "progress"]
  <2> DEFINE d == Drained(b, late)
  <2>1. Stride \in Nat /\ late = k - n BY <1>3, StrideNat
  <2>2. late \in 0..Len(b.ring) BY <1>3, <1>4, <1>9, <1>15, <2>1
  <2>3. /\ Sound(d) /\ Len(d.ring) = Len(b.ring) - late
        /\ d.state = b.state /\ d.room = b.room /\ d.cap = b.cap
        /\ d.shadowed = b.shadowed /\ d.dead = b.dead /\ d.off = b.off
        /\ Suits(b.ring, b.off, all) => Suits(d.ring, d.off, all)
    BY <1>2, <2>2, DrainFact
  <2> HIDE DEF d
  <2>4. Able(d, all) /\ Running(d) BY <1>1, <2>3 DEF Able, Running
  <2>5. k <= Free(d)
    <3>1. Free(d) = b.room - (Len(b.ring) - late) BY <2>3 DEF Free
    <3>2. n # k /\ n = Free(b) BY <1>3, <1>9, <1>15, <2>1
    <3>3. n = b.room - Len(b.ring) BY <1>4, <3>2
    <3> HIDE DEF late
    <3> QED BY <1>3, <1>4, <1>9, <2>1, <3>1, <3>3
  <2>6. Wrote(d, Push(d, bs, k), all, k)
    <3>1. k \in 0..Len(bs) /\ k <= Len(all) /\ SubSeq(bs, 1, k) = SubSeq(all, 1, k)
      BY <1>2, <1>3, <1>7
    <3> QED BY <1>3, <1>15, <2>3, <2>4, <2>5, <3>1, PushFact
  <2>7. Wrote(b, Push(d, bs, k), all, k)
    <3>1. Len(d.ring) <= Len(b.ring) /\ Len(d.ring) \in Nat BY <1>4, <2>2, <2>3
    <3>2. Wrote(d, Push(d, bs, k), all, k) => Len(Push(d, bs, k).ring) \in Nat
      BY WriterFields DEF Wrote, Able, Sound
    <3>3. Len(Push(d, bs, k).ring) <= Len(b.ring) + k
      <4>1. Len(Push(d, bs, k).ring) <= Len(d.ring) + k BY <2>6 DEF Wrote
      <4> DEFINE a == Len(Push(d, bs, k).ring)
      <4>2. a \in Nat /\ a <= Len(d.ring) + k BY <2>6, <3>2, <4>1
      <4> HIDE DEF a
      <4>3. a <= Len(b.ring) + k BY <1>3, <1>4, <3>1, <4>2
      <4> QED BY <4>3 DEF a
    <3> QED BY <2>3, <2>6, <3>3 DEF Wrote
  <2>8. f.w = Push(d, bs, k) /\ f.n = k BY <1>3, <1>15 DEF d
  <2> QED BY <1>3, <1>6, <2>7, <2>8
<1> QED BY <1>8, <1>12, <1>13, <1>14, <1>15

\* Arming the trigger touches neither the queue nor the phase.
LEMMA ArmFact ==
  ASSUME NEW v, NEW u, NEW bs, NEW n, Wrote(v, u, bs, n)
  PROVE  Wrote(v, arm(u), bs, n)
<1> DEFINE a == arm(u)
           rest == SubSeq(bs, n + 1, Len(bs))
<1>1. u \in WriterState /\ Sound(u) BY DEF Wrote, Able, Sound
<1>2. (~u.dead) \in BOOLEAN BY Zenon
<1>3. a \in WriterState BY <1>1, <1>2 DEF arm, WriterState
<1>4. /\ a.dead = u.dead /\ a.ring = u.ring /\ a.shadow = u.shadow /\ a.state = u.state
      /\ a.room = u.room /\ a.cap = u.cap /\ a.off = u.off /\ a.shadowed = u.shadowed
  BY <1>1 DEF arm, WriterState
<1> HIDE DEF a
<1>5. Sound(a) BY <1>1, <1>3, <1>4 DEF Sound, Running
<1>6. Able(u, rest) BY DEF Wrote
<1>7. Able(a, rest) BY <1>4, <1>5, <1>6 DEF Able
<1>8. Running(u) => Running(a) BY <1>4 DEF Running
<1>9. Wrote(v, a, bs, n) BY <1>4, <1>7, <1>8 DEF Wrote, rest
<1> QED BY <1>9 DEF a

\* The bytes between two positions are a prefix of what is left.
LEMMA PrefixOfRest ==
  ASSUME NEW bs \in Seq(Int), NEW n \in 0..Len(bs), NEW k \in 0..(Len(bs) - n)
  PROVE  SubSeq(bs, n + 1, n + k) = SubSeq(SubSeq(bs, n + 1, Len(bs)), 1, k)
<1> DEFINE rest == SubSeq(bs, n + 1, Len(bs))
           x == SubSeq(bs, n + 1, n + k)
           y == SubSeq(rest, 1, k)
<1>1. rest \in Seq(Int) /\ Len(rest) = Len(bs) - n
      /\ \A j \in 1..(Len(bs) - n) : rest[j] = bs[n + j]
  BY Suffix
<1>2. n \in Nat /\ k \in Nat /\ Len(bs) \in Nat OBVIOUS
<1>3. x \in Seq(Int) /\ Len(x) = k /\ \A j \in 1..k : x[j] = bs[n + j]
  OBVIOUS
<1> HIDE DEF rest
<1>4. k \in 0..Len(rest) BY <1>1, <1>2
<1>5. y \in Seq(Int) /\ Len(y) = k /\ \A j \in 1..k : y[j] = rest[j]
  BY <1>1, <1>4, Prefix
<1> HIDE DEF x, y
<1>6. ASSUME NEW j \in 1..Len(x) PROVE x[j] = y[j]
  <2>1. j \in 1..k /\ j \in 1..(Len(bs) - n) BY <1>2, <1>3
  <2> QED BY <1>1, <1>3, <1>5, <2>1
<1>7. x = y BY <1>3, <1>5, <1>6, SeqEqual
<1> QED BY <1>7 DEF x, y, rest

\* What completes a frame is at most a frame, and at most what is left.
LEMMA NeedFact ==
  ASSUME NEW v \in WriterState, NEW c \in Nat
  PROVE  Need(v, c) \in 0..c /\ Need(v, c) <= Stride /\ Need(v, c) <= Stride - v.off
<1>1. v.off \in Nat /\ v.off < Stride /\ Stride \in Nat BY WriterFields, StrideNat
<1>2. Stride - v.off \in Int /\ Stride - v.off \in Nat BY <1>1
<1>3. Need(v, c) \in Nat /\ Need(v, c) <= c /\ Need(v, c) <= Stride - v.off
  BY <1>1, <1>2 DEF Need, Least
<1> QED BY <1>1, <1>3

\* The bulk of a write, and the frame it splits.
LEMMA WriteBulkFact ==
  ASSUME NEW v, NEW bs, Able(v, bs), NEW r, Wrote(v, r.w, bs, r.n),
         NEW t \in WriteBulk(r, bs)
  PROVE  Wrote(v, t.w, bs, t.n)
<1> DEFINE f == write_buffered(r.w, SubSeq(bs, r.n + 1, Len(bs)))
           done == r.n + f.n
           k == Need(f.w, Len(bs) - done)
           rest == SubSeq(bs, done + 1, Len(bs))
<1>1. Able(r.w, SubSeq(bs, r.n + 1, Len(bs))) BY DEF Wrote
<1>2. Wrote(r.w, f.w, SubSeq(bs, r.n + 1, Len(bs)), f.n) BY <1>1, WriteBuffered
<1> HIDE DEF f
<1>3. Wrote(v, f.w, bs, done) BY <1>2, WroteTrans
<1>4. t = [w |-> f.w, n |-> done, st |-> f.st]
      \/ \E x \in write_exact(f.w, SubSeq(bs, done + 1, done + k)) :
           t = [w |-> x.w, n |-> done + x.n, st |-> x.st]
  BY Zenon DEF WriteBulk, f
<1> HIDE DEF done
<1>5. CASE t = [w |-> f.w, n |-> done, st |-> f.st]
  <2>1. t.w = f.w /\ t.n = done BY <1>5
  <2> QED BY <1>3, <2>1
<1>6. CASE \E x \in write_exact(f.w, SubSeq(bs, done + 1, done + k)) :
             t = [w |-> x.w, n |-> done + x.n, st |-> x.st]
  <2>1. PICK x \in write_exact(f.w, SubSeq(bs, done + 1, done + k)) :
          t = [w |-> x.w, n |-> done + x.n, st |-> x.st]
    BY <1>6
  <2>2. bs \in Seq(Int) /\ done \in 0..Len(bs) /\ f.w \in WriterState /\ Able(f.w, rest)
    BY <1>3 DEF Wrote, Able, Sound
  <2>3. Len(bs) - done \in Nat BY <2>2
  <2>4. k \in 0..(Len(bs) - done) /\ k <= Stride BY <2>2, <2>3, NeedFact
  <2>5. SubSeq(bs, done + 1, done + k) = SubSeq(rest, 1, k)
    BY <2>2, <2>4, PrefixOfRest
  <2>6. rest \in Seq(Int) /\ Len(rest) = Len(bs) - done BY <2>2, Suffix
  <2> HIDE DEF k, rest
  <2>7. Wrote(f.w, x.w, rest, x.n)
    BY <2>1, <2>2, <2>4, <2>5, <2>6, WriteExact
  <2>8. Wrote(v, x.w, bs, done + x.n) BY <1>3, <2>7, WroteTrans DEF rest
  <2>9. t.w = x.w /\ t.n = done + x.n BY <2>1
  <2> QED BY <2>8, <2>9
<1> QED BY <1>4, <1>5, <1>6

\* A write takes a prefix of the bytes and moves the phase by it.
LEMMA WriteFact ==
  ASSUME NEW v, NEW bs, Able(v, bs), NEW o \in write(v, bs)
  PROVE  Wrote(v, o.w, bs, o.n)
<1> DEFINE b == Begun(v)
           need == Need(b, Len(bs))
           first == IF b.off = 0 THEN {[w |-> b, n |-> 0, st |-> "progress"]}
                    ELSE write_exact(b, SubSeq(bs, 1, need))
           Bulk(r) == IF (b.off # 0 /\ r.n < need) \/ r.n = Len(bs)
                        THEN {r} ELSE WriteBulk(r, bs)
<1>1. Able(b, bs) /\ Running(b) /\ b.off = v.off /\ b.ring = v.ring
      /\ b.room = v.room /\ b.cap = v.cap /\ b.dead = v.dead
  BY BegunFact, BegunAble DEF Able
<1>2. Wrote(b, b, bs, 0) /\ \A x, m : Wrote(b, x, bs, m) => Wrote(v, x, bs, m)
  <2>1. Wrote(b, b, bs, 0) BY <1>1, WroteNothing
  <2>2. \A x, m : Wrote(b, x, bs, m) => Wrote(v, x, bs, m) BY <1>1 DEF Wrote
  <2> QED BY <2>1, <2>2
<1>3. b \in WriterState /\ bs \in Seq(Int) /\ Len(bs) \in Nat BY <1>1 DEF Able, Sound
<1>4. need \in 0..Len(bs) /\ need <= Stride BY <1>3, NeedFact
<1>5. PICK f \in first : \E r \in Bulk(f) : o.w = arm(r.w) /\ o.n = r.n
  <2>1. \E f \in first : \E r \in Bulk(f) :
          o = [w |-> arm(r.w), n |-> r.n,
               st |-> IF r.n = Len(bs) THEN "progress" ELSE r.st]
    BY DEF write
  <2> QED BY <2>1
<1> HIDE DEF b, need
<1>6. Wrote(b, f.w, bs, f.n)
  <2>1. CASE b.off = 0
    <3>1. f.w = b /\ f.n = 0 BY <2>1
    <3> QED BY <1>2, <3>1
  <2>2. CASE b.off # 0
    <3>1. f \in write_exact(b, SubSeq(bs, 1, need)) BY <2>2
    <3> QED BY <1>1, <1>4, <3>1, WriteExact
  <2> QED BY <2>1, <2>2
<1>r. PICK r \in Bulk(f) : o.w = arm(r.w) /\ o.n = r.n BY <1>5
<1>7. r = f \/ r \in WriteBulk(f, bs) BY <1>r
<1>8. Wrote(b, r.w, bs, r.n) BY <1>1, <1>6, <1>7, WriteBulkFact
<1>9. Wrote(v, arm(r.w), bs, r.n) BY <1>2, <1>8, ArmFact
<1> QED BY <1>r, <1>9

\* Silence suits every stream that is not waiting for a retained tail.
LEMMA SilenceSuits ==
  ASSUME NEW n \in Nat
  PROVE  /\ SilentBytes(n) \in Seq(Int) /\ Len(SilentBytes(n)) = n
         /\ \A r, off : Suits(r, off, SilentBytes(n))
<1>1. Silent \in Int BY DEF Silent
<1>2. SilentBytes(n) \in Seq(Int) /\ Len(SilentBytes(n)) = n
      /\ \A j \in 1..n : SilentBytes(n)[j] = Silent
  BY <1>1 DEF SilentBytes
<1>3. Silent >= Silent /\ ~(Silent >= 0) /\ ~(Silent > 0) BY DEF Silent
<1> QED BY <1>2, <1>3 DEF Suits

(* What closing an open frame makes of v.                                  *)
Closes(v, u) ==
    /\ Sound(u) /\ u.state = v.state /\ u.shadowed = v.shadowed
    /\ u.room = v.room /\ u.cap = v.cap
    /\ v.dead => u.dead
    /\ v.off = 0 => u = v
    /\ Len(u.ring) + Pad(u.off) <= Len(v.ring) + Pad(v.off) \/ u.dead

\* An open frame is closed by silence, or stays open, or the device dies.
LEMMA RealignFact ==
  ASSUME NEW v, Sound(v), Running(v), ~v.shadowed, NEW u \in realign_with_silence(v)
  PROVE  Closes(v, u)
<1>1. v \in WriterState /\ v.state = "running" BY DEF Sound, Running
<1>2. v.off \in Nat /\ v.off < Stride /\ Stride \in Nat /\ v.ring \in Seq(Int)
      /\ Len(v.ring) \in Nat /\ v.off \in Int /\ v.dead \in BOOLEAN
  BY <1>1, WriterFields, StrideNat
<1>3. CASE v.off = 0
  <2>1. u = v BY <1>3 DEF realign_with_silence
  <2>2. Len(v.ring) + Pad(v.off) <= Len(v.ring) + Pad(v.off)
    BY <1>2, <1>3 DEF Pad
  <2> QED BY <2>1, <2>2 DEF Closes
<1>4. CASE v.off # 0
  <2> DEFINE k == Stride - v.off
             bs == SilentBytes(k)
  <2>1. k \in Nat /\ k <= Stride BY <1>2
  <2>2. bs \in Seq(Int) /\ Len(bs) = k /\ Suits(v.ring, v.off, bs)
    BY <2>1, SilenceSuits
  <2>3. PICK r \in write_exact(v, bs) : u = r.w BY <1>4 DEF realign_with_silence
  <2> HIDE DEF bs
  <2>4. Able(v, bs) BY <1>1, <2>2 DEF Able
  <2>5. SubSeq(bs, 1, k) = bs /\ k \in 0..Len(bs) BY <2>1, <2>2
  <2>6. Wrote(v, u, bs, r.n) /\ r.n <= k
    BY <2>1, <2>3, <2>4, <2>5, WriteExact
  <2>7. /\ Sound(u) /\ Running(u) /\ ~u.shadowed /\ u.room = v.room /\ u.cap = v.cap
        /\ ~u.dead => ~v.dead /\ u.off = (v.off + r.n) % Stride
        /\ Len(u.ring) <= Len(v.ring) + r.n /\ r.n \in Nat
    BY <2>2, <2>6 DEF Wrote, Able
  <2>8. u \in WriterState /\ Len(u.ring) \in Nat BY <2>7, WriterFields DEF Sound
  <2>9. ~u.dead => Len(u.ring) + Pad(u.off) <= Len(v.ring) + Pad(v.off)
    <3>1. SUFFICES ASSUME ~u.dead
                   PROVE  Len(u.ring) + Pad(u.off) <= Len(v.ring) + Pad(v.off)
      OBVIOUS
    <3>2. Pad(v.off) = k BY <1>4 DEF Pad
    <3>3. v.off + r.n \in Nat /\ v.off + r.n <= Stride BY <1>2, <2>6, <2>7
    <3>4. CASE v.off + r.n < Stride
      <4>1. u.off = v.off + r.n
        <5>1. v.off + r.n \in 0..(Stride - 1) BY <1>2, <3>3, <3>4
        <5> QED BY <2>7, <3>1, <5>1, StrideNat, ModSmall
      <4>2. Pad(u.off) = Stride - (v.off + r.n) BY <1>2, <1>4, <2>7, <4>1 DEF Pad
      <4>3. Pad(u.off) = k - r.n BY <1>2, <2>7, <4>2
      <4> HIDE DEF k
      <4> QED BY <1>2, <2>1, <2>7, <2>8, <3>2, <4>3
    <3>5. CASE v.off + r.n = Stride
      <4>1. u.off = 0
        <5>1. Stride * 1 + 0 = Stride /\ 0 \in 0..(Stride - 1) BY StrideNat
        <5>2. (Stride * 1 + 0) % Stride = 0 BY <5>1, StrideNat, ModUnique
        <5> QED BY <2>7, <3>1, <3>5, <5>1, <5>2
      <4>2. Pad(u.off) = 0 /\ r.n = k BY <1>2, <2>7, <3>5, <4>1 DEF Pad
      <4> HIDE DEF k
      <4> QED BY <1>2, <2>1, <2>7, <2>8, <3>2, <4>2
    <3> QED BY <1>2, <3>3, <3>4, <3>5
  <2>10. u.state = v.state BY <1>1, <2>7 DEF Running
  <2>11. u.shadowed = v.shadowed BY <1>1, <2>7, <2>8, WriterFields
  <2>12. v.dead => u.dead BY <2>7
  <2> QED BY <1>4, <2>7, <2>9, <2>10, <2>11, <2>12 DEF Closes
<1> QED BY <1>3, <1>4

(* What a burst of whole silent frames makes of v.                         *)
Hushed(v, u) ==
    /\ Sound(u) /\ Running(u) /\ ~u.shadowed
    /\ u.room = v.room /\ u.cap = v.cap
    /\ u.dead = v.dead
    /\ ~u.dead => u.off = 0

\* Whole frames of silence that fit leave the stream at a frame boundary.
LEMMA SilenceFact ==
  ASSUME NEW v, Sound(v), v.state # "closed", ~v.shadowed, ~v.dead => v.off = 0,
         NEW count \in Nat, ~v.dead => Len(v.ring) + count <= v.room,
         NEW u \in write_silence(v, count)
  PROVE  Hushed(v, u)
<1> DEFINE b == Begun(v)
           k == count - (count % Stride)
           f == write_buffered(b, SilentBytes(k))
<1>1. /\ Sound(b) /\ Running(b) /\ b.state = "running" /\ b.off = v.off
      /\ b.ring = v.ring /\ b.room = v.room /\ b.cap = v.cap /\ b.dead = v.dead
      /\ b.shadowed = v.shadowed
  BY BegunFact
<1>2. PICK c \in realign_with_silence(b) :
         u = IF c.off # 0 THEN c ELSE write_buffered(c, SilentBytes(k)).w
  BY DEF write_silence
<1> HIDE DEF b
<1>3. b \in WriterState /\ b.off \in 0..(Stride - 1) /\ b.dead \in BOOLEAN
      /\ Len(b.ring) \in Nat /\ b.room \in Nat
  BY <1>1, WriterFields DEF Sound
<1>4. Begun(b) = b BY <1>1 DEF Begun
<1>5. k \in 0..count /\ k % Stride = 0 /\ k \in Nat BY StrideNat, ModWhole
<1> HIDE DEF k
<1>6. SilentBytes(k) \in Seq(Int) /\ Len(SilentBytes(k)) = k
      /\ Suits(b.ring, b.off, SilentBytes(k))
  BY <1>5, SilenceSuits
<1>7. CASE b.dead
  <2>1. c = b
    <3>1. CASE b.off = 0 BY <1>2, <3>1 DEF realign_with_silence
    <3>2. CASE b.off # 0
      <4>1. PICK r \in write_exact(b, SilentBytes(Stride - b.off)) : c = r.w
        BY <1>2, <3>2 DEF realign_with_silence
      <4>2. r = [w |-> b, n |-> 0, st |-> "fatal"]
        BY <1>4, <1>7, <4>1, Zenon DEF write_exact
      <4> QED BY <4>1, <4>2
    <3> QED BY <3>1, <3>2
  <2>2. f.w = b BY <1>4, <1>7 DEF write_buffered
  <2>3. u = b BY <1>2, <2>1, <2>2
  <2> QED BY <1>1, <1>7, <2>3 DEF Hushed
<1>8. CASE ~b.dead
  <2>1. c = b BY <1>1, <1>2, <1>8 DEF realign_with_silence
  <2>2. u = f.w BY <1>1, <1>2, <1>8, <2>1
  <2>3. Able(b, SilentBytes(k)) BY <1>1, <1>6 DEF Able
  <2>4. Wrote(b, f.w, SilentBytes(k), f.n) BY <2>3, WriteBuffered
  <2>5. f.n = k /\ f.w.dead = b.dead
    <3>1. Least(k, Free(b)) = k
      BY <1>1, <1>3, <1>5, <1>8 DEF Least, Free
    <3>2. f = [w |-> Push(b, SilentBytes(k), k), n |-> k,
               st |-> IF k = 0 THEN "block" ELSE "progress"]
      BY <1>4, <1>6, <1>8, <3>1, Zenon DEF write_buffered
    <3>3. k \in 0..Len(SilentBytes(k)) BY <1>5, <1>6
    <3>4. Push(b, SilentBytes(k), k).dead = b.dead BY <1>3, <1>6, <3>3, PushFields
    <3> QED BY <3>2, <3>4
  <2> HIDE DEF f
  <2>6. u.off = 0
    <3>1. u.off = (0 + k) % Stride BY <1>1, <1>8, <2>2, <2>4, <2>5 DEF Wrote
    <3>2. 0 + k = k BY <1>5
    <3> QED BY <1>5, <3>1, <3>2
  <2>7. Sound(u) /\ Running(u) /\ ~u.shadowed /\ u.room = b.room /\ u.cap = b.cap
    BY <2>2, <2>4 DEF Wrote, Able
  <2> QED BY <1>1, <2>2, <2>5, <2>6, <2>7 DEF Hushed
<1> QED BY <1>7, <1>8

(* A reset channel: empty, at a frame boundary, waiting to be armed.       *)
IsReset(v, u) ==
    /\ Sound(u) /\ u.state = "setup" /\ ~u.shadowed
    /\ u.off = 0 /\ u.ring = <<>>
    /\ u.room = v.room /\ u.cap = v.cap /\ u.dead = v.dead /\ u.mism = v.mism

\* A running channel is reset, unless its device is gone.
LEMMA SuspendFact ==
  ASSUME NEW v \in WriterState, v.room >= 2 * Stride, Running(v), NEW s \in suspend(v)
  PROVE  \/ s.ok = TRUE /\ IsReset(v, s.w)
         \/ s.ok = FALSE /\ v.dead /\ s.w = v
<1> DEFINE x == [v EXCEPT !.state = "setup", !.trig = TRUE, !.shadowed = FALSE,
                          !.off = 0, !.ring = <<>>, !.shadow = <<>>, !.on = FALSE]
<1>1. \/ s = [w |-> x, ok |-> TRUE]
      \/ v.dead /\ s = [w |-> v, ok |-> FALSE]
  BY Zenon DEF suspend
<1>2. <<>> \in Seq(Int) /\ 0 \in 0..(Stride - 1) BY StrideNat
<1>3. x \in WriterState BY <1>2 DEF WriterState
<1>4. /\ x.state = "setup" /\ x.shadowed = FALSE /\ x.off = 0 /\ x.ring = <<>>
      /\ x.room = v.room /\ x.cap = v.cap /\ x.dead = v.dead /\ x.mism = v.mism
  BY DEF WriterState
<1> HIDE DEF x
<1>5. Len(x.ring) <= x.room BY <1>4, WriterFields
<1>6. Sound(x) BY <1>3, <1>4, <1>5, FlowEmpty DEF Sound, Running
<1>7. IsReset(v, x) BY <1>4, <1>6 DEF IsReset
<1>8. CASE s = [w |-> x, ok |-> TRUE]
  <2>1. s.w = x /\ s.ok = TRUE BY <1>8
  <2> QED BY <1>7, <2>1
<1>9. CASE v.dead /\ s = [w |-> v, ok |-> FALSE]
  <2>1. s.w = v /\ s.ok = FALSE BY <1>9
  <2> QED BY <1>9, <2>1
<1> QED BY <1>1, <1>8, <1>9

(* What the end of an input sequence makes of v; reset tells whether the   *)
(* channel had to be reset for it.                                         *)
Ended(v, u, reset) ==
    /\ Sound(u) /\ u.room = v.room /\ u.cap = v.cap
    /\ ~u.dead => u.off = 0
    /\ v.dead => u.dead
    /\ u.shadowed => v.shadowed
    /\ Running(u) => Running(v)
    /\ v.state # "closed" => u.state # "closed"
    /\ Running(v) => Running(u) \/ reset
    /\ \/ Len(u.ring) + Pad(u.off) <= Len(v.ring) + Pad(v.off)
       \/ u.dead \/ reset

\* The end of a sequence leaves no open frame on a living device.
LEMMA EndFact ==
  ASSUME NEW v, Sound(v), NEW e \in end_buffer_sequence(v)
  PROVE  Ended(v, e.w, e.reset)
<1>1. /\ v \in WriterState /\ v.off \in Nat /\ v.off < Stride /\ Stride \in Nat
      /\ Len(v.ring) \in Nat /\ v.room >= 2 * Stride /\ v.shadowed \in BOOLEAN
  BY WriterFields, StrideNat DEF Sound
<1>2. Len(v.ring) + Pad(v.off) <= Len(v.ring) + Pad(v.off) BY <1>1 DEF Pad
<1>3. CASE v.off = 0
  <2>1. e.w = v BY <1>3 DEF end_buffer_sequence
  <2> QED BY <1>2, <1>3, <2>1 DEF Ended
<1>4. CASE v.off # 0
  <2>1. Running(v) /\ v.state = "running" BY <1>4 DEF Sound, Running
  <2> DEFINE closed == IF v.shadowed THEN {v} ELSE realign_with_silence(v)
  <2>2. PICK c \in closed :
          IF c.off = 0 THEN e = [w |-> c, reset |-> FALSE]
          ELSE \E s \in suspend(c) : e = [w |-> s.w, reset |-> s.ok]
    <3>1. e \in UNION {IF c.off = 0 THEN {[w |-> c, reset |-> FALSE]}
                       ELSE {[w |-> s.w, reset |-> s.ok] : s \in suspend(c)}
                         : c \in closed}
      BY <1>4, <2>1, Zenon DEF end_buffer_sequence
    <3> HIDE DEF closed
    <3> QED BY <3>1
  <2>3. Closes(v, c)
    <3>1. CASE v.shadowed
      <4>1. c = v BY <3>1
      <4> QED BY <1>2, <4>1 DEF Closes
    <3>2. CASE ~v.shadowed
      <4>1. c \in realign_with_silence(v) BY <3>2
      <4> QED BY <2>1, <3>2, <4>1, RealignFact
    <3> QED BY <3>1, <3>2
  <2>4. /\ Sound(c) /\ c \in WriterState /\ c.state = "running" /\ Running(c)
        /\ c.room >= 2 * Stride /\ c.shadowed = v.shadowed
        /\ c.room = v.room /\ c.cap = v.cap /\ (v.dead => c.dead)
        /\ Len(c.ring) + Pad(c.off) <= Len(v.ring) + Pad(v.off) \/ c.dead
    BY <2>1, <2>3 DEF Closes, Sound, Running
  <2>5. CASE c.off = 0
    <3>1. e.w = c /\ e.reset = FALSE BY <2>2, <2>5
    <3> QED BY <2>1, <2>4, <2>5, <3>1 DEF Ended
  <2>6. CASE c.off # 0
    <3>1. PICK s \in suspend(c) : e = [w |-> s.w, reset |-> s.ok] BY <2>2, <2>6
    <3>2. e.w = s.w /\ e.reset = s.ok BY <3>1
    <3>3. \/ s.ok = TRUE /\ IsReset(c, s.w)
          \/ s.ok = FALSE /\ c.dead /\ s.w = c
      BY <2>4, SuspendFact
    <3>4. CASE s.ok = TRUE /\ IsReset(c, s.w)
      BY <2>1, <2>4, <3>2, <3>4 DEF Ended, IsReset
    <3>5. CASE s.ok = FALSE /\ c.dead /\ s.w = c
      BY <2>1, <2>4, <3>2, <3>5 DEF Ended
    <3> QED BY <3>3, <3>4, <3>5
  <2> QED BY <2>5, <2>6
<1> QED BY <1>3, <1>4

-----------------------------------------------------------------------------
(* The ring's geometry.                                                    *)

\* The sizes of Geometry are numbers, and a ring is below the word's end.
LEMMA WordFact ==
  /\ U32Max \in Nat /\ CapacityMax \in Nat /\ CapacityMin \in Nat /\ MinBuffer \in Nat
  /\ DefaultFragment \in Nat /\ MaxQuantum \in Nat /\ Eighths \in Nat
  /\ CapacityMax < U32Max /\ CapacityMin <= CapacityMax
BY GeometryAssumption, PlaybackAssumption

\* A quotient of numbers is a number, and no more than what was divided.
LEMMA Quotient ==
  ASSUME NEW a \in Nat, NEW d \in Nat \ {0}
  PROVE  (a \div d) \in Nat /\ (a \div d) <= a /\ (d >= 2 => 2 * (a \div d) <= a)
BY Z3

\* A saturated number is a number, itself unless it is past the word's end.
LEMMA SatFact ==
  ASSUME NEW a \in Nat
  PROVE  /\ Sat(a) \in Nat /\ Sat(a) <= a /\ Sat(a) <= U32Max
         /\ Sat(a) < U32Max => Sat(a) = a
BY WordFact DEF Sat, Least

\* What is left of a number.
LEMMA LessFact ==
  ASSUME NEW a \in Nat, NEW b \in Nat
  PROVE  /\ Less(a, b) \in Nat /\ Less(a, b) <= a
         /\ a >= b => Less(a, b) = a - b
         /\ a <= b => Less(a, b) = 0
BY DEF Less

\* The delay and the floor of a period are numbers.
LEMMA FloorFact ==
  ASSUME NEW per \in Nat, NEW q \in Nat
  PROVE  /\ playback_desired_delay(per, Eighths) \in Nat
         /\ playback_fill_floor(per, q) \in Nat
<1>1. (per \div 8) \in Nat /\ (per \div 4) \in Nat /\ Eighths \in Nat BY Quotient, WordFact
<1>2. (per \div 8) * Eighths \in Nat BY <1>1
<1>3. playback_desired_delay(per, Eighths) \in Nat
  BY <1>2, SatFact DEF playback_desired_delay
<1>4. per + Greatest(per \div 4, q) \in Nat BY <1>1 DEF Greatest
<1> QED BY <1>3, <1>4, SatFact DEF playback_fill_floor

\* What a period requires of the ring is a number.
LEMMA RequiredFact ==
  ASSUME NEW per \in Nat, NEW d \in Nat, NEW q \in Nat, NEW m \in Nat
  PROVE  LET a == Sat(Sat(2 * per) + d)
             b == Sat(Sat(playback_fill_floor(per, q) + m) + q)
             r == playback_buffer_required(per, d, q, m)
         IN  r \in Nat /\ a \in Nat /\ b \in Nat /\ a <= r /\ b <= r
<1> DEFINE a == Sat(Sat(2 * per) + d)
           b == Sat(Sat(playback_fill_floor(per, q) + m) + q)
<1>1. 2 * per \in Nat /\ playback_fill_floor(per, q) \in Nat BY FloorFact
<1>2. Sat(2 * per) + d \in Nat BY <1>1, SatFact
<1>3. playback_fill_floor(per, q) + m \in Nat BY <1>1
<1>4. Sat(playback_fill_floor(per, q) + m) + q \in Nat BY <1>3, SatFact
<1>5. a \in Nat /\ b \in Nat BY <1>2, <1>4, SatFact
<1>6. playback_buffer_required(per, d, q, m) = Greatest(a, b)
  BY DEF playback_buffer_required
<1> HIDE DEF a, b
<1> QED BY <1>5, <1>6 DEF Greatest, a, b

\* The goal leaves a frame of room in the ring.
LEMMA GoalRange ==
  ASSUME NEW cap \in Nat, cap <= CapacityMax, NEW per \in Nat, per >= Stride,
         NEW q \in Nat, NEW d \in Nat
  PROVE  LET goal == playback_target_delay(cap, per, q, per, d)
         IN  /\ goal \in Nat /\ goal <= cap
             /\ cap >= 2 * Stride => goal + Stride - 1 <= cap
<1> DEFINE goal == playback_target_delay(cap, per, q, per, d)
           F == playback_fill_floor(per, q)
           X == Sat(per + q)
           T == Sat(2 * per)
<1>1. /\ F \in Nat /\ U32Max \in Nat /\ CapacityMax < U32Max /\ CapacityMax \in Nat
      /\ Stride \in Nat /\ Stride >= 1
  BY FloorFact, WordFact, StrideNat
<1>2. X \in Nat /\ (X = per + q \/ X = U32Max) BY <1>1 DEF Sat, Least
<1>3. T \in Nat /\ (T = 2 * per \/ T = U32Max) BY <1>1 DEF Sat, Least
<1> HIDE DEF F, X, T
<1>4. CASE cap >= T
  <2> DEFINE C == Greatest(Less(cap, X), per)
             W == Greatest(d, F)
  <2>1. goal = Greatest(Least(W, C), per)
    BY <1>4 DEF playback_target_delay, F, X, T
  <2>2. cap >= 2 * per BY <1>1, <1>3, <1>4
  <2>3. Less(cap, X) \in Nat /\ Less(cap, X) <= cap - per
    BY <1>1, <1>2, <2>2 DEF Less
  <2>4. C \in Nat /\ C <= cap - per BY <2>2, <2>3 DEF Greatest
  <2>5. W \in Nat BY <1>1 DEF Greatest
  <2> HIDE DEF C, W
  <2>6. goal \in Nat /\ goal <= cap - per
    BY <2>1, <2>2, <2>4, <2>5 DEF Greatest, Least
  <2> HIDE DEF goal
  <2>7. goal + Stride - 1 <= cap BY <1>1, <2>6
  <2> QED BY <2>6, <2>7 DEF goal
<1>5. CASE ~(cap >= T)
  <2>1. goal = (cap \div 2) BY <1>5 DEF playback_target_delay, T
  <2>2. (cap \div 2) \in Nat /\ (cap \div 2) <= cap /\ 2 * (cap \div 2) <= cap
    BY Quotient
  <2> HIDE DEF goal
  <2>3. goal \in Nat /\ 2 * goal <= cap BY <2>1, <2>2
  <2>4. cap >= 2 * Stride => goal + Stride - 1 <= cap BY <1>1, <2>3
  <2> QED BY <2>3, <2>4 DEF goal
<1> QED BY <1>4, <1>5

\* A ring with the required capacity holds the goal, the largest write and
\* one more delivery, and the goal is above the safe floor.
LEMMA GoalKept ==
  ASSUME NEW cap \in Nat, cap <= CapacityMax, NEW per \in Nat, NEW q \in Nat, NEW d \in Nat,
         cap >= playback_buffer_required(per, d, q, per)
  PROVE  LET goal == playback_target_delay(cap, per, q, per, d)
         IN  playback_fill_floor(per, q) <= goal /\ goal + per + q <= cap
<1> DEFINE goal == playback_target_delay(cap, per, q, per, d)
           F == playback_fill_floor(per, q)
           G == Greatest(per \div 4, q)
           X == Sat(per + q)
           T == Sat(2 * per)
           R == playback_buffer_required(per, d, q, per)
           Y == Sat(F + per)
           a == Sat(T + d)
           b == Sat(Y + q)
<1>1. F \in Nat /\ U32Max \in Nat /\ CapacityMax < U32Max /\ CapacityMax \in Nat
  BY FloorFact, WordFact
<1>2. R \in Nat /\ a \in Nat /\ b \in Nat /\ a <= R /\ b <= R BY RequiredFact
<1>3. a < U32Max /\ b < U32Max
  <2> HIDE DEF a, b, R
  <2>1. R <= cap BY <1>2 DEF R
  <2> QED BY <1>1, <1>2, <2>1
<1>4. T \in Nat /\ (T < U32Max => T = 2 * per) BY SatFact
<1>5. Y \in Nat /\ (Y < U32Max => Y = F + per) BY <1>1, SatFact
<1>6. (per \div 4) \in Nat BY Quotient
<1>7. G \in Nat /\ G >= q BY <1>6 DEF Greatest
<1>8. F < U32Max => F = per + G
  <2>1. F = Sat(per + G) BY DEF playback_fill_floor
  <2> HIDE DEF F, G
  <2> QED BY <1>7, <2>1, SatFact
<1> HIDE DEF T, Y, F, G, R
<1>9. a = T + d /\ b = Y + q BY <1>3, <1>4, <1>5, SatFact
<1> HIDE DEF a, b
<1>10. T = 2 * per /\ Y = F + per /\ F = per + G
  BY <1>1, <1>2, <1>3, <1>4, <1>5, <1>7, <1>8, <1>9
<1>11. F + per + q <= cap /\ 2 * per <= cap
  BY <1>1, <1>2, <1>9, <1>10 DEF R
<1>12. X = per + q
  <2>1. X \in Nat /\ (X < U32Max => X = per + q) /\ X <= per + q BY SatFact
  <2> HIDE DEF X
  <2> QED BY <1>1, <1>7, <1>10, <1>11, <2>1
<1> HIDE DEF X
<1> DEFINE C == Greatest(Less(cap, X), per)
           W == Greatest(d, F)
<1>13. goal = Greatest(Least(W, C), per)
  <2>1. cap >= Sat(2 * per) BY <1>10, <1>11 DEF T
  <2> QED BY <2>1 DEF playback_target_delay, F, X
<1>14. C = cap - per - q /\ C \in Nat
  <2>1. Less(cap, X) = cap - per - q BY <1>1, <1>7, <1>10, <1>11, <1>12 DEF Less
  <2> QED BY <1>1, <1>7, <1>10, <1>11, <2>1 DEF Greatest
<1>15. W \in Nat /\ W >= F BY <1>1 DEF Greatest
<1> HIDE DEF C, W
<1>16. goal \in Nat /\ goal >= F /\ goal <= cap - per - q
  BY <1>1, <1>7, <1>10, <1>11, <1>13, <1>14, <1>15 DEF Greatest, Least
<1> HIDE DEF goal
<1>17. F <= goal /\ goal + per + q <= cap BY <1>1, <1>16
<1> QED BY <1>17 DEF goal, F

\* No more is asked for than the kernel's budget.
LEMMA AskedFact ==
  ASSUME period \in Nat
  PROVE  Asked \in Nat /\ Asked <= CapacityMax
<1> DEFINE L == buffer_capacity_limit(Stride, Rate)
<1>1. Stride \in Nat \ {0} /\ Stride \in Nat /\ Rate \in Nat \ {0} BY PlaybackAssumption
<1>2. ((Stride * Rate * 200) \div 1000) \in Nat
  <2>1. Stride * Rate * 200 \in Nat BY <1>1
  <2> QED BY <2>1, Quotient
<1>3. L \in Nat /\ L <= CapacityMax
  <2> DEFINE x == (Stride * Rate * 200) \div 1000
  <2>1. x \in Nat BY <1>2
  <2> HIDE DEF x
  <2>2. L = Clamp(x, CapacityMin, CapacityMax) BY DEF buffer_capacity_limit, x
  <2> QED BY <2>1, <2>2, WordFact DEF Clamp, Least, Greatest
<1> HIDE DEF L
<1>4. MaxPeriod \in Nat
  <2>1. (L \div Stride) \in Nat BY <1>1, <1>3, Quotient
  <2>2. ((L \div Stride) \div 4) \in Nat BY <2>1, Quotient
  <2>3. ((L \div Stride) \div 4) * Stride \in Nat BY <1>1, <2>2
  <2>4. Sat(((L \div Stride) \div 4) * Stride) \in Nat BY <2>3, SatFact
  <2>5. MaxQuantum * Rate \in Nat BY <1>1, WordFact
  <2>6. ((MaxQuantum * Rate) \div Rate) \in Nat BY <1>1, <2>5, Quotient
  <2>7. ((MaxQuantum * Rate) \div Rate) * Stride \in Nat BY <1>1, <2>6
  <2>8. graph_frames_in_device_bytes(MaxQuantum, Rate, Rate, Stride) \in Nat
    <3>1. Rate # 0 BY <1>1
    <3> QED BY <2>7, <3>1, SatFact DEF graph_frames_in_device_bytes
  <2> QED BY <2>4, <2>8, LeastFact DEF MaxPeriod, max_buffer_period_bytes, L
<1> DEFINE now == playback_buffer_required(period,
                      playback_desired_delay(period, Eighths),
                      Greatest(DefaultFragment, 0), period)
           stable == playback_buffer_required(MaxPeriod,
                      playback_desired_delay(MaxPeriod, Eighths),
                      Greatest(DefaultFragment, 0), MaxPeriod)
<1>5. Greatest(DefaultFragment, 0) \in Nat BY WordFact DEF Greatest
<1>6. now \in Nat
  <2>1. playback_desired_delay(period, Eighths) \in Nat BY FloorFact
  <2> QED BY <1>5, <2>1, RequiredFact
<1>7. stable \in Nat
  <2>1. playback_desired_delay(MaxPeriod, Eighths) \in Nat BY <1>4, FloorFact
  <2> QED BY <1>4, <1>5, <2>1, RequiredFact
<1>8. Asked = Least(Greatest(Greatest(now, stable), MinBuffer), L)
  BY DEF Asked, playback_buffer_request, L
<1> HIDE DEF now, stable
<1> QED BY <1>3, <1>6, <1>7, <1>8, WordFact DEF Least, Greatest

-----------------------------------------------------------------------------
(* The port.                                                               *)

(* The port q has the geometry of p.                                       *)
Same(p, q) ==
    /\ q \in PortState
    /\ q.setup = p.setup /\ q.block = p.block /\ q.cap = p.cap
    /\ q.target = p.target /\ q.goal = p.goal /\ q.min = p.min

\* The fields of a port have their types.
LEMMA PortFields ==
  ASSUME NEW p \in PortState
  PROVE  /\ p.setup \in Nat /\ p.block \in Nat /\ p.cap \in Nat /\ p.target \in Nat
         /\ p.goal \in Nat /\ p.min \in Nat /\ p.offset \in Nat
         /\ p.xrun \in BOOLEAN /\ p.retune_pending \in BOOLEAN /\ p.resuming \in BOOLEAN
         /\ p.after_start \in BOOLEAN /\ p.required \in BOOLEAN /\ p.pending \in BOOLEAN
         /\ p.buffer \in Buffers \cup {NoBuffer}
BY DEF PortState

\* Queueing a required rebuild marks it pending and does nothing else.
LEMMA QueueFact ==
  ASSUME NEW p \in PortState, NEW q \in queue_required_rebuilds(p)
  PROVE  /\ Same(p, q) /\ q.offset = p.offset /\ q.buffer = p.buffer
         /\ q.after_start = p.after_start
<1>1. q = p \/ q = [p EXCEPT !.pending = TRUE] BY DEF queue_required_rebuilds
<1>2. CASE q = p BY <1>2 DEF Same
<1>3. CASE q = [p EXCEPT !.pending = TRUE] BY <1>3 DEF Same, PortState
<1> QED BY <1>1, <1>2, <1>3

\* A cleared port retains no buffer.
LEMMA ClearFact ==
  ASSUME NEW p \in PortState
  PROVE  LET q == clear_pending_write(p)
         IN  Same(p, q) /\ q.offset = 0 /\ q.after_start = p.after_start
BY DEF clear_pending_write, Same, PortState

\* The geometry of a port with other flags.
LEMMA GearedSame ==
  ASSUME NEW v, NEW p, NEW q, Geared(v, p), Same(p, q)
  PROVE  Geared(v, q)
BY DEF Geared, Same

\* The geometry goes with the ring.
LEMMA GearedKept ==
  ASSUME NEW v, NEW u, NEW p, Geared(v, p), u.cap = v.cap, u.room = v.room,
         v.dead => u.dead, Running(u) => Running(v)
  PROVE  Geared(u, p)
BY DEF Geared

\* At a frame boundary nothing is owed.
LEMMA OwnedZero ==
  ASSUME NEW u, ~u.dead => u.off = 0
  PROVE  Owned(u, 0)
<1>1. 0 % Stride = 0
  <2>1. 0 \in 0..(Stride - 1) BY StrideNat
  <2> QED BY <2>1, StrideNat, ModSmall
<1> QED BY <1>1 DEF Owned, Fits

\* The frame padding of a writer is less than a frame.
LEMMA PadFact ==
  ASSUME NEW v \in WriterState
  PROVE  Pad(v.off) \in Nat /\ Pad(v.off) <= Stride - 1
BY WriterFields, StrideNat DEF Pad

\* The end of a sequence keeps what the stream, port and snapshot promise.
LEMMA EndedCore ==
  ASSUME NEW v, NEW p, NEW s, Core(v, p, s), NEW u, NEW reset, Ended(v, u, reset),
         NEW q, Same(p, q), q.offset = 0, q.after_start => p.after_start
  PROVE  Core(u, q, IF reset THEN NoSnapshot ELSE s)
<1> DEFINE t == IF reset THEN NoSnapshot ELSE s
<1>1. Sound(u) /\ q \in PortState BY DEF Ended, Same
<1>2. Owned(u, q.offset) BY OwnedZero DEF Ended
<1>3. Geared(u, q)
  <2>1. Geared(u, p) BY GearedKept DEF Core, Ended
  <2> QED BY <2>1, GearedSame
<1>4. Recent(u, t)
  <2>1. SUFFICES ASSUME t # NoSnapshot
                 PROVE  t \in Nat /\ Len(u.ring) + Pad(u.off) <= t + Stride - 1
    BY DEF Recent
  <2>2. ~reset /\ t = s BY <2>1
  <2>3. s \in Nat /\ Len(v.ring) + Pad(v.off) <= s + Stride - 1
    BY <2>1, <2>2 DEF Core, Recent
  <2>4. v \in WriterState /\ u \in WriterState BY DEF Core, Ended, Sound
  <2>5. CASE u.dead
    <3>1. u.ring = <<>> BY <2>5 DEF Ended, Sound
    <3>2. Len(u.ring) = 0 BY <3>1
    <3>3. Pad(u.off) \in Nat /\ Pad(u.off) <= Stride - 1 BY <2>4, PadFact
    <3> QED BY <2>2, <2>3, <3>2, <3>3, StrideNat
  <2>6. CASE ~u.dead
    <3>1. Len(u.ring) + Pad(u.off) <= Len(v.ring) + Pad(v.off) BY <2>2, <2>6 DEF Ended
    <3> DEFINE a == Len(u.ring)
               b == Pad(u.off)
               c == Len(v.ring)
               d == Pad(v.off)
    <3>2. a \in Nat /\ b \in Nat /\ c \in Nat /\ d \in Nat
      BY <2>4, WriterFields, PadFact
    <3> HIDE DEF a, b, c, d
    <3>3. a + b <= c + d /\ c + d <= s + Stride - 1 BY <2>3, <3>1 DEF a, b, c, d
    <3>4. a + b <= s + Stride - 1 BY <2>3, <3>2, <3>3, StrideNat
    <3> QED BY <2>2, <2>3, <3>4 DEF a, b
  <2> QED BY <2>5, <2>6
<1>5. q.after_start /\ Running(u) => u.dead BY DEF Core, Ended
<1>6. t # NoSnapshot => Running(u) BY DEF Core, Ended
<1> QED BY <1>1, <1>2, <1>3, <1>4, <1>5, <1>6 DEF Core

\* The node, the host and the announced period have their types.
LEMMA AroundTypes ==
  ASSUME Around
  PROVE  /\ inp.status \in {"need", "have"} /\ inp.buffer \in Buffers \cup {NoBuffer}
         /\ inp.size \in Nat /\ inp.size \in Int
         /\ cyc.from \in Nat /\ cyc.retuned \in BOOLEAN
         /\ node.started \in BOOLEAN /\ node.format \in BOOLEAN /\ node.buffers \in BOOLEAN
         /\ period \in Nat /\ (period # 0 => period >= Stride)
<1>1. period \in Periods \cup {0} BY DEF Around
<1>2. period \in Nat /\ (period # 0 => period >= Stride) BY <1>1, PlaybackAssumption
<1> QED BY <1>2 DEF Around

\* No snapshot is behind.
LEMMA RecentNone == \A v : Recent(v, NoSnapshot)
BY DEF Recent

-----------------------------------------------------------------------------
(* How a cycle ends.                                                       *)

\* A cycle that ends leaves an idle loop and no snapshot.
LEMMA EndCycleFact ==
  ASSUME Around, NEW v, NEW p, NEW status, EndCycle(v, p, status),
         Sound(v), p \in PortState, Owned(v, p.offset), Geared(v, p),
         p.after_start /\ Running(v) => v.dead,
         ~v.shadowed,
         node' \in [started : BOOLEAN, format : BOOLEAN, buffers : BOOLEAN]
  PROVE  PlaybackInv'
<1>1. /\ w' = v /\ port' \in queue_required_rebuilds(p)
      /\ inp' = (IF status = "need" THEN NoInput ELSE inp)
      /\ cyc' = Idle /\ snap' = NoSnapshot /\ period' = period
  BY DEF EndCycle
<1>2. Same(p, port') /\ port'.offset = p.offset /\ port'.after_start = p.after_start
  BY <1>1, QueueFact
<1>3. Geared(v, port') BY <1>2, GearedSame
<1>4. Core(w', port', snap')
  BY <1>1, <1>2, <1>3, RecentNone DEF Core, Same
<1>5. inp' \in [status : {"need", "have"}, buffer : Buffers \cup {NoBuffer}, size : Nat]
  BY <1>1 DEF NoInput, Around
<1>6. /\ cyc' \in [pc : {"idle", "prepare", "write"}, from : Nat, retuned : BOOLEAN]
      /\ cyc'.pc = "idle"
  BY <1>1 DEF Idle
<1>7. Around' BY <1>1, <1>5, <1>6 DEF Around
<1> QED BY <1>4, <1>7 DEF PlaybackInv

\* A released buffer leaves no open frame on a living device.
LEMMA ReleaseFact ==
  ASSUME Around, NEW v, NEW p, Release(v, p), Sound(v), p \in PortState, Geared(v, p),
         p.after_start /\ Running(v) => v.dead, ~v.shadowed
  PROVE  PlaybackInv'
<1>1. PICK e \in end_buffer_sequence(v) :
         EndCycle(e.w, clear_pending_write(p), "need") /\ node' = node
  BY DEF Release
<1>2. Ended(v, e.w, e.reset) BY EndFact
<1> DEFINE q == clear_pending_write(p)
<1>3. Same(p, q) /\ q.offset = 0 /\ q.after_start = p.after_start BY ClearFact
<1> HIDE DEF q
<1>4. Geared(e.w, q)
  <2>1. Geared(e.w, p) BY <1>2, GearedKept DEF Ended
  <2> QED BY <1>3, <2>1, GearedSame
<1>5. Owned(e.w, q.offset) BY <1>2, <1>3, OwnedZero DEF Ended
<1>6. q.after_start /\ Running(e.w) => e.w.dead BY <1>2, <1>3 DEF Ended
<1>7. Sound(e.w) /\ ~e.w.shadowed /\ q \in PortState BY <1>2, <1>3 DEF Ended, Same
<1>8. node' \in [started : BOOLEAN, format : BOOLEAN, buffers : BOOLEAN]
  BY <1>1 DEF Around
<1>9. EndCycle(e.w, q, "need") BY <1>1 DEF q
<1> QED BY <1>4, <1>5, <1>6, <1>7, <1>8, <1>9, EndCycleFact

-----------------------------------------------------------------------------
(* The retained buffer.                                                    *)

\* The bytes that are left of the buffer.
LEMMA DataBytes ==
  ASSUME inp.size \in Nat, NEW from \in Nat, from <= inp.size
  PROVE  /\ Data(from) \in Seq(Int) /\ Len(Data(from)) = inp.size - from
         /\ \A j \in 1..(inp.size - from) : Data(from)[j] = from + j - 1
<1> DEFINE k == inp.size - from
<1>1. k \in Nat OBVIOUS
<1>2. \A j \in 1..k : from + j - 1 \in Int BY <1>1
<1> HIDE DEF k
<1>3. Data(from) = [i \in 1..k |-> from + i - 1] BY DEF Data, k
<1>4. Data(from) \in Seq(Int) /\ Len(Data(from)) = k BY <1>1, <1>2, <1>3
<1>5. \A j \in 1..k : Data(from)[j] = from + j - 1 BY <1>3
<1> QED BY <1>4, <1>5 DEF k

\* The rest of the buffer suits a stream that holds its accepted prefix.
LEMMA DataSuits ==
  ASSUME inp.size \in Nat, NEW from \in Nat, from <= inp.size,
         NEW r \in Seq(Int), NEW off \in Int, Fits(r, off, from)
  PROVE  Suits(r, off, Data(from))
<1> DEFINE bs == Data(from)
           k == inp.size - from
<1>1. bs \in Seq(Int) /\ Len(bs) = k /\ \A j \in 1..k : bs[j] = from + j - 1
  BY DataBytes
<1>2. k \in Nat OBVIOUS
<1> HIDE DEF bs, k
<1>3. ASSUME NEW j \in 1..Len(bs)
      PROVE  /\ bs[j] >= Silent
             /\ bs[j] >= 0 => (off + j - 1) % Stride = bs[j] % Stride
             /\ bs[j] > 0 => IF j > 1 THEN bs[j - 1] = bs[j] - 1
                             ELSE r = <<>> \/ r[Len(r)] = bs[j] - 1
  <2>1. j \in 1..k /\ j \in Int /\ bs[j] = from + j - 1 BY <1>1, <1>2
  <2>2. bs[j] >= Silent BY <2>1 DEF Silent
  <2>3. (off + j - 1) % Stride = bs[j] % Stride
    <3>1. off = from % Stride BY DEF Fits
    <3>2. from \in Int /\ j - 1 \in Int BY <2>1
    <3>3. ((from % Stride) + (j - 1)) % Stride = (from + (j - 1)) % Stride
      BY <3>2, StrideNat, ModAdd
    <3>4. off + (j - 1) = off + j - 1 /\ from + (j - 1) = from + j - 1 BY <2>1, <3>2
    <3> QED BY <2>1, <3>1, <3>3, <3>4
  <2>4. CASE j > 1
    <3>1. j - 1 \in 1..k BY <1>2, <2>1, <2>4
    <3>2. bs[j - 1] = from + (j - 1) - 1 BY <1>1, <3>1
    <3>3. bs[j - 1] = bs[j] - 1 BY <2>1, <3>2
    <3> QED BY <2>2, <2>3, <2>4, <3>3
  <2>5. CASE j = 1
    <3>1. bs[j] = from BY <2>1, <2>5
    <3>2. from > 0 => r = <<>> \/ r[Len(r)] = from - 1 BY DEF Fits
    <3>3. ~(j > 1) BY <2>5
    <3> QED BY <2>2, <2>3, <3>1, <3>2, <3>3
  <2> QED BY <2>1, <2>4, <2>5
<1>4. Suits(r, off, bs) BY <1>3 DEF Suits
<1> QED BY <1>4 DEF bs

\* A running stream can be handed the rest of the buffer it retains.
LEMMA AbleData ==
  ASSUME inp.size \in Nat, NEW from \in Nat, from <= inp.size,
         NEW v, Sound(v), Running(v), ~v.shadowed, Owned(v, from)
  PROVE  Able(v, Data(from))
<1>1. v \in WriterState /\ v.ring \in Seq(Int) /\ v.off \in Int BY WriterFields DEF Sound
<1>2. Data(from) \in Seq(Int) BY DataBytes
<1>3. ~v.dead => Suits(v.ring, v.off, Data(from))
  <2>1. ~v.dead => Fits(v.ring, v.off, from) BY DEF Owned
  <2> QED BY <1>1, <2>1, DataSuits
<1> QED BY <1>2, <1>3 DEF Able, Running

\* A stream that suits the bytes behind the accepted ones holds those.
LEMMA FitsRest ==
  ASSUME inp.size \in Nat, NEW from \in Nat, NEW n \in Nat, from + n < inp.size,
         NEW r, NEW off \in 0..(Stride - 1),
         Suits(r, off, SubSeq(Data(from), n + 1, Len(Data(from))))
  PROVE  Fits(r, off, from + n)
<1> DEFINE bs == Data(from)
           rest == SubSeq(bs, n + 1, Len(bs))
           k == inp.size - from
<1>1. bs \in Seq(Int) /\ Len(bs) = k /\ \A j \in 1..k : bs[j] = from + j - 1
  BY DataBytes
<1>2. k \in Nat /\ n \in 0..k OBVIOUS
<1> HIDE DEF bs
<1>3. /\ rest \in Seq(Int) /\ Len(rest) = k - n
      /\ \A j \in 1..(k - n) : rest[j] = bs[n + j]
  <2>1. n \in 0..Len(bs) BY <1>1, <1>2
  <2>2. /\ rest \in Seq(Int) /\ Len(rest) = Len(bs) - n
        /\ \A j \in 1..(Len(bs) - n) : rest[j] = bs[n + j]
    BY <1>1, <2>1, Suffix
  <2> HIDE DEF rest, k
  <2> QED BY <1>1, <2>2
<1>4. 1 \in 1..(k - n) /\ n + 1 \in 1..k OBVIOUS
<1> HIDE DEF rest, k
<1>5. rest[1] = from + n
  <2>1. rest[1] = bs[n + 1] /\ bs[n + 1] = from + (n + 1) - 1 BY <1>1, <1>3, <1>4
  <2> QED BY <2>1
<1>6. 1 \in 1..Len(rest) BY <1>3, <1>4
<1>7. /\ rest[1] >= 0 => (off + 1 - 1) % Stride = rest[1] % Stride
      /\ rest[1] > 0 => r = <<>> \/ r[Len(r)] = rest[1] - 1
  <2>1. Suits(r, off, rest) BY DEF rest, bs
  <2>2. ~(1 > 1) OBVIOUS
  <2> QED BY <1>6, <2>1, <2>2 DEF Suits
<1>8. off = (from + n) % Stride
  <2>1. off + 1 - 1 = off BY StrideNat
  <2>2. off % Stride = off BY StrideNat, ModSmall
  <2>3. rest[1] >= 0 BY <1>5
  <2> QED BY <1>5, <1>7, <2>1, <2>2, <2>3
<1>9. from + n > 0 => r = <<>> \/ r[Len(r)] = from + n - 1 BY <1>5, <1>7
<1> QED BY <1>8, <1>9 DEF Fits

\* The outcome of a write decides what is retained: exactly the accepted prefix.
LEMMA ConcludeFact ==
  ASSUME Around, NEW v, NEW o, NEW p, p \in PortState, p.offset = cyc.from,
         p.offset < inp.size, ~p.after_start, Running(v), Geared(v, p),
         Wrote(v, o.w, Data(cyc.from), o.n), Conclude(o, p, cyc.from)
  PROVE  PlaybackInv'
<1> DEFINE from == cyc.from
           done == [latch_rebuild_required(p, o.st) EXCEPT
                     !.resuming = @ /\ (p.offset = 0 \/ (o.n = 0 /\ o.st = "block"))]
           more == [done EXCEPT !.offset = @ + o.n]
<1>1. from \in Nat /\ inp.size \in Nat /\ from <= inp.size BY AroundTypes
<1>2. Len(Data(from)) = inp.size - from BY <1>1, DataBytes
<1>3. /\ o.n \in 0..Len(Data(from)) /\ Sound(o.w) /\ ~o.w.shadowed /\ Running(o.w)
      /\ o.w.room = v.room /\ o.w.cap = v.cap /\ (~o.w.dead => ~v.dead)
      /\ ~o.w.dead => Suits(o.w.ring, o.w.off, SubSeq(Data(from), o.n + 1, Len(Data(from))))
      /\ o.w \in WriterState
  BY DEF Wrote, Able, Sound
<1>4. o.n \in Nat /\ o.n <= inp.size - from BY <1>1, <1>2, <1>3
<1>5. Geared(o.w, p) BY <1>3, GearedKept
<1>6. Same(p, done) /\ done.offset = p.offset /\ done.after_start = p.after_start
  BY DEF latch_rebuild_required, Same, PortState
<1>7. Same(p, more) /\ more.offset = p.offset + o.n /\ more.after_start = p.after_start
  <2>1. done \in PortState BY <1>6 DEF Same
  <2> HIDE DEF done
  <2>2. p.offset + o.n \in Nat BY <1>4, PortFields
  <2>3. /\ more \in PortState /\ more.offset = done.offset + o.n
        /\ more.after_start = done.after_start
        /\ more.setup = done.setup /\ more.block = done.block /\ more.cap = done.cap
        /\ more.target = done.target /\ more.goal = done.goal /\ more.min = done.min
    BY <1>6, <2>1, <2>2 DEF PortState
  <2> HIDE DEF more
  <2> QED BY <1>6, <2>3 DEF Same
<1>8. \/ o.n = 0 /\ EndCycle(o.w, done, "have") /\ node' = node /\ o.st = "block"
      \/ o.n < inp.size - from /\ EndCycle(o.w, more, "have") /\ node' = node
      \/ Release(o.w, done)
  BY Zenon DEF Conclude
<1> HIDE DEF done, more
<1>9. Geared(o.w, done) /\ Geared(o.w, more) BY <1>5, <1>6, <1>7, GearedSame
<1>10. ASSUME from + o.n < inp.size PROVE Owned(o.w, from + o.n)
  <2>1. o.w.off \in 0..(Stride - 1) BY <1>3, WriterFields
  <2>2. ~o.w.dead => Fits(o.w.ring, o.w.off, from + o.n)
    BY <1>1, <1>3, <1>4, <1>10, <2>1, FitsRest
  <2> QED BY <1>3, <2>2 DEF Owned
<1>11. node' = node => node' \in [started : BOOLEAN, format : BOOLEAN, buffers : BOOLEAN]
  BY DEF Around
<1>12. CASE o.n < inp.size - from /\ EndCycle(o.w, more, "have") /\ node' = node
  <2>1. from + o.n < inp.size BY <1>1, <1>4, <1>12
  <2>2. Owned(o.w, more.offset) BY <1>7, <1>10, <2>1
  <2> QED BY <1>3, <1>7, <1>9, <1>11, <1>12, <2>2, EndCycleFact DEF Same
<1>13. CASE Release(o.w, done)
  BY <1>3, <1>6, <1>9, <1>13, ReleaseFact DEF Same
<1>14. CASE o.n = 0 /\ EndCycle(o.w, done, "have") /\ node' = node
  <2>1. from + o.n < inp.size /\ from + o.n = done.offset BY <1>1, <1>6, <1>14
  <2>2. Owned(o.w, done.offset) BY <1>10, <2>1
  <2> QED BY <1>3, <1>6, <1>9, <1>11, <1>14, <2>2, EndCycleFact DEF Same
<1> QED BY <1>8, <1>12, <1>13, <1>14

-----------------------------------------------------------------------------
(* One lemma per action, or per action's case.                             *)

\* A fresh or closed device is sound and does not run.
LEMMA FreshFact ==
  /\ Sound(Fresh) /\ ~Running(Fresh) /\ ~Fresh.shadowed /\ ~Fresh.dead
  /\ Sound(Closed) /\ ~Running(Closed) /\ ~Closed.shadowed /\ ~Closed.dead
<1> DEFINE g == CHOOSE x \in Grants : TRUE
<1>1. g \in Grants BY PlaybackAssumption
<1>2. g \in Nat /\ g >= 2 * Stride BY <1>1, PlaybackAssumption
<1>3. <<>> \in Seq(Int) /\ Len(<<>>) = 0 /\ 0 \in 0..(Stride - 1) BY StrideNat
<1> HIDE DEF g
<1>4. Fresh = [state |-> "setup", off |-> 0, trig |-> FALSE, shadowed |-> FALSE,
               per |-> 0, mism |-> 0, cap |-> 0, block |-> 0,
               ring |-> <<>>, shadow |-> <<>>, room |-> g,
               on |-> FALSE, xr |-> FALSE, dead |-> FALSE]
  BY DEF Fresh, g
<1>5. Fresh \in WriterState BY <1>2, <1>3, <1>4 DEF WriterState
<1>6. /\ Fresh.state = "setup" /\ Fresh.off = 0 /\ Fresh.shadowed = FALSE
      /\ Fresh.ring = <<>> /\ Fresh.room = g /\ Fresh.dead = FALSE
  BY <1>4
<1>7. Closed \in WriterState BY <1>5 DEF WriterState, Closed
<1>8. /\ Closed.state = "closed" /\ Closed.off = Fresh.off
      /\ Closed.shadowed = Fresh.shadowed /\ Closed.ring = Fresh.ring
      /\ Closed.room = Fresh.room /\ Closed.dead = Fresh.dead
  BY <1>5 DEF WriterState, Closed
<1>9. 0 <= g BY <1>2
<1>10. Sound(Fresh) BY <1>2, <1>3, <1>5, <1>6, <1>9, FlowEmpty DEF Sound, Running
<1>11. Sound(Closed) BY <1>2, <1>3, <1>6, <1>7, <1>8, <1>9, FlowEmpty DEF Sound, Running
<1> QED BY <1>6, <1>8, <1>10, <1>11 DEF Running

\* A device that does not run commits to nothing but the order of its targets.
LEMMA IdleCore ==
  ASSUME NEW v, NEW p, Sound(v), ~Running(v), p \in PortState, p.target <= p.goal
  PROVE  /\ Geared(v, p) /\ Owned(v, p.offset)
         /\ Core(v, p, NoSnapshot)
<1>1. Geared(v, p) /\ Owned(v, p.offset) BY DEF Geared, Owned
<1> QED BY <1>1, RecentNone DEF Core

\* A started node's queue is not shadowed.
LEMMA StartedFact ==
  ASSUME PlaybackInv, node.started
  PROVE  /\ Around /\ Sound(w) /\ ~w.shadowed /\ port \in PortState
         /\ Geared(w, port) /\ Owned(w, port.offset)
         /\ port.after_start /\ Running(w) => w.dead
         /\ port.target <= port.goal
BY DEF PlaybackInv, Around, Core, Geared

\* A cycle that only releases its input.
LEMMA ReleasedFact ==
  ASSUME PlaybackInv, node.started, NEW p, Same(port, p),
         p.after_start => port.after_start, Release(w, p)
  PROVE  PlaybackInv'
<1>1. Geared(w, p) BY StartedFact, GearedSame
<1>2. p \in PortState BY DEF Same
<1> QED BY <1>1, <1>2, StartedFact, ReleaseFact

\* Cycles that end before they look at the input.
LEMMA CycleEnds ==
  ASSUME PlaybackInv,
         CycleFreewheel \/ CycleRebuilding \/ CycleNoInput
           \/ CycleReplaces \/ CycleUnnegotiated
  PROVE  PlaybackInv'
<1>0. port \in PortState BY DEF PlaybackInv, Core
<1>1. CASE CycleFreewheel
  <2>1. PICK p \in queue_required_rebuilds(port) : CycleStarts(p) /\ Release(w, p)
    BY <1>1 DEF CycleFreewheel
  <2>2. node.started BY <2>1 DEF CycleStarts
  <2> QED BY <1>0, <2>1, <2>2, QueueFact, ReleasedFact
<1>2. CASE CycleRebuilding
  <2>1. PICK p \in queue_required_rebuilds(port) : CycleStarts(p) /\ Release(w, p)
    BY <1>2 DEF CycleRebuilding
  <2>2. node.started BY <2>1 DEF CycleStarts
  <2> QED BY <1>0, <2>1, <2>2, QueueFact, ReleasedFact
<1>3. CASE CycleNoInput
  <2>1. PICK p \in queue_required_rebuilds(port) : CycleStarts(p) /\ Release(w, p)
    BY <1>3 DEF CycleNoInput
  <2>2. node.started BY <2>1 DEF CycleStarts
  <2> QED BY <1>0, <2>1, <2>2, QueueFact, ReleasedFact
<1>4. CASE CycleReplaces
  <2>1. PICK p \in queue_required_rebuilds(port), queued \in BOOLEAN :
          /\ CycleStarts(p)
          /\ Release(w, [p EXCEPT !.pending = queued,
                                  !.after_start = @ /\ (w.state = "closed" \/ ~queued)])
    BY <1>4 DEF CycleReplaces
  <2> DEFINE q == [p EXCEPT !.pending = queued,
                            !.after_start = @ /\ (w.state = "closed" \/ ~queued)]
  <2>2. Same(port, p) /\ p.after_start = port.after_start BY <1>0, QueueFact
  <2>3. p \in PortState BY <2>2 DEF Same
  <2>4. Same(p, q) /\ (q.after_start => p.after_start) BY <2>3 DEF Same, PortState
  <2>5. Release(w, q) /\ node.started BY <2>1 DEF CycleStarts
  <2> HIDE DEF q
  <2>6. Same(port, q) /\ (q.after_start => port.after_start) BY <2>2, <2>4 DEF Same
  <2> QED BY <2>5, <2>6, ReleasedFact
<1>5. CASE CycleUnnegotiated
  <2>1. PICK p \in queue_required_rebuilds(port) :
          CycleStarts(p) /\ EndCycle(w, p, inp.status) /\ node' = node
    BY <1>5 DEF CycleUnnegotiated
  <2>2. node.started BY <2>1 DEF CycleStarts
  <2>3. /\ Same(port, p) /\ p.offset = port.offset /\ p.after_start = port.after_start
        /\ p \in PortState
    BY <1>0, QueueFact DEF Same
  <2>4. Geared(w, p) BY <2>2, <2>3, StartedFact, GearedSame
  <2>5. node' \in [started : BOOLEAN, format : BOOLEAN, buffers : BOOLEAN]
    BY <2>1 DEF PlaybackInv, Around
  <2>6. Owned(w, p.offset) BY <2>2, <2>3, StartedFact
  <2> QED BY <2>1, <2>2, <2>3, <2>4, <2>5, <2>6, StartedFact, EndCycleFact
<1> QED BY <1>1, <1>2, <1>3, <1>4, <1>5

\* A port whose device was swapped retains nothing.
LEMMA SwappedFact ==
  ASSUME NEW p \in PortState
  PROVE  LET q == on_device_swapped(p)
         IN  Same(p, q) /\ q.offset = 0 /\ ~q.after_start
<1> DEFINE r == [reset_stream_epoch(p) EXCEPT
                   !.xrun = FALSE, !.resuming = FALSE, !.after_start = FALSE]
<1>1. Same(p, r) /\ ~r.after_start BY DEF reset_stream_epoch, Same, PortState
<1>2. on_device_swapped(p) = clear_pending_write(r) BY DEF on_device_swapped
<1> HIDE DEF r
<1>3. r \in PortState BY <1>1 DEF Same
<1>4. Same(r, clear_pending_write(r)) /\ clear_pending_write(r).offset = 0
      /\ clear_pending_write(r).after_start = r.after_start
  BY <1>3, ClearFact
<1> QED BY <1>1, <1>2, <1>4 DEF Same

\* A configured port has no targets beyond the old ones.
LEMMA ConfiguredFact ==
  ASSUME NEW p \in PortState, NEW q \in Configured(p)
  PROVE  q \in PortState /\ q.target = p.target /\ q.goal = p.goal
<1> DEFINE s == on_device_swapped(p)
<1>1. PICK b \in {0} \cup Blocks : q = [s EXCEPT !.pending = FALSE, !.block = b]
  BY DEF Configured
<1>2. Same(p, s) BY SwappedFact
<1>3. b \in Nat BY <1>1, PlaybackAssumption
<1> HIDE DEF s
<1>4. s \in PortState /\ s.target = p.target /\ s.goal = p.goal BY <1>2 DEF Same
<1> QED BY <1>1, <1>3, <1>4 DEF PortState

\* A rebuild that came back, whatever its result.
LEMMA RebuildEnds ==
  ASSUME PlaybackInv,
         RebuildInstalled \/ RebuildAborted \/ RebuildRetried \/ RebuildFailed
  PROVE  PlaybackInv'
<1>0. port \in PortState /\ port.target <= port.goal /\ Around
  BY DEF PlaybackInv, Core, Geared
<1>1. CASE RebuildInstalled
  <2>1. /\ cyc.pc = "idle" /\ w' = Fresh /\ port' \in Configured(port)
        /\ snap' = NoSnapshot /\ UNCHANGED <<inp, cyc, node, period>>
    BY <1>1 DEF RebuildInstalled
  <2>2. port' \in PortState /\ port'.target <= port'.goal
    <3>1. port' \in PortState /\ port'.target = port.target /\ port'.goal = port.goal
      BY <1>0, <2>1, ConfiguredFact
    <3> QED BY <1>0, <3>1
  <2>3. Core(w', port', snap') BY <2>1, <2>2, FreshFact, IdleCore
  <2>4. Around' BY <1>0, <2>1, FreshFact DEF Around
  <2> QED BY <2>3, <2>4 DEF PlaybackInv
<1>2. CASE RebuildAborted
  <2> DEFINE p == [port EXCEPT !.pending = FALSE]
  <2>1. node.started /\ Release(w, p) BY <1>2 DEF RebuildAborted
  <2>2. Same(port, p) /\ p.after_start = port.after_start BY <1>0 DEF Same, PortState
  <2> HIDE DEF p
  <2> QED BY <2>1, <2>2, ReleasedFact
<1>3. CASE RebuildRetried
  <2> DEFINE p == reset_stream_epoch(port)
  <2>1. Release(Closed, p) BY <1>3 DEF RebuildRetried
  <2>2. p \in PortState /\ p.target = port.target /\ p.goal = port.goal
    BY <1>0 DEF reset_stream_epoch, PortState
  <2> HIDE DEF p
  <2>3. p.target <= p.goal BY <1>0, <2>2
  <2>4. Geared(Closed, p) BY <2>2, <2>3, FreshFact, IdleCore
  <2> QED BY <1>0, <2>1, <2>2, <2>4, FreshFact, ReleaseFact
<1>4. CASE RebuildFailed
  <2> DEFINE s == on_device_swapped(port)
             p == [s EXCEPT !.pending = FALSE]
  <2>1. EndCycle(Closed, p, "need") /\ node' = [node EXCEPT !.format = FALSE]
    BY <1>4 DEF RebuildFailed
  <2>2. Same(port, s) BY <1>0, SwappedFact
  <2> HIDE DEF s
  <2>3. p \in PortState /\ p.target = port.target /\ p.goal = port.goal
    BY <2>2 DEF Same, PortState
  <2> HIDE DEF p
  <2>4. p.target <= p.goal BY <1>0, <2>3
  <2>5. Geared(Closed, p) /\ Owned(Closed, p.offset) BY <2>3, <2>4, FreshFact, IdleCore
  <2>6. node' \in [started : BOOLEAN, format : BOOLEAN, buffers : BOOLEAN]
    BY <1>0, <2>1 DEF Around
  <2> QED BY <1>0, <2>1, <2>3, <2>5, <2>6, FreshFact, EndCycleFact
<1> QED BY <1>1, <1>2, <1>3, <1>4

-----------------------------------------------------------------------------
(* The input and the retune.                                               *)

(* The writer u is v but for its bookkeeping of the period and of xruns.   *)
Twin(v, u) ==
    /\ u \in WriterState
    /\ u.state = v.state /\ u.off = v.off /\ u.shadowed = v.shadowed /\ u.cap = v.cap
    /\ u.ring = v.ring /\ u.shadow = v.shadow /\ u.room = v.room /\ u.dead = v.dead

\* Bookkeeping does not touch the queue.
LEMMA TwinSound ==
  ASSUME NEW v, NEW u, Sound(v), Twin(v, u)
  PROVE  Sound(u)
BY DEF Sound, Twin, Running

\* Bookkeeping, and a port with the same geometry and offset.
LEMMA TwinCore ==
  ASSUME NEW v, NEW p, NEW s, Core(v, p, s), NEW u, Twin(v, u), NEW q, Same(p, q),
         q.offset = p.offset, q.after_start => p.after_start
  PROVE  Core(u, q, s)
<1>1. Sound(u) BY TwinSound DEF Core
<1>2. Running(u) <=> Running(v) BY DEF Twin, Running
<1>3. Owned(u, q.offset)
  <2>1. Owned(v, p.offset) BY DEF Core
  <2> QED BY <1>2, <2>1 DEF Owned, Twin
<1>4. Geared(u, q)
  <2>1. Geared(v, p) BY DEF Core
  <2>2. Geared(u, p) BY <1>2, <2>1, GearedKept DEF Twin
  <2> QED BY <2>2, GearedSame
<1>5. Recent(u, s)
  <2>1. Recent(v, s) BY DEF Core
  <2> QED BY <2>1 DEF Recent, Twin
<1>6. q \in PortState BY DEF Same
<1> QED BY <1>1, <1>2, <1>3, <1>4, <1>5, <1>6 DEF Core, Twin

\* A writer and a port are twins of themselves.
LEMMA TwinSelf ==
  ASSUME NEW v, NEW p, NEW s, Core(v, p, s)
  PROVE  Twin(v, v) /\ Same(p, p)
BY DEF Core, Sound, Twin, Same

(* What a usable cycle has when the retune decides.                        *)
Taken(t) ==
    /\ cyc.pc = "idle" /\ node.started
    /\ Core(t.w, t.port, t.snap)
    /\ t.w.state # "closed" /\ ~t.w.shadowed /\ ~t.port.after_start
    /\ t.port.offset \in Nat /\ t.port.offset <= inp.size

\* The buffer goes on behind its accepted prefix, or the old one has ended.
LEMMA TakesFact ==
  ASSUME PlaybackInv, NEW t, CycleInput(t)
  PROVE  Taken(t)
<1>1. PICK p \in queue_required_rebuilds(port) :
         CycleStarts(p) /\ Usable(p) /\ t \in Takes(p)
  BY DEF CycleInput
<1>2. /\ node.started /\ cyc.pc = "idle" /\ w.state # "closed" /\ ~p.after_start
  BY <1>1 DEF CycleStarts, Usable
<1>3. Core(w, port, snap) /\ Around /\ ~w.shadowed BY <1>2, StartedFact DEF PlaybackInv
<1>4. port \in PortState BY <1>3 DEF Core
<1>5. Same(port, p) /\ p.offset = port.offset /\ p.after_start = port.after_start
  BY <1>4, QueueFact
<1>6. Core(w, p, snap) BY <1>3, <1>5, TwinSelf, TwinCore
<1>7. p \in PortState /\ p.offset \in Nat /\ Sound(w) /\ inp.size \in Nat
      /\ inp.buffer \in Buffers \cup {NoBuffer}
  BY <1>3, <1>6, PortFields, AroundTypes DEF Core
<1> DEFINE changed == p.offset # 0 /\ (p.buffer # inp.buffer \/ p.offset > inp.size)
           z == [p EXCEPT !.buffer = inp.buffer, !.offset = 0]
           q == IF changed \/ p.buffer # inp.buffer THEN z ELSE p
           ends == IF changed THEN end_buffer_sequence(w) ELSE {[w |-> w, reset |-> FALSE]}
<1>8. PICK e \in ends :
         t = [w |-> e.w, port |-> q, snap |-> IF e.reset THEN NoSnapshot ELSE snap]
  BY <1>1 DEF Takes
<1>9. t.w = e.w /\ t.port = q /\ t.snap = (IF e.reset THEN NoSnapshot ELSE snap)
  BY <1>8
<1>10. Same(p, z) /\ z.offset = 0 /\ z.after_start = p.after_start
  BY <1>7 DEF Same, PortState
<1> HIDE DEF z
<1>11. CASE changed
  <2>1. q = z /\ e \in end_buffer_sequence(w) BY <1>8, <1>11
  <2>2. Ended(w, e.w, e.reset) BY <1>7, <2>1, EndFact
  <2>3. Core(e.w, z, IF e.reset THEN NoSnapshot ELSE snap)
    BY <1>6, <1>10, <2>2, EndedCore
  <2>4. e.w.state # "closed" /\ ~e.w.shadowed BY <1>2, <1>3, <2>2 DEF Ended
  <2>5. 0 \in Nat /\ 0 <= inp.size BY <1>7
  <2> QED BY <1>2, <1>9, <1>10, <2>1, <2>3, <2>4, <2>5 DEF Taken
<1>12. CASE ~changed
  <2>1. e = [w |-> w, reset |-> FALSE] BY <1>8, <1>12
  <2>2. t.w = w /\ t.snap = snap BY <1>9, <2>1
  <2>3. CASE p.buffer # inp.buffer
    <3>1. q = z /\ p.offset = 0 BY <1>12, <2>3
    <3>2. Core(w, z, snap) BY <1>6, <1>10, <3>1, TwinSelf, TwinCore
    <3>3. 0 \in Nat /\ 0 <= inp.size BY <1>7
    <3> QED BY <1>2, <1>3, <1>9, <1>10, <2>2, <3>1, <3>2, <3>3 DEF Taken
  <2>4. CASE p.buffer = inp.buffer
    <3>1. q = p BY <1>12, <2>4
    <3>2. p.offset <= inp.size BY <1>7, <1>12, <2>4
    <3> QED BY <1>2, <1>3, <1>6, <1>7, <1>9, <2>2, <3>1, <3>2 DEF Taken
  <2> QED BY <2>3, <2>4
<1> QED BY <1>11, <1>12

\* The cycle goes on with what the retune made of stream and port.
LEMMA RetunedFact ==
  ASSUME Around, cyc.pc = "idle", node.started, NEW v, NEW p, NEW s, NEW r \in BOOLEAN,
         Retuned(v, p, s, r), Core(v, p, s), v.state # "closed", ~v.shadowed,
         ~p.after_start, p.offset \in Nat, p.offset < inp.size
  PROVE  PlaybackInv'
<1>1. /\ w' = v /\ port' = p /\ snap' = s
      /\ cyc' = [pc |-> "prepare", from |-> p.offset, retuned |-> r]
      /\ inp' = inp /\ node' = node /\ period' = period
  BY DEF Retuned
<1>2. /\ cyc' \in [pc : {"idle", "prepare", "write"}, from : Nat, retuned : BOOLEAN]
      /\ cyc'.pc = "prepare" /\ cyc'.from = p.offset
  BY <1>1
<1>3. Core(w', port', snap') BY <1>1
<1>4. Around' BY <1>1, <1>2 DEF Around
<1> QED BY <1>3, <1>4 DEF PlaybackInv

\* A writer with another mismatch count, or another period in force.
LEMMA RetuneTwin ==
  ASSUME NEW v \in WriterState, NEW m \in 0..2, NEW per \in Nat
  PROVE  /\ Twin(v, [v EXCEPT !.mism = m])
         /\ Twin(v, [v EXCEPT !.per = per, !.mism = m])
BY DEF Twin, WriterState

\* Nothing is left of the buffer.
LEMMA NothingLeft ==
  ASSUME PlaybackInv, CycleNothingLeft
  PROVE  PlaybackInv'
<1>1. PICK t \in Inputs : CycleInput(t) /\ Release(t.w, t.port)
  BY DEF CycleNothingLeft
<1>2. Taken(t) BY <1>1, TakesFact
<1> QED BY <1>1, <1>2, ReleaseFact DEF PlaybackInv, Taken, Core

\* The period is unchanged, or its change is not yet confirmed.
LEMMA RetuneWaits ==
  ASSUME PlaybackInv, RetuneUnchanged \/ RetunePending
  PROVE  PlaybackInv'
<1>1. CASE RetuneUnchanged
  <2>1. PICK t \in Inputs :
          /\ CycleRetune(t)
          /\ Retuned([t.w EXCEPT !.mism = 0],
                     [t.port EXCEPT !.retune_pending = FALSE], t.snap, FALSE)
    BY <1>1 DEF RetuneUnchanged
  <2> DEFINE v == [t.w EXCEPT !.mism = 0]
             p == [t.port EXCEPT !.retune_pending = FALSE]
  <2>2. Taken(t) /\ t.port.offset # inp.size BY <2>1, TakesFact DEF CycleRetune
  <2>3. t.w \in WriterState /\ t.port \in PortState /\ Around /\ inp.size \in Nat
    BY <2>2, AroundTypes DEF Taken, Core, Sound, PlaybackInv
  <2>4. Twin(t.w, v)
    <3>1. 0 \in 0..2 /\ 0 \in Nat OBVIOUS
    <3> QED BY <2>3, <3>1, RetuneTwin
  <2>5. Same(t.port, p) /\ p.offset = t.port.offset /\ p.after_start = t.port.after_start
    BY <2>3 DEF Same, PortState
  <2>6. Retuned(v, p, t.snap, FALSE) BY <2>1
  <2> HIDE DEF v, p
  <2>7. Core(v, p, t.snap) BY <2>2, <2>4, <2>5, TwinCore DEF Taken
  <2>8. v.state # "closed" /\ ~v.shadowed BY <2>2, <2>4 DEF Taken, Twin
  <2>9. p.offset \in Nat /\ p.offset < inp.size BY <2>2, <2>3, <2>5 DEF Taken
  <2> QED BY <2>2, <2>3, <2>5, <2>6, <2>7, <2>8, <2>9, RetunedFact DEF Taken
<1>2. CASE RetunePending
  <2>1. PICK t \in Inputs :
          /\ CycleRetune(t) /\ t.w.mism + 1 < 2
          /\ Retuned([t.w EXCEPT !.mism = @ + 1],
                     [t.port EXCEPT !.retune_pending = TRUE], t.snap, FALSE)
    BY <1>2 DEF RetunePending
  <2> DEFINE v == [t.w EXCEPT !.mism = @ + 1]
             p == [t.port EXCEPT !.retune_pending = TRUE]
  <2>2. Taken(t) /\ t.port.offset # inp.size BY <2>1, TakesFact DEF CycleRetune
  <2>3. t.w \in WriterState /\ t.port \in PortState /\ Around /\ inp.size \in Nat
    BY <2>2, AroundTypes DEF Taken, Core, Sound, PlaybackInv
  <2>4. Twin(t.w, v)
    <3>1. t.w.mism \in 0..2 BY <2>3, WriterFields
    <3>2. t.w.mism + 1 \in 0..2 BY <2>1, <3>1
    <3>3. 0 \in Nat OBVIOUS
    <3> QED BY <2>3, <3>2, <3>3, RetuneTwin
  <2>5. Same(t.port, p) /\ p.offset = t.port.offset /\ p.after_start = t.port.after_start
    BY <2>3 DEF Same, PortState
  <2>6. Retuned(v, p, t.snap, FALSE) BY <2>1
  <2> HIDE DEF v, p
  <2>7. Core(v, p, t.snap) BY <2>2, <2>4, <2>5, TwinCore DEF Taken
  <2>8. v.state # "closed" /\ ~v.shadowed BY <2>2, <2>4 DEF Taken, Twin
  <2>9. p.offset \in Nat /\ p.offset < inp.size BY <2>2, <2>3, <2>5 DEF Taken
  <2> QED BY <2>2, <2>3, <2>5, <2>6, <2>7, <2>8, <2>9, RetunedFact DEF Taken
<1> QED BY <1>1, <1>2

(* The geometry g is the one of the period per in the ring of v.           *)
Suited(v, per, g) ==
    /\ g.capacity = v.cap /\ g.quantum \in Nat /\ g.target \in Nat /\ g.target <= g.goal
    /\ g.goal = playback_target_delay(v.cap, per, g.quantum, per,
                                      playback_desired_delay(per, Eighths))
    /\ g.minimum = playback_fill_floor(per, g.quantum)

\* A committed geometry is in force.
LEMMA CommitFact ==
  ASSUME NEW v, v.cap \in Nat, v.cap <= CapacityMax, ~v.dead => v.cap = v.room,
         NEW p \in PortState, NEW per \in Nat, per >= Stride, NEW g, Suited(v, per, g)
  PROVE  LET c == commit_geometry(p, per, g)
         IN  /\ c \in PortState /\ Geared(v, c)
             /\ c.offset = p.offset /\ c.after_start = p.after_start
<1> DEFINE c == commit_geometry(p, per, g)
           d == playback_desired_delay(per, Eighths)
<1>1. d \in Nat /\ g.quantum \in Nat BY FloorFact DEF Suited
<1>2. g.goal \in Nat /\ g.minimum \in Nat
  <2>1. g.goal = playback_target_delay(v.cap, per, g.quantum, per, d) BY DEF Suited
  <2>2. playback_target_delay(v.cap, per, g.quantum, per, d) \in Nat
    BY <1>1, GoalRange
  <2>3. playback_fill_floor(per, g.quantum) \in Nat BY <1>1, FloorFact
  <2> QED BY <2>1, <2>2, <2>3 DEF Suited
<1>3. g.capacity \in Nat /\ g.target \in Nat BY DEF Suited
<1> HIDE DEF d
<1>4. c = [p EXCEPT !.setup = per, !.block = g.quantum, !.cap = g.capacity,
                    !.target = g.target, !.goal = g.goal, !.min = g.minimum]
  BY DEF commit_geometry
<1> HIDE DEF c
<1>5. c \in PortState BY <1>1, <1>2, <1>3, <1>4 DEF PortState
<1>6. /\ c.setup = per /\ c.block = g.quantum /\ c.cap = g.capacity
      /\ c.target = g.target /\ c.goal = g.goal /\ c.min = g.minimum
      /\ c.offset = p.offset /\ c.after_start = p.after_start
  BY <1>4 DEF PortState
<1>7. Geared(v, c) BY <1>6 DEF Geared, Suited
<1> QED BY <1>5, <1>6, <1>7 DEF c

\* The geometry applied to a ring suits it.
LEMMA AppliedSuits ==
  ASSUME NEW v, v.cap \in Nat, v.cap <= CapacityMax, NEW per \in Nat, per >= Stride,
         NEW q \in Nat
  PROVE  LET g == playback_applied_geometry(per, per, v.cap, q, Eighths)
         IN  /\ Suited(v, per, g) /\ g.target = g.goal /\ g.goal \in Nat
             /\ g.goal <= v.cap
<1> DEFINE g == playback_applied_geometry(per, per, v.cap, q, Eighths)
           d == playback_desired_delay(per, Eighths)
           x == playback_target_delay(v.cap, per, q, per, d)
<1>1. d \in Nat BY FloorFact
<1>2. x \in Nat /\ x <= v.cap BY <1>1, GoalRange
<1>3. /\ g.capacity = v.cap /\ g.quantum = q /\ g.target = x /\ g.goal = x
      /\ g.minimum = playback_fill_floor(per, q)
  BY DEF playback_applied_geometry
<1> HIDE DEF x, g
<1>4. g.target <= g.goal /\ g.target \in Nat BY <1>2, <1>3
<1>5. Suited(v, per, g) BY <1>3, <1>4 DEF Suited, x
<1> QED BY <1>2, <1>3, <1>5 DEF g

\* A prediction is a number.
LEMMA PredictedFact ==
  ASSUME NEW a \in Nat, NEW b \in Nat, NEW c \in Nat
  PROVE  predicted_next_fill(a, b, c) \in Nat
<1>1. a + b \in Nat OBVIOUS
<1>2. Sat(a + b) \in Nat BY <1>1, SatFact
<1> QED BY <1>2, LessFact DEF predicted_next_fill

\* A confirmed period that the ring can hold is adopted in place.
LEMMA RetuneAdopts ==
  ASSUME PlaybackInv, RetuneInPlace
  PROVE  PlaybackInv'
<1>1. PICK t \in Inputs :
         /\ RetuneDue(t, TRUE)
         /\ Retuned([t.w EXCEPT !.per = period, !.mism = 0],
                    [commit_geometry(t.port, period, RetuneGeometry(t)) EXCEPT
                       !.retune_pending = FALSE], t.snap, TRUE)
  BY DEF RetuneInPlace
<1> DEFINE v == [t.w EXCEPT !.per = period, !.mism = 0]
           g == RetuneGeometry(t)
           c == commit_geometry(t.port, period, g)
           p == [c EXCEPT !.retune_pending = FALSE]
           fill == IF t.snap # NoSnapshot THEN t.snap ELSE Len(t.w.ring)
           a == playback_applied_geometry(period, period, t.w.cap, t.w.block, Eighths)
           n == predicted_next_fill(fill, inp.size - t.port.offset, period)
<1>2. Taken(t) /\ t.port.offset # inp.size /\ Running(t.w) /\ period # 0
  BY <1>1, TakesFact DEF RetuneDue, CycleRetune, SamePeriod
<1>3. /\ t.w \in WriterState /\ t.port \in PortState /\ Around /\ inp.size \in Nat
      /\ period \in Nat /\ period >= Stride /\ Sound(t.w)
  BY <1>2, AroundTypes DEF Taken, Core, Sound, PlaybackInv
<1>4. /\ t.w.cap \in Nat /\ t.w.cap <= CapacityMax /\ (~t.w.dead => t.w.cap = t.w.room)
      /\ t.w.block \in Nat /\ Len(t.w.ring) \in Nat
  BY <1>2, <1>3, WriterFields DEF Taken, Core, Geared
<1>5. fill \in Nat BY <1>2, <1>4 DEF Taken, Core, Recent
<1>6. n \in Nat
  <2>1. inp.size - t.port.offset \in Nat BY <1>2, <1>3 DEF Taken
  <2> QED BY <1>3, <1>5, <2>1, PredictedFact
<1>7. Suited(t.w, period, a) /\ a.goal \in Nat BY <1>3, <1>4, AppliedSuits
<1>8. g = [a EXCEPT !.target = Least(a.goal, n)]
  BY DEF RetuneGeometry, playback_retuned_geometry
<1>9. /\ g.capacity = a.capacity /\ g.quantum = a.quantum /\ g.goal = a.goal
      /\ g.minimum = a.minimum /\ g.target = Least(a.goal, n)
  <2>1. a = [capacity |-> a.capacity, quantum |-> a.quantum, target |-> a.target,
             goal |-> a.goal, minimum |-> a.minimum, required |-> a.required]
    BY DEF playback_applied_geometry
  <2> HIDE DEF a, g, n
  <2> QED BY <1>8, <2>1
<1> HIDE DEF a, g, n, fill
<1>10. Suited(t.w, period, g)
  <2>1. Least(a.goal, n) \in Nat /\ Least(a.goal, n) <= a.goal BY <1>6, <1>7 DEF Least
  <2> QED BY <1>7, <1>9, <2>1 DEF Suited
<1>11. /\ c \in PortState /\ Geared(t.w, c)
       /\ c.offset = t.port.offset /\ c.after_start = t.port.after_start
  BY <1>3, <1>4, <1>10, CommitFact
<1>12. Retuned(v, p, t.snap, TRUE) BY <1>1 DEF g
<1>13. Core(t.w, c, t.snap) BY <1>2, <1>11 DEF Taken, Core
<1> HIDE DEF c
<1>14. Same(c, p) /\ p.offset = c.offset /\ p.after_start = c.after_start
  BY <1>11 DEF Same, PortState
<1>15. Twin(t.w, v)
  <2>1. 0 \in 0..2 OBVIOUS
  <2> QED BY <1>3, <2>1, RetuneTwin
<1> HIDE DEF p, v
<1>16. Core(v, p, t.snap) BY <1>13, <1>14, <1>15, TwinCore
<1>17. v.state # "closed" /\ ~v.shadowed BY <1>2, <1>15 DEF Taken, Twin
<1>18. p.offset \in Nat /\ p.offset < inp.size BY <1>2, <1>3, <1>11, <1>14 DEF Taken
<1>19. ~p.after_start BY <1>2, <1>11, <1>14 DEF Taken
<1> QED BY <1>2, <1>3, <1>12, <1>16, <1>17, <1>18, <1>19, RetunedFact DEF Taken

\* A ring that is too small is reset, to be primed again.
LEMMA RetuneResets ==
  ASSUME PlaybackInv, RetuneReprime
  PROVE  PlaybackInv'
<1>1. PICK t \in Inputs :
         /\ RetuneDue(t, FALSE)
         /\ \E s \in suspend(t.w) :
              /\ s.ok
              /\ Retuned([s.w EXCEPT !.mism = 0],
                         [reset_stream_epoch(t.port) EXCEPT !.retune_pending = FALSE,
                                                            !.xrun = FALSE],
                         NoSnapshot, TRUE)
  BY DEF RetuneReprime
<1>2. PICK s \in suspend(t.w) :
         /\ s.ok
         /\ Retuned([s.w EXCEPT !.mism = 0],
                    [reset_stream_epoch(t.port) EXCEPT !.retune_pending = FALSE,
                                                       !.xrun = FALSE],
                    NoSnapshot, TRUE)
  BY <1>1
<1> DEFINE v == [s.w EXCEPT !.mism = 0]
           p == [reset_stream_epoch(t.port) EXCEPT !.retune_pending = FALSE, !.xrun = FALSE]
<1>3. Taken(t) /\ t.port.offset # inp.size /\ Running(t.w)
  BY <1>1, TakesFact DEF RetuneDue, CycleRetune, SamePeriod
<1>4. /\ t.w \in WriterState /\ t.port \in PortState /\ Around /\ inp.size \in Nat
      /\ t.w.room >= 2 * Stride
  BY <1>3, AroundTypes DEF Taken, Core, Sound, PlaybackInv
<1>5. IsReset(t.w, s.w) BY <1>2, <1>3, <1>4, SuspendFact
<1>6. Twin(s.w, v)
  <2>1. s.w \in WriterState BY <1>5 DEF IsReset, Sound
  <2>2. 0 \in 0..2 /\ 0 \in Nat OBVIOUS
  <2> QED BY <2>1, <2>2, RetuneTwin
<1>7. Same(t.port, p) /\ p.offset = t.port.offset /\ p.after_start = t.port.after_start
  BY <1>4 DEF reset_stream_epoch, Same, PortState
<1>8. Retuned(v, p, NoSnapshot, TRUE) BY <1>2
<1> HIDE DEF v, p
<1>9. Sound(v) /\ ~Running(v) /\ v.state = "setup" /\ ~v.shadowed
  BY <1>5, <1>6, TwinSound DEF IsReset, Twin, Running
<1>10. p \in PortState /\ p.target <= p.goal
  BY <1>3, <1>7 DEF Same, Taken, Core, Geared
<1>11. Core(v, p, NoSnapshot) BY <1>9, <1>10, IdleCore
<1>12. p.offset \in Nat /\ p.offset < inp.size BY <1>3, <1>4, <1>7 DEF Taken
<1>13. ~p.after_start BY <1>3, <1>7 DEF Taken
<1> QED BY <1>3, <1>4, <1>8, <1>9, <1>11, <1>12, <1>13, RetunedFact DEF Taken

\* A dead device refuses the reset.
LEMMA RetuneRefusal ==
  ASSUME PlaybackInv, RetuneRefused
  PROVE  PlaybackInv'
<1>1. PICK t \in Inputs :
         /\ RetuneDue(t, FALSE)
         /\ \E s \in suspend(t.w) :
              /\ ~s.ok
              /\ LET v == [s.w EXCEPT !.mism = Least(@ + 1, 2)]
                     p == [t.port EXCEPT !.retune_pending = TRUE]
                 IN  \/ Release(v, [p EXCEPT !.pending = TRUE])
                     \/ Retuned(v, p, t.snap, FALSE)
  BY DEF RetuneRefused
<1>2. PICK s \in suspend(t.w) :
         /\ ~s.ok
         /\ LET v == [s.w EXCEPT !.mism = Least(@ + 1, 2)]
                p == [t.port EXCEPT !.retune_pending = TRUE]
            IN  \/ Release(v, [p EXCEPT !.pending = TRUE])
                \/ Retuned(v, p, t.snap, FALSE)
  BY <1>1
<1> DEFINE v == [s.w EXCEPT !.mism = Least(@ + 1, 2)]
           p == [t.port EXCEPT !.retune_pending = TRUE]
           q == [p EXCEPT !.pending = TRUE]
<1>3. Taken(t) /\ t.port.offset # inp.size /\ Running(t.w)
  BY <1>1, TakesFact DEF RetuneDue, CycleRetune, SamePeriod
<1>4. /\ t.w \in WriterState /\ t.port \in PortState /\ Around /\ inp.size \in Nat
      /\ t.w.room >= 2 * Stride
  BY <1>3, AroundTypes DEF Taken, Core, Sound, PlaybackInv
<1>5. s.w = t.w BY <1>2, <1>3, <1>4, SuspendFact
<1>6. Twin(t.w, v)
  <2>1. t.w.mism \in 0..2 BY <1>4, WriterFields
  <2>2. Least(t.w.mism + 1, 2) \in 0..2 BY <2>1 DEF Least
  <2>3. 0 \in Nat OBVIOUS
  <2>4. v = [t.w EXCEPT !.mism = Least(t.w.mism + 1, 2)] BY <1>5
  <2> QED BY <1>4, <2>2, <2>3, <2>4, RetuneTwin
<1>7. Same(t.port, p) /\ p.offset = t.port.offset /\ p.after_start = t.port.after_start
  BY <1>4 DEF Same, PortState
<1>8. Release(v, q) \/ Retuned(v, p, t.snap, FALSE) BY <1>2
<1> HIDE DEF v, p
<1>9. Same(p, q) /\ q.offset = p.offset /\ q.after_start = p.after_start
  BY <1>7 DEF Same, PortState
<1> HIDE DEF q
<1>10. Core(v, p, t.snap) BY <1>3, <1>6, <1>7, TwinCore DEF Taken
<1>11. Core(v, q, t.snap) BY <1>9, <1>10, TwinSelf, TwinCore
<1>12. v.state # "closed" /\ ~v.shadowed BY <1>3, <1>6 DEF Taken, Twin
<1>13. p.offset \in Nat /\ p.offset < inp.size BY <1>3, <1>4, <1>7 DEF Taken
<1>14. ~p.after_start BY <1>3, <1>7 DEF Taken
<1>15. CASE Release(v, q)
  BY <1>4, <1>11, <1>12, <1>15, ReleaseFact DEF Core
<1>16. CASE Retuned(v, p, t.snap, FALSE)
  BY <1>3, <1>4, <1>10, <1>12, <1>13, <1>14, <1>16, RetunedFact DEF Taken
<1> QED BY <1>8, <1>15, <1>16

-----------------------------------------------------------------------------
(* Preparing the stream.                                                   *)

(* The port q has the geometry of p but for a target within the goal.      *)
Aimed(p, q) ==
    /\ q \in PortState
    /\ q.setup = p.setup /\ q.block = p.block /\ q.cap = p.cap
    /\ q.goal = p.goal /\ q.min = p.min /\ q.target <= q.goal
    /\ q.offset = p.offset /\ q.after_start = p.after_start

\* A target may move within its goal.
LEMMA GearedAimed ==
  ASSUME NEW v, NEW p, NEW q, Geared(v, p), Aimed(p, q)
  PROVE  Geared(v, q)
BY DEF Geared, Aimed

\* Inside a cycle the node runs and the buffer has bytes left.
LEMMA InCycle ==
  ASSUME PlaybackInv, cyc.pc # "idle"
  PROVE  /\ node.started /\ Around /\ Core(w, port, snap) /\ Sound(w) /\ ~w.shadowed
         /\ w \in WriterState /\ port \in PortState /\ Geared(w, port)
         /\ w.state # "closed" /\ ~port.after_start /\ cyc.from = port.offset
         /\ cyc.from \in Nat /\ inp.size \in Nat /\ port.offset < inp.size
         /\ port.target <= port.goal /\ period \in Nat
<1>1. node.started /\ Around BY DEF PlaybackInv, Around
<1>2. cyc.from \in Nat /\ inp.size \in Nat /\ period \in Nat BY <1>1, AroundTypes
<1> QED BY <1>1, <1>2, StartedFact DEF PlaybackInv, Around, Core, Sound

\* The stream is prepared; the write comes next.
LEMMA ToWriteFact ==
  ASSUME PlaybackInv, cyc.pc # "idle", NEW v, NEW p, NEW from \in Nat, ToWrite(v, p, from),
         Core(v, p, snap), Running(v), ~v.shadowed, ~p.after_start, from = p.offset,
         from < inp.size
  PROVE  PlaybackInv'
<1>1. /\ w' = v /\ port' = p /\ cyc' = [cyc EXCEPT !.pc = "write", !.from = from]
      /\ inp' = inp /\ node' = node /\ period' = period /\ snap' = snap
  BY DEF ToWrite
<1>2. Around /\ node.started BY InCycle
<1>3. /\ cyc' \in [pc : {"idle", "prepare", "write"}, from : Nat, retuned : BOOLEAN]
      /\ cyc'.from = from
  BY <1>1, <1>2 DEF Around
<1>4. v.state # "closed" BY DEF Running
<1>5. Around' BY <1>1, <1>2, <1>3, <1>4 DEF Around
<1> QED BY <1>1, <1>5 DEF PlaybackInv

\* The fields of a primed writer.
LEMMA PrimedFact ==
  ASSUME NEW v, Sound(v), v.state = "setup", NEW room \in Nat, room >= 2 * Stride,
         NEW cap \in Nat, NEW block \in Nat, period \in Nat
  PROVE  LET u == Primed(v, room, cap, block)
         IN  /\ Sound(u) /\ u.state = "setup" /\ ~u.shadowed /\ u.off = 0 /\ Len(u.ring) = 0
             /\ u.room = room /\ u.cap = cap /\ u.dead = v.dead
<1> DEFINE u == Primed(v, room, cap, block)
<1>1. v \in WriterState /\ v.off = 0 /\ v.ring = <<>> /\ ~v.shadowed
  BY DEF Sound, Running
<1>2. u \in WriterState
  <2>1. 0 \in 0..2 OBVIOUS
  <2>2. u = [v EXCEPT !.room = room, !.cap = cap, !.block = block, !.per = period, !.mism = 0]
    BY DEF Primed
  <2> HIDE DEF u
  <2> QED BY <1>1, <2>1, <2>2 DEF WriterState
<1>3. /\ u.state = "setup" /\ u.shadowed = v.shadowed /\ u.off = v.off /\ u.ring = v.ring
      /\ u.room = room /\ u.cap = cap /\ u.dead = v.dead
  BY <1>1 DEF Primed, WriterState
<1> HIDE DEF u
<1>4. Len(u.ring) = 0 BY <1>1, <1>3
<1>5. Sound(u) BY <1>1, <1>2, <1>3, <1>4, FlowEmpty DEF Sound, Running
<1> QED BY <1>1, <1>3, <1>4, <1>5 DEF u

\* A ring is asked for, granted, measured and filled to its target.
LEMMA Primes ==
  ASSUME PlaybackInv, PreparePrime
  PROVE  PlaybackInv'
<1>1. cyc.pc = "prepare" /\ ~Running(w) /\ period # 0 BY DEF PreparePrime
<1>2. PICK room \in {g \in Grants : g <= Asked}, block \in Blocks :
         LET cap == IF w.dead THEN 0 ELSE room
             g   == playback_applied_geometry(period, period, cap, block, Eighths)
             p   == [port EXCEPT !.offset = 0, !.resuming = FALSE]
         IN  \E v \in write_silence(Primed(w, room, cap, block), g.target) :
               ToWrite(v, commit_geometry(p, period, g), 0)
  BY DEF PreparePrime
<1> DEFINE cap == IF w.dead THEN 0 ELSE room
           b == Primed(w, room, cap, block)
           g == playback_applied_geometry(period, period, cap, block, Eighths)
           p == [port EXCEPT !.offset = 0, !.resuming = FALSE]
           c == commit_geometry(p, period, g)
<1>3. PICK v \in write_silence(b, g.target) : ToWrite(v, c, 0) BY <1>2
<1>4. cyc.pc # "idle" BY <1>1
<1>5. /\ Sound(w) /\ w.state # "closed" /\ port \in PortState /\ ~port.after_start
      /\ inp.size \in Nat /\ port.offset < inp.size /\ period \in Nat /\ period >= Stride
      /\ snap = NoSnapshot /\ w \in WriterState
  BY <1>1, <1>4, InCycle, AroundTypes DEF Core
<1>6. w.state = "setup" BY <1>1, <1>5, WriterFields DEF Running
<1>7. /\ room \in Nat /\ room >= 2 * Stride /\ room <= CapacityMax /\ block \in Nat
  <2>1. room \in Grants /\ room <= Asked BY <1>2
  <2>2. Asked \in Nat /\ Asked <= CapacityMax BY <1>5, AskedFact
  <2>3. room \in Nat /\ room >= 2 * Stride /\ block \in Nat BY <2>1, PlaybackAssumption
  <2> QED BY <2>1, <2>2, <2>3, WordFact
<1>8. cap \in Nat /\ cap <= CapacityMax /\ (~w.dead => cap = room)
  BY <1>7, WordFact
<1> HIDE DEF cap
<1>9. /\ Sound(b) /\ b.state = "setup" /\ ~b.shadowed /\ b.off = 0 /\ Len(b.ring) = 0
      /\ b.room = room /\ b.cap = cap /\ b.dead = w.dead
  BY <1>5, <1>6, <1>7, <1>8, PrimedFact
<1> HIDE DEF b
<1>10. Suited(b, period, g) /\ g.target = g.goal /\ g.goal \in Nat /\ g.goal <= cap
  BY <1>5, <1>7, <1>8, <1>9, AppliedSuits
<1> HIDE DEF g
<1>11. Hushed(b, v)
  <2>1. g.target \in Nat BY <1>10
  <2>2. ~b.dead => Len(b.ring) + g.target <= b.room BY <1>7, <1>8, <1>9, <1>10
  <2>3. b.state # "closed" BY <1>9
  <2> QED BY <1>3, <1>9, <2>1, <2>2, <2>3, SilenceFact
<1>12. /\ Sound(v) /\ Running(v) /\ ~v.shadowed /\ v.room = room /\ v.cap = cap
       /\ v.dead = w.dead /\ (~v.dead => v.off = 0)
  BY <1>9, <1>11 DEF Hushed
<1>13. p \in PortState /\ p.offset = 0 /\ p.after_start = port.after_start
  BY <1>5 DEF PortState
<1> HIDE DEF p
<1>14. /\ c \in PortState /\ Geared(v, c)
       /\ c.offset = p.offset /\ c.after_start = p.after_start
  <2>1. Suited(v, period, g) BY <1>9, <1>10, <1>12 DEF Suited
  <2> QED BY <1>5, <1>8, <1>12, <1>13, <2>1, CommitFact
<1> HIDE DEF c
<1>15. Owned(v, c.offset) BY <1>12, <1>13, <1>14, OwnedZero
<1>16. Core(v, c, snap)
  BY <1>5, <1>12, <1>13, <1>14, <1>15, RecentNone DEF Core
<1>17. 0 \in Nat /\ 0 < inp.size BY <1>5, PortFields
<1> QED BY <1>3, <1>4, <1>5, <1>12, <1>13, <1>14, <1>16, <1>17, ToWriteFact

\* Without a period there is nothing to prime for.
LEMMA NoPeriod ==
  ASSUME PlaybackInv, PrepareNoPeriod
  PROVE  PlaybackInv'
<1> DEFINE p == [port EXCEPT !.offset = 0]
<1>1. cyc.pc # "idle" /\ Release(w, p) BY DEF PrepareNoPeriod
<1>2. port \in PortState /\ node.started BY <1>1, InCycle
<1>3. Same(port, p) /\ p.after_start = port.after_start BY <1>2 DEF Same, PortState
<1> HIDE DEF p
<1> QED BY <1>1, <1>2, <1>3, ReleasedFact

\* A writer whose underrun count was read is a twin.
LEMMA ReadTwin ==
  ASSUME NEW v \in WriterState
  PROVE  Twin(v, [v EXCEPT !.xr = FALSE])
BY DEF Twin, WriterState

\* The underruns are read, and the write comes next.
LEMMA Detects ==
  ASSUME PlaybackInv, PrepareResumeTail \/ PrepareDetect
  PROVE  PlaybackInv'
<1> DEFINE v == [w EXCEPT !.xr = FALSE]
<1>1. cyc.pc = "prepare" /\ Running(w) BY DEF PrepareResumeTail, PrepareDetect
<1>2. cyc.pc # "idle" BY <1>1
<1>3. Twin(w, v) BY <1>2, InCycle, ReadTwin
<1>4. ASSUME NEW p, Same(port, p), p.offset = port.offset,
             p.after_start = port.after_start, ToWrite(v, p, cyc.from)
      PROVE  PlaybackInv'
  <2> HIDE DEF v
  <2>1. Core(v, p, snap) BY <1>2, <1>3, <1>4, InCycle, TwinCore
  <2>2. Running(v) /\ ~v.shadowed BY <1>1, <1>2, <1>3, InCycle DEF Twin, Running
  <2>3. /\ cyc.from \in Nat /\ cyc.from = p.offset /\ cyc.from < inp.size
        /\ ~p.after_start
    BY <1>2, <1>4, InCycle
  <2> QED BY <1>2, <1>4, <2>1, <2>2, <2>3, ToWriteFact
<1>5. port \in PortState BY <1>2, InCycle
<1>6. CASE PrepareResumeTail
  <2>1. ToWrite(v, port, cyc.from) BY <1>6 DEF PrepareResumeTail
  <2>2. Same(port, port) BY <1>5 DEF Same
  <2> QED BY <1>4, <2>1, <2>2
<1>7. CASE PrepareDetect
  <2>1. PICK drained \in {0, period} :
          LET low == measured_fill < underrun_low(port.target, port.block, period, drained)
          IN  ToWrite([w EXCEPT !.xr = FALSE],
                      [port EXCEPT !.xrun = @ \/ (w.xr /\ low)], cyc.from)
    BY <1>7 DEF PrepareDetect
  <2> DEFINE low == measured_fill < underrun_low(port.target, port.block, period, drained)
             p == [port EXCEPT !.xrun = @ \/ (w.xr /\ low)]
  <2>2. ToWrite(v, p, cyc.from) BY <2>1
  <2>3. Same(port, p) /\ p.offset = port.offset /\ p.after_start = port.after_start
    BY <1>5 DEF Same, PortState
  <2> QED BY <1>4, <2>2, <2>3
<1> QED BY <1>6, <1>7

-----------------------------------------------------------------------------
(* Writing.                                                                *)

\* The measured fill is a number, at most a closing frame behind the queue.
LEMMA FillFact ==
  ASSUME PlaybackInv
  PROVE  /\ measured_fill \in Nat
         /\ Len(w.ring) <= measured_fill + Stride - 1
<1>1. w \in WriterState /\ Recent(w, snap) BY DEF PlaybackInv, Core, Sound
<1>2. Len(w.ring) \in Nat /\ Pad(w.off) \in Nat BY <1>1, WriterFields, PadFact
<1>3. CASE snap = NoSnapshot
  <2>1. measured_fill = Len(w.ring) BY <1>3 DEF measured_fill
  <2> QED BY <1>2, <2>1, StrideNat
<1>4. CASE snap # NoSnapshot
  <2>1. measured_fill = snap BY <1>4 DEF measured_fill
  <2>2. snap \in Nat /\ Len(w.ring) + Pad(w.off) <= snap + Stride - 1
    BY <1>1, <1>4 DEF Recent
  <2> QED BY <1>2, <2>1, <2>2, StrideNat
<1> QED BY <1>3, <1>4

\* The goal leaves a frame of room in the ring of a living device.
LEMMA GoalRoom ==
  ASSUME PlaybackInv, Running(w), ~w.dead
  PROVE  port.goal \in Nat /\ w.room \in Nat /\ port.goal + Stride - 1 <= w.room
<1> DEFINE d == playback_desired_delay(port.setup, Eighths)
<1>1. w \in WriterState /\ port \in PortState /\ w.room >= 2 * Stride
  BY DEF PlaybackInv, Core, Sound
<1>2. /\ port.setup >= Stride /\ port.cap = w.room /\ port.cap <= CapacityMax
      /\ port.goal = playback_target_delay(port.cap, port.setup, port.block, port.setup, d)
  BY DEF PlaybackInv, Core, Geared
<1>3. port.setup \in Nat /\ port.block \in Nat /\ port.cap \in Nat BY <1>1, PortFields
<1>4. d \in Nat BY <1>3, FloorFact
<1>5. port.cap >= 2 * Stride BY <1>1, <1>2
<1> HIDE DEF d
<1> QED BY <1>2, <1>3, <1>4, <1>5, GoalRange

\* A write of the retained bytes, as the cycle's conclusion needs it.
LEMMA Concludes ==
  ASSUME PlaybackInv, cyc.pc # "idle", Running(w), NEW v, Sound(v), Running(v),
         ~v.shadowed, v.room = w.room, v.cap = w.cap, w.dead => v.dead,
         Owned(v, port.offset),
         NEW o \in write(v, Data(cyc.from)), NEW p, Aimed(port, p),
         Conclude(o, p, cyc.from)
  PROVE  PlaybackInv'
<1>1. /\ cyc.from \in Nat /\ inp.size \in Nat /\ cyc.from = port.offset
      /\ cyc.from <= inp.size /\ port.offset < inp.size /\ ~port.after_start
      /\ Geared(w, port) /\ Around
  BY InCycle
<1>2. Able(v, Data(cyc.from)) BY <1>1, AbleData
<1>3. Wrote(v, o.w, Data(cyc.from), o.n) BY <1>2, WriteFact
<1>4. Geared(v, p)
  <2>1. Geared(v, port) BY <1>1, GearedKept
  <2> QED BY <2>1, GearedAimed
<1>5. p \in PortState /\ p.offset = port.offset /\ ~p.after_start BY <1>1 DEF Aimed
<1> QED BY <1>1, <1>3, <1>4, <1>5, ConcludeFact

\* Silence within the goal leaves the stream ready for a new buffer.
LEMMA Refilled ==
  ASSUME PlaybackInv, cyc.pc # "idle", Running(w), port.offset = 0,
         NEW u, Twin(w, u), NEW count \in Nat,
         count = 0 \/ count + measured_fill <= port.goal,
         NEW v \in write_silence(u, count)
  PROVE  /\ Sound(v) /\ Running(v) /\ ~v.shadowed /\ v.room = w.room /\ v.cap = w.cap
         /\ w.dead => v.dead
         /\ Owned(v, port.offset)
<1>1. /\ Sound(w) /\ ~w.shadowed /\ w \in WriterState /\ Owned(w, port.offset)
  BY InCycle DEF Core
<1>2. Sound(u) /\ ~u.shadowed /\ u.state # "closed" /\ u.room = w.room /\ u.cap = w.cap
      /\ u.dead = w.dead /\ u.ring = w.ring /\ u.off = w.off
  BY <1>1, TwinSound DEF Twin, Running
<1>3. ~u.dead => u.off = 0
  <2>1. 0 % Stride = 0
    <3>1. 0 \in 0..(Stride - 1) BY StrideNat
    <3> QED BY <3>1, StrideNat, ModSmall
  <2> QED BY <1>1, <1>2, <2>1 DEF Owned, Fits
<1>4. ~u.dead => Len(u.ring) + count <= u.room
  <2>1. SUFFICES ASSUME ~w.dead PROVE Len(w.ring) + count <= w.room BY <1>2
  <2>2. Len(w.ring) \in Nat /\ w.room \in Nat /\ Len(w.ring) <= w.room
    BY <1>1, WriterFields DEF Sound
  <2>3. CASE count = 0 BY <2>2, <2>3
  <2>4. CASE count + measured_fill <= port.goal
    <3>1. measured_fill \in Nat /\ Len(w.ring) <= measured_fill + Stride - 1 BY FillFact
    <3>2. port.goal \in Nat /\ port.goal + Stride - 1 <= w.room BY <2>1, GoalRoom
    <3> QED BY <2>2, <2>4, <3>1, <3>2, StrideNat
  <2> QED BY <2>3, <2>4
<1>5. Hushed(u, v) BY <1>2, <1>3, <1>4, SilenceFact
<1>6. Owned(v, 0) BY <1>5, OwnedZero DEF Hushed
<1> QED BY <1>2, <1>5, <1>6 DEF Hushed

\* A port with another target is aimed.
LEMMA AimedFact ==
  ASSUME NEW p \in PortState, NEW x \in Nat, x <= p.goal, NEW y \in BOOLEAN
  PROVE  /\ Aimed(p, [p EXCEPT !.target = x])
         /\ Aimed(p, [p EXCEPT !.target = x, !.resuming = y])
         /\ Aimed(p, [p EXCEPT !.xrun = y, !.target = x])
BY DEF Aimed, PortState

\* The first buffer after a pause: a dry queue is primed again.
LEMMA Resumed ==
  ASSUME PlaybackInv, PrepareResume
  PROVE  PlaybackInv'
<1> DEFINE dry == measured_fill = 0 /\ w.xr
           u == [w EXCEPT !.xr = FALSE]
           ready == IF dry THEN write_silence(u, port.goal) ELSE {u}
<1>1. cyc.pc = "prepare" /\ Running(w) /\ port.offset = 0 BY DEF PrepareResume
<1>2. PICK v \in ready : \E o \in write(v, Data(cyc.from)) :
         LET seed == Least(port.goal, predicted_next_fill(measured_fill, o.n, port.setup))
         IN  Conclude(o, [port EXCEPT
                            !.target = IF dry THEN port.goal
                                       ELSE IF o.n > 0 THEN seed ELSE @,
                            !.resuming = o.n = 0 /\ o.st = "block"], cyc.from)
  BY DEF PrepareResume
<1>3. PICK o \in write(v, Data(cyc.from)) :
         LET seed == Least(port.goal, predicted_next_fill(measured_fill, o.n, port.setup))
         IN  Conclude(o, [port EXCEPT
                            !.target = IF dry THEN port.goal
                                       ELSE IF o.n > 0 THEN seed ELSE @,
                            !.resuming = o.n = 0 /\ o.st = "block"], cyc.from)
  BY <1>2
<1> DEFINE seed == Least(port.goal, predicted_next_fill(measured_fill, o.n, port.setup))
           x == IF dry THEN port.goal ELSE IF o.n > 0 THEN seed ELSE port.target
           y == o.n = 0 /\ o.st = "block"
           p == [port EXCEPT !.target = x, !.resuming = y]
<1>4. cyc.pc # "idle" BY <1>1
<1>5. Conclude(o, p, cyc.from) BY <1>3
<1>6. /\ Sound(w) /\ ~w.shadowed /\ w \in WriterState /\ port \in PortState
      /\ port.target <= port.goal /\ Owned(w, port.offset)
      /\ cyc.from \in Nat /\ inp.size \in Nat /\ cyc.from = port.offset
      /\ cyc.from <= inp.size
  BY <1>4, InCycle DEF Core
<1>7. port.goal \in Nat /\ port.target \in Nat /\ port.setup \in Nat BY <1>6, PortFields
<1>8. Twin(w, u) BY <1>6, ReadTwin
<1> HIDE DEF u
<1>9. /\ Sound(v) /\ Running(v) /\ ~v.shadowed /\ v.room = w.room /\ v.cap = w.cap
      /\ w.dead => v.dead
      /\ Owned(v, port.offset)
  <2>1. CASE dry
    <3>1. v \in write_silence(u, port.goal) BY <1>2, <2>1
    <3>2. port.goal + measured_fill <= port.goal BY <1>7, <2>1
    <3> QED BY <1>1, <1>4, <1>7, <1>8, <3>1, <3>2, Refilled
  <2>2. CASE ~dry
    <3>1. v = u BY <1>2, <2>2
    <3>2. Sound(u) BY <1>6, <1>8, TwinSound
    <3> QED BY <1>1, <1>6, <1>8, <3>1, <3>2 DEF Twin, Running, Owned
  <2> QED BY <2>1, <2>2
<1>10. o.n \in Nat
  <2>1. Able(v, Data(cyc.from)) BY <1>6, <1>9, AbleData
  <2>2. Wrote(v, o.w, Data(cyc.from), o.n) BY <2>1, WriteFact
  <2> QED BY <2>2 DEF Wrote
<1>11. x \in Nat /\ x <= port.goal
  <2>1. predicted_next_fill(measured_fill, o.n, port.setup) \in Nat
    BY <1>7, <1>10, FillFact, PredictedFact
  <2>2. seed \in Nat /\ seed <= port.goal BY <1>7, <2>1 DEF Least
  <2> HIDE DEF seed, dry
  <2> QED BY <1>6, <1>7, <2>2
<1>12. y \in BOOLEAN OBVIOUS
<1> HIDE DEF x, y
<1>13. Aimed(port, p) BY <1>6, <1>11, <1>12, AimedFact
<1> HIDE DEF p
<1> QED BY <1>1, <1>4, <1>5, <1>9, <1>13, Concludes

\* A dropped buffer is released as if it had been written.
LEMMA Drops ==
  ASSUME PlaybackInv, cyc.pc # "idle", NEW p, Aimed(port, p), Conclude(Consumed, p, cyc.from)
  PROVE  PlaybackInv'
<1> DEFINE o == Consumed
           done == [latch_rebuild_required(p, o.st) EXCEPT
                     !.resuming = @ /\ (p.offset = 0 \/ (o.n = 0 /\ o.st = "block"))]
<1>1. /\ cyc.from \in Nat /\ inp.size \in Nat /\ cyc.from = port.offset
      /\ port.offset < inp.size /\ ~port.after_start /\ Geared(w, port) /\ Around
      /\ Sound(w) /\ ~w.shadowed
  BY InCycle
<1>2. o.w = w /\ o.n = inp.size - cyc.from /\ o.st = "progress" BY DEF Consumed
<1>3. ~(o.n = 0) /\ ~(o.n < inp.size - cyc.from) BY <1>1, <1>2
<1>4. \/ o.n = 0
      \/ o.n < inp.size - cyc.from
      \/ Release(o.w, done)
  BY Zenon DEF Conclude
<1>5. Release(w, done) BY <1>2, <1>3, <1>4
<1>6. p \in PortState /\ p.after_start = port.after_start BY DEF Aimed
<1> HIDE DEF o
<1>7. Same(p, done) /\ done.after_start = p.after_start
  BY <1>6 DEF latch_rebuild_required, Same, PortState
<1> HIDE DEF done
<1>8. Geared(w, done) BY <1>1, <1>7, GearedAimed, GearedSame
<1>9. done \in PortState BY <1>7 DEF Same
<1> QED BY <1>1, <1>5, <1>6, <1>7, <1>8, <1>9, ReleaseFact

\* The stream as the write phase finds it.
LEMMA WritePhase ==
  ASSUME PlaybackInv, Writing
  PROVE  /\ cyc.pc # "idle" /\ Running(w) /\ Sound(w) /\ ~w.shadowed
         /\ Owned(w, port.offset) /\ port \in PortState /\ Twin(w, w)
         /\ port.target \in Nat /\ port.goal \in Nat /\ port.min \in Nat
         /\ port.setup \in Nat /\ port.target <= port.goal
         /\ Aimed(port, port)
<1>1. cyc.pc # "idle" /\ Running(w) BY DEF Writing, PlaybackInv, Around
<1>2. Core(w, port, snap) /\ Sound(w) /\ ~w.shadowed /\ port \in PortState
      /\ port.target <= port.goal
  BY <1>1, InCycle
<1> QED BY <1>1, <1>2, PortFields, TwinSelf DEF Core, Aimed

\* The stream as it stands takes the buffer.
LEMMA WritesOn ==
  ASSUME PlaybackInv, Writing, NEW o \in write(w, Data(cyc.from)), NEW p, Aimed(port, p),
         Conclude(o, p, cyc.from)
  PROVE  PlaybackInv'
BY WritePhase, Concludes

\* A refill to the target, then the buffer.
LEMMA WritesBehind ==
  ASSUME PlaybackInv, Writing, port.offset = 0, NEW count \in Nat,
         count = 0 \/ count + measured_fill <= port.goal,
         NEW v \in write_silence(w, count),
         NEW o \in write(v, Data(cyc.from)), NEW p, Aimed(port, p),
         Conclude(o, p, cyc.from)
  PROVE  PlaybackInv'
<1>1. /\ Sound(v) /\ Running(v) /\ ~v.shadowed /\ v.room = w.room /\ v.cap = w.cap
      /\ w.dead => v.dead
      /\ Owned(v, port.offset)
  BY WritePhase, Refilled
<1> QED BY <1>1, WritePhase, Concludes

\* Level control: drop, refill or just write.
LEMMA Levels ==
  ASSUME PlaybackInv, Writing, port.offset = 0, NEW p, Aimed(port, p), p.target \in Nat,
         LevelWrite(p)
  PROVE  PlaybackInv'
<1> DEFINE fill == measured_fill
<1>1. fill \in Nat /\ p.setup \in Nat /\ port.goal \in Nat /\ p.target <= port.goal
  BY FillFact, WritePhase, PortFields DEF Aimed
<1>2. \/ Conclude(Consumed, p, cyc.from)
      \/ \E v \in IF fill + p.setup < p.target THEN write_silence(w, p.target - fill) ELSE {w} :
         \E o \in write(v, Data(cyc.from)) : Conclude(o, p, cyc.from)
  BY DEF LevelWrite
<1>3. CASE Conclude(Consumed, p, cyc.from)
  BY <1>3, WritePhase, Drops
<1>4. CASE \E v \in IF fill + p.setup < p.target THEN write_silence(w, p.target - fill) ELSE {w} :
           \E o \in write(v, Data(cyc.from)) : Conclude(o, p, cyc.from)
  <2>1. PICK v \in IF fill + p.setup < p.target THEN write_silence(w, p.target - fill)
                   ELSE {w} :
          \E o \in write(v, Data(cyc.from)) : Conclude(o, p, cyc.from)
    BY <1>4
  <2>2. PICK o \in write(v, Data(cyc.from)) : Conclude(o, p, cyc.from) BY <2>1
  <2> HIDE DEF fill
  <2>3. CASE fill + p.setup < p.target
    <3>1. v \in write_silence(w, p.target - fill) BY <2>1, <2>3
    <3>2. p.target - fill \in Nat /\ p.target - fill + fill <= port.goal BY <1>1, <2>3
    <3>3. p.target - fill + measured_fill <= port.goal BY <3>2 DEF fill
    <3> QED BY <2>2, <3>1, <3>2, <3>3, WritesBehind
  <2>4. CASE ~(fill + p.setup < p.target)
    <3>1. v = w BY <2>1, <2>4
    <3> QED BY <2>2, <3>1, WritesOn
  <2> QED BY <2>3, <2>4
<1> QED BY <1>2, <1>3, <1>4

\* A settling target stays within its goal.
LEMMA SettleFact ==
  ASSUME NEW p \in PortState, p.target <= p.goal, NEW fill \in Nat
  PROVE  Aimed(p, settle_target(p, fill)) /\ settle_target(p, fill).target \in Nat
<1>1. p.target \in Nat /\ p.goal \in Nat /\ p.setup \in Nat BY PortFields
<1>2. CASE p.target >= p.goal
  <2>1. settle_target(p, fill) = p BY <1>2 DEF settle_target
  <2> QED BY <1>1, <2>1 DEF Aimed
<1>3. CASE ~(p.target >= p.goal)
  <2> DEFINE s == Sat(fill + Greatest(p.setup \div 4, Stride))
             x == Greatest(p.target, Least(s, p.goal))
  <2>1. (p.setup \div 4) \in Nat BY <1>1, Quotient
  <2>2. fill + Greatest(p.setup \div 4, Stride) \in Nat
    BY <2>1, StrideNat DEF Greatest
  <2>3. s \in Nat BY <2>2, SatFact
  <2> HIDE DEF s
  <2>4. x \in Nat /\ x <= p.goal BY <1>1, <2>3 DEF Greatest, Least
  <2>5. settle_target(p, fill) = [p EXCEPT !.target = x] BY <1>3 DEF settle_target, s
  <2> HIDE DEF x
  <2>6. Aimed(p, [p EXCEPT !.target = x]) BY <2>4, AimedFact
  <2>7. [p EXCEPT !.target = x].target = x BY DEF PortState
  <2> QED BY <2>4, <2>5, <2>6, <2>7
<1> QED BY <1>2, <1>3

\* The write phase keeps the invariant.
LEMMA Writes ==
  ASSUME PlaybackInv, WriteTail \/ WriteHold \/ WriteRecover \/ WriteFollower \/ WritePlain
  PROVE  PlaybackInv'
<1>1. Writing BY DEF WriteTail, WriteHold, WriteRecover, WriteFollower, WritePlain
<1>2. CASE WriteTail
  <2>1. PICK o \in write(w, Data(cyc.from)) : Conclude(o, port, cyc.from)
    BY <1>2 DEF WriteTail
  <2> QED BY <1>1, <2>1, WritePhase, WritesOn
<1>3. CASE WriteHold
  <2>1. Conclude(Consumed, port, cyc.from) BY <1>3 DEF WriteHold
  <2> QED BY <1>1, <2>1, WritePhase, Drops
<1>4. CASE WriteRecover
  <2> DEFINE target == Least(Greatest(port.target, Least(port.min, port.goal)), port.goal)
             p == [port EXCEPT !.xrun = FALSE, !.target = target]
  <2>1. PICK v \in write_silence(w, Less(target, measured_fill)) :
          \E o \in write(v, Data(cyc.from)) : Conclude(o, p, cyc.from)
    BY <1>4 DEF WriteRecover
  <2>2. PICK o \in write(v, Data(cyc.from)) : Conclude(o, p, cyc.from) BY <2>1
  <2>3. port.offset = 0 BY <1>4 DEF WriteRecover
  <2>4. target \in Nat /\ target <= port.goal
    BY <1>1, WritePhase DEF Least, Greatest
  <2> HIDE DEF target
  <2>5. Aimed(port, p) BY <1>1, <2>4, WritePhase, AimedFact
  <2> HIDE DEF p
  <2>6. /\ Less(target, measured_fill) \in Nat
        /\ \/ Less(target, measured_fill) = 0
           \/ Less(target, measured_fill) + measured_fill <= port.goal
    BY <1>1, <2>4, FillFact, WritePhase DEF Less
  <2> QED BY <1>1, <2>1, <2>2, <2>3, <2>5, <2>6, WritesBehind
<1>5. CASE WriteFollower
  <2>1. port.offset = 0 /\ (LevelWrite(settle_target(port, measured_fill)) \/ LevelWrite(port))
    BY <1>5 DEF WriteFollower
  <2>2. Aimed(port, settle_target(port, measured_fill))
        /\ settle_target(port, measured_fill).target \in Nat
    BY <1>1, WritePhase, FillFact, SettleFact
  <2> QED BY <1>1, <2>1, <2>2, WritePhase, Levels
<1>6. CASE WritePlain
  <2>1. PICK o \in write(w, Data(cyc.from)) : Conclude(o, port, cyc.from)
    BY <1>6 DEF WritePlain
  <2> QED BY <1>1, <2>1, WritePhase, WritesOn
<1> QED BY <1>2, <1>3, <1>4, <1>5, <1>6

-----------------------------------------------------------------------------
(* Commands.                                                               *)

\* The snapshot can be forgotten.
LEMMA Forgotten ==
  ASSUME NEW v, NEW p, NEW s, Core(v, p, s)
  PROVE  Core(v, p, NoSnapshot)
BY RecentNone DEF Core

\* A stopped node.
LEMMA StoppedFact ==
  ASSUME Around, AtRest, NEW v, NEW p, Stopped(v, p), Core(v, p, NoSnapshot),
         v.shadowed => ~p.after_start
  PROVE  PlaybackInv'
<1> DEFINE q == [p EXCEPT !.pending = FALSE]
<1>1. /\ w' = v /\ port' = q /\ node' = [node EXCEPT !.started = FALSE]
      /\ snap' = NoSnapshot /\ inp' = inp /\ cyc' = cyc /\ period' = period
  BY DEF Stopped
<1>2. p \in PortState BY DEF Core
<1>3. Same(p, q) /\ q.offset = p.offset /\ q.after_start = p.after_start
  BY <1>2 DEF Same, PortState
<1> HIDE DEF q
<1>4. Core(v, q, NoSnapshot) BY <1>3, TwinSelf, TwinCore
<1>5. node' \in [started : BOOLEAN, format : BOOLEAN, buffers : BOOLEAN]
      /\ ~node'.started
  BY <1>1 DEF Around
<1>6. Around' BY <1>1, <1>3, <1>5 DEF Around, AtRest
<1> QED BY <1>1, <1>4, <1>6 DEF PlaybackInv

\* A writer that is not shadowed is its own twin with the shadow dropped.
LEMMA UnshadowTwin ==
  ASSUME NEW v \in WriterState, ~v.shadowed
  PROVE  Twin(v, [v EXCEPT !.shadowed = FALSE])
<1>1. v.shadowed = FALSE BY WriterFields
<1> QED BY <1>1 DEF Twin, WriterState

\* A Pause with nothing to preserve.
LEMMA PausesEmpty ==
  ASSUME PlaybackInv, PauseEmpty
  PROVE  PlaybackInv'
<1> DEFINE u == [w EXCEPT !.shadowed = FALSE]
<1>1. AtRest /\ node.started /\ Stopped(u, port) BY DEF PauseEmpty
<1>2. Core(w, port, snap) /\ Around /\ ~w.shadowed /\ w \in WriterState
  BY <1>1, StartedFact DEF PlaybackInv, Sound
<1>3. Twin(w, u) BY <1>2, UnshadowTwin
<1> HIDE DEF u
<1>4. Core(u, port, snap) BY <1>2, <1>3, TwinSelf, TwinCore
<1>5. Core(u, port, NoSnapshot) BY <1>4, Forgotten
<1>6. ~u.shadowed BY <1>2, <1>3 DEF Twin
<1> QED BY <1>1, <1>2, <1>5, <1>6, StoppedFact

\* A Pause that shadows the queue, or whose silence is gone at once.
LEMMA PausesShadow ==
  ASSUME PlaybackInv, PauseShadow
  PROVE  PlaybackInv'
<1>1. AtRest /\ node.started /\ Running(w) /\ ~w.dead BY DEF PauseShadow
<1>2. PICK gone \in BOOLEAN :
         Stopped([w EXCEPT !.shadow   = IF gone THEN <<>> ELSE w.ring,
                           !.ring     = IF gone THEN <<>>
                                        ELSE [i \in 1..Len(w.ring) |-> Paused],
                           !.shadowed = ~gone], port)
  BY DEF PauseShadow
<1> DEFINE mute == [i \in 1..Len(w.ring) |-> Paused]
           r == IF gone THEN <<>> ELSE mute
           h == IF gone THEN <<>> ELSE w.ring
           b == ~gone
           u == [w EXCEPT !.shadow = h, !.ring = r, !.shadowed = b]
<1>3. Core(w, port, snap) /\ Around /\ ~w.shadowed /\ Sound(w) /\ w \in WriterState
  BY <1>1, StartedFact DEF PlaybackInv, Sound
<1>4. w.ring \in Seq(Int) /\ Len(w.ring) \in Nat /\ w.room \in Nat BY <1>3, WriterFields
<1>5. Paused \in Int /\ <<>> \in Seq(Int) BY DEF Paused
<1>6. mute \in Seq(Int) /\ Len(mute) = Len(w.ring) /\ \A i \in 1..Len(mute) : mute[i] = Paused
  BY <1>4, <1>5
<1> HIDE DEF mute
<1>7. r \in Seq(Int) /\ h \in Seq(Int) /\ b \in BOOLEAN BY <1>4, <1>5, <1>6
<1>8. Stopped(u, port) BY <1>2 DEF mute
<1> HIDE DEF r, h, b
<1>9. u \in WriterState BY <1>3, <1>7 DEF WriterState
<1>10. /\ u.state = w.state /\ u.off = w.off /\ u.room = w.room /\ u.cap = w.cap
       /\ u.dead = w.dead /\ u.ring = r /\ u.shadow = h /\ u.shadowed = b
  BY <1>3 DEF WriterState
<1> HIDE DEF u
<1>11. /\ Len(w.ring) <= w.room /\ w.room >= 2 * Stride /\ Flow(w.ring, w.off)
       /\ Owned(w, port.offset) /\ Geared(w, port) /\ port \in PortState
       /\ (port.after_start => w.dead)
  BY <1>1, <1>3 DEF Sound, Core
<1>12. Running(u) /\ u.state = "running" BY <1>1, <1>10 DEF Running
<1>13. CASE gone
  <2>1. r = <<>> /\ b = FALSE BY <1>13 DEF r, b
  <2>2. Len(<<>>) = 0 /\ 0 <= w.room BY <1>4
  <2>3. Sound(u) BY <1>1, <1>9, <1>10, <1>11, <1>12, <2>1, <2>2, FlowEmpty DEF Sound
  <2>4. Owned(u, port.offset)
    BY <1>1, <1>3, <1>10, <1>11, <2>1 DEF Owned, Fits
  <2>5. Geared(u, port) BY <1>1, <1>10, <1>11, GearedKept
  <2>6. Core(u, port, NoSnapshot)
    BY <1>1, <1>11, <2>3, <2>4, <2>5, RecentNone DEF Core
  <2>7. ~u.shadowed BY <1>10, <2>1
  <2> QED BY <1>1, <1>3, <1>8, <2>6, <2>7, StoppedFact
<1>14. CASE ~gone
  <2>1. r = mute /\ h = w.ring /\ b = TRUE BY <1>14 DEF r, h, b
  <2>2. Sound(u)
    BY <1>1, <1>6, <1>9, <1>10, <1>11, <1>12, <2>1 DEF Sound
  <2>3. Owned(u, port.offset)
    BY <1>1, <1>3, <1>10, <1>11, <2>1 DEF Owned
  <2>4. Geared(u, port) BY <1>1, <1>10, <1>11, GearedKept
  <2>5. Core(u, port, NoSnapshot)
    BY <1>1, <1>11, <2>2, <2>3, <2>4, RecentNone DEF Core
  <2>6. ~port.after_start BY <1>1, <1>11
  <2> QED BY <1>1, <1>3, <1>8, <2>5, <2>6, StoppedFact
<1> QED BY <1>13, <1>14

\* A Pause that cannot preserve the queue.
LEMMA PausesUnpreserved ==
  ASSUME PlaybackInv, PauseUnpreserved
  PROVE  PlaybackInv'
<1> DEFINE u == [w EXCEPT !.shadowed = FALSE]
           p == [port EXCEPT !.after_start = TRUE]
<1>1. AtRest /\ node.started /\ Running(w) BY DEF PauseUnpreserved
<1>2. PICK s \in suspend(u) :
         Stopped(s.w, IF s.ok THEN clear_pending_write(port) ELSE p)
  BY DEF PauseUnpreserved
<1>3. Core(w, port, snap) /\ Around /\ ~w.shadowed /\ w \in WriterState /\ port \in PortState
      /\ port.target <= port.goal
  BY <1>1, StartedFact DEF PlaybackInv, Sound
<1>4. Twin(w, u) BY <1>3, UnshadowTwin
<1> HIDE DEF u
<1>5. Core(u, port, snap) BY <1>3, <1>4, TwinSelf, TwinCore
<1>6. u \in WriterState /\ u.room >= 2 * Stride /\ Running(u) /\ ~u.shadowed
  BY <1>1, <1>3, <1>4, <1>5 DEF Core, Sound, Twin, Running
<1>7. \/ s.ok = TRUE /\ IsReset(u, s.w)
      \/ s.ok = FALSE /\ u.dead /\ s.w = u
  BY <1>6, SuspendFact
<1>8. CASE s.ok = TRUE /\ IsReset(u, s.w)
  <2> DEFINE q == clear_pending_write(port)
  <2>1. Stopped(s.w, q) BY <1>2, <1>8
  <2>2. Same(port, q) BY <1>3, ClearFact
  <2> HIDE DEF q
  <2>3. q \in PortState /\ q.target <= q.goal BY <1>3, <2>2 DEF Same
  <2>4. Sound(s.w) /\ ~Running(s.w) /\ ~s.w.shadowed BY <1>8 DEF IsReset, Running
  <2>5. Core(s.w, q, NoSnapshot) BY <2>3, <2>4, IdleCore
  <2> QED BY <1>1, <1>3, <2>1, <2>4, <2>5, StoppedFact
<1>9. CASE s.ok = FALSE /\ u.dead /\ s.w = u
  <2>1. Stopped(u, p) BY <1>2, <1>9
  <2>2. Same(port, p) /\ p.offset = port.offset BY <1>3 DEF Same, PortState
  <2> HIDE DEF p
  <2>3. Geared(u, p) BY <1>5, <2>2, GearedSame DEF Core
  <2>4. Core(u, p, NoSnapshot)
    BY <1>5, <1>9, <2>2, <2>3, RecentNone DEF Core, Same
  <2> QED BY <1>1, <1>3, <1>6, <2>1, <2>4, StoppedFact
<1> QED BY <1>7, <1>8, <1>9

\* A started node.
LEMMA StartedNode ==
  ASSUME Around, AtRest, NEW v, NEW p, Started(v, p), Core(v, p, snap'), ~v.shadowed
  PROVE  PlaybackInv'
<1> DEFINE q == [p EXCEPT !.xrun = FALSE]
<1>1. /\ w' = v /\ port' = q /\ node' = [node EXCEPT !.started = TRUE]
      /\ inp' = inp /\ cyc' = cyc /\ period' = period
  BY DEF Started
<1>2. p \in PortState BY DEF Core
<1>3. Same(p, q) /\ q.offset = p.offset /\ q.after_start = p.after_start
  BY <1>2 DEF Same, PortState
<1> HIDE DEF q
<1>4. Core(v, q, snap') BY <1>3, TwinSelf, TwinCore
<1>5. node' \in [started : BOOLEAN, format : BOOLEAN, buffers : BOOLEAN] /\ node'.started
  BY <1>1 DEF Around
<1>6. Around' BY <1>1, <1>5 DEF Around, AtRest
<1> QED BY <1>1, <1>4, <1>6 DEF PlaybackInv

\* A shadowed writer runs, on a stopped node without an unusable queue.
LEMMA ShadowFact ==
  ASSUME PlaybackInv, w.shadowed
  PROVE  Running(w) /\ Resumes /\ snap = NoSnapshot
<1>1. Running(w) BY DEF PlaybackInv, Core, Sound
<1>2. ~node.started /\ ~port.after_start BY DEF PlaybackInv, Around
<1>3. port.setup # 0
  <2>1. port.setup >= Stride BY <1>1 DEF PlaybackInv, Core, Geared
  <2>2. port.setup \in Nat BY PortFields DEF PlaybackInv, Core
  <2> QED BY <2>1, <2>2, StrideNat
<1>4. snap = NoSnapshot BY <1>2 DEF PlaybackInv, Around
<1> QED BY <1>1, <1>2, <1>3, <1>4 DEF Resumes

\* A Start that finds the stream as it is, or restores the shadowed queue.
LEMMA Starts ==
  ASSUME PlaybackInv, Start
  PROVE  PlaybackInv'
<1> DEFINE p == [port EXCEPT !.resuming = Resumes]
           u == [w EXCEPT !.shadowed = FALSE, !.ring = w.shadow, !.shadow = <<>>]
<1>1. /\ AtRest /\ (Resumes => ~(w.shadowed /\ w.dead)) /\ snap' = snap
      /\ Started(IF Resumes /\ w.shadowed THEN u ELSE w, p)
  BY DEF Start, CanStart
<1>2. Core(w, port, snap) /\ Around /\ Sound(w) /\ w \in WriterState /\ port \in PortState
  BY DEF PlaybackInv, Core, Sound
<1>3. Resumes \in BOOLEAN BY DEF Resumes
<1>4. Same(port, p) /\ p.offset = port.offset /\ p.after_start = port.after_start
  BY <1>2, <1>3 DEF Same, PortState
<1> HIDE DEF p
<1>5. CASE ~w.shadowed
  <2>1. Started(w, p) BY <1>1, <1>5
  <2>2. Core(w, p, snap') BY <1>1, <1>2, <1>4, TwinSelf, TwinCore
  <2> QED BY <1>1, <1>2, <1>5, <2>1, <2>2, StartedNode
<1>6. CASE w.shadowed
  <2>1. Running(w) /\ Resumes /\ snap = NoSnapshot BY <1>6, ShadowFact
  <2>2. Started(u, p) /\ ~w.dead BY <1>1, <1>6, <2>1
  <2>3. w.shadow \in Seq(Int) /\ <<>> \in Seq(Int) BY <1>2, WriterFields
  <2>4. u \in WriterState BY <1>2, <2>3 DEF WriterState
  <2>5. /\ u.state = w.state /\ u.off = w.off /\ u.room = w.room /\ u.cap = w.cap
        /\ u.dead = w.dead /\ u.ring = w.shadow /\ u.shadowed = FALSE
    BY <1>2 DEF WriterState
  <2> HIDE DEF u
  <2>6. /\ Flow(w.shadow, w.off) /\ Len(w.shadow) <= w.room /\ w.room >= 2 * Stride
        /\ Owned(w, port.offset) /\ Geared(w, port)
    BY <1>2, <1>6, <2>2 DEF Sound, Core
  <2>7. Running(u) BY <2>1, <2>5 DEF Running
  <2>8. Sound(u) BY <2>2, <2>4, <2>5, <2>6, <2>7 DEF Sound
  <2>9. Owned(u, p.offset) BY <1>4, <1>6, <2>1, <2>2, <2>5, <2>6 DEF Owned
  <2>10. Geared(u, p)
    <3>1. Geared(u, port) BY <2>1, <2>5, <2>6, GearedKept
    <3> QED BY <1>4, <3>1, GearedSame
  <2>11. ~p.after_start BY <1>4, <2>1 DEF Resumes
  <2>12. snap' = NoSnapshot BY <1>1, <2>1
  <2>13. p \in PortState BY <1>4 DEF Same
  <2>14. Core(u, p, snap')
    BY <2>8, <2>9, <2>10, <2>11, <2>12, <2>13, RecentNone DEF Core
  <2>15. ~u.shadowed BY <2>5
  <2> QED BY <1>1, <1>2, <2>2, <2>14, <2>15, StartedNode
<1> QED BY <1>5, <1>6

\* A Start whose SKIP fails.
LEMMA SkipFails ==
  ASSUME PlaybackInv, StartSkipFails
  PROVE  PlaybackInv'
<1> DEFINE u == [w EXCEPT !.shadowed = FALSE]
           p == [reset_stream_epoch(port) EXCEPT !.resuming = FALSE]
           q == [port EXCEPT !.after_start = TRUE, !.resuming = FALSE]
<1>1. AtRest /\ Resumes /\ w.shadowed BY DEF StartSkipFails, CanStart
<1>2. PICK s \in suspend(u) :
         /\ Started(s.w, IF s.ok THEN p ELSE q)
         /\ snap' = (IF s.ok THEN NoSnapshot ELSE snap)
  BY DEF StartSkipFails
<1>3. /\ Core(w, port, snap) /\ Around /\ Sound(w) /\ w \in WriterState /\ port \in PortState
      /\ port.target <= port.goal /\ Geared(w, port)
  BY DEF PlaybackInv, Core, Sound, Geared
<1>4. Running(w) /\ snap = NoSnapshot BY <1>1, ShadowFact
<1>5. snap' = NoSnapshot BY <1>2, <1>4
<1>6. u \in WriterState BY <1>3 DEF WriterState
<1>7. /\ u.state = w.state /\ u.off = w.off /\ u.room = w.room /\ u.cap = w.cap
      /\ u.dead = w.dead /\ u.ring = w.ring /\ u.shadowed = FALSE
  BY <1>3 DEF WriterState
<1>8. Running(u) /\ u.room >= 2 * Stride BY <1>3, <1>4, <1>7 DEF Running, Sound
<1> HIDE DEF u
<1>9. \/ s.ok = TRUE /\ IsReset(u, s.w)
      \/ s.ok = FALSE /\ u.dead /\ s.w = u
  BY <1>6, <1>8, SuspendFact
<1>10. Same(port, p) BY <1>3 DEF reset_stream_epoch, Same, PortState
<1>11. Same(port, q) /\ q.offset = port.offset BY <1>3 DEF Same, PortState
<1> HIDE DEF p, q
<1>12. CASE s.ok = TRUE /\ IsReset(u, s.w)
  <2>1. Started(s.w, p) BY <1>2, <1>12
  <2>2. p \in PortState /\ p.target <= p.goal BY <1>3, <1>10 DEF Same
  <2>3. Sound(s.w) /\ ~Running(s.w) /\ ~s.w.shadowed BY <1>12 DEF IsReset, Running
  <2>4. Core(s.w, p, snap') BY <1>5, <2>2, <2>3, IdleCore
  <2> QED BY <1>1, <1>3, <2>1, <2>3, <2>4, StartedNode
<1>13. CASE s.ok = FALSE /\ u.dead /\ s.w = u
  <2>1. Started(u, q) BY <1>2, <1>13
  <2>2. u.ring = <<>> /\ Len(w.ring) <= w.room BY <1>3, <1>7, <1>13 DEF Sound
  <2>3. Sound(u) BY <1>6, <1>7, <1>8, <2>2, FlowEmpty DEF Sound
  <2>4. Geared(u, q)
    <3>1. Geared(u, port) BY <1>3, <1>4, <1>7, GearedKept
    <3> QED BY <1>11, <3>1, GearedSame
  <2>5. Owned(u, q.offset) BY <1>13 DEF Owned
  <2>6. Core(u, q, snap')
    BY <1>5, <1>11, <1>13, <2>3, <2>4, <2>5, RecentNone DEF Core, Same
  <2>7. ~u.shadowed BY <1>7
  <2> QED BY <1>1, <1>3, <2>1, <2>6, <2>7, StartedNode
<1> QED BY <1>9, <1>12, <1>13

\* A device that is closed, or replaced by a negotiated one.
LEMMA Renegotiates ==
  ASSUME PlaybackInv, Suspend \/ Negotiate
  PROVE  PlaybackInv'
<1>0. port \in PortState /\ port.target <= port.goal /\ Around
  BY DEF PlaybackInv, Core, Geared
<1>1. CASE Suspend
  <2> DEFINE s == on_device_swapped(port)
             p == [s EXCEPT !.setup = 0, !.block = 0, !.pending = FALSE]
  <2>1. /\ AtRest /\ w' = Closed /\ port' = p /\ inp' = NoInput /\ snap' = NoSnapshot
        /\ node' = [started |-> FALSE, format |-> FALSE, buffers |-> FALSE]
        /\ cyc' = cyc /\ period' = period
    BY <1>1 DEF Suspend
  <2>2. Same(port, s) BY <1>0, SwappedFact
  <2> HIDE DEF s
  <2>3. p \in PortState /\ p.target = port.target /\ p.goal = port.goal
    BY <2>2 DEF Same, PortState
  <2> HIDE DEF p
  <2>4. Core(w', port', snap') BY <1>0, <2>1, <2>3, FreshFact, IdleCore
  <2>5. inp' \in [status : {"need", "have"}, buffer : Buffers \cup {NoBuffer}, size : Nat]
    BY <2>1 DEF NoInput
  <2>6. node' \in [started : BOOLEAN, format : BOOLEAN, buffers : BOOLEAN] BY <2>1
  <2>7. Around' BY <1>0, <2>1, <2>5, <2>6, FreshFact DEF Around, AtRest
  <2> QED BY <2>4, <2>7 DEF PlaybackInv
<1>2. CASE Negotiate
  <2>1. /\ AtRest /\ w' = Fresh /\ port' \in Configured(port) /\ snap' = NoSnapshot
        /\ node' = [node EXCEPT !.format = TRUE]
        /\ inp' = inp /\ cyc' = cyc /\ period' = period
    BY <1>2 DEF Negotiate
  <2>2. port' \in PortState /\ port'.target = port.target /\ port'.goal = port.goal
    BY <1>0, <2>1, ConfiguredFact
  <2>3. Core(w', port', snap') BY <1>0, <2>1, <2>2, FreshFact, IdleCore
  <2>4. node' \in [started : BOOLEAN, format : BOOLEAN, buffers : BOOLEAN]
    BY <1>0, <2>1 DEF Around
  <2>5. Around' BY <1>0, <2>1, <2>4, FreshFact DEF Around, AtRest
  <2> QED BY <2>3, <2>5 DEF PlaybackInv
<1> QED BY <1>1, <1>2

\* The host takes its buffers back.
LEMMA UsesBuffers ==
  ASSUME PlaybackInv, UseBuffers
  PROVE  PlaybackInv'
<1>1. AtRest /\ inp' = NoInput /\ cyc' = cyc /\ period' = period BY DEF UseBuffers
<1>2. PICK e \in end_buffer_sequence(w), given \in {TRUE, node.started} :
         /\ w' = e.w
         /\ port' = clear_pending_write(IF e.reset THEN reset_stream_epoch(port) ELSE port)
         /\ snap' = (IF e.reset THEN NoSnapshot ELSE snap)
         /\ node' = [node EXCEPT !.buffers = given]
  BY DEF UseBuffers
<1>3. Core(w, port, snap) /\ Around /\ Sound(w) /\ port \in PortState
  BY DEF PlaybackInv, Core
<1>4. Ended(w, e.w, e.reset) BY <1>3, EndFact
<1> DEFINE r == IF e.reset THEN reset_stream_epoch(port) ELSE port
           q == clear_pending_write(r)
<1>5. Same(port, r) /\ r.after_start = port.after_start
  BY <1>3 DEF reset_stream_epoch, Same, PortState
<1>6. port' = q BY <1>2
<1> HIDE DEF r
<1>7. Same(r, q) /\ q.offset = 0 /\ q.after_start = r.after_start
  BY <1>5, ClearFact DEF Same
<1> HIDE DEF q
<1>8. Same(port, q) BY <1>5, <1>7 DEF Same
<1>9. Core(w', port', snap') BY <1>2, <1>3, <1>4, <1>5, <1>6, <1>7, <1>8, EndedCore
<1>10. inp' \in [status : {"need", "have"}, buffer : Buffers \cup {NoBuffer}, size : Nat]
  BY <1>1 DEF NoInput
<1>11. node' \in [started : BOOLEAN, format : BOOLEAN, buffers : BOOLEAN]
       /\ node'.started = node.started
  BY <1>2, <1>3, AroundTypes DEF Around
<1>12. w'.shadowed => ~node'.started /\ ~port'.after_start
  <2>1. e.w.shadowed => w.shadowed BY <1>4 DEF Ended
  <2> QED BY <1>2, <1>3, <1>5, <1>6, <1>7, <1>11, <2>1 DEF Around
<1>13. snap' # NoSnapshot => node'.started BY <1>2, <1>3, <1>11 DEF Around
<1>14. Around' BY <1>1, <1>3, <1>10, <1>11, <1>12, <1>13 DEF Around, AtRest
<1> QED BY <1>9, <1>14 DEF PlaybackInv

-----------------------------------------------------------------------------
(* The kernel, the wake and the host.                                      *)

\* A channel that changes by itself changes nothing around it.
LEMMA ChannelAlone ==
  ASSUME PlaybackInv, Core(w', port, snap), w'.state = w.state,
         w'.shadowed = w.shadowed, UNCHANGED <<port, inp, cyc, node, period, snap>>
  PROVE  PlaybackInv'
<1>1. Around BY DEF PlaybackInv
<1>2. Around' BY <1>1 DEF Around, Running
<1> QED BY <1>2 DEF PlaybackInv

\* The channel plays what is queued, or counts an underrun.
LEMMA Drains ==
  ASSUME PlaybackInv, Drain
  PROVE  PlaybackInv'
<1>1. /\ Core(w, port, snap) /\ Sound(w) /\ w \in WriterState /\ port \in PortState
      /\ Owned(w, port.offset) /\ Geared(w, port) /\ Recent(w, snap) /\ Around
      /\ port.after_start /\ Running(w) => w.dead
      /\ snap # NoSnapshot => Running(w)
  BY DEF PlaybackInv, Core, Sound
<1>2. /\ Running(w) /\ UNCHANGED <<port, inp, cyc, node, period, snap>>
      /\ w' = (IF w.ring = <<>> THEN [w EXCEPT !.xr = TRUE]
               ELSE Drained(w, IF w.shadowed THEN Len(w.ring) ELSE 1))
  BY DEF Drain
<1>3. /\ w.ring \in Seq(Int) /\ Len(w.ring) \in Nat /\ w.off \in 0..(Stride - 1)
      /\ Pad(w.off) \in Nat /\ Stride \in Nat /\ w.room \in Nat
  BY <1>1, WriterFields, PadFact, StrideNat
<1>4. CASE w.ring = <<>>
  <2> DEFINE u == [w EXCEPT !.xr = TRUE]
  <2>1. w' = u BY <1>2, <1>4
  <2>2. u \in WriterState BY <1>1 DEF WriterState
  <2>3. /\ u.state = w.state /\ u.off = w.off /\ u.room = w.room /\ u.cap = w.cap
        /\ u.dead = w.dead /\ u.ring = w.ring /\ u.shadowed = w.shadowed
        /\ u.shadow = w.shadow
    BY <1>1 DEF WriterState
  <2> HIDE DEF u
  <2>4. Sound(u) BY <1>1, <2>2, <2>3 DEF Sound, Running
  <2>5. Owned(u, port.offset) /\ Recent(u, snap) BY <1>1, <2>3 DEF Owned, Recent, Running
  <2>6. Running(u) = Running(w) BY <2>3 DEF Running
  <2>7. Geared(u, port) BY <1>1, <2>3, <2>6, GearedKept
  <2>8. Core(u, port, snap) BY <1>1, <2>3, <2>4, <2>5, <2>6, <2>7 DEF Core
  <2> QED BY <1>2, <2>1, <2>3, <2>8, ChannelAlone
<1>5. CASE w.ring # <<>> /\ w.shadowed
  <2> DEFINE u == Drained(w, Len(w.ring))
  <2>1. w' = u BY <1>2, <1>5
  <2>2. SubSeq(w.ring, Len(w.ring) + 1, Len(w.ring)) = <<>> /\ <<>> \in Seq(Int) /\ Len(<<>>) = 0
    BY <1>3
  <2>3. u = [w EXCEPT !.ring = <<>>] BY <2>2 DEF Drained
  <2>4. u \in WriterState BY <1>1, <2>2, <2>3 DEF WriterState
  <2>5. /\ u.state = w.state /\ u.off = w.off /\ u.room = w.room /\ u.cap = w.cap
        /\ u.dead = w.dead /\ u.ring = <<>> /\ u.shadowed = w.shadowed
        /\ u.shadow = w.shadow
    BY <1>1, <2>3 DEF WriterState
  <2> HIDE DEF u
  <2>6. Sound(u) BY <1>1, <1>2, <1>3, <1>5, <2>2, <2>4, <2>5 DEF Sound, Running
  <2>7. Owned(u, port.offset) BY <1>1, <1>5, <2>5 DEF Owned, Running
  <2>8. Recent(u, snap) BY <1>1, <1>3, <2>2, <2>5 DEF Recent
  <2>9. Running(u) = Running(w) BY <2>5 DEF Running
  <2>10. Geared(u, port) BY <1>1, <2>5, <2>9, GearedKept
  <2>11. Core(u, port, snap) BY <1>1, <2>5, <2>6, <2>7, <2>8, <2>9, <2>10 DEF Core
  <2> QED BY <1>2, <2>1, <2>5, <2>11, ChannelAlone
<1>6. CASE w.ring # <<>> /\ ~w.shadowed
  <2> DEFINE u == Drained(w, 1)
  <2>1. w' = u BY <1>2, <1>6
  <2>2. Len(w.ring) # 0 BY <1>3, <1>6, EmptySeq
  <2>3. 1 \in 0..Len(w.ring) BY <1>3, <2>2
  <2>4. /\ Sound(u) /\ Len(u.ring) = Len(w.ring) - 1
        /\ u.state = w.state /\ u.room = w.room /\ u.cap = w.cap
        /\ u.shadowed = w.shadowed /\ u.dead = w.dead /\ u.off = w.off
        /\ \A k \in Nat : Fits(w.ring, w.off, k) => Fits(u.ring, u.off, k)
    BY <1>1, <1>6, <2>3, DrainFact
  <2> HIDE DEF u
  <2>5. port.offset \in Nat BY <1>1, PortFields
  <2>6. Owned(u, port.offset) BY <1>1, <1>6, <2>4, <2>5 DEF Owned, Running
  <2>7. Recent(u, snap) BY <1>1, <1>3, <2>4 DEF Recent
  <2>8. Running(u) = Running(w) BY <2>4 DEF Running
  <2>9. Geared(u, port) BY <1>1, <2>4, <2>8, GearedKept
  <2>10. Core(u, port, snap) BY <1>1, <2>4, <2>6, <2>7, <2>8, <2>9 DEF Core
  <2> QED BY <1>2, <2>1, <2>4, <2>10, ChannelAlone
<1> QED BY <1>4, <1>5, <1>6

\* A device that goes away takes its queue along.
LEMMA Dies ==
  ASSUME PlaybackInv, DeviceDies
  PROVE  PlaybackInv'
<1> DEFINE u == [w EXCEPT !.dead = TRUE, !.on = FALSE, !.ring = <<>>, !.shadow = <<>>]
<1>1. /\ Core(w, port, snap) /\ Sound(w) /\ w \in WriterState /\ port \in PortState
      /\ Geared(w, port) /\ Recent(w, snap) /\ w.room >= 2 * Stride
      /\ snap # NoSnapshot => Running(w)
  BY DEF PlaybackInv, Core, Sound
<1>2. /\ Running(w) /\ w' = u /\ UNCHANGED <<port, inp, cyc, node, period, snap>>
  BY DEF DeviceDies
<1>3. <<>> \in Seq(Int) /\ Len(<<>>) = 0 OBVIOUS
<1>4. u \in WriterState BY <1>1, <1>3 DEF WriterState
<1>5. /\ u.state = w.state /\ u.off = w.off /\ u.room = w.room /\ u.cap = w.cap
      /\ u.dead = TRUE /\ u.ring = <<>> /\ u.shadowed = w.shadowed
  BY <1>1 DEF WriterState
<1> HIDE DEF u
<1>6. Running(u) BY <1>2, <1>5 DEF Running
<1>7. u.room \in Nat /\ Stride \in Nat /\ Pad(u.off) \in Nat /\ Pad(u.off) <= Stride - 1
  BY <1>4, WriterFields, PadFact, StrideNat
<1>8. Sound(u) BY <1>1, <1>3, <1>4, <1>5, <1>6, <1>7, FlowEmpty DEF Sound
<1>9. Owned(u, port.offset) BY <1>5 DEF Owned
<1>10. Recent(u, snap) BY <1>1, <1>3, <1>5, <1>7 DEF Recent
<1>11. Geared(u, port) BY <1>1, <1>2, <1>5, GearedKept
<1>12. Core(u, port, snap) BY <1>1, <1>5, <1>6, <1>8, <1>9, <1>10, <1>11 DEF Core
<1> QED BY <1>2, <1>5, <1>12, ChannelAlone

\* A wake records the fill it finds.
LEMMA Wakes ==
  ASSUME PlaybackInv, Wake
  PROVE  PlaybackInv'
<1>1. /\ AtRest /\ node.started /\ Running(w) /\ snap' = Len(w.ring)
      /\ UNCHANGED <<w, inp, cyc, node, period>>
  BY DEF Wake
<1>2. PICK lost \in {FALSE, w.dead} : port' = [port EXCEPT !.required = @ \/ lost]
  BY DEF Wake
<1>3. /\ Core(w, port, snap) /\ Sound(w) /\ w \in WriterState /\ port \in PortState
      /\ Around /\ Owned(w, port.offset) /\ Geared(w, port)
      /\ port.after_start /\ Running(w) => w.dead
  BY DEF PlaybackInv, Core, Sound
<1>4. Same(port, port') /\ port'.offset = port.offset /\ port'.after_start = port.after_start
  BY <1>2, <1>3 DEF Same, PortState
<1>5. Len(w.ring) \in Nat /\ Pad(w.off) \in Nat /\ Pad(w.off) <= Stride - 1 /\ Stride \in Nat
  BY <1>3, WriterFields, PadFact, StrideNat
<1>6. Recent(w, snap') BY <1>1, <1>5 DEF Recent
<1>7. Geared(w, port') /\ port' \in PortState BY <1>3, <1>4, GearedSame DEF Same
<1>8. Core(w, port', snap') BY <1>1, <1>3, <1>4, <1>6, <1>7 DEF Core
<1>9. Around' BY <1>1, <1>3, <1>4 DEF Around, AtRest, Running
<1> QED BY <1>1, <1>8, <1>9 DEF PlaybackInv

\* The host offers a buffer, in place of another too, or a new quantum.
LEMMA HostMoves ==
  ASSUME PlaybackInv, HostOffers \/ HostReplaces \/ QuantumChange
  PROVE  PlaybackInv'
<1>1. Core(w, port, snap) /\ Around BY DEF PlaybackInv
<1>2. AtRest /\ UNCHANGED <<w, port, cyc, node, snap>>
  BY DEF HostOffers, HostReplaces, QuantumChange
<1>3. inp' \in [status : {"need", "have"}, buffer : Buffers \cup {NoBuffer}, size : Nat]
  <2>1. CASE Offer
    <3>1. PICK b \in Buffers, n \in Sizes :
             inp' = [status |-> "have", buffer |-> b, size |-> n]
      BY <2>1 DEF Offer
    <3>2. n \in Nat BY PlaybackAssumption
    <3> QED BY <3>1, <3>2
  <2>2. CASE inp' = inp BY <1>1, <2>2 DEF Around
  <2> QED BY <2>1, <2>2 DEF HostOffers, HostReplaces, QuantumChange
<1>4. period' \in Periods \cup {0}
  BY <1>1 DEF HostOffers, HostReplaces, QuantumChange, Around
<1>5. Around' BY <1>1, <1>2, <1>3, <1>4 DEF Around, AtRest, Running
<1>6. Core(w', port', snap') BY <1>1, <1>2
<1> QED BY <1>5, <1>6 DEF PlaybackInv

-----------------------------------------------------------------------------
(* The theorems.                                                           *)

\* The node starts with a fresh, idle device.
LEMMA InitFact ==
  ASSUME Init
  PROVE  PlaybackInv
<1>1. /\ w = Fresh /\ port = NewPort /\ inp = NoInput /\ cyc = Idle
      /\ node = [started |-> FALSE, format |-> TRUE, buffers |-> TRUE]
      /\ period = 0 /\ snap = NoSnapshot
  BY DEF Init
<1>2. port \in PortState /\ port.target = 0 /\ port.goal = 0
  BY <1>1 DEF NewPort, PortState
<1>3. Core(w, port, snap) BY <1>1, <1>2, FreshFact, IdleCore
<1>4. inp \in [status : {"need", "have"}, buffer : Buffers \cup {NoBuffer}, size : Nat]
  BY <1>1 DEF NoInput
<1>5. cyc \in [pc : {"idle", "prepare", "write"}, from : Nat, retuned : BOOLEAN] /\ cyc.pc = "idle"
  BY <1>1 DEF Idle
<1>6. node \in [started : BOOLEAN, format : BOOLEAN, buffers : BOOLEAN] BY <1>1
<1>7. Around BY <1>1, <1>4, <1>5, <1>6, FreshFact DEF Around
<1> QED BY <1>3, <1>7 DEF PlaybackInv

\* A step that changes nothing keeps the invariant.
LEMMA StutterFact ==
  ASSUME PlaybackInv, UNCHANGED vars
  PROVE  PlaybackInv'
<1>1. /\ w' = w /\ port' = port /\ inp' = inp /\ cyc' = cyc /\ node' = node
      /\ period' = period /\ snap' = snap
  BY DEF vars
<1>2. Core(w', port', snap') BY <1>1 DEF PlaybackInv
<1>3. Around BY DEF PlaybackInv
<1>4. Around' BY <1>1, <1>3 DEF Around, Running
<1> QED BY <1>2, <1>4 DEF PlaybackInv

\* The writer, the port, the snapshot and the cycle of every reachable state
\* fit together: the queue (or its shadow) flows and ends where the retained
\* buffer goes on, and the geometry is the one committed for the ring
\* (sink/mod.rs, sink/buffer.rs, dsp.rs).
THEOREM PlaybackInvariance == Spec => []PlaybackInv
<1>1. Init => PlaybackInv BY InitFact
<1>2. PlaybackInv /\ [Next]_vars => PlaybackInv'
  <2> SUFFICES ASSUME PlaybackInv, [Next]_vars PROVE PlaybackInv'
    OBVIOUS
  <2>1. CASE CycleFreewheel \/ CycleRebuilding \/ CycleNoInput \/ CycleReplaces
             \/ CycleUnnegotiated
    BY <2>1, CycleEnds
  <2>2. CASE RebuildInstalled \/ RebuildAborted \/ RebuildRetried \/ RebuildFailed
    BY <2>2, RebuildEnds
  <2>3. CASE CycleNothingLeft BY <2>3, NothingLeft
  <2>4. CASE RetuneUnchanged \/ RetunePending BY <2>4, RetuneWaits
  <2>5. CASE RetuneInPlace BY <2>5, RetuneAdopts
  <2>6. CASE RetuneReprime BY <2>6, RetuneResets
  <2>7. CASE RetuneRefused BY <2>7, RetuneRefusal
  <2>8. CASE PreparePrime BY <2>8, Primes
  <2>9. CASE PrepareNoPeriod BY <2>9, NoPeriod
  <2>10. CASE PrepareResumeTail \/ PrepareDetect BY <2>10, Detects
  <2>11. CASE PrepareResume BY <2>11, Resumed
  <2>12. CASE WriteTail \/ WriteHold \/ WriteRecover \/ WriteFollower \/ WritePlain
    BY <2>12, Writes
  <2>13. CASE PauseEmpty BY <2>13, PausesEmpty
  <2>14. CASE PauseShadow BY <2>14, PausesShadow
  <2>15. CASE PauseUnpreserved BY <2>15, PausesUnpreserved
  <2>16. CASE Start BY <2>16, Starts
  <2>17. CASE StartSkipFails BY <2>17, SkipFails
  <2>18. CASE Suspend \/ Negotiate BY <2>18, Renegotiates
  <2>19. CASE UseBuffers BY <2>19, UsesBuffers
  <2>20. CASE Drain BY <2>20, Drains
  <2>21. CASE DeviceDies BY <2>21, Dies
  <2>22. CASE Wake BY <2>22, Wakes
  <2>23. CASE HostOffers \/ HostReplaces \/ QuantumChange BY <2>23, HostMoves
  <2>24. CASE UNCHANGED vars BY <2>24, StutterFact
  <2>25. CASE Cycle
    BY <2>25, <2>1, <2>2, <2>3, <2>4, <2>5, <2>6, <2>7, <2>8, <2>9, <2>10, <2>11, <2>12
       DEF Cycle
  <2>26. CASE Command
    BY <2>26, <2>13, <2>14, <2>15, <2>16, <2>17, <2>18, <2>19 DEF Command
  <2>27. CASE Environment
    BY <2>27, <2>20, <2>21, <2>22, <2>23 DEF Environment
  <2> QED BY <2>24, <2>25, <2>26, <2>27 DEF Next
<1> QED BY <1>1, <1>2, PTL DEF Spec

\* Every variable keeps its type, and the ring never holds more than the
\* kernel granted, however writes, primes, refills and retunes interleave
\* (dsp.rs write, write_silence).
THEOREM PlaybackTypes == Spec => []TypeOK
<1>1. PlaybackInv => TypeOK
  <2> SUFFICES ASSUME PlaybackInv PROVE TypeOK
    OBVIOUS
  <2>1. w \in WriterState /\ Len(w.ring) <= w.room /\ port \in PortState
    BY DEF PlaybackInv, Core, Sound
  <2>2. snap \in Nat \cup {NoSnapshot} BY DEF PlaybackInv, Core, Recent
  <2> QED BY <2>1, <2>2 DEF PlaybackInv, Around, TypeOK
<1> QED BY <1>1, PlaybackInvariance, PTL

\* No byte of a host buffer is lost, repeated, shifted in its frame or
\* separated from the one before it, through short writes, pauses, retunes,
\* refills and buffer swaps, for every frame size, ring and buffer size
\* (sink/buffer.rs prepare_pending_write, dsp.rs write).
THEOREM AudioIsSeamless == Spec => []Seamless
<1>1. PlaybackInv => Seamless
  <2> SUFFICES ASSUME PlaybackInv,
                      NEW i \in 1..Len(w.ring), w.ring[i] >= 0
               PROVE  /\ Place(i) = w.ring[i] % Stride
                      /\ i > 1 => /\ w.ring[i] > 0 => w.ring[i - 1] = w.ring[i] - 1
                                  /\ w.ring[i - 1] # Paused
    BY DEF Seamless
  <2>1. Sound(w) /\ w.ring \in Seq(Int) /\ Len(w.ring) \in Nat
    BY WriterFields DEF PlaybackInv, Core, Sound
  <2>2. ~w.shadowed
    <3>1. w.shadowed => w.ring[i] = Paused BY <2>1 DEF Sound
    <3> QED BY <3>1 DEF Paused
  <2>3. Flow(w.ring, w.off) BY <2>1, <2>2 DEF Sound
  <2>4. Place(i) = w.ring[i] % Stride BY <2>3 DEF Flow, Place, PlaceIn
  <2>5. i > 1 => (w.ring[i] > 0 => w.ring[i - 1] = w.ring[i] - 1) BY <2>3 DEF Flow
  <2>6. i > 1 => w.ring[i - 1] # Paused
    <3>1. i > 1 => i - 1 \in 1..Len(w.ring) BY <2>1
    <3>2. i > 1 => w.ring[i - 1] >= Silent BY <2>3, <3>1 DEF Flow
    <3> QED BY <3>2 DEF Silent, Paused
  <2> QED BY <2>4, <2>5, <2>6
<1> QED BY <1>1, PlaybackInvariance, PTL

\* A frame is open only behind the accepted prefix of the retained buffer:
\* padding silence, refills and resets never end inside a frame
\* (dsp.rs realign_with_silence, end_buffer_sequence).
THEOREM OpenFrameIsOwned == Spec => []OpenFrameOwned
<1>1. PlaybackInv => OpenFrameOwned
  <2> SUFFICES ASSUME PlaybackInv, ~w.dead, Running(w)
               PROVE  w.off = port.offset % Stride
    BY DEF OpenFrameOwned
  <2> QED BY DEF PlaybackInv, Core, Owned, Fits
<1> QED BY <1>1, PlaybackInvariance, PTL

\* The live target stays below its goal, and a ring with the capacity its
\* period requires leaves room above the goal for the largest write and one
\* more delivery, in place retunes included (sink/buffer.rs, buffer geometry).
THEOREM GoalCanBeKept == Spec => []GoalFits
<1>1. PlaybackInv => GoalFits
  <2> DEFINE d == playback_desired_delay(port.setup, Eighths)
             required == playback_buffer_required(port.setup, d, port.block, port.setup)
  <2> SUFFICES ASSUME PlaybackInv
               PROVE  /\ port.target <= port.goal
                      /\ Running(w) /\ port.setup # 0 /\ port.cap >= required =>
                           /\ port.min <= port.goal
                           /\ port.goal + port.setup + port.block <= port.cap
    BY DEF GoalFits
  <2>1. port \in PortState /\ Geared(w, port) BY DEF PlaybackInv, Core
  <2>2. port.setup \in Nat /\ port.block \in Nat /\ port.cap \in Nat BY <2>1, PortFields
  <2>3. d \in Nat BY <2>2, FloorFact
  <2> HIDE DEF d
  <2>4. ASSUME Running(w), port.cap >= required
        PROVE  port.min <= port.goal /\ port.goal + port.setup + port.block <= port.cap
    <3>1. /\ port.cap <= CapacityMax
          /\ port.goal = playback_target_delay(port.cap, port.setup, port.block, port.setup, d)
          /\ port.min = playback_fill_floor(port.setup, port.block)
      BY <2>1, <2>4 DEF Geared, d
    <3> QED BY <2>2, <2>3, <2>4, <3>1, GoalKept
  <2> QED BY <2>1, <2>4 DEF Geared
<1> QED BY <1>1, PlaybackInvariance, PTL

=============================================================================
