----------------------------- MODULE WakeProofs -----------------------------
(***************************************************************************)
(* A driver's wake: an edge is charged to its own stream, the deadline     *)
(* stays armed and is never run ahead of, for every period, retry delay,   *)
(* stall limit and servo correction.                                       *)
(***************************************************************************)
EXTENDS Wake, TLAPS

Grace == watchdog_grace(Period)

(* The wake driver's own consistency: a queued edge belongs to a knote, a  *)
(* knote to a registration, an expiration to a timer that ran out, and a   *)
(* node without a wake driver has none of it.                              *)
Driver(u, n) ==
    /\ u.knote.active => u.knote.on
    /\ u.knote.on => u.reg # NoReg
    /\ u.fired => u.timer = 0
    /\ ~n.native => u.reg = NoReg /\ u.snap = NoWake

(* A registration for the port's generation is a live one on its device,   *)
(* as long as the port has a device.                                       *)
Live(u, p) ==
    u.reg # NoReg /\ u.reg.cur /\ p.dsp # "closed" => u.reg.dev = "cur" /\ u.knote.on

(* So is the stream a cycle's snapshot names.                              *)
SnapLive(u, p) ==
    u.snap # NoWake => u.snap.cur /\ (p.dsp # "closed" => u.snap.dev = "cur")

(* The deadline is at most a period or an idle tick and the grace away, or *)
(* the armed timer makes up for the difference before the next tick.       *)
Bounded(u, idle) ==
    \E a \in Advances \cup {Retry} :
        /\ u.due <= Grace + a
        /\ idle /\ u.timer # Off => u.due <= u.timer \/ u.due + Retry <= u.timer + Grace + a

(* Outside the host's ready() callback a driver's timer is armed, and a    *)
(* stopped or following node's is not.                                     *)
Selected(u, n) ==
    /\ Driving(n) => u.timer # Off
    /\ ~n.started \/ n.following => u.timer = Off

(* What the operators of the driver and the timer keep.                    *)
Sound(u, n, p) == u \in WakeState /\ Driver(u, n) /\ Live(u, p)

(* All of it: a stopped node has no snapshot either.                       *)
Good(u, n, p, idle) ==
    /\ Sound(u, n, p)
    /\ SnapLive(u, p)
    /\ ~n.started => u.snap = NoWake
    /\ Bounded(u, idle)
    /\ idle => Selected(u, n)

(* The inductive invariant.                                                *)
WakeInv ==
    /\ node \in NodeState
    /\ port \in PortState
    /\ pc \in {"idle", "ready"}
    /\ owed \in BOOLEAN
    /\ sick \in BOOLEAN
    /\ Good(w, node, port, pc = "idle")

(* The deadline and its timer are left alone.                              *)
SameTime(u, v) == v.due = u.due /\ v.timer = u.timer /\ v.fired = u.fired

-----------------------------------------------------------------------------
(* The wake driver.                                                        *)

\* Removing a registration removes all of it or, refused, nothing.
LEMMA UnregisterFact ==
  ASSUME NEW n, NEW p, NEW u, Sound(u, n, p), NEW v \in unregister_stream(u)
  PROVE  /\ Sound(v, n, p)
         /\ SameTime(u, v)
         /\ v.snap = u.snap
<1>1. v = u \/ v = [u EXCEPT !.reg = NoReg, !.knote = NoKnote]
  BY DEF unregister_stream
<1>2. CASE v = u BY <1>2 DEF SameTime
<1>3. CASE v = [u EXCEPT !.reg = NoReg, !.knote = NoKnote]
  BY <1>3 DEF Sound, WakeState, Driver, Live, SameTime, NoKnote
<1> QED BY <1>1, <1>2, <1>3

\* A new registration is a live one on the port's device.
LEMMA AddedFact ==
  ASSUME NEW n \in NodeState, NEW p, NEW u, Sound(u, n, p), n.native,
         NEW v, v = [u EXCEPT !.reg = [cur |-> TRUE, dev |-> "cur"],
                              !.knote = [on |-> TRUE, active |-> FALSE]]
  PROVE  /\ Sound(v, n, p)
         /\ SameTime(u, v)
         /\ v.snap = u.snap
<1>1. [cur |-> TRUE, dev |-> "cur"] \in Streams BY DEF Streams
<1>2. v.reg # NoReg /\ v.reg.dev = "cur" BY <1>1, WakeAssumption DEF Sound, WakeState
<1> QED BY <1>1, <1>2 DEF Sound, WakeState, Driver, Live, SameTime

\* Whether the kernel takes it or not, registering keeps the driver sound.
LEMMA RegisterFact ==
  ASSUME NEW n \in NodeState, NEW p, NEW u, Sound(u, n, p), n.native,
         NEW r \in register_wake(u)
  PROVE  /\ Sound(r.w, n, p)
         /\ SameTime(u, r.w)
         /\ r.w.snap = u.snap
<1> DEFINE added == [u EXCEPT !.reg = [cur |-> TRUE, dev |-> "cur"],
                              !.knote = [on |-> TRUE, active |-> FALSE]]
<1>1. r.w = u \/ r.w = added \/ r.w \in unregister_stream(u)
  BY DEF register_wake
<1>2. CASE r.w = u BY <1>2 DEF SameTime
<1>3. CASE r.w = added
  <2> HIDE DEF added
  <2>1. \A v : v = added => Sound(v, n, p) /\ SameTime(u, v) /\ v.snap = u.snap
    BY AddedFact DEF added
  <2> QED BY <1>3, <2>1
<1>4. CASE r.w \in unregister_stream(u) BY <1>4, UnregisterFact
<1> QED BY <1>1, <1>2, <1>3, <1>4

\* Disabling the device wake also drops the snapshot.
LEMMA DisableFact ==
  ASSUME NEW n, NEW p, NEW u, Sound(u, n, p), NEW v \in disable_device_wake(u)
  PROVE  /\ Sound(v, n, p)
         /\ SameTime(u, v)
         /\ v.snap = NoWake
<1>1. PICK x \in unregister_stream(u) : v = [x EXCEPT !.snap = NoWake]
  BY DEF disable_device_wake
<1>2. Sound(x, n, p) /\ SameTime(u, x) BY UnregisterFact
<1> QED BY <1>1, <1>2 DEF Sound, WakeState, Driver, Live, SameTime

\* Invalidating does the same and forgives a failed registration.
LEMMA InvalidateFact ==
  ASSUME NEW n, NEW p, NEW u, Sound(u, n, p), NEW v \in invalidate_device_wake(u)
  PROVE  /\ Sound(v, n, p)
         /\ SameTime(u, v)
         /\ v.snap = NoWake
<1>1. PICK x \in disable_device_wake(u) : v = [x EXCEPT !.failed = FALSE]
  BY DEF invalidate_device_wake
<1>2. Sound(x, n, p) /\ SameTime(u, x) /\ x.snap = NoWake BY DisableFact
<1> QED BY <1>1, <1>2 DEF Sound, WakeState, Driver, Live, SameTime

\* Refreshing the registration keeps the driver sound and the time, and a
\* node or port that is no candidate for a device wake loses its snapshot.
LEMMA RefreshFact ==
  ASSUME NEW n \in NodeState, NEW p \in PortState, NEW u, Sound(u, n, p),
         NEW retry, NEW r \in refresh_device_wake(u, n, p, retry)
  PROVE  /\ Sound(r.w, n, p)
         /\ SameTime(u, r.w)
         /\ r.w.snap \in {u.snap, NoWake}
         /\ ~Candidate(n, p) => r.w.snap = NoWake
         /\ r.armed \in BOOLEAN
<1> DEFINE Unarmed(v) == [w |-> v, armed |-> FALSE]
<1>1. CASE ~n.native
  <2>1. r = Unarmed(u) BY <1>1 DEF refresh_device_wake
  <2> QED BY <1>1, <2>1 DEF Sound, Driver, SameTime
<1>2. CASE n.native /\ ~Candidate(n, p)
  <2>1. PICK v \in disable_device_wake(u) : r = Unarmed(v) BY <1>2 DEF refresh_device_wake
  <2> QED BY <1>2, <2>1, DisableFact
<1>3. CASE n.native /\ Candidate(n, p) /\ u.failed /\ ~retry
  <2>1. r = Unarmed(u) BY <1>3 DEF refresh_device_wake
  <2> QED BY <1>3, <2>1 DEF SameTime
<1>4. CASE n.native /\ Candidate(n, p) /\ ~(u.failed /\ ~retry)
  <2>1. PICK x \in register_wake(u) :
          r \in IF x.ok THEN {[w |-> [x.w EXCEPT !.failed = FALSE], armed |-> TRUE]}
               ELSE {Unarmed([v EXCEPT !.failed = TRUE]) : v \in unregister_stream(x.w)}
    BY <1>4 DEF refresh_device_wake
  <2>2. Sound(x.w, n, p) /\ SameTime(u, x.w) /\ x.w.snap = u.snap BY <1>4, RegisterFact
  <2>3. CASE x.ok
    <3>1. r = [w |-> [x.w EXCEPT !.failed = FALSE], armed |-> TRUE] BY <2>1, <2>3
    <3> QED BY <1>4, <2>2, <3>1 DEF Sound, WakeState, Driver, Live, SameTime
  <2>4. CASE ~x.ok
    <3>1. PICK v \in unregister_stream(x.w) : r = Unarmed([v EXCEPT !.failed = TRUE])
      BY <2>1, <2>4
    <3>2. Sound(v, n, p) /\ SameTime(x.w, v) /\ v.snap = x.w.snap BY <2>2, UnregisterFact
    <3> QED BY <1>4, <2>2, <3>1, <3>2 DEF Sound, WakeState, Driver, Live, SameTime
  <2> QED BY <2>3, <2>4
<1> QED BY <1>1, <1>2, <1>3, <1>4

-----------------------------------------------------------------------------
(* The timer.                                                              *)

\* The grace is a natural number, and a period's is the constant bound.
LEMMA GraceFact ==
  ASSUME NEW dur \in {0, Period}
  PROVE  watchdog_grace(dur) \in Nat /\ watchdog_grace(dur) <= Grace /\ Grace \in Nat
BY WakeAssumption DEF watchdog_grace, Grace, Greatest

\* Arming the timer replaces an expiration, and nothing else.
LEMMA ArmedFact ==
  ASSUME NEW n, NEW p, NEW u, Sound(u, n, p), NEW delay \in Int
  PROVE  /\ Sound(Armed(u, delay), n, p)
         /\ Armed(u, delay).timer = Greatest(delay, 0)
         /\ Armed(u, delay).due = u.due
         /\ Armed(u, delay).snap = u.snap
<1> DEFINE t == Greatest(delay, 0)
<1>1. t \in Nat BY DEF Greatest
<1> HIDE DEF t
<1>2. Armed(u, delay) = [u EXCEPT !.timer = t, !.fired = FALSE] BY DEF Armed, t
<1>3. Sound(Armed(u, delay), n, p) BY <1>1, <1>2 DEF Sound, WakeState, Driver, Live
<1>4. Armed(u, delay).timer = t BY <1>2 DEF Sound, WakeState
<1>5. Armed(u, delay).due = u.due /\ Armed(u, delay).snap = u.snap
  BY <1>2 DEF Sound, WakeState
<1> QED BY <1>3, <1>4, <1>5 DEF t

\* So does parking it.
LEMMA ParkedFact ==
  ASSUME NEW n, NEW p, NEW u, Sound(u, n, p)
  PROVE  /\ Sound(Parked(u), n, p)
         /\ Parked(u).timer = Off
         /\ Parked(u).due = u.due
         /\ Parked(u).snap = u.snap
BY DEF Sound, WakeState, Driver, Live, Parked

\* select_next_wake arms a driver's timer on its deadline (or on the retry
\* delay when the clock fails) and parks everybody else's.
LEMMA SelectFact ==
  ASSUME NEW n \in NodeState, NEW p \in PortState, NEW u, Sound(u, n, p),
         NEW v \in select_next_wake(u, n, p)
  PROVE  /\ Sound(v, n, p)
         /\ v.due = u.due
         /\ v.snap \in {u.snap, NoWake}
         /\ ~n.started => v.snap = NoWake
         /\ Driving(n) => v.timer \in Nat /\ (v.due <= v.timer \/ v.timer = Retry)
         /\ ~Driving(n) => v.timer = Off
<1>1. PICK r \in refresh_device_wake(u, n, p, FALSE) :
        v = IF Driving(n)
              THEN set_timeout(r.w, r.w.due + (IF r.armed THEN watchdog_grace(n.dur) ELSE 0))
              ELSE Parked(r.w)
  BY DEF select_next_wake
<1>2. /\ Sound(r.w, n, p)
      /\ SameTime(u, r.w)
      /\ r.w.snap \in {u.snap, NoWake}
      /\ ~Candidate(n, p) => r.w.snap = NoWake
      /\ r.armed \in BOOLEAN
  BY RefreshFact
<1>3. CASE Driving(n)
  <2> DEFINE late == IF r.armed THEN watchdog_grace(n.dur) ELSE 0
             delay == IF sick THEN Retry ELSE r.w.due + late
  <2>1. r.w.due \in Int BY <1>2 DEF Sound, WakeState
  <2>2. late \in Nat BY GraceFact DEF NodeState
  <2>3. delay \in Int BY <2>1, <2>2, WakeAssumption
  <2>4. v = Armed(r.w, delay) BY <1>1, <1>3 DEF set_timeout
  <2>5. /\ Sound(v, n, p)
        /\ v.timer = Greatest(delay, 0)
        /\ v.due = r.w.due
        /\ v.snap = r.w.snap
    <3> HIDE DEF delay
    <3> QED BY <1>2, <2>3, <2>4, ArmedFact
  <2>6. v.timer \in Nat /\ (v.due <= v.timer \/ v.timer = Retry)
    BY <2>1, <2>2, <2>5, WakeAssumption DEF Greatest
  <2> QED BY <1>2, <1>3, <2>5, <2>6 DEF Driving, SameTime
<1>4. CASE ~Driving(n)
  <2>1. v = Parked(r.w) BY <1>1, <1>4
  <2>2. ~Candidate(n, p) BY <1>4 DEF Candidate
  <2> QED BY <1>2, <1>4, <2>1, <2>2, ParkedFact DEF SameTime
<1> QED BY <1>3, <1>4

(* The nodes update_driver_wake starts a new phase for.                    *)
Leads(n) == n.started /\ ~n.following /\ n.pos # "none"

\* update_driver_wake starts a new phase at once, or retries when the clock
\* fails; a node that does not lead is parked.
LEMMA UpdateFact ==
  ASSUME NEW n \in NodeState, NEW p \in PortState, NEW u, Sound(u, n, p),
         NEW v \in update_driver_wake(u, n, p)
  PROVE  /\ Sound(v, n, p)
         /\ v.snap \in {u.snap, NoWake}
         /\ ~Candidate(n, p) => v.snap = NoWake
         /\ v.due \in {0, u.due}
         /\ Leads(n) => (v.timer = 0 /\ v.due = 0) \/ v.timer = Retry
         /\ ~Leads(n) => v.timer = Off
<1>1. CASE ~Leads(n)
  <2>1. PICK r \in refresh_device_wake(u, n, p, FALSE) : v = Parked(r.w)
    BY <1>1 DEF Leads, update_driver_wake
  <2>2. /\ Sound(r.w, n, p)
        /\ SameTime(u, r.w)
        /\ r.w.snap \in {u.snap, NoWake}
        /\ ~Candidate(n, p) => r.w.snap = NoWake
        /\ r.armed \in BOOLEAN
    BY RefreshFact
  <2> QED BY <1>1, <2>1, <2>2, ParkedFact DEF SameTime
<1>2. CASE Leads(n)
  <2>1. PICK r \in refresh_device_wake(u, n, p, TRUE) :
          v = IF sick THEN Armed(r.w, Retry) ELSE [Armed(r.w, 0) EXCEPT !.due = 0]
    BY <1>2 DEF Leads, update_driver_wake
  <2>2. /\ Sound(r.w, n, p)
        /\ SameTime(u, r.w)
        /\ r.w.snap \in {u.snap, NoWake}
        /\ ~Candidate(n, p) => r.w.snap = NoWake
        /\ r.armed \in BOOLEAN
    BY RefreshFact
  <2>3. CASE sick
    <3>1. Greatest(Retry, 0) = Retry /\ Retry \in Int BY WakeAssumption DEF Greatest
    <3> QED BY <1>2, <2>1, <2>2, <2>3, <3>1, ArmedFact DEF SameTime
  <2>4. CASE ~sick
    <3> DEFINE x == Armed(r.w, 0)
    <3>1. Sound(x, n, p) /\ x.timer = 0 /\ x.snap = r.w.snap
      <4>1. Greatest(0, 0) = 0 BY DEF Greatest
      <4> QED BY <2>2, <4>1, ArmedFact
    <3>2. v = [x EXCEPT !.due = 0] BY <2>1, <2>4
    <3> HIDE DEF x
    <3>3. Sound(v, n, p) /\ v.timer = 0 /\ v.snap = x.snap /\ v.due = 0
      BY <3>1, <3>2 DEF Sound, WakeState, Driver, Live
    <3> QED BY <1>2, <2>2, <3>1, <3>3
  <2> QED BY <2>3, <2>4
<1> QED BY <1>1, <1>2

-----------------------------------------------------------------------------
(* Ownership changes.                                                      *)

\* After a generation bump nothing registered counts as the port's.
LEMMA BumpedFact ==
  ASSUME NEW n, NEW u \in WakeState, Driver(u, n), NEW p
  PROVE  /\ Sound(Bumped(u), n, p)
         /\ SameTime(u, Bumped(u))
         /\ u.snap = NoWake => Bumped(u).snap = NoWake
         /\ Bumped(u).reg = NoReg \/ ~Bumped(u).reg.cur
<1> DEFINE reg == IF u.reg = NoReg THEN u.reg ELSE [u.reg EXCEPT !.cur = FALSE]
           snap == IF u.snap = NoWake THEN u.snap ELSE [u.snap EXCEPT !.cur = FALSE]
<1>1. /\ reg \in Streams \cup {NoReg}
      /\ reg = NoReg \/ ~reg.cur
      /\ u.reg # NoReg => reg # NoReg
      /\ u.reg = NoReg => reg = NoReg
  BY WakeAssumption DEF WakeState, Streams
<1>2. snap \in Streams \cup {NoWake} /\ (u.snap = NoWake => snap = NoWake)
  BY DEF WakeState, Streams
<1>3. Bumped(u) = [u EXCEPT !.reg = reg, !.snap = snap, !.failed = FALSE] BY DEF Bumped
<1> HIDE DEF reg, snap
<1> QED BY <1>1, <1>2, <1>3 DEF Sound, WakeState, Driver, Live, SameTime

\* A replaced device's registration only stays acceptable behind a closed
\* port or with a generation that no longer counts.
LEMMA ReplacedFact ==
  ASSUME NEW n, NEW u \in WakeState, Driver(u, n),
         NEW p, p.dsp = "closed" \/ u.reg = NoReg \/ ~u.reg.cur
  PROVE  /\ Sound(Replaced(u), n, p)
         /\ SameTime(u, Replaced(u))
         /\ u.snap = NoWake => Replaced(u).snap = NoWake
<1> DEFINE reg == IF u.reg = NoReg THEN u.reg ELSE [u.reg EXCEPT !.dev = "old"]
           snap == IF u.snap = NoWake THEN u.snap ELSE [u.snap EXCEPT !.dev = "old"]
<1>1. /\ reg \in Streams \cup {NoReg}
      /\ u.reg # NoReg => reg # NoReg /\ reg.cur = u.reg.cur
      /\ u.reg = NoReg => reg = NoReg
  BY WakeAssumption DEF WakeState, Streams
<1>2. snap \in Streams \cup {NoWake} /\ (u.snap = NoWake => snap = NoWake)
  BY DEF WakeState, Streams
<1>3. Replaced(u) = [u EXCEPT !.reg = reg, !.snap = snap] BY DEF Replaced
<1> HIDE DEF reg, snap
<1> QED BY <1>1, <1>2, <1>3 DEF Sound, WakeState, Driver, Live, SameTime

\* A new device under a new generation.
LEMMA SwappedFact ==
  ASSUME NEW n, NEW u \in WakeState, Driver(u, n), NEW p
  PROVE  /\ Sound(Replaced(Bumped(u)), n, p)
         /\ SameTime(u, Replaced(Bumped(u)))
         /\ u.snap = NoWake => Replaced(Bumped(u)).snap = NoWake
<1> DEFINE b == Bumped(u)
<1>1. /\ Sound(b, n, p)
      /\ SameTime(u, b)
      /\ u.snap = NoWake => b.snap = NoWake
      /\ b.reg = NoReg \/ ~b.reg.cur
  BY BumpedFact
<1> HIDE DEF b
<1>2. /\ Sound(Replaced(b), n, p)
      /\ SameTime(b, Replaced(b))
      /\ b.snap = NoWake => Replaced(b).snap = NoWake
  BY <1>1, ReplacedFact DEF Sound
<1> QED BY <1>1, <1>2 DEF SameTime, b

-----------------------------------------------------------------------------
(* The deadline.                                                           *)

\* An armed timer that covers the deadline, or retries, keeps it in bounds.
LEMMA BoundedFact ==
  ASSUME NEW b \in BOOLEAN, NEW c \in BOOLEAN, NEW u, NEW v,
         u.due \in Int, Bounded(u, b), v.due \in {0, u.due},
         v.timer = Off \/ (v.timer \in Nat /\ (v.due <= v.timer \/ v.timer = Retry))
  PROVE  Bounded(v, c)
<1>1. PICK a \in Advances \cup {Retry} : u.due <= Grace + a BY DEF Bounded
<1>2. a \in Nat /\ Grace \in Nat /\ Retry \in Nat BY WakeAssumption, GraceFact
<1>3. v.due <= Grace + a BY <1>1, <1>2
<1>4. v.timer # Off => v.due <= v.timer \/ v.due + Retry <= v.timer + Grace + a
  BY <1>2, <1>3
<1> QED BY <1>3, <1>4 DEF Bounded

\* Whatever select_next_wake leaves is good.
LEMMA SelectGood ==
  ASSUME NEW n \in NodeState, NEW p \in PortState, NEW u, Sound(u, n, p),
         SnapLive(u, p), NEW b \in BOOLEAN, Bounded(u, b),
         NEW v \in select_next_wake(u, n, p)
  PROVE  Good(v, n, p, TRUE)
<1>1. /\ Sound(v, n, p)
      /\ v.due = u.due
      /\ v.snap \in {u.snap, NoWake}
      /\ ~n.started => v.snap = NoWake
      /\ Driving(n) => v.timer \in Nat /\ (v.due <= v.timer \/ v.timer = Retry)
      /\ ~Driving(n) => v.timer = Off
  BY SelectFact
<1>2. u.due \in Int BY DEF Sound, WakeState
<1>3. Bounded(v, TRUE) BY <1>1, <1>2, BoundedFact
<1>4. SnapLive(v, p) BY <1>1 DEF SnapLive
<1>5. Selected(v, n) BY <1>1, WakeAssumption DEF Selected, Driving
<1> QED BY <1>1, <1>3, <1>4, <1>5 DEF Good

\* Whatever update_driver_wake leaves is good.
LEMMA UpdateGood ==
  ASSUME NEW n \in NodeState, NEW p \in PortState, NEW u, Sound(u, n, p),
         SnapLive(u, p) \/ ~Candidate(n, p), NEW b \in BOOLEAN, Bounded(u, b),
         NEW v \in update_driver_wake(u, n, p)
  PROVE  Good(v, n, p, TRUE)
<1>1. /\ Sound(v, n, p)
      /\ v.snap \in {u.snap, NoWake}
      /\ ~Candidate(n, p) => v.snap = NoWake
      /\ v.due \in {0, u.due}
      /\ Leads(n) => (v.timer = 0 /\ v.due = 0) \/ v.timer = Retry
      /\ ~Leads(n) => v.timer = Off
  BY UpdateFact
<1>2. u.due \in Int BY DEF Sound, WakeState
<1>3. Bounded(v, TRUE)
  <2>1. v.timer = Off \/ (v.timer \in Nat /\ (v.due <= v.timer \/ v.timer = Retry))
    BY <1>1, WakeAssumption
  <2> QED BY <1>1, <1>2, <2>1, BoundedFact
<1>4. SnapLive(v, p) BY <1>1 DEF SnapLive
<1>5. Selected(v, n) BY <1>1, WakeAssumption DEF Selected, Driving, Leads
<1>6. ~n.started => v.snap = NoWake BY <1>1 DEF Candidate, Driving
<1> QED BY <1>1, <1>3, <1>4, <1>5, <1>6 DEF Good

\* What is good outside ready() is good inside it.
LEMMA GoodWeakens ==
  ASSUME NEW n, NEW p, NEW u, Good(u, n, p, TRUE), NEW b \in BOOLEAN
  PROVE  Good(u, n, p, b)
BY DEF Good, Bounded

-----------------------------------------------------------------------------
(* Wakes.                                                                  *)

\* Reading what woke the loop keeps all but the timer's readiness: an edge of
\* the port's generation becomes the snapshot, and it is on the port's device.
LEMMA DrainFact ==
  ASSUME WakeInv, pc = "idle", Kind # "nothing", NEW lost \in BOOLEAN,
         NEW r, r = drain_wake(Kind, lost)
  PROVE  /\ r.port \in PortState
         /\ r.port.dsp = port.dsp
         /\ Sound(r.w, node, r.port)
         /\ SnapLive(r.w, r.port)
         /\ r.w.due = w.due
         /\ Bounded(r.w, TRUE)
<1> DEFINE t == IF w.fired THEN Off ELSE w.timer
           read == [w EXCEPT !.knote.active = FALSE, !.timer = t, !.fired = FALSE]
<1>1. w \in WakeState /\ Driver(w, node) /\ Live(w, port) /\ SnapLive(w, port)
      /\ Bounded(w, TRUE) /\ port \in PortState
  BY DEF WakeInv, Good, Sound
<1>2. t \in Nat \cup {Off} /\ t \in {Off, w.timer} BY <1>1 DEF WakeState
<1> HIDE DEF t
<1>3. /\ read \in WakeState
      /\ read.reg = w.reg /\ read.snap = w.snap /\ read.due = w.due
      /\ read.knote.on = w.knote.on /\ ~read.knote.active
      /\ read.timer \in {Off, w.timer} /\ ~read.fired
  BY <1>1, <1>2 DEF WakeState
<1>4. CASE Kind = "stream"
  <2>1. w.knote.active /\ w.reg.cur BY <1>4 DEF Kind
  <2>2. w.reg \in Streams /\ node.native
    BY <1>1, <2>1, WakeAssumption DEF Driver, WakeState
  <2>3. r = [w |-> [read EXCEPT !.snap = w.reg], port |-> [port EXCEPT !.required = @ \/ lost]]
    BY <1>4 DEF drain_wake, t
  <2> HIDE DEF read
  <2>4. r.port \in PortState /\ r.port.dsp = port.dsp BY <1>1, <2>3 DEF PortState
  <2>5. Sound(r.w, node, r.port) /\ r.w.due = w.due /\ r.w.timer = read.timer
    BY <1>1, <1>3, <2>2, <2>3, <2>4 DEF Sound, WakeState, Driver, Live
  <2>6. SnapLive(r.w, r.port)
    BY <1>1, <1>3, <2>1, <2>2, <2>3, <2>4 DEF SnapLive, Live, Driver, WakeState
  <2>7. Bounded(r.w, TRUE) BY <1>1, <1>3, <2>5 DEF Bounded
  <2> QED BY <2>4, <2>5, <2>6, <2>7
<1>5. CASE Kind = "timer"
  <2>1. r = [w |-> [read EXCEPT !.snap = NoWake], port |-> port]
    BY <1>5 DEF drain_wake, t
  <2> HIDE DEF read
  <2>2. Sound(r.w, node, port) /\ r.w.due = w.due /\ r.w.timer = read.timer
        /\ r.w.snap = NoWake
    BY <1>1, <1>3, <2>1 DEF Sound, WakeState, Driver, Live
  <2>3. Bounded(r.w, TRUE) BY <1>1, <1>3, <2>2 DEF Bounded
  <2>4. SnapLive(r.w, port) BY <2>2 DEF SnapLive
  <2>5. r.port = port BY <2>1
  <2> QED BY <1>1, <2>2, <2>3, <2>4, <2>5
<1>6. CASE Kind = "stale"
  <2>1. r = [w |-> read, port |-> port] BY <1>6 DEF drain_wake, t
  <2> HIDE DEF read
  <2>2. Sound(read, node, port) BY <1>1, <1>3 DEF Sound, Driver, Live
  <2>3. Bounded(read, TRUE) BY <1>1, <1>3 DEF Bounded
  <2>4. SnapLive(read, port) BY <1>1, <1>3 DEF SnapLive
  <2>5. r.w = read /\ r.port = port BY <2>1
  <2> QED BY <1>1, <1>3, <2>2, <2>3, <2>4, <2>5
<1> QED BY <1>4, <1>5, <1>6 DEF Kind

\* A latched rebuild may be claimed, which leaves the device alone.
LEMMA QueueFact ==
  ASSUME NEW p \in PortState, NEW q \in queue_required_rebuilds(p)
  PROVE  q \in PortState /\ q.dsp = p.dsp
BY DEF queue_required_rebuilds, PortState

\* The registration's liveness only depends on whether there is a device.
LEMMA SamePort ==
  ASSUME NEW n, NEW u, NEW p, NEW q, q.dsp = p.dsp, Sound(u, n, p)
  PROVE  Sound(u, n, q) /\ (SnapLive(u, p) => SnapLive(u, q))
BY DEF Sound, Live, SnapLive

\* What a wake goes on with after it was read and a disconnect claimed.
LEMMA ClaimedFact ==
  ASSUME WakeInv, Wakes, NEW c \in Claimed
  PROVE  /\ c.port \in PortState
         /\ Sound(c.w, node, c.port)
         /\ SnapLive(c.w, c.port)
         /\ c.w.due = w.due
         /\ Bounded(c.w, TRUE)
<1>0. PICK lost \in BOOLEAN : \E p \in queue_required_rebuilds(drain_wake(Kind, lost).port) :
        c = [w |-> drain_wake(Kind, lost).w, port |-> p]
  BY DEF Claimed
<1> DEFINE r == drain_wake(Kind, lost)
<1>1. PICK p \in queue_required_rebuilds(r.port) : c = [w |-> r.w, port |-> p]
  BY <1>0
<1>2. pc = "idle" /\ Kind # "nothing" BY DEF Wakes
<1>3. /\ r.port \in PortState
      /\ Sound(r.w, node, r.port)
      /\ SnapLive(r.w, r.port)
      /\ r.w.due = w.due
      /\ Bounded(r.w, TRUE)
  BY <1>2, DrainFact
<1> HIDE DEF r
<1>4. c.w = r.w /\ c.port = p /\ p \in PortState /\ p.dsp = r.port.dsp
  BY <1>1, <1>3, QueueFact DEF r
<1> QED BY <1>3, <1>4, SamePort

\* Nothing was readable any more: the next wake is selected again.
LEMMA SpuriousKeeps ==
  ASSUME WakeInv, WakeSpurious
  PROVE  WakeInv'
<1>1. Good(w', node, port, TRUE)
  BY SelectGood DEF WakeInv, WakeSpurious, Good
<1> QED BY <1>1 DEF WakeInv, WakeSpurious

\* The host's callback returns: so it is then.
LEMMA ReturnKeeps ==
  ASSUME WakeInv, ReadyReturns
  PROVE  WakeInv'
<1>1. Good(w', node, port, TRUE)
  BY SelectGood DEF WakeInv, ReadyReturns, Good
<1> QED BY <1>1 DEF WakeInv, ReadyReturns

\* An edge of an older generation is dropped.
LEMMA IgnoredKeeps ==
  ASSUME WakeInv, WakeIgnored
  PROVE  WakeInv'
<1>1. PICK lost \in BOOLEAN :
        port' = drain_wake(Kind, lost).port
        /\ w' \in select_next_wake(drain_wake(Kind, lost).w, node, port')
  BY DEF WakeIgnored
<1> DEFINE r == drain_wake(Kind, lost)
<1>2. /\ r.port \in PortState
      /\ Sound(r.w, node, r.port)
      /\ SnapLive(r.w, r.port)
      /\ Bounded(r.w, TRUE)
  BY DrainFact DEF WakeIgnored
<1> HIDE DEF r
<1>3. Good(w', node, port', TRUE) BY <1>1, <1>2, SelectGood DEF WakeInv, r
<1> QED BY <1>1, <1>2, <1>3 DEF WakeInv, WakeIgnored, r

\* A wake without a clock is retried.
LEMMA ClockFailsKeeps ==
  ASSUME WakeInv, WakeClockFails
  PROVE  WakeInv'
<1>1. PICK c \in Claimed : \E u \in disable_device_wake(c.w) :
        port' = c.port /\ w' = Armed(u, Retry)
  BY DEF WakeClockFails
<1>2. PICK u \in disable_device_wake(c.w) : port' = c.port /\ w' = Armed(u, Retry)
  BY <1>1
<1>3. c.port \in PortState /\ Sound(c.w, node, c.port) /\ Bounded(c.w, TRUE)
  BY ClaimedFact DEF WakeClockFails
<1>4. Sound(u, node, c.port) /\ SameTime(c.w, u) /\ u.snap = NoWake BY <1>3, DisableFact
<1>5. Retry \in Int /\ Greatest(Retry, 0) = Retry /\ Retry \in Nat BY WakeAssumption DEF Greatest
<1>6. Sound(w', node, port') /\ w'.timer = Retry /\ w'.due = c.w.due /\ w'.snap = NoWake
  BY <1>2, <1>4, <1>5, ArmedFact DEF SameTime
<1>7. c.w.due \in Int BY <1>3 DEF Sound, WakeState
<1>8. Bounded(w', TRUE) BY <1>3, <1>5, <1>6, <1>7, BoundedFact
<1>9. Selected(w', node)
  BY <1>5, <1>6, WakeAssumption DEF Selected, WakeClockFails, Wakes, Driving
<1>10. Good(w', node, port', TRUE) BY <1>6, <1>8, <1>9 DEF Good, SnapLive
<1> QED BY <1>2, <1>3, <1>10 DEF WakeInv, WakeClockFails, Wakes

\* The second half of a pair selects the next wake again.
LEMMA PreviousKeeps ==
  ASSUME WakeInv, WakeOfPreviousCycle
  PROVE  WakeInv'
<1>1. PICK c \in Claimed :
        port' = c.port /\ w' \in select_next_wake([c.w EXCEPT !.snap = NoWake], node, c.port)
  BY DEF WakeOfPreviousCycle
<1>2. c.port \in PortState /\ Sound(c.w, node, c.port) /\ Bounded(c.w, TRUE)
  BY ClaimedFact DEF WakeOfPreviousCycle
<1> DEFINE u == [c.w EXCEPT !.snap = NoWake]
<1>3. Sound(u, node, c.port) /\ u.snap = NoWake /\ u.due = c.w.due /\ u.timer = c.w.timer
  BY <1>2 DEF Sound, WakeState, Driver, Live
<1>4. Bounded(u, TRUE) /\ SnapLive(u, c.port) BY <1>2, <1>3 DEF Bounded, SnapLive
<1> HIDE DEF u
<1>5. Good(w', node, port', TRUE) BY <1>1, <1>2, <1>3, <1>4, SelectGood DEF WakeInv, u
<1> QED BY <1>1, <1>2, <1>5 DEF WakeInv, WakeOfPreviousCycle, Wakes

\* Idling moves the deadline by a tick at most from where the timer or the
\* edge found it.
LEMMA IdleKeeps ==
  ASSUME WakeInv, WakeIdle
  PROVE  WakeInv'
<1> DEFINE next == Retry + (IF Kind = "stream" THEN 0 ELSE Resynced)
<1>1. PICK c \in Claimed : \E u \in disable_device_wake(c.w) :
        port' = c.port /\ w' = set_timeout([u EXCEPT !.due = next], next)
  BY DEF WakeIdle
<1>2. PICK u \in disable_device_wake(c.w) :
        port' = c.port /\ w' = set_timeout([u EXCEPT !.due = next], next)
  BY <1>1
<1>3. Wakes /\ ~sick BY DEF WakeIdle, Accepted
<1>4. w \in WakeState /\ Driver(w, node) /\ Bounded(w, TRUE)
  BY <1>3 DEF WakeInv, Good, Sound, Wakes
<1>5. w.due \in Int /\ Stall \in Nat /\ Retry \in Nat /\ Grace \in Nat
  BY <1>4, WakeAssumption, GraceFact DEF WakeState
<1>6. next \in Int BY <1>5 DEF Resynced
<1>7. \E a \in Advances \cup {Retry} : next <= Grace + a
  <2>1. CASE Kind = "stream" \/ Resynced <= 0
    <3>1. next <= Grace + Retry BY <1>5, <2>1 DEF Resynced
    <3> QED BY <3>1
  <2>2. CASE Kind # "stream" /\ Resynced > 0
    <3>1. Resynced = w.due /\ next = w.due + Retry /\ w.due > 0 BY <1>5, <2>2 DEF Resynced
    <3>2. w.timer = 0 BY <1>3, <1>4, <2>2 DEF Wakes, Kind, Driver
    <3>3. PICK a \in Advances \cup {Retry} :
            w.due <= w.timer \/ w.due + Retry <= w.timer + Grace + a
      BY <1>4, <3>2, WakeAssumption DEF Bounded
    <3>4. a \in Nat BY WakeAssumption
    <3> QED BY <1>5, <3>1, <3>2, <3>3, <3>4
  <2>3. Resynced \in Int BY <1>5 DEF Resynced
  <2> QED BY <2>1, <2>2, <2>3
<1> HIDE DEF next
<1>8. c.port \in PortState /\ Sound(c.w, node, c.port) BY <1>3, ClaimedFact
<1>9. Sound(u, node, c.port) /\ u.snap = NoWake BY <1>8, DisableFact
<1> DEFINE v == [u EXCEPT !.due = next]
<1>10. Sound(v, node, c.port) /\ v.snap = NoWake /\ v.due = next
  BY <1>6, <1>9 DEF Sound, WakeState, Driver, Live
<1> HIDE DEF v
<1>11. w' = Armed(v, next) BY <1>2, <1>3 DEF set_timeout, v
<1>12. Sound(w', node, port') /\ w'.timer = Greatest(next, 0) /\ w'.due = next
       /\ w'.snap = NoWake
  BY <1>2, <1>6, <1>10, <1>11, ArmedFact
<1>13. w'.timer \in Nat /\ w'.due <= w'.timer BY <1>6, <1>12 DEF Greatest
<1>14. Bounded(w', TRUE) BY <1>7, <1>12, <1>13 DEF Bounded
<1>15. Selected(w', node) BY <1>3, <1>13, WakeAssumption DEF Selected, Wakes, Driving
<1>16. Good(w', node, port', TRUE) BY <1>12, <1>14, <1>15 DEF Good, SnapLive
<1> QED BY <1>2, <1>3, <1>8, <1>16 DEF WakeInv, WakeIdle, Wakes

\* An accepted wake found the deadline within the grace, and moves it by one
\* corrected period.
LEMMA CycleKeeps ==
  ASSUME WakeInv, WakeCycle
  PROVE  WakeInv'
<1>1. PICK c \in Claimed : \E next \in driver_servo(Resynced) :
        port' = c.port /\ w' = [c.w EXCEPT !.due = next]
  BY DEF WakeCycle
<1>2. PICK a \in Advances : port' = c.port /\ w' = [c.w EXCEPT !.due = Resynced + a]
  BY <1>1 DEF driver_servo
<1>3. Wakes /\ ~wake_is_from_previous_cycle(w, node.dur) /\ node.dur # 0
  BY DEF WakeCycle, Accepted
<1>4. w \in WakeState /\ node \in NodeState BY DEF WakeInv, Good, Sound
<1>5. w.due \in Int /\ Stall \in Nat /\ a \in Nat /\ Grace \in Nat
  BY <1>4, WakeAssumption, GraceFact DEF WakeState
<1>6. w.due <= Grace
  <2>1. node.dur = Period BY <1>3, <1>4 DEF NodeState
  <2> QED BY <1>3, <1>5, <2>1 DEF wake_is_from_previous_cycle, Grace
<1>7. Resynced \in Int /\ Resynced <= Grace BY <1>5, <1>6 DEF Resynced
<1> DEFINE next == Resynced + a
<1>8. next \in Int /\ next <= Grace + a BY <1>5, <1>7
<1>9. c.port \in PortState /\ Sound(c.w, node, c.port) /\ SnapLive(c.w, c.port)
  BY <1>3, ClaimedFact
<1>10. node.started BY <1>3 DEF Wakes, Driving
<1>11. w' = [c.w EXCEPT !.due = next] BY <1>2
<1> HIDE DEF next
<1>12. Sound(w', node, port') /\ SnapLive(w', port') /\ w'.due = next
  BY <1>2, <1>8, <1>9, <1>11 DEF Sound, WakeState, Driver, Live, SnapLive
<1>13. Bounded(w', FALSE) BY <1>8, <1>12 DEF Bounded
<1>14. Good(w', node, port', FALSE) BY <1>10, <1>12, <1>13 DEF Good
<1> QED BY <1>2, <1>9, <1>14 DEF WakeInv, WakeCycle

-----------------------------------------------------------------------------
(* process().                                                              *)

\* The end of every cycle: the snapshot goes, and outside ready() the next
\* wake is selected.
LEMMA FinishedKeeps ==
  ASSUME WakeInv, NEW u, NEW p \in PortState, Sound(u, node, p),
         NEW b \in BOOLEAN, Bounded(u, b), Finished(u, p)
  PROVE  WakeInv'
<1> DEFINE v == [u EXCEPT !.snap = NoWake]
<1>1. port' \in PortState /\ port'.dsp = p.dsp BY QueueFact DEF Finished
<1>2. Sound(v, node, p) /\ v.snap = NoWake /\ v.due = u.due /\ v.timer = u.timer
  BY DEF Sound, WakeState, Driver, Live
<1>3. w' \in IF pc = "ready" THEN {v} ELSE select_next_wake(v, node, port')
  BY DEF Finished
<1> HIDE DEF v
<1>4. Sound(v, node, port') /\ SnapLive(v, port') /\ Bounded(v, b) /\ Bounded(v, FALSE)
  BY <1>1, <1>2, SamePort DEF SnapLive, Bounded
<1>5. CASE pc = "ready"
  <2>1. Good(w', node, port', FALSE) BY <1>2, <1>3, <1>4, <1>5 DEF Good
  <2> QED BY <1>1, <1>5, <2>1 DEF WakeInv, Finished
<1>6. CASE pc = "idle"
  <2>1. Good(w', node, port', TRUE) BY <1>1, <1>3, <1>4, <1>6, SelectGood DEF WakeInv
  <2> QED BY <1>1, <1>6, <2>1 DEF WakeInv, Finished
<1> QED BY <1>5, <1>6 DEF WakeInv

\* The invariant as the lemmas take it.
LEMMA Unpacked ==
  ASSUME WakeInv
  PROVE  /\ node \in NodeState /\ port \in PortState
         /\ (pc = "idle") \in BOOLEAN
         /\ w \in WakeState /\ Driver(w, node)
         /\ Sound(w, node, port) /\ SnapLive(w, port)
         /\ ~node.started => w.snap = NoWake
         /\ Bounded(w, pc = "idle")
BY DEF WakeInv, Good, Sound

\* A cycle that suspends, primes or loses its device, or asks for one.
LEMMA PortsKeeps ==
  ASSUME WakeInv, ProcessPorts
  PROVE  WakeInv'
<1>1. PICK p \in queue_required_rebuilds(port) : \E q \in PortState :
        (q.dsp = p.dsp \/ p.dsp # "closed") /\ Finished(w, q)
  BY Unpacked, QueueFact DEF ProcessPorts, PortState
<1>2. PICK q \in PortState : (q.dsp = p.dsp \/ p.dsp # "closed") /\ Finished(w, q)
  BY <1>1
<1>3. p.dsp = port.dsp BY Unpacked, QueueFact
<1>4. Sound(w, node, q) BY <1>2, <1>3, Unpacked DEF Sound, Live
<1> QED BY <1>2, <1>4, Unpacked, FinishedKeeps

\* A new device, installed or not, comes with a new generation.
LEMMA SwapKeeps ==
  ASSUME WakeInv, NEW p \in PortState,
         \E u \in invalidate_device_wake(w) :
           \E v \in update_driver_wake(Replaced(Bumped(u)), node, p) : Finished(v, p)
  PROVE  WakeInv'
<1>1. PICK u \in invalidate_device_wake(w) :
        \E v \in update_driver_wake(Replaced(Bumped(u)), node, p) : Finished(v, p)
  OBVIOUS
<1> DEFINE x == Replaced(Bumped(u))
<1>2. PICK v \in update_driver_wake(x, node, p) : Finished(v, p) BY <1>1
<1>3. Sound(u, node, port) /\ SameTime(w, u) /\ u.snap = NoWake BY Unpacked, InvalidateFact
<1>4. Sound(x, node, p) /\ SameTime(u, x) /\ x.snap = NoWake
  BY <1>3, SwappedFact DEF Sound
<1> HIDE DEF x
<1>5. Bounded(x, pc = "idle") /\ SnapLive(x, p)
  BY <1>3, <1>4, Unpacked DEF Bounded, SameTime, SnapLive
<1>6. Good(v, node, p, TRUE) BY <1>4, <1>5, Unpacked, UpdateGood
<1> QED BY <1>2, <1>6, FinishedKeeps DEF Good

\* An installed replacement.
LEMMA InstalledKeeps ==
  ASSUME WakeInv, SwapInstalled
  PROVE  WakeInv'
<1> DEFINE p == [port EXCEPT !.dsp = "open", !.pending = FALSE, !.required = FALSE]
<1>1. p \in PortState BY Unpacked DEF PortState
<1> QED BY <1>1, SwapKeeps DEF SwapInstalled

\* A replacement that failed.
LEMMA FailedKeeps ==
  ASSUME WakeInv, SwapFailed
  PROVE  WakeInv'
<1> DEFINE p == [port EXCEPT !.dsp = "closed", !.pending = FALSE, !.required = FALSE]
<1>1. p \in PortState BY Unpacked DEF PortState
<1> QED BY <1>1, SwapKeeps DEF SwapFailed

\* A replacement that was given up keeps the device.
LEMMA AbortedKeeps ==
  ASSUME WakeInv, SwapAborted
  PROVE  WakeInv'
<1> DEFINE p == [port EXCEPT !.pending = FALSE]
<1>1. p \in PortState /\ p.dsp = port.dsp BY Unpacked DEF PortState
<1>2. Finished(w, p) BY DEF SwapAborted
<1> HIDE DEF p
<1>3. Sound(w, node, p) BY <1>1, Unpacked, SamePort
<1> QED BY <1>1, <1>2, <1>3, Unpacked, FinishedKeeps

\* A retired device leaves a closed port behind.
LEMMA RetiredKeeps ==
  ASSUME WakeInv, SwapRetired
  PROVE  WakeInv'
<1> DEFINE p == [port EXCEPT !.dsp = "closed", !.required = FALSE]
           y == [w EXCEPT !.snap = NoWake]
           x == Replaced(y)
<1>1. PICK u \in update_driver_wake(x, node, p) : Finished(u, p) BY DEF SwapRetired
<1>2. p \in PortState /\ p.dsp = "closed" BY Unpacked DEF PortState
<1> HIDE DEF p
<1>3. y \in WakeState /\ Driver(y, node) /\ y.snap = NoWake /\ SameTime(w, y)
  BY Unpacked DEF WakeState, Driver, SameTime
<1> HIDE DEF y
<1>4. Sound(x, node, p) /\ SameTime(y, x) /\ x.snap = NoWake BY <1>2, <1>3, ReplacedFact
<1> HIDE DEF x
<1>5. Bounded(x, pc = "idle") /\ SnapLive(x, p)
  BY <1>3, <1>4, Unpacked DEF Bounded, SameTime, SnapLive
<1>6. Good(u, node, p, TRUE) BY <1>2, <1>4, <1>5, Unpacked, UpdateGood
<1> QED BY <1>1, <1>2, <1>6, FinishedKeeps DEF Good

\* A cycle that lands on a stopped node.
LEMMA StoppedKeeps ==
  ASSUME WakeInv, ProcessStopped
  PROVE  WakeInv'
<1>1. Sound(w', node, port) /\ w'.snap = NoWake /\ SameTime(w, w')
  BY Unpacked DEF ProcessStopped, Sound, WakeState, Driver, Live, SameTime
<1>2. Good(w', node, port, pc = "idle")
  BY <1>1 DEF WakeInv, Good, SnapLive, Bounded, Selected, SameTime
<1> QED BY <1>2 DEF WakeInv, ProcessStopped

-----------------------------------------------------------------------------
(* Commands.                                                               *)

\* Only the wake driver's existence matters to its consistency.
LEMMA SameDriver ==
  ASSUME NEW n, NEW m, m.native = n.native, NEW u, NEW p, Sound(u, n, p)
  PROVE  Sound(u, m, p)
BY DEF Sound, Driver

\* Start.
LEMMA StartKeeps ==
  ASSUME WakeInv, Start
  PROVE  WakeInv'
<1>1. node' \in NodeState /\ node'.native = node.native /\ w' \in update_driver_wake(w, node', port)
  BY Unpacked DEF Start, NodeState, Follower
<1>2. Sound(w, node', port) BY <1>1, Unpacked, SameDriver
<1>3. Good(w', node', port, TRUE) BY <1>1, <1>2, Unpacked, UpdateGood
<1>4. Good(w', node', port, pc = "idle") BY <1>3, GoodWeakens
<1> QED BY <1>1, <1>4 DEF WakeInv, Start

\* Pause: the generation it ends takes every registration with it.
LEMMA PauseKeeps ==
  ASSUME WakeInv, Pause
  PROVE  WakeInv'
<1>1. node' \in NodeState /\ node'.native = node.native /\ ~node'.started
  BY Unpacked DEF Pause, NodeState
<1>2. port' \in PortState BY Unpacked DEF Pause, PortState
<1>3. PICK u \in update_driver_wake(w, node', port) : w' = Bumped(u) BY DEF Pause
<1>4. Sound(w, node', port) BY <1>1, Unpacked, SameDriver
<1>5. Good(u, node', port, TRUE) BY <1>1, <1>3, <1>4, Unpacked, UpdateGood
<1>6. u \in WakeState /\ Driver(u, node') /\ u.snap = NoWake BY <1>1, <1>5 DEF Good, Sound
<1>7. Sound(w', node', port') /\ SameTime(u, w') /\ w'.snap = NoWake BY <1>3, <1>6, BumpedFact
<1>8. Good(w', node', port', TRUE)
  BY <1>5, <1>7 DEF Good, SnapLive, Bounded, Selected, SameTime
<1>9. Good(w', node', port', pc = "idle") BY <1>8, GoodWeakens
<1> QED BY <1>1, <1>2, <1>9 DEF WakeInv, Pause

\* Suspend: the device goes as well.
LEMMA SuspendKeeps ==
  ASSUME WakeInv, Suspend
  PROVE  WakeInv'
<1>1. node' \in NodeState /\ node'.native = node.native /\ ~node'.started
  BY Unpacked DEF Suspend, NodeState
<1>2. port' \in PortState BY DEF Suspend, PortState
<1>3. PICK u \in invalidate_device_wake(w) : \E v \in update_driver_wake(u, node', port) :
        w' = Bumped(Replaced([v EXCEPT !.snap = NoWake]))
  BY DEF Suspend
<1>4. PICK v \in update_driver_wake(u, node', port) :
        w' = Bumped(Replaced([v EXCEPT !.snap = NoWake]))
  BY <1>3
<1>5. Sound(u, node, port) /\ SameTime(w, u) /\ u.snap = NoWake BY Unpacked, InvalidateFact
<1>6. Sound(u, node', port) BY <1>1, <1>5, SameDriver
<1>7. Bounded(u, pc = "idle") /\ SnapLive(u, port)
  BY <1>5, Unpacked DEF Bounded, SameTime, SnapLive
<1>8. Good(v, node', port, TRUE) BY <1>1, <1>6, <1>7, Unpacked, UpdateGood
<1> DEFINE y == [v EXCEPT !.snap = NoWake]
           x == Replaced(y)
           closed == [dsp |-> "closed"]
<1>9. y \in WakeState /\ Driver(y, node') /\ y.snap = NoWake /\ SameTime(v, y)
  BY <1>8 DEF Good, Sound, WakeState, Driver, SameTime
<1> HIDE DEF y
<1>10. x \in WakeState /\ Driver(x, node') /\ SameTime(y, x) /\ x.snap = NoWake
  <2>1. closed.dsp = "closed" OBVIOUS
  <2> HIDE DEF closed
  <2> QED BY <1>9, <2>1, ReplacedFact DEF Sound
<1>11. w' = Bumped(x) BY <1>4 DEF y
<1> HIDE DEF x
<1>12. Sound(w', node', port') /\ SameTime(x, w') /\ w'.snap = NoWake
  BY <1>10, <1>11, BumpedFact
<1>13. Good(w', node', port', TRUE)
  BY <1>8, <1>9, <1>10, <1>12 DEF Good, SnapLive, Bounded, Selected, SameTime
<1>14. Good(w', node', port', pc = "idle") BY <1>13, GoodWeakens
<1> QED BY <1>1, <1>2, <1>14 DEF WakeInv, Suspend

\* A change of the port is followed by a new phase, or by nothing while the
\* node is stopped.
LEMMA UpdatedGood ==
  ASSUME WakeInv, NEW p \in PortState, NEW u, Sound(u, node, p), SameTime(w, u),
         SnapLive(u, p) \/ ~Candidate(node, p), ~node.started => u.snap = NoWake,
         NEW v \in Updated(u, p)
  PROVE  Good(v, node, p, pc = "idle")
<1>1. Bounded(u, pc = "idle") BY Unpacked DEF Bounded, SameTime
<1>2. CASE node.started
  <2>1. v \in update_driver_wake(u, node, p) BY <1>2 DEF Updated
  <2>2. Good(v, node, p, TRUE) BY <1>1, <2>1, Unpacked, UpdateGood
  <2> QED BY <2>2, GoodWeakens
<1>3. CASE ~node.started
  <2>1. v = u BY <1>3 DEF Updated
  <2>2. pc = "idle" => Selected(u, node) BY DEF WakeInv, Good, Selected, SameTime
  <2> QED BY <1>1, <1>3, <2>1, <2>2 DEF Good, SnapLive
<1> QED BY <1>2, <1>3

\* The claim of a configuration bumps the generation and disarms the device.
LEMMA InstallBeginKeeps ==
  ASSUME WakeInv, InstallBegin
  PROVE  WakeInv'
<1> DEFINE p == [port EXCEPT !.pending = TRUE]
           u == Bumped(w)
<1>1. p \in PortState /\ p.pending BY Unpacked DEF PortState
<1>2. port' = p /\ w' \in Updated(u, p) BY DEF InstallBegin
<1> HIDE DEF p
<1>3. Sound(u, node, p) /\ SameTime(w, u) /\ (w.snap = NoWake => u.snap = NoWake)
  BY Unpacked, BumpedFact
<1> HIDE DEF u
<1>4. ~Candidate(node, p) BY <1>1 DEF Candidate
<1>5. Good(w', node, p, pc = "idle") BY <1>1, <1>2, <1>3, <1>4, Unpacked, UpdatedGood
<1> QED BY <1>1, <1>2, <1>5 DEF WakeInv, InstallBegin

\* The new device's registration starts from nothing.
LEMMA InstallEndKeeps ==
  ASSUME WakeInv, InstallEnd
  PROVE  WakeInv'
<1>1. PICK s \in {"open", "closed"} :
        LET p == [port EXCEPT !.dsp = s, !.pending = FALSE, !.required = FALSE]
        IN  /\ port' = p
            /\ \E u \in invalidate_device_wake(w) : w' \in Updated(Replaced(Bumped(u)), p)
  BY DEF InstallEnd
<1>2. PICK u \in invalidate_device_wake(w) : w' \in Updated(Replaced(Bumped(u)), port')
  BY <1>1
<1>3. port' \in PortState BY <1>1, Unpacked DEF PortState
<1>4. Sound(u, node, port) /\ SameTime(w, u) /\ u.snap = NoWake BY Unpacked, InvalidateFact
<1> DEFINE x == Replaced(Bumped(u))
<1>5. Sound(x, node, port') /\ SameTime(u, x) /\ x.snap = NoWake
  BY <1>4, SwappedFact DEF Sound
<1>6. w' \in Updated(x, port') BY <1>2
<1> HIDE DEF x
<1>7. SameTime(w, x) /\ SnapLive(x, port') BY <1>4, <1>5 DEF SameTime, SnapLive
<1>8. Good(w', node, port', pc = "idle") BY <1>3, <1>5, <1>6, <1>7, UpdatedGood
<1> QED BY <1>3, <1>8 DEF WakeInv, InstallEnd

\* A released format closes the port under a new generation.
LEMMA ReleaseKeeps ==
  ASSUME WakeInv, ReleaseFormat
  PROVE  WakeInv'
<1>1. PICK u \in invalidate_device_wake(w) :
        w' \in Updated(Replaced(Bumped([u EXCEPT !.snap = NoWake])), port')
  BY DEF ReleaseFormat
<1>2. port' \in PortState BY Unpacked DEF ReleaseFormat, PortState
<1>3. Sound(u, node, port) /\ SameTime(w, u) /\ u.snap = NoWake BY Unpacked, InvalidateFact
<1>4. [u EXCEPT !.snap = NoWake] = u BY <1>3 DEF Sound, WakeState
<1> DEFINE x == Replaced(Bumped(u))
<1>5. Sound(x, node, port') /\ SameTime(u, x) /\ x.snap = NoWake
  BY <1>3, SwappedFact DEF Sound
<1>6. w' \in Updated(x, port') BY <1>1, <1>4
<1> HIDE DEF x
<1>7. SameTime(w, x) /\ SnapLive(x, port') BY <1>3, <1>5 DEF SameTime, SnapLive
<1>8. Good(w', node, port', pc = "idle") BY <1>2, <1>5, <1>6, <1>7, UpdatedGood
<1> QED BY <1>2, <1>8 DEF WakeInv, ReleaseFormat

\* A returned lease leaves the device and its registration alone.
LEMMA TakeoverKeeps ==
  ASSUME WakeInv, TakeoverReleased
  PROVE  WakeInv'
<1>1. port' \in PortState /\ port'.dsp = port.dsp BY Unpacked DEF TakeoverReleased, PortState
<1>2. Sound(w, node, port') /\ SnapLive(w, port') BY <1>1, Unpacked, SamePort
<1> QED BY <1>1, <1>2 DEF WakeInv, TakeoverReleased, Good

\* An io area that changes the node's role starts a new phase; one that does
\* not, leaves a driver a driver.
LEMMA SetIoKeeps ==
  ASSUME WakeInv, SetIo
  PROVE  WakeInv'
<1>1. PICK pos \in {"none", "ours", "theirs"}, clk \in BOOLEAN :
        /\ pos = node.pos \/ clk = node.clk
        /\ LET io == [node EXCEPT !.pos = pos, !.clk = clk,
                                  !.dur = IF pos = "none" THEN 0 ELSE @]
               n  == IF io.started THEN [io EXCEPT !.following = Follower(io)] ELSE io
               changed == n.following # node.following
                          \/ (pos # "none" /\ clk) # (node.pos # "none" /\ node.clk)
           IN  /\ node' = n
               /\ w' \in IF n.started /\ changed THEN update_driver_wake(w, n, port) ELSE {w}
  BY Zenon DEF SetIo
<1> DEFINE io == [node EXCEPT !.pos = pos, !.clk = clk,
                              !.dur = IF pos = "none" THEN 0 ELSE @]
           n == IF io.started THEN [io EXCEPT !.following = Follower(io)] ELSE io
           changed == n.following # node.following
                      \/ (pos # "none" /\ clk) # (node.pos # "none" /\ node.clk)
<1>2. /\ io \in NodeState
      /\ io.native = node.native /\ io.started = node.started
      /\ io.pos = pos /\ io.clk = clk
  BY Unpacked DEF NodeState
<1>3. /\ node' = n
      /\ w' \in IF n.started /\ changed THEN update_driver_wake(w, n, port) ELSE {w}
  BY <1>1, Zenon
<1> HIDE DEF io
<1>4. /\ n \in NodeState
      /\ n.native = node.native /\ n.started = node.started
      /\ n.pos = pos /\ n.clk = clk
  BY <1>2 DEF NodeState, Follower
<1> HIDE DEF n
<1>5. Sound(w, n, port) BY <1>4, Unpacked, SameDriver
<1>6. CASE n.started /\ changed
  <2>1. Good(w', n, port, TRUE) BY <1>3, <1>4, <1>5, <1>6, Unpacked, UpdateGood
  <2>2. Good(w', n, port, pc = "idle") BY <2>1, GoodWeakens
  <2> QED BY <1>3, <1>4, <2>2 DEF WakeInv, SetIo
<1>7. CASE ~n.started
  <2>1. w' = w BY <1>3, <1>7
  <2>2. pc = "idle" => Selected(w, n)
    BY <1>4, <1>7, Unpacked DEF WakeInv, Good, Selected, Driving
  <2>3. Good(w, n, port, pc = "idle") BY <1>4, <1>5, <1>7, <2>2, Unpacked DEF Good
  <2> QED BY <1>3, <1>4, <2>1, <2>3 DEF WakeInv, SetIo
<1>8. CASE n.started /\ ~changed
  <2>1. w' = w BY <1>3, <1>8
  <2>2. n.following = node.following /\ (Driving(n) <=> Driving(node))
    BY <1>4, <1>8, Unpacked DEF Driving, NodeState
  <2>3. pc = "idle" => Selected(w, n)
    BY <1>4, <1>8, <2>2 DEF WakeInv, Good, Selected
  <2>4. Good(w, n, port, pc = "idle") BY <1>4, <1>5, <1>8, <2>3, Unpacked DEF Good
  <2> QED BY <1>3, <1>4, <2>1, <2>4 DEF WakeInv, SetIo
<1> QED BY <1>6, <1>7, <1>8

-----------------------------------------------------------------------------
(* The environment.                                                        *)

\* Time passes for the deadline and for the timer alike.
LEMMA TickKeeps ==
  ASSUME WakeInv, Tick
  PROVE  WakeInv'
<1> DEFINE due == Greatest(w.due - 1, -(Stall + 1))
           timer == IF w.timer = Off THEN Off ELSE Greatest(w.timer - 1, 0)
<1>1. w' = [w EXCEPT !.due = due, !.timer = timer] BY DEF Tick
<1>2. w.due \in Int /\ w.timer \in Nat \cup {Off} /\ Stall \in Nat /\ Off \notin Nat
      /\ Retry \in Nat /\ Grace \in Nat
  BY Unpacked, WakeAssumption, GraceFact DEF WakeState
<1>3. due \in Int /\ timer \in Nat \cup {Off} /\ (timer = Off <=> w.timer = Off)
      /\ (w.timer = 0 => timer = 0)
  BY <1>2 DEF Greatest
<1>4. ASSUME NEW a \in Advances \cup {Retry}, w.due <= Grace + a
      PROVE  /\ due <= Grace + a
             /\ (w.timer # Off => w.due <= w.timer \/ w.due + Retry <= w.timer + Grace + a)
                => (timer # Off => due <= timer \/ due + Retry <= timer + Grace + a)
  <2>1. a \in Nat BY WakeAssumption
  <2> QED BY <1>2, <1>4, <2>1 DEF Greatest
<1> HIDE DEF due, timer
<1>5. /\ Sound(w', node, port)
      /\ w'.due = due /\ w'.timer = timer /\ w'.snap = w.snap
  BY <1>1, <1>3, Unpacked DEF Sound, WakeState, Driver, Live
<1>6. Bounded(w', pc = "idle") BY <1>4, <1>5, Unpacked DEF Bounded
<1>7. pc = "idle" => Selected(w', node) BY <1>3, <1>5 DEF WakeInv, Good, Selected
<1>8. Good(w', node, port, pc = "idle")
  BY <1>5, <1>6, <1>7, Unpacked DEF Good, SnapLive
<1> QED BY <1>8 DEF WakeInv, Tick

\* An expiration, an edge and the end of a retired descriptor leave the
\* deadline alone.
LEMMA KernelKeeps ==
  ASSUME WakeInv, TimerExpires \/ DeviceActivates \/ RetiredCloses
  PROVE  WakeInv'
<1>1. /\ Sound(w', node, port)
      /\ w'.due = w.due /\ w'.timer = w.timer /\ w'.snap = w.snap
  <2>1. CASE TimerExpires
    BY <2>1, Unpacked DEF TimerExpires, Sound, WakeState, Driver, Live
  <2>2. CASE DeviceActivates
    BY <2>2, Unpacked DEF DeviceActivates, Sound, WakeState, Driver, Live
  <2>3. CASE RetiredCloses
    BY <2>3, Unpacked DEF RetiredCloses, NoKnote, Sound, WakeState, Driver, Live
  <2> QED BY <2>1, <2>2, <2>3
<1>2. UNCHANGED <<node, port, pc, owed, sick>>
  BY DEF TimerExpires, DeviceActivates, RetiredCloses
<1>3. Good(w', node, port, pc = "idle")
  BY <1>1 DEF WakeInv, Good, SnapLive, Bounded, Selected
<1> QED BY <1>2, <1>3 DEF WakeInv

\* The host's position and the clock are not the wake's.
LEMMA OutsideKeeps ==
  ASSUME WakeInv, HostWritesPosition \/ ClockChanges
  PROVE  WakeInv'
<1>1. CASE HostWritesPosition
  <2>1. PICK dur \in {0, Period} : node' = [node EXCEPT !.dur = dur]
    BY <1>1 DEF HostWritesPosition
  <2>2. /\ node' \in NodeState /\ node'.native = node.native
        /\ node'.started = node.started /\ node'.following = node.following
        /\ (Driving(node') <=> Driving(node))
    BY <2>1, Unpacked DEF NodeState, Driving
  <2>3. Sound(w, node', port) BY <2>2, Unpacked, SameDriver
  <2>4. Good(w, node', port, pc = "idle") BY <2>2, <2>3 DEF WakeInv, Good, Selected
  <2> QED BY <1>1, <2>2, <2>4 DEF WakeInv, HostWritesPosition
<1>2. CASE ClockChanges BY <1>2 DEF WakeInv, ClockChanges
<1> QED BY <1>1, <1>2

-----------------------------------------------------------------------------
\* A node starts without a wake.
LEMMA InitWake == Init => WakeInv
<1> SUFFICES ASSUME Init PROVE WakeInv OBVIOUS
<1>1. node \in NodeState /\ ~node.started BY DEF Init, NodeState, WakeDrivers
<1>2. port \in PortState BY DEF Init, PortState
<1>3. Sound(w, node, port) BY DEF Init, NoKnote, Sound, WakeState, Driver, Live
<1>4. w.due = 0 /\ w.timer = Off /\ w.snap = NoWake BY DEF Init
<1>5. Bounded(w, TRUE)
  <2>1. 0 <= Grace + Retry BY WakeAssumption, GraceFact
  <2> QED BY <1>4, <2>1 DEF Bounded
<1>6. Good(w, node, port, TRUE) BY <1>1, <1>3, <1>4, <1>5 DEF Good, SnapLive, Selected, Driving
<1> QED BY <1>1, <1>2, <1>6 DEF Init, WakeInv

\* Every step keeps the wake invariant.
LEMMA NextKeepsWake ==
  ASSUME WakeInv, [Next]_vars
  PROVE  WakeInv'
<1>1. CASE Dispatch
  BY <1>1, IgnoredKeeps, ClockFailsKeeps, PreviousKeeps, IdleKeeps, CycleKeeps DEF Dispatch
<1>2. CASE WakeSpurious BY <1>2, SpuriousKeeps
<1>3. CASE ReadyReturns BY <1>3, ReturnKeeps
<1>4. CASE Process
  BY <1>4, PortsKeeps, InstalledKeeps, AbortedKeeps, RetiredKeeps, FailedKeeps, StoppedKeeps
  DEF Process
<1>5. CASE Command
  BY <1>5, StartKeeps, PauseKeeps, SuspendKeeps, InstallBeginKeeps, InstallEndKeeps,
     ReleaseKeeps, TakeoverKeeps, SetIoKeeps
  DEF Command
<1>6. CASE Environment BY <1>6, TickKeeps, KernelKeeps, OutsideKeeps DEF Environment
<1>7. CASE UNCHANGED vars BY <1>7 DEF vars, WakeInv
<1> QED BY <1>1, <1>2, <1>3, <1>4, <1>5, <1>6, <1>7 DEF Next

\* The wake driver, the timer and the deadline stay consistent.
THEOREM WakeInvariance == Spec => []WakeInv
<1>1. Init => WakeInv BY InitWake
<1>2. WakeInv /\ [Next]_vars => WakeInv' BY NextKeepsWake
<1> QED BY <1>1, <1>2, PTL DEF Spec

\* The state keeps its type.
THEOREM WakeTypes == Spec => []TypeOK
<1>1. WakeInv => TypeOK BY DEF WakeInv, Good, Sound, TypeOK
<1> QED BY <1>1, WakeInvariance, PTL

\* An edge is attributed to the device and generation it was queued for only,
\* whatever becomes of the device, the registration or the rebuild meanwhile.
THEOREM EdgeIsCurrent == Spec => []WakeIsCurrent
<1>1. WakeInv => WakeIsCurrent BY DEF WakeInv, Good, Sound, SnapLive, Live, WakeIsCurrent
<1> QED BY <1>1, WakeInvariance, PTL

\* No path loses a driver's one-shot timer or leaves a parked node's running.
THEOREM TimerIsSelected == Spec => []WakeSelected
<1>1. WakeInv => WakeSelected BY DEF WakeInv, Good, Selected, WakeSelected
<1> QED BY <1>1, WakeInvariance, PTL

\* The deadline never runs further ahead than one wake can move it.
THEOREM DeadlineNotAhead == Spec => []NotAhead
<1>1. WakeInv => NotAhead BY DEF WakeInv, Good, Bounded, NotAhead, Grace
<1> QED BY <1>1, WakeInvariance, PTL
=============================================================================
