--------------------------- MODULE HotplugProofs ---------------------------
(***************************************************************************)
(* What the host is told of the device catalog is exact, for any number of *)
(* parents, units, incarnations and restarts of devd; what a device object *)
(* says of its routes is what its mixer does, for any routes, controls,    *)
(* levels and recording sources; and its host learns of every change of    *)
(* them, through a queue of any length.                                    *)
(***************************************************************************)
EXTENDS Hotplug, Routes, FiniteSetTheorems, WellFoundedInduction, TLAPS

Catalogs == [Parents -> SUBSET (Units \X Nat)]

(* No unit stands under two parents.                                       *)
Disjoint(g) ==
  \A p, q \in Parents : p # q => UnitsOf(g[p]) \cap UnitsOf(g[q]) = {}

(* The objects of a catalog.                                               *)
Listed(g) == {q \in Parents : g[q] # {}}
Objects(g) == {Object(p, g[p]) : p \in Listed(g)}
WellFormed(o) == o.parent \in Parents /\ o.ends # {} /\ o.id = ObjectId(UnitsOf(o.ends))

(* What the host knows, less what it will be told to forget, and what it   *)
(* will be told of.                                                        *)
Told == {o \in host : o.id \notin removed} \cup added

(* The inductive invariant, by the variables its parts are about.          *)
World == owner \in [Units -> Parents \cup {NoParent}] /\ inst \in [Units -> Nat]

Wired ==
  /\ devd \in BOOLEAN /\ socket \in BOOLEAN /\ timer \in BOOLEAN
  /\ watched \in BOOLEAN /\ unread \in BOOLEAN /\ missed \in BOOLEAN
  /\ plugs \in 0 .. MaxPlugs /\ restarts \in 0 .. MaxRestarts

Viewed ==
  /\ phase \in {"scan", "connect", "run"}
  /\ groups \in Catalogs /\ Disjoint(groups)
  /\ removed \subseteq Units
  /\ \A o \in host \cup added : WellFormed(o)
  /\ \A o, r \in host : o.id = r.id => o = r
  /\ NoClash
  /\ phase # "run" => host = {} /\ removed = {} /\ added = {}
  /\ phase = "run" => Told = Objects(groups)

HotplugInv == World /\ Wired /\ Viewed

-----------------------------------------------------------------------------
(* Objects and their names.                                                *)

\* A set of unit numbers that is not empty has a first one.
LEMMA LeastUnit ==
  ASSUME NEW T, T \subseteq Nat, T # {}
  PROVE  \E x \in T : \A y \in T : x <= y
<1> DEFINE R == OpToRel(<, Nat)
<1>1. IsWellFoundedOn(R, Nat) BY NatLessThanWellFounded, Zenon
<1>2. \A x, y \in Nat : <<y, x>> \in R <=> y < x BY DEF OpToRel
<1> HIDE DEF R
<1>3. PICK x \in T : \A y \in T : ~(<<y, x>> \in R) BY <1>1, WFMin, Zenon
<1>4. \A y \in T : ~(y < x) BY <1>2, <1>3
<1>5. \A a, b \in Nat : ~(b < a) => a <= b OBVIOUS
<1>6. \A y \in T : x <= y BY <1>4, <1>5
<1> QED BY <1>6

\* An object is named by one of its own units.
LEMMA NameFact ==
  ASSUME NEW ends \in SUBSET (Units \X Nat), ends # {}
  PROVE  /\ UnitsOf(ends) \subseteq Units
         /\ ObjectId(UnitsOf(ends)) \in UnitsOf(ends)
<1> DEFINE us == UnitsOf(ends)
<1>1. us \subseteq Units BY DEF UnitsOf
<1>2. us # {} BY DEF UnitsOf
<1> HIDE DEF us
<1>3. us \subseteq Nat BY <1>1, NamesAssumption
<1>4. \E x \in us : \A y \in us : x <= y BY <1>2, <1>3, LeastUnit
<1>5. ObjectId(us) \in us BY <1>4 DEF ObjectId
<1> QED BY <1>1, <1>5 DEF us

\* The fields of an object.
LEMMA ObjectFact ==
  ASSUME NEW p, NEW ends
  PROVE  /\ Object(p, ends).id = ObjectId(UnitsOf(ends))
         /\ Object(p, ends).parent = p /\ Object(p, ends).ends = ends
BY DEF Object

\* The objects of a catalog whose groups are disjoint have names of their own.
LEMMA NamesApart ==
  ASSUME NEW g \in Catalogs, Disjoint(g), NEW p \in Listed(g), NEW q \in Listed(g),
         ObjectId(UnitsOf(g[p])) = ObjectId(UnitsOf(g[q]))
  PROVE  p = q
<1>1. g[p] \in SUBSET (Units \X Nat) /\ g[q] \in SUBSET (Units \X Nat) /\ p \in Parents /\ q \in Parents
  BY DEF Catalogs, Listed
<1>2. g[p] # {} /\ g[q] # {} BY DEF Listed
<1>3. /\ ObjectId(UnitsOf(g[p])) \in UnitsOf(g[p])
      /\ ObjectId(UnitsOf(g[q])) \in UnitsOf(g[q])
  BY <1>1, <1>2, NameFact
<1> QED BY <1>1, <1>3 DEF Disjoint

\* So no two of them are confused.
LEMMA ObjectsApart ==
  ASSUME NEW g \in Catalogs, Disjoint(g), NEW o \in Objects(g), NEW r \in Objects(g), o.id = r.id
  PROVE  o = r
<1>1. PICK p \in Listed(g) : o = Object(p, g[p]) BY DEF Objects
<1>2. PICK q \in Listed(g) : r = Object(q, g[q]) BY DEF Objects
<1>3. ObjectId(UnitsOf(g[p])) = ObjectId(UnitsOf(g[q])) BY <1>1, <1>2, ObjectFact
<1>4. p = q BY <1>3, NamesApart
<1> QED BY <1>1, <1>2, <1>4

\* The objects of a catalog are well formed and named by units.
LEMMA ObjectsFormed ==
  ASSUME NEW g \in Catalogs, NEW o \in Objects(g)
  PROVE  WellFormed(o) /\ o.id \in Units
<1>1. PICK p \in Listed(g) : o = Object(p, g[p]) BY DEF Objects
<1>2. p \in Parents /\ g[p] # {} /\ g[p] \in SUBSET (Units \X Nat) BY DEF Listed, Catalogs
<1>3. ObjectId(UnitsOf(g[p])) \in Units BY <1>2, NameFact
<1> QED BY <1>1, <1>2, <1>3, ObjectFact DEF WellFormed

\* What sndstat lists under a parent are the units it owns.
LEMMA PresentFact ==
  ASSUME World, NEW p \in Parents
  PROVE  /\ Present(p) \in SUBSET (Units \X Nat)
         /\ UnitsOf(Present(p)) = {v \in Units : owner[v] = p}
<1>1. \A v \in Units : inst[v] \in Nat BY DEF World
<1>2. Present(p) \in SUBSET (Units \X Nat) BY <1>1 DEF Present
<1>3. ASSUME NEW u \in UnitsOf(Present(p)) PROVE u \in Units /\ owner[u] = p
  BY <1>3 DEF UnitsOf, Present
<1>4. ASSUME NEW u \in Units, owner[u] = p PROVE u \in UnitsOf(Present(p))
  <2>1. <<u, inst[u]>> \in Present(p) BY <1>4 DEF Present
  <2>2. <<u, inst[u]>>[1] = u OBVIOUS
  <2> QED BY <2>1, <2>2 DEF UnitsOf
<1> QED BY <1>2, <1>3, <1>4

\* What was read from the kernel is disjoint.
LEMMA PresentApart ==
  ASSUME World, NEW g \in Catalogs,
         \A p \in Parents : UnitsOf(g[p]) \subseteq UnitsOf(Present(p))
  PROVE  Disjoint(g)
<1> SUFFICES ASSUME NEW p \in Parents, NEW q \in Parents, p # q,
                    NEW u \in UnitsOf(g[p]), u \in UnitsOf(g[q])
             PROVE  FALSE
  BY DEF Disjoint
<1>1. u \in UnitsOf(Present(p)) /\ u \in UnitsOf(Present(q)) OBVIOUS
<1>2. owner[u] = p /\ owner[u] = q BY <1>1, PresentFact
<1> QED BY <1>2

-----------------------------------------------------------------------------
(* Rereading the catalog.                                                  *)

\* Between two handlers the host knows the catalog.
LEMMA IdleHost ==
  ASSUME HotplugInv, Idle
  PROVE  host = Objects(groups)
BY DEF HotplugInv, Viewed, Told, Idle

\* What a differing reread leaves, from the catalog g that was known, the
\* parents R whose objects are withdrawn and the ones C that are read anew.
LEMMA DiffFact ==
  ASSUME HotplugInv, Idle, NEW R, R \subseteq Listed(groups), NEW C, C \subseteq Parents,
         groups' \in Catalogs, Disjoint(groups'),
         \A p \in Parents \ C : groups'[p] = IF p \in R THEN {} ELSE groups[p],
         \A p \in C \cap Listed(groups) : p \in R,
         \A p \in Parents \ R : UnitsOf(groups[p]) \subseteq UnitsOf(groups'[p]) \/ p \in C,
         removed' = {ObjectId(UnitsOf(groups[p])) : p \in R},
         added' = {Object(p, groups'[p]) : p \in {q \in C : groups'[q] # {}}},
         UNCHANGED <<host, phase>>
  PROVE  Viewed'
<1>1. host = Objects(groups) BY IdleHost
<1>2. groups \in Catalogs /\ Disjoint(groups) /\ phase = "run" BY DEF HotplugInv, Viewed, Idle
<1>3. R \subseteq Parents BY DEF Listed
<1>4. ASSUME NEW p \in Listed(groups) PROVE ObjectId(UnitsOf(groups[p])) \in removed' <=> p \in R
  <2>1. p \in R => ObjectId(UnitsOf(groups[p])) \in removed' OBVIOUS
  <2>2. ASSUME ObjectId(UnitsOf(groups[p])) \in removed' PROVE p \in R
    <3>1. PICK q \in R : ObjectId(UnitsOf(groups[p])) = ObjectId(UnitsOf(groups[q])) BY <2>2
    <3>2. p = q BY <1>2, <3>1, NamesApart
    <3> QED BY <3>2
  <2> QED BY <2>1, <2>2
<1>5. added' \subseteq Objects(groups') BY DEF Objects, Listed
<1>6. removed' \subseteq {o.id : o \in host}
  <2> SUFFICES ASSUME NEW p \in R PROVE ObjectId(UnitsOf(groups[p])) \in {o.id : o \in host}
    OBVIOUS
  <2>1. Object(p, groups[p]) \in host BY <1>1 DEF Objects
  <2>2. Object(p, groups[p]).id = ObjectId(UnitsOf(groups[p])) BY ObjectFact
  <2> QED BY <2>1, <2>2
<1>7. removed' \subseteq Units
  <2>1. \A o \in host : o.id \in Units BY <1>1, <1>2, ObjectsFormed
  <2> QED BY <1>6, <2>1
<1>8. \A o \in host \cup added' : WellFormed(o)
  BY <1>1, <1>2, <1>5, ObjectsFormed
<1>9. \A o, r \in host : o.id = r.id => o = r BY <1>1, <1>2, ObjectsApart
<1>10. ASSUME NEW o \in added', NEW r \in host, r.id = o.id PROVE r.id \in removed'
  <2>1. PICK p \in C : o = Object(p, groups'[p]) /\ groups'[p] # {} OBVIOUS
  <2>2. PICK q \in Listed(groups) : r = Object(q, groups[q]) BY <1>1 DEF Objects
  <2>3. r.id = ObjectId(UnitsOf(groups[q])) /\ o.id = ObjectId(UnitsOf(groups'[p]))
    BY <2>1, <2>2, ObjectFact
  <2>4. CASE q \in R BY <1>4, <2>3, <2>4
  <2>5. CASE q \notin R
    <3>1. q \notin C /\ q \in Parents /\ p \in Parents BY <2>5 DEF Listed
    <3>2. groups[q] \in SUBSET (Units \X Nat) /\ groups[q] # {}
      BY <1>2, <3>1 DEF Catalogs, Listed
    <3>3. groups'[p] \in SUBSET (Units \X Nat) /\ groups'[p] # {} BY <2>1, <3>1 DEF Catalogs
    <3>4. r.id \in UnitsOf(groups[q]) /\ o.id \in UnitsOf(groups'[p])
      BY <2>3, <3>2, <3>3, NameFact
    <3>5. o.id \in UnitsOf(groups'[q]) BY <1>10, <2>5, <3>1, <3>4
    <3>6. p # q BY <3>1
    <3> QED BY <3>1, <3>4, <3>5, <3>6 DEF Disjoint
  <2> QED BY <2>4, <2>5
<1>11. Told' = Objects(groups')
  <2>1. ASSUME NEW o \in host, o.id \notin removed' PROVE o \in Objects(groups')
    <3>1. PICK p \in Listed(groups) : o = Object(p, groups[p]) BY <1>1 DEF Objects
    <3>2. o.id = ObjectId(UnitsOf(groups[p])) BY <3>1, ObjectFact
    <3>3. p \notin R BY <1>4, <2>1, <3>2
    <3>4. p \in Parents \ C /\ groups[p] # {} BY <3>3 DEF Listed
    <3>5. groups'[p] = groups[p] BY <3>3, <3>4
    <3>6. p \in Listed(groups') BY <3>4, <3>5 DEF Listed
    <3> QED BY <3>1, <3>5, <3>6 DEF Objects
  <2>2. ASSUME NEW o \in Objects(groups'), o \notin added'
        PROVE  o \in host /\ o.id \notin removed'
    <3>1. PICK p \in Listed(groups') : o = Object(p, groups'[p]) BY DEF Objects
    <3>2. p \in Parents /\ groups'[p] # {} BY DEF Listed
    <3>3. p \notin C BY <2>2, <3>1, <3>2
    <3>4. p \notin R /\ groups'[p] = groups[p] BY <3>2, <3>3
    <3>5. p \in Listed(groups) /\ o = Object(p, groups[p]) BY <3>1, <3>2, <3>4 DEF Listed
    <3>6. o.id = ObjectId(UnitsOf(groups[p])) BY <3>5, ObjectFact
    <3> QED BY <1>1, <1>4, <3>4, <3>5, <3>6 DEF Objects
  <2> QED BY <1>5, <2>1, <2>2 DEF Told
<1>12. NoClash' BY <1>6, <1>10 DEF NoClash
<1> QED BY <1>2, <1>7, <1>8, <1>9, <1>11, <1>12 DEF Viewed

\* A reread, whether it succeeds or not, leaves the host exactly one round of
\* notifications away from the catalog.
LEMMA RescanKeeps ==
  ASSUME HotplugInv, Idle, NEW signal, Rescan(signal), UNCHANGED <<owner, inst, host, phase>>
  PROVE  Viewed' /\ unread' \in BOOLEAN /\ missed' = missed
<1> DEFINE F == Forced(signal)
           kept == [p \in Parents |-> IF p \in F THEN {} ELSE groups[p]]
           gone(ps) == {ObjectId(UnitsOf(groups[p])) : p \in ps}
           C == Changed(kept)
           D == {p \in C : kept[p] # {}}
<1>1. \/ /\ groups' = kept /\ removed' = gone(F) /\ added' = {}
         /\ unread' = TRUE /\ UNCHANGED missed
      \/ /\ groups' = [p \in Parents |-> IF p \in C THEN Present(p) ELSE kept[p]]
         /\ removed' = gone(F \cup D)
         /\ added' = {Object(p, Present(p)) : p \in {q \in C : Present(q) # {}}}
         /\ unread' = FALSE /\ UNCHANGED missed
  BY DEF Rescan
<1>2. groups \in Catalogs /\ Disjoint(groups) /\ World BY DEF HotplugInv, Viewed
<1>3. F \subseteq Listed(groups) BY DEF Forced, Listed
<1>4. \A p \in Parents : kept[p] = IF p \in F THEN {} ELSE groups[p] OBVIOUS
<1>5. kept \in Catalogs BY <1>2 DEF Catalogs
<1>6. /\ C \subseteq Parents
      /\ \A p \in Parents : p \notin C => UnitsOf(kept[p]) = UnitsOf(Present(p))
  BY DEF Changed
<1> HIDE DEF F, kept, C
<1>7. CASE /\ groups' = kept /\ removed' = gone(F) /\ added' = {}
           /\ unread' = TRUE /\ UNCHANGED missed
  <2>1. Disjoint(kept)
    <3> SUFFICES ASSUME NEW p \in Parents, NEW q \in Parents, p # q,
                        NEW u \in UnitsOf(kept[p]), u \in UnitsOf(kept[q])
                 PROVE  FALSE
      BY DEF Disjoint
    <3>1. UnitsOf({}) = {} BY DEF UnitsOf
    <3>2. kept[p] = groups[p] /\ kept[q] = groups[q] BY <1>4, <3>1
    <3> QED BY <1>2, <3>2 DEF Disjoint
  <2> DEFINE N == {}
  <2>2. added' = {Object(p, groups'[p]) : p \in {q \in N : groups'[q] # {}}} BY <1>7
  <2>3. N \subseteq Parents /\ (\A p \in N \cap Listed(groups) : p \in F) OBVIOUS
  <2>4. \A p \in Parents \ N : groups'[p] = IF p \in F THEN {} ELSE groups[p] BY <1>4, <1>7
  <2>5. \A p \in Parents \ F : UnitsOf(groups[p]) \subseteq UnitsOf(groups'[p]) \/ p \in N
    BY <1>4, <1>7
  <2> HIDE DEF N
  <2>6. Viewed'
    BY <1>3, <1>5, <1>7, <2>1, <2>2, <2>3, <2>4, <2>5, DiffFact
  <2> QED BY <1>7, <2>6
<1>8. CASE /\ groups' = [p \in Parents |-> IF p \in C THEN Present(p) ELSE kept[p]]
           /\ removed' = gone(F \cup D)
           /\ added' = {Object(p, Present(p)) : p \in {q \in C : Present(q) # {}}}
           /\ unread' = FALSE /\ UNCHANGED missed
  <2>1. \A p \in Parents : groups'[p] = IF p \in C THEN Present(p) ELSE kept[p] BY <1>8
  <2>2. \A p \in Parents : Present(p) \in SUBSET (Units \X Nat) BY <1>2, PresentFact
  <2>3. groups' \in Catalogs BY <1>5, <1>8, <2>2 DEF Catalogs
  <2>4. \A p \in Parents : UnitsOf(groups'[p]) \subseteq UnitsOf(Present(p))
    BY <1>6, <2>1
  <2>5. Disjoint(groups') BY <1>2, <2>3, <2>4, PresentApart
  <2> DEFINE R == F \cup D
  <2>6. R \subseteq Listed(groups)
    <3> SUFFICES ASSUME NEW p \in D PROVE p \in Listed(groups) BY <1>3
    <3>1. p \in Parents /\ kept[p] # {} BY <1>6
    <3> QED BY <1>4, <3>1 DEF Listed
  <2>7. \A p \in C \cap Listed(groups) : p \in R BY <1>4, <1>6 DEF Listed
  <2>8. \A p \in Parents \ C : groups'[p] = IF p \in R THEN {} ELSE groups[p]
    BY <1>4, <2>1
  <2>9. \A p \in Parents \ R : UnitsOf(groups[p]) \subseteq UnitsOf(groups'[p]) \/ p \in C
    BY <1>4, <2>1
  <2>10. added' = {Object(p, groups'[p]) : p \in {q \in C : groups'[q] # {}}}
    <3>1. \A p \in C : groups'[p] = Present(p) BY <1>6, <2>1
    <3> QED BY <1>8, <3>1
  <2>11. removed' = {ObjectId(UnitsOf(groups[p])) : p \in R} BY <1>8
  <2> HIDE DEF R
  <2>12. Viewed'
    BY <1>6, <2>3, <2>5, <2>6, <2>7, <2>8, <2>9, <2>10, <2>11, DiffFact
  <2> QED BY <1>8, <2>12
<1> QED BY <1>1, <1>7, <1>8

-----------------------------------------------------------------------------
(* The steps.                                                              *)

\* What the kernel and devd do does not touch the view.
LEMMA ViewKeeps ==
  ASSUME Viewed, UNCHANGED view
  PROVE  Viewed'
BY DEF Viewed, view, Disjoint, NoClash, WellFormed, Told, Objects, Listed, Catalogs

\* A packet that is not on the wire is remembered as missed.
LEMMA TellFact ==
  ASSUME Wired, NEW packets, Tell(packets)
  PROVE  unread' \in BOOLEAN /\ missed' \in BOOLEAN
<1>1. CASE Connected BY <1>1 DEF Tell, Wired
<1>2. CASE ~Connected BY <1>2 DEF Tell, Wired
<1> QED BY <1>1, <1>2

\* A unit is attached.
LEMMA AttachKeeps ==
  ASSUME HotplugInv, NEW u \in Units, NEW p \in Parents, Attach(u, p)
  PROVE  HotplugInv'
<1>1. World' BY DEF HotplugInv, World, Attach
<1>2. unread' \in BOOLEAN /\ missed' \in BOOLEAN BY TellFact DEF HotplugInv, Attach
<1>3. plugs' \in 0 .. MaxPlugs BY BoundsAssumption DEF HotplugInv, Wired, Attach
<1>4. Wired' BY <1>2, <1>3 DEF HotplugInv, Wired, Attach
<1> QED BY <1>1, <1>4, ViewKeeps DEF HotplugInv, Attach

\* A unit is detached.
LEMMA DetachKeeps ==
  ASSUME HotplugInv, NEW u \in Units, Detach(u)
  PROVE  HotplugInv'
<1>1. World' BY DEF HotplugInv, World, Detach
<1>2. unread' \in BOOLEAN /\ missed' \in BOOLEAN BY TellFact DEF HotplugInv, Detach
<1>3. Wired' BY <1>2 DEF HotplugInv, Wired, Detach
<1> QED BY <1>1, <1>3, ViewKeeps DEF HotplugInv, Detach

\* devd stops and starts.
LEMMA DevdKeeps ==
  ASSUME HotplugInv, DevdStops \/ DevdStarts
  PROVE  HotplugInv'
<1>1. UNCHANGED <<owner, inst, plugs, view>> BY DEF DevdStops, DevdStarts, world
<1>2. World' BY <1>1 DEF HotplugInv, World
<1>3. CASE DevdStops
  <2>1. restarts' \in 0 .. MaxRestarts BY <1>3, BoundsAssumption DEF HotplugInv, Wired, DevdStops
  <2>2. missed' \in BOOLEAN BY <1>3 DEF HotplugInv, Wired, DevdStops
  <2> QED BY <1>1, <1>2, <1>3, <2>1, <2>2, ViewKeeps DEF HotplugInv, Wired, DevdStops
<1>4. CASE DevdStarts
  BY <1>1, <1>2, <1>4, ViewKeeps DEF HotplugInv, Wired, DevdStarts
<1> QED BY <1>3, <1>4

\* The first scan reads disjoint groups.
LEMMA ScanKeeps ==
  ASSUME HotplugInv, Scan
  PROVE  HotplugInv'
<1>1. World BY DEF HotplugInv
<1>2. groups' = [p \in Parents |-> Present(p)] BY DEF Scan
<1>3. \A p \in Parents : Present(p) \in SUBSET (Units \X Nat) BY <1>1, PresentFact
<1>4. groups' \in Catalogs BY <1>2, <1>3 DEF Catalogs
<1>5. \A p \in Parents : UnitsOf(groups'[p]) \subseteq UnitsOf(Present(p)) BY <1>2
<1>6. Disjoint(groups') BY <1>1, <1>4, <1>5, PresentApart
<1>7. World' /\ Wired' BY DEF HotplugInv, World, Wired, Scan, world, link
<1>8. Viewed'
  BY <1>4, <1>6 DEF HotplugInv, Viewed, Scan, NoClash, WellFormed
<1> QED BY <1>7, <1>8 DEF HotplugInv

\* The host's listener is told the whole catalog.
LEMMA ConnectKeeps ==
  ASSUME HotplugInv, Connect
  PROVE  HotplugInv'
<1>1. World' /\ Wired' BY DEF HotplugInv, World, Wired, Connect, world
<1>2. /\ groups \in Catalogs /\ Disjoint(groups) /\ removed = {} /\ added = {}
      /\ phase' = "run" /\ UNCHANGED <<groups, removed, added>>
  BY DEF HotplugInv, Viewed, Connect
<1>3. host' = Objects(groups) BY DEF Connect, Objects, Listed
<1>4. \A o \in host' : WellFormed(o) BY <1>2, <1>3, ObjectsFormed
<1>5. \A o, r \in host' : o.id = r.id => o = r BY <1>2, <1>3, ObjectsApart
<1>6. Told' = Objects(groups)' BY <1>2, <1>3 DEF Told
<1>7. NoClash' BY <1>2 DEF NoClash
<1> QED BY <1>1, <1>2, <1>4, <1>5, <1>6, <1>7 DEF HotplugInv, Viewed

\* A packet asks for a reread.
LEMMA PacketKeeps ==
  ASSUME HotplugInv, ReadPacket
  PROVE  HotplugInv'
<1>1. Idle /\ Rescan(Head(wire)) /\ UNCHANGED <<owner, inst, host, phase>>
  BY DEF ReadPacket, world
<1>2. Viewed' /\ unread' \in BOOLEAN /\ missed' = missed BY <1>1, RescanKeeps
<1>3. World' /\ Wired' BY <1>2 DEF HotplugInv, World, Wired, ReadPacket, world
<1> QED BY <1>2, <1>3 DEF HotplugInv

\* So does a connection that was made again.
LEMMA ReconnectKeeps ==
  ASSUME HotplugInv, Reconnect
  PROVE  HotplugInv'
<1>1. Idle /\ Rescan(Attached) /\ UNCHANGED <<owner, inst, host, phase>>
  BY DEF Reconnect, Refresh, world
<1>2. Viewed' /\ unread' \in BOOLEAN /\ missed' = missed BY <1>1, RescanKeeps
<1>3. World' /\ Wired' BY <1>2 DEF HotplugInv, World, Wired, Reconnect, world
<1> QED BY <1>2, <1>3 DEF HotplugInv

\* A lost connection, and a retry in vain.
LEMMA LossKeeps ==
  ASSUME HotplugInv, SocketLoss \/ RetryFails
  PROVE  HotplugInv'
<1>1. UNCHANGED <<owner, inst, plugs, view>> BY DEF SocketLoss, RetryFails, world
<1>2. World' BY <1>1 DEF HotplugInv, World
<1>3. CASE SocketLoss BY <1>1, <1>2, <1>3, ViewKeeps DEF HotplugInv, Wired, SocketLoss
<1>4. CASE RetryFails BY <1>1, <1>2, <1>4, ViewKeeps DEF HotplugInv, Wired, RetryFails
<1> QED BY <1>3, <1>4

\* A removal takes one object from the host.
LEMMA RemovedKeeps ==
  ASSUME HotplugInv, TellRemoved
  PROVE  HotplugInv'
<1>1. PICK id \in removed : host' = {o \in host : o.id # id} /\ removed' = removed \ {id}
  BY DEF TellRemoved
<1>2. UNCHANGED <<phase, groups, added>> BY DEF TellRemoved
<1>3. World' /\ Wired' BY DEF HotplugInv, World, Wired, TellRemoved, world, link
<1>4. Viewed BY DEF HotplugInv
<1>5. phase = "run" BY <1>4 DEF Viewed
<1>6. NoClash'
  <2>1. removed \subseteq {o.id : o \in host} BY <1>4 DEF Viewed, NoClash
  <2>2. ASSUME NEW k \in removed' PROVE k \in {o.id : o \in host'}
    <3>1. PICK o \in host : o.id = k BY <1>1, <2>1
    <3> QED BY <1>1, <3>1
  <2>3. \A o \in added' : \A r \in host' : r.id = o.id => r.id \in removed'
    BY <1>1, <1>2, <1>4 DEF Viewed, NoClash
  <2> QED BY <2>2, <2>3 DEF NoClash
<1>7. Told' = Told BY <1>1, <1>2 DEF Told
<1>8. Objects(groups)' = Objects(groups) BY <1>2 DEF Objects, Listed
<1>9. Disjoint(groups)' BY <1>2, <1>4 DEF Viewed, Disjoint
<1> QED BY <1>1, <1>2, <1>3, <1>4, <1>5, <1>6, <1>7, <1>8, <1>9 DEF HotplugInv, Viewed

\* An addition gives the host one object, after all the removals.
LEMMA AddedKeeps ==
  ASSUME HotplugInv, TellAdded
  PROVE  HotplugInv'
<1>1. PICK o \in added : host' = host \cup {o} /\ added' = added \ {o} BY DEF TellAdded
<1>2. removed = {} /\ UNCHANGED <<phase, groups, removed>> BY DEF TellAdded, MayAdd
<1>3. World' /\ Wired' BY DEF HotplugInv, World, Wired, TellAdded, world, link
<1>4. Viewed BY DEF HotplugInv
<1>5. phase = "run" /\ Told = Objects(groups) BY <1>4 DEF Viewed
<1>6. groups \in Catalogs /\ Disjoint(groups) BY <1>4 DEF Viewed
<1>7. added \subseteq Objects(groups) BY <1>5 DEF Told
<1>8. \A r \in host : r.id # o.id BY <1>2, <1>4 DEF Viewed, NoClash
<1>9. \A x, r \in host' : x.id = r.id => x = r BY <1>1, <1>4, <1>8 DEF Viewed
<1>10. NoClash'
  <2>1. \A x \in added' : x.id # o.id BY <1>1, <1>6, <1>7, ObjectsApart
  <2> QED BY <1>1, <1>2, <1>4, <2>1 DEF Viewed, NoClash
<1>11. Told' = Told BY <1>1, <1>2 DEF Told
<1>12. Objects(groups)' = Objects(groups) BY <1>2 DEF Objects, Listed
<1>13. \A x \in host' \cup added' : WellFormed(x) BY <1>1, <1>4 DEF Viewed
<1> QED BY <1>2, <1>3, <1>4, <1>5, <1>9, <1>10, <1>11, <1>12, <1>13
        DEF HotplugInv, Viewed, Disjoint

-----------------------------------------------------------------------------
(* The invariant.                                                          *)

\* It holds before the first scan.
LEMMA HotplugInit == Init => HotplugInv
<1> SUFFICES ASSUME Init PROVE HotplugInv OBVIOUS
<1>1. World BY DEF Init, World
<1>2. Wired
  <2>1. plugs \in 0 .. MaxPlugs /\ restarts \in 0 .. MaxRestarts BY BoundsAssumption DEF Init
  <2> QED BY <2>1, Zenon DEF Init, Wired
<1>3. UnitsOf({}) = {} BY DEF UnitsOf
<1>4. groups \in Catalogs /\ Disjoint(groups) BY <1>3 DEF Init, Catalogs, Disjoint
<1>5. Viewed BY <1>4 DEF Init, Viewed, NoClash
<1> QED BY <1>1, <1>2, <1>5 DEF HotplugInv

\* Every step keeps it.
LEMMA HotplugNext ==
  ASSUME HotplugInv, [Next]_vars
  PROVE  HotplugInv'
<1>1. CASE Environment BY <1>1, AttachKeeps, DetachKeeps, DevdKeeps DEF Environment
<1>2. CASE DevdStarts BY <1>2, DevdKeeps
<1>3. CASE Monitor
  BY <1>3, ScanKeeps, ConnectKeeps, PacketKeeps, LossKeeps, ReconnectKeeps, RemovedKeeps,
     AddedKeeps DEF Monitor
<1>4. CASE UNCHANGED vars
  <2>1. UNCHANGED view /\ UNCHANGED link /\ UNCHANGED <<owner, inst, plugs, unread, missed>>
    BY <1>4 DEF vars, world
  <2>2. World' /\ Wired' BY <2>1 DEF HotplugInv, World, Wired, link
  <2> QED BY <2>1, <2>2, ViewKeeps DEF HotplugInv
<1> QED BY <1>1, <1>2, <1>3, <1>4 DEF Next

\* The host is always exactly the pending notifications away from the
\* catalog, whose groups share no unit (rescan_with, dispatch_all).
THEOREM HotplugInvariance == Spec => []HotplugInv
BY HotplugInit, HotplugNext, PTL DEF Spec

\* Every variable keeps its type; objects the host knows have names of their
\* own, taken from their units (object_id).
THEOREM HotplugTypes == Spec => []TypeOK
<1>1. HotplugInv => TypeOK
  BY DEF HotplugInv, World, Wired, Viewed, WellFormed, Catalogs, TypeOK
<1> QED BY <1>1, HotplugInvariance, PTL

\* A name is withdrawn only when the host knows it and given out again only
\* after it was withdrawn, also when a unit moves from one parent to another
\* within one reread (catalog_notifications).
THEOREM NamesNeverClash == Spec => []NoClash
<1>1. HotplugInv => NoClash BY DEF HotplugInv, Viewed
<1> QED BY <1>1, HotplugInvariance, PTL

\* Once the differences are told the host knows the catalog, no more and no
\* less, also after a reread that failed (rescan_with).
THEOREM HostKnowsCatalog == Spec => []HostSeesCatalog
<1>1. HotplugInv => HostSeesCatalog
  BY DEF HotplugInv, Viewed, Told, Objects, Listed, HostSeesCatalog
<1> QED BY <1>1, HotplugInvariance, PTL
-----------------------------------------------------------------------------
(* The device object's routes: module Routes over a mixer of its own.      *)

(* Shadows, and a mixer, have their fields.                                *)
IsRoute(x) == x = [active |-> x.active, mute |-> x.mute, vol |-> x.vol] /\ x.active \in BOOLEAN

AreRoutes(rs) ==
  /\ rs = [r \in DOMAIN bind |-> rs[r]]
  /\ \A r \in DOMAIN bind : IsRoute(rs[r])

IsMixer(m) ==
  /\ m = [lv |-> m.lv, mu |-> m.mu, src |-> m.src]
  /\ m.lv = [c \in Controls(bind) |-> m.lv[c]]

(* The shadow x of route r says what the mixer m does: x is active when    *)
(* the mixer records from it, and an active hardware route has its values. *)
Agrees(r, x, m) ==
  /\ x.active = Selected(r, m.src)
  /\ x.active /\ Hardware(r) =>
       /\ x.vol = level_to_volume(m.lv[bind[r].control])
       /\ x.mute = (bind[r].control \in m.mu)

(* The inductive invariant: ShadowIsTrue also under the Off profile and    *)
(* between the ioctls of a request, which either of them ends in.          *)
RouteInv ==
  /\ AreRoutes(routes) /\ IsMixer(mixer) /\ meddled \in BOOLEAN
  /\ op.pc = "write" => op.pos \in DOMAIN bind
  /\ ~meddled => \A r \in DOMAIN bind : Agrees(r, routes[r], mixer)

\* A device's first shadows are what it was probed with.
LEMMA RouteInit ==
  ASSUME DeviceInit
  PROVE  RouteInv
<1>1. PICK s : mixer = [lv |-> [c \in Controls(bind) |-> 0], mu |-> {}, src |-> s]
  BY DEF DeviceInit, Probed
<1>2. routes = [r \in DOMAIN bind |->
                 [active |-> Selected(r, mixer.src), mute |-> FALSE,
                  vol |-> IF Hardware(r) THEN 0 ELSE level_to_volume(Levels)]]
  BY DEF DeviceInit, Probed
<1>3. meddled \in BOOLEAN /\ op.pc # "write" BY DEF DeviceInit, NoRequest
<1>4. IsMixer(mixer) BY <1>1 DEF IsMixer
<1>5. ASSUME NEW r \in DOMAIN bind
      PROVE  IsRoute(routes[r]) /\ Agrees(r, routes[r], mixer)
  <2>1. Selected(r, mixer.src) \in BOOLEAN BY DEF Selected
  <2>2. Hardware(r) => bind[r].control \in Controls(bind)
    BY DEF Hardware, Controls
  <2>3. Hardware(r) => mixer.lv[bind[r].control] = 0 BY <1>1, <2>2
  <2>4. IsRoute(routes[r]) BY <1>2, <2>1 DEF IsRoute
  <2>5. routes[r].active = Selected(r, mixer.src) /\ routes[r].mute = FALSE
    BY <1>2
  <2>6. Hardware(r) => routes[r].vol = 0 BY <1>2
  <2>7. bind[r].control \notin mixer.mu BY <1>1
  <2>8. level_to_volume(0) = 0 BY DEF level_to_volume
  <2>9. (bind[r].control \in mixer.mu) = FALSE BY <2>7
  <2> QED BY <2>3, <2>4, <2>5, <2>6, <2>8, <2>9 DEF Agrees
<1>6. AreRoutes(routes) BY <1>2, <1>5 DEF AreRoutes
<1> QED BY <1>3, <1>4, <1>5, <1>6 DEF RouteInv

\* Reading a route brings its values; a soft one keeps its own.
LEMMA ReadFact ==
  ASSUME NEW r, NEW x, IsRoute(x), IsMixer(mixer)
  PROVE  LET y == Read(r, x)
         IN  /\ IsRoute(y) /\ y.active = x.active
             /\ Hardware(r) =>
                  /\ y.vol = level_to_volume(mixer.lv[bind[r].control])
                  /\ y.mute = (bind[r].control \in mixer.mu)
             /\ ~Hardware(r) => y = x
BY DEF Read, IsRoute

\* A route with the mixer's values is what reading it gives.
LEMMA ReadSame ==
  ASSUME NEW r, NEW x, IsRoute(x), Agrees(r, x, mixer), x.active
  PROVE  x = Read(r, x)
BY DEF Read, IsRoute, Agrees

\* Routes synchronised with the recording sources src.
LEMMA SyncFact ==
  ASSUME IsMixer(mixer), NEW rs, AreRoutes(rs), NEW src, NEW r \in DOMAIN bind
  PROVE  LET y == sync_source_routes(rs, src)[r]
         IN  /\ DOMAIN rs = DOMAIN bind
             /\ IsRoute(y)
             /\ y.active = Selected(r, src)
             /\ Agrees(r, rs[r], mixer) => Agrees(r, y, [mixer EXCEPT !.src = src])
<1> DEFINE x == rs[r]
           now == [x EXCEPT !.active = Selected(r, src)]
           y == IF now.active /\ ~x.active THEN Read(r, now) ELSE now
           m == [mixer EXCEPT !.src = src]
<1>1. IsRoute(x) /\ DOMAIN rs = DOMAIN bind BY DEF AreRoutes
<1>2. sync_source_routes(rs, src)[r] = y BY <1>1 DEF sync_source_routes
<1>3. Selected(r, src) \in BOOLEAN BY DEF Selected
<1> HIDE DEF x
<1>4. now = [active |-> Selected(r, src), mute |-> x.mute, vol |-> x.vol]
  BY <1>1 DEF IsRoute
<1>5. /\ IsRoute(now) /\ now.active = Selected(r, src)
      /\ now.mute = x.mute /\ now.vol = x.vol
  BY <1>3, <1>4 DEF IsRoute
<1>6. m.src = src /\ m.lv = mixer.lv /\ m.mu = mixer.mu BY DEF IsMixer
<1> HIDE DEF now, m
<1> DEFINE z == Read(r, now)
<1>7. /\ IsRoute(z) /\ z.active = now.active
      /\ Hardware(r) =>
           /\ z.vol = level_to_volume(mixer.lv[bind[r].control])
           /\ z.mute = (bind[r].control \in mixer.mu)
  BY <1>5, ReadFact
<1> HIDE DEF z
<1>8. CASE now.active /\ ~x.active
  <2>1. y = z BY <1>8 DEF z
  <2>2. Agrees(r, z, m) BY <1>5, <1>6, <1>7 DEF Agrees
  <2> QED BY <1>1, <1>2, <1>5, <1>7, <2>1, <2>2 DEF m
<1>9. CASE ~(now.active /\ ~x.active)
  <2>1. y = now BY <1>9
  <2>2. Agrees(r, x, mixer) => Agrees(r, now, m) BY <1>5, <1>6, <1>9 DEF Agrees
  <2> QED BY <1>1, <1>2, <1>5, <2>1, <2>2 DEF m, x
<1> QED BY <1>8, <1>9

\* Refreshed shadows are the mixer's.
LEMMA RefreshFact ==
  ASSUME IsMixer(mixer), NEW rs, AreRoutes(rs)
  PROVE  LET now == refresh_all(rs)
         IN  AreRoutes(now) /\ \A r \in DOMAIN bind : Agrees(r, now[r], mixer)
<1> DEFINE now == refresh_all(rs)
           synced == sync_source(rs)
<1>1. DOMAIN rs = DOMAIN bind BY DEF AreRoutes
<1>2. now = [r \in DOMAIN bind |-> Read(r, synced[r])]
  BY <1>1 DEF refresh_all
<1>3. synced = sync_source_routes(rs, mixer.src) BY DEF sync_source
<1> HIDE DEF now, synced
<1>4. ASSUME NEW r \in DOMAIN bind
      PROVE  IsRoute(now[r]) /\ Agrees(r, now[r], mixer)
  <2>1. IsRoute(synced[r]) /\ synced[r].active = Selected(r, mixer.src)
    BY <1>3, SyncFact
  <2>2. now[r] = Read(r, synced[r]) BY <1>2
  <2> QED BY <2>1, <2>2, ReadFact DEF Agrees
<1>5. AreRoutes(now) BY <1>2, <1>4 DEF AreRoutes
<1> QED BY <1>4, <1>5 DEF now

\* Shadows that change with the mixer left alone, or not at all.
LEMMA RoutesFrom ==
  ASSUME RouteInv, bind' = bind, mixer' = mixer, AreRoutes(routes'), meddled' \in BOOLEAN,
         op'.pc = "write" => op'.pos \in DOMAIN bind,
         ~meddled' => \A r \in DOMAIN bind : Agrees(r, routes'[r], mixer)
  PROVE  RouteInv'
BY DEF RouteInv, AreRoutes, IsMixer, Agrees, Selected, Hardware,
       Controls, level_to_volume

\* A poll, and a profile that is set.
LEMMA PollsAndProfiles ==
  ASSUME RouteInv, poll_routes \/ SetProfile
  PROVE  RouteInv'
<1>1. AreRoutes(routes) /\ IsMixer(mixer) /\ meddled \in BOOLEAN
      /\ (op.pc = "write" => op.pos \in DOMAIN bind)
      /\ (~meddled => \A r \in DOMAIN bind : Agrees(r, routes[r], mixer))
  BY DEF RouteInv
<1>2. bind' = bind /\ mixer' = mixer /\ op' = op
  BY DEF poll_routes, SetProfile, Profiled
<1>3. CASE routes' = refresh_all(routes) /\ meddled' \in BOOLEAN
  BY <1>1, <1>2, <1>3, RefreshFact, RoutesFrom
<1>4. CASE routes' = routes /\ meddled' = meddled
  BY <1>1, <1>2, <1>4, RoutesFrom
<1>5. CASE poll_routes
  <2>1. routes' = refresh_all(routes) /\ meddled' = FALSE
    BY <1>5 DEF poll_routes, poll, Shown
  <2> QED BY <1>3, <2>1
<1>6. CASE Profiled(refresh_all(routes), TRUE)
  <2>1. routes' = refresh_all(routes) /\ meddled' \in BOOLEAN
    BY <1>6 DEF Profiled, Shown
  <2> QED BY <1>3, <2>1
<1>7. CASE Profiled(routes, FALSE)
  <2>1. routes' = routes /\ meddled' = meddled
    BY <1>1, <1>7 DEF Profiled, Shown
  <2> QED BY <1>4, <2>1
<1> QED BY <1>5, <1>6, <1>7 DEF SetProfile

\* A request begins: a source may be selected, or another one in its place.
LEMMA RequestBegins ==
  ASSUME RouteInv, SetRoute
  PROVE  RouteInv'
<1>1. AreRoutes(routes) /\ IsMixer(mixer) /\ meddled \in BOOLEAN
      /\ (~meddled => \A r \in DOMAIN bind : Agrees(r, routes[r], mixer))
  BY DEF RouteInv
<1>2. bind' = bind /\ meddled' = meddled BY DEF SetRoute
<1>3. PICK r \in DOMAIN bind :
         SelectUnchanged(r) \/ SelectFails(r) \/ SelectSource(r)
  BY DEF SetRoute
<1>4. CASE SelectUnchanged(r) \/ SelectFails(r)
  <2>1. mixer' = mixer /\ routes' = routes /\ op'.pos = r
    BY <1>4 DEF SelectUnchanged, SelectFails, Request
  <2> QED BY <1>1, <1>2, <2>1, RoutesFrom
<1>5. CASE SelectSource(r)
  <2>1. PICK src : /\ mixer' = [mixer EXCEPT !.src = src]
                   /\ routes' = sync_source_routes(routes, src)
                   /\ op'.pos = r
    BY <1>5 DEF SelectSource, Request
  <2>2. DOMAIN routes = DOMAIN bind BY <1>1 DEF AreRoutes
  <2>3. ASSUME NEW q \in DOMAIN bind
        PROVE  IsRoute(routes'[q]) /\ (~meddled => Agrees(q, routes'[q], mixer'))
    BY <1>1, <2>1, SyncFact
  <2>4. routes' = [q \in DOMAIN bind |-> routes'[q]]
    BY <2>1, <2>2 DEF sync_source_routes
  <2>5. mixer'.lv = mixer.lv /\ mixer' = [lv |-> mixer'.lv, mu |-> mixer'.mu, src |-> mixer'.src]
    BY <1>1, <2>1 DEF IsMixer
  <2> QED BY <1>1, <1>2, <1>3, <2>1, <2>3, <2>4, <2>5
      DEF RouteInv, AreRoutes, IsMixer, Agrees, Selected, Hardware,
          Controls, level_to_volume
<1> QED BY <1>3, <1>4, <1>5

\* A shadow that follows a write.
LEMMA ShadowFact ==
  ASSUME AreRoutes(routes), NEW p \in DOMAIN bind, NEW x
  PROVE  LET sh == Shadowed(p, x)
         IN  /\ AreRoutes(sh)
             /\ \A q \in DOMAIN bind : q # p => sh[q] = routes[q]
             /\ sh[p].active = routes[p].active
             /\ x.what = "mute" => sh[p].mute = x.to /\ sh[p].vol = routes[p].vol
             /\ x.what # "mute" => /\ sh[p].vol = level_to_volume(New(x))
                                   /\ sh[p].mute = routes[p].mute
<1> DEFINE sh == Shadowed(p, x)
<1>1. IsRoute(routes[p]) /\ p \in DOMAIN routes /\ DOMAIN routes = DOMAIN bind
  BY DEF AreRoutes
<1>2. routes = [r \in DOMAIN bind |-> routes[r]] /\ \A r \in DOMAIN bind : IsRoute(routes[r])
  BY DEF AreRoutes
<1>3. CASE x.what = "mute"
  <2>1. sh = [routes EXCEPT ![p].mute = x.to] BY <1>3 DEF Shadowed
  <2>2. sh[p] = [routes[p] EXCEPT !.mute = x.to] BY <1>1, <2>1
  <2> HIDE DEF sh
  <2>3. IsRoute(sh[p]) /\ sh[p].active = routes[p].active /\ sh[p].mute = x.to
        /\ sh[p].vol = routes[p].vol
    BY <1>1, <2>2 DEF IsRoute
  <2>4. \A q \in DOMAIN bind : q # p => sh[q] = routes[q] BY <1>1, <2>1
  <2>5. sh = [r \in DOMAIN bind |-> sh[r]] BY <1>1, <2>1
  <2> QED BY <1>2, <1>3, <2>3, <2>4, <2>5 DEF AreRoutes, sh
<1>4. CASE x.what # "mute"
  <2> DEFINE v == level_to_volume(New(x))
  <2>1. sh = [routes EXCEPT ![p].vol = v] BY <1>4 DEF Shadowed
  <2>2. sh[p] = [routes[p] EXCEPT !.vol = v] BY <1>1, <2>1
  <2> HIDE DEF sh, v
  <2>3. IsRoute(sh[p]) /\ sh[p].active = routes[p].active /\ sh[p].vol = v
        /\ sh[p].mute = routes[p].mute
    BY <1>1, <2>2 DEF IsRoute
  <2>4. \A q \in DOMAIN bind : q # p => sh[q] = routes[q] BY <1>1, <2>1
  <2>5. sh = [r \in DOMAIN bind |-> sh[r]] BY <1>1, <2>1
  <2> QED BY <1>2, <1>4, <2>3, <2>4, <2>5 DEF AreRoutes, v, sh
<1> QED BY <1>3, <1>4

\* A value of the request: only a write the driver took reaches the shadow,
\* and where it reaches another active route's control, that is meddling.
LEMMA RequestWrites ==
  ASSUME RouteInv, Write
  PROVE  RouteInv'
<1>1. AreRoutes(routes) /\ IsMixer(mixer) /\ meddled \in BOOLEAN
      /\ (~meddled => \A r \in DOMAIN bind : Agrees(r, routes[r], mixer))
  BY DEF RouteInv
<1>2. bind' = bind /\ op.pos \in DOMAIN bind BY DEF Write, RouteInv
<1> DEFINE p == op.pos
<1>3. PICK x \in Writes :
         \/ WriteSame(p, x) \/ WriteSoft(p, x)
         \/ WriteFails(p, x) \/ WriteHardware(p, x)
  BY DEF Write
<1>4. p \in DOMAIN bind /\ op'.pos \in DOMAIN bind
  <2>1. \A done : Flagged(x, done).pos = op.pos
    <3>1. op.pc = "write" /\ op.left > 0 BY DEF Write
    <3> QED BY DEF Flagged
  <2> QED BY <1>2, <1>3, <2>1 DEF WriteSame, WriteSoft, WriteFails,
                                  WriteHardware
<1> HIDE DEF p
<1>5. CASE WriteSame(p, x) \/ WriteFails(p, x)
  <2>1. mixer' = mixer /\ routes' = routes /\ meddled' = meddled
    BY <1>5 DEF WriteSame, WriteFails
  <2> QED BY <1>1, <1>2, <1>4, <2>1, RoutesFrom
<1> DEFINE sh == Shadowed(p, x)
<1>6. /\ AreRoutes(sh)
      /\ \A q \in DOMAIN bind : q # p => sh[q] = routes[q]
      /\ sh[p].active = routes[p].active
      /\ x.what = "mute" => sh[p].mute = x.to /\ sh[p].vol = routes[p].vol
      /\ x.what # "mute" => /\ sh[p].vol = level_to_volume(New(x))
                            /\ sh[p].mute = routes[p].mute
  BY <1>1, <1>4, ShadowFact
<1> HIDE DEF sh
<1>7. CASE WriteSoft(p, x)
  <2>1. mixer' = mixer /\ routes' = sh /\ meddled' = meddled /\ ~Hardware(p)
    BY <1>7 DEF WriteSoft, Shown, sh
  <2>2. ASSUME ~meddled, NEW r \in DOMAIN bind
        PROVE  Agrees(r, sh[r], mixer)
    <3>1. Agrees(r, routes[r], mixer) BY <1>1, <2>2
    <3>2. CASE r # p BY <1>6, <3>1, <3>2
    <3>3. CASE r = p BY <1>6, <2>1, <3>1, <3>3 DEF Agrees
    <3> QED BY <3>2, <3>3
  <2> QED BY <1>1, <1>2, <1>4, <1>6, <2>1, <2>2, RoutesFrom
<1>8. CASE WriteHardware(p, x)
  <2> DEFINE c == bind[p].control
             m == Written(c, x)
  <2>1. /\ mixer' = m /\ routes' = sh /\ Hardware(p)
        /\ meddled' = (meddled \/ Shared(p))
    BY <1>8 DEF WriteHardware, Shown, sh
  <2>2. c \in Controls(bind) BY <1>4, <2>1 DEF Hardware, Controls
  <2>3. /\ IsMixer(m) /\ m.src = mixer.src
        /\ \A d : d # c => m.lv[d] = mixer.lv[d] /\ ((d \in m.mu) <=> (d \in mixer.mu))
        /\ x.what = "mute" => m.lv = mixer.lv /\ (x.to <=> c \in m.mu)
        /\ x.what # "mute" => m.mu = mixer.mu /\ m.lv[c] = New(x)
    <3>1. /\ mixer = [lv |-> mixer.lv, mu |-> mixer.mu, src |-> mixer.src]
          /\ mixer.lv = [d \in Controls(bind) |-> mixer.lv[d]]
      BY <1>1 DEF IsMixer
    <3>2. CASE x.what = "mute"
      <4> DEFINE mu == IF x.to THEN mixer.mu \cup {c} ELSE mixer.mu \ {c}
      <4>1. m = [mixer EXCEPT !.mu = mu] BY <3>2 DEF Written
      <4>2. m = [lv |-> mixer.lv, mu |-> mu, src |-> mixer.src] BY <3>1, <4>1
      <4> HIDE DEF m
      <4>3. \A d : d # c => ((d \in mu) <=> (d \in mixer.mu)) OBVIOUS
      <4>4. x.to <=> c \in mu OBVIOUS
      <4> HIDE DEF mu
      <4>5. m.lv = mixer.lv /\ m.mu = mu /\ m.src = mixer.src BY <4>2
      <4>6. IsMixer(m) BY <3>1, <4>2, <4>5 DEF IsMixer
      <4> QED BY <3>2, <4>3, <4>4, <4>5, <4>6
    <3>3. CASE x.what # "mute"
      <4> DEFINE lv == [mixer.lv EXCEPT ![c] = New(x)]
      <4>1. m = [mixer EXCEPT !.lv[c] = New(x)] BY <3>3 DEF Written
      <4>2. m = [lv |-> lv, mu |-> mixer.mu, src |-> mixer.src] BY <3>1, <4>1
      <4> HIDE DEF m
      <4>3. /\ lv = [d \in Controls(bind) |-> lv[d]] /\ lv[c] = New(x)
            /\ \A d : d # c => lv[d] = mixer.lv[d]
        BY <2>2, <3>1
      <4> HIDE DEF lv
      <4>4. m.lv = lv /\ m.mu = mixer.mu /\ m.src = mixer.src BY <4>2
      <4>5. IsMixer(m) BY <4>2, <4>3, <4>4 DEF IsMixer
      <4> QED BY <3>3, <4>3, <4>4, <4>5
    <3> QED BY <3>2, <3>3
  <2> HIDE DEF m
  <2>4. ASSUME ~meddled', NEW r \in DOMAIN bind
        PROVE  Agrees(r, sh[r], m)
    <3>1. Agrees(r, routes[r], mixer) /\ ~Shared(p) BY <1>1, <2>1, <2>4
    <3>2. CASE r # p
      <4>1. sh[r] = routes[r] BY <1>6, <3>2
      <4>2. routes[r].active => bind[r].control # c
        BY <3>1, <3>2 DEF Shared
      <4>3. routes[r].active => /\ m.lv[bind[r].control] = mixer.lv[bind[r].control]
                                /\ (bind[r].control \in m.mu) <=> (bind[r].control \in mixer.mu)
        BY <2>3, <4>2
      <4> QED BY <2>3, <3>1, <4>1, <4>3 DEF Agrees
    <3>3. CASE r = p
      <4>1. Agrees(p, routes[p], mixer) BY <3>1, <3>3
      <4>2. CASE x.what = "mute"
        <5>1. x.to \in BOOLEAN BY <4>2 DEF Writes
        <5>2. sh[p].mute = (c \in m.mu) BY <1>6, <2>3, <4>2, <5>1
        <5> QED BY <1>6, <2>3, <3>3, <4>1, <4>2, <5>2 DEF Agrees
      <4>3. CASE x.what # "mute" BY <1>6, <2>3, <3>3, <4>1, <4>3 DEF Agrees
      <4> QED BY <4>2, <4>3
    <3> QED BY <3>2, <3>3
  <2>5. meddled' \in BOOLEAN BY <1>1, <2>1 DEF Shared
  <2> QED BY <1>2, <1>4, <1>6, <2>1, <2>3, <2>4, <2>5
      DEF RouteInv, AreRoutes, IsMixer, Agrees, Selected, Hardware,
          Controls, level_to_volume
<1> QED BY <1>3, <1>5, <1>7, <1>8

\* The end of a request, the host, and other processes.
LEMMA RouteOthers ==
  ASSUME RouteInv,
         Finish \/ HostReads \/ AddListener \/ External
           \/ UNCHANGED deviceVars
  PROVE  RouteInv'
<1>1. AreRoutes(routes) /\ IsMixer(mixer) /\ meddled \in BOOLEAN
      /\ (op.pc = "write" => op.pos \in DOMAIN bind)
      /\ (~meddled => \A r \in DOMAIN bind : Agrees(r, routes[r], mixer))
  BY DEF RouteInv
<1>2. CASE External
  <2>1. bind' = bind /\ routes' = routes /\ op' = op /\ meddled' = TRUE
    BY <1>2 DEF External
  <2>2. /\ mixer = [lv |-> mixer.lv, mu |-> mixer.mu, src |-> mixer.src]
        /\ mixer.lv = [d \in Controls(bind) |-> mixer.lv[d]]
    BY <1>1 DEF IsMixer
  <2>3. IsMixer(mixer')
    <3>1. CASE \E c \in Controls(bind), l \in 0..Levels : mixer' = [mixer EXCEPT !.lv[c] = l]
      <4>1. PICK c \in Controls(bind), l \in 0..Levels : mixer' = [mixer EXCEPT !.lv[c] = l]
        BY <3>1
      <4> DEFINE lv == [mixer.lv EXCEPT ![c] = l]
      <4>2. mixer' = [lv |-> lv, mu |-> mixer.mu, src |-> mixer.src] BY <2>2, <4>1
      <4>3. lv = [d \in Controls(bind) |-> lv[d]] BY <2>2
      <4> HIDE DEF lv
      <4> QED BY <4>2, <4>3 DEF IsMixer
    <3>2. CASE \E y : mixer' = [mixer EXCEPT !.mu = y] BY <2>2, <3>2 DEF IsMixer
    <3>3. CASE \E y : mixer' = [mixer EXCEPT !.src = y] BY <2>2, <3>3 DEF IsMixer
    <3> QED BY <1>2, <3>1, <3>2, <3>3 DEF External
  <2> QED BY <1>1, <2>1, <2>3 DEF RouteInv, AreRoutes, IsMixer, Controls
<1>3. CASE ~External
  <2>1. /\ bind' = bind /\ mixer' = mixer /\ routes' = routes /\ meddled' = meddled
        /\ op' = op \/ op' = [pc |-> "idle"]
    BY <1>3 DEF Finish, HostReads, AddListener, deviceVars, NoRequest
  <2> QED BY <1>1, <2>1, RoutesFrom
<1> QED BY <1>2, <1>3

\* Every step keeps the shadows true.
LEMMA RouteKeeps ==
  ASSUME RouteInv, [DeviceNext]_deviceVars
  PROVE  RouteInv'
BY PollsAndProfiles, RequestBegins, RequestWrites, RouteOthers DEF DeviceNext, HostCall

\* As long as nobody else touched the mixer, the active routes are the sources
\* the driver records from and their shadows its values, whichever of a
\* request's ioctls failed and wherever the kernel put the recording source,
\* for every route table, level range and kernel (mixer.rs apply, refresh).
THEOREM ShadowsAreTrue == DeviceSpec => []ShadowIsTrue
<1>1. DeviceInit => RouteInv BY RouteInit
<1>2. RouteInv /\ [DeviceNext]_deviceVars => RouteInv' BY RouteKeeps
<1>3. RouteInv => ShadowIsTrue
  <2> SUFFICES ASSUME RouteInv, ~meddled, NEW r \in DOMAIN bind
               PROVE  /\ routes[r].active = Selected(r, mixer.src)
                      /\ routes[r].active => routes[r] = Read(r, routes[r])
    BY DEF ShadowIsTrue
  <2>1. IsRoute(routes[r]) /\ Agrees(r, routes[r], mixer) BY DEF RouteInv, AreRoutes
  <2> QED BY <2>1, ReadSame DEF Agrees
<1> QED BY <1>1, <1>2, <1>3, PTL DEF DeviceSpec
-----------------------------------------------------------------------------
(* Queued notifications: what the host makes of them is the last word on   *)
(* each matter.                                                            *)

\* The largest and the smallest of some positions.
LEMMA EndsOf ==
  ASSUME NEW n \in Nat, NEW s \in SUBSET (1 .. n), s # {}
  PROVE  /\ Max(s) \in s /\ \A y \in s : y <= Max(s)
         /\ Min(s) \in s /\ \A y \in s : Min(s) <= y
<1> DEFINE T == {k \in Nat : \A y \in s : y <= k}
<1>1. \E x \in s : \A y \in s : x >= y
  <2>1. n \in T OBVIOUS
  <2>2. PICK k \in T : \A j \in T : k <= j BY <2>1, LeastUnit
  <2>3. k \in s
    <3> SUFFICES ASSUME k \notin s PROVE FALSE OBVIOUS
    <3>1. k # 0
      <4>1. PICK y \in s : TRUE OBVIOUS
      <4> QED BY <4>1
    <3>2. k - 1 \in T BY <3>1
    <3> QED BY <2>2, <3>2
  <2> QED BY <2>3
<1>2. \E x \in s : \A y \in s : x =< y
  <2>1. s \subseteq Nat OBVIOUS
  <2> QED BY <2>1, LeastUnit
<1>3. Max(s) \in s /\ \A y \in s : Max(s) >= y BY <1>1 DEF Max
<1>4. Min(s) \in s /\ \A y \in s : Min(s) =< y BY <1>2 DEF Min
<1> QED BY <1>3, <1>4

(* The positions in s of notifications of the kinds K.                     *)
Of(q, s, K) == {i \in s : q[i].kind \in K}

(* The host that held h and heard what stands at the positions s of q.     *)
Final(h, q, s) ==
  LET O == Of(q, s, {"object"})
      V == Of(q, s, {"object", "volume"})
      M == Of(q, s, {"object", "mute"})
  IN  [nodes |-> IF O = {} THEN h.nodes ELSE q[Max(O)].on,
       vol   |-> IF V = {} THEN h.vol ELSE IF q[Max(V)].kind = "object" THEN Unset ELSE q[Max(V)].vol,
       soft  |-> IF V = {} THEN h.soft ELSE IF q[Max(V)].kind = "object" THEN Unset ELSE q[Max(V)].soft,
       mute  |-> IF M = {} THEN h.mute ELSE IF q[Max(M)].kind = "object" THEN Unset ELSE q[Max(M)].mute]

(* A host's record has its fields.                                         *)
Heard(h) == h = [nodes |-> h.nodes, vol |-> h.vol, soft |-> h.soft, mute |-> h.mute]

\* One more notification.
LEMMA FinalStep ==
  ASSUME NEW n \in Nat, NEW s \in SUBSET (1 .. n), NEW m \in s, \A y \in s : y <= m,
         NEW q, NEW h
  PROVE  Final(h, q, s) = Deliver(Final(h, q, s \ {m}), q[m])
<1> DEFINE k == q[m].kind
           g == Final(h, q, s \ {m})
           f == Final(h, q, s)
<1>1. ASSUME NEW K
      PROVE  /\ k \in K => Of(q, s, K) # {} /\ Max(Of(q, s, K)) = m
             /\ k \notin K => Of(q, s, K) = Of(q, s \ {m}, K)
  <2> DEFINE o == Of(q, s, K)
  <2>1. ASSUME k \in K PROVE o # {} /\ Max(o) = m
    <3>1. m \in o /\ o \in SUBSET (1 .. n) /\ \A y \in o : y <= m BY <2>1 DEF Of
    <3> HIDE DEF o
    <3>2. o # {} BY <3>1
    <3>3. PICK x : x = Max(o) OBVIOUS
    <3>4. x \in o /\ \A y \in o : y <= x BY <3>1, <3>2, <3>3, EndsOf
    <3>5. x <= m /\ m <= x /\ x \in Nat /\ m \in Nat BY <3>1, <3>4
    <3> QED BY <3>2, <3>3, <3>5
  <2>2. k \notin K => o = Of(q, s \ {m}, K) BY DEF Of
  <2> QED BY <2>1, <2>2
<1>2. CASE k = "object"
  <2>1. f = [nodes |-> q[m].on, vol |-> Unset, soft |-> Unset, mute |-> Unset]
    BY <1>1, <1>2 DEF Final
  <2> QED BY <1>2, <2>1 DEF Deliver
<1>3. CASE k = "volume"
  <2>1. /\ f.nodes = g.nodes /\ f.mute = g.mute /\ f.vol = q[m].vol /\ f.soft = q[m].soft
        /\ Heard(f) /\ Heard(g)
    BY <1>1, <1>3 DEF Final, Heard
  <2> HIDE DEF f, g
  <2>2. Deliver(g, q[m]) = [g EXCEPT !.vol = q[m].vol, !.soft = q[m].soft] BY <1>3 DEF Deliver
  <2> QED BY <2>1, <2>2 DEF Heard, f, g
<1>4. CASE k = "mute"
  <2>1. /\ Of(q, s, {"object"}) = Of(q, s \ {m}, {"object"})
        /\ Of(q, s, {"object", "volume"}) = Of(q, s \ {m}, {"object", "volume"})
        /\ Of(q, s, {"object", "mute"}) # {} /\ Max(Of(q, s, {"object", "mute"})) = m
    BY <1>1, <1>4
  <2>2. f.nodes = g.nodes /\ f.vol = g.vol /\ f.soft = g.soft BY <2>1 DEF Final
  <2>3. f.mute = q[m].mute BY <1>4, <2>1 DEF Final
  <2>4. Heard(f) /\ Heard(g) BY DEF Final, Heard
  <2> HIDE DEF f, g
  <2>5. Deliver(g, q[m]) = [g EXCEPT !.mute = q[m].mute] BY <1>4 DEF Deliver
  <2> QED BY <2>2, <2>3, <2>4, <2>5 DEF Heard, f, g
<1>5. CASE k \notin {"object", "volume", "mute"}
  <2>1. f = g BY <1>1, <1>5 DEF Final
  <2> QED BY <1>5, <2>1 DEF Deliver
<1> QED BY <1>2, <1>3, <1>4, <1>5

\* Delivering a queue is the last word on each matter.
LEMMA ReplayIs ==
  ASSUME NEW S, NEW q \in Seq(S), NEW h, Heard(h)
  PROVE  FoldLeft(Deliver, h, q) = Final(h, q, DOMAIN q)
<1> DEFINE D == 1 .. Len(q)
           Rec(f) == [s \in SUBSET D |->
                        IF s = {} THEN h ELSE Deliver(f[s \ {Max(s)}], q[Max(s)])]
           W == [s \in SUBSET D |-> Final(h, q, s)]
           iter == CHOOSE f : f = Rec(f)
<1>1. Len(q) \in Nat /\ DOMAIN q = D OBVIOUS
<1>2. FoldLeft(Deliver, h, q) = iter[D] BY <1>1 DEF FoldLeft, MapThenFoldSet
<1>3. Final(h, q, {}) = h
  <2>1. \A K : Of(q, {}, K) = {} BY DEF Of
  <2> QED BY <2>1 DEF Final, Heard
<1>4. ASSUME NEW s \in SUBSET D, s # {}
      PROVE  /\ Max(s) \in s /\ s \ {Max(s)} \in SUBSET D
             /\ Final(h, q, s) = Deliver(Final(h, q, s \ {Max(s)}), q[Max(s)])
  <2>1. Max(s) \in s /\ \A y \in s : y <= Max(s) BY <1>1, <1>4, EndsOf
  <2> QED BY <1>1, <2>1, FinalStep
<1>5. W = Rec(W)
  <2>1. ASSUME NEW s \in SUBSET D
        PROVE  W[s] = IF s = {} THEN h ELSE Deliver(W[s \ {Max(s)}], q[Max(s)])
    <3>1. CASE s = {} BY <1>3, <3>1
    <3>2. CASE s # {} BY <1>4, <3>2
    <3> QED BY <3>1, <3>2
  <2> QED BY <2>1
<1> HIDE DEF W, Rec
<1>6. iter = Rec(iter) BY <1>5
<1> HIDE DEF iter
<1> DEFINE T == {n \in Nat : \E s \in SUBSET D : s \subseteq 1 .. n /\ iter[s] # W[s]}
<1>7. T = {}
  <2> SUFFICES ASSUME T # {} PROVE FALSE OBVIOUS
  <2>1. PICK n \in T : \A k \in T : n <= k BY LeastUnit
  <2>2. PICK s \in SUBSET D : s \subseteq 1 .. n /\ iter[s] # W[s] BY <2>1
  <2>3. s # {} BY <2>2, <1>3, <1>6 DEF W, Rec
  <2> DEFINE m == Max(s)
  <2>4. m \in s /\ s \ {m} \in SUBSET D /\ \A y \in s : y <= m BY <1>1, <2>3, EndsOf
  <2>5. iter[s] = Deliver(iter[s \ {m}], q[m]) BY <1>6, <2>3 DEF Rec
  <2>6. W[s] = Deliver(W[s \ {m}], q[m]) BY <1>4, <2>3, <2>4 DEF W
  <2>7. iter[s \ {m}] # W[s \ {m}] BY <2>2, <2>5, <2>6
  <2> HIDE DEF m
  <2>8. s \ {m} \subseteq 1 .. (m - 1) /\ m \in 1 .. n BY <1>1, <2>2, <2>4
  <2>9. m - 1 \in T BY <2>4, <2>7, <2>8
  <2>10. n \in Nat BY <2>1
  <2> HIDE DEF T
  <2>11. n <= m - 1 BY <2>1, <2>9
  <2> QED BY <2>8, <2>10, <2>11
<1>8. iter[D] = W[D]
  <2>1. D \in SUBSET D /\ D \subseteq 1 .. Len(q) OBVIOUS
  <2> QED BY <1>1, <1>7, <2>1
<1> QED BY <1>1, <1>2, <1>8 DEF W

\* Only the notifications at the positions count.
LEMMA FinalAlike ==
  ASSUME NEW n \in Nat, NEW s \in SUBSET (1 .. n), NEW q, NEW r, NEW h,
         \A i \in s : q[i] = r[i]
  PROVE  Final(h, q, s) = Final(h, r, s)
<1>1. ASSUME NEW K
      PROVE  /\ Of(q, s, K) = Of(r, s, K)
             /\ Of(q, s, K) # {} => q[Max(Of(q, s, K))] = r[Max(Of(q, s, K))]
  <2> DEFINE o == Of(q, s, K)
  <2>1. o = Of(r, s, K) /\ o \in SUBSET (1 .. n) /\ o \subseteq s BY DEF Of
  <2> HIDE DEF o
  <2>2. o # {} => Max(o) \in o BY <2>1, EndsOf
  <2> QED BY <2>1, <2>2 DEF o
<1> HIDE DEF Of
<1> QED BY <1>1 DEF Final

(* A host that held h, once q is delivered.                                *)
Replay(h, q) == FoldLeft(Deliver, h, q)

\* A delivered queue, and what one more notification adds to it.
LEMMA ReplayAppend ==
  ASSUME NEW S, NEW q \in Seq(S), NEW h, Heard(h), NEW x
  PROVE  /\ Replay(h, <<>>) = h
         /\ Heard(Replay(h, q))
         /\ Replay(h, Append(q, x)) = Deliver(Replay(h, q), x)
<1> DEFINE n == Len(q)
           r == Append(q, x)
<1>1. n \in Nat /\ DOMAIN q = 1 .. n OBVIOUS
<1>2. r \in Seq(S \cup {x}) /\ DOMAIN r = 1 .. (n + 1) /\ r[n + 1] = x
      /\ \A i \in 1 .. n : r[i] = q[i]
  <2>1. q \in Seq(S \cup {x}) OBVIOUS
  <2> QED BY <2>1
<1>3. Replay(h, <<>>) = h
  <2>1. <<>> \in Seq(S) /\ DOMAIN <<>> = {} OBVIOUS
  <2>2. Replay(h, <<>>) = Final(h, <<>>, {}) BY <2>1, ReplayIs DEF Replay
  <2>3. \A K : Of(<<>>, {}, K) = {} BY DEF Of
  <2> QED BY <2>2, <2>3 DEF Final, Heard
<1>4. Replay(h, q) = Final(h, q, 1 .. n) BY <1>1, ReplayIs DEF Replay
<1>5. Replay(h, r) = Final(h, r, 1 .. (n + 1)) BY <1>2, ReplayIs DEF Replay
<1> HIDE DEF n, r
<1>6. Final(h, r, 1 .. (n + 1)) = Deliver(Final(h, r, 1 .. n), x)
  <2> DEFINE s == 1 .. (n + 1)
  <2>1. n + 1 \in Nat /\ s \in SUBSET (1 .. (n + 1)) /\ n + 1 \in s /\ s \ {n + 1} = 1 .. n
        /\ \A y \in s : y <= n + 1
    BY <1>1
  <2> HIDE DEF s
  <2>2. Final(h, r, s) = Deliver(Final(h, r, s \ {n + 1}), r[n + 1]) BY <2>1, FinalStep
  <2> QED BY <1>2, <2>1, <2>2 DEF s
<1>7. Final(h, r, 1 .. n) = Final(h, q, 1 .. n)
  <2>1. PICK s : s = 1 .. n OBVIOUS
  <2>2. s \in SUBSET (1 .. n) /\ \A i \in s : r[i] = q[i] BY <1>2, <2>1
  <2>3. Final(h, r, s) = Final(h, q, s) BY <1>1, <2>2, FinalAlike
  <2> QED BY <2>1, <2>3
<1>8. Heard(Final(h, q, 1 .. n)) BY DEF Final, Heard
<1> QED BY <1>3, <1>4, <1>5, <1>6, <1>7, <1>8 DEF r

\* The host takes the first notification of a queue.
LEMMA ReplayTail ==
  ASSUME NEW S, NEW q \in Seq(S), q # <<>>, NEW h, Heard(h)
  PROVE  Heard(Deliver(h, Head(q))) /\ Replay(Deliver(h, Head(q)), Tail(q)) = Replay(h, q)
<1> DEFINE n == Len(q)
           r == Tail(q)
           d == Deliver(h, Head(q))
           P(k) == Final(d, r, 1 .. k) = Final(h, q, 1 .. (k + 1))
<1>1. n \in Nat \ {0} /\ DOMAIN q = 1 .. n /\ Head(q) = q[1] OBVIOUS
<1>2. r \in Seq(S) /\ DOMAIN r = 1 .. (n - 1) /\ \A i \in 1 .. (n - 1) : r[i] = q[i + 1] OBVIOUS
<1>3. Heard(d) BY DEF Deliver, Heard
<1>4. Replay(d, r) = Final(d, r, 1 .. (n - 1)) BY <1>2, <1>3, ReplayIs DEF Replay
<1>5. Replay(h, q) = Final(h, q, 1 .. n) BY <1>1, ReplayIs DEF Replay
<1>6. ASSUME NEW g, NEW p, NEW k \in Nat \ {0}
      PROVE  Final(g, p, 1 .. k) = Deliver(Final(g, p, 1 .. (k - 1)), p[k])
  <2> DEFINE s == 1 .. k
  <2>1. k \in Nat /\ s \in SUBSET (1 .. k) /\ k \in s /\ s \ {k} = 1 .. (k - 1)
        /\ \A y \in s : y <= k
    OBVIOUS
  <2> HIDE DEF s
  <2>2. Final(g, p, s) = Deliver(Final(g, p, s \ {k}), p[k]) BY <2>1, FinalStep
  <2> QED BY <2>1, <2>2 DEF s
<1>7. P(0)
  <2>1. \A g, p : Heard(g) => Final(g, p, 1 .. 0) = g
    <3>1. \A p, K : Of(p, 1 .. 0, K) = {} BY DEF Of
    <3> HIDE DEF Of
    <3> QED BY <3>1 DEF Final, Heard
  <2>2. Final(h, q, 1 .. 1) = Deliver(Final(h, q, 1 .. (1 - 1)), q[1])
    <3>1. 1 \in Nat \ {0} OBVIOUS
    <3> QED BY <1>6, <3>1
  <2>3. 1 - 1 = 0 /\ 0 + 1 = 1 OBVIOUS
  <2>4. Final(h, q, 1 .. 1) = Deliver(h, q[1]) BY <2>1, <2>2, <2>3
  <2> QED BY <1>1, <1>3, <2>1, <2>3, <2>4
<1>8. ASSUME NEW k \in 1 .. (n - 1), P(k - 1) PROVE P(k)
  <2>1. Final(d, r, 1 .. k) = Deliver(Final(d, r, 1 .. (k - 1)), r[k])
    <3>1. k \in Nat \ {0} OBVIOUS
    <3> HIDE DEF d, r
    <3> QED BY <1>6, <3>1
  <2>2. Final(h, q, 1 .. (k + 1)) = Deliver(Final(h, q, 1 .. (k + 1 - 1)), q[k + 1])
    <3>1. k + 1 \in Nat \ {0} OBVIOUS
    <3> QED BY <1>6, <3>1
  <2>3. k + 1 - 1 = k /\ k - 1 + 1 = k OBVIOUS
  <2> QED BY <1>2, <1>8, <2>1, <2>2, <2>3
<1> DEFINE T == {k \in 0 .. (n - 1) : ~P(k)}
<1> HIDE DEF P, d, r, n
<1>9. T = {}
  <2> SUFFICES ASSUME T # {} PROVE FALSE OBVIOUS
  <2>1. T \in SUBSET Nat BY <1>1
  <2>2. PICK k \in T : \A j \in T : k <= j BY <2>1, LeastUnit
  <2>3. k # 0 BY <1>7, <2>2
  <2>4. k \in 1 .. (n - 1) /\ k - 1 \in 0 .. (n - 1) /\ ~(k <= k - 1) BY <1>1, <2>2, <2>3
  <2>5. P(k - 1) BY <2>2, <2>4
  <2> QED BY <1>8, <2>2, <2>4, <2>5
<1>10. P(n - 1) BY <1>1, <1>9
<1>11. n - 1 + 1 = n BY <1>1
<1> QED BY <1>3, <1>4, <1>5, <1>10, <1>11 DEF P, d, r

\* What is in two queues one behind the other.
LEMMA ToSetJoined ==
  ASSUME NEW S, NEW a \in Seq(S), NEW b \in Seq(S)
  PROVE  a \o b \in Seq(S) /\ ToSet(a \o b) = ToSet(a) \cup ToSet(b)
<1> DEFINE c == a \o b
<1>1. /\ c \in Seq(S) /\ Len(a) \in Nat /\ Len(b) \in Nat
      /\ DOMAIN a = 1 .. Len(a) /\ DOMAIN b = 1 .. Len(b) /\ DOMAIN c = 1 .. (Len(a) + Len(b))
  OBVIOUS
<1>2. /\ \A i \in 1 .. Len(a) : c[i] = a[i]
      /\ \A i \in 1 .. Len(b) : c[Len(a) + i] = b[i]
  OBVIOUS
<1> HIDE DEF c
<1>3. ASSUME NEW x \in ToSet(c) PROVE x \in ToSet(a) \cup ToSet(b)
  <2>1. PICK i \in 1 .. (Len(a) + Len(b)) : x = c[i] BY <1>1 DEF ToSet
  <2>2. CASE i <= Len(a)
    <3>1. i \in DOMAIN a /\ x = a[i] BY <1>1, <1>2, <2>1, <2>2
    <3> QED BY <3>1 DEF ToSet
  <2>3. CASE i > Len(a)
    <3>1. i - Len(a) \in 1 .. Len(b) /\ i = Len(a) + (i - Len(a)) BY <1>1, <2>1, <2>3
    <3>2. i - Len(a) \in DOMAIN b /\ x = b[i - Len(a)] BY <1>1, <1>2, <2>1, <3>1
    <3> QED BY <3>2 DEF ToSet
  <2> QED BY <1>1, <2>1, <2>2, <2>3
<1>4. ASSUME NEW x \in ToSet(a) PROVE x \in ToSet(c)
  <2>1. PICK i \in 1 .. Len(a) : x = a[i] BY <1>1 DEF ToSet
  <2>2. i \in DOMAIN c /\ x = c[i] BY <1>1, <1>2, <2>1
  <2> QED BY <2>2 DEF ToSet
<1>5. ASSUME NEW x \in ToSet(b) PROVE x \in ToSet(c)
  <2>1. PICK i \in 1 .. Len(b) : x = b[i] BY <1>1 DEF ToSet
  <2>2. Len(a) + i \in DOMAIN c /\ x = c[Len(a) + i] BY <1>1, <1>2, <2>1
  <2> QED BY <2>2 DEF ToSet
<1> QED BY <1>1, <1>3, <1>4, <1>5 DEF c

(* The announcement m of route r among those that change asks for.         *)
Says(r, m, rs, change) ==
  \/ change[r].volume /\ m = VolumeConfig(r, rs)
  \/ change[r].mute /\ m = MuteConfig(r, rs)

\* The announcements of one route.
LEMMA ConfigFact ==
  ASSUME NEW r, NEW rs, NEW change, NEW C,
         VolumeConfig(r, rs) \in C, MuteConfig(r, rs) \in C
  PROVE  /\ Config(r, rs, change[r]) \in Seq(C)
         /\ \A m : m \in ToSet(Config(r, rs, change[r])) <=> Says(r, m, rs, change)
<1> DEFINE v == VolumeConfig(r, rs)
           w == MuteConfig(r, rs)
           a == IF change[r].volume THEN <<v>> ELSE <<>>
           b == IF change[r].mute THEN <<w>> ELSE <<>>
<1>1. v \in C /\ w \in C OBVIOUS
<1>2. Config(r, rs, change[r]) = a \o b BY DEF Config
<1>3. ASSUME NEW m PROVE m \in ToSet(<<>>) <=> FALSE BY DEF ToSet
<1>4. ASSUME NEW m, NEW x PROVE m \in ToSet(<<x>>) <=> m = x
  <2>1. DOMAIN <<x>> = {1} /\ <<x>>[1] = x OBVIOUS
  <2> QED BY <2>1 DEF ToSet
<1> HIDE DEF v, w
<1>5. a \in Seq(C) /\ b \in Seq(C) BY <1>1
<1>6. ASSUME NEW m PROVE m \in ToSet(a) <=> change[r].volume /\ m = v BY <1>3, <1>4
<1>7. ASSUME NEW m PROVE m \in ToSet(b) <=> change[r].mute /\ m = w BY <1>3, <1>4
<1> HIDE DEF a, b
<1>8. a \o b \in Seq(C) /\ ToSet(a \o b) = ToSet(a) \cup ToSet(b) BY <1>5, ToSetJoined
<1> QED BY <1>2, <1>6, <1>7, <1>8 DEF Says, v, w

\* The order in which routes are announced has all of them.
LEMMA OrderFact ==
  ASSUME NEW A, IsFiniteSet(A)
  PROVE  LET o == SetToSeq(A)
             n == Cardinality(A)
         IN  n \in Nat /\ o \in [1 .. n -> A] /\ \A r \in A : \E i \in 1 .. n : o[i] = r
<1> DEFINE n == Cardinality(A)
           o == SetToSeq(A)
<1>1. n \in Nat /\ ExistsBijection(1 .. n, A) BY FS_CardinalityType
<1>2. PICK f : f \in Bijection(1 .. n, A) BY <1>1 DEF ExistsBijection
<1>3. f \in [1 .. n -> A] /\ IsInjective(f) BY <1>2 DEF Bijection, Injection
<1>4. o \in [1 .. n -> A] /\ IsInjective(o) BY <1>3 DEF SetToSeq
<1> HIDE DEF o
<1>5. o \in Injection(1 .. n, A) BY <1>4 DEF Injection
<1>6. Cardinality(1 .. n) = n
  <2>1. 1 \in Int /\ n \in Int BY <1>1
  <2>2. Cardinality(1 .. n) = IF 1 > n THEN 0 ELSE n - 1 + 1 BY <2>1, FS_Interval
  <2> HIDE DEF n
  <2> QED BY <1>1, <2>2
<1>7. o \in Surjection(1 .. n, A) BY <1>5, <1>6, FS_Injection
<1> QED BY <1>1, <1>4, <1>7 DEF Surjection, o

\* The announcements of several routes.
LEMMA ConfigsFact ==
  ASSUME NEW A, IsFiniteSet(A), NEW rs, NEW change
  PROVE  LET c == Configs(A, rs, change)
         IN  /\ c \in Seq(ToSet(c))
             /\ \A m : m \in ToSet(c) <=> \E r \in A : Says(r, m, rs, change)
<1> DEFINE o == SetToSeq(A)
           N == Cardinality(A)
           C == {VolumeConfig(r, rs) : r \in A} \cup {MuteConfig(r, rs) : r \in A}
           At(i) == Config(o[i], rs, change[o[i]])
           Rec(f, n) == [s \in SUBSET (n .. N) |->
                           IF s = {} THEN <<>> ELSE f[s \ {Min(s)}] \o At(Min(s))]
           iter == CHOOSE f : f = Rec(f, 1)
<1>1. N \in Nat /\ o \in [1 .. N -> A] /\ \A r \in A : \E i \in 1 .. N : o[i] = r BY OrderFact
<1> HIDE DEF o, N
<1>2. Configs(A, rs, change) = iter[1 .. N]
  <2>1. DOMAIN o = 1 .. N BY <1>1
  <2>2. Configs(A, rs, change) = (CHOOSE f : f = [s \in SUBSET (DOMAIN o) |->
          IF s = {} THEN <<>> ELSE f[s \ {Min(s)}] \o At(Min(s))])[DOMAIN o]
    BY DEF Configs, FoldRight, MapThenFoldSet, o
  <2> QED BY <2>1, <2>2
<1>3. ASSUME NEW i \in 1 .. N
      PROVE  At(i) \in Seq(C) /\ \A m : m \in ToSet(At(i)) <=> Says(o[i], m, rs, change)
  <2>1. o[i] \in A BY <1>1
  <2>2. VolumeConfig(o[i], rs) \in C /\ MuteConfig(o[i], rs) \in C BY <2>1
  <2> HIDE DEF C
  <2> QED BY <2>2, ConfigFact
<1> HIDE DEF At, C
<1>4. ASSUME NEW n \in 1 .. (N + 1), NEW s \in SUBSET (n .. N), s # {}
      PROVE  /\ Min(s) \in s /\ \A y \in s : Min(s) <= y
             /\ s \ {Min(s)} \in SUBSET (n .. N)
  <2>1. s \in SUBSET (1 .. N) BY <1>1
  <2> QED BY <1>1, <1>4, <2>1, EndsOf
\* The fold is defined, position by position from the last one.
<1> DEFINE T == {k \in 0 .. N : ~\E f : f = Rec(f, N + 1 - k)}
<1>5. T = {}
  <2> SUFFICES ASSUME T # {} PROVE FALSE OBVIOUS
  <2>1. T \in SUBSET Nat BY <1>1
  <2>2. PICK k \in T : \A j \in T : k <= j BY <2>1, LeastUnit
  <2>3. k \in 0 .. N /\ k \in Nat BY <1>1, <2>2
  <2> DEFINE n == N + 1 - k
  <2>4. n \in 1 .. (N + 1) BY <1>1, <2>3
  <2>5. CASE k = 0
    <3>1. n .. N = {} BY <1>1, <2>5
    <3> DEFINE f == [s \in SUBSET (n .. N) |-> <<>>]
    <3>2. f = Rec(f, n) BY <3>1
    <3> QED BY <2>2, <3>2
  <2>6. CASE k # 0
    <3>1. k - 1 \in 0 .. N /\ ~(k <= k - 1) /\ N + 1 - (k - 1) = n + 1 /\ n \in Nat /\ n <= N
      BY <1>1, <2>3, <2>6
    <3>2. \E f : f = Rec(f, n + 1)
      <4>1. k - 1 \notin T BY <2>2, <3>1
      <4>2. \E f : f = Rec(f, N + 1 - (k - 1)) BY <3>1, <4>1
      <4> QED BY <3>1, <4>2
    <3>3. PICK f : f = Rec(f, n + 1) BY <3>2
    <3> HIDE DEF n
    <3>4. ASSUME NEW s \in SUBSET ((n + 1) .. N)
          PROVE  f[s] = IF s = {} THEN <<>> ELSE f[s \ {Min(s)}] \o At(Min(s))
      BY <3>3
    <3> DEFINE g == [s \in SUBSET (n .. N) |->
                       IF n \in s THEN f[s \ {n}] \o At(n) ELSE f[s]]
    <3>5. ASSUME NEW s \in SUBSET (n .. N)
          PROVE  g[s] = IF s = {} THEN <<>> ELSE g[s \ {Min(s)}] \o At(Min(s))
      <4>1. CASE s = {} BY <3>4, <4>1
      <4>2. CASE n \in s
        <5>1. Min(s) \in s /\ Min(s) <= n /\ s \ {Min(s)} \in SUBSET (n .. N)
          BY <1>4, <2>4, <4>2
        <5>2. PICK x : x = Min(s) OBVIOUS
        <5>3. x \in n .. N /\ x <= n BY <5>1, <5>2
        <5>4. x = n BY <3>1, <5>3
        <5> QED BY <4>2, <5>1, <5>2, <5>4
      <4>3. CASE s # {} /\ n \notin s
        <5>1. s \in SUBSET ((n + 1) .. N) BY <1>1, <3>1, <4>3
        <5>2. s \ {Min(s)} \in SUBSET (n .. N) /\ n \notin s \ {Min(s)} BY <4>3
        <5>3. g[s] = f[s] /\ g[s \ {Min(s)}] = f[s \ {Min(s)}] BY <4>3, <5>2
        <5> QED BY <3>4, <4>3, <5>1, <5>3
      <4> QED BY <4>1, <4>2, <4>3
    <3>6. DOMAIN g = SUBSET (n .. N) /\ g = [s \in SUBSET (n .. N) |-> g[s]] OBVIOUS
    <3> HIDE DEF g
    <3>7. g = Rec(g, n) BY <3>5, <3>6
    <3> QED BY <2>2, <3>7 DEF n
  <2> QED BY <2>5, <2>6
<1>6. \E f : f = Rec(f, 1)
  <2>1. N \in 0 .. N /\ N + 1 - N = 1 BY <1>1
  <2> HIDE DEF Rec
  <2>2. \E f : f = Rec(f, N + 1 - N) BY <1>5, <2>1
  <2> QED BY <2>1, <2>2
<1>7. iter = Rec(iter, 1) BY <1>6
<1> HIDE DEF iter
\* What it collects.
<1> DEFINE Good(s) == /\ iter[s] \in Seq(C)
                      /\ \A m : m \in ToSet(iter[s]) <=> \E i \in s : Says(o[i], m, rs, change)
           U == {k \in 0 .. N : \E s \in SUBSET ((N + 1 - k) .. N) : ~Good(s)}
<1>8. ASSUME NEW s \in SUBSET (1 .. N)
      PROVE  iter[s] = IF s = {} THEN <<>> ELSE iter[s \ {Min(s)}] \o At(Min(s))
  BY <1>7
<1>9. U = {}
  <2> SUFFICES ASSUME U # {} PROVE FALSE OBVIOUS
  <2>1. U \in SUBSET Nat BY <1>1
  <2>2. PICK k \in U : \A j \in U : k <= j BY <2>1, LeastUnit
  <2>3. k \in 0 .. N /\ k \in Nat BY <1>1, <2>2
  <2>4. PICK s \in SUBSET ((N + 1 - k) .. N) : ~Good(s) BY <2>2
  <2>5. s \in SUBSET (1 .. N) BY <1>1, <2>3
  <2>6. CASE s = {}
    <3>1. iter[s] = <<>> BY <1>8, <2>5, <2>6
    <3>2. ToSet(<<>>) = {} BY DEF ToSet
    <3> QED BY <2>4, <2>6, <3>1, <3>2
  <2>7. CASE s # {}
    <3>1. PICK x : x = Min(s) OBVIOUS
    <3>2. x \in s /\ \A y \in s : x <= y BY <1>1, <2>5, <2>7, <3>1, EndsOf
    <3> DEFINE t == s \ {x}
    <3>3. x \in 1 .. N /\ t \in SUBSET (1 .. N) BY <2>5, <3>2
    <3>4. iter[s] = iter[t] \o At(x) BY <1>8, <2>5, <2>7, <3>1
    <3>5. Good(t)
      <4> DEFINE j == N - x
      <4>1. j \in 0 .. N /\ j < k /\ ~(k <= j) /\ N + 1 - j = x + 1
        <5>1. x \in (N + 1 - k) .. N BY <3>2
        <5> QED BY <1>1, <2>3, <3>3, <5>1
      <4>2. t \in SUBSET ((N + 1 - j) .. N)
        <5>1. \A y \in t : y \in 1 .. N /\ x <= y /\ y # x BY <2>5, <3>2
        <5>2. \A y \in t : y \in (x + 1) .. N BY <1>1, <3>3, <5>1
        <5> QED BY <4>1, <5>2
      <4> HIDE DEF j, t, Good
      <4>3. j \notin U BY <2>2, <4>1
      <4> QED BY <4>1, <4>2, <4>3
    <3>6. s = t \cup {x} BY <3>2
    <3> HIDE DEF t
    <3>7. iter[t] \in Seq(C) /\ At(x) \in Seq(C) BY <1>3, <3>3, <3>5
    <3>8. iter[s] \in Seq(C) /\ ToSet(iter[s]) = ToSet(iter[t]) \cup ToSet(At(x))
      BY <3>4, <3>7, ToSetJoined
    <3>9. ASSUME NEW m
          PROVE  m \in ToSet(iter[s]) <=> \E i \in s : Says(o[i], m, rs, change)
      <4>1. m \in ToSet(iter[t]) <=> \E i \in t : Says(o[i], m, rs, change) BY <3>5
      <4>2. m \in ToSet(At(x)) <=> Says(o[x], m, rs, change) BY <1>3, <3>3
      <4> QED BY <3>6, <3>8, <4>1, <4>2
    <3> QED BY <2>4, <3>8, <3>9
  <2> QED BY <2>6, <2>7
<1>10. Good(1 .. N)
  <2>1. N \in 0 .. N /\ N + 1 - N = 1 /\ 1 .. N \in SUBSET (1 .. N) BY <1>1
  <2> HIDE DEF Good
  <2>2. N \notin U BY <1>9
  <2> QED BY <2>1, <2>2
<1> DEFINE c == Configs(A, rs, change)
<1>11. c \in Seq(C) /\ \A m : m \in ToSet(c) <=> \E i \in 1 .. N : Says(o[i], m, rs, change)
  BY <1>2, <1>10
<1> HIDE DEF c
<1>12. c \in Seq(ToSet(c))
  <2>1. Len(c) \in Nat /\ DOMAIN c = 1 .. Len(c) /\ c = [i \in 1 .. Len(c) |-> c[i]] BY <1>11
  <2>2. \A i \in 1 .. Len(c) : c[i] \in ToSet(c) BY <2>1 DEF ToSet
  <2>3. c \in [1 .. Len(c) -> ToSet(c)] BY <2>1, <2>2
  <2> QED BY <2>1, <2>3
<1>13. ASSUME NEW m
       PROVE  m \in ToSet(c) <=> \E r \in A : Says(r, m, rs, change)
  BY <1>1, <1>11
<1> QED BY <1>12, <1>13 DEF c

-----------------------------------------------------------------------------
(* The host: what it has not read is announced, and what the queue will   *)
(* make of it.                                                             *)

(* A request under way has its fields, and names a route; the selection it *)
(* made is of an active one.                                               *)
IsRequest(x) ==
  /\ x = [pc |-> "write", pos |-> x.pos, selection |-> x.selection, selected |-> x.selected,
          left |-> x.left, volume |-> x.volume, mute |-> x.mute]
  /\ x.pos \in DOMAIN bind /\ x.volume \in BOOLEAN /\ x.mute \in BOOLEAN
  /\ \/ x.selection \in {"unchanged", "failed"} /\ x.selected = None
     \/ x.selection \in {"applied", "deflected"} /\ x.selected \in DOMAIN bind
          /\ routes[x.selected].active

(* What the host has not read of the params is announced, or the request   *)
(* under way will announce it.                                             *)
ToBeTold ==
  /\ op.pc = "write"
  /\ \/ op.selected # None
     \/ (op.volume \/ op.mute) /\ routes[op.pos].active

NoticeInv ==
  /\ bind \in Bindings /\ profile \in BOOLEAN /\ unseen \in BOOLEAN
  /\ queue \in Seq(ToSet(queue)) /\ Heard(manager)
  /\ op = NoRequest \/ IsRequest(op)
  /\ unseen => RouteInfo \in ToSet(queue) \/ ToBeTold
  /\ Replay(manager, queue).nodes = profile

(* The node has what the active route shows, except for what the request   *)
(* under way has still to announce.                                        *)
Carries(g, r) ==
  /\ g.soft \in {Unset, Unity}
  /\ g.vol \in {Unset, routes[r].vol} \/ (op.pc = "write" /\ op.pos = r /\ op.volume)
  /\ g.mute \in {Unset, routes[r].mute} \/ (op.pc = "write" /\ op.pos = r /\ op.mute)

NodeInv ==
  /\ \A q, r \in DOMAIN bind : Selected(q, mixer.src) /\ Selected(r, mixer.src) => q = r
  /\ \A q, r \in DOMAIN bind : routes[q].active /\ routes[r].active => q = r
  /\ profile /\ (op.pc = "write" => op.selected = None) =>
       \A r \in DOMAIN bind : routes[r].active /\ Hardware(r) => Carries(Replay(manager, queue), r)

\* A queue holds what is in it.
LEMMA OwnSeq ==
  ASSUME NEW S, NEW c \in Seq(S)
  PROVE  c \in Seq(ToSet(c)) /\ ToSet(c) \subseteq S
<1>1. Len(c) \in Nat /\ DOMAIN c = 1 .. Len(c) /\ c = [i \in 1 .. Len(c) |-> c[i]]
      /\ \A i \in 1 .. Len(c) : c[i] \in S
  OBVIOUS
<1>2. \A i \in 1 .. Len(c) : c[i] \in ToSet(c) BY <1>1 DEF ToSet
<1>3. c \in [1 .. Len(c) -> ToSet(c)] BY <1>1, <1>2
<1>4. c \in Seq(ToSet(c)) BY <1>1, <1>3
<1> QED BY <1>1, <1>4 DEF ToSet

(* Between hosts g and f lie notifications of volumes and mutes that are   *)
(* in X.                                                                   *)
Since(g, f, X) ==
  /\ Heard(f) /\ f.nodes = g.nodes
  /\ \/ f.vol = g.vol /\ f.soft = g.soft /\ \A y \in X : y.kind # "volume"
     \/ \E y \in X : y.kind = "volume" /\ f.vol = y.vol /\ f.soft = y.soft
  /\ \/ f.mute = g.mute /\ \A y \in X : y.kind # "mute"
     \/ \E y \in X : y.kind = "mute" /\ f.mute = y.mute

\* Notifications behind a queue, none of which replaces the nodes.
LEMMA ReplayJoined ==
  ASSUME NEW S, NEW q \in Seq(S), NEW x \in Seq(S), NEW h, Heard(h),
         \A y \in ToSet(x) : y.kind # "object"
  PROVE  Since(Replay(h, q), Replay(h, q \o x), ToSet(x))
<1> DEFINE z == q \o x
           n == Len(q)
           k == Len(x)
           g == Replay(h, q)
           f == Replay(h, z)
<1>1. /\ z \in Seq(S) /\ n \in Nat /\ k \in Nat
      /\ DOMAIN q = 1 .. n /\ DOMAIN x = 1 .. k /\ DOMAIN z = 1 .. (n + k)
  OBVIOUS
<1>2. (\A i \in 1 .. n : z[i] = q[i]) /\ \A i \in 1 .. k : z[n + i] = x[i] OBVIOUS
<1>3. f = Final(h, z, 1 .. (n + k)) BY <1>1, ReplayIs DEF Replay
<1>4. g = Final(h, q, 1 .. n) BY <1>1, ReplayIs DEF Replay
<1> HIDE DEF z, n, k, g, f
<1>5. ASSUME NEW i \in 1 .. (n + k), i \notin 1 .. n
      PROVE  z[i] \in ToSet(x)
  <2>1. i - n \in 1 .. k /\ n + (i - n) = i BY <1>1, <1>5
  <2>2. z[i] = x[i - n] BY <1>2, <2>1
  <2> QED BY <1>1, <2>1, <2>2 DEF ToSet
<1>6. ASSUME NEW y \in ToSet(x)
      PROVE  \E i \in 1 .. (n + k) : i \notin 1 .. n /\ z[i] = y
  <2>1. PICK j \in 1 .. k : y = x[j] BY <1>1 DEF ToSet
  <2>2. n + j \in 1 .. (n + k) /\ n + j \notin 1 .. n BY <1>1
  <2> QED BY <1>2, <2>1, <2>2
<1>7. ASSUME NEW K
      PROVE  LET Z == Of(z, 1 .. (n + k), K)
                 Q == Of(q, 1 .. n, K)
             IN  \/ /\ Z = Q /\ \A y \in ToSet(x) : y.kind \notin K
                    /\ Q # {} => z[Max(Q)] = q[Max(Q)]
                 \/ Z # {} /\ z[Max(Z)] \in ToSet(x) /\ z[Max(Z)].kind \in K
  <2> DEFINE Z == Of(z, 1 .. (n + k), K)
             Q == Of(q, 1 .. n, K)
  <2>1. Z \in SUBSET (1 .. (n + k)) /\ Q \in SUBSET (1 .. n) BY DEF Of
  <2>2. \A i : i \in Z <=> i \in 1 .. (n + k) /\ z[i].kind \in K BY DEF Of
  <2>3. \A i : i \in Q <=> i \in 1 .. n /\ q[i].kind \in K BY DEF Of
  <2> HIDE DEF Z, Q
  <2>4. CASE Z \subseteq 1 .. n
    <3>1. \A i \in 1 .. n : i \in 1 .. (n + k) BY <1>1
    <3>2. Z = Q BY <1>2, <2>2, <2>3, <2>4, <3>1
    <3>3. \A y \in ToSet(x) : y.kind \notin K BY <1>6, <2>2, <2>4
    <3>4. Q # {} => Max(Q) \in Q BY <1>1, <2>1, EndsOf
    <3> QED BY <1>2, <2>1, <3>2, <3>3, <3>4 DEF Z, Q
  <2>5. CASE ~(Z \subseteq 1 .. n)
    <3>1. PICK i \in Z : i \notin 1 .. n BY <2>5
    <3>2. n + k \in Nat /\ Z # {} BY <1>1, <3>1
    <3>3. PICK m : m = Max(Z) OBVIOUS
    <3>4. m \in Z /\ i <= m BY <2>1, <3>1, <3>2, <3>3, EndsOf
    <3>5. m \in 1 .. (n + k) /\ i \in 1 .. (n + k) BY <2>1, <3>1, <3>4
    <3>6. m \notin 1 .. n BY <1>1, <3>1, <3>4, <3>5
    <3>7. z[m] \in ToSet(x) /\ z[m].kind \in K BY <1>5, <2>2, <3>4, <3>5, <3>6
    <3> QED BY <3>2, <3>3, <3>7 DEF Z
  <2> QED BY <2>4, <2>5
<1> DEFINE ZO == Of(z, 1 .. (n + k), {"object"})
           QO == Of(q, 1 .. n, {"object"})
           ZV == Of(z, 1 .. (n + k), {"object", "volume"})
           QV == Of(q, 1 .. n, {"object", "volume"})
           ZM == Of(z, 1 .. (n + k), {"object", "mute"})
           QM == Of(q, 1 .. n, {"object", "mute"})
<1>8. /\ f.nodes = IF ZO = {} THEN h.nodes ELSE z[Max(ZO)].on
      /\ f.vol = IF ZV = {} THEN h.vol ELSE IF z[Max(ZV)].kind = "object" THEN Unset ELSE z[Max(ZV)].vol
      /\ f.soft = IF ZV = {} THEN h.soft ELSE IF z[Max(ZV)].kind = "object" THEN Unset ELSE z[Max(ZV)].soft
      /\ f.mute = IF ZM = {} THEN h.mute ELSE IF z[Max(ZM)].kind = "object" THEN Unset ELSE z[Max(ZM)].mute
      /\ Heard(f)
  BY <1>3 DEF Final, Heard
<1>9. /\ g.nodes = IF QO = {} THEN h.nodes ELSE q[Max(QO)].on
      /\ g.vol = IF QV = {} THEN h.vol ELSE IF q[Max(QV)].kind = "object" THEN Unset ELSE q[Max(QV)].vol
      /\ g.soft = IF QV = {} THEN h.soft ELSE IF q[Max(QV)].kind = "object" THEN Unset ELSE q[Max(QV)].soft
      /\ g.mute = IF QM = {} THEN h.mute ELSE IF q[Max(QM)].kind = "object" THEN Unset ELSE q[Max(QM)].mute
  BY <1>4 DEF Final
<1>10. \/ ZO = QO /\ (QO # {} => z[Max(QO)] = q[Max(QO)])
       \/ z[Max(ZO)] \in ToSet(x) /\ z[Max(ZO)].kind \in {"object"}
  BY <1>7
<1>11. \/ /\ ZV = QV /\ \A y \in ToSet(x) : y.kind \notin {"object", "volume"}
          /\ QV # {} => z[Max(QV)] = q[Max(QV)]
       \/ ZV # {} /\ z[Max(ZV)] \in ToSet(x) /\ z[Max(ZV)].kind \in {"object", "volume"}
  BY <1>7
<1>12. \/ /\ ZM = QM /\ \A y \in ToSet(x) : y.kind \notin {"object", "mute"}
          /\ QM # {} => z[Max(QM)] = q[Max(QM)]
       \/ ZM # {} /\ z[Max(ZM)] \in ToSet(x) /\ z[Max(ZM)].kind \in {"object", "mute"}
  BY <1>7
<1> HIDE DEF ZO, QO, ZV, QV, ZM, QM
<1>13. f.nodes = g.nodes BY <1>8, <1>9, <1>10
<1>14. \/ f.vol = g.vol /\ f.soft = g.soft /\ \A y \in ToSet(x) : y.kind # "volume"
       \/ \E y \in ToSet(x) : y.kind = "volume" /\ f.vol = y.vol /\ f.soft = y.soft
  BY <1>8, <1>9, <1>11
<1>15. \/ f.mute = g.mute /\ \A y \in ToSet(x) : y.kind # "mute"
       \/ \E y \in ToSet(x) : y.kind = "mute" /\ f.mute = y.mute
  BY <1>8, <1>9, <1>12
<1> QED BY <1>8, <1>13, <1>14, <1>15 DEF Since, f, g, z

\* A route that stays active keeps its shadow when sources are synchronised.
LEMMA SyncSame ==
  ASSUME NEW rs, AreRoutes(rs), NEW src, NEW r \in DOMAIN bind, rs[r].active, Selected(r, src)
  PROVE  sync_source_routes(rs, src)[r] = rs[r]
<1>1. IsRoute(rs[r]) /\ DOMAIN rs = DOMAIN bind BY DEF AreRoutes
<1>2. Selected(r, src) = TRUE /\ rs[r].active = TRUE BY <1>1 DEF Selected, IsRoute
<1>3. [rs[r] EXCEPT !.active = Selected(r, src)] = rs[r] BY <1>1, <1>2 DEF IsRoute
<1>4. sync_source_routes(rs, src)[r] =
        LET now == [rs[r] EXCEPT !.active = Selected(r, src)]
        IN  IF now.active /\ ~rs[r].active THEN Read(r, now) ELSE now
  BY <1>1 DEF sync_source_routes
<1> QED BY <1>3, <1>4

\* What a poll announces: an info whenever the params show something else,
\* only active routes, and of a hardware route all that is new.
LEMMA NewsFact ==
  ASSUME IsMixer(mixer), IsFiniteSet(DOMAIN bind), NEW rs, AreRoutes(rs)
  PROVE  LET now == refresh_all(rs)
             x   == poll(rs).news
         IN  /\ x \in Seq(ToSet(x))
             /\ RouteInfo \notin ToSet(x) =>
                  \A r \in DOMAIN bind : /\ now[r].active = rs[r].active
                                         /\ now[r].active => now[r] = rs[r]
             /\ \A m \in ToSet(x) : \/ m = RouteInfo
                                    \/ \E r \in DOMAIN bind :
                                         /\ now[r].active
                                         /\ m \in {VolumeConfig(r, now), MuteConfig(r, now)}
             /\ \A r \in DOMAIN bind : now[r].active /\ Hardware(r) =>
                  /\ VolumeConfig(r, now) \in ToSet(x) \/ (rs[r].active /\ now[r].vol = rs[r].vol)
                  /\ MuteConfig(r, now) \in ToSet(x) \/ (rs[r].active /\ now[r].mute = rs[r].mute)
<1> DEFINE now == refresh_all(rs)
           synced == sync_source(rs)
           sw == Switched(rs, now)
           ch == {r \in DOMAIN rs : now[r].active /\ now[r] # synced[r]}
           swc == [r \in sw |-> SwitchChange(r, now)]
           chc == [r \in ch |-> ValueChange(r, synced, now)]
           a == Configs(sw, now, swc)
           b == Configs(ch, now, chc)
           x == poll(rs).news
<1>1. DOMAIN rs = DOMAIN bind /\ (\A r \in DOMAIN bind : IsRoute(rs[r])) BY DEF AreRoutes
<1>2. sw \subseteq DOMAIN bind /\ ch \subseteq DOMAIN bind BY <1>1 DEF Switched
<1>3. IsFiniteSet(sw) /\ IsFiniteSet(ch) BY <1>2, FS_Subset
<1>4. x = IF sw \cup ch = {} THEN <<>> ELSE <<RouteInfo>> \o a \o b BY DEF poll, News
<1>5. /\ a \in Seq(ToSet(a)) /\ \A m : m \in ToSet(a) <=> \E r \in sw : Says(r, m, now, swc)
      /\ b \in Seq(ToSet(b)) /\ \A m : m \in ToSet(b) <=> \E r \in ch : Says(r, m, now, chc)
  <2> HIDE DEF sw, ch, now, swc, chc
  <2> QED BY <1>3, ConfigsFact
<1>6. /\ \A r \in sw : /\ swc[r].volume <=> now[r].active /\ Hardware(r)
                       /\ swc[r].mute <=> now[r].active /\ Hardware(r)
      /\ \A r \in ch : /\ chc[r].volume <=> now[r].active /\ synced[r].vol # now[r].vol
                       /\ chc[r].mute <=> now[r].active /\ synced[r].mute # now[r].mute
  <2> HIDE DEF now, synced, sw, ch
  <2> QED BY DEF SwitchChange, ValueChange
<1>7. ASSUME NEW r \in DOMAIN bind, rs[r].active, now[r].active
      PROVE  synced[r] = rs[r]
  <2>1. AreRoutes(now) /\ Agrees(r, now[r], mixer) BY RefreshFact
  <2>2. Selected(r, mixer.src) BY <1>7, <2>1 DEF Agrees
  <2> QED BY <1>7, <2>2, SyncSame DEF sync_source
<1>8. \A r \in DOMAIN bind : now[r].active \in BOOLEAN /\ rs[r].active \in BOOLEAN
  <2>1. AreRoutes(now) BY RefreshFact
  <2> QED BY <1>1, <2>1 DEF AreRoutes, IsRoute
<1>9. /\ \A r \in DOMAIN bind : r \in sw <=> rs[r].active # now[r].active
      /\ \A r \in DOMAIN bind : r \in ch <=> now[r].active /\ now[r] # synced[r]
  BY <1>1 DEF Switched
<1>10. CASE sw \cup ch = {}
  <2>1. x = <<>> BY <1>4, <1>10
  <2>2. ToSet(<<>>) = {} BY DEF ToSet
  <2> HIDE DEF x, now, synced, sw, ch
  <2>3. \A r \in DOMAIN bind : now[r].active = rs[r].active /\ (now[r].active => now[r] = rs[r])
    BY <1>7, <1>8, <1>9, <1>10
  <2>4. x \in Seq(ToSet(x)) BY <2>1
  <2> QED BY <2>1, <2>2, <2>3, <2>4 DEF x, now
<1>11. CASE sw \cup ch # {}
  <2> DEFINE X == {RouteInfo} \cup ToSet(a) \cup ToSet(b)
             i == <<RouteInfo>>
  <2>1. x = i \o a \o b BY <1>4, <1>11
  <2> HIDE DEF x, a, b
  <2>2. i \in Seq(X) /\ ToSet(i) = {RouteInfo}
    <3>1. DOMAIN <<RouteInfo>> = {1} /\ <<RouteInfo>>[1] = RouteInfo OBVIOUS
    <3> QED BY <3>1 DEF ToSet
  <2>3. a \in Seq(X) /\ b \in Seq(X) BY <1>5
  <2> HIDE DEF X, i
  <2>4. PICK w : w = i \o a OBVIOUS
  <2>5. w \in Seq(X) /\ ToSet(w) = ToSet(i) \cup ToSet(a) BY <2>2, <2>3, <2>4, ToSetJoined
  <2>10. w \o b \in Seq(X) /\ ToSet(w \o b) = ToSet(w) \cup ToSet(b) BY <2>3, <2>5, ToSetJoined
  <2>11. x \in Seq(X) /\ ToSet(x) = ToSet(w) \cup ToSet(b) BY <2>1, <2>4, <2>10
  <2>6. ToSet(x) = {RouteInfo} \cup ToSet(a) \cup ToSet(b) BY <2>2, <2>5, <2>11
  <2>7. x \in Seq(ToSet(x)) BY <2>6, <2>11 DEF X
  <2> HIDE DEF now, synced, sw, ch, swc, chc
  <2>8. ASSUME NEW m \in ToSet(x), m # RouteInfo
        PROVE  \E r \in DOMAIN bind : /\ now[r].active
                                      /\ m \in {VolumeConfig(r, now), MuteConfig(r, now)}
    <3>1. CASE m \in ToSet(a)
      <4>1. PICK r \in sw : Says(r, m, now, swc) BY <1>5, <3>1
      <4> QED BY <1>2, <1>6, <4>1 DEF Says
    <3>2. CASE m \in ToSet(b)
      <4>1. PICK r \in ch : Says(r, m, now, chc) BY <1>5, <3>2
      <4> QED BY <1>2, <1>6, <4>1 DEF Says
    <3> QED BY <2>6, <2>8, <3>1, <3>2
  <2>9. ASSUME NEW r \in DOMAIN bind, now[r].active, Hardware(r)
        PROVE  /\ VolumeConfig(r, now) \in ToSet(x) \/ (rs[r].active /\ now[r].vol = rs[r].vol)
               /\ MuteConfig(r, now) \in ToSet(x) \/ (rs[r].active /\ now[r].mute = rs[r].mute)
    <3>1. CASE r \in sw
      <4>1. swc[r].volume /\ swc[r].mute BY <1>6, <2>9, <3>1
      <4>2. Says(r, VolumeConfig(r, now), now, swc) /\ Says(r, MuteConfig(r, now), now, swc)
        BY <4>1 DEF Says
      <4> QED BY <1>5, <2>6, <3>1, <4>2
    <3>2. CASE r \notin sw
      <4>1. rs[r].active /\ synced[r] = rs[r] BY <1>7, <1>8, <1>9, <2>9, <3>2
      <4>2. CASE r \notin ch BY <1>9, <2>9, <4>1, <4>2
      <4>3. CASE r \in ch
        <5>1. synced[r].vol # now[r].vol => Says(r, VolumeConfig(r, now), now, chc)
          BY <1>6, <2>9, <4>3 DEF Says
        <5>2. synced[r].mute # now[r].mute => Says(r, MuteConfig(r, now), now, chc)
          BY <1>6, <2>9, <4>3 DEF Says
        <5>3. synced[r].vol # now[r].vol => VolumeConfig(r, now) \in ToSet(x)
          BY <1>5, <2>6, <4>3, <5>1
        <5>4. synced[r].mute # now[r].mute => MuteConfig(r, now) \in ToSet(x)
          BY <1>5, <2>6, <4>3, <5>2
        <5> QED BY <4>1, <5>3, <5>4
      <4> QED BY <4>2, <4>3
    <3> QED BY <3>1, <3>2
  <2> QED BY <2>6, <2>7, <2>8, <2>9 DEF x, now
<1> QED BY <1>10, <1>11

\* Shadows that differ in inactive routes only show the same params.
LEMMA PodsSame ==
  ASSUME NEW rs, NEW ss, AreRoutes(rs), AreRoutes(ss), NEW on,
         \A r \in DOMAIN bind : ss[r].active = rs[r].active /\ (ss[r].active => ss[r] = rs[r])
  PROVE  RoutePods(ss, on) = RoutePods(rs, on)
<1>1. DOMAIN rs = DOMAIN bind /\ DOMAIN ss = DOMAIN bind BY DEF AreRoutes
<1> QED BY <1>1 DEF RoutePods

\* Before anything is queued.
LEMMA NoticeInit ==
  ASSUME DeviceInit
  PROVE  NoticeInv
<1>1. /\ bind \in Bindings /\ profile = TRUE /\ queue = <<>> /\ op = NoRequest /\ unseen = FALSE
      /\ manager = [nodes |-> TRUE, vol |-> Unset, soft |-> Unset, mute |-> Unset]
  BY DEF DeviceInit, Probed
<1>2. Heard(manager) /\ manager.nodes = TRUE BY <1>1 DEF Heard
<1>3. queue \in Seq(ToSet(queue)) BY <1>1
<1>4. Replay(manager, queue) = manager BY <1>1, <1>2, <1>3, ReplayAppend
<1> QED BY <1>1, <1>2, <1>3, <1>4 DEF NoticeInv

\* A step that leaves the queue and the host alone.
LEMMA NoticeStays ==
  ASSUME NoticeInv, bind' = bind, queue' = queue, manager' = manager, profile' = profile,
         unseen' \in BOOLEAN, op' = NoRequest \/ IsRequest(op)',
         unseen' => RouteInfo \in ToSet(queue) \/ ToBeTold'
  PROVE  NoticeInv'
<1>1. Replay(manager, queue)' = Replay(manager, queue) BY DEF Replay
<1>2. NoRequest' = NoRequest /\ RouteInfo' = RouteInfo BY DEF NoRequest, RouteInfo
<1> QED BY <1>1, <1>2 DEF NoticeInv, Heard

\* A request begins.
LEMMA NoticeSetRoute ==
  ASSUME RouteInv, NoticeInv, SetRoute
  PROVE  NoticeInv'
<1>1. /\ bind' = bind /\ queue' = queue /\ manager' = manager /\ profile' = profile
      /\ op = NoRequest
  BY DEF SetRoute, SelectUnchanged, SelectFails, SelectSource
<1>2. op.pc = "idle" BY <1>1 DEF NoRequest
<1>3. unseen \in BOOLEAN /\ (unseen => RouteInfo \in ToSet(queue)) /\ bind \in Bindings
  BY <1>2 DEF NoticeInv, ToBeTold
<1>4. None \notin DOMAIN bind /\ AreRoutes(routes) BY <1>3, RoutesAssumption DEF RouteInv
<1>5. PICK r \in DOMAIN bind : SelectUnchanged(r) \/ SelectFails(r) \/ SelectSource(r)
  BY DEF SetRoute
<1>6. CASE SelectUnchanged(r) \/ SelectFails(r)
  <2>1. unseen' = unseen /\ \E s \in {"unchanged", "failed"} : op' = Request(r, s, None)
    BY <1>6 DEF SelectUnchanged, SelectFails
  <2>2. IsRequest(op)' BY <1>1, <2>1 DEF IsRequest, Request
  <2> QED BY <1>1, <1>3, <2>1, <2>2, NoticeStays
<1>7. CASE SelectSource(r)
  <2>1. PICK src \in Masks(Sources(bind)) :
          LET now   == sync_source_routes(routes, src)
              other == {q \in DOMAIN now : now[q].active /\ bind[q].source # None}
          IN  /\ routes' = now
              /\ \E q \in IF now[r].active THEN {r} ELSE other :
                   op' = Request(r, IF q = r THEN "applied" ELSE "deflected", q)
              /\ unseen' = (\/ unseen \/ ~now[r].active
                            \/ RoutePods(now, profile) # RoutePods(routes, profile))
    BY <1>7 DEF SelectSource
  <2>2. DOMAIN sync_source_routes(routes, src) = DOMAIN bind
    BY <1>4 DEF sync_source_routes, AreRoutes
  <2>3. PICK q \in DOMAIN bind :
          /\ op' = Request(r, IF q = r THEN "applied" ELSE "deflected", q)
          /\ routes'[q].active
    BY <2>1, <2>2
  <2>4. unseen' \in BOOLEAN BY <2>1
  <2>5. /\ op'.pc = "write" /\ op'.pos = r /\ op'.selected = q /\ op'.volume = FALSE
        /\ op'.mute = FALSE /\ op'.selection \in {"applied", "deflected"}
        /\ op' = [pc |-> "write", pos |-> op'.pos, selection |-> op'.selection,
                  selected |-> op'.selected, left |-> op'.left, volume |-> op'.volume,
                  mute |-> op'.mute]
    BY <2>3 DEF Request
  <2>6. IsRequest(op)' BY <1>1, <1>5, <2>3, <2>5 DEF IsRequest
  <2>7. ToBeTold' BY <1>4, <2>5 DEF ToBeTold
  <2> QED BY <1>1, <2>4, <2>6, <2>7, NoticeStays
<1> QED BY <1>5, <1>6, <1>7

\* A request goes on to its next value.
LEMMA FlaggedFact ==
  ASSUME IsRequest(op), NEW x, NEW done \in BOOLEAN
  PROVE  LET y == Flagged(x, done)
         IN  /\ y = [pc |-> "write", pos |-> op.pos, selection |-> op.selection,
                     selected |-> op.selected, left |-> y.left, volume |-> y.volume,
                     mute |-> y.mute]
             /\ y.volume = (op.volume \/ (done /\ x.what = "volume"))
             /\ y.mute = (op.mute \/ (done /\ x.what = "mute"))
             /\ y.volume \in BOOLEAN /\ y.mute \in BOOLEAN
<1> DEFINE l == op.left - 1
           v == op.volume \/ (done /\ x.what = "volume")
           w == op.mute \/ (done /\ x.what = "mute")
           y == Flagged(x, done)
<1>1. y = [op EXCEPT !.left = l, !.volume = v, !.mute = w] BY DEF Flagged
<1>2. v \in BOOLEAN /\ w \in BOOLEAN BY DEF IsRequest
<1> HIDE DEF l, v, w, y
<1>3. op = [pc |-> "write", pos |-> op.pos, selection |-> op.selection, selected |-> op.selected,
            left |-> op.left, volume |-> op.volume, mute |-> op.mute]
  BY DEF IsRequest
<1>4. y = [pc |-> "write", pos |-> op.pos, selection |-> op.selection, selected |-> op.selected,
           left |-> l, volume |-> v, mute |-> w]
  <2>1. PICK a, b, c, d, e, f :
          op = [pc |-> "write", pos |-> a, selection |-> b, selected |-> c, left |-> d,
                volume |-> e, mute |-> f]
    BY <1>3
  <2>2. op.pos = a /\ op.selection = b /\ op.selected = c BY <2>1
  <2>3. y = [pc |-> "write", pos |-> a, selection |-> b, selected |-> c, left |-> l,
             volume |-> v, mute |-> w]
    BY <1>1, <2>1
  <2> QED BY <2>2, <2>3
<1>5. y.left = l /\ y.volume = v /\ y.mute = w BY <1>4
<1> QED BY <1>2, <1>4, <1>5 DEF v, w, y

\* A value of a request.
LEMMA NoticeWrite ==
  ASSUME RouteInv, NoticeInv, Write
  PROVE  NoticeInv'
<1>1. bind' = bind /\ queue' = queue /\ manager' = manager /\ op.pc = "write" BY DEF Write
<1>2. op # NoRequest BY <1>1 DEF NoRequest
<1>3. /\ IsRequest(op) /\ unseen \in BOOLEAN
      /\ unseen => RouteInfo \in ToSet(queue) \/ ToBeTold
  BY <1>2 DEF NoticeInv
<1>4. AreRoutes(routes) BY DEF RouteInv
<1> DEFINE p == op.pos
<1>5. p \in DOMAIN bind /\ op.volume \in BOOLEAN /\ op.mute \in BOOLEAN BY <1>3 DEF IsRequest
<1>6. PICK x \in Writes : \/ WriteSame(p, x) \/ WriteSoft(p, x)
                          \/ WriteFails(p, x) \/ WriteHardware(p, x)
  BY DEF Write
<1>7. x.what \in {"mute", "volume"} BY DEF Writes
<1>8. PICK done \in BOOLEAN :
        /\ op' = Flagged(x, done) /\ profile' = profile
        /\ ~done => routes' = routes /\ unseen' = unseen
        /\ done => /\ routes' = Shadowed(p, x)
                   /\ unseen' = (unseen \/ RoutePods(routes', profile) # RoutePods(routes, profile))
  <2>1. CASE WriteSame(p, x) \/ WriteFails(p, x)
    <3>1. op' = Flagged(x, FALSE) /\ profile' = profile /\ routes' = routes /\ unseen' = unseen
      BY <2>1 DEF WriteSame, WriteFails
    <3> QED BY <3>1
  <2>2. CASE WriteSoft(p, x) \/ WriteHardware(p, x)
    <3>1. op' = Flagged(x, TRUE) /\ Shown(Shadowed(p, x), profile)
      BY <2>2 DEF WriteSoft, WriteHardware
    <3> QED BY <3>1 DEF Shown
  <2> QED BY <1>6, <2>1, <2>2
<1> HIDE DEF p
<1>9. /\ op' = [pc |-> "write", pos |-> p, selection |-> op.selection,
                selected |-> op.selected, left |-> op'.left, volume |-> op'.volume,
                mute |-> op'.mute]
      /\ op'.volume = (op.volume \/ (done /\ x.what = "volume"))
      /\ op'.mute = (op.mute \/ (done /\ x.what = "mute"))
      /\ op'.volume \in BOOLEAN /\ op'.mute \in BOOLEAN
  BY <1>3, <1>8, FlaggedFact DEF p
<1>10. /\ op'.pc = "write" /\ op'.pos = p /\ op'.selection = op.selection
       /\ op'.selected = op.selected
  BY <1>9
<1>11. \A q \in DOMAIN bind : /\ routes'[q].active = routes[q].active
                              /\ q # p => routes'[q] = routes[q]
  <2> DEFINE sh == Shadowed(p, x)
  <2>1. (\A q \in DOMAIN bind : q # p => sh[q] = routes[q]) /\ sh[p].active = routes[p].active
    BY <1>4, <1>5, ShadowFact
  <2> HIDE DEF sh
  <2>2. CASE done BY <1>8, <2>1, <2>2 DEF sh
  <2>3. CASE ~done BY <1>8, <2>3
  <2> QED BY <2>2, <2>3
<1>12. AreRoutes(routes') BY <1>4, <1>5, <1>8, ShadowFact
<1>13. IsRequest(op)'
  <2>1. \/ op'.selection \in {"unchanged", "failed"} /\ op'.selected = None
        \/ op'.selection \in {"applied", "deflected"} /\ op'.selected \in DOMAIN bind
             /\ routes'[op'.selected].active
    BY <1>3, <1>10, <1>11 DEF IsRequest
  <2> QED BY <1>1, <1>5, <1>9, <1>10, <2>1 DEF IsRequest
<1>14. unseen' \in BOOLEAN BY <1>3, <1>8
<1>15. ASSUME unseen' PROVE RouteInfo \in ToSet(queue) \/ ToBeTold'
  <2>1. CASE unseen
    <3>1. CASE RouteInfo \in ToSet(queue) BY <3>1
    <3>2. CASE ToBeTold BY <1>5, <1>9, <1>10, <1>11, <3>2 DEF ToBeTold, p
    <3> QED BY <1>3, <2>1, <3>1, <3>2
  <2>2. CASE ~unseen
    <3>1. done /\ RoutePods(routes', profile) # RoutePods(routes, profile)
      BY <1>8, <1>15, <2>2
    <3>2. routes[p].active
      <4> SUFFICES ASSUME ~routes[p].active PROVE FALSE OBVIOUS
      <4>1. \A q \in DOMAIN bind : /\ routes'[q].active = routes[q].active
                                   /\ routes'[q].active => routes'[q] = routes[q]
        BY <1>11
      <4>2. RoutePods(routes', profile) = RoutePods(routes, profile)
        BY <1>4, <1>12, <4>1, PodsSame
      <4> QED BY <3>1, <4>2
    <3>3. op'.volume \/ op'.mute BY <1>7, <1>9, <3>1
    <3> QED BY <1>5, <1>10, <1>11, <3>2, <3>3 DEF ToBeTold
  <2> QED BY <2>1, <2>2
<1> QED BY <1>1, <1>8, <1>13, <1>14, <1>15, NoticeStays

\* The end of a request: its announcements are of one route.
LEMMA FinishFact ==
  ASSUME NoticeInv, Finish
  PROVE  LET change == selection_notification_flags
             r      == IF op.selected = None THEN op.pos ELSE op.selected
         IN  /\ IsRequest(op) /\ r \in DOMAIN bind
             /\ queue' \in Seq(ToSet(queue'))
             /\ ToSet(queue) \subseteq ToSet(queue')
             /\ ToBeTold => RouteInfo \in ToSet(queue')
             /\ \E X : /\ Since(Replay(manager, queue), Replay(manager, queue'), X)
                       /\ \A m : m \in X /\ m # RouteInfo
                                   <=> \/ change.volume /\ m = VolumeConfig(r, routes)
                                       \/ change.mute /\ m = MuteConfig(r, routes)
<1> DEFINE change == selection_notification_flags
           r == IF op.selected = None THEN op.pos ELSE op.selected
           told == Announced(change) \/ op.selection = "deflected"
           c == Config(r, routes, change)
<1>1. PICK i \in {<<>>, <<RouteInfo>>} :
        queue' = queue \o i \o c /\ (told => i = <<RouteInfo>>)
  BY DEF Finish
<1>2. op.pc = "write" /\ op # NoRequest BY DEF Finish, NoRequest
<1>3. IsRequest(op) /\ queue \in Seq(ToSet(queue)) /\ Heard(manager) BY <1>2 DEF NoticeInv
<1>4. r \in DOMAIN bind BY <1>3 DEF IsRequest
<1>5. ToBeTold => told
  <2>1. CASE op.selected # None
    <3>1. op.selection \in {"applied", "deflected"} BY <1>3, <2>1 DEF IsRequest
    <3> QED BY <3>1 DEF Announced
  <2>2. CASE op.selected = None /\ ToBeTold
    <3>1. bind \in Bindings BY DEF NoticeInv
    <3>2. op.selected # op.pos BY <1>3, <2>2, <3>1, RoutesAssumption DEF IsRequest
    <3>3. /\ change = [volume |-> op.volume /\ routes[op.pos].active,
                       mute |-> op.mute /\ routes[op.pos].active]
      BY <2>2, <3>2 DEF selection_notification_flags
    <3>4. change.volume \/ change.mute BY <2>2, <3>3 DEF ToBeTold
    <3> QED BY <3>4 DEF Announced
  <2> QED BY <2>1, <2>2
<1> HIDE DEF change, told, r
<1> DEFINE cf == [y \in {r} |-> change]
           C == {VolumeConfig(r, routes), MuteConfig(r, routes)}
           S == ToSet(queue) \cup {RouteInfo} \cup C
           w == queue \o i
<1>6. c \in Seq(C) /\ \A m : m \in ToSet(c) <=> Says(r, m, routes, cf)
  <2>1. cf[r] = change OBVIOUS
  <2>2. VolumeConfig(r, routes) \in C /\ MuteConfig(r, routes) \in C OBVIOUS
  <2> HIDE DEF cf, C
  <2>3. /\ Config(r, routes, cf[r]) \in Seq(C)
        /\ \A m : m \in ToSet(Config(r, routes, cf[r])) <=> Says(r, m, routes, cf)
    BY <2>2, ConfigFact
  <2> QED BY <2>1, <2>3
<1>7. /\ i \in Seq(S) /\ (i = <<RouteInfo>> => RouteInfo \in ToSet(i))
      /\ \A m \in ToSet(i) : m = RouteInfo
  <2>1. DOMAIN <<RouteInfo>> = {1} /\ <<RouteInfo>>[1] = RouteInfo OBVIOUS
  <2>2. ToSet(<<RouteInfo>>) = {RouteInfo} BY <2>1 DEF ToSet
  <2>3. ToSet(<<>>) = {} BY DEF ToSet
  <2>4. <<>> \in Seq(S) /\ <<RouteInfo>> \in Seq(S) OBVIOUS
  <2> QED BY <2>2, <2>3, <2>4
<1>8. queue \in Seq(S) /\ c \in Seq(S) BY <1>3, <1>6
<1>9. \A m \in C : m # RouteInfo /\ m.kind # "object"
  BY DEF VolumeConfig, MuteConfig, RouteInfo
<1>10. RouteInfo.kind = "info" BY DEF RouteInfo
<1>11. ToSet(c) \subseteq C BY <1>6, OwnSeq
<1>12. \A m : m \in ToSet(c) <=> \/ change.volume /\ m = VolumeConfig(r, routes)
                                 \/ change.mute /\ m = MuteConfig(r, routes)
  BY <1>6 DEF Says
<1> HIDE DEF S, w, c, C, cf
<1>13. w \in Seq(S) /\ ToSet(w) = ToSet(queue) \cup ToSet(i) BY <1>7, <1>8, ToSetJoined DEF w
<1>14. queue' = w \o c BY <1>1 DEF w
<1>15. w \o c \in Seq(S) /\ ToSet(w \o c) = ToSet(w) \cup ToSet(c) BY <1>8, <1>13, ToSetJoined
<1>16. queue' \in Seq(ToSet(queue')) BY <1>14, <1>15, OwnSeq
<1>17. Since(Replay(manager, queue), Replay(manager, w), ToSet(i))
  <2>1. \A y \in ToSet(i) : y.kind # "object" BY <1>7, <1>10
  <2> QED BY <1>3, <1>7, <1>8, <2>1, ReplayJoined DEF w
<1>18. Since(Replay(manager, w), Replay(manager, w \o c), ToSet(c))
  <2>1. \A y \in ToSet(c) : y.kind # "object" BY <1>9, <1>11
  <2> QED BY <1>3, <1>8, <1>13, <2>1, ReplayJoined
<1>19. Since(Replay(manager, queue), Replay(manager, queue'), ToSet(c))
  <2> DEFINE g == Replay(manager, queue)
             f == Replay(manager, w)
  <2> HIDE DEF g, f
  <2>1. f.nodes = g.nodes /\ f.vol = g.vol /\ f.soft = g.soft /\ f.mute = g.mute
    BY <1>7, <1>10, <1>17 DEF Since, g, f
  <2> QED BY <1>14, <1>18, <2>1 DEF Since, g, f
<1>20. \A m : m \in ToSet(c) => m # RouteInfo BY <1>9, <1>11
<1>21. ToBeTold => RouteInfo \in ToSet(queue') BY <1>1, <1>5, <1>7, <1>13, <1>14, <1>15
<1>22. ToSet(queue) \subseteq ToSet(queue') BY <1>13, <1>14, <1>15
<1>23. \E X : /\ Since(Replay(manager, queue), Replay(manager, queue'), X)
              /\ \A m : m \in X /\ m # RouteInfo
                          <=> \/ change.volume /\ m = VolumeConfig(r, routes)
                              \/ change.mute /\ m = MuteConfig(r, routes)
  <2> WITNESS ToSet(c)
  <2> QED BY <1>12, <1>19, <1>20
<1> QED BY <1>3, <1>4, <1>16, <1>21, <1>22, <1>23 DEF change, r

\* A request ends.
LEMMA NoticeFinish ==
  ASSUME NoticeInv, Finish
  PROVE  NoticeInv'
<1>1. /\ bind' = bind /\ profile' = profile /\ manager' = manager /\ unseen' = unseen
      /\ op' = NoRequest
  BY DEF Finish
<1>2. /\ queue' \in Seq(ToSet(queue'))
      /\ ToSet(queue) \subseteq ToSet(queue')
      /\ ToBeTold => RouteInfo \in ToSet(queue')
      /\ \E X : Since(Replay(manager, queue), Replay(manager, queue'), X)
  BY FinishFact
<1>3. Replay(manager, queue') .nodes = Replay(manager, queue).nodes BY <1>2 DEF Since
<1>4. Replay(manager, queue)' = Replay(manager, queue') BY <1>1 DEF Replay
<1>5. NoRequest' = NoRequest /\ RouteInfo' = RouteInfo BY DEF NoRequest, RouteInfo
<1> QED BY <1>1, <1>2, <1>3, <1>4, <1>5 DEF NoticeInv, Heard

\* The host takes a notification, or a listener starts afresh.
LEMMA NoticeHost ==
  ASSUME NoticeInv, HostReads \/ AddListener
  PROVE  NoticeInv'
<1>1. bind' = bind /\ profile' = profile /\ op' = op /\ op = NoRequest
  BY DEF HostReads, AddListener
<1>2. /\ bind \in Bindings /\ profile \in BOOLEAN /\ unseen \in BOOLEAN
      /\ queue \in Seq(ToSet(queue)) /\ Heard(manager)
      /\ unseen => RouteInfo \in ToSet(queue)
      /\ Replay(manager, queue).nodes = profile
  BY <1>1 DEF NoticeInv, ToBeTold, NoRequest
<1>3. NoRequest' = NoRequest /\ RouteInfo' = RouteInfo BY DEF NoRequest, RouteInfo
<1>4. SUFFICES /\ unseen' \in BOOLEAN /\ queue' \in Seq(ToSet(queue')) /\ Heard(manager')
               /\ unseen' => RouteInfo \in ToSet(queue')
               /\ Replay(manager', queue').nodes = profile
  <2>1. Replay(manager, queue)' = Replay(manager', queue') BY DEF Replay
  <2>2. Heard(manager)' = Heard(manager') BY DEF Heard
  <2> QED BY <1>1, <1>2, <1>3, <2>1, <2>2 DEF NoticeInv
<1>5. CASE HostReads
  <2>1. /\ queue # <<>> /\ manager' = Deliver(manager, Head(queue)) /\ queue' = Tail(queue)
        /\ unseen' = (unseen /\ Head(queue).kind # "info")
    BY <1>5 DEF HostReads
  <2>2. Heard(manager') /\ Replay(manager', queue') = Replay(manager, queue)
    BY <1>2, <2>1, ReplayTail
  <2>3. /\ queue' \in Seq(ToSet(queue)) /\ Len(queue) \in Nat \ {0} /\ DOMAIN queue = 1 .. Len(queue)
        /\ DOMAIN queue' = 1 .. (Len(queue) - 1) /\ Head(queue) = queue[1]
        /\ \A i \in 1 .. (Len(queue) - 1) : queue'[i] = queue[i + 1]
    BY <1>2, <2>1
  <2>4. queue' \in Seq(ToSet(queue')) BY <2>3, OwnSeq
  <2>5. ASSUME unseen' PROVE RouteInfo \in ToSet(queue')
    <3>1. unseen /\ Head(queue).kind # "info" BY <2>1, <2>5
    <3>2. PICK i \in 1 .. Len(queue) : queue[i] = RouteInfo BY <1>2, <2>3, <3>1 DEF ToSet
    <3>3. i # 1 BY <2>3, <3>1, <3>2 DEF RouteInfo
    <3>4. i - 1 \in 1 .. (Len(queue) - 1) /\ (i - 1) + 1 = i BY <2>3, <3>2, <3>3
    <3>5. queue'[i - 1] = RouteInfo BY <2>3, <3>2, <3>4
    <3> QED BY <2>3, <3>4, <3>5 DEF ToSet
  <2> QED BY <1>2, <2>1, <2>2, <2>4, <2>5
<1>6. CASE AddListener
  <2>1. /\ manager' = [nodes |-> profile, vol |-> Unset, soft |-> Unset, mute |-> Unset]
        /\ queue' = <<>> /\ unseen' = FALSE
    BY <1>6 DEF AddListener
  <2>2. Heard(manager') /\ manager'.nodes = profile BY <2>1 DEF Heard
  <2>3. queue' \in Seq(ToSet(queue')) BY <2>1
  <2>4. Replay(manager', queue') = manager' BY <2>1, <2>2, <2>3, ReplayAppend
  <2> QED BY <2>1, <2>2, <2>3, <2>4
<1> QED BY <1>5, <1>6

\* A profile that is set: the nodes start afresh.
LEMMA ProfileFact ==
  ASSUME NoticeInv, SetProfile
  PROVE  /\ bind' = bind /\ mixer' = mixer /\ manager' = manager /\ op' = op /\ op = NoRequest
         /\ profile' = ~profile /\ unseen' \in BOOLEAN
         /\ queue' \in Seq(ToSet(queue')) /\ RouteInfo \in ToSet(queue')
         /\ Replay(manager, queue') =
              [nodes |-> profile', vol |-> Unset, soft |-> Unset, mute |-> Unset]
<1>1. PICK rs, quiet : Profiled(rs, quiet) BY DEF SetProfile
<1>2. /\ bind' = bind /\ mixer' = mixer /\ manager' = manager /\ op' = op /\ op = NoRequest
      /\ profile' = ~profile /\ queue' = queue \o <<ObjectInfo(~profile), RouteInfo>>
      /\ unseen' = (unseen \/ RoutePods(rs, ~profile) # RoutePods(routes, profile))
  BY <1>1 DEF Profiled, Shown
<1>3. unseen \in BOOLEAN /\ queue \in Seq(ToSet(queue)) /\ Heard(manager) BY DEF NoticeInv
<1> DEFINE a == ObjectInfo(~profile)
           b == RouteInfo
           S == ToSet(queue) \cup {a, b}
           w == Append(queue, a)
           g == Replay(manager, queue)
<1>4. a.kind = "object" /\ a.on = ~profile /\ b.kind = "info" BY DEF ObjectInfo, RouteInfo
<1> HIDE DEF a, b, g
<1>5. queue \in Seq(S) /\ a \in S /\ b \in S BY <1>3
<1>6. queue' = Append(w, b) /\ w \in Seq(S) /\ queue' \in Seq(S) /\ Len(queue') \in DOMAIN queue'
      /\ queue'[Len(queue')] = b
  <2>1. queue' = queue \o <<a, b>> BY <1>2 DEF a, b
  <2> HIDE DEF S
  <2>2. queue' = Append(w, b) /\ w \in Seq(S) BY <1>5, <2>1
  <2> QED BY <1>5, <2>2
<1>7. Heard(g) /\ Replay(manager, w) = Deliver(g, a) BY <1>3, <1>5, ReplayAppend DEF g
<1>8. Replay(manager, queue') = Deliver(Deliver(g, a), b)
  <2> HIDE DEF w, S
  <2>1. Replay(manager, Append(w, b)) = Deliver(Replay(manager, w), b) BY <1>3, <1>6, ReplayAppend
  <2> QED BY <1>6, <1>7, <2>1
<1>9. Deliver(g, a) = [nodes |-> profile', vol |-> Unset, soft |-> Unset, mute |-> Unset]
  BY <1>2, <1>4 DEF Deliver
<1>10. \A h : Deliver(h, b) = h BY <1>4 DEF Deliver
<1>11. RouteInfo \in ToSet(queue') BY <1>6 DEF ToSet, b
<1>12. queue' \in Seq(ToSet(queue')) BY <1>6, OwnSeq
<1>13. unseen' \in BOOLEAN BY <1>2, <1>3
<1> QED BY <1>2, <1>8, <1>9, <1>10, <1>11, <1>12, <1>13

\* A profile is set, as a step of the invariant.
LEMMA NoticeProfile ==
  ASSUME NoticeInv, SetProfile
  PROVE  NoticeInv'
<1>1. /\ bind' = bind /\ mixer' = mixer /\ manager' = manager /\ op' = op /\ op = NoRequest
      /\ profile' = ~profile /\ unseen' \in BOOLEAN
      /\ queue' \in Seq(ToSet(queue')) /\ RouteInfo \in ToSet(queue')
      /\ Replay(manager, queue') =
           [nodes |-> profile', vol |-> Unset, soft |-> Unset, mute |-> Unset]
  BY ProfileFact
<1>2. Replay(manager, queue)' = Replay(manager, queue') BY <1>1 DEF Replay
<1>3. NoRequest' = NoRequest /\ RouteInfo' = RouteInfo BY DEF NoRequest, RouteInfo
<1>4. Replay(manager, queue)'.nodes = profile' BY <1>1, <1>2
<1> QED BY <1>1, <1>3, <1>4 DEF NoticeInv, Heard

\* A poll: its news are of active routes, and none replaces the nodes.
LEMMA PollFact ==
  ASSUME RouteInv, NoticeInv, poll_routes
  PROVE  /\ bind' = bind /\ mixer' = mixer /\ manager' = manager /\ op' = op /\ op = NoRequest
         /\ profile /\ profile' = TRUE /\ routes' = refresh_all(routes)
         /\ queue' = poll(routes).news /\ queue' \in Seq(ToSet(queue'))
         /\ unseen' \in BOOLEAN /\ (unseen' => RouteInfo \in ToSet(queue'))
         /\ Replay(manager, queue) = manager
         /\ Since(manager, Replay(manager, queue'), ToSet(queue'))
<1>1. /\ bind' = bind /\ mixer' = mixer /\ manager' = manager /\ op' = op /\ op = NoRequest
      /\ profile /\ profile' = TRUE /\ routes' = refresh_all(routes) /\ queue = <<>>
      /\ queue' = poll(routes).news
      /\ unseen' = (unseen \/ RoutePods(routes', TRUE) # RoutePods(routes, profile))
  BY DEF poll_routes, Shown, poll
<1>2. /\ bind \in Bindings /\ profile \in BOOLEAN /\ unseen \in BOOLEAN /\ Heard(manager)
      /\ unseen => RouteInfo \in ToSet(<<>>)
  BY <1>1 DEF NoticeInv, ToBeTold, NoRequest
<1>3. unseen = FALSE BY <1>2 DEF ToSet
<1>4. AreRoutes(routes) /\ IsMixer(mixer) /\ IsFiniteSet(DOMAIN bind)
  BY <1>2, RoutesAssumption DEF RouteInv
<1>5. AreRoutes(routes') BY <1>1, <1>4, RefreshFact
<1>6. /\ queue' \in Seq(ToSet(queue'))
      /\ RouteInfo \notin ToSet(queue') =>
           \A r \in DOMAIN bind : /\ routes'[r].active = routes[r].active
                                  /\ routes'[r].active => routes'[r] = routes[r]
      /\ \A m \in ToSet(queue') : \/ m = RouteInfo
                                  \/ \E r \in DOMAIN bind :
                                       m \in {VolumeConfig(r, routes'), MuteConfig(r, routes')}
  BY <1>1, <1>4, NewsFact
<1>7. ASSUME unseen' PROVE RouteInfo \in ToSet(queue')
  <2> SUFFICES ASSUME RouteInfo \notin ToSet(queue') PROVE FALSE OBVIOUS
  <2>1. RoutePods(routes', TRUE) = RoutePods(routes, TRUE) BY <1>4, <1>5, <1>6, PodsSame
  <2>2. profile = TRUE BY <1>1, <1>2
  <2> QED BY <1>1, <1>3, <1>7, <2>1, <2>2
<1>8. \A y \in ToSet(queue') : y.kind # "object"
  BY <1>6 DEF VolumeConfig, MuteConfig, RouteInfo
<1>9. PICK z : z = queue' OBVIOUS
<1>10. z \in Seq(ToSet(z)) /\ <<>> \in Seq(ToSet(z)) /\ <<>> \o z = z BY <1>6, <1>9
<1>11. Since(Replay(manager, <<>>), Replay(manager, <<>> \o z), ToSet(z))
  BY <1>2, <1>8, <1>9, <1>10, ReplayJoined
<1>12. Replay(manager, <<>>) = manager BY <1>2, <1>10, ReplayAppend
<1>13. unseen' \in BOOLEAN BY <1>1, <1>2
<1> QED BY <1>1, <1>6, <1>7, <1>9, <1>10, <1>11, <1>12, <1>13

\* A poll, as a step of the invariant.
LEMMA NoticePoll ==
  ASSUME RouteInv, NoticeInv, poll_routes
  PROVE  NoticeInv'
<1>1. /\ bind' = bind /\ manager' = manager /\ op' = op /\ op = NoRequest
      /\ profile /\ profile' = TRUE /\ queue' \in Seq(ToSet(queue'))
      /\ unseen' \in BOOLEAN /\ (unseen' => RouteInfo \in ToSet(queue'))
      /\ Replay(manager, queue) = manager
      /\ Since(manager, Replay(manager, queue'), ToSet(queue'))
  BY PollFact
<1>2. Replay(manager, queue)' = Replay(manager, queue') BY <1>1 DEF Replay
<1>3. Replay(manager, queue').nodes = Replay(manager, queue).nodes BY <1>1 DEF Since
<1>4. profile' = profile /\ Replay(manager, queue).nodes = profile BY <1>1 DEF NoticeInv
<1>5. NoRequest' = NoRequest /\ RouteInfo' = RouteInfo BY DEF NoRequest, RouteInfo
<1> QED BY <1>1, <1>2, <1>3, <1>4, <1>5 DEF NoticeInv, Heard

\* Every step keeps the notices in order.
LEMMA NoticeKeeps ==
  ASSUME RouteInv, NoticeInv, [DeviceNext]_deviceVars
  PROVE  NoticeInv'
<1>1. CASE External \/ UNCHANGED deviceVars
  <2>1. /\ bind' = bind /\ queue' = queue /\ manager' = manager /\ profile' = profile
        /\ op' = op /\ unseen' = unseen /\ routes' = routes
    BY <1>1 DEF External, deviceVars
  <2>2. /\ unseen \in BOOLEAN /\ (op = NoRequest \/ IsRequest(op))
        /\ (unseen => RouteInfo \in ToSet(queue) \/ ToBeTold)
    BY DEF NoticeInv
  <2>3. IsRequest(op)' = IsRequest(op) /\ ToBeTold' = ToBeTold BY <2>1 DEF IsRequest, ToBeTold
  <2> QED BY <2>1, <2>2, <2>3, NoticeStays
<1> QED BY <1>1, NoticeSetRoute, NoticeWrite, NoticeFinish, NoticeHost, NoticeProfile, NoticePoll
    DEF DeviceNext, HostCall

\* Between requests, what the Route params show and the host has not read is
\* announced by a queued info, and once the queue is delivered the host holds
\* the nodes of the profile (device/params.rs, events.rs, watch.rs), for every
\* route table, level range, kernel and number of queued notifications.
THEOREM HostStaysInSync == DeviceSpec => []HostInSync
<1>1. DeviceInit => RouteInv /\ NoticeInv BY RouteInit, NoticeInit
<1>2. RouteInv /\ NoticeInv /\ [DeviceNext]_deviceVars => (RouteInv /\ NoticeInv)'
  BY RouteKeeps, NoticeKeeps
<1>3. NoticeInv => HostInSync
  <2>1. Replayed = Replay(manager, queue) BY DEF Replayed, Replay
  <2> QED BY <2>1 DEF NoticeInv, HostInSync, ToBeTold, NoRequest
<1> QED BY <1>1, <1>2, <1>3, PTL DEF DeviceSpec

-----------------------------------------------------------------------------
(* The node behind the active route, where one source is recorded at a     *)
(* time.                                                                   *)

\* Which routes are selected by the sources a kernel accepts.
LEMMA OneSelected ==
  ASSUME OneAtATime, bind \in Bindings, NEW src \in Masks(Sources(bind)) \cup {{}}
  PROVE  \A q, r \in DOMAIN bind : Selected(q, src) /\ Selected(r, src) => q = r
<1>1. \A q \in DOMAIN bind : Selected(q, src) => bind[q].source \in src \cup {None} BY DEF Selected
<1> QED BY <1>1 DEF OneAtATime

\* Nothing has been pushed to a new node.
LEMMA NodeInit ==
  ASSUME OneAtATime, DeviceInit
  PROVE  NodeInv
<1>1. /\ bind \in Bindings /\ queue = <<>> /\ op = NoRequest
      /\ manager = [nodes |-> TRUE, vol |-> Unset, soft |-> Unset, mute |-> Unset]
  BY DEF DeviceInit, Probed
<1>2. PICK s \in IF Sources(bind) = {} THEN {{}} ELSE Masks(Sources(bind)) :
        mixer = [lv |-> [c \in Controls(bind) |-> 0], mu |-> {}, src |-> s]
  BY DEF DeviceInit, Probed
<1>3. mixer.src = s /\ s \in Masks(Sources(bind)) \cup {{}} BY <1>2
<1>4. \A q, r \in DOMAIN bind : Selected(q, mixer.src) /\ Selected(r, mixer.src) => q = r
  BY <1>1, <1>3, OneSelected
<1>5. \A q \in DOMAIN bind : routes[q].active = Selected(q, mixer.src) BY DEF DeviceInit, Probed
<1>6. Heard(manager) /\ <<>> \in Seq({}) BY <1>1 DEF Heard
<1>7. Replay(manager, queue) = manager BY <1>1, <1>6, ReplayAppend
<1>8. \A r : Carries(Replay(manager, queue), r) BY <1>1, <1>7 DEF Carries
<1> QED BY <1>4, <1>5, <1>8 DEF NodeInv

(* The last part of NodeInv.                                               *)
NodeCarries ==
  profile /\ (op.pc = "write" => op.selected = None) =>
    \A r \in DOMAIN bind : routes[r].active /\ Hardware(r) => Carries(Replay(manager, queue), r)

\* A step that keeps which routes are active and recorded.
LEMMA NodeFrom ==
  ASSUME NodeInv, bind' = bind, mixer'.src = mixer.src,
         \A r \in DOMAIN bind : routes'[r].active = routes[r].active,
         NodeCarries'
  PROVE  NodeInv'
BY DEF NodeInv, NodeCarries, Selected

\* A request begins.
LEMMA NodeSetRoute ==
  ASSUME OneAtATime, RouteInv, NoticeInv, NodeInv, SetRoute
  PROVE  NodeInv'
<1>1. /\ bind' = bind /\ queue' = queue /\ manager' = manager /\ profile' = profile
      /\ op = NoRequest
  BY DEF SetRoute, SelectUnchanged, SelectFails, SelectSource
<1>2. op.pc = "idle" /\ bind \in Bindings BY <1>1 DEF NoRequest, NoticeInv
<1>3. None \notin DOMAIN bind /\ AreRoutes(routes) /\ IsMixer(mixer)
  BY <1>2, RoutesAssumption DEF RouteInv
<1>4. Replay(manager, queue)' = Replay(manager, queue) BY <1>1 DEF Replay
<1>5. PICK r \in DOMAIN bind : SelectUnchanged(r) \/ SelectFails(r) \/ SelectSource(r)
  BY DEF SetRoute
<1>6. CASE SelectUnchanged(r) \/ SelectFails(r)
  <2>1. /\ mixer' = mixer /\ routes' = routes
        /\ \E s \in {"unchanged", "failed"} : op' = Request(r, s, None)
    BY <1>6 DEF SelectUnchanged, SelectFails
  <2>2. ASSUME profile, NEW q \in DOMAIN bind, routes[q].active, Hardware(q)
        PROVE  Carries(Replay(manager, queue), q)'
    <3>1. Carries(Replay(manager, queue), q) BY <1>2, <2>2 DEF NodeInv
    <3> QED BY <1>2, <1>4, <2>1, <3>1 DEF Carries
  <2>3. NodeCarries' BY <1>1, <2>1, <2>2 DEF NodeCarries, Hardware
  <2> QED BY <1>1, <2>1, <2>3, NodeFrom
<1>7. CASE SelectSource(r)
  <2>1. PICK src \in Masks(Sources(bind)) :
          LET now   == sync_source_routes(routes, src)
              other == {q \in DOMAIN now : now[q].active /\ bind[q].source # None}
          IN  /\ mixer' = [mixer EXCEPT !.src = src]
              /\ routes' = now
              /\ \E q \in IF now[r].active THEN {r} ELSE other :
                   op' = Request(r, IF q = r THEN "applied" ELSE "deflected", q)
    BY <1>7 DEF SelectSource
  <2>2. \A q \in DOMAIN bind : routes'[q].active = Selected(q, src)
    BY <1>3, <2>1, SyncFact
  <2>3. \A q, p \in DOMAIN bind : Selected(q, src) /\ Selected(p, src) => q = p
    BY <1>2, OneSelected
  <2>4. mixer'.src = src BY <1>3, <2>1 DEF IsMixer
  <2>5. DOMAIN sync_source_routes(routes, src) = DOMAIN bind
    BY <1>3 DEF sync_source_routes, AreRoutes
  <2>6. PICK q \in DOMAIN bind :
          op' = Request(r, IF q = r THEN "applied" ELSE "deflected", q)
    BY <2>1, <2>5
  <2>7. op'.pc = "write" /\ op'.selected # None BY <1>3, <2>6 DEF Request
  <2> QED BY <1>1, <2>2, <2>3, <2>4, <2>7 DEF NodeInv, Selected
<1> QED BY <1>5, <1>6, <1>7

\* A value of a request.
LEMMA NodeWrite ==
  ASSUME RouteInv, NoticeInv, NodeInv, Write
  PROVE  NodeInv'
<1>1. bind' = bind /\ queue' = queue /\ manager' = manager /\ op.pc = "write" BY DEF Write
<1>2. op # NoRequest BY <1>1 DEF NoRequest
<1>3. IsRequest(op) /\ AreRoutes(routes) /\ IsMixer(mixer) BY <1>2 DEF NoticeInv, RouteInv
<1> DEFINE p == op.pos
<1>4. p \in DOMAIN bind /\ op.volume \in BOOLEAN /\ op.mute \in BOOLEAN BY <1>3 DEF IsRequest
<1>5. PICK x \in Writes : \/ WriteSame(p, x) \/ WriteSoft(p, x)
                          \/ WriteFails(p, x) \/ WriteHardware(p, x)
  BY DEF Write
<1>6. x.what \in {"mute", "volume"} BY DEF Writes
<1>7. PICK done \in BOOLEAN :
        /\ op' = Flagged(x, done) /\ profile' = profile /\ mixer'.src = mixer.src
        /\ ~done => routes' = routes
        /\ done => routes' = Shadowed(p, x)
  <2>1. CASE WriteSame(p, x) \/ WriteFails(p, x)
    <3>1. op' = Flagged(x, FALSE) /\ profile' = profile /\ routes' = routes /\ mixer' = mixer
      BY <2>1 DEF WriteSame, WriteFails
    <3> QED BY <3>1
  <2>2. CASE WriteSoft(p, x)
    <3>1. op' = Flagged(x, TRUE) /\ Shown(Shadowed(p, x), profile) /\ mixer' = mixer
      BY <2>2 DEF WriteSoft
    <3> QED BY <3>1 DEF Shown
  <2>3. CASE WriteHardware(p, x)
    <3>1. op' = Flagged(x, TRUE) /\ Shown(Shadowed(p, x), profile)
          /\ mixer' = Written(bind[p].control, x)
      BY <2>3 DEF WriteHardware
    <3>2. mixer'.src = mixer.src BY <1>3, <3>1 DEF Written, IsMixer
    <3> QED BY <3>1, <3>2 DEF Shown
  <2> QED BY <1>5, <2>1, <2>2, <2>3
<1> HIDE DEF p
<1>8. /\ op'.pc = "write" /\ op'.pos = p /\ op'.selected = op.selected
      /\ op'.volume = (op.volume \/ (done /\ x.what = "volume"))
      /\ op'.mute = (op.mute \/ (done /\ x.what = "mute"))
  <2> DEFINE y == Flagged(x, done)
  <2>1. /\ y = [pc |-> "write", pos |-> p, selection |-> op.selection,
                selected |-> op.selected, left |-> y.left, volume |-> y.volume,
                mute |-> y.mute]
        /\ y.volume = (op.volume \/ (done /\ x.what = "volume"))
        /\ y.mute = (op.mute \/ (done /\ x.what = "mute"))
    BY <1>3, FlaggedFact DEF p
  <2> HIDE DEF y
  <2>2. y.pc = "write" /\ y.pos = p /\ y.selected = op.selected BY <2>1
  <2> QED BY <1>7, <2>1, <2>2 DEF y
<1>9. \A q \in DOMAIN bind :
        /\ routes'[q].active = routes[q].active
        /\ q # p \/ ~done \/ x.what = "mute" => routes'[q].vol = routes[q].vol
        /\ q # p \/ ~done \/ x.what # "mute" => routes'[q].mute = routes[q].mute
  <2> DEFINE sh == Shadowed(p, x)
  <2>1. /\ \A q \in DOMAIN bind : q # p => sh[q] = routes[q]
        /\ sh[p].active = routes[p].active
        /\ x.what = "mute" => sh[p].vol = routes[p].vol
        /\ x.what # "mute" => sh[p].mute = routes[p].mute
    BY <1>3, <1>4, ShadowFact
  <2> HIDE DEF sh
  <2>2. CASE done BY <1>7, <2>1, <2>2 DEF sh
  <2>3. CASE ~done BY <1>7, <2>3
  <2> QED BY <2>2, <2>3
<1>10. Replay(manager, queue)' = Replay(manager, queue) BY <1>1 DEF Replay
<1>11. ASSUME profile, op.selected = None, NEW q \in DOMAIN bind, routes[q].active, Hardware(q)
       PROVE  Carries(Replay(manager, queue), q)'
  <2> DEFINE g == Replay(manager, queue)
  <2>1. Carries(g, q) BY <1>11 DEF NodeInv
  <2> HIDE DEF g
  <2>2. g.soft \in {Unset, Unity} BY <2>1 DEF Carries
  <2>3. g.vol \in {Unset, routes'[q].vol} \/ (op'.pc = "write" /\ op'.pos = q /\ op'.volume)
    <3>1. CASE q # p \/ ~done \/ x.what = "mute" BY <1>8, <1>9, <2>1, <3>1 DEF Carries, p
    <3>2. CASE q = p /\ done /\ x.what # "mute" BY <1>6, <1>8, <3>2
    <3> QED BY <3>1, <3>2
  <2>4. g.mute \in {Unset, routes'[q].mute} \/ (op'.pc = "write" /\ op'.pos = q /\ op'.mute)
    <3>1. CASE q # p \/ ~done \/ x.what # "mute" BY <1>8, <1>9, <2>1, <3>1 DEF Carries, p
    <3>2. CASE q = p /\ done /\ x.what = "mute" BY <1>8, <3>2
    <3> QED BY <3>1, <3>2
  <2> QED BY <1>10, <2>2, <2>3, <2>4 DEF Carries, g
<1>12. NodeCarries' BY <1>1, <1>7, <1>8, <1>9, <1>11 DEF NodeCarries, Hardware
<1> QED BY <1>1, <1>7, <1>9, <1>12, NodeFrom

\* A request ends: the selected route is announced with its hardware state.
LEMMA NodeFinish ==
  ASSUME NoticeInv, NodeInv, Finish
  PROVE  NodeInv'
<1>1. /\ bind' = bind /\ mixer' = mixer /\ routes' = routes /\ profile' = profile
      /\ manager' = manager /\ op' = NoRequest /\ op.pc = "write"
  BY DEF Finish
<1> DEFINE change == selection_notification_flags
           r == IF op.selected = None THEN op.pos ELSE op.selected
           g == Replay(manager, queue)
           f == Replay(manager, queue')
<1>2. /\ IsRequest(op) /\ r \in DOMAIN bind
      /\ \E X : /\ Since(g, f, X)
                /\ \A m : m \in X /\ m # RouteInfo
                            <=> \/ change.volume /\ m = VolumeConfig(r, routes)
                                \/ change.mute /\ m = MuteConfig(r, routes)
  BY FinishFact
<1>3. None \notin DOMAIN bind
  <2>1. bind \in Bindings BY DEF NoticeInv
  <2> QED BY <2>1, RoutesAssumption
<1>4. op.selected # None => routes[op.selected].active BY <1>2 DEF IsRequest
<1>5. op.selected # None /\ Hardware(r) => change.volume /\ change.mute
  <2>1. CASE op.selected = op.pos /\ op.selected # None
    BY <2>1 DEF selection_notification_flags
  <2>2. CASE op.selected # op.pos /\ op.selected # None
    BY <2>2 DEF selection_notification_flags
  <2> QED BY <2>1, <2>2
<1>6. op.selected = None => /\ change.volume <=> op.volume /\ routes[op.pos].active
                            /\ change.mute <=> op.mute /\ routes[op.pos].active
  <2> SUFFICES ASSUME op.selected = None
               PROVE  /\ change.volume <=> op.volume /\ routes[op.pos].active
                      /\ change.mute <=> op.mute /\ routes[op.pos].active
    OBVIOUS
  <2>1. op.selected # op.pos BY <1>2, <1>3 DEF IsRequest
  <2> QED BY <2>1 DEF selection_notification_flags
<1> HIDE DEF change, g, f
<1>7. PICK X : /\ Since(g, f, X)
               /\ \A m : m \in X /\ m # RouteInfo
                           <=> \/ change.volume /\ m = VolumeConfig(r, routes)
                               \/ change.mute /\ m = MuteConfig(r, routes)
  BY <1>2
<1>8. /\ VolumeConfig(r, routes).kind = "volume" /\ MuteConfig(r, routes).kind = "mute"
      /\ RouteInfo.kind = "info" /\ VolumeConfig(r, routes).vol = routes[r].vol
      /\ Hardware(r) => VolumeConfig(r, routes).soft = Unity
      /\ MuteConfig(r, routes).mute = routes[r].mute
  BY DEF VolumeConfig, MuteConfig, RouteInfo
<1> HIDE DEF r
<1>9. \/ f.vol = g.vol /\ f.soft = g.soft /\ ~change.volume
      \/ change.volume /\ f.vol = routes[r].vol /\ (Hardware(r) => f.soft = Unity)
  BY <1>7, <1>8 DEF Since
<1>10. \/ f.mute = g.mute /\ ~change.mute
       \/ change.mute /\ f.mute = routes[r].mute
  BY <1>7, <1>8 DEF Since
<1>11. ASSUME profile, NEW q \in DOMAIN bind, routes[q].active, Hardware(q)
       PROVE  f.soft \in {Unset, Unity} /\ f.vol \in {Unset, routes[q].vol}
              /\ f.mute \in {Unset, routes[q].mute}
  <2>1. \A y \in DOMAIN bind : routes[y].active => y = q BY <1>11 DEF NodeInv
  <2>2. CASE op.selected # None
    <3>1. r = q BY <1>2, <1>4, <2>1, <2>2 DEF r
    <3> QED BY <1>5, <1>9, <1>10, <1>11, <2>2, <3>1
  <2>3. CASE op.selected = None
    <3>1. Carries(g, q) BY <1>11, <2>3 DEF NodeInv, g
    <3>2. r = op.pos BY <2>3 DEF r
    <3>3. change.volume \/ change.mute => r = q BY <1>2, <1>6, <2>1, <2>3, <3>2
    <3>4. r = q => (change.volume <=> op.volume) /\ (change.mute <=> op.mute)
      BY <1>6, <1>11, <2>3, <3>2
    <3>5. f.soft \in {Unset, Unity} BY <1>9, <1>11, <3>1, <3>3 DEF Carries
    <3>6. f.vol \in {Unset, routes[q].vol}
      BY <1>9, <3>1, <3>2, <3>3, <3>4 DEF Carries
    <3>7. f.mute \in {Unset, routes[q].mute}
      BY <1>10, <3>1, <3>2, <3>3, <3>4 DEF Carries
    <3> QED BY <3>5, <3>6, <3>7
  <2> QED BY <2>2, <2>3
<1>12. Replay(manager, queue)' = f BY <1>1 DEF Replay, f
<1>13. NodeCarries' BY <1>1, <1>11, <1>12 DEF NodeCarries, Carries, Hardware
<1> QED BY <1>1, <1>13, NodeFrom

\* The host takes a notification, a listener starts afresh, a profile is set.
LEMMA NodeHost ==
  ASSUME RouteInv, NoticeInv, NodeInv, HostReads \/ AddListener
  PROVE  NodeInv'
<1>1. bind' = bind /\ mixer' = mixer /\ routes' = routes /\ profile' = profile /\ op' = op
  BY DEF HostReads, AddListener
<1>2. queue \in Seq(ToSet(queue)) /\ Heard(manager) BY DEF NoticeInv
<1>3. CASE HostReads
  <2>1. queue # <<>> /\ manager' = Deliver(manager, Head(queue)) /\ queue' = Tail(queue)
    BY <1>3 DEF HostReads
  <2>2. Replay(manager', queue') = Replay(manager, queue) BY <1>2, <2>1, ReplayTail
  <2>3. Replay(manager, queue)' = Replay(manager, queue) BY <2>2 DEF Replay
  <2>4. \A r : Carries(Replay(manager, queue), r)' <=> Carries(Replay(manager, queue), r)
    BY <1>1, <2>3 DEF Carries
  <2>5. NodeCarries' BY <1>1, <2>4 DEF NodeCarries, NodeInv, Hardware
  <2> QED BY <1>1, <2>5, NodeFrom
<1>4. CASE AddListener
  <2>1. /\ manager' = [nodes |-> profile, vol |-> Unset, soft |-> Unset, mute |-> Unset]
        /\ queue' = <<>>
    BY <1>4 DEF AddListener
  <2>2. Heard(manager') /\ <<>> \in Seq({}) BY <2>1 DEF Heard
  <2>3. Replay(manager', queue') = manager' BY <2>1, <2>2, ReplayAppend
  <2>4. Replay(manager, queue)' = manager' BY <2>3 DEF Replay
  <2>5. \A r : Carries(Replay(manager, queue), r)' BY <2>1, <2>4 DEF Carries
  <2>6. NodeCarries' BY <1>1, <2>5 DEF NodeCarries
  <2> QED BY <1>1, <2>6, NodeFrom
<1> QED BY <1>3, <1>4

\* A profile is set: its node has been told nothing yet.
LEMMA NodeProfile ==
  ASSUME RouteInv, NoticeInv, NodeInv, SetProfile
  PROVE  NodeInv'
<1>1. /\ bind' = bind /\ mixer' = mixer /\ manager' = manager
      /\ Replay(manager, queue') =
           [nodes |-> profile', vol |-> Unset, soft |-> Unset, mute |-> Unset]
  BY ProfileFact
<1>2. Replay(manager, queue)' = Replay(manager, queue') BY <1>1 DEF Replay
<1>3. \A r : Carries(Replay(manager, queue), r)' BY <1>1, <1>2 DEF Carries
<1>4. AreRoutes(routes) /\ IsMixer(mixer) BY DEF RouteInv
<1>5. routes' = routes \/ routes' = refresh_all(routes) BY DEF SetProfile, Profiled, Shown
<1>6. \A q, r \in DOMAIN bind : routes'[q].active /\ routes'[r].active => q = r
  <2>1. CASE routes' = routes BY <2>1 DEF NodeInv
  <2>2. CASE routes' = refresh_all(routes)
    <3>1. \A q \in DOMAIN bind : routes'[q].active = Selected(q, mixer.src)
      BY <1>4, <2>2, RefreshFact DEF Agrees
    <3> QED BY <3>1 DEF NodeInv
  <2> QED BY <1>5, <2>1, <2>2
<1> QED BY <1>1, <1>3, <1>6 DEF NodeInv, Selected

\* A poll: all that is new of the active route is announced.
LEMMA NodePoll ==
  ASSUME RouteInv, NoticeInv, NodeInv, poll_routes
  PROVE  NodeInv'
<1>1. /\ bind' = bind /\ mixer' = mixer /\ manager' = manager /\ op' = op /\ op = NoRequest
      /\ profile /\ routes' = refresh_all(routes) /\ queue' = poll(routes).news
      /\ Replay(manager, queue) = manager
      /\ Since(manager, Replay(manager, queue'), ToSet(queue'))
  BY PollFact
<1>2. /\ AreRoutes(routes) /\ IsMixer(mixer) /\ IsFiniteSet(DOMAIN bind)
      /\ op.pc = "idle"
  BY <1>1, RoutesAssumption DEF RouteInv, NoticeInv, NoRequest
<1>3. /\ \A m \in ToSet(queue') :
           \/ m = RouteInfo
           \/ \E r \in DOMAIN bind : /\ routes'[r].active
                                     /\ m \in {VolumeConfig(r, routes'), MuteConfig(r, routes')}
      /\ \A r \in DOMAIN bind : routes'[r].active /\ Hardware(r) =>
           /\ VolumeConfig(r, routes') \in ToSet(queue')
                \/ (routes[r].active /\ routes'[r].vol = routes[r].vol)
           /\ MuteConfig(r, routes') \in ToSet(queue')
                \/ (routes[r].active /\ routes'[r].mute = routes[r].mute)
  BY <1>1, <1>2, NewsFact
<1>4. \A q \in DOMAIN bind : routes'[q].active = Selected(q, mixer.src)
  BY <1>1, <1>2, RefreshFact DEF Agrees
<1>5. \A q, r \in DOMAIN bind : routes'[q].active /\ routes'[r].active => q = r
  BY <1>4 DEF NodeInv
<1> DEFINE f == Replay(manager, queue')
<1>6. ASSUME NEW r \in DOMAIN bind, routes'[r].active, Hardware(r)
      PROVE  f.soft \in {Unset, Unity} /\ f.vol \in {Unset, routes'[r].vol}
             /\ f.mute \in {Unset, routes'[r].mute}
  <2> DEFINE v == VolumeConfig(r, routes')
             w == MuteConfig(r, routes')
  <2>1. /\ v.kind = "volume" /\ w.kind = "mute" /\ RouteInfo.kind = "info"
        /\ v.vol = routes'[r].vol /\ v.soft = Unity /\ w.mute = routes'[r].mute
    BY <1>6 DEF VolumeConfig, MuteConfig, RouteInfo
  <2>2. \A m \in ToSet(queue') : m \in {RouteInfo, v, w} BY <1>3, <1>5, <1>6
  <2>3. /\ v \in ToSet(queue') \/ (routes[r].active /\ routes'[r].vol = routes[r].vol)
        /\ w \in ToSet(queue') \/ (routes[r].active /\ routes'[r].mute = routes[r].mute)
    BY <1>3, <1>6
  <2>4. routes[r].active => Carries(manager, r) BY <1>1, <1>2, <1>6 DEF NodeInv
  <2>5. routes[r].active => /\ manager.soft \in {Unset, Unity}
                            /\ manager.vol \in {Unset, routes[r].vol}
                            /\ manager.mute \in {Unset, routes[r].mute}
    BY <1>2, <2>4 DEF Carries
  <2> HIDE DEF v, w, f
  <2>6. /\ \/ f.vol = manager.vol /\ f.soft = manager.soft
                /\ \A y \in ToSet(queue') : y.kind # "volume"
           \/ \E y \in ToSet(queue') : y.kind = "volume" /\ f.vol = y.vol /\ f.soft = y.soft
        /\ \/ f.mute = manager.mute /\ \A y \in ToSet(queue') : y.kind # "mute"
           \/ \E y \in ToSet(queue') : y.kind = "mute" /\ f.mute = y.mute
    BY <1>1 DEF Since, f
  <2>7. f.soft \in {Unset, Unity} /\ f.vol \in {Unset, routes'[r].vol}
    BY <2>1, <2>2, <2>3, <2>5, <2>6
  <2>8. f.mute \in {Unset, routes'[r].mute} BY <2>1, <2>2, <2>3, <2>5, <2>6
  <2> QED BY <2>7, <2>8
<1>7. Replay(manager, queue)' = f BY <1>1 DEF Replay
<1> HIDE DEF f
<1>8. ASSUME NEW r \in DOMAIN bind, routes'[r].active, Hardware(r)
      PROVE  Carries(Replay(manager, queue), r)'
  <2>1. f.soft \in {Unset, Unity} /\ f.vol \in {Unset, routes'[r].vol}
        /\ f.mute \in {Unset, routes'[r].mute}
    BY <1>6, <1>8
  <2> QED BY <1>7, <2>1 DEF Carries
<1> QED BY <1>1, <1>5, <1>8 DEF NodeInv, Selected, Hardware

\* Another process changes the mixer.
LEMMA NodeExternal ==
  ASSUME OneAtATime, RouteInv, NoticeInv, NodeInv, External
  PROVE  NodeInv'
<1>1. /\ bind' = bind /\ routes' = routes /\ profile' = profile /\ queue' = queue
      /\ manager' = manager /\ op' = op
  BY DEF External
<1>2. bind \in Bindings /\ IsMixer(mixer) BY DEF NoticeInv, RouteInv
<1>3. mixer'.src = mixer.src \/ mixer'.src \in Masks(Sources(bind))
  <2>1. mixer = [lv |-> mixer.lv, mu |-> mixer.mu, src |-> mixer.src] BY <1>2 DEF IsMixer
  <2>2. CASE \E c, l : mixer' = [mixer EXCEPT !.lv[c] = l]
    <3>1. PICK c, l : mixer' = [mixer EXCEPT !.lv[c] = l] BY <2>2
    <3> QED BY <2>1, <3>1
  <2>3. CASE \E y : mixer' = [mixer EXCEPT !.mu = y] BY <2>1, <2>3
  <2>4. CASE \E y \in Masks(Sources(bind)) : mixer' = [mixer EXCEPT !.src = y] BY <2>1, <2>4
  <2>5. \/ \E c \in Controls(bind), l \in 0 .. Levels : mixer' = [mixer EXCEPT !.lv[c] = l]
        \/ \E y \in SUBSET Controls(bind) : mixer' = [mixer EXCEPT !.mu = y]
        \/ \E y \in Masks(Sources(bind)) : mixer' = [mixer EXCEPT !.src = y]
    BY DEF External
  <2> QED BY <2>2, <2>3, <2>4, <2>5
<1>4. \A q, r \in DOMAIN bind : Selected(q, mixer'.src) /\ Selected(r, mixer'.src) => q = r
  <2>1. CASE mixer'.src = mixer.src BY <2>1 DEF NodeInv
  <2>2. CASE mixer'.src \in Masks(Sources(bind)) BY <1>2, <2>2, OneSelected
  <2> QED BY <1>3, <2>1, <2>2
<1>5. Replay(manager, queue)' = Replay(manager, queue) BY <1>1 DEF Replay
<1>6. \A r : Carries(Replay(manager, queue), r)' <=> Carries(Replay(manager, queue), r)
  BY <1>1, <1>5 DEF Carries
<1> QED BY <1>1, <1>4, <1>6 DEF NodeInv, Selected, Hardware

\* Every step keeps the node's values.
LEMMA NodeKeeps ==
  ASSUME OneAtATime, RouteInv, NoticeInv, NodeInv, [DeviceNext]_deviceVars
  PROVE  NodeInv'
<1>1. CASE UNCHANGED deviceVars
  <2>1. /\ bind' = bind /\ queue' = queue /\ manager' = manager /\ profile' = profile
        /\ op' = op /\ mixer' = mixer /\ routes' = routes
    BY <1>1 DEF deviceVars
  <2>2. Replay(manager, queue)' = Replay(manager, queue) BY <2>1 DEF Replay
  <2>3. \A r : Carries(Replay(manager, queue), r)' <=> Carries(Replay(manager, queue), r)
    BY <2>1, <2>2 DEF Carries
  <2> QED BY <2>1, <2>3 DEF NodeInv, Selected, Hardware
<1> QED BY <1>1, NodeSetRoute, NodeWrite, NodeFinish, NodeHost, NodeProfile, NodePoll, NodeExternal
    DEF DeviceNext, HostCall

\* Where the kernel records from one source at a time, the node behind an active
\* hardware route carries that route's volume and mute once the queue is
\* delivered, and leaves its software volume at unity: audio is not attenuated
\* twice (mixer.rs poll, apply, selection_notification_flags), for every route
\* table, level range and number of queued notifications.
THEOREM NodeCarriesRoute == OneAtATime => (DeviceSpec => []NodeFollowsRoute)
<1> SUFFICES ASSUME OneAtATime PROVE DeviceSpec => []NodeFollowsRoute OBVIOUS
<1>1. DeviceInit => RouteInv /\ NoticeInv /\ NodeInv BY RouteInit, NoticeInit, NodeInit
<1>2. RouteInv /\ NoticeInv /\ NodeInv /\ [DeviceNext]_deviceVars
        => (RouteInv /\ NoticeInv /\ NodeInv)'
  BY RouteKeeps, NoticeKeeps, NodeKeeps
<1>3. NodeInv => NodeFollowsRoute
  <2>1. Replayed = Replay(manager, queue) BY DEF Replayed, Replay
  <2> SUFFICES ASSUME NodeInv, op = NoRequest, profile, NEW r \in Active, Hardware(r)
               PROVE  /\ Replayed.soft \in {Unset, Unity}
                      /\ Replayed.vol \in {Unset, routes[r].vol}
                      /\ Replayed.mute \in {Unset, routes[r].mute}
    BY DEF NodeFollowsRoute
  <2>2. r \in DOMAIN bind /\ routes[r].active /\ op.pc = "idle" BY DEF Active, NoRequest
  <2>3. Carries(Replay(manager, queue), r) BY <2>2 DEF NodeInv
  <2> QED BY <2>1, <2>2, <2>3 DEF Carries
<1> QED BY <1>1, <1>2, <1>3, PTL DEF DeviceSpec
=============================================================================
