------------------------------- MODULE Hotplug -------------------------------
(***************************************************************************)
(* Sound devices come and go; devd tells, over a connection that can be    *)
(* lost, and the monitor rereads sndstat and tells the host the difference. *)
(* A PCM unit belongs to a parent device, and the host sees one object per *)
(* parent, named by the parent's first unit.                               *)
(*                                                                         *)
(* A replacement under the same name looks the same in sndstat: inst tells *)
(* the incarnations of a unit apart, which the code cannot see.            *)
(***************************************************************************)
EXTENDS Naturals, FiniteSets, Sequences

CONSTANTS
  Parents, NoParent,  \* nameunits such as uaudio0
  Units,              \* PCM unit numbers
  MaxPlugs,           \* bound on the units that are attached
  MaxRestarts         \* bound on the restarts of devd

ASSUME NamesAssumption ==
  NoParent \notin Parents /\ Units \subseteq Nat /\ IsFiniteSet(Units)
ASSUME BoundsAssumption == MaxPlugs \in Nat /\ MaxRestarts \in Nat

VARIABLES
  owner, inst,     \* the kernel: the parent of each unit, and its incarnation
  plugs, restarts, \* counted against the bounds
  devd,            \* whether devd accepts connections
  wire,            \* packets on the connection, and "eof"
  socket, timer,   \* HotplugMonitor: the connection, the retry timer
  watched,         \* hotplug_monitor is Some and its source registered
  phase,           \* init: "scan", "connect"; then "run"
  groups,          \* DeviceCatalog.groups, with the incarnations it was read with
  removed, added,  \* what dispatch_all still has to tell
  host,            \* the objects the host knows
  unread,          \* a reread has failed, or init has missed an event
  missed           \* an event was never received

world == <<owner, inst, plugs>>
link == <<devd, restarts, wire, socket, timer, watched>>
view == <<phase, groups, removed, added, host>>
vars == <<world, link, view, unread, missed>>

UnitsOf(ends) == {e[1] : e \in ends}
ObjectId(us) == CHOOSE u \in us : \A v \in us : u <= v
Present(p) == {<<u, inst[u]>> : u \in {v \in Units : owner[v] = p}}
Object(p, ends) == [id |-> ObjectId(UnitsOf(ends)), parent |-> p, ends |-> ends]

\* A devd packet, as decode_catalog_signal reads it, and the end of the connection.
Attached == [type |-> "attached"]
DetachedUnit(u) == [type |-> "unit", unit |-> u]
DetachedParent(p) == [type |-> "parent", parent |-> p]
Eof == [type |-> "eof"]

Init ==
  /\ owner \in [Units -> {NoParent}] /\ inst = [u \in Units |-> 0] /\ plugs = 0
  /\ devd \in BOOLEAN /\ restarts = 0 /\ wire = <<>>
  /\ socket = FALSE /\ timer = FALSE /\ watched = FALSE /\ phase = "scan"
  /\ groups = [p \in Parents |-> {}] /\ removed = {} /\ added = {} /\ host = {}
  /\ unread = FALSE /\ missed = FALSE

------------------------------------------------------------------------------
(* The kernel and devd *)

\* A packet is on the wire only while a connection stands that devd serves.
Connected == socket /\ devd /\ (\A i \in DOMAIN wire : wire[i].type # "eof")
Tell(packets) ==
  IF Connected THEN wire' = wire \o packets /\ UNCHANGED <<unread, missed>>
  ELSE /\ UNCHANGED wire
       /\ unread' = (unread \/ phase = "connect") /\ missed' = (missed \/ phase # "scan")

Attach(u, p) ==
  /\ owner[u] = NoParent /\ plugs < MaxPlugs
  /\ owner' = [owner EXCEPT ![u] = p] /\ inst' = [inst EXCEPT ![u] = @ + 1]
  /\ plugs' = plugs + 1
  /\ Tell(<<Attached>>)
  /\ UNCHANGED <<devd, restarts, socket, timer, watched, view>>

\* The parent goes with its last unit.
Detach(u) ==
  /\ owner[u] # NoParent
  /\ owner' = [owner EXCEPT ![u] = NoParent]
  /\ Tell(IF \E v \in Units \ {u} : owner[v] = owner[u] THEN <<DetachedUnit(u)>>
          ELSE <<DetachedUnit(u), DetachedParent(owner[u])>>)
  /\ UNCHANGED <<inst, plugs, devd, restarts, socket, timer, watched, view>>

\* What the connection still holds may be read before its end, or be lost.
DevdStops ==
  /\ devd /\ restarts < MaxRestarts
  /\ devd' = FALSE /\ restarts' = restarts + 1
  /\ \/ wire' = (IF socket THEN Append(wire, Eof) ELSE wire) /\ UNCHANGED missed
     \/ socket /\ wire # <<>> /\ wire' = <<Eof>> /\ missed' = TRUE
  /\ UNCHANGED <<world, socket, timer, watched, view, unread>>

DevdStarts ==
  /\ ~devd /\ devd' = TRUE
  /\ UNCHANGED <<world, restarts, wire, socket, timer, watched, view, unread, missed>>

------------------------------------------------------------------------------
(* init *)

Scan ==
  /\ phase = "scan" /\ phase' = "connect"
  /\ groups' = [p \in Parents |-> Present(p)]
  /\ UNCHANGED <<world, link, removed, added, host, unread, missed>>

\* HotplugMonitor::open, source registration and the host's add_listener.  If
\* one of the first two fails there is no hotplug.
Connect ==
  /\ phase = "connect" /\ phase' = "run"
  /\ \/ socket' = devd /\ timer' = ~devd /\ watched' = TRUE
     \/ UNCHANGED <<socket, timer, watched>>
  /\ host' = {Object(p, groups[p]) : p \in {q \in Parents : groups[q] # {}}}
  /\ UNCHANGED <<world, devd, restarts, wire, groups, removed, added, unread, missed>>

------------------------------------------------------------------------------
(* on_hotplug_event *)

\* Mutant: a detachment is treated like any other change.
ForcedNever(signal) == {}

\* The group that a detachment names, by unit or by parent.
Forced(signal) ==
  {p \in Parents : /\ groups[p] # {}
                   /\ \/ signal.type = "unit" /\ signal.unit \in UnitsOf(groups[p])
                      \/ signal.type = "parent" /\ signal.parent = p}

\* Mutant: groups are told apart by their names only.
ChangedNames(kept) == {p \in Parents : (kept[p] = {}) # (Present(p) = {})}

\* The diff sees unit numbers, not incarnations.
Changed(kept) == {p \in Parents : UnitsOf(kept[p]) # UnitsOf(Present(p))}

\* rescan_with: retract what was named, reread, and replace what differs.
Rescan(signal) ==
  LET forced == Forced(signal)
      kept == [p \in Parents |-> IF p \in forced THEN {} ELSE groups[p]]
      gone(ps) == {ObjectId(UnitsOf(groups[p])) : p \in ps}
  IN \/ \* sndstat cannot be read
        /\ groups' = kept /\ removed' = gone(forced) /\ added' = {}
        /\ unread' = TRUE /\ UNCHANGED missed
     \/ LET changed == Changed(kept) IN
        /\ groups' = [p \in Parents |-> IF p \in changed THEN Present(p) ELSE kept[p]]
        /\ removed' = gone(forced \cup {p \in changed : kept[p] # {}})
        /\ added' = {Object(p, Present(p)) : p \in {q \in changed : Present(q) # {}}}
        /\ unread' = FALSE /\ UNCHANGED missed

\* The main loop runs one handler at a time, its notifications included.
Idle == phase = "run" /\ watched /\ removed = {} /\ added = {}

\* One packet: an attachment asks for a full refresh, a detachment for a
\* targeted one.
ReadPacket ==
  /\ Idle /\ socket /\ wire # <<>> /\ Head(wire).type # "eof"
  /\ wire' = Tail(wire)
  /\ Rescan(Head(wire))
  /\ UNCHANGED <<world, devd, restarts, socket, timer, watched, phase, host>>

\* Mutant: the connection is closed and no retry is armed.
SocketLossQuiet ==
  /\ Idle /\ socket /\ wire # <<>> /\ Head(wire).type = "eof"
  /\ socket' = FALSE /\ wire' = <<>>
  /\ UNCHANGED <<world, devd, restarts, timer, watched, view, unread, missed>>

\* handle_socket_loss, and arm_retry, which the kernel may refuse
SocketLoss ==
  /\ Idle /\ socket /\ wire # <<>> /\ Head(wire).type = "eof"
  /\ socket' = FALSE /\ wire' = <<>>
  /\ \/ timer' = TRUE /\ UNCHANGED watched
     \/ watched' = FALSE /\ UNCHANGED timer
  /\ UNCHANGED <<world, devd, restarts, view, unread, missed>>

RetryFails ==
  /\ Idle /\ timer /\ ~devd
  /\ \/ UNCHANGED <<timer, watched>>
     \/ timer' = FALSE /\ watched' = FALSE
  /\ UNCHANGED <<world, devd, restarts, wire, socket, view, unread, missed>>

\* catalog_refresh after a reconnection: Full
Refresh == Rescan(Attached)

Reconnect ==
  /\ Idle /\ timer /\ devd
  /\ timer' = FALSE /\ socket' = TRUE
  /\ Refresh
  /\ UNCHANGED <<world, devd, restarts, wire, watched, phase, host>>

\* Mutant: additions are told in any order with the removals.
MayAddAny == TRUE
MayAdd == removed = {}

\* dispatch_all, catalog_notifications: the removals come first.
TellRemoved ==
  /\ \E id \in removed : /\ host' = {o \in host : o.id # id}
                         /\ removed' = removed \ {id}
  /\ UNCHANGED <<world, link, phase, groups, added, unread, missed>>

TellAdded ==
  /\ MayAdd
  /\ \E o \in added : host' = host \cup {o} /\ added' = added \ {o}
  /\ UNCHANGED <<world, link, phase, groups, removed, unread, missed>>

Environment ==
  \/ \E u \in Units : Detach(u) \/ \E p \in Parents : Attach(u, p)
  \/ DevdStops
Monitor == Scan \/ Connect \/ ReadPacket \/ SocketLoss \/ RetryFails \/ Reconnect
           \/ TellRemoved \/ TellAdded

Next == Environment \/ DevdStarts \/ Monitor

Spec == Init /\ [][Next]_vars

\* devd is restarted when it has stopped, and the main loop keeps running.
FairSpec == Spec /\ WF_vars(DevdStarts) /\ WF_vars(Monitor)

------------------------------------------------------------------------------
TypeOK ==
  /\ owner \in [Units -> Parents \cup {NoParent}] /\ inst \in [Units -> Nat]
  /\ groups \in [Parents -> SUBSET (Units \X Nat)]
  /\ removed \subseteq Units /\ phase \in {"scan", "connect", "run"}
  /\ \A o \in host \cup added : o.parent \in Parents /\ o.ends # {} /\ o.id = ObjectId(UnitsOf(o.ends))
  /\ \A o, r \in host : o.id = r.id => o = r
  /\ devd \in BOOLEAN /\ socket \in BOOLEAN /\ timer \in BOOLEAN
  /\ watched \in BOOLEAN /\ unread \in BOOLEAN /\ missed \in BOOLEAN
  /\ plugs \in 0 .. MaxPlugs /\ restarts \in 0 .. MaxRestarts

\* An object id is withdrawn only when the host knows it, and given to a new
\* object only when the old one is withdrawn before, also when units move from
\* one parent to another in one reread.
NoClash ==
  /\ removed \subseteq {o.id : o \in host}
  /\ \A o \in added : \A r \in host : r.id = o.id => r.id \in removed

\* The host knows the catalog once the differences are told.
HostSeesCatalog ==
  phase = "run" /\ removed = {} /\ added = {} =>
    host = {Object(p, groups[p]) : p \in {q \in Parents : groups[q] # {}}}

\* The host knows the same units under the same parents as the kernel ...
SameUnits ==
  {<<o.parent, UnitsOf(o.ends)>> : o \in host} =
    {<<p, UnitsOf(Present(p))>> : p \in {q \in Parents : Present(q) # {}}}
\* ... and no object stands for hardware that was replaced since.
SameHardware == \A o \in host : o.ends = Present(o.parent)

\* When devices stop coming and going, the host knows the ones that are there,
\* whatever connections were lost, as long as the last reread succeeded.
CatalogFollowsKernel == <>[](watched /\ ~unread => SameUnits)

\* A replacement under the same name is announced anew, and does not "leave
\* nodes bound to the retired hardware instance" (the comment in rescan_with),
\* as long as no event was lost.
ReplugIsSeen == <>[](watched /\ ~unread /\ ~missed => SameHardware)
==============================================================================
