------------------------------- MODULE Routes -------------------------------
(***************************************************************************)
(* A device object's profile and routes (core device/mod.rs, params.rs,    *)
(* events.rs, watch.rs) over the OSS mixer (freebsd_oss/mixer.rs), for the *)
(* routes of one endpoint: selectable recording sources with a hardware    *)
(* control of their own, a shared one, or none (software volume).          *)
(*                                                                         *)
(* The device keeps a shadow of every route.  Other processes change the   *)
(* mixer behind its back, also between the ioctls of one request; any      *)
(* ioctl may fail; the host learns of changes through a queue of           *)
(* notifications and may call back while it is delivered.                  *)
(***************************************************************************)
EXTENDS Naturals, FiniteSets, Sequences, SequencesExt

CONSTANTS
    Bindings,    \* possible route tables: route -> [source, control]
    Levels,      \* native levels 0..Levels
    Masks(_),    \* recording-source masks the driver accepts among sources
    MaxQueue,    \* notifications pending when the host calls back
    MaxValues,   \* volumes and mutes in one Route request
    None, Unset, Unity

ASSUME RoutesAssumption ==
    /\ Levels \in Nat
    /\ {MaxQueue, MaxValues} \subseteq Nat
    /\ \A b \in Bindings : /\ IsFiniteSet(DOMAIN b) /\ None \notin DOMAIN b
                           /\ \A r \in DOMAIN b : {"source", "control"} = DOMAIN b[r]

VARIABLES
    bind,     \* RouteController.bindings
    mixer,    \* the kernel's levels, mutes and recording sources
    routes,   \* Runtime.routes: the shadow of every route
    profile,  \* Runtime.profile # 0
    queue,    \* DeviceEvents.pending
    manager,  \* what the session manager made of the notifications
    op,       \* the Route request in progress
    unseen,   \* the Route params changed since the host last read them
    meddled   \* the mixer changed since the shadows were last compared

deviceVars == <<bind, mixer, routes, profile, queue, manager, op, unseen, meddled>>

-----------------------------------------------------------------------------
(* Volumes are finer than the native levels they are rounded to, and a     *)
(* level is shown as the volume it stands for.                             *)
Volumes == 0..(2 * Levels)
volume_to_level(v) == (v + 1) \div 2
level_to_volume(l) == 2 * l

Controls(b) == {b[r].control : r \in DOMAIN b} \ {None}
Sources(b) == {b[r].source : r \in DOMAIN b} \ {None}
Hardware(r) == bind[r].control # None

(* A card that records from one source at a time: whatever mask the driver *)
(* accepts, at most one route is selected.                                 *)
OneAtATime ==
    \A b \in Bindings : \A src \in Masks(Sources(b)) \cup {{}} : \A q, r \in DOMAIN b :
       b[q].source \in src \cup {None} /\ b[r].source \in src \cup {None} => q = r

(* What the mixer says of route r; a soft route keeps its own values.      *)
Read(r, old) ==
    IF Hardware(r)
      THEN [old EXCEPT !.vol = level_to_volume(mixer.lv[bind[r].control]),
                       !.mute = bind[r].control \in mixer.mu]
      ELSE old

Selected(r, src) == bind[r].source = None \/ bind[r].source \in src

(* The Route params: one per active route, none under the Off profile.     *)
RoutePods(rs, on) == IF on THEN {<<r, rs[r]>> : r \in {q \in DOMAIN rs : rs[q].active}} ELSE {}

NoRequest == [pc |-> "idle"]

(* probe: what the mixer says on the day the device appears.               *)
Probed ==
    /\ bind \in Bindings
    /\ \E s \in IF Sources(bind) = {} THEN {{}} ELSE Masks(Sources(bind)) :
         mixer = [lv |-> [c \in Controls(bind) |-> 0], mu |-> {}, src |-> s]
    /\ routes = [r \in DOMAIN bind |->
                   [active |-> Selected(r, mixer.src), mute |-> FALSE,
                    vol |-> IF Hardware(r) THEN 0 ELSE level_to_volume(Levels)]]

DeviceInit ==
    /\ Probed
    /\ profile = TRUE
    /\ queue = <<>>
    /\ manager = [nodes |-> TRUE, vol |-> Unset, soft |-> Unset, mute |-> Unset]
    /\ op = NoRequest
    /\ unseen = FALSE
    /\ meddled = FALSE

-----------------------------------------------------------------------------
(* Notifications.                                                          *)

RouteInfo == [kind |-> "info"]
ObjectInfo(on) == [kind |-> "object", on |-> on]

(* queue_object_config: the node is told the volume (its software volume   *)
(* stays at unity when hardware attenuates) or the mute.                   *)
VolumeConfig(r, rs) ==
    [kind |-> "volume", vol |-> rs[r].vol, soft |-> IF Hardware(r) THEN Unity ELSE rs[r].vol]
MuteConfig(r, rs) == [kind |-> "mute", mute |-> rs[r].mute]

Config(r, rs, change) ==
    (IF change.volume THEN <<VolumeConfig(r, rs)>> ELSE <<>>)
    \o (IF change.mute THEN <<MuteConfig(r, rs)>> ELSE <<>>)

Deliver(h, m) ==
    CASE m.kind = "object" -> [nodes |-> m.on, vol |-> Unset, soft |-> Unset, mute |-> Unset]
      [] m.kind = "volume" -> [h EXCEPT !.vol = m.vol, !.soft = m.soft]
      [] m.kind = "mute"   -> [h EXCEPT !.mute = m.mute]
      [] OTHER             -> h

(* The shadows become rs; the host has to read the params again if what    *)
(* they show changed.                                                      *)
Shown(rs, on) ==
    /\ routes' = rs
    /\ profile' = on
    /\ unseen' = (unseen \/ RoutePods(rs, on) # RoutePods(routes, profile))

Called == Len(queue) <= MaxQueue

-----------------------------------------------------------------------------
(* sync_source and refresh.                                                *)

sync_source_routes(rs, src) ==
    [r \in DOMAIN rs |->
       LET now == [rs[r] EXCEPT !.active = Selected(r, src)]
       IN  IF now.active /\ ~rs[r].active THEN Read(r, now) ELSE now]

sync_source(rs) == sync_source_routes(rs, mixer.src)

refresh_all(rs) == [r \in DOMAIN rs |-> Read(r, sync_source(rs)[r])]

(* poll: what changed is announced route by route; an inactive route is    *)
(* refreshed silently.  A source that was switched announces its hardware  *)
(* state when it became active.                                            *)
Switched(rs, now) == {r \in DOMAIN rs : rs[r].active # now[r].active}

SwitchChange(r, now) ==
    [volume |-> now[r].active /\ Hardware(r), mute |-> now[r].active /\ Hardware(r)]

ValueChange(r, before, now) ==
    [volume |-> now[r].active /\ before[r].vol # now[r].vol,
     mute   |-> now[r].active /\ before[r].mute # now[r].mute]

(* The announcements of the routes in S, of each what change says.         *)
Configs(S, rs, change) ==
    LET Then(r, q) == q \o Config(r, rs, change[r])
    IN  FoldRight(Then, SetToSeq(S), <<>>)

News(rs, synced, now, switched) ==
    LET changed == {r \in DOMAIN rs : now[r].active /\ now[r] # synced[r]}
    IN  IF switched \cup changed = {} THEN <<>>
        ELSE <<RouteInfo>>
               \o Configs(switched, now, [r \in switched |-> SwitchChange(r, now)])
               \o Configs(changed, now, [r \in changed |-> ValueChange(r, synced, now)])

\* Mutant: a switched source is only compared by its values.
poll_values(rs) ==
    LET now == refresh_all(rs)
    IN  [routes |-> now, news |-> News(rs, sync_source(rs), now, {})]

\* Mutant: the recording source is not read again.
poll_levels(rs) ==
    LET now == [r \in DOMAIN rs |-> Read(r, rs[r])]
    IN  [routes |-> now, news |-> News(rs, rs, now, {})]

poll(rs) ==
    LET now == refresh_all(rs)
    IN  [routes |-> now, news |-> News(rs, sync_source(rs), now, Switched(rs, now))]

(* poll_routes, on the timer, on a devd event of this unit or on the loss  *)
(* of devd's connection; idle under the Off profile.  A mixer that does    *)
(* not answer is skipped, which changes nothing.                           *)
poll_routes ==
    /\ op = NoRequest /\ queue = <<>> /\ profile
    /\ LET p == poll(routes) IN Shown(p.routes, TRUE) /\ queue' = p.news
    /\ meddled' = FALSE
    /\ UNCHANGED <<bind, mixer, manager, op>>

-----------------------------------------------------------------------------
(* set_profile_param: the shadows are refreshed (from a mixer that does    *)
(* not answer they are kept) before the Route params are announced again.  *)
(* The profile that is already set only saves its flag.                    *)
Profiled(rs, quiet) ==
    /\ op = NoRequest /\ Called
    /\ Shown(rs, ~profile)
    /\ queue' = queue \o <<ObjectInfo(~profile), RouteInfo>>
    /\ meddled' = (meddled /\ ~quiet)
    /\ UNCHANGED <<bind, mixer, manager, op>>

SetProfile ==
    \/ ~profile /\ Profiled(refresh_all(routes), TRUE)
    \/ Profiled(routes, FALSE)

(* set_route_param and apply.  The route was resolved by index, name and   *)
(* device; under the Off profile, or unresolved, the request is refused.   *)
(* An inactive source is selected first; the kernel may refuse, or record  *)
(* from another source than it was asked for.                              *)
Writes == [what : {"mute"}, to : BOOLEAN] \cup [what : {"volume"}, to : Volumes]

Request(r, outcome, chosen) ==
    [pc |-> "write", pos |-> r, selection |-> outcome, selected |-> chosen, left |-> MaxValues,
     volume |-> FALSE, mute |-> FALSE]

SelectUnchanged(r) ==
    /\ routes[r].active
    /\ op' = Request(r, "unchanged", None)
    /\ UNCHANGED <<mixer, routes, profile, unseen>>

SelectFails(r) ==
    /\ ~routes[r].active
    /\ op' = Request(r, "failed", None)
    /\ UNCHANGED <<mixer, routes, profile, unseen>>

(* The session manager took the selection for granted: when it went        *)
(* elsewhere the host is wrong until it reads the params again.            *)
SelectSource(r) ==
    /\ ~routes[r].active
    /\ \E src \in Masks(Sources(bind)) :
         LET now   == sync_source_routes(routes, src)
             other == {q \in DOMAIN now : now[q].active /\ bind[q].source # None}
         IN  /\ mixer' = [mixer EXCEPT !.src = src]
             /\ routes' = now
             /\ \E q \in IF now[r].active THEN {r} ELSE other :
                  op' = Request(r, IF q = r THEN "applied" ELSE "deflected", q)
             /\ unseen' = (\/ unseen \/ ~now[r].active
                           \/ RoutePods(now, profile) # RoutePods(routes, profile))
    /\ UNCHANGED profile

SetRoute ==
    /\ op = NoRequest /\ Called /\ profile
    /\ \E r \in DOMAIN bind :
         \/ SelectUnchanged(r)
         \/ SelectFails(r)
         \/ SelectSource(r)
    /\ UNCHANGED <<bind, queue, manager, meddled>>

(* One of the request's values, in its order: only a difference from the   *)
(* shadow is written, and the shadow follows only a write the driver took. *)
(* An inactive route sharing its control with the active one leaves that   *)
(* one's shadow behind.                                                    *)
Old(r, what) == IF what = "mute" THEN routes[r].mute ELSE volume_to_level(routes[r].vol)
New(w) == IF w.what = "mute" THEN w.to ELSE volume_to_level(w.to)

Shadowed(r, w) ==
    IF w.what = "mute" THEN [routes EXCEPT ![r].mute = w.to]
                       ELSE [routes EXCEPT ![r].vol = level_to_volume(New(w))]

Written(c, w) ==
    IF w.what = "mute" THEN [mixer EXCEPT !.mu = IF w.to THEN @ \cup {c} ELSE @ \ {c}]
                       ELSE [mixer EXCEPT !.lv[c] = New(w)]

Shared(r) == \E q \in DOMAIN bind : q # r /\ routes[q].active /\ bind[q].control = bind[r].control

Flagged(w, done) ==
    [op EXCEPT !.left = @ - 1, !.volume = @ \/ (done /\ w.what = "volume"),
               !.mute = @ \/ (done /\ w.what = "mute")]

WriteSame(r, w) ==
    /\ New(w) = Old(r, w.what)
    /\ op' = Flagged(w, FALSE)
    /\ UNCHANGED <<mixer, routes, profile, unseen, meddled>>

WriteSoft(r, w) ==
    /\ New(w) # Old(r, w.what) /\ ~Hardware(r)
    /\ Shown(Shadowed(r, w), profile)
    /\ op' = Flagged(w, TRUE)
    /\ UNCHANGED <<mixer, meddled>>

\* Mutant: the shadow takes the value before the driver does.
WriteShadowFirst(r, w) ==
    /\ New(w) # Old(r, w.what) /\ Hardware(r)
    /\ Shown(Shadowed(r, w), profile)
    /\ op' = Flagged(w, FALSE)
    /\ UNCHANGED <<mixer, meddled>>

WriteFails(r, w) ==
    /\ New(w) # Old(r, w.what) /\ Hardware(r)
    /\ op' = Flagged(w, FALSE)
    /\ UNCHANGED <<mixer, routes, profile, unseen, meddled>>

WriteHardware(r, w) ==
    /\ New(w) # Old(r, w.what) /\ Hardware(r)
    /\ mixer' = Written(bind[r].control, w)
    /\ Shown(Shadowed(r, w), profile)
    /\ op' = Flagged(w, TRUE)
    /\ meddled' = (meddled \/ Shared(r))

Write ==
    /\ op.pc = "write" /\ op.left > 0
    /\ \E w \in Writes :
         \/ WriteSame(op.pos, w) \/ WriteSoft(op.pos, w)
         \/ WriteFails(op.pos, w) \/ WriteHardware(op.pos, w)
    /\ UNCHANGED <<bind, queue, manager>>

(* selection_notification_flags: the route selected is announced with its  *)
(* hardware state, another one's requested values never are.               *)
selection_notification_flags ==
    CASE op.selected = op.pos  -> [volume |-> op.volume \/ Hardware(op.pos),
                                   mute |-> op.mute \/ Hardware(op.pos)]
      [] op.selected = None    -> [volume |-> op.volume /\ routes[op.pos].active,
                                   mute |-> op.mute /\ routes[op.pos].active]
      [] OTHER                 -> [volume |-> Hardware(op.selected), mute |-> Hardware(op.selected)]

Announced(change) == op.selection = "applied" \/ change.volume \/ change.mute

\* Mutant: only a selection that was applied is announced.
FinishUnlessDeflected ==
    /\ op.pc = "write"
    /\ LET change == selection_notification_flags
           r      == IF op.selected = None THEN op.pos ELSE op.selected
       IN  \E saved \in BOOLEAN :
             queue' = queue \o (IF Announced(change) \/ saved THEN <<RouteInfo>> ELSE <<>>)
                            \o Config(r, routes, change)
    /\ op' = NoRequest
    /\ UNCHANGED <<bind, mixer, routes, profile, manager, unseen, meddled>>

Finish ==
    /\ op.pc = "write"
    /\ LET change == selection_notification_flags
           r      == IF op.selected = None THEN op.pos ELSE op.selected
           told   == Announced(change) \/ op.selection = "deflected"
       IN  \E saved \in BOOLEAN :
             queue' = queue \o (IF told \/ saved THEN <<RouteInfo>> ELSE <<>>)
                            \o Config(r, routes, change)
    /\ op' = NoRequest
    /\ UNCHANGED <<bind, mixer, routes, profile, manager, unseen, meddled>>

-----------------------------------------------------------------------------
(* The host takes the next notification; told that the params changed, it  *)
(* enumerates them.  A listener added instead starts from what it is told  *)
(* at once and from the params as they are: older entries are not for it.  *)
HostReads ==
    /\ op = NoRequest /\ queue # <<>>
    /\ manager' = Deliver(manager, Head(queue))
    /\ unseen' = (unseen /\ Head(queue).kind # "info")
    /\ queue' = Tail(queue)
    /\ UNCHANGED <<bind, mixer, routes, profile, op, meddled>>

AddListener ==
    /\ op = NoRequest /\ Called
    /\ manager' = [nodes |-> profile, vol |-> Unset, soft |-> Unset, mute |-> Unset]
    /\ queue' = <<>>
    /\ unseen' = FALSE
    /\ UNCHANGED <<bind, mixer, routes, profile, op, meddled>>

(* Another process sets a level, a mute or the recording source.           *)
External ==
    /\ mixer' \in {[mixer EXCEPT !.lv[c] = l] : c \in Controls(bind), l \in 0..Levels}
                  \cup {[mixer EXCEPT !.mu = m] : m \in SUBSET Controls(bind)}
                  \cup {[mixer EXCEPT !.src = s] :
                          s \in IF Sources(bind) = {} THEN {} ELSE Masks(Sources(bind))}
    /\ mixer' # mixer
    /\ meddled' = TRUE
    /\ UNCHANGED <<bind, routes, profile, queue, manager, op, unseen>>

HostCall == SetProfile \/ SetRoute \/ AddListener

DeviceNext == HostCall \/ Write \/ Finish \/ HostReads \/ poll_routes \/ External

(* The timer of arm_route_watch fires once a second, and a mixer that is   *)
(* there answers; the request and the dispatch are loops of the main       *)
(* thread.                                                                 *)
arm_route_watch == WF_deviceVars(poll_routes)

DeviceSpec ==
    /\ DeviceInit /\ [][DeviceNext]_deviceVars
    /\ arm_route_watch /\ WF_deviceVars(HostReads) /\ WF_deviceVars(Write \/ Finish)

-----------------------------------------------------------------------------
DeviceTypeOK ==
    /\ bind \in Bindings
    /\ mixer.lv \in [Controls(bind) -> 0..Levels]
    /\ mixer.mu \subseteq Controls(bind)
    /\ mixer.src \subseteq Sources(bind)
    /\ routes \in [DOMAIN bind -> [active : BOOLEAN, vol : Volumes, mute : BOOLEAN]]
    /\ {profile, unseen, meddled} \subseteq BOOLEAN
    /\ op.pc \in {"idle", "write"}

Replayed == FoldLeft(Deliver, manager, queue)
Active == {r \in DOMAIN bind : routes[r].active}

(* HostInSync: between requests, whatever the Route params show that the   *)
(* host has not read is announced by a queued info, and once the queue is  *)
(* delivered the host holds exactly the nodes of the profile.  It breaks   *)
(* when a change is applied without a serial bump, or announced before the *)
(* state it announces.                                                     *)
HostInSync ==
    op = NoRequest => /\ unseen => RouteInfo \in ToSet(queue)
                      /\ Replayed.nodes = profile

(* ShadowIsTrue: as long as nobody else touched the mixer since the last   *)
(* comparison, the active routes are the sources the driver records from   *)
(* and the shadows of the active hardware routes are the driver's values,  *)
(* whichever of a request's ioctls failed and wherever the kernel put the  *)
(* recording source.                                                       *)
ShadowIsTrue ==
    (~meddled /\ op = NoRequest /\ profile) =>
       \A r \in DOMAIN bind :
          /\ routes[r].active = Selected(r, mixer.src)
          /\ routes[r].active => routes[r] = Read(r, routes[r])

(* NodeFollowsRoute: once the queue is delivered, the node behind a single *)
(* active hardware route carries that route's volume and mute and leaves   *)
(* its software volume at unity: audio is never attenuated twice, and a    *)
(* soft route's levels do not outlive it.                                  *)
NodeFollowsRoute ==
    (op = NoRequest /\ profile) =>
       \A r \in Active : (Active = {r} /\ Hardware(r)) =>
          /\ Replayed.soft \in {Unset, Unity}
          /\ Replayed.vol \in {Unset, routes[r].vol}
          /\ Replayed.mute \in {Unset, routes[r].mute}

Settled ==
    /\ queue = <<>> /\ ~unseen
    /\ \A r \in DOMAIN bind : /\ routes[r].active = Selected(r, mixer.src)
                              /\ routes[r] = Read(r, routes[r])

LeftAlone == mixer' = mixer /\ profile' = profile /\ (op = NoRequest => op' = NoRequest)

(* RoutesSettle: once other processes and the host leave the mixer and the *)
(* profile alone, polling brings every shadow to the driver's values and   *)
(* tells the host, whatever was missed before (a source switched by other  *)
(* means moves no counter and fires no event).                             *)
RoutesSettle ==
    (<>[]profile /\ <>[][LeftAlone]_deviceVars) => <>[]Settled
=============================================================================
