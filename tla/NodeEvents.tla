----------------------------- MODULE NodeEvents -----------------------------
(***************************************************************************)
(* How a node tells its listeners what changed.  Everything runs on the    *)
(* main loop, but a listener's callback may call the node again: change    *)
(* it, ask for a sync or for params, add a listener, remove one.  The      *)
(* interleavings are those of nested calls, so the state is a stack of     *)
(* traversals, the innermost on top.                                       *)
(*                                                                         *)
(* An info snapshot is the number of changes of its kind that it includes. *)
(***************************************************************************)
EXTENDS Naturals, Sequences, FiniteSets, Functions

CONSTANTS
  Listeners,  \* the hooks the host may register, each at most once
  MaxCalls    \* bound on the changes, syncs and param requests of the host

ASSUME ListenersAssumption == IsFiniteSet(Listeners) /\ "active" \notin Listeners
ASSUME MaxCallsAssumption == MaxCalls \in Nat

Kinds == {"node", "port"}

VARIABLES
  ver,          \* the live NodeInfo and PortInfo
  queue,        \* PendingNodeNotifications.queue
  dispatching,  \* PendingNodeNotifications.dispatching
  list,         \* the active ListenerList and the cohorts, a sequence each
  saved,        \* with_isolated_listener: the hooks put aside
  stack,        \* the traversals under way
  heard,        \* the last snapshot of each kind a listener was given
  fresh,        \* listeners that were not added yet
  live,         \* listeners that are registered
  calls         \* bounded by MaxCalls

vars == <<ver, queue, dispatching, list, saved, stack, heard, fresh, live, calls>>

Init ==
  /\ ver = [k \in Kinds |-> 1]
  /\ queue = <<>> /\ dispatching = FALSE
  /\ list = [x \in {"active"} \cup Listeners |-> <<>>] /\ saved = <<>>
  /\ stack = <<>>
  /\ heard = [l \in Listeners |-> [k \in Kinds |-> 0]]
  /\ fresh = Listeners /\ live = {} /\ calls = 0

------------------------------------------------------------------------------
(* Notifications and traversals *)

Note(type, what) == [type |-> type, what |-> what]
Nothing == Note("none", 0)
Info(k) == Note(k, ver[k])

\* for_each_hook: the cursor stands behind the hooks it has visited.  A frame
\* also has what it emits, what follows, and whether it owns the dispatch turn.
Frame(op, on, note, rest, claim) ==
  [op |-> op, on |-> on, cur |-> 0, calling |-> FALSE,
   note |-> note, rest |-> rest, claim |-> claim]

Top == stack[Len(stack)]
SetTop(f) == stack' = [stack EXCEPT ![Len(stack)] = f]
Below == SubSeq(stack, 1, Len(stack) - 1)

\* The host's code is running: outside every call, or in a callback.
HostRuns == stack # <<>> => Top.calling

AtEnd(f) == f.cur = Len(list[f.on]) \/ f.note = Nothing

Hop(f) == [f EXCEPT !.cur = @ + 1, !.calling = TRUE]

\* One callback; the cursor hops over the hook first.
Call ==
  /\ stack # <<>> /\ ~AtEnd(Top)
  /\ LET l == list[Top.on][Top.cur + 1] IN
       heard' = IF Top.note.type \in Kinds
                THEN [heard EXCEPT ![l][Top.note.type] = Top.note.what] ELSE heard
  /\ SetTop(Hop(Top))
  /\ UNCHANGED <<ver, queue, dispatching, list, saved, fresh, live, calls>>

------------------------------------------------------------------------------
(* The dispatch turn *)

\* Mutant: every flush drains.
FlushAlways ==
  /\ dispatching' = TRUE
  /\ stack' = Append(stack, Frame("drain", "active", Nothing, <<>>, TRUE))

\* flush: a reentrant producer leaves its notifications to the outer owner.
Flush ==
  IF dispatching THEN UNCHANGED <<dispatching, stack>>
  ELSE /\ dispatching' = TRUE
       /\ stack' = Append(stack, Frame("drain", "active", Nothing, <<>>, TRUE))

\* drain, dispatch: the next notification is taken between two traversals.
DrainNext ==
  /\ stack # <<>> /\ Top.op = "drain" /\ AtEnd(Top)
  /\ queue # <<>> /\ Head(queue).type # "activate"
  /\ queue' = Tail(queue)
  /\ SetTop(Frame("drain", "active", Head(queue), <<>>, TRUE))
  /\ UNCHANGED <<ver, dispatching, list, saved, heard, fresh, live, calls>>

\* Mutant: the barrier is taken from the queue and the cohort left alone.
AppendFromForgotten(cohort) == UNCHANGED list

\* append_from: the cohort goes to the tail of the active list.
AppendFrom(cohort) ==
  list' = [list EXCEPT !["active"] = @ \o list[cohort], ![cohort] = <<>>]

\* ActivateListeners
DrainActivate ==
  /\ stack # <<>> /\ Top.op = "drain" /\ AtEnd(Top)
  /\ queue # <<>> /\ Head(queue).type = "activate"
  /\ AppendFrom(Head(queue).what)
  /\ queue' = Tail(queue)
  /\ SetTop(Frame("drain", "active", Nothing, <<>>, TRUE))
  /\ UNCHANGED <<ver, dispatching, saved, heard, fresh, live, calls>>

DrainEnd ==
  /\ stack # <<>> /\ Top.op = "drain" /\ AtEnd(Top) /\ queue = <<>>
  /\ stack' = Below /\ dispatching' = FALSE
  /\ UNCHANGED <<ver, queue, list, saved, heard, fresh, live, calls>>

------------------------------------------------------------------------------
(* The host's calls *)

Asked == HostRuns /\ calls < MaxCalls /\ calls' = calls + 1

\* A handler that changes the node's info, the port's or both queues the
\* snapshots (queue_node_info, queue_port_info) and flushes when it is done.
Snapshots(ks) ==
  (IF "node" \in ks THEN <<Note("node", ver["node"] + 1)>> ELSE <<>>)
    \o (IF "port" \in ks THEN <<Note("port", ver["port"] + 1)>> ELSE <<>>)

Change(ks) ==
  /\ Asked
  /\ ver' = [k \in Kinds |-> IF k \in ks THEN ver[k] + 1 ELSE ver[k]]
  /\ queue' = queue \o Snapshots(ks)
  /\ Flush
  /\ UNCHANGED <<list, saved, heard, fresh, live>>

\* Mutant: the answer overtakes what is queued.
DoneFirst == <<Note("done", ver)>> \o queue
DoneLast == Append(queue, Note("done", ver))

\* sync, emit_done: the notification stands behind the changes before it.
Sync ==
  /\ Asked
  /\ queue' = DoneLast
  /\ Flush
  /\ UNCHANGED <<ver, list, saved, heard, fresh, live>>

\* LocalListenerTarget: the innermost listener in its initial callbacks.
InitialFrames == {i \in 1 .. Len(stack) : stack[i].op = "initial"}

CurrentTarget ==
  IF InitialFrames = {} THEN "active"
  ELSE stack[CHOOSE i \in InitialFrames : \A j \in InitialFrames : j <= i].on

\* enum_params, emit_result: a result is not queued but emitted at once.
EnumParams ==
  /\ Asked
  /\ stack' = Append(stack, Frame("result", CurrentTarget, Note("result", 0), <<>>, FALSE))
  /\ UNCHANGED <<ver, queue, dispatching, list, saved, heard, fresh, live>>

\* Mutant: the enumeration does not get on to the next index.
ResultEndAgain ==
  /\ stack # <<>> /\ Top.op = "result" /\ AtEnd(Top)
  /\ SetTop(Frame("result", Top.on, Top.note, <<>>, FALSE))
  /\ UNCHANGED <<ver, queue, dispatching, list, saved, heard, fresh, live, calls>>

ResultEnd ==
  /\ stack # <<>> /\ Top.op = "result" /\ AtEnd(Top)
  /\ stack' = Below
  /\ UNCHANGED <<ver, queue, dispatching, list, saved, heard, fresh, live, calls>>

------------------------------------------------------------------------------
(* Listeners come and go *)

\* Mutant: only queued notifications count as older work.
DeferredQueueOnly == queue # <<>>

\* with_new_listener: older work exists, so the listener waits behind a barrier.
Deferred == dispatching \/ queue # <<>>

TakesTurn == ~dispatching

\* add_listener up to its first callback: both snapshots are taken, and the
\* dispatch turn if it is free.
AddListener(l) ==
  /\ HostRuns /\ l \in fresh
  /\ fresh' = fresh \ {l} /\ live' = live \cup {l}
  /\ IF Deferred
     THEN /\ queue' = Append(queue, Note("activate", l))
          /\ list' = [list EXCEPT ![l] = <<l>>]
          /\ UNCHANGED saved
     ELSE /\ list' = [list EXCEPT !["active"] = <<l>>]
          /\ saved' = list["active"]
          /\ UNCHANGED queue
  /\ dispatching' = (dispatching \/ TakesTurn)
  /\ stack' = Append(stack, Frame("initial", IF Deferred THEN l ELSE "active",
                                  Info("node"), <<Info("port")>>, TakesTurn))
  /\ UNCHANGED <<ver, heard, calls>>

InitialNext ==
  /\ stack # <<>> /\ Top.op = "initial" /\ AtEnd(Top) /\ Top.rest # <<>>
  /\ SetTop(Frame("initial", Top.on, Head(Top.rest), Tail(Top.rest), Top.claim))
  /\ UNCHANGED <<ver, queue, dispatching, list, saved, heard, fresh, live, calls>>

\* The list is joined again before the owner of the turn drains.
InitialEnd ==
  /\ stack # <<>> /\ Top.op = "initial" /\ AtEnd(Top) /\ Top.rest = <<>>
  /\ IF Top.on = "active"
     THEN list' = [list EXCEPT !["active"] = saved \o @] /\ saved' = <<>>
     ELSE UNCHANGED <<list, saved>>
  /\ IF Top.claim THEN SetTop(Frame("drain", "active", Nothing, <<>>, TRUE))
     ELSE stack' = Below
  /\ UNCHANGED <<ver, queue, dispatching, heard, fresh, live, calls>>

\* A hook that is linked is unlinked.
Without(s, l) ==
  LET at == {p \in DOMAIN s : s[p] = l}
      p == CHOOSE p \in at : TRUE
  IN IF at = {} THEN s ELSE SubSeq(s, 1, p - 1) \o SubSeq(s, p + 1, Len(s))

\* The cursor of a traversal steps back when a hook before it is unlinked.  A
\* list that was put aside keeps the cursors woven into it.
Hooks(i) ==
  IF stack[i].on = "active" /\ \E j \in InitialFrames : j > i /\ stack[j].on = "active"
  THEN saved ELSE list[stack[i].on]

Unhook(i, l) ==
  IF \E p \in 1 .. stack[i].cur : Hooks(i)[p] = l
  THEN [stack[i] EXCEPT !.cur = @ - 1] ELSE stack[i]

\* The host unlinks a hook, its own or another one.
RemoveListener(l) ==
  /\ HostRuns /\ l \in live
  /\ live' = live \ {l}
  /\ list' = [x \in DOMAIN list |-> Without(list[x], l)]
  /\ saved' = Without(saved, l)
  /\ stack' = [i \in DOMAIN stack |-> Unhook(i, l)]
  /\ UNCHANGED <<ver, queue, dispatching, heard, fresh, calls>>

HostCall ==
  \/ \E ks \in {{"node"}, {"port"}, Kinds} : Change(ks)
  \/ Sync \/ EnumParams
  \/ \E l \in Listeners : AddListener(l) \/ RemoveListener(l)
Step == \/ Call \/ DrainNext \/ DrainActivate \/ DrainEnd \/ ResultEnd
        \/ InitialNext \/ InitialEnd

Next == HostCall \/ Step

\* The host's callbacks return.
Spec == Init /\ [][Next]_vars
FairSpec == Spec /\ WF_vars(Step)
------------------------------------------------------------------------------
TypeOK ==
  /\ ver \in [Kinds -> Nat] /\ heard \in [Listeners -> [Kinds -> Nat]]
  /\ dispatching \in BOOLEAN /\ calls \in 0 .. MaxCalls
  /\ list \in [{"active"} \cup Listeners -> Seq(Listeners)] /\ saved \in Seq(Listeners)
  /\ fresh \subseteq Listeners /\ live \subseteq Listeners \ fresh
  /\ \A i \in DOMAIN queue : queue[i].type \in Kinds \cup {"done", "activate"}
  /\ \A i \in DOMAIN stack : stack[i].op \in {"drain", "initial", "result"}
                              /\ stack[i].cur \in 0 .. Len(Hooks(i))

\* The dispatch turn has one owner while dispatching is up and none otherwise;
\* what its callbacks queue waits for it ("the outer owner completes its
\* current transaction before draining the nested one").
OneDispatcher ==
  /\ Cardinality({i \in DOMAIN stack : stack[i].claim}) = IF dispatching THEN 1 ELSE 0
  /\ \A i \in DOMAIN stack : stack[i].op = "drain" => stack[i].claim

\* What a listener is still going to be given: the rest of its initial
\* snapshots, the notification being emitted if the cursor has not passed it,
\* and the queue from its activation on.
FromInitial(l) ==
  LET mine == {i \in InitialFrames : l \in Range(list[stack[i].on])}
      f == stack[CHOOSE i \in mine : TRUE]
  IN IF mine = {} THEN <<>>
     ELSE IF f.cur = 0 THEN <<f.note>> \o f.rest ELSE f.rest

FromDrain(l) ==
  LET ds == {i \in DOMAIN stack : stack[i].op = "drain"}
      f == stack[CHOOSE i \in ds : TRUE]
  IN IF ds # {} /\ \E p \in f.cur + 1 .. Len(list["active"]) : list["active"][p] = l
     THEN <<f.note>> ELSE <<>>

FromQueue(l) ==
  LET b == {i \in DOMAIN queue : queue[i] = Note("activate", l)}
  IN IF b = {} THEN queue ELSE SubSeq(queue, (CHOOSE i \in b : TRUE) + 1, Len(queue))

\* The notifications of a kind run up to a version, each one further than the
\* one before it.
UpTo(s, k, v) ==
  LET of == {i \in DOMAIN s : s[i].type = k}
  IN /\ of # {}
     /\ \A i \in of : (\A j \in of : j <= i) => s[i].what = v
     /\ \A i, j \in of : i < j /\ (\A m \in of : m <= i \/ j <= m) =>
          s[j].what = s[i].what + 1

\* A listener starts with one snapshot of each kind and is then given every
\* later one exactly once and in order, up to the latest: none is skipped,
\* repeated or overtaken, whoever adds, removes and changes what in whichever
\* callback ("older notifications stay ahead of the new listener, while
\* anything those callbacks queue lands after it").
GapFree ==
  \A l \in live, k \in Kinds :
    LET old == IF heard[l][k] = 0 THEN <<>> ELSE <<Note(k, heard[l][k])>>
    IN UpTo((old \o FromInitial(l)) \o (FromDrain(l) \o FromQueue(l)), k, ver[k])

\* A sync answer reaches a listener with exactly the changes that were made
\* before the sync: none is still to come, none has overtaken it.
DoneIsExact ==
  \A i \in DOMAIN stack :
    stack[i].note.type = "done" =>
      \A l \in Range(list["active"]) : heard[l] = stack[i].note.what

\* The two initial snapshots are one state of the node: no callback of the new
\* listener and no other emission comes between them ("Reentrant mutations
\* queue behind both snapshots instead of publishing newer state between
\* them").
InitialIsAtomic ==
  \A i \in InitialFrames, l \in Listeners :
    l \in Range(list[stack[i].on]) =>
      /\ \A j \in DOMAIN stack : j > i => stack[j].op # "drain"
      /\ stack[i].rest # <<>> => heard[l]["port"] = 0

\* What a new listener asks for in its initial callbacks is answered to it
\* alone ("Direct result emissions must follow that isolated cohort too,
\* including through nested listener registration").
ResultStaysLocal ==
  \A i \in DOMAIN stack :
    i > 1 /\ stack[i].op = "result" /\ stack[i - 1].op = "initial" =>
      Range(list[stack[i].on]) = Range(list[stack[i - 1].on])
        /\ Cardinality(Range(list[stack[i].on])) <= 1

\* Re-entrant transactions do not mix: one drain at a time, both initial
\* snapshots without anything in between, and results only to who asked.
TransactionsStayWhole == OneDispatcher /\ InitialIsAtomic /\ ResultStaysLocal

\* When the host's call has returned, everybody knows everything: no
\* notification waits, no listener is left in a cohort or put aside, and each
\* has heard of the latest change.
ReturnedIsSettled ==
  stack = <<>> =>
    /\ queue = <<>> /\ ~dispatching /\ saved = <<>>
    /\ Range(list["active"]) = live /\ Len(list["active"]) = Cardinality(live)
    /\ \A l \in live : heard[l] = ver

\* Every call of the host returns in the end, however its callbacks nest.
CallsReturn == []<>(stack = <<>>)
==============================================================================
