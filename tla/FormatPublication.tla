------------------------- MODULE FormatPublication -------------------------
(***************************************************************************)
(* Whether the port has a format is decided on the data loop, where a      *)
(* failed background rebuild clears it in the middle of a cycle, and told  *)
(* to the host from the main loop.  The failed rebuild sends a FormatLost  *)
(* task that carries the publication epoch it saw, so that a loss that is  *)
(* older than the latest publication is dropped.                           *)
(*                                                                         *)
(* The rebuild protocol is Rebuild's; of it this module keeps the lease,   *)
(* which stops the data loop from consuming a completion, and the outcome  *)
(* of an open.                                                             *)
(***************************************************************************)
EXTENDS Naturals, Sequences

CONSTANTS
  HostOps,      \* the operations the host uses
  StoppedOnly,  \* the host sets formats and properties on a stopped node only
  MaxEpoch      \* bound on the publications the host asks for

AllHostOps == {"start", "pause", "format", "release", "suspend", "props"}

ASSUME HostOpsAssumption == HostOps \subseteq AllHostOps
ASSUME StoppedOnlyAssumption == StoppedOnly \in BOOLEAN
ASSUME MaxEpochAssumption == MaxEpoch \in Nat

VARIABLES
  config,      \* whether port.config is Some (data loop)
  started,     \* DataState.started
  lease,       \* DataState.rebuild_takeover
  event,       \* DataState.pending_main_event: {} or the epoch it carries
  tasks,       \* FormatLost tasks on their way to the main loop
  loopOk,      \* the data loop accepts closures
  epoch,       \* FormatPublication
  advertised,  \* whether the port info shows a readable Format
  mpc, mop,    \* where the main loop is, and in which operation
  rate         \* what that operation is about to publish

dataVars == <<config, started, lease, event>>
mainVars == <<mpc, mop, rate>>
portVars == <<config, started, lease, event, tasks, loopOk, epoch, advertised, mpc, mop, rate>>

PortInit ==
  /\ config = FALSE /\ started = FALSE /\ lease = FALSE /\ event = {}
  /\ tasks = <<>> /\ loopOk = TRUE
  /\ epoch = 0 /\ advertised = FALSE
  /\ mpc = "idle" /\ mop = "none" /\ rate = FALSE

------------------------------------------------------------------------------
(* The data loop *)

\* poll_rebuild_completion, the Failed arm: the format is gone.
ConsumeFailed ==
  /\ loopOk /\ started /\ ~lease /\ config /\ event = {}
  /\ config' = FALSE /\ event' = {epoch}
  /\ UNCHANGED <<started, lease, tasks, loopOk, epoch, advertised, mainVars>>

\* process hands the event to the main loop once its State phase has ended.
QueueMainEvent ==
  /\ \E e \in event : tasks' = Append(tasks, e)
  /\ event' = {}
  /\ UNCHANGED <<config, started, lease, loopOk, epoch, advertised, mainVars>>

LoopFails ==
  /\ loopOk /\ event = {}
  /\ loopOk' = FALSE
  /\ UNCHANGED <<dataVars, tasks, epoch, advertised, mainVars>>

------------------------------------------------------------------------------
(* The main loop *)

\* A closure runs between cycles; process has queued its event by then.
ClosureRuns == loopOk /\ event = {}

Called(op) ==
  /\ mpc = "idle" /\ op \in HostOps /\ mop' = op
  /\ op \in {"format", "release", "props"} => epoch < MaxEpoch /\ (StoppedOnly => ~started)
  /\ op = "suspend" => epoch < MaxEpoch

Return == mpc' = "idle" /\ mop' = "none" /\ rate' = FALSE

Start ==
  /\ mpc = "idle" /\ "start" \in HostOps /\ ClosureRuns /\ config
  /\ started' = TRUE
  /\ UNCHANGED <<config, lease, event, tasks, loopOk, epoch, advertised, mainVars>>

\* Pause and Suspend stop the cycles and lease the protocol in one closure.
PauseFence ==
  /\ Called("pause") /\ ClosureRuns
  /\ started' = FALSE /\ lease' = TRUE /\ mpc' = "unlease"
  /\ UNCHANGED <<config, event, tasks, loopOk, epoch, advertised, rate>>

SuspendFence ==
  /\ Called("suspend") /\ ClosureRuns
  /\ started' = FALSE /\ config' = FALSE /\ lease' = TRUE /\ mpc' = "unlease"
  /\ UNCHANGED <<event, tasks, loopOk, epoch, advertised, rate>>

\* release_format
ReleaseFence ==
  /\ Called("release") /\ ClosureRuns
  /\ config' = FALSE /\ lease' = TRUE /\ mpc' = "unlease"
  /\ UNCHANGED <<started, event, tasks, loopOk, epoch, advertised, rate>>

\* release_rebuild_takeover; Suspend publishes even when the loop refused it.
Unlease ==
  /\ mpc = "unlease"
  /\ \/ ClosureRuns /\ lease' = FALSE
     \/ ~loopOk /\ UNCHANGED lease
  /\ \/ mop = "pause" /\ Return
     \/ mop = "suspend" /\ mpc' = "publish" /\ UNCHANGED <<mop, rate>>
     \/ mop = "release" /\ loopOk /\ mpc' = "query" /\ UNCHANGED <<mop, rate>>
     \/ mop = "release" /\ ~loopOk /\ Return
  /\ UNCHANGED <<config, started, event, tasks, loopOk, epoch, advertised>>

\* store_and_rebuild reads the config it is going to rebuild with.
PropsRead ==
  /\ Called("props") /\ ClosureRuns /\ config
  /\ mpc' = "fence"
  /\ UNCHANGED <<dataVars, tasks, loopOk, epoch, advertised, rate>>

\* install_device: the lease
InstallFence ==
  /\ \/ Called("format")
     \/ mpc = "fence" /\ UNCHANGED mop
  /\ ClosureRuns
  /\ lease' = TRUE /\ mpc' = "install"
  /\ UNCHANGED <<config, started, event, tasks, loopOk, epoch, advertised, rate>>

\* Mutant: a refused rebuild returns without telling anybody.
AfterInstallQuiet(installed) ==
  \/ mop = "format" /\ mpc' = "query" /\ UNCHANGED <<mop, rate>>
  \/ mop = "props" /\ Return

\* A format change goes on to publish; a property change only tells a loss.
AfterInstall(installed) ==
  \/ mop = "format" /\ mpc' = "query" /\ UNCHANGED <<mop, rate>>
  \/ mop = "props" /\ installed /\ Return
  \/ mop = "props" /\ ~installed /\ mpc' = "lost" /\ UNCHANGED <<mop, rate>>

\* install_device: the swap closure, with what the open gave
InstallSwap ==
  /\ mpc = "install" /\ ClosureRuns
  /\ config' \in BOOLEAN /\ lease' = FALSE
  /\ AfterInstall(config')
  /\ UNCHANGED <<started, event, tasks, loopOk, epoch, advertised>>

\* A loop that refuses install_device: the port keeps its old state.
InstallRefused ==
  /\ mpc \in {"fence", "install"} /\ ~loopOk
  /\ AfterInstall(FALSE)
  /\ UNCHANGED <<dataVars, tasks, loopOk, epoch, advertised>>

\* port_set_param_inner asks the data loop for what it will publish.
QueryRate ==
  /\ mpc = "query"
  /\ \/ ClosureRuns /\ rate' = config /\ mpc' = "publish" /\ UNCHANGED mop
     \/ ~loopOk /\ Return
  /\ UNCHANGED <<dataVars, tasks, loopOk, epoch, advertised>>

\* publish_format_state: the snapshot is queued, then the epoch advances.
Publish ==
  /\ mpc = "publish"
  /\ advertised' = rate /\ mpc' = "advance"
  /\ UNCHANGED <<dataVars, tasks, loopOk, epoch, mop, rate>>

\* record_format_lost, from a refused property rebuild or from a FormatLost task
RecordLost ==
  /\ mpc = "lost"
  /\ advertised' = FALSE /\ mpc' = "advance"
  /\ UNCHANGED <<dataVars, tasks, loopOk, epoch, mop, rate>>

AdvanceEpoch ==
  /\ mpc = "advance"
  /\ epoch' = epoch + 1
  /\ Return
  /\ UNCHANGED <<dataVars, tasks, loopOk, advertised>>

\* Mutants: a loss of any age is announced; a loss is never announced.
LossIsCurrentAlways(e) == TRUE
LossIsCurrentNever(e) == FALSE

\* emit_format_lost_now compares the epoch the loss was recorded under.
LossIsCurrent(e) == epoch = e

\* deliver_on_main, between two operations of the host
DeliverLost ==
  /\ mpc = "idle" /\ tasks # <<>>
  /\ tasks' = Tail(tasks)
  /\ mpc' = IF LossIsCurrent(Head(tasks)) THEN "lost" ELSE "idle"
  /\ UNCHANGED <<dataVars, loopOk, epoch, advertised, mop, rate>>

\* A node whose loop has failed refuses whatever the host asks of it.
CallRefused == mpc = "idle" /\ ~loopOk /\ UNCHANGED portVars

DataLoop == ConsumeFailed \/ QueueMainEvent \/ LoopFails
MainCall == Start \/ PauseFence \/ SuspendFence \/ ReleaseFence \/ PropsRead
            \/ (mpc = "idle" /\ InstallFence) \/ CallRefused
MainStep == \/ Unlease \/ (mpc = "fence" /\ InstallFence) \/ InstallSwap
            \/ InstallRefused \/ QueryRate \/ Publish \/ RecordLost
            \/ AdvanceEpoch \/ DeliverLost

PortNext == DataLoop \/ MainCall \/ MainStep

PortSpec == PortInit /\ [][PortNext]_portVars

\* Operations that have begun run on; between the host's calls the main loop
\* gets to its tasks.
FairPortSpec ==
  PortSpec /\ WF_portVars(QueueMainEvent) /\ WF_portVars(MainStep) /\ SF_portVars(DeliverLost)

------------------------------------------------------------------------------
PortTypeOK ==
  /\ config \in BOOLEAN /\ started \in BOOLEAN /\ lease \in BOOLEAN
  /\ event \in SUBSET Nat /\ tasks \in Seq(Nat) /\ loopOk \in BOOLEAN
  /\ epoch \in Nat /\ advertised \in BOOLEAN
  /\ mpc \in {"idle", "unlease", "fence", "install", "query", "publish", "lost", "advance"}
  /\ mop \in AllHostOps \cup {"none"} /\ rate \in BOOLEAN

\* A loss report that the main loop will accept is on its way.
LossUnderWay ==
  \/ epoch \in event
  \/ \E i \in 1 .. Len(tasks) : tasks[i] = epoch

\* A dead port is advertised as dead, or the report is on its way: the host
\* never keeps "believing a format is set on a dead port" (the comments in
\* store_and_rebuild and on the Failed arm of poll_rebuild_completion).
DeadIsKnown == mpc = "idle" /\ loopOk /\ ~config => ~advertised \/ LossUnderWay

\* A format that was negotiated after a loss is never hidden by the late
\* report of that loss: "a newer successful format publication cannot be
\* overwritten by a stale task" (the comment on NodeEvents.format_publication).
LostIsLost == mpc = "idle" /\ loopOk /\ ~advertised => ~config

\* What the two agree on inside an operation, on a node that is negotiated
\* while it is stopped.
Published ==
  /\ mpc = "idle" \/ (mpc = "unlease" /\ mop = "pause") =>
       /\ ~config => ~advertised \/ LossUnderWay
       /\ ~advertised => ~config
       /\ LossUnderWay => ~config
  /\ mpc = "unlease" /\ mop # "pause" => ~config
  /\ mpc = "fence" \/ (mpc = "install" /\ mop = "props") =>
       config /\ advertised /\ ~LossUnderWay
  /\ mpc = "publish" => rate = config
  /\ mpc = "lost" => ~config
  /\ mpc = "advance" => advertised = config /\ (mop = "none" => ~config)

\* Losses are never younger than the epoch, and only a running node loses its
\* format; operations other than Start find or leave the node stopped.
LossShape ==
  /\ \A e \in event : e <= epoch
  /\ \A i \in 1 .. Len(tasks) : tasks[i] <= epoch
  /\ \A e, f \in event : e = f
  /\ event # {} => started /\ ~config /\ loopOk

OpShape ==
  /\ mop # "none" => ~started
  /\ mop = "none" => mpc \in {"idle", "lost", "advance"}
  /\ mpc = "idle" => mop = "none" /\ ~rate
  /\ mpc = "unlease" => mop \in {"pause", "suspend", "release"}
  /\ mpc = "fence" => mop = "props"
  /\ mpc = "install" => mop \in {"format", "props"}
  /\ mpc = "query" => mop \in {"format", "release"}
  /\ mpc = "publish" => mop \in {"format", "release", "suspend"}
  /\ mop = "suspend" => ~rate

\* The inductive invariant behind the two agreements.
PublicationInv == PortTypeOK /\ LossShape /\ OpShape /\ (loopOk => Published)

\* A failed rebuild is announced to the host in the end.
DeadIsAnnounced == (loopOk /\ ~config /\ advertised) ~> (~loopOk \/ config \/ ~advertised)
============================================================================
