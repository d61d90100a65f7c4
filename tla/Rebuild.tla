------------------------------- MODULE Rebuild -------------------------------
(***************************************************************************)
(* The device-rebuild protocol of one playback node, with its three        *)
(* threads:                                                                *)
(*                                                                         *)
(*   - the real-time DATA LOOP, which runs process() cycles and the        *)
(*     closures that the main loop hands it (DataControl::query);          *)
(*   - the blocking-I/O WORKER, which opens replacement devices and closes *)
(*     retired ones;                                                       *)
(*   - the MAIN LOOP, where the host calls Start, Pause, Suspend, format   *)
(*     changes, property changes and clear, one at a time.                 *)
(*                                                                         *)
(* The data loop gives the worker owned commands through a one-place work  *)
(* slot (and keeps at most one more in deferred_work); the worker answers  *)
(* through a one-place completion mailbox; a main-loop operation takes the *)
(* protocol over with a lease (rebuild_takeover), quiesces the worker and  *)
(* drains the mailbox before it touches the device.                        *)
(*                                                                         *)
(* A closure run by DataControl::query is one action: the loop thread runs *)
(* it between cycles.  A cycle is several actions, cut wherever the worker *)
(* can change the slot or the mailbox between two looks at them.           *)
(***************************************************************************)
EXTENDS Integers, FiniteSets

CONSTANTS
  GenModulus,   \* the generation counter wraps here (2^64 in the code)
  Exclusive,    \* the device node admits one open descriptor at a time
  HostOps,      \* the operations the host uses
  LoopMayFail   \* whether the data loop may stop accepting closures

AllHostOps == {"start", "pause", "suspend", "release", "format", "props",
               "buffers", "clear"}

ASSUME GenModulusAssumption == GenModulus \in Nat /\ GenModulus > 1
ASSUME FlagAssumption == Exclusive \in BOOLEAN /\ LoopMayFail \in BOOLEAN
ASSUME HostOpsAssumption == HostOps \subseteq AllHostOps

(***************************************************************************)
(* A stream descriptor as the protocol sees it: closed; open and primable; *)
(* running with a known queue; running with a queue that a refused pause   *)
(* and a refused reset left unknown; running with audio appended behind    *)
(* such a queue.                                                           *)
(***************************************************************************)
Device == {"closed", "setup", "running", "unknown", "mixed"}
Running(d) == d \in {"running", "unknown", "mixed"}

Generation == 0 .. GenModulus - 1

\* RebuildWork: a rebuild order, or a device (or superseded completion) to close.
Work == [kind : {"none", "rebuild", "retire"}, gen : Generation,
         retried : BOOLEAN, dev : Device]
NoWork == [kind |-> "none", gen |-> 0, retried |-> FALSE, dev |-> "closed"]
RebuildOrder(g, retried, dev) ==
  [kind |-> "rebuild", gen |-> g, retried |-> retried, dev |-> dev]
Retirement(dev) ==
  [kind |-> "retire", gen |-> 0, retried |-> FALSE, dev |-> dev]

\* DeviceSwap: the completion in the mailbox; only "installed" owns a device.
Outcome == {"installed", "aborted", "retry", "failed"}
Swap == [outcome : Outcome \cup {"none"}, gen : Generation, dev : Device]
NoSwap == [outcome |-> "none", gen |-> 0, dev |-> "closed"]

VARIABLES
  \* DataState and its only port; touched on the data loop alone
  dpc,         \* where the running cycle is; "idle" between cycles
  started,     \* DataState.started
  takeover,    \* DataState.rebuild_takeover
  deferred,    \* DataState.deferred_work
  config,      \* whether port.config is Some
  buffers,     \* whether port.buffers is non-empty
  dsp,         \* port.dsp
  pending,     \* port.rebuild_pending
  gen,         \* port.generation and its mirror in NodeShared
  required,    \* port.rebuild_required
  afterStart,  \* port.ext.rebuild_after_start
  \* NodeShared
  alive, sStarted, mailbox,
  \* RebuildWorkSlot: the command, WORK_CLOSED, and the stopping flag
  slot, slotClosed, stopping,
  \* the worker thread
  wpc, wwork, wdev, wout,
  \* the main loop: the operation it is in and what that operation holds
  mpc, mop, wasStarted, mdev, mdrop, mnew, mres,
  \* the environment: the loop accepts closures; the host still drives the node
  loopOk, driven

portVars   == <<config, buffers, dsp, gen, required, afterStart>>
queueVars  == <<slot, deferred, pending>>
sharedVars == <<alive, sStarted, mailbox>>
stopVars   == <<slotClosed, stopping>>
workerVars == <<wpc, wwork, wdev, wout>>
heldVars   == <<wasStarted, mdev, mdrop, mnew, mres>>
mainVars   == <<mpc, mop, wasStarted, mdev, mdrop, mnew, mres>>
envVars    == <<loopOk, driven>>
vars == <<dpc, started, takeover, portVars, queueVars, sharedVars, stopVars,
          workerVars, mainVars, envVars>>

Init ==
  /\ dpc = "idle" /\ started = FALSE /\ takeover = FALSE /\ deferred = NoWork
  /\ config = FALSE /\ buffers = FALSE /\ dsp = "closed" /\ pending = FALSE
  /\ gen = 0 /\ required = FALSE /\ afterStart = FALSE
  /\ alive = TRUE /\ sStarted = FALSE /\ mailbox = NoSwap
  /\ slot = NoWork /\ slotClosed = FALSE /\ stopping = FALSE
  /\ wpc = "idle" /\ wwork = NoWork /\ wdev = "closed" /\ wout = "none"
  /\ mpc = "idle" /\ mop = "none" /\ wasStarted = FALSE
  /\ mdev = "closed" /\ mdrop = "closed" /\ mnew = "closed" /\ mres = "none"
  /\ loopOk = TRUE /\ driven = TRUE

\* port.generation.wrapping_add(1)
NextGen(g) == IF g = GenModulus - 1 THEN 0 ELSE g + 1

(***************************************************************************)
(* Every place that can own a descriptor, and the ones that own an open    *)
(* one.                                                                    *)
(***************************************************************************)
Owned == [port |-> dsp, deferred |-> deferred.dev, slot |-> slot.dev,
          order |-> wwork.dev, opened |-> wdev, mailbox |-> mailbox.dev,
          retired |-> mdev, dropped |-> mdrop, fresh |-> mnew]
OpenFds == {p \in DOMAIN Owned : Owned[p] # "closed"}

\* What try_open_configure may return while we hold the descriptors fds open:
\* an exclusive device node refuses a second one.
OpenResults(fds) ==
  IF Exclusive /\ fds # {} THEN {"busy", "failed"}
                           ELSE {"ok", "busy", "failed"}

------------------------------------------------------------------------------
(* Handing work to the worker: never blocks, never drops a command. *)

SlotFree == slot = NoWork /\ ~slotClosed

\* flush_deferred_work: whether nothing stays retained, and the slot after it
Flushed == deferred = NoWork \/ SlotFree
FlushedSlot == IF deferred # NoWork THEN deferred ELSE slot

\* submit_or_defer, from slot contents s and retained work d
SubmitOrDefer(s, d, w) ==
  IF s = NoWork /\ ~slotClosed
  THEN slot' = w /\ deferred' = d
  ELSE slot' = s /\ deferred' = w

\* whether queue_rebuild puts an order in flight
RebuildQueued == ~takeover /\ Flushed /\ config

QueueRebuild ==
  IF ~takeover /\ Flushed
  THEN IF config
       THEN /\ SubmitOrDefer(FlushedSlot, NoWork, RebuildOrder(gen, FALSE, "closed"))
            /\ pending' = TRUE
       ELSE /\ slot' = FlushedSlot /\ deferred' = NoWork
            /\ UNCHANGED pending
  ELSE UNCHANGED queueVars

QueueRequired == IF required /\ ~pending THEN QueueRebuild ELSE UNCHANGED queueVars

------------------------------------------------------------------------------
(* The data loop *)

\* end_buffer_sequence may reset a running stream whose open frame it cannot close.
SequenceEnd(d) == IF Running(d) THEN {d, "setup"} ELSE {d}

\* A write arms a primed stream; behind an unknown queue it mixes with it.
Written(d) == CASE d = "setup" -> "running" [] d = "unknown" -> "mixed" [] OTHER -> d

\* process_data_cycle up to process_ports
CycleBegin ==
  /\ dpc = "idle" /\ loopOk /\ driven /\ started
  /\ QueueRequired
  /\ dpc' = "ports"
  /\ UNCHANGED <<started, takeover, portVars, sharedVars, stopVars, workerVars,
                 mainVars, envVars>>

\* A freewheeling cycle consumes its input and never looks at the mailbox.
CycleFreewheel ==
  /\ dpc = "ports"
  /\ dsp' \in SequenceEnd(dsp)
  /\ dpc' = "end"
  /\ UNCHANGED <<started, takeover, config, buffers, gen, required, afterStart,
                 queueVars, sharedVars, stopVars, workerVars, mainVars, envVars>>

\* poll_rebuild up to the mailbox: the lease or a retained command skips the port.
CyclePoll ==
  /\ dpc = "ports"
  /\ IF takeover \/ ~Flushed
     THEN /\ dsp' \in SequenceEnd(dsp)
          /\ dpc' = "end"
          /\ UNCHANGED queueVars
     ELSE /\ slot' = FlushedSlot /\ deferred' = NoWork
          /\ dpc' = "take"
          /\ UNCHANGED <<dsp, pending>>
  /\ UNCHANGED <<started, takeover, config, buffers, gen, required, afterStart,
                 sharedVars, stopVars, workerVars, mainVars, envVars>>

\* No completion yet: a pending rebuild skips the port.
TakeNothing ==
  /\ dpc = "take" /\ mailbox = NoSwap
  /\ IF pending THEN dsp' \in SequenceEnd(dsp) /\ dpc' = "end"
                ELSE dpc' = "port" /\ UNCHANGED dsp
  /\ UNCHANGED <<started, takeover, config, buffers, gen, required, afterStart,
                 queueVars, sharedVars, stopVars, workerVars, mainVars, envVars>>

\* Mutant: the replaced device is destroyed on the data loop.
ApplyInstalledDropsOld ==
  /\ mailbox.outcome = "installed"
  /\ dsp' = mailbox.dev /\ config' = TRUE /\ gen' = NextGen(gen)
  /\ pending' = FALSE /\ required' = FALSE /\ afterStart' = FALSE
  /\ dpc' = "port"
  /\ UNCHANGED <<slot, deferred>>

\* Mutant: an aborted rebuild keeps its claim.
ApplyAbortedKeepsClaim ==
  /\ mailbox.outcome = "aborted"
  /\ dsp' \in SequenceEnd(dsp)
  /\ dpc' = "end"
  /\ UNCHANGED <<config, gen, pending, required, afterStart, slot, deferred>>

\* The arms of poll_rebuild_completion.
ApplyInstalled ==
  /\ mailbox.outcome = "installed"
  /\ dsp' = mailbox.dev /\ config' = TRUE /\ gen' = NextGen(gen)
  /\ pending' = FALSE /\ required' = FALSE /\ afterStart' = FALSE
  /\ SubmitOrDefer(slot, deferred, Retirement(dsp))
  /\ dpc' = "port"

ApplyAborted ==
  /\ mailbox.outcome = "aborted"
  /\ pending' = FALSE
  /\ dsp' \in SequenceEnd(dsp)
  /\ dpc' = "end"
  /\ UNCHANGED <<config, gen, required, afterStart, slot, deferred>>

ApplyRetireAndRetry ==
  /\ mailbox.outcome = "retry"
  /\ required' = FALSE /\ dsp' = "closed"
  /\ SubmitOrDefer(slot, deferred, RebuildOrder(mailbox.gen, TRUE, dsp))
  /\ dpc' = "end"
  /\ UNCHANGED <<config, gen, pending, afterStart>>

ApplyFailed ==
  /\ mailbox.outcome = "failed"
  /\ dsp' = "closed" /\ config' = FALSE /\ gen' = NextGen(gen)
  /\ pending' = FALSE /\ required' = FALSE /\ afterStart' = FALSE
  /\ SubmitOrDefer(slot, deferred, Retirement(dsp))
  /\ dpc' = "end"

\* A superseded completion goes back to the worker, device and all.
RetireStale ==
  /\ SubmitOrDefer(slot, deferred, Retirement(mailbox.dev))
  /\ dpc' = IF pending THEN "end" ELSE "port"
  /\ UNCHANGED <<dsp, config, gen, pending, required, afterStart>>

TakeCompletion ==
  /\ dpc = "take" /\ mailbox # NoSwap
  /\ mailbox' = NoSwap
  /\ IF mailbox.gen # gen
     THEN RetireStale
     ELSE ApplyInstalled \/ ApplyAborted \/ ApplyRetireAndRetry \/ ApplyFailed
  /\ UNCHANGED <<started, takeover, buffers, alive, sStarted, stopVars,
                 workerVars, mainVars, envVars>>

(* The rest of process_ports: one action per way through it. *)

PortNotNegotiated ==
  /\ dpc = "port" /\ ~(config /\ buffers)
  /\ dpc' = "end"
  /\ UNCHANGED <<started, takeover, portVars, queueVars, sharedVars, stopVars,
                 workerVars, mainVars, envVars>>

PortClosed ==
  /\ dpc = "port" /\ config /\ buffers /\ dsp = "closed"
  /\ QueueRebuild
  /\ dpc' = "end"
  /\ UNCHANGED <<started, takeover, portVars, sharedVars, stopVars, workerVars,
                 mainVars, envVars>>

\* Neither preserved nor reset at Pause: replace the device before writing.
PortAfterStart ==
  /\ dpc = "port" /\ config /\ buffers /\ dsp # "closed" /\ afterStart
  /\ QueueRebuild
  /\ afterStart' = ~RebuildQueued
  /\ dsp' \in SequenceEnd(dsp)
  /\ dpc' = "end"
  /\ UNCHANGED <<started, takeover, config, buffers, gen, required, sharedVars,
                 stopVars, workerVars, mainVars, envVars>>

PortReady == dpc = "port" /\ config /\ buffers /\ dsp # "closed" /\ ~afterStart

PortNoInput ==
  /\ PortReady
  /\ dsp' \in SequenceEnd(dsp)
  /\ dpc' = "end"
  /\ UNCHANGED <<started, takeover, config, buffers, gen, required, afterStart,
                 queueVars, sharedVars, stopVars, workerVars, mainVars, envVars>>

\* retune_period: the driver refused the trigger stop.
PortRetuneRefused ==
  /\ PortReady /\ Running(dsp) /\ RebuildQueued
  /\ QueueRebuild
  /\ dsp' \in SequenceEnd(dsp)
  /\ dpc' = "end"
  /\ UNCHANGED <<started, takeover, config, buffers, gen, required, afterStart,
                 sharedVars, stopVars, workerVars, mainVars, envVars>>

\* The write; a fatal status latches the rebuild.  A retune that reprimed the
\* stream first emptied its queue and began a new measurement epoch.
PortWrite ==
  /\ PortReady
  /\ \E reprimed \in {FALSE, Running(dsp)}, fatal \in BOOLEAN :
       LET d == Written(IF reprimed THEN "setup" ELSE dsp)
       IN  /\ dsp' \in SequenceEnd(d)
           /\ required' = (fatal \/ (required /\ ~reprimed))
  /\ dpc' = "end"
  /\ UNCHANGED <<started, takeover, config, buffers, gen, afterStart, queueVars,
                 sharedVars, stopVars, workerVars, mainVars, envVars>>

\* process_data_cycle after process_ports
CycleEnd ==
  /\ dpc = "end"
  /\ QueueRequired
  /\ dpc' = "idle"
  /\ UNCHANGED <<started, takeover, portVars, sharedVars, stopVars, workerVars,
                 mainVars, envVars>>

\* on_wake: the registered stream reports a disconnect; claim the rebuild at once.
WakeDisconnect ==
  /\ dpc = "idle" /\ loopOk /\ driven /\ started /\ Running(dsp)
  /\ required' = TRUE
  /\ IF ~pending THEN QueueRebuild ELSE UNCHANGED queueVars
  /\ UNCHANGED <<dpc, started, takeover, config, buffers, dsp, gen, afterStart,
                 sharedVars, stopVars, workerVars, mainVars, envVars>>

Cycle ==
  \/ CyclePoll \/ TakeNothing \/ TakeCompletion
  \/ PortNotNegotiated \/ PortClosed \/ PortAfterStart \/ PortNoInput
  \/ PortRetuneRefused \/ PortWrite \/ CycleEnd

DataLoop == CycleBegin \/ CycleFreewheel \/ Cycle \/ WakeDisconnect

------------------------------------------------------------------------------
(* The worker: rebuild_worker_loop and rebuild_task *)

WorkerIdle(res) == wpc' = res /\ wwork' = NoWork /\ wdev' = "closed" /\ wout' = "none"

\* The active flag is raised under the mutex before the slot is emptied, so
\* "taken" and "active" are one step for the takeover waiter.
WorkerTake ==
  /\ wpc = "idle" /\ slot # NoWork
  /\ wwork' = slot /\ slot' = NoWork /\ wpc' = "run"
  /\ UNCHANGED <<dpc, started, takeover, portVars, deferred, pending, sharedVars,
                 stopVars, wdev, wout, mainVars, envVars>>

\* RetireAndRetry: the dying descriptor closes before the retry opens.
CloseRetired(w) == [w EXCEPT !.dev = "closed"]

\* A stopping worker, a retirement and an order of a cleared node only close;
\* any other order closes its retired descriptor and goes on.
WorkerRun ==
  /\ wpc = "run"
  /\ IF stopping \/ wwork.kind = "retire" \/ ~alive
     THEN WorkerIdle("idle")
     ELSE /\ wpc' = "check" /\ wwork' = CloseRetired(wwork)
          /\ UNCHANGED <<wdev, wout>>
  /\ UNCHANGED <<dpc, started, takeover, portVars, queueVars, sharedVars,
                 stopVars, mainVars, envVars>>

\* rebuild_request_is_current
RequestIsCurrent == alive /\ sStarted /\ gen = wwork.gen

WorkerCheck ==
  /\ wpc = "check"
  /\ IF RequestIsCurrent THEN wpc' = "open" /\ UNCHANGED wout
                         ELSE wpc' = "deposit" /\ wout' = "aborted"
  /\ UNCHANGED <<dpc, started, takeover, portVars, queueVars, sharedVars,
                 stopVars, wwork, wdev, mainVars, envVars>>

WorkerOpen ==
  /\ wpc = "open"
  /\ \E r \in OpenResults(OpenFds) :
       /\ wout' = r
       /\ wdev' = IF r = "ok" THEN "setup" ELSE "closed"
  /\ wpc' = "recheck"
  /\ UNCHANGED <<dpc, started, takeover, portVars, queueVars, sharedVars,
                 stopVars, wwork, mainVars, envVars>>

\* The second look after the blocking open; a superseded device closes here.
WorkerRecheck ==
  /\ wpc = "recheck"
  /\ IF RequestIsCurrent
     THEN /\ wout' = CASE wout = "ok" -> "installed"
                       [] wout = "busy" /\ ~wwork.retried -> "retry"
                       [] OTHER -> "failed"
          /\ UNCHANGED wdev
     ELSE wout' = "aborted" /\ wdev' = "closed"
  /\ wpc' = "deposit"
  /\ UNCHANGED <<dpc, started, takeover, portVars, queueVars, sharedVars,
                 stopVars, wwork, mainVars, envVars>>

\* Mutant: a panicking task dies without an answer.
WorkerPanicUnanswered ==
  /\ wpc \in {"check", "open"}
  /\ WorkerIdle("idle")
  /\ UNCHANGED <<dpc, started, takeover, portVars, queueVars, sharedVars,
                 stopVars, mainVars, envVars>>

\* DepositOnUnwind: a panicking close or open still answers.
WorkerPanic ==
  /\ wpc \in {"check", "open"}
  /\ wout' = "aborted" /\ wpc' = "deposit"
  /\ UNCHANGED <<dpc, started, takeover, portVars, queueVars, sharedVars,
                 stopVars, wwork, wdev, mainVars, envVars>>

\* deposit replaces (and closes) an unconsumed predecessor.
WorkerDeposit ==
  /\ wpc = "deposit"
  /\ mailbox' = [outcome |-> wout, gen |-> wwork.gen, dev |-> wdev]
  /\ WorkerIdle("idle")
  /\ UNCHANGED <<dpc, started, takeover, portVars, queueVars, alive, sStarted,
                 stopVars, mainVars, envVars>>

\* Mutant: the worker takes the closed slot for an empty one and parks.
WorkerExitParks ==
  /\ wpc = "idle" /\ slotClosed /\ ~stopping
  /\ WorkerIdle("exited")
  /\ UNCHANGED <<dpc, started, takeover, portVars, queueVars, sharedVars,
                 stopVars, mainVars, envVars>>

WorkerExit ==
  /\ wpc = "idle" /\ slotClosed
  /\ WorkerIdle("exited")
  /\ UNCHANGED <<dpc, started, takeover, portVars, queueVars, sharedVars,
                 stopVars, mainVars, envVars>>

Worker == WorkerTake \/ WorkerRun \/ WorkerCheck \/ WorkerOpen \/ WorkerRecheck
          \/ WorkerPanic \/ WorkerDeposit \/ WorkerExit

------------------------------------------------------------------------------
(* The main loop.  The host serialises its calls; a closure runs on the data *)
(* loop between cycles, or is refused once the loop has failed.              *)

ClosureRuns == loopOk /\ dpc = "idle"

Called(op) == mpc = "idle" /\ op \in HostOps

Return == mpc' = "idle" /\ mop' = "none" /\ mres' = "none" /\ wasStarted' = FALSE

\* A refused pause and a refused reset leave the queue unknown.
Unknown(d) == IF d = "mixed" THEN d ELSE "unknown"

\* on_start_loop: a failed resume resets the stream, or demands a replacement.
OnStartLoop ==
  LET resumes == ~started /\ ~afterStart /\ Running(dsp)
  IN \/ UNCHANGED <<dsp, required, afterStart>>
     \/ /\ resumes
        /\ dsp' = "setup" /\ required' = FALSE
        /\ UNCHANGED afterStart
     \/ /\ resumes
        /\ dsp' = Unknown(dsp) /\ afterStart' = TRUE
        /\ UNCHANGED required

StartClosure ==
  /\ Called("start") /\ ClosureRuns
  /\ config /\ buffers
  /\ OnStartLoop
  /\ started' = TRUE
  /\ mpc' = "publish" /\ mop' = "start"
  /\ UNCHANGED <<dpc, takeover, config, buffers, gen, queueVars, sharedVars,
                 stopVars, workerVars, heldVars, envVars>>

\* Start publishes only after DataState is fully started.
StartPublish ==
  /\ mpc = "publish"
  /\ sStarted' = TRUE
  /\ Return
  /\ UNCHANGED <<dpc, started, takeover, portVars, queueVars, alive, mailbox,
                 stopVars, workerVars, mdev, mdrop, mnew, envVars>>

\* Pause and Suspend publish the stop before the handoff.
StopPublish ==
  /\ \E op \in {"pause", "suspend"} : Called(op) /\ mop' = op
  /\ wasStarted' = sStarted /\ sStarted' = FALSE
  /\ mpc' = "fence"
  /\ UNCHANGED <<dpc, started, takeover, portVars, queueVars, alive, mailbox,
                 stopVars, workerVars, mdev, mdrop, mnew, mres, envVars>>

\* Mutant: a stop the data loop never saw stays published.
RestoreForgotten == UNCHANGED sStarted

\* restore_started_if_stop_unobserved
RestoreStarted == sStarted' = wasStarted

StopUnobserved ==
  /\ mpc = "fence" /\ ~loopOk
  /\ RestoreStarted
  /\ Return
  /\ UNCHANGED <<dpc, started, takeover, portVars, queueVars, alive, mailbox,
                 stopVars, workerVars, mdev, mdrop, mnew, envVars>>

\* The fence: take the lease, carry retained work away, outdate every order.
TakeLease ==
  /\ takeover' = TRUE /\ pending' = TRUE /\ gen' = NextGen(gen)
  /\ mdrop' = deferred.dev /\ deferred' = NoWork
  /\ mpc' = "drain1"

\* pause_playback on a running stream
PausePlayback ==
  \/ UNCHANGED <<dsp, afterStart>>
  \/ Running(dsp) /\ dsp' = "setup" /\ UNCHANGED afterStart
  \/ Running(dsp) /\ dsp' = Unknown(dsp) /\ afterStart' = TRUE

PauseFence ==
  /\ mpc = "fence" /\ mop = "pause" /\ ClosureRuns
  /\ IF started THEN PausePlayback ELSE UNCHANGED <<dsp, afterStart>>
  /\ started' = FALSE
  /\ TakeLease
  /\ UNCHANGED <<dpc, config, buffers, required, slot, sharedVars, stopVars,
                 workerVars, mop, wasStarted, mdev, mnew, mres, envVars>>

SuspendFence ==
  /\ mpc = "fence" /\ mop = "suspend" /\ ClosureRuns
  /\ started' = FALSE
  /\ mdev' = dsp /\ dsp' = "closed"
  /\ config' = FALSE /\ buffers' = FALSE /\ required' = FALSE /\ afterStart' = FALSE
  /\ TakeLease
  /\ UNCHANGED <<dpc, slot, sharedVars, stopVars, workerVars, mop, wasStarted,
                 mnew, mres, envVars>>

\* release_format: the format is gone before the worker is quiet.
ReleaseFence ==
  /\ Called("release") /\ ClosureRuns
  /\ mdev' = dsp /\ dsp' = "closed"
  /\ config' = FALSE /\ buffers' = FALSE /\ required' = FALSE
  /\ TakeLease /\ mop' = "release"
  /\ UNCHANGED <<dpc, started, afterStart, slot, sharedVars, stopVars,
                 workerVars, wasStarted, mnew, mres, envVars>>

\* store_and_rebuild: a running port is rebuilt with the config read here.
PropsClosure ==
  /\ Called("props") /\ ClosureRuns
  /\ Running(dsp) /\ config
  /\ mpc' = "props" /\ mop' = "props"
  /\ UNCHANGED <<dpc, started, takeover, portVars, queueVars, sharedVars,
                 stopVars, workerVars, heldVars, envVars>>

\* install_device, for a format the host sets or for changed properties
InstallFence ==
  /\ \/ Called("format") /\ mop' = "format"
     \/ mpc = "props" /\ mop' = "props"
  /\ ClosureRuns
  /\ TakeLease
  /\ UNCHANGED <<dpc, started, config, buffers, dsp, required, afterStart, slot,
                 sharedVars, stopVars, workerVars, wasStarted, mdev, mnew, mres,
                 envVars>>

InstallRefused ==
  /\ mpc = "props" /\ ~loopOk
  /\ Return
  /\ UNCHANGED <<dpc, started, takeover, portVars, queueVars, sharedVars,
                 stopVars, workerVars, mdev, mdrop, mnew, envVars>>

\* Mutant: the mailbox keeps its completion.
DiscardForgotten == UNCHANGED mailbox

\* discard_swap: void an undelivered completion; its device closes on this thread
DiscardSwap == mailbox' = NoSwap

\* Mutant: a waiter that looks at one of the two conditions.
WorkerQuietActiveOnly == wpc = "idle"

\* What wait_idle waits for: no active command and an empty slot.
WorkerQuiet == wpc = "idle" /\ slot = NoWork

\* Retained work and a released device die here; then the first discard_swap.
Drain1 ==
  /\ mpc = "drain1"
  /\ mdrop' = "closed"
  /\ mdev' = IF mop = "release" THEN "closed" ELSE mdev
  /\ DiscardSwap
  /\ mpc' = "wait"
  /\ UNCHANGED <<dpc, started, takeover, portVars, queueVars, alive, sStarted,
                 stopVars, workerVars, mop, wasStarted, mnew, mres, envVars>>

\* wait_idle: every command published before the lease has been processed.
WaitIdle ==
  /\ mpc = "wait"
  /\ WorkerQuiet
  /\ mpc' = "drain2"
  /\ UNCHANGED <<dpc, started, takeover, portVars, queueVars, sharedVars,
                 stopVars, workerVars, mop, heldVars, envVars>>

\* The second discard_swap catches what the worker deposited meanwhile.
Drain2 ==
  /\ mpc = "drain2"
  /\ DiscardSwap
  /\ mpc' = CASE mop \in {"format", "props"} -> "open"
              [] mop = "suspend" -> "close"
              [] OTHER -> "release"
  /\ UNCHANGED <<dpc, started, takeover, portVars, queueVars, alive, sStarted,
                 stopVars, workerVars, mop, heldVars, envVars>>

SuspendClose ==
  /\ mpc = "close"
  /\ mdev' = "closed"
  /\ mpc' = "release"
  /\ UNCHANGED <<dpc, started, takeover, portVars, queueVars, sharedVars,
                 stopVars, workerVars, mop, wasStarted, mdrop, mnew, mres, envVars>>

\* release_rebuild_takeover; a failed loop keeps the lease nobody can see
ReleaseLease ==
  /\ mpc = "release"
  /\ \/ ClosureRuns /\ takeover' = FALSE /\ pending' = FALSE
     \/ ~loopOk /\ UNCHANGED <<takeover, pending>>
  /\ Return
  /\ UNCHANGED <<dpc, started, portVars, slot, deferred, sharedVars, stopVars,
                 workerVars, mdev, mdrop, mnew, envVars>>

\* The main thread's open; a refused one retires our own descriptor and retries.
InstallOpen ==
  /\ mpc = "open"
  /\ \E r \in OpenResults(OpenFds) :
       /\ mres' = r
       /\ mnew' = IF r = "ok" THEN "setup" ELSE "closed"
       /\ mpc' = IF r = "busy" THEN "retire" ELSE "swap"
  /\ UNCHANGED <<dpc, started, takeover, portVars, queueVars, sharedVars,
                 stopVars, workerVars, mop, wasStarted, mdev, mdrop, envVars>>

InstallRetire ==
  /\ mpc = "retire"
  /\ \/ ClosureRuns /\ mdev' = dsp /\ dsp' = "closed" /\ mpc' = "reopen"
     \/ ~loopOk /\ mpc' = "release" /\ UNCHANGED <<mdev, dsp>>
  /\ UNCHANGED <<dpc, started, takeover, config, buffers, gen, required,
                 afterStart, queueVars, sharedVars, stopVars, workerVars, mop,
                 wasStarted, mdrop, mnew, mres, envVars>>

InstallReopen ==
  /\ mpc = "reopen"
  /\ mdev' = "closed"
  /\ \E r \in OpenResults(OpenFds \ {"retired"}) :
       /\ mres' = r
       /\ mnew' = IF r = "ok" THEN "setup" ELSE "closed"
  /\ mpc' = "swap"
  /\ UNCHANGED <<dpc, started, takeover, portVars, queueVars, sharedVars,
                 stopVars, workerVars, mop, wasStarted, mdrop, envVars>>

\* The swap closure installs the device, or the failure, and ends the lease.
InstallSwap ==
  /\ mpc = "swap"
  /\ \/ /\ ClosureRuns
        /\ mdev' = dsp /\ dsp' = mnew /\ mnew' = "closed"
        /\ config' = (mres = "ok")
        /\ gen' = NextGen(gen) /\ pending' = FALSE /\ takeover' = FALSE
        /\ required' = FALSE /\ afterStart' = FALSE
        /\ mpc' = "drop"
     \/ /\ ~loopOk
        /\ mnew' = "closed" /\ mpc' = "release"
        /\ UNCHANGED <<mdev, dsp, config, gen, pending, takeover, required,
                       afterStart>>
  /\ UNCHANGED <<dpc, started, buffers, slot, deferred, sharedVars, stopVars,
                 workerVars, mop, wasStarted, mdrop, mres, envVars>>

InstallDrop ==
  /\ mpc = "drop"
  /\ mdev' = "closed"
  /\ Return
  /\ UNCHANGED <<dpc, started, takeover, portVars, queueVars, sharedVars,
                 stopVars, workerVars, mdrop, mnew, envVars>>

\* port_use_buffers; a reset that closes the old sequence starts a new epoch.
UseBuffers ==
  /\ Called("buffers") /\ ClosureRuns
  /\ buffers' \in BOOLEAN
  /\ dsp' \in SequenceEnd(dsp)
  /\ required' = (required /\ dsp' = dsp)
  /\ UNCHANGED <<dpc, started, takeover, config, gen, afterStart, queueVars,
                 sharedVars, stopVars, workerVars, mainVars, envVars>>

\* clear: the host no longer drives the node; win every open race first.
ClearClose ==
  /\ Called("clear") /\ dpc = "idle"
  /\ driven' = FALSE /\ sStarted' = FALSE /\ alive' = FALSE
  /\ mpc' = "stop" /\ mop' = "clear"
  /\ UNCHANGED <<dpc, started, takeover, portVars, queueVars, mailbox, stopVars,
                 workerVars, heldVars, loopOk>>

\* RebuildWorker::stop: raise stopping, win EMPTY->CLOSED, join
StopWorker ==
  /\ mpc = "stop"
  /\ stopping' = TRUE
  /\ mpc' = "shut"
  /\ UNCHANGED <<dpc, started, takeover, portVars, queueVars, sharedVars,
                 slotClosed, workerVars, mop, heldVars, envVars>>

CloseSlot ==
  /\ mpc = "shut" /\ slot = NoWork
  /\ slotClosed' = TRUE
  /\ mpc' = "join"
  /\ UNCHANGED <<dpc, started, takeover, portVars, queueVars, sharedVars,
                 stopping, workerVars, mop, heldVars, envVars>>

\* join, then destroy a final completion on this thread
JoinWorker ==
  /\ mpc = "join" /\ wpc = "exited"
  /\ DiscardSwap
  /\ mpc' = "detach"
  /\ UNCHANGED <<dpc, started, takeover, portVars, queueVars, alive, sStarted,
                 stopVars, workerVars, mop, heldVars, envVars>>

\* Detach the wake source and drop the state; a loop that refuses aborts.
ClearDetach ==
  /\ mpc = "detach"
  /\ \/ ClosureRuns /\ dsp' = "closed" /\ deferred' = NoWork /\ mpc' = "cleared"
     \/ ~loopOk /\ mpc' = "aborted" /\ UNCHANGED <<dsp, deferred>>
  /\ UNCHANGED <<dpc, started, takeover, config, buffers, gen, required,
                 afterStart, slot, pending, sharedVars, stopVars, workerVars, mop,
                 heldVars, envVars>>

MainCall == StartClosure \/ StopPublish \/ ReleaseFence \/ PropsClosure
            \/ (mpc = "idle" /\ InstallFence) \/ UseBuffers \/ ClearClose

MainStep ==
  \/ StartPublish \/ StopUnobserved \/ PauseFence \/ SuspendFence
  \/ (mpc = "props" /\ InstallFence) \/ InstallRefused
  \/ Drain1 \/ WaitIdle \/ Drain2 \/ SuspendClose \/ ReleaseLease
  \/ InstallOpen \/ InstallRetire \/ InstallReopen \/ InstallSwap \/ InstallDrop
  \/ StopWorker \/ CloseSlot \/ JoinWorker \/ ClearDetach

LoopFails ==
  /\ LoopMayFail /\ loopOk /\ dpc = "idle"
  /\ loopOk' = FALSE
  /\ UNCHANGED <<dpc, started, takeover, portVars, queueVars, sharedVars,
                 stopVars, workerVars, mainVars, driven>>

\* After clear the host frees the memory: nothing further happens.
Terminated == mpc \in {"cleared", "aborted"} /\ UNCHANGED vars

Next == DataLoop \/ Worker \/ MainCall \/ MainStep \/ LoopFails \/ Terminated

Spec == Init /\ [][Next]_vars

------------------------------------------------------------------------------
PortTypeOK ==
  /\ dpc \in {"idle", "ports", "take", "port", "end"}
  /\ started \in BOOLEAN /\ takeover \in BOOLEAN
  /\ config \in BOOLEAN /\ buffers \in BOOLEAN /\ dsp \in Device
  /\ gen \in Generation /\ required \in BOOLEAN /\ afterStart \in BOOLEAN

QueueTypeOK ==
  /\ deferred \in Work /\ slot \in Work /\ pending \in BOOLEAN
  /\ alive \in BOOLEAN /\ sStarted \in BOOLEAN /\ mailbox \in Swap
  /\ slotClosed \in BOOLEAN /\ stopping \in BOOLEAN

WorkerTypeOK ==
  /\ wpc \in {"idle", "run", "check", "open", "recheck", "deposit", "exited"}
  /\ wwork \in Work /\ wdev \in Device
  /\ wout \in Outcome \cup {"none", "ok", "busy"}

MainTypeOK ==
  /\ mpc \in {"idle", "publish", "fence", "props", "drain1", "wait", "drain2",
              "close", "release", "open", "retire", "reopen", "swap", "drop",
              "stop", "shut", "join", "detach", "cleared", "aborted"}
  /\ mop \in AllHostOps \cup {"none"} /\ wasStarted \in BOOLEAN
  /\ mdev \in Device /\ mdrop \in Device /\ mnew \in Device
  /\ mres \in {"none", "ok", "busy", "failed"}
  /\ loopOk \in BOOLEAN /\ driven \in BOOLEAN

\* Every variable stays in its domain; the generation counter wraps.
TypeOK == PortTypeOK /\ QueueTypeOK /\ WorkerTypeOK /\ MainTypeOK

(***************************************************************************)
(* Where a rebuild order or its completion can be.                         *)
(***************************************************************************)
Claims ==
  (IF deferred.kind = "rebuild" THEN {"deferred"} ELSE {})
  \cup (IF slot.kind = "rebuild" THEN {"slot"} ELSE {})
  \cup (IF wwork.kind = "rebuild" THEN {"worker"} ELSE {})
  \cup (IF mailbox # NoSwap THEN {"mailbox"} ELSE {})

\* rebuild_pending is never stranded and never duplicated: outside a takeover
\* the flag is up exactly when one order is retained, in the slot, with the
\* worker or answered in the mailbox, and there is only ever one
\* (queue_required_rebuilds "must never be duplicated"; DepositOnUnwind).
PendingHasOwner ==
  /\ \A p, q \in Claims : p = q
  /\ alive /\ ~takeover => (pending <=> Claims # {})

\* A completion the data loop can consume always carries the generation of
\* the port it was ordered for: every generation change quiesces the worker
\* and drains the mailbox first, so a stale device is never even looked at.
CompletionIsCurrent ==
  alive /\ ~takeover /\ mailbox # NoSwap => mailbox.gen = gen

(***************************************************************************)
(* The inductive form of the ownership argument.                           *)
(***************************************************************************)
Fenced == {"drain1", "wait", "drain2", "close", "release", "open", "retire",
           "reopen", "swap"}
Quieted == Fenced \ {"drain1", "wait"}
Clearing == {"stop", "shut", "join", "detach", "cleared", "aborted"}

\* An order in the worker's hands or a deposited completion stands alone; an
\* order in the slot has nothing retained behind it; only orders are retained.
OneOrder ==
  /\ mailbox # NoSwap => wwork = NoWork /\ slot = NoWork /\ deferred = NoWork
  /\ wwork.kind = "rebuild" => slot = NoWork /\ deferred = NoWork
  /\ slot.kind = "rebuild" => deferred = NoWork
  /\ deferred.kind # "retire"

\* The flag, and the generation every order and completion carries.
OrdersAreCurrent ==
  alive /\ ~takeover =>
    /\ pending <=> \/ deferred.kind = "rebuild" \/ slot.kind = "rebuild"
                   \/ wwork.kind = "rebuild" \/ mailbox # NoSwap
    /\ deferred.kind = "rebuild" => deferred.gen = gen
    /\ slot.kind = "rebuild" => slot.gen = gen
    /\ wwork.kind = "rebuild" => wwork.gen = gen
    /\ mailbox # NoSwap => mailbox.gen = gen

\* The lease excludes the producer, and quiescing it leaves nothing behind.
LeaseExcludes ==
  /\ takeover => pending /\ deferred = NoWork
  /\ takeover /\ loopOk => mpc \in Fenced
  /\ mpc \in Fenced => takeover
  /\ mpc \in Quieted => wpc = "idle" /\ slot = NoWork
  /\ mpc \in Quieted \ {"drain2"} => mailbox = NoSwap

\* Where the threads are, and what an empty record is.
ThreadShape ==
  /\ alive <=> mpc \notin Clearing
  /\ driven <=> alive
  /\ alive => ~stopping /\ ~slotClosed
  /\ dpc # "idle" => alive /\ loopOk
  /\ dpc \in {"take", "port"} => ~takeover /\ deferred = NoWork
  /\ dpc = "port" => ~pending
  /\ wpc \in {"idle", "exited"} <=> wwork.kind = "none"
  /\ wpc \in {"check", "open", "recheck", "deposit"} => wwork.kind = "rebuild"
  /\ wpc = "deposit" => wout \in Outcome
  /\ slot.kind = "none" => slot = NoWork
  /\ deferred.kind = "none" => deferred = NoWork
  /\ wwork.kind = "none" => wwork = NoWork
  /\ mailbox.outcome = "none" => mailbox = NoSwap

\* Ownership of the one rebuild order, in inductive form: the flag, the order
\* and the answer move between three threads without loss or duplication.
Ownership == TypeOK /\ ThreadShape /\ OneOrder /\ OrdersAreCurrent /\ LeaseExcludes

\* A stopped node runs no cycle and has nothing under way; a node without a
\* format has no device and no order; the mirror of started lags only inside
\* Start, Pause and Suspend.
StopShape ==
  /\ dpc # "idle" => started
  /\ ~started /\ ~takeover /\ alive =>
       slot = NoWork /\ wwork = NoWork /\ mailbox = NoSwap /\ deferred = NoWork
  /\ ~config => dsp = "closed"
  /\ ~config /\ ~takeover => /\ deferred.kind # "rebuild" /\ slot.kind # "rebuild"
                            /\ wwork.kind # "rebuild" /\ mailbox = NoSwap
  /\ mpc \notin Clearing \cup {"publish", "fence"} => sStarted = started
  /\ mpc = "publish" => started
  /\ mpc = "fence" => wasStarted = started /\ ~sStarted

\* Who may hold an open descriptor, and when.
HolderShape ==
  /\ deferred.dev = "closed" /\ ~deferred.retried /\ mdrop = "closed"
  /\ wwork.dev # "closed" => wpc = "run"
  /\ wdev # "closed" => wpc \in {"recheck", "deposit"}
  /\ mnew # "closed" => mpc = "swap" /\ mres = "ok"
  /\ mdev # "closed" =>
       \/ mpc = "drain1" /\ mop \in {"release", "suspend"}
       \/ mpc \in {"wait", "drain2", "close"} /\ mop = "suspend"
       \/ mpc \in {"reopen", "drop"}
  /\ mpc = "reopen" => dsp = "closed"
  /\ slotClosed => slot = NoWork
  /\ wpc = "exited" => slotClosed
  /\ mpc \in {"detach", "cleared"} => wpc = "exited" /\ mailbox = NoSwap
  /\ mpc = "cleared" => dsp = "closed"

\* A retried order is either outdated by a lease or alone with a closed port;
\* an exclusive device that main has replaced was closed before the swap.
RetryShape ==
  /\ takeover => /\ slot.kind = "rebuild" => slot.gen # gen
                 /\ wwork.kind = "rebuild" => wwork.gen # gen
  /\ ~takeover => /\ slot.kind = "rebuild" /\ slot.retried => dsp = "closed"
                  /\ wwork.kind = "rebuild" /\ wwork.retried => dsp = "closed"
  /\ Exclusive /\ mpc = "swap" /\ mres = "ok" => dsp = "closed"
  /\ Exclusive /\ mpc = "drop" /\ mdev # "closed" => ~config

\* Which thread may hold which descriptor, in inductive form.
Holdings == StopShape /\ HolderShape /\ RetryShape

\* The second open of an exclusive device, after EBUSY, is never refused
\* because of a descriptor of our own: RetireAndRetry and install_device close
\* the old one first, and nobody else holds one (but for an order that a lease
\* has already outdated, whose answer nobody will use).
RetryUnblocked ==
  Exclusive =>
    /\ wpc = "open" /\ wwork.retried /\ gen = wwork.gen => OpenFds = {}
    /\ mpc = "reopen" => OpenFds \subseteq {"retired"}

\* While the main thread opens a device, the worker is quiet and nothing is
\* queued, retained or deposited: the two never race for the device node.
MainOpensAlone ==
  mpc \in {"open", "retire", "reopen", "swap"} =>
    /\ wpc = "idle" /\ slot = NoWork /\ deferred = NoWork /\ mailbox = NoSwap

\* A stopped node owns at most its port's device: no rebuild is queued,
\* running or deposited once Pause, Suspend or a format change has returned
\* (nothing polls while stopped, so a late open would be held indefinitely).
StoppedIsQuiet ==
  mpc = "idle" /\ loopOk /\ ~started =>
    /\ Claims = {} /\ slot = NoWork /\ wpc = "idle"
    /\ OpenFds \subseteq {"port"}

\* Suspend and a released format leave no descriptor open anywhere.
SuspendedHoldsNoDevice ==
  mpc = "idle" /\ loopOk /\ ~started /\ ~config => OpenFds = {}

\* Between operations the worker's mirror of started agrees with the data
\* loop, also when the loop refused a Pause or a Suspend.
MirrorAgrees == mpc = "idle" => sStarted = started

\* clear returns with the worker joined and every descriptor closed.
ClearedIsClosed == mpc = "cleared" => wpc = "exited" /\ OpenFds = {}

\* What a Pause, a Suspend, a format change or a clear leaves behind once it
\* has returned, whatever the worker was doing meanwhile and whether or not
\* the data loop accepted it: no rebuild under way, no descriptor too many and
\* no disagreement about started.
StopIsComplete == StoppedIsQuiet /\ SuspendedHoldsNoDevice /\ MirrorAgrees /\ ClearedIsClosed

\* Neither a cycle nor a closure run on the data loop ever destroys a device:
\* each open descriptor it lets go of moves to another owner, so a close that
\* may sleep never runs on the real-time thread.
OnDataLoop == DataLoop \/ StartClosure \/ PauseFence \/ SuspendFence \/ ReleaseFence
              \/ InstallFence \/ InstallRetire \/ InstallSwap \/ ReleaseLease \/ UseBuffers
DataLoopNeverCloses ==
  [][OnDataLoop /\ loopOk => Cardinality(OpenFds') = Cardinality(OpenFds)]_vars

\* "Do not append audio behind unknown contents; replace the device first."
\* (the comment on the rebuild_after_start arm of process_ports)
UnknownQueueNeverExtended == dsp # "mixed"

(***************************************************************************)
(* Fairness.  The worker thread and a cycle in progress run on; the host   *)
(* keeps driving a started node and does not freewheel for ever; the loop  *)
(* serves the main thread's closures between cycles; a called operation    *)
(* runs on.                                                                *)
(***************************************************************************)
Fairness ==
  /\ WF_vars(Worker) /\ WF_vars(Cycle)
  /\ SF_vars(CycleBegin) /\ SF_vars(CyclePoll)
  /\ SF_vars(MainStep)

FairSpec == Spec /\ Fairness

\* Every operation of the host returns: waiting for the worker under the
\* lease, or for the thread to end, never blocks for ever.
MainReturns == mpc # "idle" ~> mpc \in {"idle", "cleared", "aborted"}

\* A claimed rebuild is answered while the node runs, even when the worker's
\* task panics or an operation takes the protocol over in between.
RebuildAnswered ==
  (pending /\ started) ~> (~pending \/ ~started \/ ~loopOk \/ ~driven)
==============================================================================
