---------------------------- MODULE RebuildProofs ----------------------------
(***************************************************************************)
(* Machine-checked facts about the rebuild protocol, for every modulus of  *)
(* the generation counter, every set of host operations, an exclusive      *)
(* device or not, with or without loop failures.                           *)
(*                                                                         *)
(* Ownership is inductive: it follows the one rebuild order through        *)
(* deferred_work, the work slot, the worker and the mailbox.  Holdings is  *)
(* inductive relative to it: it says which thread may hold which open      *)
(* descriptor.  The safety invariants of Rebuild follow from the two.      *)
(* CompletionShape adds what an answer may carry; with it the number of    *)
(* open descriptors is shown to survive every step of the data loop.       *)
(***************************************************************************)
EXTENDS Rebuild, FiniteSetTheorems, TLAPS

------------------------------------------------------------------------------
(* What the operators return. *)

\* wrapping_add stays within the counter.
LEMMA NextGenType == ASSUME NEW g \in Generation PROVE NextGen(g) \in Generation
BY GenModulusAssumption DEF Generation, NextGen

\* wrapping_add always changes the generation, so the fence always outdates.
LEMMA NextGenDiffers == ASSUME NEW g \in Generation PROVE NextGen(g) # g
BY GenModulusAssumption DEF Generation, NextGen

\* The commands of the work slot and their parts.
LEMMA WorkType ==
  /\ NoWork \in Work
  /\ \A g \in Generation, d \in Device :
       RebuildOrder(g, TRUE, d) \in Work /\ RebuildOrder(g, FALSE, d) \in Work
  /\ \A d \in Device : Retirement(d) \in Work
  /\ \A w \in Work : w.dev \in Device /\ w.gen \in Generation /\ CloseRetired(w) \in Work
BY GenModulusAssumption
DEF Work, NoWork, RebuildOrder, Retirement, CloseRetired, Device, Generation

\* The completions of the mailbox and their parts.
LEMMA SwapType ==
  /\ NoSwap \in Swap
  /\ \A s \in Swap : s.dev \in Device /\ s.gen \in Generation
  /\ \A o \in Outcome, g \in Generation, d \in Device :
       [outcome |-> o, gen |-> g, dev |-> d] \in Swap
BY GenModulusAssumption DEF Swap, NoSwap, Device, Generation

\* What a write, a refused pause and the end of a sequence do to a device.
LEMMA DeviceType ==
  /\ \A d \in Device : Written(d) \in Device /\ Unknown(d) \in Device
  /\ \A d \in Device : SequenceEnd(d) \subseteq Device
  /\ "closed" \in Device /\ "setup" \in Device
BY DEF Device, Written, Unknown, SequenceEnd, Running

\* No open descriptor anywhere, spelled out owner by owner.
LEMMA NoOpenFds ==
  OpenFds = {} <=>
    /\ dsp = "closed" /\ deferred.dev = "closed" /\ slot.dev = "closed"
    /\ wwork.dev = "closed" /\ wdev = "closed" /\ mailbox.dev = "closed"
    /\ mdev = "closed" /\ mdrop = "closed" /\ mnew = "closed"
BY DEF OpenFds, Owned

\* The port's share of the open descriptors.
LEMMA OpenPort == "port" \in OpenFds <=> dsp # "closed"
BY DEF OpenFds, Owned

------------------------------------------------------------------------------
(* One lemma per thread and invariant, one step per action. *)

\* A step of the data loop keeps every variable in its domain.
LEMMA DataLoopTypes ==
  ASSUME TypeOK, DataLoop
  PROVE  TypeOK'
<1> USE DEF TypeOK, PortTypeOK, QueueTypeOK, WorkerTypeOK, MainTypeOK,
    portVars, queueVars, sharedVars, stopVars, workerVars, mainVars, envVars
<1>1. CASE CycleBegin
  <2> USE <1>1, WorkType, DeviceType
      DEF CycleBegin, QueueRequired, QueueRebuild, SubmitOrDefer, Flushed,
          FlushedSlot, SlotFree
  <2>1. PortTypeOK' OBVIOUS
  <2>2. QueueTypeOK' OBVIOUS
  <2>3. WorkerTypeOK' /\ MainTypeOK' OBVIOUS
  <2> QED BY <2>1, <2>2, <2>3
<1>2. CASE CycleFreewheel
  BY <1>2, DeviceType DEF CycleFreewheel
<1>3. CASE CyclePoll
  BY <1>3, WorkType, DeviceType DEF CyclePoll, Flushed, FlushedSlot, SlotFree
<1>4. CASE TakeNothing
  BY <1>4, SwapType, DeviceType DEF TakeNothing
<1>5. CASE TakeCompletion
  <2> USE <1>5, NextGenType, WorkType, SwapType, DeviceType
      DEF TakeCompletion, ApplyInstalled, ApplyAborted, ApplyRetireAndRetry,
          ApplyFailed, RetireStale, SubmitOrDefer
  <2>1. PortTypeOK' OBVIOUS
  <2>2. QueueTypeOK' OBVIOUS
  <2>3. WorkerTypeOK' /\ MainTypeOK' OBVIOUS
  <2> QED BY <2>1, <2>2, <2>3
<1>6. CASE PortNotNegotiated
  BY <1>6 DEF PortNotNegotiated
<1>7. CASE PortClosed
  <2> USE <1>7, WorkType, DeviceType
      DEF PortClosed, QueueRebuild, SubmitOrDefer, Flushed, FlushedSlot,
          SlotFree, RebuildQueued
  <2>1. PortTypeOK' OBVIOUS
  <2>2. QueueTypeOK' OBVIOUS
  <2>3. WorkerTypeOK' /\ MainTypeOK' OBVIOUS
  <2> QED BY <2>1, <2>2, <2>3
<1>8. CASE PortAfterStart
  <2> USE <1>8, WorkType, DeviceType
      DEF PortAfterStart, QueueRebuild, SubmitOrDefer, Flushed, FlushedSlot,
          SlotFree, RebuildQueued
  <2>1. PortTypeOK' OBVIOUS
  <2>2. QueueTypeOK' OBVIOUS
  <2>3. WorkerTypeOK' /\ MainTypeOK' OBVIOUS
  <2> QED BY <2>1, <2>2, <2>3
<1>9. CASE PortNoInput
  BY <1>9, DeviceType DEF PortNoInput, PortReady
<1>10. CASE PortRetuneRefused
  <2> USE <1>10, WorkType, DeviceType
      DEF PortRetuneRefused, PortReady, QueueRebuild, SubmitOrDefer, Flushed,
          FlushedSlot, SlotFree, RebuildQueued
  <2>1. PortTypeOK' OBVIOUS
  <2>2. QueueTypeOK' OBVIOUS
  <2>3. WorkerTypeOK' /\ MainTypeOK' OBVIOUS
  <2> QED BY <2>1, <2>2, <2>3
<1>11. CASE PortWrite
  BY <1>11, DeviceType DEF PortWrite, PortReady
<1>12. CASE CycleEnd
  <2> USE <1>12, WorkType, DeviceType
      DEF CycleEnd, QueueRequired, QueueRebuild, SubmitOrDefer, Flushed,
          FlushedSlot, SlotFree
  <2>1. PortTypeOK' OBVIOUS
  <2>2. QueueTypeOK' OBVIOUS
  <2>3. WorkerTypeOK' /\ MainTypeOK' OBVIOUS
  <2> QED BY <2>1, <2>2, <2>3
<1>13. CASE WakeDisconnect
  <2> USE <1>13, WorkType, DeviceType
      DEF WakeDisconnect, QueueRebuild, SubmitOrDefer, Flushed, FlushedSlot,
          SlotFree, RebuildQueued
  <2>1. PortTypeOK' OBVIOUS
  <2>2. QueueTypeOK' OBVIOUS
  <2>3. WorkerTypeOK' /\ MainTypeOK' OBVIOUS
  <2> QED BY <2>1, <2>2, <2>3
<1> QED BY <1>1, <1>2, <1>3, <1>4, <1>5, <1>6, <1>7, <1>8, <1>9, <1>10, <1>11,
    <1>12, <1>13
  DEF DataLoop, Cycle

\* A step of the data loop keeps the one order accounted for.
LEMMA DataLoopOwnership ==
  ASSUME Ownership, DataLoop
  PROVE  ThreadShape' /\ OneOrder' /\ OrdersAreCurrent' /\ LeaseExcludes'
<1> USE DEF Ownership, ThreadShape, OneOrder, OrdersAreCurrent, LeaseExcludes,
    TypeOK, PortTypeOK, QueueTypeOK, WorkerTypeOK, MainTypeOK, Fenced,
    Quieted, Clearing, NoWork, NoSwap, Work, portVars, queueVars, sharedVars,
    stopVars, workerVars, mainVars, envVars
<1>1. CASE CycleBegin
  BY <1>1
  DEF CycleBegin, QueueRequired, QueueRebuild, SubmitOrDefer, Flushed,
      FlushedSlot, SlotFree, RebuildOrder
<1>2. CASE CycleFreewheel
  BY <1>2 DEF CycleFreewheel
<1>3. CASE CyclePoll
  BY <1>3 DEF CyclePoll, Flushed, FlushedSlot, SlotFree
<1>4. CASE TakeNothing
  BY <1>4 DEF TakeNothing, Swap
<1>5. CASE TakeCompletion
  BY <1>5
  DEF TakeCompletion, ApplyInstalled, ApplyAborted, ApplyRetireAndRetry,
      ApplyFailed, RetireStale, SubmitOrDefer, RebuildOrder, Retirement, Swap
<1>6. CASE PortNotNegotiated
  BY <1>6 DEF PortNotNegotiated
<1>7. CASE PortClosed
  BY <1>7
  DEF PortClosed, QueueRebuild, SubmitOrDefer, Flushed, FlushedSlot, SlotFree,
      RebuildQueued, RebuildOrder
<1>8. CASE PortAfterStart
  BY <1>8
  DEF PortAfterStart, QueueRebuild, SubmitOrDefer, Flushed, FlushedSlot,
      SlotFree, RebuildQueued, RebuildOrder
<1>9. CASE PortNoInput
  BY <1>9 DEF PortNoInput, PortReady
<1>10. CASE PortRetuneRefused
  BY <1>10
  DEF PortRetuneRefused, PortReady, QueueRebuild, SubmitOrDefer, Flushed,
      FlushedSlot, SlotFree, RebuildQueued, RebuildOrder
<1>11. CASE PortWrite
  BY <1>11 DEF PortWrite, PortReady
<1>12. CASE CycleEnd
  BY <1>12
  DEF CycleEnd, QueueRequired, QueueRebuild, SubmitOrDefer, Flushed,
      FlushedSlot, SlotFree, RebuildOrder
<1>13. CASE WakeDisconnect
  BY <1>13
  DEF WakeDisconnect, QueueRebuild, SubmitOrDefer, Flushed, FlushedSlot,
      SlotFree, RebuildQueued, RebuildOrder
<1> QED BY <1>1, <1>2, <1>3, <1>4, <1>5, <1>6, <1>7, <1>8, <1>9, <1>10, <1>11,
    <1>12, <1>13
  DEF DataLoop, Cycle

\* A step of the worker keeps every variable in its domain.
LEMMA WorkerTypes ==
  ASSUME Ownership, Worker
  PROVE  TypeOK'
<1> USE DEF Ownership, ThreadShape, TypeOK, PortTypeOK, QueueTypeOK,
    WorkerTypeOK, MainTypeOK, portVars, queueVars, sharedVars, stopVars,
    mainVars, envVars
<1>1. CASE WorkerTake
  BY <1>1, WorkType DEF WorkerTake
<1>2. CASE WorkerRun
  BY <1>2, WorkType, DeviceType DEF WorkerRun, WorkerIdle, Outcome
<1>3. CASE WorkerCheck
  BY <1>3 DEF WorkerCheck, Outcome
<1>4. CASE WorkerOpen
  BY <1>4, DeviceType DEF WorkerOpen, OpenResults, Outcome
<1>5. CASE WorkerRecheck
  BY <1>5, DeviceType DEF WorkerRecheck, Outcome
<1>6. CASE WorkerPanic
  BY <1>6 DEF WorkerPanic, Outcome
<1>7. CASE WorkerDeposit
  BY <1>7, WorkType, SwapType, DeviceType
  DEF WorkerDeposit, WorkerIdle, Outcome
<1>8. CASE WorkerExit
  BY <1>8, WorkType, DeviceType DEF WorkerExit, WorkerIdle, Outcome
<1> QED BY <1>1, <1>2, <1>3, <1>4, <1>5, <1>6, <1>7, <1>8
  DEF Worker

\* A step of the worker keeps the one order accounted for.
LEMMA WorkerOwnership ==
  ASSUME Ownership, Worker
  PROVE  ThreadShape' /\ OneOrder' /\ OrdersAreCurrent' /\ LeaseExcludes'
<1> USE DEF Ownership, ThreadShape, OneOrder, OrdersAreCurrent, LeaseExcludes,
    TypeOK, PortTypeOK, QueueTypeOK, WorkerTypeOK, MainTypeOK, Fenced,
    Quieted, Clearing, NoWork, NoSwap, Work, portVars, queueVars, sharedVars,
    stopVars, mainVars, envVars
<1>1. CASE WorkerTake
  BY <1>1 DEF WorkerTake, Outcome
<1>2. CASE WorkerRun
  BY <1>2 DEF WorkerRun, WorkerIdle, CloseRetired, Outcome
<1>3. CASE WorkerCheck
  BY <1>3 DEF WorkerCheck, Outcome
<1>4. CASE WorkerOpen
  BY <1>4 DEF WorkerOpen, OpenResults, Outcome
<1>5. CASE WorkerRecheck
  BY <1>5 DEF WorkerRecheck, Outcome
<1>6. CASE WorkerPanic
  BY <1>6 DEF WorkerPanic, Outcome
<1>7. CASE WorkerDeposit
  BY <1>7 DEF WorkerDeposit, WorkerIdle, Outcome, Swap
<1>8. CASE WorkerExit
  BY <1>8 DEF WorkerExit, WorkerIdle, Outcome
<1> QED BY <1>1, <1>2, <1>3, <1>4, <1>5, <1>6, <1>7, <1>8
  DEF Worker

\* A call of the host keeps every variable in its domain.
LEMMA MainCallTypes ==
  ASSUME TypeOK, MainCall
  PROVE  TypeOK'
<1> USE DEF TypeOK, PortTypeOK, QueueTypeOK, WorkerTypeOK, MainTypeOK,
    portVars, queueVars, sharedVars, stopVars, workerVars, heldVars, mainVars,
    envVars
<1>1. CASE StartClosure
  <2> USE <1>1, DeviceType
      DEF StartClosure, Called, ClosureRuns, OnStartLoop, AllHostOps
  <2>1. PortTypeOK' OBVIOUS
  <2>2. QueueTypeOK' OBVIOUS
  <2>3. WorkerTypeOK' /\ MainTypeOK' OBVIOUS
  <2> QED BY <2>1, <2>2, <2>3
<1>2. CASE StopPublish
  <2> USE <1>2, SwapType DEF StopPublish, Called, AllHostOps
  <2>1. PortTypeOK' OBVIOUS
  <2>2. QueueTypeOK' OBVIOUS
  <2>3. WorkerTypeOK' /\ MainTypeOK' OBVIOUS
  <2> QED BY <2>1, <2>2, <2>3
<1>3. CASE ReleaseFence
  <2> USE <1>3, NextGenType, WorkType, DeviceType
      DEF ReleaseFence, Called, ClosureRuns, TakeLease, AllHostOps
  <2>1. PortTypeOK' OBVIOUS
  <2>2. QueueTypeOK' OBVIOUS
  <2>3. WorkerTypeOK' /\ MainTypeOK' OBVIOUS
  <2> QED BY <2>1, <2>2, <2>3
<1>4. CASE PropsClosure
  BY <1>4 DEF PropsClosure, Called, ClosureRuns, AllHostOps
<1>5. CASE InstallFence
  BY <1>5, NextGenType, WorkType, DeviceType
  DEF InstallFence, Called, ClosureRuns, TakeLease, AllHostOps
<1>6. CASE UseBuffers
  BY <1>6, DeviceType DEF UseBuffers, Called, ClosureRuns
<1>7. CASE ClearClose
  <2> USE <1>7, SwapType DEF ClearClose, Called, AllHostOps
  <2>1. PortTypeOK' OBVIOUS
  <2>2. QueueTypeOK' OBVIOUS
  <2>3. WorkerTypeOK' /\ MainTypeOK' OBVIOUS
  <2> QED BY <2>1, <2>2, <2>3
<1> QED BY <1>1, <1>2, <1>3, <1>4, <1>5, <1>6, <1>7
  DEF MainCall

\* A call of the host keeps the one order accounted for.
LEMMA MainCallOwnership ==
  ASSUME Ownership, MainCall
  PROVE  ThreadShape' /\ OneOrder' /\ OrdersAreCurrent' /\ LeaseExcludes'
<1> USE DEF Ownership, ThreadShape, OneOrder, OrdersAreCurrent, LeaseExcludes,
    TypeOK, PortTypeOK, QueueTypeOK, WorkerTypeOK, MainTypeOK, Fenced,
    Quieted, Clearing, NoWork, NoSwap, Work, portVars, queueVars, sharedVars,
    stopVars, workerVars, heldVars, mainVars, envVars
<1>1. CASE StartClosure
  BY <1>1 DEF StartClosure, Called, ClosureRuns, OnStartLoop
<1>2. CASE StopPublish
  BY <1>2 DEF StopPublish, Called, Swap
<1>3. CASE ReleaseFence
  BY <1>3 DEF ReleaseFence, Called, ClosureRuns, TakeLease
<1>4. CASE PropsClosure
  BY <1>4 DEF PropsClosure, Called, ClosureRuns
<1>5. CASE InstallFence
  BY <1>5 DEF InstallFence, Called, ClosureRuns, TakeLease
<1>6. CASE UseBuffers
  BY <1>6 DEF UseBuffers, Called, ClosureRuns
<1>7. CASE ClearClose
  BY <1>7 DEF ClearClose, Called, Swap
<1> QED BY <1>1, <1>2, <1>3, <1>4, <1>5, <1>6, <1>7
  DEF MainCall

\* A step of a main-loop operation keeps every variable in its domain.
LEMMA MainStepTypes ==
  ASSUME TypeOK, MainStep
  PROVE  TypeOK'
<1> USE DEF TypeOK, PortTypeOK, QueueTypeOK, WorkerTypeOK, MainTypeOK,
    portVars, queueVars, sharedVars, stopVars, workerVars, heldVars, envVars
<1>1. CASE StartPublish
  <2> USE <1>1, SwapType DEF StartPublish, Return, AllHostOps
  <2>1. PortTypeOK' OBVIOUS
  <2>2. QueueTypeOK' OBVIOUS
  <2>3. WorkerTypeOK' /\ MainTypeOK' OBVIOUS
  <2> QED BY <2>1, <2>2, <2>3
<1>2. CASE StopUnobserved
  <2> USE <1>2, SwapType
      DEF StopUnobserved, Return, RestoreStarted, AllHostOps
  <2>1. PortTypeOK' OBVIOUS
  <2>2. QueueTypeOK' OBVIOUS
  <2>3. WorkerTypeOK' /\ MainTypeOK' OBVIOUS
  <2> QED BY <2>1, <2>2, <2>3
<1>3. CASE PauseFence
  <2> USE <1>3, NextGenType, WorkType, DeviceType
      DEF PauseFence, ClosureRuns, TakeLease, PausePlayback
  <2>1. PortTypeOK' OBVIOUS
  <2>2. QueueTypeOK' OBVIOUS
  <2>3. WorkerTypeOK' /\ MainTypeOK' OBVIOUS
  <2> QED BY <2>1, <2>2, <2>3
<1>4. CASE SuspendFence
  <2> USE <1>4, NextGenType, WorkType, DeviceType
      DEF SuspendFence, ClosureRuns, TakeLease
  <2>1. PortTypeOK' OBVIOUS
  <2>2. QueueTypeOK' OBVIOUS
  <2>3. WorkerTypeOK' /\ MainTypeOK' OBVIOUS
  <2> QED BY <2>1, <2>2, <2>3
<1>5. CASE InstallFence
  BY <1>5, NextGenType, WorkType, DeviceType
  DEF InstallFence, Called, ClosureRuns, TakeLease, AllHostOps
<1>6. CASE InstallRefused
  <2> USE <1>6 DEF InstallRefused, Return, AllHostOps
  <2>1. PortTypeOK' OBVIOUS
  <2>2. QueueTypeOK' OBVIOUS
  <2>3. WorkerTypeOK' /\ MainTypeOK' OBVIOUS
  <2> QED BY <2>1, <2>2, <2>3
<1>7. CASE Drain1
  BY <1>7, WorkType, SwapType, DeviceType DEF Drain1, DiscardSwap
<1>8. CASE WaitIdle
  BY <1>8 DEF WaitIdle, WorkerQuiet
<1>9. CASE Drain2
  BY <1>9, SwapType DEF Drain2, DiscardSwap
<1>10. CASE SuspendClose
  BY <1>10, DeviceType DEF SuspendClose
<1>11. CASE ReleaseLease
  <2> USE <1>11 DEF ReleaseLease, Return, ClosureRuns, AllHostOps
  <2>1. PortTypeOK' OBVIOUS
  <2>2. QueueTypeOK' OBVIOUS
  <2>3. WorkerTypeOK' /\ MainTypeOK' OBVIOUS
  <2> QED BY <2>1, <2>2, <2>3
<1>12. CASE InstallOpen
  BY <1>12, DeviceType DEF InstallOpen, OpenResults
<1>13. CASE InstallRetire
  BY <1>13, DeviceType DEF InstallRetire, ClosureRuns
<1>14. CASE InstallReopen
  BY <1>14, DeviceType DEF InstallReopen, OpenResults
<1>15. CASE InstallSwap
  <2> USE <1>15, NextGenType, DeviceType DEF InstallSwap, ClosureRuns
  <2>1. PortTypeOK' OBVIOUS
  <2>2. QueueTypeOK' OBVIOUS
  <2>3. WorkerTypeOK' /\ MainTypeOK' OBVIOUS
  <2> QED BY <2>1, <2>2, <2>3
<1>16. CASE InstallDrop
  <2> USE <1>16, DeviceType DEF InstallDrop, Return, AllHostOps
  <2>1. PortTypeOK' OBVIOUS
  <2>2. QueueTypeOK' OBVIOUS
  <2>3. WorkerTypeOK' /\ MainTypeOK' OBVIOUS
  <2> QED BY <2>1, <2>2, <2>3
<1>17. CASE StopWorker
  BY <1>17 DEF StopWorker
<1>18. CASE CloseSlot
  BY <1>18 DEF CloseSlot
<1>19. CASE JoinWorker
  BY <1>19, SwapType DEF JoinWorker, DiscardSwap
<1>20. CASE ClearDetach
  BY <1>20, WorkType, DeviceType DEF ClearDetach, ClosureRuns
<1> QED BY <1>1, <1>2, <1>3, <1>4, <1>5, <1>6, <1>7, <1>8, <1>9, <1>10, <1>11,
    <1>12, <1>13, <1>14, <1>15, <1>16, <1>17, <1>18, <1>19, <1>20
  DEF MainStep

\* A step of a main-loop operation keeps the one order accounted for.
LEMMA MainStepOwnership ==
  ASSUME Ownership, MainStep
  PROVE  ThreadShape' /\ OneOrder' /\ OrdersAreCurrent' /\ LeaseExcludes'
<1> USE DEF Ownership, ThreadShape, OneOrder, OrdersAreCurrent, LeaseExcludes,
    TypeOK, PortTypeOK, QueueTypeOK, WorkerTypeOK, MainTypeOK, Fenced,
    Quieted, Clearing, NoWork, NoSwap, Work, portVars, queueVars, sharedVars,
    stopVars, workerVars, heldVars, envVars
<1>1. CASE StartPublish
  BY <1>1 DEF StartPublish, Return, Swap
<1>2. CASE StopUnobserved
  BY <1>2 DEF StopUnobserved, Return, RestoreStarted, Swap
<1>3. CASE PauseFence
  BY <1>3 DEF PauseFence, ClosureRuns, TakeLease, PausePlayback
<1>4. CASE SuspendFence
  BY <1>4 DEF SuspendFence, ClosureRuns, TakeLease
<1>5. CASE InstallFence
  BY <1>5 DEF InstallFence, Called, ClosureRuns, TakeLease
<1>6. CASE InstallRefused
  BY <1>6 DEF InstallRefused, Return
<1>7. CASE Drain1
  BY <1>7 DEF Drain1, DiscardSwap, Swap
<1>8. CASE WaitIdle
  BY <1>8 DEF WaitIdle, WorkerQuiet
<1>9. CASE Drain2
  BY <1>9 DEF Drain2, DiscardSwap, Swap
<1>10. CASE SuspendClose
  BY <1>10 DEF SuspendClose
<1>11. CASE ReleaseLease
  BY <1>11 DEF ReleaseLease, Return, ClosureRuns
<1>12. CASE InstallOpen
  BY <1>12 DEF InstallOpen, OpenResults
<1>13. CASE InstallRetire
  BY <1>13 DEF InstallRetire, ClosureRuns
<1>14. CASE InstallReopen
  BY <1>14 DEF InstallReopen, OpenResults
<1>15. CASE InstallSwap
  BY <1>15 DEF InstallSwap, ClosureRuns
<1>16. CASE InstallDrop
  BY <1>16 DEF InstallDrop, Return
<1>17. CASE StopWorker
  BY <1>17 DEF StopWorker
<1>18. CASE CloseSlot
  BY <1>18 DEF CloseSlot
<1>19. CASE JoinWorker
  BY <1>19 DEF JoinWorker, DiscardSwap, Swap
<1>20. CASE ClearDetach
  BY <1>20 DEF ClearDetach, ClosureRuns
<1> QED BY <1>1, <1>2, <1>3, <1>4, <1>5, <1>6, <1>7, <1>8, <1>9, <1>10, <1>11,
    <1>12, <1>13, <1>14, <1>15, <1>16, <1>17, <1>18, <1>19, <1>20
  DEF MainStep

\* Consuming a completion keeps the descriptors with their holders, arm by arm.
LEMMA TakeCompletionHoldings ==
  ASSUME Ownership, Holdings, TakeCompletion
  PROVE  Holdings'
<1>1. /\ mailbox.gen = gen /\ mpc \notin Fenced /\ ~takeover /\ alive /\ started
      /\ slot = NoWork /\ deferred = NoWork /\ wwork = NoWork /\ wpc \in {"idle", "exited"}
      /\ mailbox # NoSwap /\ config /\ gen \in Generation
  BY DEF Ownership, TypeOK, PortTypeOK, QueueTypeOK, WorkerTypeOK, ThreadShape, OneOrder,
         OrdersAreCurrent, LeaseExcludes, Holdings, StopShape, TakeCompletion, NoWork
<1>2. /\ mailbox' = NoSwap
      /\ UNCHANGED <<started, takeover, buffers, alive, sStarted, slotClosed, stopping,
                     wpc, wwork, wdev, wout, mpc, mop, wasStarted, mdev, mdrop, mnew,
                     mres, loopOk, driven>>
  BY DEF TakeCompletion, stopVars, workerVars, mainVars, envVars
<1>3. ~slotClosed /\ mpc \notin Clearing
  BY <1>1 DEF Ownership, ThreadShape
<1>4. NextGen(gen) # gen
  BY <1>1, NextGenDiffers
<1>5. CASE ApplyInstalled \/ ApplyFailed
  <2>1. slot' = Retirement(dsp) /\ deferred' = NoWork
    BY <1>1, <1>3, <1>5 DEF ApplyInstalled, ApplyFailed, SubmitOrDefer
  <2>2. ~config' => dsp' = "closed"
    BY <1>5 DEF ApplyInstalled, ApplyFailed
  <2>3. StopShape'
    BY <1>1, <1>2, <1>3, <2>1, <2>2
    DEF Holdings, StopShape, Clearing, Retirement, NoWork, NoSwap
  <2>4. HolderShape'
    BY <1>1, <1>2, <1>3, <2>1
    DEF Holdings, HolderShape, Retirement, NoWork, NoSwap, Clearing, Fenced
  <2>5. RetryShape'
    BY <1>1, <1>2, <2>1, <1>5
    DEF Holdings, RetryShape, Retirement, NoWork, Fenced, ApplyInstalled, ApplyFailed
  <2> QED BY <2>3, <2>4, <2>5 DEF Holdings
<1>6. CASE ApplyAborted
  BY <1>1, <1>2, <1>3, <1>6
  DEF Holdings, StopShape, HolderShape, RetryShape, ApplyAborted, SequenceEnd, Running,
      NoWork, NoSwap, Clearing, Fenced
<1>7. CASE ApplyRetireAndRetry
  <2>1. slot' = RebuildOrder(mailbox.gen, TRUE, dsp) /\ deferred' = NoWork
    BY <1>1, <1>3, <1>7 DEF ApplyRetireAndRetry, SubmitOrDefer
  <2>2. dsp' = "closed" /\ config' = config /\ gen' = gen
    BY <1>7 DEF ApplyRetireAndRetry
  <2> QED BY <1>1, <1>2, <1>3, <2>1, <2>2
      DEF Holdings, StopShape, HolderShape, RetryShape, RebuildOrder, NoWork, NoSwap,
          Clearing, Fenced
<1> QED BY <1>1, <1>5, <1>6, <1>7 DEF TakeCompletion

\* A step of the data loop keeps the descriptors with their holders.
LEMMA DataLoopHoldings ==
  ASSUME Ownership, Holdings, DataLoop
  PROVE  Holdings'
<1> USE DEF Ownership, ThreadShape, OneOrder, OrdersAreCurrent, LeaseExcludes,
    TypeOK, PortTypeOK, QueueTypeOK, WorkerTypeOK, MainTypeOK, Holdings,
    StopShape, HolderShape, RetryShape, Fenced, Quieted, Clearing, NoWork,
    NoSwap, Work, portVars, queueVars, sharedVars, stopVars, workerVars,
    mainVars, envVars
<1>1. CASE CycleBegin
  <2> USE <1>1
      DEF CycleBegin, QueueRequired, QueueRebuild, SubmitOrDefer, Flushed,
          FlushedSlot, SlotFree, RebuildOrder
  <2>1. StopShape' OBVIOUS
  <2>2. HolderShape' OBVIOUS
  <2>3. RetryShape' OBVIOUS
  <2> QED BY <2>1, <2>2, <2>3
<1>2. CASE CycleFreewheel
  <2> USE <1>2 DEF CycleFreewheel, SequenceEnd, Running
  <2>1. StopShape' OBVIOUS
  <2>2. HolderShape' OBVIOUS
  <2>3. RetryShape' OBVIOUS
  <2> QED BY <2>1, <2>2, <2>3
<1>3. CASE CyclePoll
  <2> USE <1>3
      DEF CyclePoll, Flushed, FlushedSlot, SlotFree, SequenceEnd, Running
  <2>1. StopShape' OBVIOUS
  <2>2. HolderShape' OBVIOUS
  <2>3. RetryShape' OBVIOUS
  <2> QED BY <2>1, <2>2, <2>3
<1>4. CASE TakeNothing
  <2> USE <1>4 DEF TakeNothing, Swap, SequenceEnd, Running
  <2>1. StopShape' OBVIOUS
  <2>2. HolderShape' OBVIOUS
  <2>3. RetryShape' OBVIOUS
  <2> QED BY <2>1, <2>2, <2>3
<1>5. CASE TakeCompletion
  BY <1>5, TakeCompletionHoldings
<1>6. CASE PortNotNegotiated
  BY <1>6 DEF PortNotNegotiated
<1>7. CASE PortClosed
  <2> USE <1>7
      DEF PortClosed, QueueRebuild, SubmitOrDefer, Flushed, FlushedSlot,
          SlotFree, RebuildQueued, RebuildOrder
  <2>1. StopShape' OBVIOUS
  <2>2. HolderShape' OBVIOUS
  <2>3. RetryShape' OBVIOUS
  <2> QED BY <2>1, <2>2, <2>3
<1>8. CASE PortAfterStart
  <2> USE <1>8
      DEF PortAfterStart, QueueRebuild, SubmitOrDefer, Flushed, FlushedSlot,
          SlotFree, RebuildQueued, RebuildOrder, SequenceEnd, Running
  <2>1. StopShape' OBVIOUS
  <2>2. HolderShape' OBVIOUS
  <2>3. RetryShape' OBVIOUS
  <2> QED BY <2>1, <2>2, <2>3
<1>9. CASE PortNoInput
  <2> USE <1>9 DEF PortNoInput, PortReady, SequenceEnd, Running
  <2>1. StopShape' OBVIOUS
  <2>2. HolderShape' OBVIOUS
  <2>3. RetryShape' OBVIOUS
  <2> QED BY <2>1, <2>2, <2>3
<1>10. CASE PortRetuneRefused
  <2> USE <1>10
      DEF PortRetuneRefused, PortReady, QueueRebuild, SubmitOrDefer, Flushed,
          FlushedSlot, SlotFree, RebuildQueued, RebuildOrder, SequenceEnd,
          Running
  <2>1. StopShape' OBVIOUS
  <2>2. HolderShape' OBVIOUS
  <2>3. RetryShape' OBVIOUS
  <2> QED BY <2>1, <2>2, <2>3
<1>11. CASE PortWrite
  <2> USE <1>11 DEF PortWrite, PortReady, SequenceEnd, Running
  <2>1. StopShape' OBVIOUS
  <2>2. HolderShape' OBVIOUS
  <2>3. RetryShape' OBVIOUS
  <2> QED BY <2>1, <2>2, <2>3
<1>12. CASE CycleEnd
  <2> USE <1>12
      DEF CycleEnd, QueueRequired, QueueRebuild, SubmitOrDefer, Flushed,
          FlushedSlot, SlotFree, RebuildOrder
  <2>1. StopShape' OBVIOUS
  <2>2. HolderShape' OBVIOUS
  <2>3. RetryShape' OBVIOUS
  <2> QED BY <2>1, <2>2, <2>3
<1>13. CASE WakeDisconnect
  <2> USE <1>13
      DEF WakeDisconnect, QueueRebuild, SubmitOrDefer, Flushed, FlushedSlot,
          SlotFree, RebuildQueued, RebuildOrder, Running
  <2>1. StopShape' OBVIOUS
  <2>2. HolderShape' OBVIOUS
  <2>3. RetryShape' OBVIOUS
  <2> QED BY <2>1, <2>2, <2>3
<1> QED BY <1>1, <1>2, <1>3, <1>4, <1>5, <1>6, <1>7, <1>8, <1>9, <1>10, <1>11,
    <1>12, <1>13
  DEF DataLoop, Cycle

\* A step of the worker keeps the descriptors with their holders.
LEMMA WorkerHoldings ==
  ASSUME Ownership, Holdings, Worker
  PROVE  Holdings'
<1> USE DEF Ownership, ThreadShape, OneOrder, OrdersAreCurrent, LeaseExcludes,
    TypeOK, PortTypeOK, QueueTypeOK, WorkerTypeOK, MainTypeOK, Holdings,
    StopShape, HolderShape, RetryShape, Fenced, Quieted, Clearing, NoWork,
    NoSwap, Work, portVars, queueVars, sharedVars, stopVars, mainVars, envVars
<1>1. CASE WorkerTake
  BY <1>1 DEF WorkerTake, Outcome
<1>2. CASE WorkerRun
  BY <1>2 DEF WorkerRun, WorkerIdle, CloseRetired, Outcome
<1>3. CASE WorkerCheck
  BY <1>3 DEF WorkerCheck, Outcome
<1>4. CASE WorkerOpen
  BY <1>4, OpenPort DEF WorkerOpen, OpenResults, Outcome
<1>5. CASE WorkerRecheck
  BY <1>5 DEF WorkerRecheck, Outcome
<1>6. CASE WorkerPanic
  BY <1>6 DEF WorkerPanic, Outcome
<1>7. CASE WorkerDeposit
  BY <1>7 DEF WorkerDeposit, WorkerIdle, Outcome, Swap
<1>8. CASE WorkerExit
  BY <1>8 DEF WorkerExit, WorkerIdle, Outcome
<1> QED BY <1>1, <1>2, <1>3, <1>4, <1>5, <1>6, <1>7, <1>8
  DEF Worker

\* A call of the host keeps the descriptors with their holders.
LEMMA MainCallHoldings ==
  ASSUME Ownership, Holdings, MainCall
  PROVE  Holdings'
<1> USE DEF Ownership, ThreadShape, OneOrder, OrdersAreCurrent, LeaseExcludes,
    TypeOK, PortTypeOK, QueueTypeOK, WorkerTypeOK, MainTypeOK, Holdings,
    StopShape, HolderShape, RetryShape, Fenced, Quieted, Clearing, NoWork,
    NoSwap, Work, portVars, queueVars, sharedVars, stopVars, workerVars,
    heldVars, mainVars, envVars
<1>1. CASE StartClosure
  BY <1>1 DEF StartClosure, Called, ClosureRuns, OnStartLoop, Running
<1>2. CASE StopPublish
  BY <1>2 DEF StopPublish, Called, Swap
<1>3. CASE ReleaseFence
  BY <1>3, NextGenDiffers DEF ReleaseFence, Called, ClosureRuns, TakeLease
<1>4. CASE PropsClosure
  BY <1>4 DEF PropsClosure, Called, ClosureRuns, Running
<1>5. CASE InstallFence
  BY <1>5, NextGenDiffers DEF InstallFence, Called, ClosureRuns, TakeLease
<1>6. CASE UseBuffers
  BY <1>6 DEF UseBuffers, Called, ClosureRuns, SequenceEnd, Running
<1>7. CASE ClearClose
  BY <1>7 DEF ClearClose, Called, Swap
<1> QED BY <1>1, <1>2, <1>3, <1>4, <1>5, <1>6, <1>7
  DEF MainCall

\* A step of a main-loop operation keeps the descriptors with their holders.
LEMMA MainStepHoldings ==
  ASSUME Ownership, Holdings, MainStep
  PROVE  Holdings'
<1> USE DEF Ownership, ThreadShape, OneOrder, OrdersAreCurrent, LeaseExcludes,
    TypeOK, PortTypeOK, QueueTypeOK, WorkerTypeOK, MainTypeOK, Holdings,
    StopShape, HolderShape, RetryShape, Fenced, Quieted, Clearing, NoWork,
    NoSwap, Work, portVars, queueVars, sharedVars, stopVars, workerVars,
    heldVars, envVars
<1>1. CASE StartPublish
  BY <1>1 DEF StartPublish, Return, Swap
<1>2. CASE StopUnobserved
  BY <1>2 DEF StopUnobserved, Return, RestoreStarted, Swap
<1>3. CASE PauseFence
  <2> USE <1>3, NextGenDiffers
      DEF PauseFence, ClosureRuns, TakeLease, PausePlayback, Running
  <2>1. StopShape' OBVIOUS
  <2>2. HolderShape' OBVIOUS
  <2>3. RetryShape' OBVIOUS
  <2> QED BY <2>1, <2>2, <2>3
<1>4. CASE SuspendFence
  <2> USE <1>4, NextGenDiffers DEF SuspendFence, ClosureRuns, TakeLease
  <2>1. StopShape' OBVIOUS
  <2>2. HolderShape' OBVIOUS
  <2>3. RetryShape' OBVIOUS
  <2> QED BY <2>1, <2>2, <2>3
<1>5. CASE InstallFence
  BY <1>5, NextGenDiffers DEF InstallFence, Called, ClosureRuns, TakeLease
<1>6. CASE InstallRefused
  BY <1>6 DEF InstallRefused, Return
<1>7. CASE Drain1
  BY <1>7 DEF Drain1, DiscardSwap, Swap
<1>8. CASE WaitIdle
  BY <1>8 DEF WaitIdle, WorkerQuiet
<1>9. CASE Drain2
  BY <1>9 DEF Drain2, DiscardSwap, Swap
<1>10. CASE SuspendClose
  BY <1>10 DEF SuspendClose
<1>11. CASE ReleaseLease
  BY <1>11 DEF ReleaseLease, Return, ClosureRuns
<1>12. CASE InstallOpen
  BY <1>12, OpenPort DEF InstallOpen, OpenResults
<1>13. CASE InstallRetire
  BY <1>13 DEF InstallRetire, ClosureRuns
<1>14. CASE InstallReopen
  BY <1>14, OpenPort DEF InstallReopen, OpenResults
<1>15. CASE InstallSwap
  <2> USE <1>15, NextGenDiffers DEF InstallSwap, ClosureRuns
  <2>1. StopShape' OBVIOUS
  <2>2. HolderShape' OBVIOUS
  <2>3. RetryShape' OBVIOUS
  <2> QED BY <2>1, <2>2, <2>3
<1>16. CASE InstallDrop
  BY <1>16 DEF InstallDrop, Return
<1>17. CASE StopWorker
  BY <1>17 DEF StopWorker
<1>18. CASE CloseSlot
  BY <1>18 DEF CloseSlot
<1>19. CASE JoinWorker
  BY <1>19 DEF JoinWorker, DiscardSwap, Swap
<1>20. CASE ClearDetach
  BY <1>20 DEF ClearDetach, ClosureRuns
<1> QED BY <1>1, <1>2, <1>3, <1>4, <1>5, <1>6, <1>7, <1>8, <1>9, <1>10, <1>11,
    <1>12, <1>13, <1>14, <1>15, <1>16, <1>17, <1>18, <1>19, <1>20
  DEF MainStep

------------------------------------------------------------------------------
(* The inductive invariants. *)

\* A freshly initialised node has no order, no lease and an idle worker.
LEMMA InitOwnership == Init => Ownership
<1> SUFFICES ASSUME Init PROVE Ownership
  OBVIOUS
<1>5. 0 \in Generation
  BY GenModulusAssumption DEF Generation
<1>1. PortTypeOK
  BY <1>5, DeviceType DEF Init, PortTypeOK
<1>4. QueueTypeOK
  BY WorkType, SwapType DEF Init, QueueTypeOK
<1>2. WorkerTypeOK /\ MainTypeOK
  BY WorkType, DeviceType DEF Init, WorkerTypeOK, MainTypeOK, Outcome
<1>3. ThreadShape /\ OneOrder /\ OrdersAreCurrent /\ LeaseExcludes
  BY DEF Init, ThreadShape, OneOrder, OrdersAreCurrent, LeaseExcludes, Fenced,
         Quieted, Clearing, NoWork, NoSwap
<1> QED BY <1>1, <1>2, <1>3, <1>4 DEF Ownership, TypeOK

\* A freshly initialised node holds no descriptor.
LEMMA InitHoldings == Init => Holdings
<1> SUFFICES ASSUME Init PROVE Holdings
  OBVIOUS
<1>1. StopShape BY DEF Init, StopShape, Clearing, NoWork, NoSwap
<1>2. HolderShape BY DEF Init, HolderShape, NoWork
<1>3. RetryShape BY DEF Init, RetryShape, NoWork
<1> QED BY <1>1, <1>2, <1>3 DEF Holdings

\* The loop failing and the end of the node's life change neither.
LEMMA EnvironmentStep ==
  ASSUME Ownership, Holdings, LoopFails \/ Terminated \/ UNCHANGED vars
  PROVE  Ownership' /\ Holdings'
<1>1. CASE LoopFails
  <2>1. PortTypeOK' /\ QueueTypeOK' /\ WorkerTypeOK'
    BY <1>1
    DEF Ownership, TypeOK, PortTypeOK, QueueTypeOK, WorkerTypeOK, LoopFails,
        portVars, queueVars, sharedVars, stopVars, workerVars
  <2>4. MainTypeOK'
    BY <1>1 DEF Ownership, TypeOK, MainTypeOK, LoopFails, mainVars
  <2>2. ThreadShape' /\ OneOrder' /\ OrdersAreCurrent' /\ LeaseExcludes'
    BY <1>1
    DEF Ownership, ThreadShape, OneOrder, OrdersAreCurrent, LeaseExcludes,
        LoopFails, portVars, queueVars, sharedVars, stopVars, workerVars, mainVars
  <2>3. Holdings'
    BY <1>1
    DEF Holdings, StopShape, HolderShape, RetryShape,
        LoopFails, portVars, queueVars, sharedVars, stopVars, workerVars, mainVars
  <2> QED BY <2>1, <2>2, <2>3, <2>4 DEF Ownership, TypeOK
<1>2. CASE UNCHANGED vars
  <2>1. TypeOK'
    BY <1>2
    DEF Ownership, TypeOK, PortTypeOK, QueueTypeOK, WorkerTypeOK, MainTypeOK, vars,
        portVars, queueVars, sharedVars, stopVars, workerVars, mainVars, envVars
  <2>2. ThreadShape' /\ OneOrder' /\ OrdersAreCurrent' /\ LeaseExcludes'
    BY <1>2
    DEF Ownership, ThreadShape, OneOrder, OrdersAreCurrent, LeaseExcludes, vars,
        portVars, queueVars, sharedVars, stopVars, workerVars, mainVars, envVars
  <2>3. Holdings'
    BY <1>2
    DEF Holdings, StopShape, HolderShape, RetryShape, vars,
        portVars, queueVars, sharedVars, stopVars, workerVars, mainVars, envVars
  <2> QED BY <2>1, <2>2, <2>3 DEF Ownership
<1> QED BY <1>1, <1>2 DEF Terminated

\* Every step of every thread preserves both inductive invariants.
LEMMA NextStep ==
  ASSUME Ownership, Holdings, [Next]_vars
  PROVE  Ownership' /\ Holdings'
<1> USE DEF Ownership
<1>1. CASE DataLoop
  BY <1>1, DataLoopTypes, DataLoopOwnership, DataLoopHoldings
<1>2. CASE Worker
  BY <1>2, WorkerTypes, WorkerOwnership, WorkerHoldings
<1>3. CASE MainCall
  BY <1>3, MainCallTypes, MainCallOwnership, MainCallHoldings
<1>4. CASE MainStep
  BY <1>4, MainStepTypes, MainStepOwnership, MainStepHoldings
<1>5. CASE LoopFails \/ Terminated \/ UNCHANGED vars
  BY <1>5, EnvironmentStep
<1> QED BY <1>1, <1>2, <1>3, <1>4, <1>5 DEF Next

\* Both inductive invariants hold in every reachable state.
THEOREM Invariance == Spec => [](Ownership /\ Holdings)
<1>1. Init => Ownership /\ Holdings
  BY InitOwnership, InitHoldings
<1>2. Ownership /\ Holdings /\ [Next]_vars => (Ownership /\ Holdings)'
  BY NextStep
<1> QED BY <1>1, <1>2, PTL DEF Spec

------------------------------------------------------------------------------
(* What they imply. *)

\* Every variable stays in its domain, whatever the three threads do.
THEOREM TypeCorrect == Spec => []TypeOK
<1>1. Ownership => TypeOK BY DEF Ownership
<1> QED BY <1>1, Invariance, PTL

\* rebuild_pending is up exactly while one order or answer is under way, and
\* there is never a second one.
THEOREM RebuildIsOwned == Spec => []PendingHasOwner
<1>1. Ownership => PendingHasOwner
  BY DEF Ownership, OneOrder, OrdersAreCurrent, PendingHasOwner, Claims, NoWork
<1> QED BY <1>1, Invariance, PTL

\* poll_rebuild never meets a stale completion: generations only change after
\* the worker is quiet and the mailbox drained.
THEOREM NoStaleCompletion == Spec => []CompletionIsCurrent
<1>1. Ownership => CompletionIsCurrent
  BY DEF Ownership, OrdersAreCurrent, CompletionIsCurrent
<1> QED BY <1>1, Invariance, PTL

\* install_device never races the worker for the device node.
THEOREM InstallIsAlone == Spec => []MainOpensAlone
<1>1. Ownership => MainOpensAlone
  BY DEF Ownership, LeaseExcludes, Fenced, Quieted, MainOpensAlone
<1> QED BY <1>1, Invariance, PTL

\* The retry after EBUSY is never blocked by our own descriptor.
THEOREM RetryMaySucceed == Spec => []RetryUnblocked
<1>1. Ownership /\ Holdings => RetryUnblocked
  <2> SUFFICES ASSUME Ownership, Holdings, Exclusive PROVE RetryUnblocked
    BY DEF RetryUnblocked
  <2>1. wpc = "open" /\ wwork.retried /\ gen = wwork.gen => OpenFds = {}
    BY NoOpenFds
    DEF Ownership, ThreadShape, OneOrder, LeaseExcludes, Fenced, Quieted, Holdings,
        StopShape, HolderShape, RetryShape, NoWork, NoSwap
  <2>2. mpc = "reopen" => OpenFds \subseteq {"retired"}
    BY DEF Ownership, ThreadShape, OneOrder, LeaseExcludes, Fenced, Quieted, Holdings,
        StopShape, HolderShape, RetryShape, NoWork, NoSwap, OpenFds, Owned
  <2> QED BY <2>1, <2>2 DEF RetryUnblocked
<1> QED BY <1>1, Invariance, PTL

\* A stopped node has nothing under way and holds at most its port's device.
THEOREM StopIsFinal == Spec => []StoppedIsQuiet
<1>1. Ownership /\ Holdings => StoppedIsQuiet
  BY DEF Ownership, ThreadShape, OneOrder, LeaseExcludes, Fenced, Clearing, Holdings,
      StopShape, HolderShape, StoppedIsQuiet, Claims, NoWork, NoSwap, OpenFds, Owned
<1> QED BY <1>1, Invariance, PTL

\* After Suspend, or once the format is released, no descriptor is open.
THEOREM SuspendCloses == Spec => []SuspendedHoldsNoDevice
<1>1. Ownership /\ Holdings => SuspendedHoldsNoDevice
  BY NoOpenFds
  DEF Ownership, ThreadShape, OneOrder, LeaseExcludes, Fenced, Clearing, Holdings,
      StopShape, HolderShape, SuspendedHoldsNoDevice, NoWork, NoSwap
<1> QED BY <1>1, Invariance, PTL

\* Between operations the worker's view of started is the data loop's.
THEOREM MirrorIsExact == Spec => []MirrorAgrees
<1>1. Holdings => MirrorAgrees
  BY DEF Holdings, StopShape, Clearing, MirrorAgrees
<1> QED BY <1>1, Invariance, PTL

\* clear returns with the worker joined and nothing left open.
THEOREM ClearCloses == Spec => []ClearedIsClosed
<1>1. Ownership /\ Holdings => ClearedIsClosed
  BY NoOpenFds
  DEF Ownership, ThreadShape, OneOrder, LeaseExcludes, Fenced, Clearing, Holdings,
      StopShape, HolderShape, ClearedIsClosed, NoWork, NoSwap
<1> QED BY <1>1, Invariance, PTL

\* Every operation that stops the node is complete when it returns.
THEOREM StopCompletes == Spec => []StopIsComplete
<1> QED BY StopIsFinal, SuspendCloses, MirrorIsExact, ClearCloses, PTL DEF StopIsComplete

------------------------------------------------------------------------------
(* Counting the open descriptors, owner by owner. *)

\* One open descriptor, or none.
Bit(d) == IF d = "closed" THEN 0 ELSE 1

\* The members of S that hold an open descriptor, when f says what each holds.
OpenIn(S, f) == {p \in S : f[p] # "closed"}

\* A further owner adds its own descriptor to the count.
LEMMA OneMoreOwner ==
  ASSUME NEW S, NEW x, NEW f, IsFiniteSet(OpenIn(S, f)), x \notin S
  PROVE  /\ IsFiniteSet(OpenIn(S \cup {x}, f))
         /\ Cardinality(OpenIn(S \cup {x}, f)) = Cardinality(OpenIn(S, f)) + Bit(f[x])
<1>1. Cardinality(OpenIn(S, f)) \in Nat
  BY FS_CardinalityType
<1>2. CASE f[x] = "closed"
  <2>1. OpenIn(S \cup {x}, f) = OpenIn(S, f)
    BY <1>2 DEF OpenIn
  <2> QED BY <1>1, <1>2, <2>1 DEF Bit
<1>3. CASE f[x] # "closed"
  <2>1. OpenIn(S \cup {x}, f) = OpenIn(S, f) \cup {x} /\ x \notin OpenIn(S, f)
    BY <1>3 DEF OpenIn
  <2>2. /\ IsFiniteSet(OpenIn(S, f) \cup {x})
        /\ Cardinality(OpenIn(S, f) \cup {x}) = Cardinality(OpenIn(S, f)) + 1
    BY <2>1, FS_AddElement
  <2>3. Bit(f[x]) = 1
    BY <1>3 DEF Bit
  <2> QED BY <2>1, <2>2, <2>3
<1> QED BY <1>2, <1>3

\* How many descriptors the nine owners hold open.
Held(f) == Bit(f["port"]) + Bit(f["deferred"]) + Bit(f["slot"]) + Bit(f["order"])
           + Bit(f["opened"]) + Bit(f["mailbox"]) + Bit(f["retired"])
           + Bit(f["dropped"]) + Bit(f["fresh"])

\* The count is the sum over the nine owners.
LEMMA HeldCounts ==
  ASSUME NEW f
  PROVE  Cardinality(OpenIn({"port", "deferred", "slot", "order", "opened", "mailbox",
                             "retired", "dropped", "fresh"}, f)) = Held(f)
<1> DEFINE C(S) == Cardinality(OpenIn(S, f))
           F(S) == IsFiniteSet(OpenIn(S, f))
           S1 == {} \cup {"port"}
           S2 == S1 \cup {"deferred"}
           S3 == S2 \cup {"slot"}
           S4 == S3 \cup {"order"}
           S5 == S4 \cup {"opened"}
           S6 == S5 \cup {"mailbox"}
           S7 == S6 \cup {"retired"}
           S8 == S7 \cup {"dropped"}
           S9 == S8 \cup {"fresh"}
<1>1. F({}) /\ C({}) = 0
  <2>1. OpenIn({}, f) = {}
    BY DEF OpenIn
  <2> QED BY <2>1, FS_EmptySet
<1>2. F(S1) /\ C(S1) = C({}) + Bit(f["port"])
  <2>1. "port" \notin {}
    OBVIOUS
  <2> QED BY <1>1, <2>1, OneMoreOwner
<1>3. F(S2) /\ C(S2) = C(S1) + Bit(f["deferred"])
  <2>1. "deferred" \notin S1
    OBVIOUS
  <2> QED BY <1>2, <2>1, OneMoreOwner
<1>4. F(S3) /\ C(S3) = C(S2) + Bit(f["slot"])
  <2>1. "slot" \notin S2
    OBVIOUS
  <2> QED BY <1>3, <2>1, OneMoreOwner
<1>5. F(S4) /\ C(S4) = C(S3) + Bit(f["order"])
  <2>1. "order" \notin S3
    OBVIOUS
  <2> QED BY <1>4, <2>1, OneMoreOwner
<1>6. F(S5) /\ C(S5) = C(S4) + Bit(f["opened"])
  <2>1. "opened" \notin S4
    OBVIOUS
  <2> QED BY <1>5, <2>1, OneMoreOwner
<1>7. F(S6) /\ C(S6) = C(S5) + Bit(f["mailbox"])
  <2>1. "mailbox" \notin S5
    OBVIOUS
  <2> QED BY <1>6, <2>1, OneMoreOwner
<1>8. F(S7) /\ C(S7) = C(S6) + Bit(f["retired"])
  <2>1. "retired" \notin S6
    OBVIOUS
  <2> QED BY <1>7, <2>1, OneMoreOwner
<1>9. F(S8) /\ C(S8) = C(S7) + Bit(f["dropped"])
  <2>1. "dropped" \notin S7
    OBVIOUS
  <2> QED BY <1>8, <2>1, OneMoreOwner
<1>10. F(S9) /\ C(S9) = C(S8) + Bit(f["fresh"])
  <2>1. "fresh" \notin S8
    OBVIOUS
  <2> QED BY <1>9, <2>1, OneMoreOwner
<1>11. S9 = {"port", "deferred", "slot", "order", "opened", "mailbox", "retired",
             "dropped", "fresh"}
  OBVIOUS
<1>12. C(S9) = Held(f)
  <2> HIDE DEF C, S1, S2, S3, S4, S5, S6, S7, S8, S9
  <2>1. \A d : Bit(d) \in Nat
    BY DEF Bit
  <2> QED BY <1>1, <1>2, <1>3, <1>4, <1>5, <1>6, <1>7, <1>8, <1>9, <1>10, <2>1 DEF Held
<1> QED BY <1>11, <1>12

\* The descriptors that are open, before and after a step.
LEMMA OpenFdsCount ==
  /\ Cardinality(OpenFds) = Held(Owned)
  /\ Cardinality(OpenFds') = Held(Owned')
<1> DEFINE P == {"port", "deferred", "slot", "order", "opened", "mailbox", "retired",
                 "dropped", "fresh"}
<1>1. DOMAIN Owned = P /\ DOMAIN Owned' = P
  BY DEF Owned
<1>2. OpenFds = OpenIn(P, Owned) /\ OpenFds' = OpenIn(P, Owned')
  BY <1>1 DEF OpenFds, OpenIn
<1> HIDE DEF P
<1>3. Cardinality(OpenIn(P, Owned)) = Held(Owned) /\ Cardinality(OpenIn(P, Owned')) = Held(Owned')
  BY HeldCounts DEF P
<1> QED BY <1>2, <1>3

------------------------------------------------------------------------------
(* Nothing closes on the data loop. *)

\* A completion owns a device only as "installed", and the worker holds one it
\* has opened only on the way there: the other arms have nothing to lose.
CompletionShape ==
  /\ mailbox.dev # "closed" => mailbox.outcome = "installed"
  /\ wdev # "closed" => \/ wpc = "recheck" /\ wout = "ok"
                        \/ wpc = "deposit" /\ wout = "installed"

\* No step of any thread puts a device behind another outcome.
LEMMA CompletionStep ==
  ASSUME Ownership, Holdings, CompletionShape, [Next]_vars
  PROVE  CompletionShape'
<1> USE DEF CompletionShape
<1>1. CASE Worker
  <2>1. wdev # "closed" => wpc \in {"recheck", "deposit"}
    BY DEF Holdings, HolderShape
  <2>2. CASE WorkerTake
    BY <2>1, <2>2 DEF WorkerTake, sharedVars
  <2>3. CASE WorkerRun
    BY <2>1, <2>3 DEF WorkerRun, WorkerIdle, sharedVars
  <2>4. CASE WorkerCheck
    BY <2>1, <2>4 DEF WorkerCheck, sharedVars
  <2>5. CASE WorkerOpen
    BY <2>1, <2>5 DEF WorkerOpen, sharedVars
  <2>6. CASE WorkerRecheck
    BY <2>1, <2>6 DEF WorkerRecheck, sharedVars
  <2>7. CASE WorkerPanic
    BY <2>1, <2>7 DEF WorkerPanic, sharedVars
  <2>8. CASE WorkerDeposit
    BY <2>1, <2>8 DEF WorkerDeposit, WorkerIdle
  <2>9. CASE WorkerExit
    BY <2>1, <2>9 DEF WorkerExit, WorkerIdle, sharedVars
  <2> QED BY <1>1, <2>2, <2>3, <2>4, <2>5, <2>6, <2>7, <2>8, <2>9 DEF Worker
<1>2. ASSUME UNCHANGED workerVars, mailbox' = mailbox \/ mailbox' = NoSwap
      PROVE  CompletionShape'
  BY <1>2 DEF workerVars, NoSwap
<1>3. CASE DataLoop
  <2>1. UNCHANGED workerVars
    BY <1>3 DEF DataLoop, Cycle, CycleBegin, CycleFreewheel, CyclePoll, TakeNothing,
       TakeCompletion, PortNotNegotiated, PortClosed, PortAfterStart, PortNoInput,
       PortRetuneRefused, PortWrite, CycleEnd, WakeDisconnect
  <2>2. mailbox' = mailbox \/ mailbox' = NoSwap
    BY <1>3 DEF DataLoop, Cycle, CycleBegin, CycleFreewheel, CyclePoll, TakeNothing,
       TakeCompletion, PortNotNegotiated, PortClosed, PortAfterStart, PortNoInput,
       PortRetuneRefused, PortWrite, CycleEnd, WakeDisconnect, sharedVars
  <2> QED BY <1>2, <2>1, <2>2
<1>4. CASE MainCall
  <2>1. UNCHANGED <<workerVars, mailbox>>
    BY <1>4 DEF MainCall, StartClosure, StopPublish, ReleaseFence, PropsClosure,
       InstallFence, UseBuffers, ClearClose, sharedVars
  <2> QED BY <1>2, <2>1
<1>5. CASE MainStep
  <2>1. UNCHANGED workerVars
    BY <1>5 DEF MainStep, StartPublish, StopUnobserved, PauseFence, SuspendFence,
       InstallFence, InstallRefused, Drain1, WaitIdle, Drain2, SuspendClose,
       ReleaseLease, InstallOpen, InstallRetire, InstallReopen, InstallSwap,
       InstallDrop, StopWorker, CloseSlot, JoinWorker, ClearDetach
  <2>2. mailbox' = mailbox \/ mailbox' = NoSwap
    BY <1>5 DEF MainStep, StartPublish, StopUnobserved, PauseFence, SuspendFence,
       InstallFence, InstallRefused, Drain1, WaitIdle, Drain2, SuspendClose,
       ReleaseLease, InstallOpen, InstallRetire, InstallReopen, InstallSwap,
       InstallDrop, StopWorker, CloseSlot, JoinWorker, ClearDetach, DiscardSwap,
       sharedVars
  <2> QED BY <1>2, <2>1, <2>2
<1>6. CASE LoopFails \/ Terminated \/ UNCHANGED vars
  BY <1>2, <1>6 DEF LoopFails, Terminated, vars, sharedVars
<1> QED BY <1>1, <1>3, <1>4, <1>5, <1>6 DEF Next

\* A completion owns a device exactly when the worker installed one.
LEMMA CompletionInvariance == Spec => []CompletionShape
<1>1. Init => CompletionShape
  BY DEF Init, CompletionShape, NoSwap
<1>2. Ownership /\ Holdings /\ CompletionShape /\ [Next]_vars => CompletionShape'
  BY CompletionStep
<1> QED BY <1>1, <1>2, Invariance, PTL DEF Spec

\* What the nine owners hold, owner by owner.
LEMMA OwnedParts ==
  /\ Held(Owned) = Bit(dsp) + Bit(deferred.dev) + Bit(slot.dev) + Bit(wwork.dev)
                   + Bit(wdev) + Bit(mailbox.dev) + Bit(mdev) + Bit(mdrop) + Bit(mnew)
  /\ Held(Owned') = Bit(dsp') + Bit(deferred.dev') + Bit(slot.dev') + Bit(wwork.dev')
                    + Bit(wdev') + Bit(mailbox.dev') + Bit(mdev') + Bit(mdrop')
                    + Bit(mnew')
BY DEF Held, Owned

\* Taking work from the retained place to the slot, and queueing an order that
\* carries no descriptor, moves what is retained and adds nothing.
LEMMA QueueKeepsCount ==
  ASSUME Ownership, Holdings, QueueRebuild \/ UNCHANGED queueVars
  PROVE  Bit(slot'.dev) + Bit(deferred'.dev) = Bit(slot.dev) + Bit(deferred.dev)
<1>1. deferred.dev = "closed"
  BY DEF Holdings, HolderShape
<1>2. CASE UNCHANGED queueVars
  BY <1>2 DEF queueVars
<1>3. CASE QueueRebuild
  BY <1>1, <1>3
  DEF QueueRebuild, SubmitOrDefer, Flushed, FlushedSlot, SlotFree, RebuildOrder, NoWork,
      queueVars, Bit
<1> QED BY <1>2, <1>3

\* The device of the port stays open or closed through the end of a sequence.
LEMMA SequenceEndKeeps == \A d : \A e \in SequenceEnd(d) : Bit(e) = Bit(d)
BY DEF SequenceEnd, Running, Bit

\* Consuming a completion moves each descriptor to another owner.
LEMMA TakeCompletionKeepsCount ==
  ASSUME Ownership, Holdings, CompletionShape, TakeCompletion
  PROVE  Held(Owned') = Held(Owned)
<1>1. /\ mailbox.gen = gen /\ mailbox # NoSwap /\ ~slotClosed
      /\ slot = NoWork /\ deferred = NoWork
  BY DEF Ownership, ThreadShape, OneOrder, OrdersAreCurrent, TakeCompletion
<1>2. mailbox' = NoSwap /\ UNCHANGED <<wwork, wdev, mdev, mdrop, mnew>>
  BY DEF TakeCompletion, workerVars, mainVars
<1>3. mailbox.outcome # "installed" => mailbox.dev = "closed"
  BY DEF CompletionShape
<1>4. CASE ApplyInstalled
  <2>1. slot' = Retirement(dsp) /\ deferred' = NoWork /\ dsp' = mailbox.dev
    BY <1>1, <1>4 DEF ApplyInstalled, SubmitOrDefer
  <2> QED BY <1>1, <1>2, <2>1, OwnedParts DEF Retirement, NoWork, NoSwap, Bit
<1>5. CASE ApplyAborted
  <2>1. /\ mailbox.dev = "closed" /\ Bit(dsp') = Bit(dsp)
        /\ UNCHANGED <<slot, deferred>>
    BY <1>3, <1>5, SequenceEndKeeps DEF ApplyAborted
  <2> QED BY <1>1, <1>2, <2>1, OwnedParts DEF NoSwap, Bit
<1>6. CASE ApplyRetireAndRetry
  <2>1. /\ slot' = RebuildOrder(mailbox.gen, TRUE, dsp) /\ deferred' = NoWork
        /\ dsp' = "closed" /\ mailbox.dev = "closed"
    BY <1>1, <1>3, <1>6 DEF ApplyRetireAndRetry, SubmitOrDefer
  <2> QED BY <1>1, <1>2, <2>1, OwnedParts DEF RebuildOrder, NoWork, NoSwap, Bit
<1>7. CASE ApplyFailed
  <2>1. /\ slot' = Retirement(dsp) /\ deferred' = NoWork /\ dsp' = "closed"
        /\ mailbox.dev = "closed"
    BY <1>1, <1>3, <1>7 DEF ApplyFailed, SubmitOrDefer
  <2> QED BY <1>1, <1>2, <2>1, OwnedParts DEF Retirement, NoWork, NoSwap, Bit
<1> QED BY <1>1, <1>4, <1>5, <1>6, <1>7 DEF TakeCompletion

\* A step of a cycle, or of a wake, keeps every open descriptor owned.
LEMMA DataLoopKeepsCount ==
  ASSUME Ownership, Holdings, CompletionShape, DataLoop
  PROVE  Held(Owned') = Held(Owned)
<1> DEFINE Elsewhere == <<wwork, wdev, mailbox, mdev, mdrop, mnew>>
<1>1. ASSUME UNCHANGED Elsewhere, Bit(dsp') = Bit(dsp),
             QueueRebuild \/ UNCHANGED queueVars
      PROVE  Held(Owned') = Held(Owned)
  <2>1. Bit(slot'.dev) + Bit(deferred'.dev) = Bit(slot.dev) + Bit(deferred.dev)
    BY <1>1, QueueKeepsCount
  <2>2. /\ Bit(wwork'.dev) = Bit(wwork.dev) /\ Bit(wdev') = Bit(wdev)
        /\ Bit(mailbox'.dev) = Bit(mailbox.dev) /\ Bit(mdev') = Bit(mdev)
        /\ Bit(mdrop') = Bit(mdrop) /\ Bit(mnew') = Bit(mnew)
    BY <1>1
  <2>3. \A d : Bit(d) \in Nat
    BY DEF Bit
  <2> QED BY <1>1, <2>1, <2>2, <2>3, OwnedParts
<1>2. deferred.dev = "closed"
  BY DEF Holdings, HolderShape
<1>3. CASE CycleBegin \/ PortClosed \/ CycleEnd \/ WakeDisconnect
  BY <1>1, <1>3
  DEF CycleBegin, PortClosed, CycleEnd, WakeDisconnect, QueueRequired, portVars,
      sharedVars, workerVars, mainVars
<1>4. CASE CycleFreewheel \/ TakeNothing \/ PortNotNegotiated \/ PortNoInput
  BY <1>1, <1>4, SequenceEndKeeps
  DEF CycleFreewheel, TakeNothing, PortNotNegotiated, PortNoInput, portVars, sharedVars,
      workerVars, mainVars
<1>5. CASE CyclePoll
  <2>1. CASE takeover \/ ~Flushed
    BY <1>1, <1>5, <2>1, SequenceEndKeeps DEF CyclePoll, sharedVars, workerVars, mainVars
  <2>2. CASE ~(takeover \/ ~Flushed)
    <3>1. slot' = FlushedSlot /\ deferred' = NoWork /\ UNCHANGED <<dsp, Elsewhere>>
      BY <1>5, <2>2 DEF CyclePoll, sharedVars, workerVars, mainVars
    <3>2. Bit(slot'.dev) = Bit(slot.dev)
      BY <1>2, <2>2, <3>1 DEF Flushed, FlushedSlot, SlotFree, NoWork
    <3> QED BY <1>2, <3>1, <3>2, OwnedParts DEF NoWork
  <2> QED BY <2>1, <2>2
<1>6. CASE TakeCompletion
  BY <1>6, TakeCompletionKeepsCount
<1>7. CASE PortAfterStart \/ PortRetuneRefused
  BY <1>1, <1>7, SequenceEndKeeps
  DEF PortAfterStart, PortRetuneRefused, sharedVars, workerVars, mainVars
<1>8. CASE PortWrite
  <2>1. PICK reprimed \in {FALSE, Running(dsp)} :
          dsp' \in SequenceEnd(Written(IF reprimed THEN "setup" ELSE dsp))
    BY <1>8 DEF PortWrite
  <2>2. dsp # "closed"
    BY <1>8 DEF PortWrite, PortReady
  <2>3. Bit(Written(IF reprimed THEN "setup" ELSE dsp)) = Bit(dsp)
    BY <2>2 DEF Written, Bit
  <2>4. Bit(dsp') = Bit(dsp)
    BY <2>1, <2>3, SequenceEndKeeps
  <2> QED BY <1>1, <1>8, <2>4 DEF PortWrite, sharedVars, workerVars, mainVars
<1> QED BY <1>3, <1>4, <1>5, <1>6, <1>7, <1>8 DEF DataLoop, Cycle

\* A closure that the main loop runs on the data loop keeps every open
\* descriptor owned: what it takes off the port goes to the main thread.
LEMMA ClosureKeepsCount ==
  ASSUME Ownership, Holdings, OnDataLoop, ~DataLoop, loopOk
  PROVE  Held(Owned') = Held(Owned)
<1>1. deferred.dev = "closed" /\ mdrop = "closed"
  BY DEF Holdings, HolderShape
<1>2. mpc \in {"idle", "fence", "retire", "swap"} => mdev = "closed"
  BY DEF Holdings, HolderShape
<1>3. CASE StartClosure
  <2>1. Bit(dsp') = Bit(dsp)
    BY <1>3 DEF StartClosure, OnStartLoop, Running, Unknown, Bit
  <2> QED BY <1>3, <2>1, OwnedParts
      DEF StartClosure, queueVars, sharedVars, workerVars, heldVars
<1>4. CASE PauseFence
  <2>1. Bit(dsp') = Bit(dsp)
    BY <1>4 DEF PauseFence, PausePlayback, Running, Unknown, Bit
  <2> QED BY <1>1, <1>4, <2>1, OwnedParts
      DEF PauseFence, TakeLease, sharedVars, workerVars, NoWork
<1>5. CASE SuspendFence
  <2>1. mdev = "closed" /\ mdev' = dsp /\ dsp' = "closed"
    BY <1>2, <1>5 DEF SuspendFence
  <2> QED BY <1>1, <1>5, <2>1, OwnedParts
      DEF SuspendFence, TakeLease, sharedVars, workerVars, NoWork, Bit
<1>6. CASE ReleaseFence
  <2>1. mdev = "closed" /\ mdev' = dsp /\ dsp' = "closed"
    BY <1>2, <1>6 DEF ReleaseFence, Called
  <2> QED BY <1>1, <1>6, <2>1, OwnedParts
      DEF ReleaseFence, TakeLease, sharedVars, workerVars, NoWork, Bit
<1>7. CASE InstallFence
  BY <1>1, <1>7, OwnedParts DEF InstallFence, TakeLease, sharedVars, workerVars, NoWork
<1>8. CASE InstallRetire
  <2>1. mdev = "closed" /\ mdev' = dsp /\ dsp' = "closed"
    BY <1>2, <1>8 DEF InstallRetire
  <2> QED BY <1>8, <2>1, OwnedParts
      DEF InstallRetire, queueVars, sharedVars, workerVars, Bit
<1>9. CASE InstallSwap
  <2>1. mdev = "closed" /\ mdev' = dsp /\ dsp' = mnew /\ mnew' = "closed"
    BY <1>2, <1>9 DEF InstallSwap
  <2> QED BY <1>9, <2>1, OwnedParts DEF InstallSwap, sharedVars, workerVars, Bit
<1>10. CASE ReleaseLease
  BY <1>10, OwnedParts DEF ReleaseLease, portVars, sharedVars, workerVars
<1>11. CASE UseBuffers
  <2>1. Bit(dsp') = Bit(dsp)
    BY <1>11, SequenceEndKeeps DEF UseBuffers
  <2> QED BY <1>11, <2>1, OwnedParts
      DEF UseBuffers, queueVars, sharedVars, workerVars, mainVars
<1> QED BY <1>3, <1>4, <1>5, <1>6, <1>7, <1>8, <1>9, <1>10, <1>11 DEF OnDataLoop

\* Neither a cycle nor a closure on the data loop ever destroys a descriptor:
\* the real-time thread only hands devices over, whatever the others do.
THEOREM DataLoopClosesNothing == Spec => DataLoopNeverCloses
<1>1. ASSUME Ownership, Holdings, CompletionShape
      PROVE  [OnDataLoop /\ loopOk => Cardinality(OpenFds') = Cardinality(OpenFds)]_vars
  BY <1>1, DataLoopKeepsCount, ClosureKeepsCount, OpenFdsCount
<1>2. Ownership /\ Holdings /\ CompletionShape =>
        [OnDataLoop /\ loopOk => Cardinality(OpenFds') = Cardinality(OpenFds)]_vars
  BY <1>1
<1> QED BY <1>2, Invariance, CompletionInvariance, PTL DEF DataLoopNeverCloses

==============================================================================
