----------------------------- MODULE ProviderStart -----------------------------
(***************************************************************************)
(* One run of newProviderClient (internal/hierarchy/hierarchy.go): it       *)
(* creates a client, starts its transport under a providerStartContext,     *)
(* detaches that context from the invocation and initializes the protocol.  *)
(*                                                                         *)
(* The child process or stream lives as long as the start context's done    *)
(* channel stays open.  Two context.AfterFunc callbacks can close it, each  *)
(* on a goroutine of its own that may run long after its context ended, so  *)
(* they race detach, abort and each other.                                  *)
(***************************************************************************)
EXTENDS Naturals

VARIABLES
  phase,          (* where newProviderClient is                             *)
  startupDone,    (* the initiating invocation's context is done            *)
  lifecycleDone,  (* the registry's lifecycle context is done               *)
  startupHook,    (* the AfterFunc that calls cancelStartup                 *)
  lifecycleHook,  (* the AfterFunc that calls cancel                        *)
  err,            (* providerStartContext.err: what ended it                *)
  detached,       (* providerStartContext.detached                          *)
  doneCloses,     (* how often close(done) has run                          *)
  child,          (* the transport's process or stream                      *)
  failure,        (* the error Start or Initialize returned                 *)
  ret             (* what newProviderClient returned                        *)

contextVars == <<startupHook, lifecycleHook, err, detached, doneCloses>>
startVars == <<phase, startupDone, lifecycleDone, contextVars, child, failure, ret>>

Phases == {"create", "starting", "startFailed", "started", "detaching",
           "stopping", "initializing", "initializingExpired", "initFailed",
           "returned"}
HookStates == {"none", "armed", "running", "ran", "stopped"}

(* stop, as returned by context.AfterFunc: it only prevents a callback      *)
(* whose context has not ended yet.                                         *)
Stopped(hook) == IF hook = "armed" THEN "stopped" ELSE hook

(* A context ends: an armed callback starts on its own goroutine.           *)
Triggered(hook) == IF hook = "armed" THEN "running" ELSE hook

(* (c *providerStartContext) cancel: the first cause wins and closes done.  *)
Cancel(cause) ==
  IF err # "none"
  THEN UNCHANGED <<err, doneCloses>>
  ELSE err' = cause /\ doneCloses' = doneCloses + 1

(* cancelStartup: the same, and nothing once detached.                      *)
CancelStartup(cause) ==
  IF detached \/ err # "none"
  THEN UNCHANGED <<err, doneCloses>>
  ELSE err' = cause /\ doneCloses' = doneCloses + 1

Abort ==
  /\ startupHook' = Stopped(startupHook)
  /\ lifecycleHook' = Stopped(lifecycleHook)
  /\ Cancel("aborted")
  /\ UNCHANGED detached

Return(r) ==
  /\ phase' = "returned"
  /\ ret' = r

-----------------------------------------------------------------------------
StartInit ==
  /\ phase = "create"
  /\ startupDone \in BOOLEAN
  /\ lifecycleDone \in BOOLEAN
  /\ startupHook = "none"
  /\ lifecycleHook = "none"
  /\ err = "none"
  /\ detached = FALSE
  /\ doneCloses = 0
  /\ child = "none"
  /\ failure = "none"
  /\ ret = "none"

(* The invocation is cancelled or its 30 s elapse.                          *)
StartupExpires ==
  /\ ~startupDone
  /\ startupDone' = TRUE
  /\ startupHook' = Triggered(startupHook)
  /\ UNCHANGED <<phase, lifecycleDone, lifecycleHook, err, detached, doneCloses,
                 child, failure, ret>>

(* ServerRegistry.Close cancels the lifecycle context.                      *)
LifecycleEnds ==
  /\ ~lifecycleDone
  /\ lifecycleDone' = TRUE
  /\ lifecycleHook' = Triggered(lifecycleHook)
  /\ UNCHANGED <<phase, startupDone, startupHook, err, detached, doneCloses,
                 child, failure, ret>>

RunStartupHook ==
  /\ startupHook = "running"
  /\ startupHook' = "ran"
  /\ CancelStartup("startup")
  /\ UNCHANGED <<phase, startupDone, lifecycleDone, lifecycleHook, detached,
                 child, failure, ret>>

RunLifecycleHook ==
  /\ lifecycleHook = "running"
  /\ lifecycleHook' = "ran"
  /\ Cancel("lifecycle")
  /\ UNCHANGED <<phase, startupDone, lifecycleDone, startupHook, detached,
                 child, failure, ret>>

(* client.NewMCPClient fails, or the start context is made: AfterFunc on a  *)
(* context that is already done starts its callback at once.                *)
Create ==
  /\ phase = "create"
  /\ \/ /\ Return("error")
        /\ UNCHANGED <<startupHook, lifecycleHook>>
     \/ /\ phase' = "starting"
        /\ startupHook' = IF startupDone THEN "running" ELSE "armed"
        /\ lifecycleHook' = IF lifecycleDone THEN "running" ELSE "armed"
        /\ UNCHANGED ret
  /\ UNCHANGED <<startupDone, lifecycleDone, err, detached, doneCloses, child,
                 failure>>

(* Start(startCtx) succeeds.                                                *)
StartSucceeds ==
  /\ phase = "starting"
  /\ child' = "open"
  /\ phase' = "started"
  /\ UNCHANGED <<startupDone, lifecycleDone, contextVars, failure, ret>>

(* Start fails, perhaps with the process or stream already there: abort ... *)
StartFails ==
  /\ phase = "starting"
  /\ child' \in {"none", "open"}
  /\ Abort
  /\ phase' = "startFailed"
  /\ UNCHANGED <<startupDone, lifecycleDone, failure, ret>>

(* ... and closeFailedProvider run first, then elapsedContextError decides  *)
(* whether it was the invocation that gave up.  A deadline that has passed  *)
(* although the runtime has not closed Done yet counts: that is             *)
(* StartupExpires just before this step.                                    *)
ClassifyStartFailure ==
  /\ phase = "startFailed"
  /\ child' = IF child = "open" THEN "closed" ELSE child
  /\ Return(IF startupDone THEN "canceled" ELSE "error")
  /\ UNCHANGED <<startupDone, lifecycleDone, contextVars, failure>>

(* Start succeeded, but the invocation may have ended meanwhile.            *)
CheckStartup ==
  /\ phase = "started"
  /\ \/ /\ startupDone
        /\ Abort
        /\ child' = "closed"
        /\ Return("canceled")
     \/ /\ ~startupDone
        /\ phase' = "detaching"
        /\ UNCHANGED <<contextVars, child, ret>>
  /\ UNCHANGED <<startupDone, lifecycleDone, failure>>

(* detach: the flag under the lock ...                                      *)
Detach ==
  /\ phase = "detaching"
  /\ detached' = TRUE
  /\ phase' = "stopping"
  /\ UNCHANGED <<startupDone, lifecycleDone, startupHook, lifecycleHook, err,
                 doneCloses, child, failure, ret>>

(* Faulty variant: detach stops the lifecycle callback.                     *)
StopWrongHook ==
  /\ phase = "stopping"
  /\ lifecycleHook' = Stopped(lifecycleHook)
  /\ phase' = IF startupDone THEN "initializingExpired" ELSE "initializing"
  /\ UNCHANGED <<startupDone, lifecycleDone, startupHook, err, detached,
                 doneCloses, child, failure, ret>>

(* ... then stopStartup; Initialize(ctx) is called with the invocation's    *)
(* context, which may be done by now.                                       *)
StopStartup ==
  /\ phase = "stopping"
  /\ startupHook' = Stopped(startupHook)
  /\ phase' = IF startupDone THEN "initializingExpired" ELSE "initializing"
  /\ UNCHANGED <<startupDone, lifecycleDone, lifecycleHook, err, detached,
                 doneCloses, child, failure, ret>>

(* Faulty variant: abort is deferred, as one defers a cancel function.      *)
InitializeThenAbort ==
  /\ phase = "initializing"
  /\ Return("ok")
  /\ Abort
  /\ UNCHANGED <<startupDone, lifecycleDone, child, failure>>

(* Initialize succeeds.  A request made with a context that is already done *)
(* never does: the transport refuses it.  That matters when the invocation  *)
(* ends between CheckStartup and Detach and its callback runs at once.      *)
(* Ping tasks follow the lifecycle context.                                 *)
InitializeSucceeds ==
  /\ phase = "initializing"
  /\ Return("ok")
  /\ UNCHANGED <<startupDone, lifecycleDone, contextVars, child, failure>>

(* Initialize fails, with the context's error or the provider's own: abort  *)
(* and closeFailedProvider.                                                 *)
InitializeFails ==
  /\ phase \in {"initializing", "initializingExpired"}
  /\ \E f \in {"provider"} \cup (IF startupDone THEN {"context"} ELSE {}) :
        failure' = f
  /\ Abort
  /\ child' = "closed"
  /\ phase' = "initFailed"
  /\ UNCHANGED <<startupDone, lifecycleDone, ret>>

(* Faulty variant: the same test as after Start.                            *)
ClassifyByDeadline ==
  /\ phase = "initFailed"
  /\ Return(IF startupDone THEN "canceled" ELSE "error")
  /\ UNCHANGED <<startupDone, lifecycleDone, contextVars, child, failure>>

(* The cancellation mark needs both a finished context and its error.       *)
ClassifyInitFailure ==
  /\ phase = "initFailed"
  /\ Return(IF startupDone /\ failure = "context" THEN "canceled" ELSE "error")
  /\ UNCHANGED <<startupDone, lifecycleDone, contextVars, child, failure>>

(* Nothing is left to happen.                                               *)
StartTerminated ==
  /\ phase = "returned"
  /\ startupDone /\ lifecycleDone
  /\ startupHook # "running" /\ lifecycleHook # "running"
  /\ UNCHANGED startVars

Loader ==
  \/ Create \/ ClassifyStartFailure \/ CheckStartup \/ Detach \/ StopStartup
  \/ ClassifyInitFailure

Transport ==
  StartSucceeds \/ StartFails \/ InitializeSucceeds \/ InitializeFails

StartNext ==
  \/ StartupExpires \/ LifecycleEnds \/ RunStartupHook \/ RunLifecycleHook
  \/ Loader \/ Transport \/ StartTerminated

StartSpec == StartInit /\ [][StartNext]_startVars

(* The goroutine of a callback that was triggered runs.                     *)
FairStartSpec == StartSpec /\ WF_startVars(RunLifecycleHook)
-----------------------------------------------------------------------------
(* The variables of newProviderClient and providerStartContext keep their   *)
(* types.                                                                   *)
StartTypeOK ==
  /\ phase \in Phases
  /\ startupDone \in BOOLEAN
  /\ lifecycleDone \in BOOLEAN
  /\ startupHook \in HookStates
  /\ lifecycleHook \in HookStates
  /\ err \in {"none", "startup", "lifecycle", "aborted"}
  /\ detached \in BOOLEAN
  /\ doneCloses \in Nat
  /\ child \in {"none", "open", "closed"}
  /\ failure \in {"none", "context", "provider"}
  /\ ret \in {"none", "ok", "error", "canceled"}

(* "An established stream outlives the request that started it": a client   *)
(* newProviderClient returned keeps a live start context until the registry *)
(* closes, although the initiating context may end, and its callback run,   *)
(* between any two steps.                                                   *)
EstablishedOutlivesRequest ==
  ret = "ok" /\ ~lifecycleDone => err = "none"

(* A start that failed leaves nothing behind: the child is not open and the *)
(* context it was started under has been cancelled.  Waiters are sent to    *)
(* retry only if the initiating invocation really ended, and not for what   *)
(* the provider itself said to Initialize, though the invocation may end    *)
(* before that is looked at.  Of the callbacks and aborts that race to      *)
(* cancel, one closes done: a second would panic.                           *)
FailsCleanly ==
  /\ doneCloses <= 1
  /\ ret \in {"error", "canceled"} =>
       child # "open" /\ (startupHook # "none" => err # "none")
  /\ ret = "canceled" => startupDone /\ failure # "provider"
  /\ ret = "error" => failure # "context"

(* Closing the registry ends an established provider's context: detach      *)
(* must leave the lifecycle callback armed.                                 *)
LifecycleReachesProvider ==
  (ret = "ok" /\ lifecycleDone) ~> err # "none"
===============================================================================
