-------------------------- MODULE ProviderConnection --------------------------
(***************************************************************************)
(* One stdio provider connection (internal/client): the validating          *)
(* transport, its bounded event queue, the byte-limited stdio transport and *)
(* the child process.                                                       *)
(*                                                                         *)
(* One goroutine reads the child's frames.  What it finds wrong it first    *)
(* publishes on a channel that is only ever closed (responseValidation.done *)
(* or limitCh) and only then acts on: it kills the child or has a goroutine *)
(* close the transport.  Requests select on these channels and on their     *)
(* answer, and look again after an answer, so that a request that loses its *)
(* transport to such a failure returns the failure and not a broken pipe.   *)
(***************************************************************************)
EXTENDS Naturals, Sequences, FiniteSets, Counting

CONSTANTS
  Requests,    (* calls of SendRequest, each with its own request ID        *)
  Workers,     (* the goroutines of providerEventQueue.run                  *)
  Sizes,       (* encoded sizes a notification can have                     *)
  MaxEvents,   (* maxProviderQueuedEvents                                   *)
  MaxBytes,    (* maxProviderQueuedEventBytes                               *)
  MaxFrames    (* bound of the model: frames read in one behaviour          *)

ASSUME ConnectionAssumption ==
  /\ Workers # {} /\ IsFiniteSet(Workers)
  /\ Sizes \subseteq Nat
  /\ MaxEvents \in Nat \ {0}
  /\ MaxBytes \in Nat
  /\ MaxFrames \in Nat

VARIABLES
  failure,      (* responseValidation.err; its done is closed if not "none"  *)
  limitCh,      (* limitedStdioTransport.limitCh is closed                   *)
  rpcErrors,    (* the IDs of the map responseValidation.rpcErrors           *)
  queue,        (* the channel: the sizes of the queued events               *)
  queuedBytes,
  stopped,      (* providerEventQueue.done is closed                         *)
  overflowed,   (* overflowOnce has run                                      *)
  worker,       (* where each worker is                                      *)
  carried,      (* the size of the event it has received and not subtracted  *)
  reader,       (* where the goroutine reading the child's output is         *)
  size,         (* the size of the notification it is enqueuing              *)
  frames,       (* how many frames it has read                               *)
  inner,        (* mcp-go's stdio transport                                  *)
  closed,       (* limitedStdioTransport.closed                              *)
  ctxDone,      (* the context Start was called with is done                 *)
  childEnd,     (* what ended the child first                                *)
  reaped,       (* the child has been waited for                             *)
  closing,      (* where the overflow goroutine's Close is, and the Close or *)
                (* CloseFailed of the registry, which owns the connection    *)
  pc,           (* where sendRequestOnce of each request is                  *)
  sends,        (* how often the request has been sent                       *)
  chosen,       (* what its select received                                  *)
  stdio,        (* where limitedStdioTransport.SendRequest is                *)
  value,        (* what it returns                                           *)
  answer,       (* what mcp-go's SendRequest returned to it                  *)
  expired,      (* the request's context is done                             *)
  ret           (* what SendRequest returned                                 *)

validationVars == <<failure, limitCh, rpcErrors>>
queueVars == <<queue, queuedBytes, stopped, overflowed, worker, carried>>
readerVars == <<reader, size, frames>>
processVars == <<inner, closed, ctxDone, childEnd, reaped, closing>>
requestVars == <<pc, sends, chosen, stdio, value, answer, expired, ret>>
vars == <<validationVars, queueVars, readerVars, processVars, requestVars>>

(* Error responses: one that rejects the requested protocol revision and    *)
(* lists it as supported all the same, and any other.                       *)
RPCErrors == {"sameVersion", "rpcError"}
Answers == RPCErrors \cup {"ok"}
Closers == {"overflow", "owner"}

Init ==
  /\ failure = "none" /\ limitCh = FALSE /\ rpcErrors = {}
  /\ queue = <<>> /\ queuedBytes = 0 /\ stopped = FALSE /\ overflowed = FALSE
  /\ worker = [w \in Workers |-> "off"]
  /\ carried = [w \in Workers |-> 0]
  /\ reader = "off" /\ size = 0 /\ frames = 0
  /\ inner = "none" /\ closed = FALSE /\ ctxDone = FALSE
  /\ childEnd = "none" /\ reaped = FALSE
  /\ closing = [c \in Closers |-> "none"]
  /\ pc = [r \in Requests |-> "idle"]
  /\ sends = [r \in Requests |-> 0]
  /\ chosen = [r \in Requests |-> "none"]
  /\ stdio = [r \in Requests |-> "none"]
  /\ value = [r \in Requests |-> "none"]
  /\ answer = [r \in Requests |-> "none"]
  /\ expired = [r \in Requests |-> FALSE]
  /\ ret = [r \in Requests |-> "none"]
-----------------------------------------------------------------------------
(* Start.  A child that does not start, or whose mcp-go transport does not, *)
(* is not left behind.                                                      *)
Start ==
  /\ reader = "off"
  /\ \/ /\ reader' = "reading"
        /\ inner' = "open"
        /\ UNCHANGED <<childEnd, reaped>>
     \/ /\ reader' = "ended"
        /\ inner' = "closed"
        /\ childEnd' = "startFailed"
        /\ reaped' = TRUE
  /\ UNCHANGED <<validationVars, queueVars, size, frames, closed, ctxDone, closing,
                 requestVars>>

(* events.start, after the transport's own Start and outside its lock.      *)
StartEvents ==
  /\ reader # "off"
  /\ childEnd # "startFailed"
  /\ \E w \in Workers : worker[w] = "off"
  /\ worker' = [w \in Workers |-> "idle"]
  /\ UNCHANGED <<validationVars, queue, queuedBytes, stopped, overflowed, carried,
                 readerVars, processVars, requestVars>>

Started == \A w \in Workers : worker[w] # "off"

-----------------------------------------------------------------------------
(* The reader.  (v *responseValidation) fail: the first failure wins.       *)
FailValidation(kind) ==
  failure' = IF failure = "none" THEN kind ELSE failure

(* The next frame; the pipe may hold frames the child wrote before it died. *)
Reading ==
  /\ reader = "reading"
  /\ frames < MaxFrames
  /\ ~reaped
  /\ frames' = frames + 1

(* readLine meets a frame over the limit: signalLimit closes limitCh ...    *)
ReadTooLong ==
  /\ Reading
  /\ limitCh' = TRUE
  /\ reader' = "killing"
  /\ UNCHANGED <<failure, rpcErrors, queueVars, size, processVars, requestVars>>

(* ... and kills the child under the transport's lock; the read fails, and  *)
(* with it mcp-go's reader.                                                 *)
KillAtLimit ==
  /\ reader = "killing"
  /\ reader' = "ended"
  /\ childEnd' = IF childEnd = "none" THEN "limit" ELSE childEnd
  /\ UNCHANGED <<validationVars, queueVars, size, frames, inner, closed, ctxDone,
                 reaped, closing, requestVars>>

(* A frame that is not one JSON value, repeats a member, or is too deep or  *)
(* too large fails the validation and ends the reader; the child lives on.  *)
ReadInvalid ==
  /\ Reading
  /\ FailValidation("invalid")
  /\ reader' = "ended"
  /\ UNCHANGED <<limitCh, rpcErrors, queueVars, size, processVars, requestVars>>

(* A response: recordRPCError keeps an error whether or not anyone waits    *)
(* for it; mcp-go hands the response to the request with that ID.           *)
ReadResponse(r, kind) ==
  /\ Reading
  /\ sends[r] > 0
  /\ rpcErrors' = IF kind \in RPCErrors THEN rpcErrors \cup {r} ELSE rpcErrors
  /\ answer' = [answer EXCEPT ![r] = IF @ = "pending" THEN kind ELSE @]
  /\ UNCHANGED <<failure, limitCh, queueVars, reader, size, processVars, pc, sends,
                 chosen, stdio, value, expired, ret>>

(* A notification: mcp-go calls enqueue from its reader.                    *)
ReadNotification(s) ==
  /\ Reading
  /\ reader' = "enqueuing"
  /\ size' = s
  /\ UNCHANGED <<validationVars, queueVars, processVars, requestVars>>

(* The child's output has ended, or mcp-go has stopped reading it.          *)
ReadEnd ==
  /\ reader = "reading"
  /\ childEnd # "none" \/ inner = "closed"
  /\ reader' = "ended"
  /\ UNCHANGED <<validationVars, queueVars, size, frames, processVars, requestVars>>

(* Faulty variant: only the event about to be queued is measured.           *)
OversizedAlone == size > MaxBytes

Oversized == size > MaxBytes \/ queuedBytes + size > MaxBytes

(* enqueue under its lock.  The select sends if there is room and drops the *)
(* event if the queue has been stopped; if both can happen, either may.     *)
Enqueue ==
  /\ reader = "enqueuing"
  /\ \/ /\ ~Oversized
        /\ Len(queue) < MaxEvents
        /\ queue' = Append(queue, size)
        /\ queuedBytes' = queuedBytes + size
        /\ reader' = "reading"
     \/ /\ ~Oversized
        /\ stopped
        /\ reader' = "reading"
        /\ UNCHANGED <<queue, queuedBytes>>
     \/ /\ Oversized \/ (Len(queue) = MaxEvents /\ ~stopped)
        /\ reader' = "failing"
        /\ UNCHANGED <<queue, queuedBytes>>
  /\ size' = 0
  /\ UNCHANGED <<validationVars, stopped, overflowed, worker, carried, frames,
                 processVars, requestVars>>

(* fail: the failure is published ...                                       *)
FailOverflow ==
  /\ reader = "failing"
  /\ FailValidation("overflow")
  /\ reader' = "stopping"
  /\ UNCHANGED <<limitCh, rpcErrors, queueVars, size, frames, processVars,
                 requestVars>>

(* ... and overflowOnce stops the workers and starts the closing goroutine. *)
StopOverflow ==
  /\ reader = "stopping"
  /\ reader' = "reading"
  /\ overflowed' = TRUE
  /\ stopped' = TRUE
  /\ closing' = IF overflowed THEN closing
                ELSE [closing EXCEPT !["overflow"] = "locking"]
  /\ UNCHANGED <<validationVars, queue, queuedBytes, worker, carried, size, frames,
                 inner, closed, ctxDone, childEnd, reaped, requestVars>>
-----------------------------------------------------------------------------
(* The workers: run.                                                        *)
SetWorker(w, from, to) ==
  /\ worker[w] = from
  /\ worker' = [worker EXCEPT ![w] = to]

(* The select may prefer an event to done.                                  *)
Receive(w) ==
  /\ SetWorker(w, "idle", "received")
  /\ queue # <<>>
  /\ queue' = Tail(queue)
  /\ carried' = [carried EXCEPT ![w] = Head(queue)]
  /\ UNCHANGED <<validationVars, queuedBytes, stopped, overflowed, readerVars,
                 processVars, requestVars>>

Subtract(w) ==
  /\ SetWorker(w, "received", "handling")
  /\ queuedBytes' = queuedBytes - carried[w]
  /\ carried' = [carried EXCEPT ![w] = 0]
  /\ UNCHANGED <<validationVars, queue, stopped, overflowed, readerVars, processVars,
                 requestVars>>

Handled(w) ==
  /\ SetWorker(w, "handling", "idle")
  /\ UNCHANGED <<validationVars, queue, queuedBytes, stopped, overflowed, carried,
                 readerVars, processVars, requestVars>>

EndWorker(w) ==
  /\ SetWorker(w, "idle", "ended")
  /\ stopped
  /\ UNCHANGED <<validationVars, queue, queuedBytes, stopped, overflowed, carried,
                 readerVars, processVars, requestVars>>
-----------------------------------------------------------------------------
(* The child and its end.  The context of Start ends: the request gave up   *)
(* or start was aborted (see ProviderStart), or the registry closes.        *)
ContextEnds ==
  /\ ~ctxDone
  /\ ctxDone' = TRUE
  /\ UNCHANGED <<validationVars, queueVars, readerVars, inner, closed, childEnd, reaped,
                 closing, requestVars>>

ChildEnds(cause) ==
  /\ reader # "off"
  /\ childEnd = "none"
  /\ childEnd' = cause
  /\ UNCHANGED <<validationVars, queueVars, readerVars, inner, closed, ctxDone, reaped,
                 closing, requestVars>>

(* Faulty variant: exec.Command, whose child no context ends.               *)
ContextIgnored == FALSE /\ ChildEnds("context")

(* The child exits on its own, or exec.CommandContext kills it.             *)
ChildExits == ChildEnds("exited")
ContextKills == ctxDone /\ ChildEnds("context")

SetClosing(c, from, to) ==
  /\ closing[c] = from
  /\ closing' = [closing EXCEPT ![c] = to]

(* The registry closes an established connection, always after it has       *)
(* cancelled the context: the queue is stopped, then the transport closed.  *)
OwnerCloses ==
  /\ Started
  /\ ctxDone
  /\ SetClosing("owner", "none", "locking")
  /\ stopped' = TRUE
  /\ UNCHANGED <<validationVars, queue, queuedBytes, overflowed, worker, carried,
                 readerVars, inner, closed, ctxDone, childEnd, reaped, requestVars>>

(* Client.CloseFailed after a failed start or initialization; its own       *)
(* context may be done already.                                             *)
OwnerClosesFailed ==
  /\ Started \/ childEnd = "startFailed"
  /\ ctxDone
  /\ \/ SetClosing("owner", "none", "expired") /\ UNCHANGED stopped
     \/ SetClosing("owner", "none", "failed") /\ stopped' = TRUE
  /\ UNCHANGED <<validationVars, queue, queuedBytes, overflowed, worker, carried,
                 readerVars, inner, closed, ctxDone, childEnd, reaped, requestVars>>

(* limitedStdioTransport.Close: the second caller returns at once.          *)
CloseLocked(c) ==
  /\ SetClosing(c, "locking", IF closed THEN "returned" ELSE "closing")
  /\ closed' = TRUE
  /\ UNCHANGED <<validationVars, queueVars, readerVars, inner, ctxDone, childEnd, reaped,
                 requestVars>>

CloseInner(c) ==
  /\ SetClosing(c, "closing", "waiting")
  /\ inner' = "closed"
  /\ UNCHANGED <<validationVars, queueVars, readerVars, closed, ctxDone, childEnd, reaped,
                 requestVars>>

(* exec.Cmd.Wait returns once the child has ended.                          *)
Wait(c) ==
  /\ \/ SetClosing(c, "waiting", "returned")
     \/ SetClosing(c, "reaping", "killed")
  /\ childEnd # "none"
  /\ reaped' = TRUE
  /\ UNCHANGED <<validationVars, queueVars, readerVars, inner, closed, ctxDone, childEnd,
                 requestVars>>

(* Faulty variant: CloseFailed returns if the transport is closed already.  *)
CloseFailedOnce ==
  /\ SetClosing("owner", "failed", IF closed THEN "killed" ELSE "killing")
  /\ closed' = TRUE
  /\ UNCHANGED <<validationVars, queueVars, readerVars, inner, ctxDone, childEnd, reaped,
                 requestVars>>

(* limitedStdioTransport.CloseFailed goes on even if Close was called; it   *)
(* gives up if its context is done.                                         *)
CloseFailedLocked ==
  /\ \/ SetClosing("owner", "failed", "killing")
     \/ SetClosing("owner", "failed", "expired")
  /\ closed' = TRUE
  /\ UNCHANGED <<validationVars, queueVars, readerVars, inner, ctxDone, childEnd, reaped,
                 requestVars>>

(* As its context is done, the kill counts as the context's.                *)
Kill ==
  /\ SetClosing("owner", "killing", "reaping")
  /\ childEnd' = IF childEnd = "none" THEN "context" ELSE childEnd
  /\ UNCHANGED <<validationVars, queueVars, readerVars, inner, closed, ctxDone, reaped,
                 requestVars>>
-----------------------------------------------------------------------------
(* The local variables of an attempt that is over.                          *)
Forget(r) ==
  /\ chosen' = [chosen EXCEPT ![r] = "none"]
  /\ value' = [value EXCEPT ![r] = "none"]
  /\ answer' = [answer EXCEPT ![r] = "none"]

(* A request.  sendRequestOnce starts a goroutine that calls the stdio      *)
(* transport and waits for the first of failure, result and context.        *)
Send(r) ==
  /\ pc' = [pc EXCEPT ![r] = "waiting"]
  /\ sends' = [sends EXCEPT ![r] = @ + 1]
  /\ stdio' = [stdio EXCEPT ![r] = "entering"]
  /\ Forget(r)
  /\ UNCHANGED ret

(* It returns, and the deferred cancel ends the goroutine it leaves behind. *)
Return(r, result) ==
  /\ pc' = [pc EXCEPT ![r] = "returned"]
  /\ ret' = [ret EXCEPT ![r] = result]
  /\ stdio' = [stdio EXCEPT ![r] = "none"]
  /\ Forget(r)
  /\ UNCHANGED sends

Begin(r) ==
  /\ pc[r] = "idle"
  /\ Started
  /\ Send(r)
  /\ UNCHANGED <<validationVars, queueVars, readerVars, processVars, expired>>

Expire(r) ==
  /\ pc[r] \notin {"idle", "returned"}
  /\ ~expired[r]
  /\ expired' = [expired EXCEPT ![r] = TRUE]
  /\ UNCHANGED <<validationVars, queueVars, readerVars, processVars, pc, sends, chosen,
                 stdio, value, answer, ret>>

SetStdio(r, from, to, v) ==
  /\ stdio[r] = from
  /\ stdio' = [stdio EXCEPT ![r] = to]
  /\ value' = [value EXCEPT ![r] = v]

(* limitedStdioTransport.SendRequest refuses once the limit was exceeded    *)
(* and passes the request to mcp-go otherwise.                              *)
EnterStdio(r) ==
  /\ \/ /\ limitCh
        /\ SetStdio(r, "entering", "done", "limit")
        /\ UNCHANGED answer
     \/ /\ ~limitCh
        /\ SetStdio(r, "entering", "awaiting", value[r])
        /\ answer' = [answer EXCEPT ![r] = IF inner = "open" THEN "pending" ELSE "broken"]
  /\ UNCHANGED <<validationVars, queueVars, readerVars, processVars, pc, sends, chosen,
                 expired, ret>>

(* mcp-go gives a request up whose transport is closed, cannot be written   *)
(* to, or is no longer read.                                                *)
BreakAnswer(r) ==
  /\ answer[r] = "pending"
  /\ inner = "closed" \/ childEnd # "none" \/ reader = "ended"
  /\ answer' = [answer EXCEPT ![r] = "broken"]
  /\ UNCHANGED <<validationVars, queueVars, readerVars, processVars, pc, sends, chosen,
                 stdio, value, expired, ret>>

(* awaitLimitedStdioResponse: the select ...                                *)
AwaitStdio(r) ==
  /\ \/ limitCh /\ SetStdio(r, "awaiting", "done", "limit")
     \/ answer[r] \notin {"none", "pending"} /\ SetStdio(r, "awaiting", "chose", answer[r])
     \/ expired[r] /\ SetStdio(r, "awaiting", "chose", "expired")
  /\ UNCHANGED <<validationVars, queueVars, readerVars, processVars, pc, sends, chosen,
                 answer, expired, ret>>

(* Faulty variant: what the select received is returned as it is.           *)
RecheckNothing(r) ==
  /\ SetStdio(r, "chose", "done", value[r])
  /\ UNCHANGED <<validationVars, queueVars, readerVars, processVars, pc, sends, chosen,
                 answer, expired, ret>>

(* ... and the second look at limitCh.                                      *)
RecheckLimit(r) ==
  /\ SetStdio(r, "chose", "done", IF limitCh THEN "limit" ELSE value[r])
  /\ UNCHANGED <<validationVars, queueVars, readerVars, processVars, pc, sends, chosen,
                 answer, expired, ret>>

(* Faulty variant: the select of sendRequestOnce has no case for done.      *)
SelectAnswerOnly(r) ==
  /\ pc[r] = "waiting"
  /\ stdio[r] = "done"
  /\ pc' = [pc EXCEPT ![r] = "chose"]
  /\ chosen' = [chosen EXCEPT ![r] = value[r]]
  /\ UNCHANGED <<validationVars, queueVars, readerVars, processVars, sends, stdio, value,
                 answer, expired, ret>>

(* sendRequestOnce: the select ...                                          *)
Select(r) ==
  /\ pc[r] = "waiting"
  /\ \/ failure # "none" /\ Return(r, failure)
     \/ /\ \/ stdio[r] = "done" /\ chosen' = [chosen EXCEPT ![r] = value[r]]
           \/ expired[r] /\ chosen' = [chosen EXCEPT ![r] = "expired"]
        /\ pc' = [pc EXCEPT ![r] = "chose"]
        /\ UNCHANGED <<sends, stdio, value, answer, ret>>
  /\ UNCHANGED <<validationVars, queueVars, readerVars, processVars, expired>>

(* ... and the second look at validation.done.                              *)
RecheckFailure(r) ==
  /\ pc[r] = "chose"
  /\ \/ failure # "none" /\ Return(r, failure)
     \/ failure = "none" /\ chosen[r] \notin RPCErrors /\ Return(r, chosen[r])
     \/ /\ failure = "none"
        /\ chosen[r] \in RPCErrors
        /\ pc' = [pc EXCEPT ![r] = "deciding"]
        /\ UNCHANGED <<sends, chosen, stdio, value, answer, ret>>
  /\ UNCHANGED <<validationVars, queueVars, readerVars, processVars, expired>>

(* SendRequest takes the recorded error.  A peer that rejects a revision it *)
(* lists as supported is asked once more; otherwise the error is returned.  *)
Decide(r) ==
  /\ pc[r] = "deciding"
  /\ rpcErrors' = rpcErrors \ {r}
  /\ IF chosen[r] = "sameVersion" /\ sends[r] = 1 THEN Send(r) ELSE Return(r, chosen[r])
  /\ UNCHANGED <<failure, limitCh, queueVars, readerVars, processVars, expired>>
-----------------------------------------------------------------------------
(* Nothing is left to do.                                                   *)
Terminated ==
  /\ closing["owner"] \in {"returned", "killed", "expired"}
  /\ closing["overflow"] \in {"none", "returned"}
  /\ reader = "ended" /\ childEnd # "none"
  /\ \A w \in Workers : worker[w] \in {"off", "idle", "ended"}
  /\ \A r \in Requests : pc[r] \in {"idle", "returned"}
  /\ UNCHANGED vars

Reader ==
  \/ KillAtLimit \/ ReadEnd \/ Enqueue \/ FailOverflow \/ StopOverflow

Frame ==
  \/ ReadTooLong \/ ReadInvalid
  \/ \E r \in Requests, k \in Answers : ReadResponse(r, k)
  \/ \E s \in Sizes : ReadNotification(s)

Worker(w) == Receive(w) \/ Subtract(w) \/ Handled(w) \/ EndWorker(w)

Closing(c) == CloseLocked(c) \/ CloseInner(c) \/ Wait(c)

OwnerFailed == CloseFailedLocked \/ Kill

Request(r) ==
  \/ EnterStdio(r) \/ AwaitStdio(r) \/ RecheckLimit(r)
  \/ Select(r) \/ RecheckFailure(r) \/ Decide(r)

Next ==
  \/ Start \/ StartEvents \/ ContextEnds \/ ChildExits \/ ContextKills
  \/ Reader \/ Frame
  \/ OwnerCloses \/ OwnerClosesFailed \/ OwnerFailed
  \/ \E c \in Closers : Closing(c)
  \/ \E w \in Workers : Worker(w)
  \/ \E r \in Requests : Begin(r) \/ Expire(r) \/ BreakAnswer(r) \/ Request(r)
  \/ Terminated

Spec == Init /\ [][Next]_vars

(* Goroutines run, handlers return and a killed child dies.  Nothing is     *)
(* assumed of what the child sends, of its exit, of deadlines or of the     *)
(* owner.                                                                   *)
FairSpec ==
  /\ Spec
  /\ WF_vars(StartEvents) /\ WF_vars(Reader) /\ WF_vars(ContextKills)
  /\ WF_vars(OwnerFailed)
  /\ \A c \in Closers : WF_vars(Closing(c))
  /\ \A w \in Workers : WF_vars(Worker(w))
  /\ \A r \in Requests : WF_vars(Request(r))
-----------------------------------------------------------------------------
WorkerStates == {"off", "idle", "received", "handling", "ended"}
ReaderStates ==
  {"off", "reading", "killing", "enqueuing", "failing", "stopping", "ended"}
ClosingStates ==
  {"none", "locking", "closing", "waiting", "returned", "failed", "killing",
   "reaping", "killed", "expired"}
Values == Answers \cup {"none", "limit", "broken", "expired"}

EventTypes ==
  /\ rpcErrors \subseteq Requests
  /\ queue \in Seq(Sizes)
  /\ queuedBytes \in Nat
  /\ stopped \in BOOLEAN
  /\ overflowed \in BOOLEAN
  /\ carried \in [Workers -> Sizes \cup {0}]
  /\ size \in Sizes \cup {0}
  /\ frames \in 0..MaxFrames

ProcessTypes ==
  /\ failure \in {"none", "overflow", "invalid"}
  /\ limitCh \in BOOLEAN
  /\ worker \in [Workers -> WorkerStates]
  /\ reader \in ReaderStates
  /\ inner \in {"none", "open", "closed"}
  /\ closed \in BOOLEAN
  /\ ctxDone \in BOOLEAN
  /\ childEnd \in {"none", "startFailed", "exited", "context", "limit"}
  /\ reaped \in BOOLEAN
  /\ closing \in [Closers -> ClosingStates]

RequestTypes ==
  /\ pc \in [Requests -> {"idle", "waiting", "chose", "deciding", "returned"}]
  /\ sends \in [Requests -> 0..2]
  /\ chosen \in [Requests -> Values]
  /\ stdio \in [Requests -> {"none", "entering", "awaiting", "chose", "done"}]
  /\ value \in [Requests -> Values]
  /\ answer \in [Requests -> Values \cup {"pending"}]
  /\ expired \in [Requests -> BOOLEAN]
  /\ ret \in [Requests -> Values \cup {"overflow", "invalid"}]

(* The connection's variables keep their types; in particular SendRequest   *)
(* sends a request at most twice.                                           *)
TypeOK == EventTypes /\ ProcessTypes /\ RequestTypes

(* The byte counter is the size of what is queued or has left the channel   *)
(* but not yet been given back by its worker, and stays within its limit:   *)
(* the channel and the counter are updated by different goroutines.         *)
QueueAccounting ==
  /\ queuedBytes = Total(queue, DOMAIN queue) + Total(carried, Workers)
  /\ queuedBytes <= MaxBytes
  /\ Len(queue) <= MaxEvents

NotOurs == childEnd = "exited" \/ ctxDone

(* A request never blames a broken transport for what the gateway itself    *)
(* did to the child: it returns "broken" only if the child exited on its    *)
(* own or the context of the connection ended.  A transport closed by an    *)
(* overflow, or a child killed at the byte limit, is reported as that.      *)
FailureIsClassified == \A r \in Requests : ret[r] = "broken" => NotOurs

(* "Stdio implementations kill and reap their child before return" (the     *)
(* comment on closeFailedProvider), also when an overflow closes the        *)
(* transport at the same time.                                              *)
CloseFailedReaps == closing["owner"] = "killed" => childEnd # "none" /\ reaped

(* A failure of the connection reaches everyone: each request under way     *)
(* returns without waiting for its deadline, an overflow closes mcp-go's    *)
(* transport unless the child is gone, and the workers end.                 *)
FailureReaches ==
  /\ \A r \in Requests :
       (pc[r] # "idle" /\ (failure # "none" \/ limitCh)) ~> pc[r] = "returned"
  /\ failure = "overflow" ~> inner = "closed" \/ childEnd # "none"
  /\ \A w \in Workers : (stopped /\ worker[w] # "off") ~> worker[w] = "ended"

(* The owner's Close and CloseFailed return, whatever the child does.       *)
OwnerReturns ==
  closing["owner"] # "none" ~> closing["owner"] \in {"returned", "killed", "expired"}
===============================================================================
