----------------------- MODULE ProviderConnectionProofs -----------------------
(***************************************************************************)
(* The connection classifies its failures, for any number of requests,      *)
(* workers, frames and events.                                              *)
(*                                                                         *)
(* The argument follows the order of publication: whatever the gateway does *)
(* to the transport it has announced before, on validation.done or on       *)
(* limitCh, so a broken answer implies an announcement or a cause of its    *)
(* own.  The stdio transport's second look removes the limit from that list *)
(* and the validating transport's second look removes the failure.          *)
(***************************************************************************)
EXTENDS ProviderConnection, CountingProofs

Published == NotOurs \/ failure # "none" \/ limitCh

(* Nothing happens to a connection that has not been started.               *)
NotStarted ==
  /\ reader = "off" <=> inner = "none"
  /\ reader = "off" =>
       /\ childEnd = "none"
       /\ \A w \in Workers : worker[w] = "off"
       /\ \A c \in Closers : closing[c] = "none"
  /\ childEnd = "startFailed" => \A w \in Workers : worker[w] = "off"
  /\ (\A w \in Workers : worker[w] = "off") => \A r \in Requests : pc[r] = "idle"

(* A request that is not under way holds nothing, and one that decides      *)
(* about an error response has one.                                         *)
Resting ==
  \A r \in Requests :
    /\ pc[r] = "idle" => sends[r] = 0
    /\ pc[r] \in {"idle", "returned"} => stdio[r] = "none"
    /\ stdio[r] = "none" => answer[r] = "none"
    /\ pc[r] = "deciding" => chosen[r] \in RPCErrors

(* What has been done to the transport was published first.                 *)
Announced ==
  /\ closing["overflow"] # "none" => failure # "none"
  /\ closing["owner"] # "none" => ctxDone
  /\ reader = "killing" => limitCh
  /\ reader = "stopping" => failure # "none"
  /\ childEnd = "limit" => limitCh
  /\ childEnd = "context" => ctxDone
  /\ inner = "closed" => childEnd = "startFailed" \/ NotOurs \/ failure # "none"
  /\ reader = "ended" => childEnd = "startFailed" \/ Published

(* What each stage of a request can still be told is broken.                *)
Stages ==
  \A r \in Requests :
    /\ answer[r] = "broken" => Published
    /\ value[r] = "broken" /\ stdio[r] = "chose" => Published
    /\ value[r] = "broken" /\ stdio[r] = "done" => NotOurs \/ failure # "none"
    /\ chosen[r] = "broken" => NotOurs \/ failure # "none"
    /\ ret[r] = "broken" => NotOurs

(* The child has been waited for when CloseFailed reports it gone.          *)
Reaping ==
  /\ reaped => childEnd # "none"
  /\ closing["owner"] = "killed" => reaped

Inductive ==
  ProcessTypes /\ RequestTypes /\ NotStarted /\ Resting /\ Announced /\ Stages /\ Reaping
(* The invariant holds in the initial state.                                *)
LEMMA InductiveInit == Init => Inductive
<1> SUFFICES ASSUME Init PROVE Inductive
  OBVIOUS
<1> USE ConnectionAssumption DEF Init,
        Inductive, ProcessTypes, RequestTypes, NotStarted, Resting,
        Announced, Stages, Reaping,
        Published, NotOurs, WorkerStates, ReaderStates, ClosingStates, Values,
        Answers, RPCErrors, Closers
<1>1. ProcessTypes OBVIOUS
<1>2. RequestTypes OBVIOUS
<1>3. NotStarted OBVIOUS
<1>4. Resting OBVIOUS
<1>5. Announced OBVIOUS
<1>6. Stages OBVIOUS
<1>7. Reaping OBVIOUS
<1> QED BY <1>1, <1>2, <1>3, <1>4, <1>5, <1>6, <1>7

(* Every action of the reader, the workers, the closers, the child and the  *)
(* requests preserves it.                                                   *)
LEMMA InductiveStep == Inductive /\ [Next]_vars => Inductive'
<1> SUFFICES ASSUME Inductive, [Next]_vars PROVE Inductive'
  OBVIOUS
<1> USE ConnectionAssumption DEF
        Inductive, ProcessTypes, RequestTypes, NotStarted, Resting,
        Announced, Stages, Reaping,
        Published, NotOurs, WorkerStates, ReaderStates, ClosingStates, Values,
        Answers, RPCErrors, Closers,
        validationVars, queueVars, readerVars, processVars, requestVars
<1>1. CASE UNCHANGED vars
  BY <1>1 DEF vars
<1>2. CASE Start
  <2>1. ProcessTypes'
    BY <1>2 DEF Start
  <2>2. RequestTypes'
    BY <1>2 DEF Start
  <2>3. NotStarted'
    BY <1>2 DEF Start
  <2>4. Resting'
    BY <1>2 DEF Start
  <2>5. Announced'
    BY <1>2 DEF Start
  <2>6. Stages'
    BY <1>2 DEF Start
  <2>7. Reaping'
    BY <1>2 DEF Start
  <2> QED BY <2>1, <2>2, <2>3, <2>4, <2>5, <2>6, <2>7
<1>3. CASE StartEvents
  BY <1>3 DEF StartEvents
<1>4. CASE ContextEnds
  BY <1>4 DEF ContextEnds
<1>5. CASE ChildExits
  BY <1>5 DEF ChildExits, ChildEnds
<1>6. CASE ContextKills
  BY <1>6 DEF ContextKills, ChildEnds
<1>7. CASE KillAtLimit
  BY <1>7 DEF KillAtLimit
<1>8. CASE ReadEnd
  BY <1>8 DEF ReadEnd
<1>9. CASE Enqueue
  BY <1>9 DEF Enqueue
<1>10. CASE FailOverflow
  BY <1>10 DEF FailOverflow, FailValidation
<1>11. CASE StopOverflow
  BY <1>11 DEF StopOverflow
<1>12. CASE ReadTooLong
  BY <1>12 DEF ReadTooLong, Reading
<1>13. CASE ReadInvalid
  BY <1>13 DEF ReadInvalid, Reading, FailValidation
<1>14. CASE OwnerCloses
  BY <1>14 DEF OwnerCloses, SetClosing, Started
<1>15. CASE OwnerClosesFailed
  BY <1>15 DEF OwnerClosesFailed, SetClosing, Started
<1>16. CASE CloseFailedLocked
  BY <1>16 DEF CloseFailedLocked, SetClosing
<1>17. CASE Kill
  <2>1. ProcessTypes'
    BY <1>17 DEF Kill, SetClosing
  <2>2. RequestTypes'
    BY <1>17 DEF Kill, SetClosing
  <2>3. NotStarted'
    BY <1>17 DEF Kill, SetClosing
  <2>4. Resting'
    BY <1>17 DEF Kill, SetClosing
  <2>5. Announced'
    BY <1>17 DEF Kill, SetClosing
  <2>6. Stages'
    BY <1>17 DEF Kill, SetClosing
  <2>7. Reaping'
    BY <1>17 DEF Kill, SetClosing
  <2> QED BY <2>1, <2>2, <2>3, <2>4, <2>5, <2>6, <2>7
<1>18. ASSUME NEW s \in Sizes, ReadNotification(s) PROVE Inductive'
  BY <1>18 DEF ReadNotification, Reading
<1>19. ASSUME NEW r \in Requests, NEW k \in Answers, ReadResponse(r, k) PROVE Inductive'
  BY <1>19 DEF ReadResponse, Reading
<1>20. ASSUME NEW c \in Closers, CloseLocked(c) PROVE Inductive'
  BY <1>20 DEF CloseLocked, SetClosing
<1>21. ASSUME NEW c \in Closers, CloseInner(c) PROVE Inductive'
  <2>1. ProcessTypes'
    BY <1>21 DEF CloseInner, SetClosing
  <2>2. RequestTypes'
    BY <1>21 DEF CloseInner, SetClosing
  <2>3. NotStarted'
    BY <1>21 DEF CloseInner, SetClosing
  <2>4. Resting'
    BY <1>21 DEF CloseInner, SetClosing
  <2>5. Announced'
    BY <1>21 DEF CloseInner, SetClosing
  <2>6. Stages'
    BY <1>21 DEF CloseInner, SetClosing
  <2>7. Reaping'
    BY <1>21 DEF CloseInner, SetClosing
  <2> QED BY <2>1, <2>2, <2>3, <2>4, <2>5, <2>6, <2>7
<1>22. ASSUME NEW c \in Closers, Wait(c) PROVE Inductive'
  BY <1>22 DEF Wait, SetClosing
<1>23. ASSUME NEW w \in Workers, Receive(w) PROVE Inductive'
  BY <1>23 DEF Receive, SetWorker
<1>24. ASSUME NEW w \in Workers, Subtract(w) PROVE Inductive'
  BY <1>24 DEF Subtract, SetWorker
<1>25. ASSUME NEW w \in Workers, Handled(w) PROVE Inductive'
  BY <1>25 DEF Handled, SetWorker
<1>26. ASSUME NEW w \in Workers, EndWorker(w) PROVE Inductive'
  BY <1>26 DEF EndWorker, SetWorker
<1>27. ASSUME NEW r \in Requests, Begin(r) PROVE Inductive'
  BY <1>27 DEF Begin, Send, Forget, Started
<1>28. ASSUME NEW r \in Requests, Expire(r) PROVE Inductive'
  BY <1>28 DEF Expire
<1>29. ASSUME NEW r \in Requests, BreakAnswer(r) PROVE Inductive'
  BY <1>29 DEF BreakAnswer
<1>30. ASSUME NEW r \in Requests, EnterStdio(r) PROVE Inductive'
  BY <1>30 DEF EnterStdio, SetStdio
<1>31. ASSUME NEW r \in Requests, AwaitStdio(r) PROVE Inductive'
  BY <1>31 DEF AwaitStdio, SetStdio
<1>32. ASSUME NEW r \in Requests, RecheckLimit(r) PROVE Inductive'
  BY <1>32 DEF RecheckLimit, SetStdio
<1>33. ASSUME NEW r \in Requests, Select(r) PROVE Inductive'
  BY <1>33 DEF Select, Return, Forget
<1>34. ASSUME NEW r \in Requests, RecheckFailure(r) PROVE Inductive'
  BY <1>34 DEF RecheckFailure, Return, Forget
<1>35. ASSUME NEW r \in Requests, Decide(r) PROVE Inductive'
  <2>1. ProcessTypes'
    BY <1>35 DEF Decide, Send, Return, Forget
  <2>2. RequestTypes'
    BY <1>35 DEF Decide, Send, Return, Forget
  <2>3. NotStarted'
    BY <1>35 DEF Decide, Send, Return, Forget
  <2>4. Resting'
    BY <1>35 DEF Decide, Send, Return, Forget
  <2>5. Announced'
    BY <1>35 DEF Decide, Send, Return, Forget
  <2>6. Stages'
    BY <1>35 DEF Decide, Send, Return, Forget
  <2>7. Reaping'
    BY <1>35 DEF Decide, Send, Return, Forget
  <2> QED BY <2>1, <2>2, <2>3, <2>4, <2>5, <2>6, <2>7
<1>36. CASE Terminated
  BY <1>36 DEF Terminated, vars
<1> HIDE DEF Inductive
<1> QED
  BY <1>1, <1>2, <1>3, <1>4, <1>5, <1>6, <1>7, <1>8, <1>9, <1>10, <1>11,
     <1>12, <1>13, <1>14, <1>15, <1>16, <1>17, <1>18, <1>19, <1>20, <1>21,
     <1>22, <1>23, <1>24, <1>25, <1>26, <1>27, <1>28, <1>29, <1>30, <1>31,
     <1>32, <1>33, <1>34, <1>35, <1>36
     DEF Next, Reader, Frame, Worker, Closing, OwnerFailed, Request

(* The inductive invariant of the connection.                               *)
THEOREM InductiveInvariant == Spec => []Inductive
<1>1. Init => Inductive
  BY InductiveInit
<1>2. Inductive /\ [Next]_vars => Inductive'
  BY InductiveStep
<1> QED BY <1>1, <1>2, PTL DEF Spec

-----------------------------------------------------------------------------
(* The event queue.  A worker carries a size only between receiving an      *)
(* event and giving its bytes back, and the workers start together.         *)
EventsOK ==
  /\ EventTypes
  /\ QueueAccounting
  /\ reader = "enqueuing" => size \in Sizes
  /\ DOMAIN worker = Workers
  /\ \A w \in Workers : worker[w] # "received" => carried[w] = 0
  /\ (\E w \in Workers : worker[w] = "off") => \A w \in Workers : worker[w] = "off"

(* Sizes are natural numbers.                                               *)
LEMMA SizesNat ==
  /\ \A x \in Sizes \cup {0} : x \in Nat
  /\ \A q \in Seq(Sizes) : q \in Seq(Nat) /\ \A i \in DOMAIN q : q[i] \in Nat
<1>1. \A x \in Sizes \cup {0} : x \in Nat
  BY ConnectionAssumption
<1>2. ASSUME NEW q \in Seq(Sizes) PROVE q \in Seq(Nat) /\ \A i \in DOMAIN q : q[i] \in Nat
  <2>1. /\ q \in [1 .. Len(q) -> Sizes] /\ Len(q) \in Nat
    OBVIOUS
  <2>2. q \in [1 .. Len(q) -> Nat]
    BY <1>1, <2>1
  <2> QED
    BY <2>1, <2>2
<1> QED
  BY <1>1, <1>2

(* What the queue and the workers hold can be added up.                     *)
LEMMA EventSums ==
  ASSUME EventTypes
  PROVE  /\ IsFiniteSet(DOMAIN queue) /\ IsFiniteSet(Workers)
         /\ \A i \in DOMAIN queue : queue[i] \in Nat
         /\ \A w \in Workers : carried[w] \in Nat
         /\ Total(queue, DOMAIN queue) \in Nat
         /\ Total(carried, Workers) \in Nat
         /\ DOMAIN queue = 1 .. Len(queue) /\ Len(queue) \in Nat
         /\ queuedBytes \in Nat /\ size \in Nat
<1>1. DOMAIN queue = 1 .. Len(queue) /\ Len(queue) \in Nat
  BY DEF EventTypes
<1>2. IsFiniteSet(1 .. Len(queue)) /\ IsFiniteSet(Workers)
  BY <1>1, FS_Interval, ConnectionAssumption
<1>3. /\ \A i \in DOMAIN queue : queue[i] \in Nat
      /\ \A w \in Workers : carried[w] \in Nat
  BY SizesNat DEF EventTypes
<1>4. IsFiniteSet(DOMAIN queue)
  BY <1>1, <1>2, Zenon
<1>5. Total(queue, DOMAIN queue) \in Nat /\ Total(carried, Workers) \in Nat
  BY <1>2, <1>3, <1>4, TotalType
<1> QED
  BY <1>1, <1>2, <1>3, <1>4, <1>5, ConnectionAssumption DEF EventTypes

(* A queued event adds its size.                                            *)
LEMMA TotalAppend ==
  ASSUME NEW s \in Seq(Nat), NEW x \in Nat
  PROVE  Total(Append(s, x), DOMAIN Append(s, x)) = Total(s, DOMAIN s) + x
<1> DEFINE n == Len(s)
           t == Append(s, x)
<1>1. /\ DOMAIN t = (1 .. n) \cup {n + 1} /\ n + 1 \notin 1 .. n /\ DOMAIN s = 1 .. n
      /\ n \in Nat /\ t[n + 1] = x /\ \A i \in 1 .. n : t[i] = s[i] /\ s[i] \in Nat
  OBVIOUS
<1> HIDE DEF t, n
<1>2. IsFiniteSet(1 .. n)
  BY <1>1, FS_Interval
<1>3. \A i \in (1 .. n) \cup {n + 1} : t[i] \in Nat
  BY <1>1
<1>4. Total(t, (1 .. n) \cup {n + 1}) = Total(t, 1 .. n) + t[n + 1]
  BY <1>1, <1>2, <1>3, TotalAdd
<1>5. Total(t, 1 .. n) = Total(s, 1 .. n)
  BY <1>1, TotalSame
<1>6. Total(t, DOMAIN t) = Total(s, DOMAIN s) + x
  BY <1>1, <1>4, <1>5, Zenon
<1> QED
  BY <1>6 DEF t

(* A received event takes its size along; the others move up by one place.  *)
LEMMA TotalTail ==
  ASSUME NEW s \in Seq(Nat), s # <<>>
  PROVE  Total(s, DOMAIN s) = Total(Tail(s), DOMAIN Tail(s)) + Head(s)
<1> DEFINE n == Len(s)
           t == Tail(s)
           down == [i \in 2 .. n |-> i - 1]
           up == [i \in 1 .. n - 1 |-> i + 1]
<1>1. /\ n \in Nat /\ n >= 1 /\ DOMAIN s = 1 .. n /\ DOMAIN t = 1 .. n - 1
      /\ s[1] = Head(s) /\ \A i \in 1 .. n : s[i] \in Nat
      /\ \A i \in 1 .. n - 1 : t[i] = s[i + 1]
  OBVIOUS
<1> HIDE DEF t, n
<1>2. DOMAIN s = (2 .. n) \cup {1} /\ 1 \notin 2 .. n
  BY <1>1
<1>3. IsFiniteSet(2 .. n) /\ IsFiniteSet(1 .. n - 1)
  BY <1>1, FS_Interval
<1>4. Total(s, (2 .. n) \cup {1}) = Total(s, 2 .. n) + s[1]
  <2>1. \A i \in (2 .. n) \cup {1} : s[i] \in Nat
    BY <1>1
  <2> QED
    BY <1>2, <1>3, <2>1, TotalAdd
<1>5. /\ \A i \in 2 .. n : s[i] \in Nat
      /\ \A i \in 1 .. n - 1 : t[i] \in Nat
  BY <1>1
<1>6. Total(s, 2 .. n) <= Total(t, 1 .. n - 1)
  <2>1. /\ down \in [2 .. n -> 1 .. n - 1]
        /\ \A i, j \in 2 .. n : down[i] = down[j] => i = j
        /\ \A i \in 2 .. n : s[i] <= t[down[i]]
    BY <1>1, <1>5
  <2> HIDE DEF down
  <2> QED
    BY <1>3, <1>5, <2>1, TotalInjection
<1>7. Total(t, 1 .. n - 1) <= Total(s, 2 .. n)
  <2>1. /\ up \in [1 .. n - 1 -> 2 .. n]
        /\ \A i, j \in 1 .. n - 1 : up[i] = up[j] => i = j
        /\ \A i \in 1 .. n - 1 : t[i] <= s[up[i]]
    BY <1>1, <1>5
  <2> HIDE DEF up
  <2> QED
    BY <1>3, <1>5, <2>1, TotalInjection
<1>8. Total(s, 2 .. n) \in Nat /\ Total(t, 1 .. n - 1) \in Nat
  BY <1>3, <1>5, TotalType
<1>9. Total(s, 2 .. n) = Total(t, 1 .. n - 1)
  BY <1>6, <1>7, <1>8
<1>10. Total(s, DOMAIN s) = Total(t, DOMAIN t) + Head(s)
  BY <1>1, <1>2, <1>4, <1>9, Zenon
<1> QED
  BY <1>10 DEF t

(* Whatever leaves the queue, the counter and the workers alone.            *)
LEMMA EventsFrame ==
  ASSUME EventsOK, UNCHANGED <<queue, queuedBytes, worker, carried>>,
         rpcErrors' \subseteq Requests, stopped' \in BOOLEAN, overflowed' \in BOOLEAN,
         size' \in Sizes \cup {0}, reader' = "enqueuing" => size' \in Sizes,
         frames' \in 0 .. MaxFrames
  PROVE  EventsOK'
BY DEF EventsOK, EventTypes, QueueAccounting

(* An event is added to the queue and to its byte count together, or to     *)
(* neither.                                                                 *)
LEMMA EnqueueStep ==
  ASSUME EventsOK, Enqueue
  PROVE  EventsOK'
<1>1. EventTypes /\ QueueAccounting
  BY DEF EventsOK
<1>2. CASE UNCHANGED <<queue, queuedBytes>>
  <2>1. /\ UNCHANGED <<queue, queuedBytes, worker, carried, rpcErrors, stopped, overflowed,
                        frames>>
        /\ size' = 0 /\ reader' # "enqueuing"
    BY <1>2 DEF Enqueue, validationVars
  <2> QED
    BY <1>1, <2>1, EventsFrame DEF EventTypes
<1>3. CASE /\ ~Oversized
           /\ Len(queue) < MaxEvents
           /\ queue' = Append(queue, size)
           /\ queuedBytes' = queuedBytes + size
  <2>0. /\ UNCHANGED <<worker, carried, rpcErrors, stopped, overflowed, frames>>
        /\ size' = 0 /\ reader' # "enqueuing"
    BY <1>3 DEF Enqueue, validationVars, Oversized
  <2>1. /\ queue \in Seq(Nat) /\ size \in Nat /\ Sizes \subseteq Nat /\ queuedBytes \in Nat
        /\ MaxEvents \in Nat /\ MaxBytes \in Nat
        /\ Total(queue, DOMAIN queue) \in Nat /\ Total(carried, Workers) \in Nat
    BY <1>1, EventSums, ConnectionAssumption DEF EventTypes
  <2>2. size \in Sizes
    BY DEF Enqueue, EventsOK
  <2>3. queue' \in Seq(Sizes) /\ Len(queue') <= MaxEvents
    BY <1>1, <1>3, <2>1, <2>2 DEF EventTypes
  <2>4. Total(queue', DOMAIN queue') = Total(queue, DOMAIN queue) + size
    BY <1>3, <2>1, TotalAppend
  <2>5. queuedBytes' = Total(queue', DOMAIN queue') + Total(carried, Workers)
    BY <1>1, <1>3, <2>1, <2>4 DEF QueueAccounting
  <2>6. queuedBytes' \in Nat /\ queuedBytes' <= MaxBytes
    BY <1>3, <2>1 DEF Oversized
  <2> QED
    BY <2>0, <2>3, <2>5, <2>6 DEF EventsOK, EventTypes, QueueAccounting
<1> QED
  BY <1>2, <1>3 DEF Enqueue

(* A worker takes the oldest event; its bytes are still counted.            *)
LEMMA ReceiveStep ==
  ASSUME EventsOK, NEW w \in Workers, Receive(w)
  PROVE  EventsOK'
<1>0. /\ EventTypes /\ QueueAccounting /\ worker[w] = "idle" /\ queue # <<>>
      /\ worker' = [worker EXCEPT ![w] = "received"] /\ queue' = Tail(queue)
      /\ carried' = [carried EXCEPT ![w] = Head(queue)]
      /\ UNCHANGED <<rpcErrors, queuedBytes, stopped, overflowed, size, frames, reader>>
  BY DEF EventsOK, Receive, SetWorker, validationVars, readerVars
<1>1. carried[w] = 0 /\ DOMAIN worker = Workers
  BY <1>0 DEF EventsOK
<1>2. /\ queue \in Seq(Nat) /\ Head(queue) \in Sizes /\ Head(queue) \in Nat
      /\ queue' \in Seq(Sizes) /\ Len(queue') = Len(queue) - 1 /\ Len(queue) \in Nat
  <2>1. queue \in Seq(Sizes) /\ queue # <<>>
    BY <1>0 DEF EventTypes
  <2>2. Head(queue) \in Sizes /\ Tail(queue) \in Seq(Sizes) /\ Len(Tail(queue)) = Len(queue) - 1
    BY <2>1
  <2> QED
    BY <1>0, <2>1, <2>2, SizesNat
<1>3. /\ carried' \in [Workers -> Sizes \cup {0}] /\ carried'[w] = Head(queue)
      /\ \A v \in Workers \ {w} : carried'[v] = carried[v]
  BY <1>0, <1>2 DEF EventTypes
<1>4. Total(carried', Workers) = Total(carried, Workers) - carried[w] + carried'[w]
  <2>1. IsFiniteSet(Workers) /\ \A v \in Workers : carried[v] \in Nat
    BY <1>0, EventSums
  <2>2. carried'[w] \in Nat
    BY <1>2, <1>3
  <2> QED
    BY <1>3, <2>1, <2>2, TotalChange
<1>5. Total(queue, DOMAIN queue) = Total(queue', DOMAIN queue') + Head(queue)
  BY <1>0, <1>2, TotalTail
<1>6. Total(queue', DOMAIN queue') \in Nat
  <2>1. DOMAIN queue' = 1 .. Len(queue') /\ Len(queue') \in Nat
    BY <1>2
  <2>2. IsFiniteSet(1 .. Len(queue'))
    BY <2>1, FS_Interval
  <2>3. IsFiniteSet(DOMAIN queue')
    BY <2>1, <2>2, Zenon
  <2>4. \A i \in DOMAIN queue' : queue'[i] \in Nat
    BY <1>2, SizesNat
  <2> QED
    BY <2>3, <2>4, TotalType
<1>7. queuedBytes' = Total(queue', DOMAIN queue') + Total(carried', Workers)
  BY <1>0, <1>1, <1>2, <1>3, <1>4, <1>5, <1>6, EventSums DEF QueueAccounting
<1>8. Len(queue') <= MaxEvents /\ queuedBytes' <= MaxBytes
  BY <1>0, <1>2, ConnectionAssumption DEF QueueAccounting
<1>9. /\ DOMAIN worker' = Workers
      /\ \A v \in Workers : worker'[v] # "received" => carried'[v] = 0
      /\ \A v \in Workers : worker'[v] # "off"
  BY <1>0, <1>1, <1>3 DEF EventsOK
<1> QED
  BY <1>0, <1>2, <1>3, <1>7, <1>8, <1>9 DEF EventsOK, EventTypes, QueueAccounting

(* The bytes of an event that was taken are subtracted, once.               *)
LEMMA SubtractStep ==
  ASSUME EventsOK, NEW w \in Workers, Subtract(w)
  PROVE  EventsOK'
<1>0. /\ EventTypes /\ QueueAccounting /\ worker[w] = "received"
      /\ worker' = [worker EXCEPT ![w] = "handling"]
      /\ queuedBytes' = queuedBytes - carried[w]
      /\ carried' = [carried EXCEPT ![w] = 0]
      /\ UNCHANGED <<rpcErrors, queue, stopped, overflowed, size, frames, reader>>
      /\ DOMAIN worker = Workers
  BY DEF EventsOK, Subtract, SetWorker, validationVars, readerVars
<1>1. /\ carried' \in [Workers -> Sizes \cup {0}] /\ carried'[w] = 0
      /\ \A v \in Workers \ {w} : carried'[v] = carried[v]
  BY <1>0 DEF EventTypes
<1>2. Total(carried', Workers) = Total(carried, Workers) - carried[w] + carried'[w]
  <2>1. IsFiniteSet(Workers) /\ \A v \in Workers : carried[v] \in Nat
    BY <1>0, EventSums
  <2>2. carried'[w] \in Nat
    BY <1>1
  <2> QED
    BY <1>1, <2>1, <2>2, TotalChange
<1>3. Total(carried', Workers) \in Nat
  <2>1. \A v \in Workers : carried'[v] \in Nat
    BY <1>0, <1>1, EventSums
  <2> QED
    BY <2>1, ConnectionAssumption, TotalType
<1>4. carried[w] \in Nat /\ Total(carried, Workers) \in Nat /\ Total(queue, DOMAIN queue) \in Nat
  BY <1>0, EventSums
<1>5. /\ queuedBytes' = Total(queue', DOMAIN queue') + Total(carried', Workers)
      /\ queuedBytes' \in Nat /\ queuedBytes' <= MaxBytes
  BY <1>0, <1>1, <1>2, <1>3, <1>4, ConnectionAssumption DEF QueueAccounting
<1>6. /\ DOMAIN worker' = Workers
      /\ \A v \in Workers : worker'[v] # "received" => carried'[v] = 0
      /\ \A v \in Workers : worker'[v] # "off"
  BY <1>0, <1>1 DEF EventsOK
<1> QED
  BY <1>0, <1>1, <1>5, <1>6 DEF EventsOK, EventTypes, QueueAccounting

(* A worker that carries nothing moves on, or all of them start.            *)
LEMMA WorkerStep ==
  ASSUME EventsOK, StartEvents \/ \E w \in Workers : Handled(w) \/ EndWorker(w)
  PROVE  EventsOK'
<1>1. /\ UNCHANGED <<rpcErrors, queue, queuedBytes, stopped, overflowed, carried, size, frames, reader>>
      /\ DOMAIN worker' = Workers
      /\ \A w \in Workers : worker'[w] # "received" => carried'[w] = 0
      /\ (\E w \in Workers : worker'[w] = "off") => \A w \in Workers : worker'[w] = "off"
  <2>1. CASE StartEvents
    BY <2>1 DEF StartEvents, EventsOK, validationVars, readerVars
  <2>2. ASSUME NEW w \in Workers, Handled(w) \/ EndWorker(w)
        PROVE  /\ UNCHANGED <<rpcErrors, queue, queuedBytes, stopped, overflowed, carried,
                              size, frames, reader>>
               /\ DOMAIN worker' = Workers
               /\ \A v \in Workers : worker'[v] # "received" => carried'[v] = 0
               /\ (\E v \in Workers : worker'[v] = "off")
                     => \A v \in Workers : worker'[v] = "off"
    BY <2>2 DEF Handled, EndWorker, SetWorker, EventsOK, validationVars, readerVars
  <2> QED
    BY <2>1, <2>2
<1> QED
  BY <1>1 DEF EventsOK, EventTypes, QueueAccounting

(* Every step of the connection keeps the queue in order.                   *)
LEMMA EventsStep == EventsOK /\ [Next]_vars => EventsOK'
<1> SUFFICES ASSUME EventsOK, [Next]_vars PROVE EventsOK'
  OBVIOUS
<1>0. /\ rpcErrors \subseteq Requests /\ stopped \in BOOLEAN /\ overflowed \in BOOLEAN
      /\ size \in Sizes \cup {0} /\ frames \in 0 .. MaxFrames /\ MaxFrames \in Nat
      /\ reader = "enqueuing" => size \in Sizes
  BY ConnectionAssumption DEF EventsOK, EventTypes
<1> USE DEF validationVars, queueVars, readerVars, processVars, requestVars
<1>1. CASE UNCHANGED vars \/ Terminated
  BY <1>0, <1>1, EventsFrame DEF vars, Terminated
<1>2. CASE Start \/ ContextEnds \/ ChildExits \/ ContextKills
  BY <1>0, <1>2, EventsFrame DEF Start, ContextEnds, ChildExits, ContextKills, ChildEnds
<1>3. CASE KillAtLimit \/ ReadEnd \/ FailOverflow \/ StopOverflow
  BY <1>0, <1>3, EventsFrame DEF KillAtLimit, ReadEnd, FailOverflow, StopOverflow
<1>4. CASE Frame
  <2>1. CASE ReadTooLong \/ ReadInvalid
    BY <1>0, <2>1, EventsFrame DEF ReadTooLong, ReadInvalid, Reading
  <2>2. ASSUME NEW r \in Requests, NEW k \in Answers, ReadResponse(r, k) PROVE EventsOK'
    BY <1>0, <2>2, EventsFrame DEF ReadResponse, Reading
  <2>3. ASSUME NEW s \in Sizes, ReadNotification(s) PROVE EventsOK'
    BY <1>0, <2>3, EventsFrame DEF ReadNotification, Reading
  <2> QED
    BY <1>4, <2>1, <2>2, <2>3 DEF Frame
<1>5. CASE OwnerCloses \/ OwnerClosesFailed \/ OwnerFailed
  BY <1>0, <1>5, EventsFrame
     DEF OwnerCloses, OwnerClosesFailed, OwnerFailed, CloseFailedLocked, Kill
<1>6. ASSUME NEW c \in Closers, Closing(c) PROVE EventsOK'
  BY <1>0, <1>6, EventsFrame DEF Closing, CloseLocked, CloseInner, Wait
<1>7. ASSUME NEW w \in Workers, Worker(w) PROVE EventsOK'
  BY <1>7, ReceiveStep, SubtractStep, WorkerStep DEF Worker
<1>8. ASSUME NEW r \in Requests, Begin(r) \/ Expire(r) \/ BreakAnswer(r) PROVE EventsOK'
  BY <1>0, <1>8, EventsFrame DEF Begin, Expire, BreakAnswer, Send, Forget
<1>9. ASSUME NEW r \in Requests, Request(r) PROVE EventsOK'
  BY <1>0, <1>9, EventsFrame
     DEF Request, EnterStdio, AwaitStdio, RecheckLimit, Select, RecheckFailure, Decide,
         Send, Return, Forget
<1> QED
  BY <1>1, <1>2, <1>3, <1>4, <1>5, <1>6, <1>7, <1>8, <1>9, EnqueueStep, WorkerStep
     DEF Next, Reader

(* The queue begins empty and counted as empty.                             *)
LEMMA EventsInit == Init => EventsOK
<1> SUFFICES ASSUME Init PROVE EventsOK
  OBVIOUS
<1>1. EventTypes
  <2>1. stopped \in BOOLEAN /\ overflowed \in BOOLEAN
    BY Zenon DEF Init
  <2>2. rpcErrors \subseteq Requests /\ queue \in Seq(Sizes) /\ queuedBytes \in Nat
    BY DEF Init
  <2>3. carried \in [Workers -> Sizes \cup {0}] /\ size \in Sizes \cup {0}
    BY DEF Init
  <2>4. frames \in 0 .. MaxFrames
    <3>1. frames = 0
      BY DEF Init
    <3> QED
      BY <3>1, ConnectionAssumption
  <2> QED
    BY <2>1, <2>2, <2>3, <2>4 DEF EventTypes
<1>2. Total(queue, DOMAIN queue) = 0
  <2>1. DOMAIN queue = {}
    BY DEF Init
  <2> QED
    BY <2>1, TotalEmpty, Zenon
<1>3. Total(carried, Workers) = 0
  BY TotalZero DEF Init
<1> QED
  BY <1>1, <1>2, <1>3, ConnectionAssumption DEF Init, EventsOK, QueueAccounting

(* The event queue's invariant.                                             *)
THEOREM EventsInvariant == Spec => []EventsOK
BY EventsInit, EventsStep, PTL DEF Spec

(* The variables of the connection keep their types: SendRequest sends a    *)
(* request at most twice, and the byte counter never goes below zero.       *)
THEOREM TypesHold == Spec => []TypeOK
<1>1. Inductive /\ EventsOK => TypeOK
  BY DEF Inductive, EventsOK, TypeOK
<1> QED BY <1>1, InductiveInvariant, EventsInvariant, PTL

(* The byte counter of the event queue is the sum of what is queued and     *)
(* what the workers have not given back, within its limit: reader and       *)
(* workers update channel and counter in separate steps.                    *)
THEOREM QueueAccountingHolds == Spec => []QueueAccounting
<1>1. EventsOK => QueueAccounting
  BY DEF EventsOK
<1> QED BY <1>1, EventsInvariant, PTL

(* A request never returns the broken transport that the gateway's own      *)
(* reaction to an overflow, an invalid frame or a frame over the limit left *)
(* behind: sendRequestOnce and awaitLimitedStdioResponse look again.        *)
THEOREM FailureIsClassifiedHolds == Spec => []FailureIsClassified
<1>1. Inductive => FailureIsClassified
  BY DEF Inductive, Stages, FailureIsClassified
<1> QED BY <1>1, InductiveInvariant, PTL

(* CloseFailed returns nil only after the child was killed and reaped.      *)
THEOREM CloseFailedReapsHolds == Spec => []CloseFailedReaps
<1>1. Inductive => CloseFailedReaps
  BY DEF Inductive, Reaping, CloseFailedReaps
<1> QED BY <1>1, InductiveInvariant, PTL
===============================================================================
