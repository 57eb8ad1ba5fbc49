--------------------------- MODULE ProviderRegistry ---------------------------
(***************************************************************************)
(* The lazy provider registry of internal/hierarchy/hierarchy.go: type     *)
(* ServerRegistry with GetOrLoadServer, GetClientMutex and Close, the       *)
(* channel mutex ClientMutex, and ExecuteMappedTool, which runs one         *)
(* invocation through all of them.                                          *)
(*                                                                         *)
(* Each invocation is one goroutine with its own context.  It initiates at *)
(* most one providerLoad, creates at most one ProviderClient and at most   *)
(* one ClientMutex, so these heap objects are named by the invocation that *)
(* made them and no identifier is ever reused.                             *)
(***************************************************************************)
EXTENDS Naturals, FiniteSets

CONSTANTS Invocations,  (* the tool invocations that may be made           *)
          Providers,    (* the server names an invocation may ask for      *)
          Configured,   (* the keys of serverConfigs                       *)
          None          (* an absent map entry or a nil pointer            *)

ASSUME ConstantsAssumption ==
         /\ None \notin Invocations
         /\ Configured \subseteq Providers

VARIABLES
  (* ServerRegistry, guarded by its mu *)
  closed,       (* the flag Close sets once                                *)
  clients,      (* provider -> the cached client                           *)
  clientLoads,  (* provider -> the load in flight                          *)
  clientMutex,  (* provider -> the mutex that serializes its calls         *)
  (* heap objects *)
  load,         (* providerLoad: its outcome once done is closed           *)
  token,        (* ClientMutex: is the token in the channel                *)
  process,      (* ProviderClient: its child process or connection         *)
  (* locals of the invocations and of Close *)
  pc,           (* where the goroutine is                                  *)
  provider,     (* serverName                                              *)
  expired,      (* toolCtx is done: caller cancelled or 30 s elapsed        *)
  awaiting,     (* the load this invocation waits for                      *)
  client,       (* providerClient                                          *)
  mutex,        (* the ClientMutex it got                                  *)
  result,       (* what the factory, then the invocation, returned         *)
  closing       (* clients Close has taken and not yet closed              *)

registryVars == <<closed, clients, clientLoads, clientMutex>>
heapVars == <<load, token, process>>
localVars == <<provider, awaiting, client, mutex>>
vars == <<registryVars, heapVars, localVars, pc, expired, result, closing>>

PCs == {"idle", "lookup", "await", "factory", "publish", "cleanup",
        "getMutex", "lock", "locked", "call", "done"}
LoadStates == {"none", "running", "ready", "failed", "canceled"}
Results == {"none", "made", "ok", "error", "canceled", "ctx", "closed", "unknown"}

(* The goroutines that own the load of their provider: it has left the      *)
(* table lookup and has not yet published an outcome.                       *)
Loading(i) == pc[i] \in {"factory", "publish"}

(* A goroutine is in flight while it is responsible for a process that      *)
(* nobody else knows.                                                       *)
InFlight(i) == pc[i] \in {"factory", "publish", "cleanup"}

(* The goroutines that have taken the token of their mutex.                 *)
Holding(i) == pc[i] \in {"locked", "call"}

Finish(i, r) ==
  /\ pc' = [pc EXCEPT ![i] = "done"]
  /\ result' = [result EXCEPT ![i] = r]

Goto(i, l) ==
  /\ pc' = [pc EXCEPT ![i] = l]
  /\ UNCHANGED result

(***************************************************************************)
(* Faulty variants of operations below, each a slip the code could contain. *)
(* They are not part of the specification: substituting one for the        *)
(* operation it imitates shows that some property can fail.                 *)
(***************************************************************************)
(* The deadline covers startup and queueing but not the downstream call.    *)
ExpireBeforeCall(i) ==
  /\ pc[i] \notin {"idle", "call", "done"}
  /\ ~expired[i]
  /\ expired' = [expired EXCEPT ![i] = TRUE]
  /\ UNCHANGED <<registryVars, heapVars, localVars, pc, result, closing>>

(* A second load starts although one is in flight.                          *)
InitiateRegardless(i) ==
  /\ ~closed
  /\ clients[provider[i]] = None
  /\ provider[i] \in Configured
  /\ load' = [load EXCEPT ![i] = "running"]
  /\ clientLoads' = [clientLoads EXCEPT ![provider[i]] = i]
  /\ Goto(i, "factory")
  /\ UNCHANGED <<client, awaiting>>

(* Waiters receive the initiator's cancellation like any other error.       *)
AwaitSharesCancellation(i) ==
  /\ pc[i] = "await"
  /\ \/ expired[i] /\ Finish(i, "ctx") /\ UNCHANGED client
     \/ load[awaiting[i]] = "canceled" /\ Finish(i, "canceled") /\ UNCHANGED client
     \/ load[awaiting[i]] = "failed" /\ Finish(i, "error") /\ UNCHANGED client
     \/ /\ load[awaiting[i]] = "ready"
        /\ client' = [client EXCEPT ![i] = awaiting[i]]
        /\ Goto(i, "getMutex")
  /\ UNCHANGED <<registryVars, heapVars, provider, awaiting, mutex, expired, closing>>

(* The registry's closed flag is not read again after the factory returns.  *)
PublishUnchecked(i) ==
  /\ result[i] = "made"
  /\ clients' = [clients EXCEPT ![provider[i]] = i]
  /\ load' = [load EXCEPT ![i] = "ready"]
  /\ client' = [client EXCEPT ![i] = i]
  /\ pc' = [pc EXCEPT ![i] = "getMutex"]

(* Every invocation gets a mutex of its own.                                *)
GetFreshMutex(i) ==
  /\ pc[i] = "getMutex"
  /\ mutex' = [mutex EXCEPT ![i] = i]
  /\ clientMutex' = [clientMutex EXCEPT ![provider[i]] = i]
  /\ token' = [token EXCEPT ![i] = TRUE]
  /\ Goto(i, "lock")
  /\ UNCHANGED <<closed, clients, clientLoads, load, process, provider, awaiting,
                 client, expired, closing>>

(* A token taken with a finished context is not given back.                 *)
RecheckLosesToken(i) ==
  /\ pc[i] = "locked"
  /\ IF expired[i] THEN Finish(i, "ctx") ELSE Goto(i, "call")
  /\ UNCHANGED <<registryVars, heapVars, localVars, expired, closing>>

(* Close also closes the clients whose loads are in flight.                 *)
CloseTakesLoads ==
  /\ ~closed
  /\ closed' = TRUE
  /\ closing' = ({clients[p] : p \in Providers} \ {None})
                  \cup ({clientLoads[p] : p \in Providers} \ {None})
  /\ clients' = [p \in Providers |-> None]
  /\ clientLoads' = [p \in Providers |-> None]
  /\ clientMutex' = [p \in Providers |-> None]
  /\ UNCHANGED <<heapVars, localVars, pc, expired, result>>

-----------------------------------------------------------------------------
Init ==
  /\ closed = FALSE
  /\ clients = [p \in Providers |-> None]
  /\ clientLoads = [p \in Providers |-> None]
  /\ clientMutex = [p \in Providers |-> None]
  /\ load = [i \in Invocations |-> "none"]
  /\ token = [i \in Invocations |-> FALSE]
  /\ process = [i \in Invocations |-> "none"]
  /\ pc = [i \in Invocations |-> "idle"]
  /\ provider \in [Invocations -> Providers]
  /\ expired = [i \in Invocations |-> FALSE]
  /\ awaiting = [i \in Invocations |-> None]
  /\ client = [i \in Invocations |-> None]
  /\ mutex = [i \in Invocations |-> None]
  /\ result = [i \in Invocations |-> "none"]
  /\ closing = {}

(* ExecuteMappedTool is entered: the 30 s context starts here.              *)
Begin(i) ==
  /\ pc[i] = "idle"
  /\ Goto(i, "lookup")
  /\ UNCHANGED <<registryVars, heapVars, localVars, expired, closing>>

(* toolCtx is done: the caller cancelled or the 30 s have elapsed.          *)
Expire(i) ==
  /\ pc[i] \notin {"idle", "done"}
  /\ ~expired[i]
  /\ expired' = [expired EXCEPT ![i] = TRUE]
  /\ UNCHANGED <<registryVars, heapVars, localVars, pc, result, closing>>

(* The locked prefix of GetOrLoadServer's loop: refuse when closed, reuse a *)
(* cached client, join a load in flight, or become the initiator of one.    *)
LookupClosed(i) ==
  /\ closed
  /\ Finish(i, "closed")
  /\ UNCHANGED <<clientLoads, load, client, awaiting>>

LookupCached(i) ==
  /\ ~closed
  /\ clients[provider[i]] # None
  /\ client' = [client EXCEPT ![i] = clients[provider[i]]]
  /\ Goto(i, "getMutex")
  /\ UNCHANGED <<clientLoads, load, awaiting>>

LookupJoin(i) ==
  /\ ~closed
  /\ clients[provider[i]] = None
  /\ clientLoads[provider[i]] # None
  /\ awaiting' = [awaiting EXCEPT ![i] = clientLoads[provider[i]]]
  /\ Goto(i, "await")
  /\ UNCHANGED <<clientLoads, load, client>>

LookupUnknown(i) ==
  /\ ~closed
  /\ clients[provider[i]] = None
  /\ clientLoads[provider[i]] = None
  /\ provider[i] \notin Configured
  /\ Finish(i, "unknown")
  /\ UNCHANGED <<clientLoads, load, client, awaiting>>

LookupInitiate(i) ==
  /\ ~closed
  /\ clients[provider[i]] = None
  /\ clientLoads[provider[i]] = None
  /\ provider[i] \in Configured
  /\ load' = [load EXCEPT ![i] = "running"]
  /\ clientLoads' = [clientLoads EXCEPT ![provider[i]] = i]
  /\ Goto(i, "factory")
  /\ UNCHANGED <<client, awaiting>>

Lookup(i) ==
  /\ pc[i] = "lookup"
  /\ \/ LookupClosed(i)
     \/ LookupCached(i)
     \/ LookupJoin(i)
     \/ LookupUnknown(i)
     \/ LookupInitiate(i)
  /\ UNCHANGED <<closed, clients, clientMutex, token, process, provider, mutex,
                 expired, closing>>

(* The select on ctx.Done and load.done.  A done load is looked at only     *)
(* with a live context; a load its initiator cancelled sends the waiter     *)
(* round the loop again, any other outcome is shared.                       *)
AwaitLoad(i) ==
  /\ pc[i] = "await"
  /\ \/ /\ expired[i]
        /\ Finish(i, "ctx")
        /\ UNCHANGED client
     \/ /\ ~expired[i]
        /\ load[awaiting[i]] = "canceled"
        /\ Goto(i, "lookup")
        /\ UNCHANGED client
     \/ /\ ~expired[i]
        /\ load[awaiting[i]] = "failed"
        /\ Finish(i, "error")
        /\ UNCHANGED client
     \/ /\ ~expired[i]
        /\ load[awaiting[i]] = "ready"
        /\ client' = [client EXCEPT ![i] = awaiting[i]]
        /\ Goto(i, "getMutex")
  /\ UNCHANGED <<registryVars, heapVars, provider, awaiting, mutex, expired,
                 closing>>

(* clientFactory, outside the lock: the child process or the connection     *)
(* comes up ...                                                             *)
FactoryOpens(i) ==
  /\ pc[i] = "factory"
  /\ process[i] = "none"
  /\ process' = [process EXCEPT ![i] = "open"]
  /\ UNCHANGED <<registryVars, load, token, localVars, pc, expired, result,
                 closing>>

(* ... and the factory returns: an initialized client, or an error after    *)
(* closeFailedProvider on whatever was opened.  The error is marked         *)
(* errProviderLoadCanceledByInitiator only when the initiator's own context *)
(* has elapsed (module ProviderStart has the detail).                       *)
FactoryReturns(i) ==
  /\ pc[i] = "factory"
  /\ \/ /\ process[i] = "open"
        /\ result' = [result EXCEPT ![i] = "made"]
        /\ UNCHANGED process
     \/ /\ \/ result' = [result EXCEPT ![i] = "error"]
           \/ /\ expired[i]
              /\ result' = [result EXCEPT ![i] = "canceled"]
        /\ process' = [process EXCEPT ![i] = IF @ = "open" THEN "closed" ELSE @]
  /\ pc' = [pc EXCEPT ![i] = "publish"]
  /\ UNCHANGED <<registryVars, load, token, localVars, expired, closing>>

(* The locked suffix of GetOrLoadServer: a client that arrives after Close  *)
(* is an error; the load leaves the table and done is closed in every case. *)
PublishMade(i) ==
  /\ result[i] = "made"
  /\ ~closed
  /\ clients' = [clients EXCEPT ![provider[i]] = i]
  /\ load' = [load EXCEPT ![i] = "ready"]
  /\ client' = [client EXCEPT ![i] = i]
  /\ pc' = [pc EXCEPT ![i] = "getMutex"]

PublishTooLate(i) ==
  /\ result[i] = "made"
  /\ closed
  /\ load' = [load EXCEPT ![i] = "failed"]
  /\ pc' = [pc EXCEPT ![i] = "cleanup"]
  /\ UNCHANGED <<clients, client>>

PublishError(i) ==
  /\ result[i] \in {"error", "canceled"}
  /\ load' = [load EXCEPT ![i] = IF result[i] = "error" THEN "failed" ELSE "canceled"]
  /\ pc' = [pc EXCEPT ![i] = "done"]
  /\ UNCHANGED <<clients, client>>

Publish(i) ==
  /\ pc[i] = "publish"
  /\ \/ PublishMade(i)
     \/ PublishTooLate(i)
     \/ PublishError(i)
  /\ clientLoads' = [clientLoads EXCEPT ![provider[i]] = None]
  /\ UNCHANGED <<closed, clientMutex, token, process, provider, awaiting, mutex,
                 expired, result, closing>>

(* closeFailedProvider for a client that arrived too late.                  *)
Cleanup(i) ==
  /\ pc[i] = "cleanup"
  /\ process' = [process EXCEPT ![i] = "closed"]
  /\ Finish(i, "error")
  /\ UNCHANGED <<registryVars, load, token, localVars, expired, closing>>

(* GetClientMutex: the map is read, and created on demand, whether or not   *)
(* the registry has been closed meanwhile.                                  *)
GetClientMutex(i) ==
  /\ pc[i] = "getMutex"
  /\ \/ /\ clientMutex[provider[i]] # None
        /\ mutex' = [mutex EXCEPT ![i] = clientMutex[provider[i]]]
        /\ UNCHANGED <<clientMutex, token>>
     \/ /\ clientMutex[provider[i]] = None
        /\ mutex' = [mutex EXCEPT ![i] = i]
        /\ clientMutex' = [clientMutex EXCEPT ![provider[i]] = i]
        /\ token' = [token EXCEPT ![i] = TRUE]
  /\ Goto(i, "lock")
  /\ UNCHANGED <<closed, clients, clientLoads, load, process, provider, awaiting,
                 client, expired, closing>>

(* LockContext: the select either sees ctx.Done or takes the token ...      *)
LockContext(i) ==
  /\ pc[i] = "lock"
  /\ \/ /\ expired[i]
        /\ Finish(i, "ctx")
        /\ UNCHANGED token
     \/ /\ token[mutex[i]]
        /\ token' = [token EXCEPT ![mutex[i]] = FALSE]
        /\ Goto(i, "locked")
  /\ UNCHANGED <<registryVars, load, process, localVars, expired, closing>>

(* ... and a taken token is given back when the context is done by then.    *)
RecheckContext(i) ==
  /\ pc[i] = "locked"
  /\ \/ /\ expired[i]
        /\ ~token[mutex[i]]
        /\ token' = [token EXCEPT ![mutex[i]] = TRUE]
        /\ Finish(i, "ctx")
     \/ /\ ~expired[i]
        /\ Goto(i, "call")
        /\ UNCHANGED token
  /\ UNCHANGED <<registryVars, load, process, localVars, expired, closing>>

(* CallTool returns a result, a provider error or the context's error, and  *)
(* the deferred Unlock sends the token back.                                *)
CallReturns(i) ==
  /\ pc[i] = "call"
  /\ ~token[mutex[i]]
  /\ token' = [token EXCEPT ![mutex[i]] = TRUE]
  /\ \E r \in {"ok", "error"} : Finish(i, r)
  /\ UNCHANGED <<registryVars, load, process, localVars, expired, closing>>

(* Close: under the lock set the flag, cancel the lifecycle context, take   *)
(* the clients and replace all three maps ...                               *)
Close ==
  /\ ~closed
  /\ closed' = TRUE
  /\ closing' = {clients[p] : p \in Providers} \ {None}
  /\ clients' = [p \in Providers |-> None]
  /\ clientLoads' = [p \in Providers |-> None]
  /\ clientMutex' = [p \in Providers |-> None]
  /\ UNCHANGED <<heapVars, localVars, pc, expired, result>>

(* ... then close the taken clients one after another, in map order.        *)
CloseClient(c) ==
  /\ c \in closing
  /\ closing' = closing \ {c}
  /\ process' = [process EXCEPT ![c] = "closed"]
  /\ UNCHANGED <<registryVars, load, token, localVars, pc, expired, result>>

(* Everything has been invoked, has returned and has been shut down.        *)
Terminated ==
  /\ \A i \in Invocations : pc[i] = "done"
  /\ closed
  /\ closing = {}
  /\ UNCHANGED vars

Step(i) ==
  \/ Begin(i) \/ Expire(i)
  \/ Lookup(i) \/ AwaitLoad(i)
  \/ FactoryOpens(i) \/ FactoryReturns(i) \/ Publish(i) \/ Cleanup(i)
  \/ GetClientMutex(i) \/ LockContext(i) \/ RecheckContext(i) \/ CallReturns(i)
  \/ CloseClient(i)

Next == (\E i \in Invocations : Step(i)) \/ Close \/ Terminated

Spec == Init /\ [][Next]_vars

(* Fairness.  The runtime runs every runnable goroutine, so steps that do   *)
(* not wait for a provider are weakly fair; Expire is, because              *)
(* context.WithTimeout fires after 30 s.  A provider may hang, so the       *)
(* factory and the call need only return once their context is done.        *)
Fairness ==
  \A i \in Invocations :
    /\ WF_vars(Expire(i))
    /\ WF_vars(Lookup(i))
    /\ WF_vars(AwaitLoad(i))
    /\ WF_vars(expired[i] /\ FactoryReturns(i))
    /\ WF_vars(Publish(i))
    /\ WF_vars(Cleanup(i))
    /\ WF_vars(GetClientMutex(i))
    /\ WF_vars(LockContext(i))
    /\ WF_vars(RecheckContext(i))
    /\ WF_vars(expired[i] /\ CallReturns(i))
    /\ WF_vars(CloseClient(i))

FairSpec == Spec /\ Fairness

-----------------------------------------------------------------------------
(* The variables hold values of their types: map entries, loads, mutexes    *)
(* and clients of hierarchy.go's ServerRegistry are objects some invocation *)
(* made, or absent.                                                         *)
TypeOK ==
  /\ closed \in BOOLEAN
  /\ clients \in [Providers -> Invocations \cup {None}]
  /\ clientLoads \in [Providers -> Invocations \cup {None}]
  /\ clientMutex \in [Providers -> Invocations \cup {None}]
  /\ load \in [Invocations -> LoadStates]
  /\ token \in [Invocations -> BOOLEAN]
  /\ process \in [Invocations -> {"none", "open", "closed"}]
  /\ pc \in [Invocations -> PCs]
  /\ provider \in [Invocations -> Providers]
  /\ expired \in [Invocations -> BOOLEAN]
  /\ awaiting \in [Invocations -> Invocations \cup {None}]
  /\ client \in [Invocations -> Invocations \cup {None}]
  /\ mutex \in [Invocations -> Invocations \cup {None}]
  /\ result \in [Invocations -> Results]
  /\ closing \subseteq Invocations

(* Calls to one provider are serialized as long as the registry is open:    *)
(* GetClientMutex hands every invocation of a provider the same mutex.      *)
SerializedWhileOpen ==
  ~closed => \A i, j \in Invocations :
               pc[i] = "call" /\ pc[j] = "call" /\ provider[i] = provider[j]
                 => i = j

(* The unconditional form of docs/USAGE.md:57, "Calls to one provider are   *)
(* serialized": no two CallTool calls of one client overlap, ever.          *)
Serialized ==
  \A i, j \in Invocations :
    pc[i] = "call" /\ pc[j] = "call" /\ client[i] = client[j] => i = j

(* At no time do two child processes (or connections) of one provider       *)
(* exist: GetOrLoadServer's load table makes startup single-flight, a       *)
(* failed start is closed before its load leaves the table, and no load     *)
(* starts after Close has emptied the tables.                               *)
OneProcessPerProvider ==
  \A c, d \in Invocations :
    process[c] = "open" /\ process[d] = "open" /\ provider[c] = provider[d]
      => c = d

(* Every process has exactly one goroutine that will close it.  Once the    *)
(* registry is closed, a process still open is on Close's list, or its own  *)
(* initiator is still inside GetOrLoadServer and will find the registry     *)
(* closed; and Close and closeFailedProvider never both close one client.   *)
OneCloser ==
  \A c \in Invocations :
    /\ closed /\ process[c] = "open" =>
         c \in closing \/ pc[c] \in {"factory", "publish", "cleanup"}
    /\ c \in closing => process[c] = "open" /\ pc[c] # "cleanup"
    /\ pc[c] = "cleanup" => process[c] = "open"

(* A ClientMutex never loses its token and never holds two: for a mutex in  *)
(* use, the token is in the channel or exactly one invocation holds it,     *)
(* although LockContext may take it with a context that is already done.    *)
TokenConserved ==
  \A m \in {mutex[i] : i \in Invocations} \ {None} :
    LET holders == {i \in Invocations : mutex[i] = m /\ Holding(i)}
    IN  IF token[m] THEN holders = {} ELSE Cardinality(holders) = 1

(* An invocation whose own context is live never fails because some other   *)
(* invocation's context ended: GetOrLoadServer retries a load its initiator *)
(* cancelled instead of handing that error to the waiters.                  *)
OnlyOwnCancellation ==
  \A i \in Invocations : result[i] \in {"canceled", "ctx"} => expired[i]

(* While the registry is open, a call runs on the provider's cached client  *)
(* and that client's process is open: nothing closes a client in use, and   *)
(* a waiter never receives one that its load did not publish.               *)
CallsCachedClient ==
  ~closed => \A i \in Invocations :
               pc[i] = "call" =>
                 /\ clients[provider[i]] = client[i]
                 /\ process[client[i]] = "open"

(* The registry seen as a ProviderService.  A provider is starting while    *)
(* some invocation is in flight with it, up while its client is cached and  *)
(* stopping while Close has yet to close it.                                *)
Phase(p) ==
  IF clients[p] # None THEN "up"
  ELSE IF \E i \in Invocations : InFlight(i) /\ provider[i] = p THEN "starting"
  ELSE IF \E c \in closing : provider[c] = p THEN "stopping"
  ELSE IF closed THEN "down" ELSE "absent"

(* Its processes are the open ones and its callers those inside CallTool.   *)
Running(p) == {c \in Invocations : process[c] = "open" /\ provider[c] = p}
Calling(p) == {i \in Invocations : pc[i] = "call" /\ provider[i] = p}

Service ==
  INSTANCE ProviderService WITH
    Callers <- Invocations,
    shut    <- closed,
    phase   <- [p \in Providers |-> Phase(p)],
    running <- [p \in Providers |-> Running(p)],
    calling <- [p \in Providers |-> Calling(p)]

(* GetOrLoadServer, GetClientMutex, ExecuteMappedTool and Close together    *)
(* implement the service: one start at a time, one process per provider,    *)
(* no call but to a provider that is up, one call at a time, no start that  *)
(* succeeds after the shutdown, and a provider that is down stays down.     *)
ImplementsService == Service!Spec

(* Every invocation ends, whatever the provider does: each wait of          *)
(* ExecuteMappedTool also watches the 30 s context.                         *)
EveryInvocationReturns ==
  \A i \in Invocations : pc[i] = "lookup" ~> pc[i] = "done"

(* After Close no provider process stays open, starts in flight included.   *)
ShutdownReleasesProviders ==
  closed ~> [](\A c \in Invocations : process[c] # "open")

-----------------------------------------------------------------------------
(* What makes the safety invariants above inductive.                        *)
(* The load table: while the registry is open it names the only goroutine   *)
(* in flight for a provider, which then has no cached client; after Close   *)
(* the tables stay empty, so nobody new gets in flight.                     *)
LoadsConsistent ==
  /\ \A p \in Providers : clientLoads[p] # None => provider[clientLoads[p]] = p
  /\ ~closed => \A i \in Invocations :
                  Loading(i) => /\ clientLoads[provider[i]] = i
                                /\ clients[provider[i]] = None
  /\ closed => \A p \in Providers : clients[p] = None /\ clientLoads[p] = None
  /\ \A i \in Invocations : pc[i] = "cleanup" => closed
  /\ \A i, j \in Invocations :
       InFlight(i) /\ InFlight(j) /\ provider[i] = provider[j] => i = j

(* Processes: an open one is in flight, cached or about to be closed by     *)
(* Close, and these three never meet for one provider.                      *)
ProcessesConsistent ==
  /\ \A c \in Invocations :
       process[c] = "open" =>
         InFlight(c) \/ clients[provider[c]] = c \/ c \in closing
  /\ \A i \in Invocations :
       pc[i] = "publish" => (result[i] = "made" <=> process[i] = "open")
  /\ \A i \in Invocations : pc[i] = "cleanup" => process[i] = "open"
  /\ \A p \in Providers :
       clients[p] # None => provider[clients[p]] = p /\ process[clients[p]] = "open"
  /\ \A c \in closing : process[c] = "open"
  /\ \A c \in closing, i \in Invocations : InFlight(i) => provider[c] # provider[i]
  /\ \A c, d \in closing : provider[c] = provider[d] => c = d
  /\ ~closed => closing = {}

(* Mutexes: while the registry is open, everybody at the lock has the       *)
(* mutex the table names; a mutex exists once its maker has it; a mutex     *)
(* without its token has exactly one holder.                                *)
MutexesConsistent ==
  /\ \A i \in Invocations :
       pc[i] \in {"lock", "locked", "call"} =>
         mutex[i] # None /\ (~closed => mutex[i] = clientMutex[provider[i]])
  /\ \A i \in Invocations :
       pc[i] \in {"idle", "lookup", "await", "factory", "publish", "cleanup", "getMutex"}
         => mutex[i] = None
  /\ \A i \in Invocations : mutex[i] # None => mutex[mutex[i]] = mutex[i]
  /\ \A p \in Providers : clientMutex[p] # None => mutex[clientMutex[p]] = clientMutex[p]
  /\ \A i \in Invocations : Holding(i) => ~token[mutex[i]]
  /\ \A i, j \in Invocations :
       Holding(i) /\ Holding(j) /\ mutex[i] = mutex[j] => i = j
  /\ \A i \in Invocations :
       mutex[i] # None /\ ~token[mutex[i]] =>
         \E j \in Invocations : Holding(j) /\ mutex[j] = mutex[i]

(* Clients: while the registry is open, a published load is the cached      *)
(* client, and whoever has left GetOrLoadServer has that client.            *)
ClientsConsistent ==
  /\ \A i \in Invocations :
       /\ awaiting[i] # None => provider[awaiting[i]] = provider[i]
       /\ pc[i] = "await" => awaiting[i] # None
  /\ ~closed => \A i \in Invocations :
       /\ load[i] = "ready" => clients[provider[i]] = i
       /\ pc[i] \in {"getMutex", "lock", "locked", "call"} =>
            client[i] # None /\ clients[provider[i]] = client[i]

(* The inductive invariant: GetOrLoadServer, ExecuteMappedTool and Close    *)
(* keep the three maps, the processes, the mutexes and the goroutines in    *)
(* step with each other.                                                    *)
Inductive ==
  /\ TypeOK
  /\ LoadsConsistent
  /\ ProcessesConsistent
  /\ MutexesConsistent
  /\ ClientsConsistent
  /\ OnlyOwnCancellation
===============================================================================
