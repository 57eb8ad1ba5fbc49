------------------------ MODULE ProviderRegistryProofs ------------------------
(***************************************************************************)
(* The safety invariants of ProviderRegistry, proved for any invocations,   *)
(* providers and configurations.  TypeOK is inductive by itself; each other *)
(* conjunct of Inductive is preserved given the ones before it, so there is *)
(* one lemma per conjunct, with one step per action.  The last section does *)
(* the same for one start of a provider, ProviderStart, which the registry  *)
(* sees as its factory.                                                     *)
(***************************************************************************)
EXTENDS ProviderRegistry, ProviderStart, FiniteSetTheorems, TLAPS

(* The next-state relation by cases, as the lemmas below use it.            *)
LEMMA NextCases ==
  ASSUME [Next]_vars
  PROVE  \/ UNCHANGED vars
         \/ Close
         \/ \E i \in Invocations :
              \/ Begin(i) \/ Expire(i) \/ Lookup(i) \/ AwaitLoad(i)
              \/ FactoryOpens(i) \/ FactoryReturns(i) \/ Publish(i) \/ Cleanup(i)
              \/ GetClientMutex(i) \/ LockContext(i) \/ RecheckContext(i)
              \/ CallReturns(i) \/ CloseClient(i)
  BY DEF Next, Step, Terminated

(* Every step of an invocation and of Close keeps the types.                *)
LEMMA TypeStep == TypeOK /\ [Next]_vars => TypeOK'
<1> SUFFICES ASSUME TypeOK, [Next]_vars PROVE TypeOK'
  OBVIOUS
<1> USE DEF TypeOK, PCs, LoadStates, Results, registryVars, heapVars, localVars,
            Goto, Finish
<1>1. CASE UNCHANGED vars
  BY <1>1 DEF vars
<1>2. CASE Close
  BY <1>2 DEF Close
<1>3. ASSUME NEW i \in Invocations, Begin(i) PROVE TypeOK'
  BY <1>3 DEF Begin
<1>4. ASSUME NEW i \in Invocations, Expire(i) PROVE TypeOK'
  BY <1>4 DEF Expire
<1>5. ASSUME NEW i \in Invocations, Lookup(i) PROVE TypeOK'
  <2>1. CASE LookupClosed(i)
    BY <1>5, <2>1 DEF Lookup, LookupClosed
  <2>2. CASE LookupCached(i)
    BY <1>5, <2>2 DEF Lookup, LookupCached
  <2>3. CASE LookupJoin(i)
    BY <1>5, <2>3 DEF Lookup, LookupJoin
  <2>4. CASE LookupUnknown(i)
    BY <1>5, <2>4 DEF Lookup, LookupUnknown
  <2>5. CASE LookupInitiate(i)
    BY <1>5, <2>5 DEF Lookup, LookupInitiate
  <2> QED BY <1>5, <2>1, <2>2, <2>3, <2>4, <2>5 DEF Lookup
<1>6. ASSUME NEW i \in Invocations, AwaitLoad(i) PROVE TypeOK'
  BY <1>6 DEF AwaitLoad
<1>7. ASSUME NEW i \in Invocations, FactoryOpens(i) PROVE TypeOK'
  BY <1>7 DEF FactoryOpens
<1>8. ASSUME NEW i \in Invocations, FactoryReturns(i) PROVE TypeOK'
  BY <1>8 DEF FactoryReturns
<1>9. ASSUME NEW i \in Invocations, Publish(i) PROVE TypeOK'
  BY <1>9 DEF Publish, PublishMade, PublishTooLate, PublishError
<1>10. ASSUME NEW i \in Invocations, Cleanup(i) PROVE TypeOK'
  BY <1>10 DEF Cleanup
<1>11. ASSUME NEW i \in Invocations, GetClientMutex(i) PROVE TypeOK'
  <2>1. token' \in [Invocations -> BOOLEAN]
    BY <1>11, Zenon DEF GetClientMutex
  <2>2. mutex' \in [Invocations -> Invocations \cup {None}]
    BY <1>11 DEF GetClientMutex
  <2>3. clientMutex' \in [Providers -> Invocations \cup {None}]
    BY <1>11 DEF GetClientMutex
  <2>4. /\ pc' \in [Invocations -> PCs]
        /\ UNCHANGED <<closed, clients, clientLoads, load, process, provider,
                       awaiting, client, expired, closing, result>>
    BY <1>11 DEF GetClientMutex
  <2> QED BY <2>1, <2>2, <2>3, <2>4
<1>12. ASSUME NEW i \in Invocations, LockContext(i) PROVE TypeOK'
  BY <1>12 DEF LockContext
<1>13. ASSUME NEW i \in Invocations, RecheckContext(i) PROVE TypeOK'
  BY <1>13 DEF RecheckContext
<1>14. ASSUME NEW i \in Invocations, CallReturns(i) PROVE TypeOK'
  <2>1. token' \in [Invocations -> BOOLEAN]
    BY <1>14, Zenon DEF CallReturns
  <2>2. PICK r \in {"ok", "error"} : Finish(i, r)
    BY <1>14 DEF CallReturns
  <2> QED BY <1>14, <2>1, <2>2 DEF CallReturns
<1>15. ASSUME NEW i \in Invocations, CloseClient(i) PROVE TypeOK'
  BY <1>15 DEF CloseClient
<1> QED
  BY <1>1, <1>2, <1>3, <1>4, <1>5, <1>6, <1>7, <1>8, <1>9, <1>10, <1>11, <1>12,
     <1>13, <1>14, <1>15, NextCases

(* Type correctness of the registry's maps, heap objects and goroutines,    *)
(* whatever invocations, providers and configuration there are.             *)
THEOREM TypeCorrect == Spec => []TypeOK
<1>1. Init => TypeOK
  <2> SUFFICES ASSUME Init PROVE TypeOK
    OBVIOUS
  <2>1. /\ closed \in BOOLEAN
        /\ token \in [Invocations -> BOOLEAN]
        /\ expired \in [Invocations -> BOOLEAN]
    BY Zenon DEF Init
  <2> QED
    BY <2>1 DEF Init, TypeOK, PCs, LoadStates, Results
<1> QED
  BY <1>1, TypeStep, PTL DEF Spec

(* GetOrLoadServer and Close keep the load table in step with the           *)
(* goroutines in flight.                                                    *)
LEMMA LoadsStep ==
  TypeOK /\ LoadsConsistent /\ [Next]_vars => LoadsConsistent'
<1> SUFFICES ASSUME TypeOK, LoadsConsistent, [Next]_vars PROVE LoadsConsistent'
  OBVIOUS
<1> USE ConstantsAssumption DEF registryVars, heapVars, localVars, Goto, Finish, TypeOK, PCs, LoadsConsistent,
            Loading, InFlight
<1>1. CASE UNCHANGED vars
  BY <1>1 DEF vars
<1>2. CASE Close
  BY <1>2 DEF Close
<1>3. ASSUME NEW i \in Invocations, Begin(i) PROVE LoadsConsistent'
  BY <1>3 DEF Begin
<1>4. ASSUME NEW i \in Invocations, Expire(i) PROVE LoadsConsistent'
  BY <1>4 DEF Expire
<1>5. ASSUME NEW i \in Invocations, Lookup(i) PROVE LoadsConsistent'
  <2>1. CASE LookupClosed(i)
    BY <1>5, <2>1 DEF Lookup, LookupClosed
  <2>2. CASE LookupCached(i)
    BY <1>5, <2>2 DEF Lookup, LookupCached
  <2>3. CASE LookupJoin(i)
    BY <1>5, <2>3 DEF Lookup, LookupJoin
  <2>4. CASE LookupUnknown(i)
    BY <1>5, <2>4 DEF Lookup, LookupUnknown
  <2>5. CASE LookupInitiate(i)
    BY <1>5, <2>5 DEF Lookup, LookupInitiate
  <2> QED BY <1>5, <2>1, <2>2, <2>3, <2>4, <2>5 DEF Lookup
<1>6. ASSUME NEW i \in Invocations, AwaitLoad(i) PROVE LoadsConsistent'
  BY <1>6 DEF AwaitLoad
<1>7. ASSUME NEW i \in Invocations, FactoryOpens(i) PROVE LoadsConsistent'
  BY <1>7 DEF FactoryOpens
<1>8. ASSUME NEW i \in Invocations, FactoryReturns(i) PROVE LoadsConsistent'
  BY <1>8 DEF FactoryReturns
<1>9. ASSUME NEW i \in Invocations, Publish(i) PROVE LoadsConsistent'
  <2>1. CASE PublishMade(i)
    BY <1>9, <2>1 DEF Publish, PublishMade
  <2>2. CASE PublishTooLate(i)
    BY <1>9, <2>2 DEF Publish, PublishTooLate
  <2>3. CASE PublishError(i)
    BY <1>9, <2>3 DEF Publish, PublishError
  <2> QED BY <1>9, <2>1, <2>2, <2>3 DEF Publish
<1>10. ASSUME NEW i \in Invocations, Cleanup(i) PROVE LoadsConsistent'
  BY <1>10 DEF Cleanup
<1>11. ASSUME NEW i \in Invocations, GetClientMutex(i) PROVE LoadsConsistent'
  BY <1>11 DEF GetClientMutex
<1>12. ASSUME NEW i \in Invocations, LockContext(i) PROVE LoadsConsistent'
  BY <1>12 DEF LockContext
<1>13. ASSUME NEW i \in Invocations, RecheckContext(i) PROVE LoadsConsistent'
  BY <1>13 DEF RecheckContext
<1>14. ASSUME NEW i \in Invocations, CallReturns(i) PROVE LoadsConsistent'
  BY <1>14 DEF CallReturns
<1>15. ASSUME NEW i \in Invocations, CloseClient(i) PROVE LoadsConsistent'
  BY <1>15 DEF CloseClient
<1> QED
  BY <1>1, <1>2, <1>3, <1>4, <1>5, <1>6, <1>7, <1>8, <1>9, <1>10, <1>11, <1>12,
     <1>13, <1>14, <1>15, NextCases

(* Every open process stays accounted for, by exactly one of the goroutine  *)
(* in flight, the cache and Close.                                          *)
LEMMA ProcessesStep ==
  TypeOK /\ LoadsConsistent /\ ProcessesConsistent /\ [Next]_vars => ProcessesConsistent'
<1> SUFFICES ASSUME TypeOK, LoadsConsistent, ProcessesConsistent, [Next]_vars PROVE ProcessesConsistent'
  OBVIOUS
<1> USE ConstantsAssumption DEF registryVars, heapVars, localVars, Goto, Finish, TypeOK, PCs, LoadsConsistent,
            ProcessesConsistent, Loading, InFlight
<1>1. CASE UNCHANGED vars
  BY <1>1 DEF vars
<1>2. CASE Close
  BY <1>2 DEF Close
<1>3. ASSUME NEW i \in Invocations, Begin(i) PROVE ProcessesConsistent'
  BY <1>3 DEF Begin
<1>4. ASSUME NEW i \in Invocations, Expire(i) PROVE ProcessesConsistent'
  BY <1>4 DEF Expire
<1>5. ASSUME NEW i \in Invocations, Lookup(i) PROVE ProcessesConsistent'
  <2>1. CASE LookupClosed(i)
    BY <1>5, <2>1 DEF Lookup, LookupClosed
  <2>2. CASE LookupCached(i)
    BY <1>5, <2>2 DEF Lookup, LookupCached
  <2>3. CASE LookupJoin(i)
    BY <1>5, <2>3 DEF Lookup, LookupJoin
  <2>4. CASE LookupUnknown(i)
    BY <1>5, <2>4 DEF Lookup, LookupUnknown
  <2>5. CASE LookupInitiate(i)
    BY <1>5, <2>5 DEF Lookup, LookupInitiate
  <2> QED BY <1>5, <2>1, <2>2, <2>3, <2>4, <2>5 DEF Lookup
<1>6. ASSUME NEW i \in Invocations, AwaitLoad(i) PROVE ProcessesConsistent'
  BY <1>6 DEF AwaitLoad
<1>7. ASSUME NEW i \in Invocations, FactoryOpens(i) PROVE ProcessesConsistent'
  BY <1>7 DEF FactoryOpens
<1>8. ASSUME NEW i \in Invocations, FactoryReturns(i) PROVE ProcessesConsistent'
  BY <1>8 DEF FactoryReturns
<1>9. ASSUME NEW i \in Invocations, Publish(i) PROVE ProcessesConsistent'
  <2>1. CASE PublishMade(i)
    BY <1>9, <2>1 DEF Publish, PublishMade
  <2>2. CASE PublishTooLate(i)
    BY <1>9, <2>2 DEF Publish, PublishTooLate
  <2>3. CASE PublishError(i)
    BY <1>9, <2>3 DEF Publish, PublishError
  <2> QED BY <1>9, <2>1, <2>2, <2>3 DEF Publish
<1>10. ASSUME NEW i \in Invocations, Cleanup(i) PROVE ProcessesConsistent'
  BY <1>10 DEF Cleanup
<1>11. ASSUME NEW i \in Invocations, GetClientMutex(i) PROVE ProcessesConsistent'
  BY <1>11 DEF GetClientMutex
<1>12. ASSUME NEW i \in Invocations, LockContext(i) PROVE ProcessesConsistent'
  BY <1>12 DEF LockContext
<1>13. ASSUME NEW i \in Invocations, RecheckContext(i) PROVE ProcessesConsistent'
  BY <1>13 DEF RecheckContext
<1>14. ASSUME NEW i \in Invocations, CallReturns(i) PROVE ProcessesConsistent'
  BY <1>14 DEF CallReturns
<1>15. ASSUME NEW i \in Invocations, CloseClient(i) PROVE ProcessesConsistent'
  BY <1>15 DEF CloseClient
<1> QED
  BY <1>1, <1>2, <1>3, <1>4, <1>5, <1>6, <1>7, <1>8, <1>9, <1>10, <1>11, <1>12,
     <1>13, <1>14, <1>15, NextCases

(* The token of a ClientMutex is in its channel or with its only holder.    *)
LEMMA MutexesStep ==
  TypeOK /\ MutexesConsistent /\ [Next]_vars => MutexesConsistent'
<1> SUFFICES ASSUME TypeOK, MutexesConsistent, [Next]_vars PROVE MutexesConsistent'
  OBVIOUS
<1> USE ConstantsAssumption DEF registryVars, heapVars, localVars, Goto, Finish, TypeOK, PCs, MutexesConsistent,
            Holding
<1>1. CASE UNCHANGED vars
  BY <1>1 DEF vars
<1>2. CASE Close
  BY <1>2 DEF Close
<1>3. ASSUME NEW i \in Invocations, Begin(i) PROVE MutexesConsistent'
  BY <1>3 DEF Begin
<1>4. ASSUME NEW i \in Invocations, Expire(i) PROVE MutexesConsistent'
  BY <1>4 DEF Expire
<1>5. ASSUME NEW i \in Invocations, Lookup(i) PROVE MutexesConsistent'
  <2>1. CASE LookupClosed(i)
    BY <1>5, <2>1 DEF Lookup, LookupClosed
  <2>2. CASE LookupCached(i)
    BY <1>5, <2>2 DEF Lookup, LookupCached
  <2>3. CASE LookupJoin(i)
    BY <1>5, <2>3 DEF Lookup, LookupJoin
  <2>4. CASE LookupUnknown(i)
    BY <1>5, <2>4 DEF Lookup, LookupUnknown
  <2>5. CASE LookupInitiate(i)
    BY <1>5, <2>5 DEF Lookup, LookupInitiate
  <2> QED BY <1>5, <2>1, <2>2, <2>3, <2>4, <2>5 DEF Lookup
<1>6. ASSUME NEW i \in Invocations, AwaitLoad(i) PROVE MutexesConsistent'
  BY <1>6 DEF AwaitLoad
<1>7. ASSUME NEW i \in Invocations, FactoryOpens(i) PROVE MutexesConsistent'
  BY <1>7 DEF FactoryOpens
<1>8. ASSUME NEW i \in Invocations, FactoryReturns(i) PROVE MutexesConsistent'
  BY <1>8 DEF FactoryReturns
<1>9. ASSUME NEW i \in Invocations, Publish(i) PROVE MutexesConsistent'
  <2>1. CASE PublishMade(i)
    BY <1>9, <2>1 DEF Publish, PublishMade
  <2>2. CASE PublishTooLate(i)
    BY <1>9, <2>2 DEF Publish, PublishTooLate
  <2>3. CASE PublishError(i)
    BY <1>9, <2>3 DEF Publish, PublishError
  <2> QED BY <1>9, <2>1, <2>2, <2>3 DEF Publish
<1>10. ASSUME NEW i \in Invocations, Cleanup(i) PROVE MutexesConsistent'
  BY <1>10 DEF Cleanup
<1>11. ASSUME NEW i \in Invocations, GetClientMutex(i) PROVE MutexesConsistent'
  <2>1. CASE clientMutex[provider[i]] # None
    BY <1>11, <2>1 DEF GetClientMutex
  <2>2. CASE clientMutex[provider[i]] = None
    <3>1. /\ pc' = [pc EXCEPT ![i] = "lock"]
          /\ mutex' = [mutex EXCEPT ![i] = i]
          /\ clientMutex' = [clientMutex EXCEPT ![provider[i]] = i]
          /\ UNCHANGED <<closed, provider>>
      BY <1>11, <2>2 DEF GetClientMutex
    <3>2. /\ pc[i] = "getMutex"
          /\ mutex[i] = None
      BY <1>11 DEF GetClientMutex
    <3>3. \A j \in Invocations : mutex[j] # i
      BY <3>2
    <3>4. /\ token'[i]
          /\ \A m \in Invocations \ {i} : token'[m] <=> token[m]
      BY <1>11, <2>2 DEF GetClientMutex
    <3> QED
      BY <2>2, <3>1, <3>2, <3>3, <3>4
  <2> QED BY <2>1, <2>2
<1>12. ASSUME NEW i \in Invocations, LockContext(i) PROVE MutexesConsistent'
  BY <1>12 DEF LockContext
<1>13. ASSUME NEW i \in Invocations, RecheckContext(i) PROVE MutexesConsistent'
  BY <1>13 DEF RecheckContext
<1>14. ASSUME NEW i \in Invocations, CallReturns(i) PROVE MutexesConsistent'
  BY <1>14 DEF CallReturns
<1>15. ASSUME NEW i \in Invocations, CloseClient(i) PROVE MutexesConsistent'
  BY <1>15 DEF CloseClient
<1> QED
  BY <1>1, <1>2, <1>3, <1>4, <1>5, <1>6, <1>7, <1>8, <1>9, <1>10, <1>11, <1>12,
     <1>13, <1>14, <1>15, NextCases

(* Whoever got a client from GetOrLoadServer got the cached one.            *)
LEMMA ClientsStep ==
  TypeOK /\ LoadsConsistent /\ ProcessesConsistent /\ ClientsConsistent /\ [Next]_vars => ClientsConsistent'
<1> SUFFICES ASSUME TypeOK, LoadsConsistent, ProcessesConsistent, ClientsConsistent, [Next]_vars PROVE ClientsConsistent'
  OBVIOUS
<1> USE ConstantsAssumption DEF registryVars, heapVars, localVars, Goto, Finish, TypeOK, PCs, LoadsConsistent,
            ProcessesConsistent, ClientsConsistent, Loading, InFlight
<1>1. CASE UNCHANGED vars
  BY <1>1 DEF vars
<1>2. CASE Close
  BY <1>2 DEF Close
<1>3. ASSUME NEW i \in Invocations, Begin(i) PROVE ClientsConsistent'
  BY <1>3 DEF Begin
<1>4. ASSUME NEW i \in Invocations, Expire(i) PROVE ClientsConsistent'
  BY <1>4 DEF Expire
<1>5. ASSUME NEW i \in Invocations, Lookup(i) PROVE ClientsConsistent'
  <2>1. CASE LookupClosed(i)
    BY <1>5, <2>1 DEF Lookup, LookupClosed
  <2>2. CASE LookupCached(i)
    BY <1>5, <2>2 DEF Lookup, LookupCached
  <2>3. CASE LookupJoin(i)
    BY <1>5, <2>3 DEF Lookup, LookupJoin
  <2>4. CASE LookupUnknown(i)
    BY <1>5, <2>4 DEF Lookup, LookupUnknown
  <2>5. CASE LookupInitiate(i)
    BY <1>5, <2>5 DEF Lookup, LookupInitiate
  <2> QED BY <1>5, <2>1, <2>2, <2>3, <2>4, <2>5 DEF Lookup
<1>6. ASSUME NEW i \in Invocations, AwaitLoad(i) PROVE ClientsConsistent'
  BY <1>6 DEF AwaitLoad
<1>7. ASSUME NEW i \in Invocations, FactoryOpens(i) PROVE ClientsConsistent'
  BY <1>7 DEF FactoryOpens
<1>8. ASSUME NEW i \in Invocations, FactoryReturns(i) PROVE ClientsConsistent'
  BY <1>8 DEF FactoryReturns
<1>9. ASSUME NEW i \in Invocations, Publish(i) PROVE ClientsConsistent'
  <2>1. CASE PublishMade(i)
    BY <1>9, <2>1 DEF Publish, PublishMade
  <2>2. CASE PublishTooLate(i)
    BY <1>9, <2>2 DEF Publish, PublishTooLate
  <2>3. CASE PublishError(i)
    BY <1>9, <2>3 DEF Publish, PublishError
  <2> QED BY <1>9, <2>1, <2>2, <2>3 DEF Publish
<1>10. ASSUME NEW i \in Invocations, Cleanup(i) PROVE ClientsConsistent'
  BY <1>10 DEF Cleanup
<1>11. ASSUME NEW i \in Invocations, GetClientMutex(i) PROVE ClientsConsistent'
  BY <1>11 DEF GetClientMutex
<1>12. ASSUME NEW i \in Invocations, LockContext(i) PROVE ClientsConsistent'
  BY <1>12 DEF LockContext
<1>13. ASSUME NEW i \in Invocations, RecheckContext(i) PROVE ClientsConsistent'
  BY <1>13 DEF RecheckContext
<1>14. ASSUME NEW i \in Invocations, CallReturns(i) PROVE ClientsConsistent'
  BY <1>14 DEF CallReturns
<1>15. ASSUME NEW i \in Invocations, CloseClient(i) PROVE ClientsConsistent'
  BY <1>15 DEF CloseClient
<1> QED
  BY <1>1, <1>2, <1>3, <1>4, <1>5, <1>6, <1>7, <1>8, <1>9, <1>10, <1>11, <1>12,
     <1>13, <1>14, <1>15, NextCases

(* A context error is reported only to the invocation whose context ended.  *)
LEMMA CancellationStep ==
  TypeOK /\ OnlyOwnCancellation /\ [Next]_vars => OnlyOwnCancellation'
<1> SUFFICES ASSUME TypeOK, OnlyOwnCancellation, [Next]_vars PROVE OnlyOwnCancellation'
  OBVIOUS
<1> USE ConstantsAssumption DEF registryVars, heapVars, localVars, Goto, Finish, TypeOK, PCs, OnlyOwnCancellation
<1>1. CASE UNCHANGED vars
  BY <1>1 DEF vars
<1>2. CASE Close
  BY <1>2 DEF Close
<1>3. ASSUME NEW i \in Invocations, Begin(i) PROVE OnlyOwnCancellation'
  BY <1>3 DEF Begin
<1>4. ASSUME NEW i \in Invocations, Expire(i) PROVE OnlyOwnCancellation'
  BY <1>4 DEF Expire
<1>5. ASSUME NEW i \in Invocations, Lookup(i) PROVE OnlyOwnCancellation'
  <2>1. CASE LookupClosed(i)
    BY <1>5, <2>1 DEF Lookup, LookupClosed
  <2>2. CASE LookupCached(i)
    BY <1>5, <2>2 DEF Lookup, LookupCached
  <2>3. CASE LookupJoin(i)
    BY <1>5, <2>3 DEF Lookup, LookupJoin
  <2>4. CASE LookupUnknown(i)
    BY <1>5, <2>4 DEF Lookup, LookupUnknown
  <2>5. CASE LookupInitiate(i)
    BY <1>5, <2>5 DEF Lookup, LookupInitiate
  <2> QED BY <1>5, <2>1, <2>2, <2>3, <2>4, <2>5 DEF Lookup
<1>6. ASSUME NEW i \in Invocations, AwaitLoad(i) PROVE OnlyOwnCancellation'
  BY <1>6 DEF AwaitLoad
<1>7. ASSUME NEW i \in Invocations, FactoryOpens(i) PROVE OnlyOwnCancellation'
  BY <1>7 DEF FactoryOpens
<1>8. ASSUME NEW i \in Invocations, FactoryReturns(i) PROVE OnlyOwnCancellation'
  BY <1>8 DEF FactoryReturns
<1>9. ASSUME NEW i \in Invocations, Publish(i) PROVE OnlyOwnCancellation'
  <2>1. CASE PublishMade(i)
    BY <1>9, <2>1 DEF Publish, PublishMade
  <2>2. CASE PublishTooLate(i)
    BY <1>9, <2>2 DEF Publish, PublishTooLate
  <2>3. CASE PublishError(i)
    BY <1>9, <2>3 DEF Publish, PublishError
  <2> QED BY <1>9, <2>1, <2>2, <2>3 DEF Publish
<1>10. ASSUME NEW i \in Invocations, Cleanup(i) PROVE OnlyOwnCancellation'
  BY <1>10 DEF Cleanup
<1>11. ASSUME NEW i \in Invocations, GetClientMutex(i) PROVE OnlyOwnCancellation'
  BY <1>11 DEF GetClientMutex
<1>12. ASSUME NEW i \in Invocations, LockContext(i) PROVE OnlyOwnCancellation'
  BY <1>12 DEF LockContext
<1>13. ASSUME NEW i \in Invocations, RecheckContext(i) PROVE OnlyOwnCancellation'
  BY <1>13 DEF RecheckContext
<1>14. ASSUME NEW i \in Invocations, CallReturns(i) PROVE OnlyOwnCancellation'
  BY <1>14 DEF CallReturns
<1>15. ASSUME NEW i \in Invocations, CloseClient(i) PROVE OnlyOwnCancellation'
  BY <1>15 DEF CloseClient
<1> QED
  BY <1>1, <1>2, <1>3, <1>4, <1>5, <1>6, <1>7, <1>8, <1>9, <1>10, <1>11, <1>12,
     <1>13, <1>14, <1>15, NextCases

(* The inductive invariant holds initially and is preserved.               *)
LEMMA InductiveInit == Init => Inductive
<1> SUFFICES ASSUME Init PROVE Inductive
  OBVIOUS
<1>1. TypeOK
  <2>1. /\ closed \in BOOLEAN
        /\ token \in [Invocations -> BOOLEAN]
        /\ expired \in [Invocations -> BOOLEAN]
    BY Zenon DEF Init
  <2> QED
    BY <2>1 DEF Init, TypeOK, PCs, LoadStates, Results
<1>2. LoadsConsistent
  BY DEF Init, LoadsConsistent, Loading, InFlight
<1>3. ProcessesConsistent
  BY DEF Init, ProcessesConsistent, InFlight
<1>4. MutexesConsistent
  BY DEF Init, MutexesConsistent, Holding
<1>5. ClientsConsistent
  BY DEF Init, ClientsConsistent
<1>6. OnlyOwnCancellation
  BY DEF Init, OnlyOwnCancellation
<1> QED
  BY <1>1, <1>2, <1>3, <1>4, <1>5, <1>6 DEF Inductive

(* Every reachable state of the registry satisfies the inductive invariant, *)
(* for any sets of invocations and providers.                               *)
THEOREM InductiveInvariant == Spec => []Inductive
<1>1. Inductive /\ [Next]_vars => Inductive'
  BY TypeStep, LoadsStep, ProcessesStep, MutexesStep, ClientsStep,
     CancellationStep DEF Inductive
<1> QED
  BY <1>1, InductiveInit, PTL DEF Spec

(* Calls to one provider are serialized as long as the registry is open.    *)
THEOREM SerializedWhileOpenHolds == Spec => []SerializedWhileOpen
<1>1. Inductive => SerializedWhileOpen
  BY DEF Inductive, MutexesConsistent, SerializedWhileOpen, Holding
<1> QED
  BY <1>1, InductiveInvariant, PTL

(* No two processes of one provider are ever open at the same time.         *)
THEOREM OneProcessPerProviderHolds == Spec => []OneProcessPerProvider
<1>1. Inductive => OneProcessPerProvider
  <2> SUFFICES ASSUME Inductive, NEW c \in Invocations, NEW d \in Invocations,
                      process[c] = "open", process[d] = "open",
                      provider[c] = provider[d]
               PROVE  c = d
    BY DEF OneProcessPerProvider
  <2> USE ConstantsAssumption DEF Inductive, TypeOK, LoadsConsistent, ProcessesConsistent
  <2>1. CASE closed
    <3>1. \A e \in {c, d} : InFlight(e) \/ e \in closing
      BY <2>1
    <3> QED BY <3>1
  <2>2. CASE ~closed
    <3>1. \A e \in {c, d} : InFlight(e) \/ clients[provider[e]] = e
      BY <2>2
    <3>2. \A e \in {c, d} : InFlight(e) => clients[provider[e]] = None
      BY <2>2 DEF InFlight, Loading
    <3> QED BY <3>1, <3>2
  <2> QED BY <2>1, <2>2
<1> QED
  BY <1>1, InductiveInvariant, PTL

(* After Close every open process is still somebody's to close, and nobody  *)
(* closes a process that somebody else closes too.                          *)
THEOREM OneCloserHolds == Spec => []OneCloser
<1>1. Inductive => OneCloser
  BY ConstantsAssumption
     DEF Inductive, TypeOK, LoadsConsistent, ProcessesConsistent, OneCloser,
         InFlight, Loading
<1> QED
  BY <1>1, InductiveInvariant, PTL

(* No ClientMutex loses or duplicates its token: between any two steps it   *)
(* is in the channel or with exactly one invocation.                        *)
THEOREM TokenConservedHolds == Spec => []TokenConserved
<1>1. Inductive => TokenConserved
  <2> SUFFICES ASSUME Inductive,
                      NEW k \in Invocations, mutex[k] # None
               PROVE  LET holders == {i \in Invocations : mutex[i] = mutex[k] /\ Holding(i)}
                      IN  IF token[mutex[k]] THEN holders = {} ELSE Cardinality(holders) = 1
    BY DEF TokenConserved
  <2> DEFINE holders == {i \in Invocations : mutex[i] = mutex[k] /\ Holding(i)}
  <2>1. CASE token[mutex[k]]
    BY <2>1 DEF Inductive, MutexesConsistent
  <2>2. CASE ~token[mutex[k]]
    <3>1. PICK j \in Invocations : Holding(j) /\ mutex[j] = mutex[k]
      BY <2>2 DEF Inductive, MutexesConsistent
    <3>2. holders = {j}
      BY <3>1 DEF Inductive, MutexesConsistent
    <3> QED
      BY <2>2, <3>2, FS_Singleton
  <2> QED
    BY <2>1, <2>2
<1> QED
  BY <1>1, InductiveInvariant, PTL

(* A live invocation never fails with another invocation's cancellation.    *)
THEOREM OnlyOwnCancellationHolds == Spec => []OnlyOwnCancellation
<1>1. Inductive => OnlyOwnCancellation
  BY DEF Inductive
<1> QED
  BY <1>1, InductiveInvariant, PTL

(* While the registry is open every call uses the provider's cached client, *)
(* whose process is open.                                                   *)
THEOREM CallsCachedClientHolds == Spec => []CallsCachedClient
<1>1. Inductive => CallsCachedClient
  BY DEF Inductive, TypeOK, ProcessesConsistent, ClientsConsistent,
         CallsCachedClient
<1> QED
  BY <1>1, InductiveInvariant, PTL

-----------------------------------------------------------------------------
(* The registry implements the service of module ProviderService, for any   *)
(* number of invocations and providers.  Under the refinement mapping of    *)
(* module ProviderRegistry the initial states are initial states of the     *)
(* service and each step is a step of the service or changes nothing it     *)
(* shows.                                                                   *)

(* A provider's phase stays when its client, its starters and the list of   *)
(* Close stay.                                                              *)
LEMMA PhaseFrame ==
  ASSUME NEW p \in Providers,
         closed' = closed, provider' = provider, clients'[p] = clients[p],
         \A j \in Invocations : provider[j] = p => (InFlight(j)' <=> InFlight(j)),
         TypeOK, TypeOK',
         \A c \in Invocations : provider[c] = p => (c \in closing' <=> c \in closing)
  PROVE  Phase(p)' = Phase(p)
<1>1. (\E i \in Invocations : InFlight(i) /\ provider[i] = p)'
        <=> \E i \in Invocations : InFlight(i) /\ provider[i] = p
  OBVIOUS
<1>2. (\E c \in closing : provider[c] = p)' <=> \E c \in closing : provider[c] = p
  BY DEF TypeOK
<1> QED
  BY <1>1, <1>2 DEF Phase

(* A step that changes no client, process or list, and moves no goroutine   *)
(* into or out of a start or a call, shows nothing to the service.          *)
LEMMA Stutter ==
  ASSUME UNCHANGED <<closed, provider, clients, closing, process>>,
         TypeOK, TypeOK',
         \A j \in Invocations : InFlight(j)' <=> InFlight(j),
         \A j \in Invocations : pc'[j] = "call" <=> pc[j] = "call"
  PROVE  UNCHANGED Service!vars
<1>1. \A p \in Providers : Phase(p)' = Phase(p)
  BY PhaseFrame
<1>2. \A p \in Providers : Running(p)' = Running(p)
  BY DEF Running
<1>3. \A p \in Providers : Calling(p)' = Calling(p)
  BY DEF Calling
<1> QED
  BY <1>1, <1>2, <1>3 DEF Service!vars

(* Whoever is in flight with a provider is alone with it: the provider is   *)
(* starting, and has no process but the one being started.                  *)
LEMMA AloneInFlight ==
  ASSUME Inductive, NEW i \in Invocations, InFlight(i)
  PROVE  /\ Phase(provider[i]) = "starting"
         /\ clients[provider[i]] = None
         /\ Running(provider[i]) \subseteq {i}
         /\ \A j \in Invocations : InFlight(j) /\ provider[j] = provider[i] => j = i
         /\ \A c \in closing : provider[c] # provider[i]
<1> USE ConstantsAssumption DEF Inductive, TypeOK
<1>1. clients[provider[i]] = None
  BY DEF LoadsConsistent, InFlight, Loading
<1>2. Phase(provider[i]) = "starting"
  BY <1>1 DEF Phase
<1>3. \A j \in Invocations : InFlight(j) /\ provider[j] = provider[i] => j = i
  BY DEF LoadsConsistent
<1>4. \A c \in closing : provider[c] # provider[i]
  BY DEF ProcessesConsistent
<1>5. Running(provider[i]) \subseteq {i}
  BY <1>1, <1>3, <1>4 DEF ProcessesConsistent, Running
<1> QED
  BY <1>1, <1>2, <1>3, <1>4, <1>5

(* What one provider's change does to the functions the service shows.      *)
LEMMA PhaseMoves ==
  ASSUME NEW CONSTANT p \in Providers, NEW v, Phase(p)' = v,
         \A q \in Providers \ {p} : Phase(q)' = Phase(q)
  PROVE  [q \in Providers |-> Phase(q)]' = [[q \in Providers |-> Phase(q)] EXCEPT ![p] = v]
  OBVIOUS

(* The running processes when those of one provider change.                 *)
LEMMA RunningMoves ==
  ASSUME NEW CONSTANT p \in Providers, NEW v, Running(p)' = v,
         \A q \in Providers \ {p} : Running(q)' = Running(q)
  PROVE  [q \in Providers |-> Running(q)]' = [[q \in Providers |-> Running(q)] EXCEPT ![p] = v]
  OBVIOUS

(* The calls in progress when those of one provider change.                 *)
LEMMA CallingMoves ==
  ASSUME NEW CONSTANT p \in Providers, NEW v, Calling(p)' = v,
         \A q \in Providers \ {p} : Calling(q)' = Calling(q)
  PROVE  [q \in Providers |-> Calling(q)]' = [[q \in Providers |-> Calling(q)] EXCEPT ![p] = v]
  OBVIOUS

(* The steps of the service, said of one provider p and the others.         *)
LEMMA ShowsBeginStart ==
  ASSUME NEW CONSTANT p \in Providers, closed' = closed,
         ~closed, Phase(p) = "absent",
         Phase(p)' = "starting",
         \A q \in Providers \ {p} : Phase(q)' = Phase(q),
         \A q \in Providers : Running(q)' = Running(q),
         \A q \in Providers : Calling(q)' = Calling(q)
  PROVE  Service!BeginStart(p)
  BY PhaseMoves DEF Service!BeginStart

(* A process of a starting provider is opened.                              *)
LEMMA ShowsOpen ==
  ASSUME NEW CONSTANT p \in Providers, closed' = closed,
         NEW CONSTANT i \in Invocations, Phase(p) = "starting", Running(p) = {},
         \A q \in Providers : Phase(q)' = Phase(q),
         Running(p)' = {i},
         \A q \in Providers \ {p} : Running(q)' = Running(q),
         \A q \in Providers : Calling(q)' = Calling(q)
  PROVE  Service!Open(p)
  BY RunningMoves DEF Service!Open

(* A process whose start failed is closed.                                  *)
LEMMA ShowsCloseFailed ==
  ASSUME NEW CONSTANT p \in Providers, closed' = closed,
         Phase(p) = "starting",
         \A q \in Providers : Phase(q)' = Phase(q),
         Running(p)' = {},
         \A q \in Providers \ {p} : Running(q)' = Running(q),
         \A q \in Providers : Calling(q)' = Calling(q)
  PROVE  Service!CloseFailed(p)
  BY RunningMoves DEF Service!CloseFailed

(* A start succeeds.                                                        *)
LEMMA ShowsSucceed ==
  ASSUME NEW CONSTANT p \in Providers, closed' = closed,
         ~closed, Phase(p) = "starting", Running(p) # {},
         Phase(p)' = "up",
         \A q \in Providers \ {p} : Phase(q)' = Phase(q),
         \A q \in Providers : Running(q)' = Running(q),
         \A q \in Providers : Calling(q)' = Calling(q)
  PROVE  Service!Succeed(p)
  BY PhaseMoves DEF Service!Succeed

(* A start fails, and leaves no process.                                    *)
LEMMA ShowsFail ==
  ASSUME NEW CONSTANT p \in Providers, closed' = closed,
         Phase(p) = "starting",
         Phase(p)' = (IF closed THEN "down" ELSE "absent"),
         \A q \in Providers \ {p} : Phase(q)' = Phase(q),
         Running(p)' = {},
         \A q \in Providers \ {p} : Running(q)' = Running(q),
         \A q \in Providers : Calling(q)' = Calling(q)
  PROVE  Service!Fail(p)
  BY PhaseMoves, RunningMoves DEF Service!Fail

(* A provider is stopped.                                                   *)
LEMMA ShowsStop ==
  ASSUME NEW CONSTANT p \in Providers, closed' = closed,
         Phase(p) = "stopping",
         Phase(p)' = "down",
         \A q \in Providers \ {p} : Phase(q)' = Phase(q),
         Running(p)' = {},
         \A q \in Providers \ {p} : Running(q)' = Running(q),
         \A q \in Providers : Calling(q)' = Calling(q)
  PROVE  Service!Stop(p)
  BY PhaseMoves, RunningMoves DEF Service!Stop

(* A call begins.                                                           *)
LEMMA ShowsBeginCall ==
  ASSUME NEW CONSTANT p \in Providers, NEW CONSTANT i \in Invocations, closed' = closed,
         ~closed => Phase(p) = "up" /\ Calling(p) = {},
         \A q \in Providers : Phase(q)' = Phase(q),
         \A q \in Providers : Running(q)' = Running(q),
         Calling(p)' = Calling(p) \cup {i},
         \A q \in Providers \ {p} : Calling(q)' = Calling(q)
  PROVE  Service!BeginCall(p, i)
  BY CallingMoves DEF Service!BeginCall

(* A call ends.                                                             *)
LEMMA ShowsEndCall ==
  ASSUME NEW CONSTANT p \in Providers, NEW CONSTANT i \in Invocations, closed' = closed,
         i \in Calling(p),
         \A q \in Providers : Phase(q)' = Phase(q),
         \A q \in Providers : Running(q)' = Running(q),
         Calling(p)' = Calling(p) \ {i},
         \A q \in Providers \ {p} : Calling(q)' = Calling(q)
  PROVE  Service!EndCall(p, i)
  BY CallingMoves DEF Service!EndCall

(* The first caller of a provider begins its start.                         *)
LEMMA InitiateStep ==
  ASSUME Inductive, Inductive', NEW i \in Invocations, NEW CONSTANT p \in Providers,
         provider[i] = p, Lookup(i), LookupInitiate(i)
  PROVE  Service!BeginStart(p)
<1> USE ConstantsAssumption DEF Inductive, TypeOK, Lookup, LookupInitiate, Goto
<1>1. Phase(p) = "absent"
  BY DEF Phase, LoadsConsistent, ProcessesConsistent, InFlight, Loading
<1>2. Phase(p)' = "starting"
  BY DEF Phase, InFlight
<1>3. \A q \in Providers \ {p} : Phase(q)' = Phase(q)
  BY PhaseFrame DEF InFlight
<1>4. \A q \in Providers : Running(q)' = Running(q) /\ Calling(q)' = Calling(q)
  BY DEF Running, Calling
<1> QED
  BY <1>1, <1>2, <1>3, <1>4, ShowsBeginStart

(* The factory brings up the one process of the provider that is starting.  *)
LEMMA OpenStep ==
  ASSUME Inductive, Inductive', NEW i \in Invocations, NEW CONSTANT p \in Providers,
         provider[i] = p, FactoryOpens(i)
  PROVE  Service!Open(p)
<1> USE ConstantsAssumption DEF Inductive, TypeOK, FactoryOpens, registryVars, localVars
<1>1. InFlight(i)
  BY DEF InFlight
<1>2. Running(p) = {}
  BY <1>1, AloneInFlight DEF Running
<1>3. Running(p)' = {i}
  BY <1>2 DEF Running
<1>4. \A q \in Providers \ {p} : Running(q)' = Running(q)
  BY DEF Running
<1>5. \A q \in Providers : Phase(q)' = Phase(q) /\ Calling(q)' = Calling(q)
  BY PhaseFrame DEF InFlight, Calling
<1> QED
  BY <1>1, <1>2, <1>3, <1>4, <1>5, AloneInFlight, ShowsOpen

(* A factory that fails has closed what it opened; one that succeeds shows  *)
(* nothing yet.                                                             *)
LEMMA ReturnStep ==
  ASSUME Inductive, Inductive', NEW i \in Invocations, NEW CONSTANT p \in Providers,
         provider[i] = p, FactoryReturns(i)
  PROVE  Service!CloseFailed(p) \/ UNCHANGED Service!vars
<1> USE DEF Inductive, TypeOK, FactoryReturns, registryVars, localVars
<1>1. InFlight(i)
  BY DEF InFlight
<1>2. \A j \in Invocations : InFlight(j)' <=> InFlight(j)
  BY DEF InFlight
<1>3. \A j \in Invocations : pc'[j] = "call" <=> pc[j] = "call"
  OBVIOUS
<1>4. CASE UNCHANGED process
  BY <1>2, <1>3, <1>4, Stutter
<1>5. CASE process' = [process EXCEPT ![i] = IF @ = "open" THEN "closed" ELSE @]
  <2>1. Running(p)' = {}
    BY <1>1, <1>5, AloneInFlight DEF Running
  <2>2. \A q \in Providers \ {p} : Running(q)' = Running(q)
    BY <1>5 DEF Running
  <2>3. \A q \in Providers : Phase(q)' = Phase(q)
    BY <1>2, PhaseFrame
  <2>4. \A q \in Providers : Calling(q)' = Calling(q)
    BY <1>3 DEF Calling
  <2> QED
    BY <1>1, <2>1, <2>2, <2>3, <2>4, AloneInFlight, ShowsCloseFailed
<1> QED
  BY <1>4, <1>5

(* The outcome of a start: the provider is up, the start failed, or the     *)
(* registry was closed meanwhile and the process is still to be closed.     *)
LEMMA PublishStep ==
  ASSUME Inductive, Inductive', NEW i \in Invocations, NEW CONSTANT p \in Providers,
         provider[i] = p, Publish(i)
  PROVE  \/ Service!Succeed(p)
         \/ Service!Fail(p)
         \/ UNCHANGED Service!vars
<1> USE ConstantsAssumption DEF Inductive, TypeOK, Publish
<1>1. InFlight(i)
  BY DEF InFlight
<1>2. \A q \in Providers : Running(q)' = Running(q)
  BY DEF Running
<1>3. CASE PublishMade(i)
  <2> USE <1>3 DEF PublishMade
  <2>1. Phase(p)' = "up"
    BY DEF Phase
  <2>2. \A q \in Providers \ {p} : Phase(q)' = Phase(q)
    BY PhaseFrame DEF InFlight
  <2>3. \A q \in Providers : Calling(q)' = Calling(q)
    BY DEF Calling
  <2>4. Running(p) # {}
    BY DEF ProcessesConsistent, Running
  <2> QED
    BY <1>1, <1>2, <2>1, <2>2, <2>3, <2>4, AloneInFlight, ShowsSucceed
<1>4. CASE PublishTooLate(i)
  BY <1>4, Stutter DEF PublishTooLate, InFlight
<1>5. CASE PublishError(i)
  <2> USE <1>5 DEF PublishError
  <2>1. Phase(p)' = IF closed THEN "down" ELSE "absent"
    BY <1>1, AloneInFlight DEF Phase, InFlight
  <2>2. \A q \in Providers \ {p} : Phase(q)' = Phase(q)
    BY PhaseFrame DEF InFlight
  <2>3. \A q \in Providers : Calling(q)' = Calling(q)
    BY DEF Calling
  <2>4. Running(p) = {}
    BY <1>1, AloneInFlight DEF ProcessesConsistent, Running
  <2> QED
    BY <1>1, <1>2, <2>1, <2>2, <2>3, <2>4, AloneInFlight, ShowsFail
<1> QED
  BY <1>3, <1>4, <1>5

(* A client that came too late is closed: the start has failed.             *)
LEMMA CleanupStep ==
  ASSUME Inductive, Inductive', NEW i \in Invocations, NEW CONSTANT p \in Providers,
         provider[i] = p, Cleanup(i)
  PROVE  Service!Fail(p)
<1> USE ConstantsAssumption
    DEF Inductive, TypeOK, Cleanup, Finish, registryVars, localVars
<1>1. InFlight(i)
  BY DEF InFlight
<1>2. Phase(p)' = IF closed THEN "down" ELSE "absent"
  BY <1>1, AloneInFlight DEF Phase, InFlight
<1>3. \A q \in Providers \ {p} : Phase(q)' = Phase(q)
  BY PhaseFrame DEF InFlight
<1>4. Running(p)' = {}
  BY <1>1, AloneInFlight DEF Running
<1>5. \A q \in Providers \ {p} : Running(q)' = Running(q)
  BY DEF Running
<1>6. \A q \in Providers : Calling(q)' = Calling(q)
  BY DEF Calling
<1> QED
  BY <1>1, <1>2, <1>3, <1>4, <1>5, <1>6, AloneInFlight, ShowsFail

(* A token kept with a live context begins a call, alone while the registry *)
(* is open; a token given back shows nothing.                               *)
LEMMA RecheckStep ==
  ASSUME Inductive, Inductive', NEW i \in Invocations, NEW CONSTANT p \in Providers,
         provider[i] = p, RecheckContext(i)
  PROVE  Service!BeginCall(p, i) \/ UNCHANGED Service!vars
<1> USE DEF Inductive, TypeOK, RecheckContext, Goto, Finish, registryVars, localVars
<1>1. \A j \in Invocations : InFlight(j)' <=> InFlight(j)
  BY DEF InFlight
<1>2. CASE expired[i]
  BY <1>1, <1>2, Stutter
<1>3. CASE ~expired[i]
  <2>1. \A q \in Providers : Phase(q)' = Phase(q)
    BY <1>1, <1>3, PhaseFrame
  <2>2. \A q \in Providers : Running(q)' = Running(q)
    BY <1>3 DEF Running
  <2>3. Calling(p)' = Calling(p) \cup {i}
    BY <1>3 DEF Calling
  <2>4. \A q \in Providers \ {p} : Calling(q)' = Calling(q)
    BY <1>3 DEF Calling
  <2>5. ASSUME ~closed PROVE Phase(p) = "up"
    BY <2>5, ConstantsAssumption DEF Phase, ClientsConsistent
  <2>6. ASSUME ~closed PROVE Calling(p) = {}
    BY <2>6 DEF Calling, MutexesConsistent, Holding
  <2>7. closed' = closed
    OBVIOUS
  <2> QED
    BY <2>1, <2>2, <2>3, <2>4, <2>5, <2>6, <2>7, ShowsBeginCall
<1> QED
  BY <1>2, <1>3

(* A call ends.                                                             *)
LEMMA CallStep ==
  ASSUME Inductive, Inductive', NEW i \in Invocations, NEW CONSTANT p \in Providers,
         provider[i] = p, CallReturns(i)
  PROVE  Service!EndCall(p, i)
<1> USE DEF Inductive, TypeOK, CallReturns, Finish, registryVars, localVars
<1>1. \A j \in Invocations : InFlight(j)' <=> InFlight(j)
  BY DEF InFlight
<1>2. \A q \in Providers : Phase(q)' = Phase(q)
  BY <1>1, PhaseFrame
<1>3. \A q \in Providers : Running(q)' = Running(q)
  BY DEF Running
<1>4. i \in Calling(p) /\ Calling(p)' = Calling(p) \ {i}
  BY DEF Calling
<1>5. \A q \in Providers \ {p} : Calling(q)' = Calling(q)
  BY DEF Calling
<1>6. closed' = closed
  OBVIOUS
<1> QED
  BY <1>2, <1>3, <1>4, <1>5, <1>6, ShowsEndCall

(* Close shuts the service down: the providers that are up are on its list, *)
(* starts under way go on, everything else stays down.                      *)
LEMMA CloseStep ==
  ASSUME Inductive, Inductive', Close
  PROVE  Service!Shutdown
<1> USE ConstantsAssumption DEF Inductive, TypeOK, Close, heapVars, localVars
<1>1. \A q \in Providers : Running(q)' = Running(q) /\ Calling(q)' = Calling(q)
  BY DEF Running, Calling
<1>2. \A j \in Invocations : InFlight(j)' <=> InFlight(j)
  BY DEF InFlight
<1>3. ASSUME NEW CONSTANT q \in Providers
      PROVE  Phase(q)' = CASE Phase(q) = "up"     -> "stopping"
                           [] Phase(q) = "absent" -> "down"
                           [] OTHER               -> Phase(q)
  <2>1. CASE clients[q] # None
    <3>1. Phase(q) = "up"
      BY <2>1 DEF Phase
    <3>2. \A j \in Invocations : InFlight(j) => provider[j] # q
      BY <2>1 DEF LoadsConsistent, InFlight, Loading
    <3>3. clients[q] \in closing' /\ provider[clients[q]] = q
      BY <2>1 DEF ProcessesConsistent
    <3>4. Phase(q)' = "stopping"
      BY <1>2, <3>2, <3>3 DEF Phase
    <3> QED
      BY <3>1, <3>4
  <2>2. CASE clients[q] = None /\ \E j \in Invocations : InFlight(j) /\ provider[j] = q
    <3>1. Phase(q) = "starting" /\ Phase(q)' = "starting"
      BY <1>2, <2>2 DEF Phase
    <3> QED
      BY <3>1
  <2>3. CASE clients[q] = None /\ ~\E j \in Invocations : InFlight(j) /\ provider[j] = q
    <3>1. Phase(q) = "absent"
      BY <2>3 DEF Phase, ProcessesConsistent
    <3>2. \A c \in closing' : provider[c] # q
      BY <2>3 DEF ProcessesConsistent
    <3>3. Phase(q)' = "down"
      BY <1>2, <2>3, <3>2 DEF Phase
    <3> QED
      BY <3>1, <3>3
  <2> QED
    BY <2>1, <2>2, <2>3
<1>4. ~closed /\ closed' = TRUE
  OBVIOUS
<1> HIDE DEF Inductive, TypeOK, Close
<1> QED
  BY <1>1, <1>3, <1>4 DEF Service!Shutdown

(* Close stops one provider of its list for good.                           *)
LEMMA CloseClientStep ==
  ASSUME Inductive, Inductive', NEW i \in Invocations, NEW CONSTANT p \in Providers,
         provider[i] = p, CloseClient(i)
  PROVE  Service!Stop(p)
<1> USE ConstantsAssumption DEF Inductive, TypeOK, CloseClient, registryVars, localVars
<1>1. closed /\ clients[p] = None
  BY DEF LoadsConsistent, ProcessesConsistent
<1>2. \A j \in Invocations : InFlight(j) => provider[j] # p
  BY DEF ProcessesConsistent
<1>3. \A c \in closing : provider[c] = p => c = i
  BY DEF ProcessesConsistent
<1>4. \A j \in Invocations : InFlight(j)' <=> InFlight(j)
  BY DEF InFlight
<1>5. Phase(p) = "stopping"
  BY <1>1, <1>2 DEF Phase
<1>6. Phase(p)' = "down"
  BY <1>1, <1>2, <1>3, <1>4 DEF Phase
<1>7. \A q \in Providers \ {p} : Phase(q)' = Phase(q)
  BY <1>4, PhaseFrame
<1>8. Running(p)' = {}
  BY <1>1, <1>2, <1>3 DEF Running, ProcessesConsistent
<1>9. \A q \in Providers \ {p} : Running(q)' = Running(q)
  BY DEF Running
<1>10. \A q \in Providers : Calling(q)' = Calling(q)
  BY DEF Calling
<1>11. closed' = closed
  OBVIOUS
<1> QED
  BY <1>5, <1>6, <1>7, <1>8, <1>9, <1>10, <1>11, ShowsStop

(* Everything else an invocation does happens inside the registry.          *)
LEMMA SilentStep ==
  ASSUME Inductive, Inductive', NEW i \in Invocations,
         \/ Begin(i) \/ Expire(i) \/ AwaitLoad(i) \/ GetClientMutex(i) \/ LockContext(i)
         \/ Lookup(i) /\ ~LookupInitiate(i)
  PROVE  UNCHANGED Service!vars
<1> USE DEF Inductive, TypeOK, Goto, Finish, registryVars, heapVars, localVars
<1>1. UNCHANGED <<closed, provider, clients, closing, process>>
  BY DEF Begin, Expire, AwaitLoad, GetClientMutex, LockContext, Lookup
<1>2. \A j \in Invocations : /\ InFlight(j)' <=> InFlight(j)
                             /\ pc'[j] = "call" <=> pc[j] = "call"
  <2>1. CASE Begin(i) \/ Expire(i)
    BY <2>1 DEF Begin, Expire, InFlight
  <2>2. CASE AwaitLoad(i)
    BY <2>2 DEF AwaitLoad, InFlight
  <2>3. CASE GetClientMutex(i) \/ LockContext(i)
    BY <2>3 DEF GetClientMutex, LockContext, InFlight
  <2>4. CASE Lookup(i) /\ ~LookupInitiate(i)
    BY <2>4 DEF Lookup, LookupClosed, LookupCached, LookupJoin, LookupUnknown, InFlight
  <2> QED
    BY <2>1, <2>2, <2>3, <2>4
<1> QED
  BY <1>1, <1>2, Stutter

(* Every step of the registry is a step of the service or shows nothing.    *)
LEMMA ServiceStep == Inductive /\ Inductive' /\ [Next]_vars => [Service!Next]_(Service!vars)
<1> SUFFICES ASSUME Inductive, Inductive', [Next]_vars
             PROVE  Service!Next \/ UNCHANGED Service!vars
  OBVIOUS
<1>1. CASE UNCHANGED vars
  BY <1>1, Stutter DEF vars, registryVars, heapVars, localVars, Inductive, InFlight
<1>2. CASE Close
  BY <1>2, CloseStep DEF Service!Next
<1>3. ASSUME NEW CONSTANT i \in Invocations,
             \/ Begin(i) \/ Expire(i) \/ Lookup(i) \/ AwaitLoad(i)
             \/ FactoryOpens(i) \/ FactoryReturns(i) \/ Publish(i) \/ Cleanup(i)
             \/ GetClientMutex(i) \/ LockContext(i) \/ RecheckContext(i)
             \/ CallReturns(i) \/ CloseClient(i)
      PROVE  Service!Next \/ UNCHANGED Service!vars
  <2>1. PICK p \in Providers : provider[i] = p
    BY DEF Inductive, TypeOK
  <2>2. CASE \/ Begin(i) \/ Expire(i) \/ AwaitLoad(i) \/ GetClientMutex(i) \/ LockContext(i)
             \/ Lookup(i) /\ ~LookupInitiate(i)
    BY <2>2, SilentStep
  <2>3. CASE Lookup(i) /\ LookupInitiate(i)
    BY <2>1, <2>3, InitiateStep DEF Service!Next
  <2>4. CASE FactoryOpens(i)
    BY <2>1, <2>4, OpenStep DEF Service!Next
  <2>5. CASE FactoryReturns(i)
    BY <2>1, <2>5, ReturnStep DEF Service!Next
  <2>6. CASE Publish(i)
    BY <2>1, <2>6, PublishStep DEF Service!Next
  <2>7. CASE Cleanup(i)
    BY <2>1, <2>7, CleanupStep DEF Service!Next
  <2>8. CASE RecheckContext(i)
    BY <2>1, <2>8, RecheckStep DEF Service!Next
  <2>9. CASE CallReturns(i)
    BY <2>1, <2>9, CallStep DEF Service!Next
  <2>10. CASE CloseClient(i)
    BY <2>1, <2>10, CloseClientStep DEF Service!Next
  <2> QED
    BY <1>3, <2>2, <2>3, <2>4, <2>5, <2>6, <2>7, <2>8, <2>9, <2>10
<1> QED
  BY <1>1, <1>2, <1>3, NextCases

(* The registry of hierarchy.go implements the service it promises, for any *)
(* invocations and providers: each provider is started by one caller at a   *)
(* time, has at most one process, is called only while it is up and by one  *)
(* caller at a time until Close, and never comes back after it.             *)
THEOREM ImplementsServiceHolds == Spec => ImplementsService
<1>1. Init => Service!Init
  BY DEF Init, Service!Init, Phase, Running, Calling, InFlight
<1>2. Inductive /\ Inductive' /\ [Next]_vars => [Service!Next]_(Service!vars)
  BY ServiceStep
<1> QED
  BY <1>1, <1>2, InductiveInvariant, PTL DEF Spec, ImplementsService, Service!Spec
-----------------------------------------------------------------------------
(* What stays true during one run of newProviderClient.  Each cause leaves  *)
(* a trace: a callback that runs was triggered by its context, an abort     *)
(* belongs to a failed start, and the invocation's end can have cancelled   *)
(* the context only if Initialize was called with an ended one.             *)
StartInductive ==
  /\ StartTypeOK
  /\ doneCloses = IF err = "none" THEN 0 ELSE 1
  /\ ret = "none" <=> phase # "returned"
  /\ startupHook \in {"running", "ran"} => startupDone
  /\ lifecycleHook \in {"running", "ran"} => lifecycleDone
  /\ startupHook = "none" => /\ phase \in {"create", "returned"} /\ lifecycleHook = "none"
                             /\ child = "none" /\ err = "none" /\ ret # "ok"
  /\ phase = "create" => startupHook = "none" /\ lifecycleHook = "none"
  /\ err = "startup" => startupDone
  /\ err = "lifecycle" => lifecycleDone
  /\ err = "aborted" => phase \in {"startFailed", "initFailed"} \/ ret \in {"error", "canceled"}
  /\ phase \in {"stopping", "initializing"} => detached
  /\ phase = "initializing" => err # "startup"
  /\ phase \in {"startFailed", "initFailed"} => err # "none"
  /\ phase = "initFailed" => child # "open"
  /\ phase \notin {"initFailed", "returned"} => failure = "none"
  /\ failure = "context" => startupDone
  /\ phase = "starting" => child = "none"
  /\ ret = "ok" => detached /\ err # "startup"
  /\ ret \in {"error", "canceled"} => /\ child # "open"
                                      /\ startupHook # "none" => err # "none"
  /\ ret = "canceled" => startupDone /\ failure # "provider"
  /\ ret = "error" => failure # "context"

(* Every step of newProviderClient, of the transport and of the two         *)
(* callbacks keeps the types.                                               *)
LEMMA StartTypeStep == StartTypeOK /\ [StartNext]_startVars => StartTypeOK'
<1> SUFFICES ASSUME StartTypeOK, [StartNext]_startVars PROVE StartTypeOK'
  OBVIOUS
<1> USE DEF StartTypeOK, Phases, HookStates, contextVars, Abort, Cancel, Stopped, Triggered,
            Return
<1>1. CASE UNCHANGED startVars
  BY <1>1 DEF startVars
<1>2. CASE StartupExpires \/ LifecycleEnds
  BY <1>2 DEF StartupExpires, LifecycleEnds
<1>3. CASE RunStartupHook
  BY <1>3 DEF RunStartupHook, CancelStartup
<1>4. CASE RunLifecycleHook
  BY <1>4 DEF RunLifecycleHook
<1>5. CASE Create
  BY <1>5 DEF Create
<1>6. CASE ClassifyStartFailure
  BY <1>6 DEF ClassifyStartFailure
<1>7. CASE CheckStartup
  BY <1>7 DEF CheckStartup
<1>8. CASE Detach
  BY <1>8 DEF Detach
<1>9. CASE StopStartup
  BY <1>9 DEF StopStartup
<1>10. CASE ClassifyInitFailure
  BY <1>10 DEF ClassifyInitFailure
<1>11. CASE StartSucceeds
  BY <1>11 DEF StartSucceeds
<1>12. CASE StartFails
  BY <1>12 DEF StartFails
<1>13. CASE InitializeSucceeds
  BY <1>13 DEF InitializeSucceeds
<1>14. CASE InitializeFails
  BY <1>14 DEF InitializeFails
<1> QED
  BY <1>1, <1>2, <1>3, <1>4, <1>5, <1>6, <1>7, <1>8, <1>9, <1>10, <1>11, <1>12, <1>13, <1>14
     DEF StartNext, Loader, Transport, StartTerminated

(* Every step of newProviderClient keeps the trace of causes.               *)
LEMMA StartInductiveStep == StartInductive /\ [StartNext]_startVars => StartInductive'
<1> SUFFICES ASSUME StartInductive, [StartNext]_startVars PROVE StartInductive'
  OBVIOUS
<1>0. StartTypeOK /\ StartTypeOK'
  BY StartTypeStep DEF StartInductive
<1> USE <1>0 DEF StartInductive, StartTypeOK, contextVars, Abort, Cancel, Stopped, Triggered,
                 Return
<1>1. CASE UNCHANGED startVars
  BY <1>1 DEF startVars
<1>2. CASE StartupExpires
  BY <1>2 DEF StartupExpires
<1>3. CASE LifecycleEnds
  BY <1>3 DEF LifecycleEnds
<1>4. CASE RunStartupHook
  BY <1>4 DEF RunStartupHook, CancelStartup
<1>5. CASE RunLifecycleHook
  BY <1>5 DEF RunLifecycleHook
<1>6. CASE Create
  BY <1>6 DEF Create
<1>7. CASE ClassifyStartFailure
  BY <1>7 DEF ClassifyStartFailure
<1>8. CASE CheckStartup
  BY <1>8 DEF CheckStartup
<1>9. CASE Detach
  BY <1>9 DEF Detach
<1>10. CASE StopStartup
  BY <1>10 DEF StopStartup
<1>11. CASE ClassifyInitFailure
  BY <1>11 DEF ClassifyInitFailure
<1>12. CASE StartSucceeds
  BY <1>12 DEF StartSucceeds
<1>13. CASE StartFails
  BY <1>13 DEF StartFails
<1>14. CASE InitializeSucceeds
  BY <1>14 DEF InitializeSucceeds
<1>15. CASE InitializeFails
  BY <1>15 DEF InitializeFails
<1> QED
  BY <1>1, <1>2, <1>3, <1>4, <1>5, <1>6, <1>7, <1>8, <1>9, <1>10, <1>11, <1>12, <1>13, <1>14,
     <1>15 DEF StartNext, Loader, Transport, StartTerminated

(* The trace of causes holds throughout a start.                            *)
LEMMA StartInductiveInvariant == StartSpec => []StartInductive
<1>0. 0 \in Nat
  OBVIOUS
<1>1. StartInit => StartTypeOK
  BY <1>0, Zenon DEF StartInit, StartTypeOK, Phases, HookStates
<1>2. StartInit => StartInductive
  BY <1>1 DEF StartInit, StartInductive
<1> QED
  BY <1>2, StartInductiveStep, PTL DEF StartSpec

(* The variables of newProviderClient and its start context keep their      *)
(* types.                                                                   *)
THEOREM StartTypesHold == StartSpec => []StartTypeOK
<1>1. StartInductive => StartTypeOK
  BY DEF StartInductive
<1> QED
  BY <1>1, StartInductiveInvariant, PTL

(* A client that newProviderClient returned keeps a live start context      *)
(* until the registry closes, whenever the invocation ends and its callback *)
(* runs.                                                                    *)
THEOREM EstablishedOutlivesRequestHolds == StartSpec => []EstablishedOutlivesRequest
<1>1. StartInductive => EstablishedOutlivesRequest
  BY DEF StartInductive, StartTypeOK, EstablishedOutlivesRequest
<1> QED
  BY <1>1, StartInductiveInvariant, PTL

(* A start that failed leaves no open child and no live context, blames the *)
(* invocation only if it ended and not for the provider's own answer to     *)
(* Initialize, and closes done at most once.                                *)
THEOREM FailsCleanlyHolds == StartSpec => []FailsCleanly
<1>1. StartInductive => FailsCleanly
  BY DEF StartInductive, StartTypeOK, FailsCleanly
<1> QED
  BY <1>1, StartInductiveInvariant, PTL
===============================================================================
