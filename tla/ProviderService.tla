---------------------------- MODULE ProviderService ----------------------------
(***************************************************************************)
(* What the lazy provider registry of internal/hierarchy/hierarchy.go       *)
(* promises its callers, without locks, load tables or mutexes.  Each       *)
(* provider is started on demand by one caller at a time, has at most one   *)
(* process, is called by one caller at a time until the registry is shut    *)
(* down, and is stopped for good afterwards.  Module ProviderRegistry       *)
(* implements it.                                                           *)
(***************************************************************************)
EXTENDS Naturals

CONSTANTS Callers,    (* those who may call a provider, and start one       *)
          Providers   (* the server names                                   *)

VARIABLES shut,       (* the registry has been closed                       *)
          phase,      (* provider -> where it is in its life                *)
          running,    (* provider -> its processes, named by their starters *)
          calling     (* provider -> the callers inside a call              *)

vars == <<shut, phase, running, calling>>

Phases == {"absent", "starting", "up", "stopping", "down"}

Init ==
  /\ shut = FALSE
  /\ phase = [p \in Providers |-> "absent"]
  /\ running = [p \in Providers |-> {}]
  /\ calling = [p \in Providers |-> {}]

(* The first caller begins a start; nobody does once the registry is shut.  *)
BeginStart(p) ==
  /\ ~shut
  /\ phase[p] = "absent"
  /\ phase' = [phase EXCEPT ![p] = "starting"]
  /\ UNCHANGED <<shut, running, calling>>

(* During a start the process comes up, and goes when the start fails.      *)
Open(p) ==
  /\ phase[p] = "starting"
  /\ running[p] = {}
  /\ \E c \in Callers : running' = [running EXCEPT ![p] = {c}]
  /\ UNCHANGED <<shut, phase, calling>>

CloseFailed(p) ==
  /\ phase[p] = "starting"
  /\ running' = [running EXCEPT ![p] = {}]
  /\ UNCHANGED <<shut, phase, calling>>

(* A start succeeds only before the shutdown, with a process running.       *)
Succeed(p) ==
  /\ ~shut
  /\ phase[p] = "starting"
  /\ running[p] # {}
  /\ phase' = [phase EXCEPT ![p] = "up"]
  /\ UNCHANGED <<shut, running, calling>>

(* A start that fails, or finds the registry shut, leaves no process; the   *)
(* provider can be started again unless the registry is shut.               *)
Fail(p) ==
  /\ phase[p] = "starting"
  /\ phase' = [phase EXCEPT ![p] = IF shut THEN "down" ELSE "absent"]
  /\ running' = [running EXCEPT ![p] = {}]
  /\ UNCHANGED <<shut, calling>>

(* Calls go to a provider that is up and not being called.  After the       *)
(* shutdown neither is promised: a caller that already has the provider     *)
(* calls it, whatever its process does.                                     *)
BeginCall(p, c) ==
  /\ ~shut => phase[p] = "up" /\ calling[p] = {}
  /\ calling' = [calling EXCEPT ![p] = @ \cup {c}]
  /\ UNCHANGED <<shut, phase, running>>

EndCall(p, c) ==
  /\ c \in calling[p]
  /\ calling' = [calling EXCEPT ![p] = @ \ {c}]
  /\ UNCHANGED <<shut, phase, running>>

(* The shutdown: providers that are up are to be stopped, those that were   *)
(* never started never will be, and a start under way is left to fail.      *)
Shutdown ==
  /\ ~shut
  /\ shut' = TRUE
  /\ phase' = [p \in Providers |->
                 CASE phase[p] = "up"     -> "stopping"
                   [] phase[p] = "absent" -> "down"
                   [] OTHER               -> phase[p]]
  /\ UNCHANGED <<running, calling>>

Stop(p) ==
  /\ phase[p] = "stopping"
  /\ phase' = [phase EXCEPT ![p] = "down"]
  /\ running' = [running EXCEPT ![p] = {}]
  /\ UNCHANGED <<shut, calling>>

Next ==
  \/ Shutdown
  \/ \E p \in Providers :
       \/ BeginStart(p) \/ Open(p) \/ CloseFailed(p) \/ Succeed(p) \/ Fail(p)
       \/ Stop(p)
       \/ \E c \in Callers : BeginCall(p, c) \/ EndCall(p, c)

Spec == Init /\ [][Next]_vars
===============================================================================
