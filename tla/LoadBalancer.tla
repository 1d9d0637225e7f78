---------------------------- MODULE LoadBalancer ----------------------------
(***************************************************************************)
(* The life of a service's load balancer: the four handlers of             *)
(* pkg/cloudscale_ccm/loadbalancer.go, the reconcile loop they run and the *)
(* lookup of the balancer, called by the two workers of the Kubernetes     *)
(* service controller (the service queue and the node sync), against the   *)
(* cloudscale.ch API and the Kubernetes API server.                        *)
(*                                                                         *)
(* What is inside a balancer (pools, members, listeners, monitors) is one  *)
(* number here, the configuration it was last reconciled to; module        *)
(* Reconcile opens it up.                                                  *)
(***************************************************************************)
EXTENDS Naturals, FiniteSets

CONSTANTS
    Services,       \* the services, by UID
    Uuids,          \* the load balancers the cloud can hand out, by UUID
    Names,          \* load balancer names
    DefaultName,    \* DefaultName[s]: "k8s-service-<UID>"
    CustomNames,    \* names users may put in the loadbalancer-name annotation
    EarlyRename,    \* are services renamed before they have a UUID annotation?
    NodeSync,       \* do nodes change, so that UpdateLoadBalancer is called?
    LookupFaults,   \* may LoadBalancers.Get and LoadBalancers.List fail?
    MaxFaults,      \* bound on failing API calls
    MaxCrashes,     \* bound on crashes of the controller manager
    MaxConfig,      \* bound on the configurations a user writes
    MaxToggles,     \* bound on changes of spec.type
    None            \* no UUID, no thread, no name, no service

ASSUME NamesAssumption ==
    /\ DefaultName \in [Services -> Names]
    /\ \A s1, s2 \in Services : DefaultName[s1] = DefaultName[s2] => s1 = s2
    /\ CustomNames \subseteq Names

ASSUME BoundsAssumption ==
    /\ MaxFaults \in Nat /\ MaxCrashes \in Nat
    /\ MaxConfig \in Nat \ {0} /\ MaxToggles \in Nat
    /\ EarlyRename \in BOOLEAN /\ NodeSync \in BOOLEAN /\ LookupFaults \in BOOLEAN

\* The two workers that call into the provider for a service.  The service
\* queue never processes one key twice at a time, and there is one node sync.
Threads == Services \X {"service", "node"}

ASSUME NoneAssumption == None \notin Uuids \cup Threads \cup Services \cup Names

-----------------------------------------------------------------------------
VARIABLES
    api,       \* api[s]: the service object in the API server
    cache,     \* cache[s]: the informer's copy of it
    queued,    \* queued[s]: its key is in the service queue
    known,     \* known[s]: it is in the controller's own service cache
    lb,        \* lb[u]: the load balancers of cloudscale.ch
    lock,      \* lock[s]: the holder of the service's mutex (muMap)
    pc,        \* pc[t]: where the worker is
    snap,      \* snap[t]: the *v1.Service the handler was called with
    seen,      \* seen[t]: the balancer found by the last actualLbState
    faults, crashes, toggles   \* how much of each bound is used up

k8sVars   == <<api, cache, queued, known>>
localVars == <<lock, pc, snap, seen>>
bounds    == <<faults, crashes, toggles>>
vars      == <<api, cache, queued, known, lb, lock, pc, snap, seen,
               faults, crashes, toggles>>

Phases == {"absent", "wanted", "unwanted", "deleting", "gone"}

\* What a handler reads of a *v1.Service.  "unwanted" is a service whose type
\* is no longer LoadBalancer, "deleting" one with a deletion timestamp.
ServiceObject == [phase : Phases, finalizer : BOOLEAN, name : Names,
                  uuid : Uuids \cup {None}, config : 0..MaxConfig]

LoadBalancers == [status : {"unused", "changing", "running", "deleted"},
                  name : Names \cup {None}, owner : Services \cup {None},
                  config : 0..MaxConfig]

Unused == [status |-> "unused", name |-> None, owner |-> None, config |-> 0]

PCs == {"idle", "get", "lock", "fetch", "create", "delete", "apply",
        "final", "annotate", "finalizer"}

\* The steps between mu.Lock() and the deferred unlock.
Critical == {"fetch", "create", "delete", "apply", "final", "annotate"}

TypeOK ==
    /\ api \in [Services -> ServiceObject]
    /\ cache \in [Services -> ServiceObject]
    /\ queued \in [Services -> BOOLEAN]
    /\ known \in [Services -> BOOLEAN]
    /\ lb \in [Uuids -> LoadBalancers]
    /\ lock \in [Services -> Threads \cup {None}]
    /\ pc \in [Threads -> PCs]
    /\ snap \in [Threads -> ServiceObject]
    /\ seen \in [Threads -> Uuids \cup {None}]
    /\ faults \in 0..MaxFaults
    /\ crashes \in 0..MaxCrashes
    /\ toggles \in 0..MaxToggles

Absent(s) == [phase |-> "absent", finalizer |-> FALSE, name |-> DefaultName[s],
              uuid |-> None, config |-> 0]

Init ==
    /\ api = [s \in Services |-> Absent(s)]
    /\ cache = [s \in Services |-> Absent(s)]
    /\ queued = [s \in Services |-> FALSE]
    /\ known = [s \in Services |-> FALSE]
    /\ lb = [u \in Uuids |-> Unused]
    /\ lock = [s \in Services |-> None]
    /\ pc = [t \in Threads |-> "idle"]
    /\ snap = [t \in Threads |-> Absent(t[1])]
    /\ seen = [t \in Threads |-> None]
    /\ faults = 0 /\ crashes = 0 /\ toggles = 0

-----------------------------------------------------------------------------
(* Looking up a balancer: lb_mapper.go and limiter.go.                      *)

Live(u) == lb[u].status \in {"changing", "running"}

\* The balancers that exist for a service, whoever looks.
Owned(s) == {u \in Uuids : Live(u) /\ lb[u].owner = s}

\* A limiter wraps an answer of the API: an error, or the elements found.
New(err, elements) == [error |-> err, elements |-> elements]

getByUUID(u, fails) ==
    IF fails THEN New(TRUE, {}) ELSE New(FALSE, {v \in {u} : Live(v)})

\* Variant: balancers that are still being built are not matched.
findByName_Running(n, fails) ==
    IF fails THEN New(TRUE, {})
    ELSE New(FALSE, {u \in Uuids : lb[u].status = "running" /\ lb[u].name = n})

\* Variant: the name is not compared.
findByName_Any(n, fails) ==
    IF fails THEN New(TRUE, {}) ELSE New(FALSE, {u \in Uuids : Live(u)})

findByName(n, fails) ==
    IF fails THEN New(TRUE, {}) ELSE New(FALSE, {u \in Uuids : Live(u) /\ lb[u].name = n})

\* One turn of Join's loop on the error: it is replaced when there is one
\* already.
JoinError(joined, err) == IF joined /\ err THEN err ELSE joined

\* Join(..).Unique(..): the elements are told apart by UUID.
Join(l1, l2) ==
    New(JoinError(JoinError(FALSE, l1.error), l2.error), l1.elements \cup l2.elements)

\* Variant: the UUID is not used.
findByServiceInfo_Name(svc, getFails, listFails) == findByName(svc.name, listFails)

findByServiceInfo(svc, getFails, listFails) ==
    IF svc.uuid # None
    THEN Join(getByUUID(svc.uuid, getFails), findByName(svc.name, listFails))
    ELSE findByName(svc.name, listFails)

\* AtMostOne returns an error, nil, or the one element.
Errs(l) == l.error \/ \E u, v \in l.elements : u # v
AtMostOne(l) == IF l.elements = {} THEN None ELSE CHOOSE u \in l.elements : TRUE

LookupOutcomes == IF LookupFaults THEN BOOLEAN ELSE {FALSE}

\* How many API calls of a lookup fail; without a UUID there is no Get.
FaultsOf(svc, getFails, listFails) ==
    (IF getFails /\ svc.uuid # None THEN 1 ELSE 0) + (IF listFails THEN 1 ELSE 0)

\* The lookup of worker t fails in so many calls, within the bound.
ChargeLookup(t, getFails, listFails) ==
    /\ faults + FaultsOf(snap[t], getFails, listFails) <= MaxFaults
    /\ faults' = faults + FaultsOf(snap[t], getFails, listFails)

-----------------------------------------------------------------------------
(* Leaving a handler.                                                       *)

\* Variant: a return before a balancer was found forgets to unlock.
Return_Locked(t, next) ==
    /\ pc' = [pc EXCEPT ![t] = next]
    /\ lock' = [lock EXCEPT ![t[1]] = IF @ = t /\ seen[t] # None THEN None ELSE @]
    /\ seen' = [seen EXCEPT ![t] = None]
    /\ snap' = [snap EXCEPT ![t] = IF t[2] = "node" THEN Absent(t[1]) ELSE @]

\* A return runs the deferred unlock; the service queue then goes on with
\* the finalizer or is idle.  The node sync forgets its copy of the service,
\* the service queue keeps it (cachedService.state).
Return(t, next) ==
    /\ pc' = [pc EXCEPT ![t] = next]
    /\ lock' = [lock EXCEPT ![t[1]] = IF @ = t THEN None ELSE @]
    /\ seen' = [seen EXCEPT ![t] = None]
    /\ snap' = [snap EXCEPT ![t] = IF t[2] = "node" THEN Absent(t[1]) ELSE @]

\* A returned error puts the key back into the service queue.  After a failed
\* node sync the controller does so only if GetLoadBalancer still finds the
\* balancer.
Fail(t) ==
    /\ Return(t, "idle")
    /\ \E again \in BOOLEAN :
          /\ t[2] = "service" => again
          /\ queued' = [queued EXCEPT ![t[1]] = @ \/ again]

Goto(t, next) ==
    /\ pc' = [pc EXCEPT ![t] = next]
    /\ UNCHANGED <<lock, snap, queued>>

\* The service queue called with a service that shall have no balancer.
Deletes(t) == t[2] = "service" /\ snap[t].phase \in {"unwanted", "deleting"}

\* The effect of removing the finalizer, if the copy of the service has it: a
\* service marked for deletion is gone then.
WithoutFinalizer(svc) ==
    [svc EXCEPT !.finalizer = FALSE,
                !.phase = IF svc.phase = "deleting" THEN "gone" ELSE svc.phase]

RemoveFinalizer(t) ==
    api' = IF snap[t].finalizer
           THEN [api EXCEPT ![t[1]] = WithoutFinalizer(@)]
           ELSE api

\* A new process: no handler runs, no lock is held, the informer lists all
\* services and queues them.
Restart ==
    /\ pc' = [t \in Threads |-> "idle"]
    /\ lock' = [s \in Services |-> None]
    /\ snap' = [t \in Threads |-> Absent(t[1])]
    /\ seen' = [t \in Threads |-> None]
    /\ cache' = api
    /\ queued' = [s \in Services |-> TRUE]
    /\ known' = [s \in Services |-> FALSE]

-----------------------------------------------------------------------------
(* The handlers.                                                            *)

\* Variant: the balancer is looked up by UUID only.
GetLoadBalancer_Uuid(t) ==
    /\ pc[t] = "get"
    /\ LET u == snap[t].uuid IN
       Goto(t, IF u = None THEN "finalizer" ELSE IF Live(u) THEN "lock" ELSE "finalizer")
    /\ UNCHANGED <<api, cache, known, lb, seen, bounds>>

\* GetLoadBalancer, asked by the service queue before a deletion.  It does
\* not take the lock.
GetLoadBalancer(t) ==
    /\ pc[t] = "get"
    /\ \E getFails, listFails \in LookupOutcomes :
         LET found == findByServiceInfo(snap[t], getFails, listFails) IN
         /\ ChargeLookup(t, getFails, listFails)
         /\ \/ Errs(found) /\ Fail(t)
            \/ /\ ~Errs(found)
               /\ Goto(t, IF AtMostOne(found) = None THEN "finalizer" ELSE "lock")
               /\ UNCHANGED seen
    /\ UNCHANGED <<api, cache, known, lb, crashes, toggles>>

\* Variant: each call gets a mutex of its own.
lockForService_Own(t) ==
    /\ pc[t] = "lock"
    /\ lock' = [lock EXCEPT ![t[1]] = t]
    /\ pc' = [pc EXCEPT ![t] = "fetch"]
    /\ UNCHANGED <<api, cache, queued, known, lb, snap, seen, bounds>>

\* EnsureLoadBalancer, UpdateLoadBalancer and EnsureLoadBalancerDeleted begin
\* with the service's mutex.
lockForService(t) ==
    /\ pc[t] = "lock"
    /\ lock[t[1]] = None
    /\ lock' = [lock EXCEPT ![t[1]] = t]
    /\ pc' = [pc EXCEPT ![t] = "fetch"]
    /\ UNCHANGED <<api, cache, queued, known, lb, snap, seen, bounds>>

\* Variant: a balancer that is not configured as wanted is recreated.
nextLbActions_Recreate(t, u) ==
    CASE u = None                  -> "create"
      [] u # None /\ lb[u].status = "changing" -> "fetch"
      [] u # None /\ lb[u].status # "changing" ->
             IF Deletes(t) \/ lb[u].config # snap[t].config THEN "delete" ELSE "apply"

\* What nextLbActions plans first for the balancer it is given: create it,
\* look again while it is changing (AwaitLb), delete it, or change it.
nextLbActions(t, u) ==
    CASE u = None                  -> "create"
      [] u # None /\ lb[u].status = "changing" -> "fetch"
      [] u # None /\ lb[u].status # "changing" ->
             IF Deletes(t) THEN "delete" ELSE "apply"

\* A turn of reconcileLbState: the states are fetched and the plan is made.
\* With nothing to delete EnsureLoadBalancerDeleted is done.
reconcileLbState(t) ==
    /\ pc[t] = "fetch"
    /\ \E getFails, listFails \in LookupOutcomes :
         LET found == findByServiceInfo(snap[t], getFails, listFails)
             u     == AtMostOne(found)
         IN
         /\ ChargeLookup(t, getFails, listFails)
         /\ \/ Errs(found) /\ Fail(t)
            \/ /\ ~Errs(found) /\ u = None /\ Deletes(t)
               /\ Return(t, "finalizer")
               /\ UNCHANGED queued
            \/ /\ ~Errs(found) /\ ~(u = None /\ Deletes(t))
               /\ Goto(t, nextLbActions(t, u))
               /\ seen' = [seen EXCEPT ![t] = u]
    /\ UNCHANGED <<api, cache, known, lb, crashes, toggles>>

\* The effect of CreateLbAction at cloudscale.ch: a new balancer, being built.
CreateLb(t, u) ==
    /\ lb[u].status = "unused"
    /\ lb' = [lb EXCEPT ![u] = [status |-> "changing", name |-> snap[t].name,
                                owner |-> t[1], config |-> 0]]

\* CreateLb, Refetch.
RunCreateLb(t) ==
    /\ pc[t] = "create"
    /\ \E u \in Uuids : CreateLb(t, u)
    /\ Goto(t, "fetch")
    /\ UNCHANGED <<api, cache, known, seen, bounds>>

\* Variant: the balancer stays if it has a configuration.
DeleteLb_Forgets(t) ==
    lb' = IF lb[seen[t]].config > 0 THEN lb
          ELSE [lb EXCEPT ![seen[t]].status = "deleted"]

\* The effect of DeleteResourceAction on a balancer: gone with all it holds.
DeleteLb(t) ==
    lb' = [lb EXCEPT ![seen[t]] = [@ EXCEPT !.status = "deleted", !.name = None,
                                            !.config = 0]]

\* AwaitLb, DeleteResource: the end of EnsureLoadBalancerDeleted.  Deleting
\* what is already gone is an error.
RunDeleteLb(t) ==
    /\ pc[t] = "delete"
    /\ IF Live(seen[t])
       THEN DeleteLb(t) /\ Return(t, "finalizer") /\ UNCHANGED queued
       ELSE Fail(t) /\ UNCHANGED lb
    /\ UNCHANGED <<api, cache, known, bounds>>

\* The effect of RenameLbAction.
RenameLb(t) == lb' = [lb EXCEPT ![seen[t]].name = snap[t].name]

\* Variant: the name is left alone.
ApplyConfig_NoRename(t, status) ==
    lb' = [lb EXCEPT ![seen[t]] = [@ EXCEPT !.status = status, !.config = snap[t].config]]

\* The effect of a whole plan, which may leave the balancer changing for a
\* while.
ApplyConfig(t, status) ==
    lb' = [lb EXCEPT ![seen[t]] = [@ EXCEPT !.name = snap[t].name, !.status = status,
                                            !.config = snap[t].config]]

\* The rest of the plan, up to a state that needs no action.
\* UpdateLoadBalancer returns here, EnsureLoadBalancer reads the final state.
RunApply(t) ==
    /\ pc[t] = "apply"
    /\ IF Live(seen[t])
       THEN /\ \E status \in {"running", "changing"} : ApplyConfig(t, status)
            /\ \/ t[2] = "node" /\ Return(t, "idle")
               \/ /\ t[2] = "service"
                  /\ pc' = [pc EXCEPT ![t] = "final"]
                  /\ UNCHANGED <<lock, snap, seen>>
            /\ UNCHANGED queued
       ELSE Fail(t) /\ UNCHANGED lb
    /\ UNCHANGED <<api, cache, known, bounds>>

\* Variant: the final state is that of the annotated UUID.
FinalState_Uuid(t) ==
    /\ pc[t] = "final"
    /\ Goto(t, "annotate")
    /\ seen' = [seen EXCEPT ![t] = snap[t].uuid]
    /\ UNCHANGED <<api, cache, known, lb, bounds>>

\* EnsureLoadBalancer gets the final state to show the status.
FinalState(t) ==
    /\ pc[t] = "final"
    /\ \E getFails, listFails \in LookupOutcomes :
         LET found == findByServiceInfo(snap[t], getFails, listFails) IN
         /\ ChargeLookup(t, getFails, listFails)
         /\ \/ Errs(found) /\ Fail(t)
            \/ /\ ~Errs(found)
               /\ Goto(t, "annotate")
               /\ seen' = [seen EXCEPT ![t] = AtMostOne(found)]
    /\ UNCHANGED <<api, cache, known, lb, crashes, toggles>>

\* Variant: the name of the balancer is stored as its UUID.
AnnotateService_Name(t) ==
    api' = [api EXCEPT ![t[1]].uuid = lb[seen[t]].name]

\* Variant: all annotations are replaced by those that differ.
AnnotateService_Replace(t) ==
    api' = [api EXCEPT ![t[1]].uuid = IF snap[t].uuid = seen[t] THEN None ELSE seen[t]]

\* The effect of AnnotateService: a JSON patch of the annotations that differ
\* from those of the handler's copy of the service.  A copy with neither name
\* nor UUID may have no annotations at all; they are first replaced by none
\* then, and a name that was set meanwhile is lost.
AnnotateService(t) ==
    \/ snap[t].uuid = seen[t] /\ api' = api
    \/ snap[t].uuid # seen[t] /\ api' = [api EXCEPT ![t[1]].uuid = seen[t]]
    \/ /\ snap[t].uuid = None /\ snap[t].name = DefaultName[t[1]]
       /\ api' = [api EXCEPT ![t[1]] = [@ EXCEPT !.uuid = seen[t], !.name = DefaultName[t[1]]]]

\* There is something to patch, but the service is not there any more.
PatchErrs(t) == snap[t].uuid # seen[t] /\ api[t[1]].phase = "gone"

\* The end of EnsureLoadBalancer.
RunAnnotate(t) ==
    /\ pc[t] = "annotate"
    /\ seen[t] # None
    /\ \/ PatchErrs(t) /\ Fail(t) /\ UNCHANGED api
       \/ ~PatchErrs(t) /\ AnnotateService(t) /\ Return(t, "idle") /\ UNCHANGED queued
    /\ UNCHANGED <<cache, known, lb, bounds>>

\* EnsureLoadBalancer reads actual.lb.UUID of a final state without a
\* balancer: the process panics on a nil pointer and is started again.
RunPanic(t) ==
    /\ pc[t] = "annotate"
    /\ seen[t] = None
    /\ Restart
    /\ UNCHANGED <<api, lb, bounds>>

-----------------------------------------------------------------------------
(* Failing calls.  Every one of them ends the handler with an error.        *)

Charge == faults < MaxFaults /\ faults' = faults + 1

\* A call fails with no effect: validating the configuration, mapping the
\* nodes, reading the balancer's contents or any write.
CallFails(t) ==
    /\ pc[t] \in Critical \cup {"get", "finalizer"}
    /\ Charge
    /\ Fail(t)
    /\ UNCHANGED <<api, cache, known, lb, crashes, toggles>>

\* A write takes effect but its answer is lost (a timeout, a cancelled
\* context), or a later write of the same plan fails.
AnswerLost(t) ==
    /\ Charge
    /\ \/ /\ pc[t] = "create"
          /\ \E u \in Uuids : CreateLb(t, u)
          /\ UNCHANGED api
       \/ pc[t] = "delete" /\ Live(seen[t]) /\ DeleteLb(t) /\ UNCHANGED api
       \/ pc[t] = "apply" /\ Live(seen[t]) /\ RenameLb(t) /\ UNCHANGED api
       \/ /\ pc[t] = "annotate" /\ seen[t] # None /\ ~PatchErrs(t)
          /\ AnnotateService(t) /\ UNCHANGED lb
       \/ pc[t] = "finalizer" /\ RemoveFinalizer(t) /\ UNCHANGED lb
    /\ Fail(t)
    /\ UNCHANGED <<cache, known, crashes, toggles>>

-----------------------------------------------------------------------------
(* The Kubernetes service controller (k8s.io/cloud-provider), external.     *)

\* The informer delivers the current service and queues its key.
Informer(s) ==
    /\ cache[s] # api[s]
    /\ cache' = [cache EXCEPT ![s] = api[s]]
    /\ queued' = [queued EXCEPT ![s] = TRUE]
    /\ UNCHANGED <<api, known, lb, localVars, bounds>>

\* The service queue takes a key and reads the informer's copy.  It adds the
\* finalizer before EnsureLoadBalancer, which fails for a service that is
\* gone, and asks GetLoadBalancer before EnsureLoadBalancerDeleted.  A service
\* that is gone but still in its own cache is deleted without asking.
SyncService(s) ==
    LET t == <<s, "service">> IN
    /\ queued[s] /\ pc[t] = "idle"
    /\ \/ /\ cache[s].phase \in {"absent", "gone"} /\ ~known[s]
          /\ queued' = [queued EXCEPT ![s] = FALSE]
          /\ UNCHANGED <<api, known, pc, snap>>
       \/ /\ cache[s].phase \in {"absent", "gone"} /\ known[s]
          /\ snap' = [snap EXCEPT ![t] = [@ EXCEPT !.phase = "deleting", !.finalizer = FALSE]]
          /\ pc' = [pc EXCEPT ![t] = "lock"]
          /\ queued' = [queued EXCEPT ![s] = FALSE]
          /\ UNCHANGED <<api, known>>
       \/ /\ cache[s].phase = "wanted"
          /\ ~cache[s].finalizer /\ api[s].phase = "gone"
          /\ known' = [known EXCEPT ![s] = TRUE]
          /\ snap' = [snap EXCEPT ![t] = cache[s]]
          /\ UNCHANGED <<api, pc, queued>>
       \/ /\ cache[s].phase = "wanted"
          /\ cache[s].finalizer \/ api[s].phase # "gone"
          /\ api' = [api EXCEPT ![s].finalizer = @ \/ ~cache[s].finalizer]
          /\ known' = [known EXCEPT ![s] = TRUE]
          /\ snap' = [snap EXCEPT ![t] = cache[s]]
          /\ pc' = [pc EXCEPT ![t] = "lock"]
          /\ queued' = [queued EXCEPT ![s] = FALSE]
       \/ /\ cache[s].phase \in {"unwanted", "deleting"}
          /\ known' = [known EXCEPT ![s] = TRUE]
          /\ snap' = [snap EXCEPT ![t] = cache[s]]
          /\ pc' = [pc EXCEPT ![t] = "get"]
          /\ queued' = [queued EXCEPT ![s] = FALSE]
          /\ UNCHANGED api
    /\ UNCHANGED <<cache, lb, lock, seen, bounds>>

\* Nodes changed: the node sync calls UpdateLoadBalancer with the service the
\* service queue last worked on, if its type is LoadBalancer.
SyncNodes(s) ==
    LET t == <<s, "node">> IN
    /\ NodeSync
    /\ known[s] /\ pc[t] = "idle"
    /\ snap[<<s, "service">>].phase \in {"wanted", "deleting"}
    /\ snap' = [snap EXCEPT ![t] = snap[<<s, "service">>]]
    /\ pc' = [pc EXCEPT ![t] = "lock"]
    /\ UNCHANGED <<k8sVars, lb, lock, seen, bounds>>

\* After the deletion the service queue removes the finalizer and drops the
\* service from its cache.
RunFinalizer(t) ==
    /\ pc[t] = "finalizer"
    /\ RemoveFinalizer(t)
    /\ known' = [known EXCEPT ![t[1]] = FALSE]
    /\ Return(t, "idle")
    /\ UNCHANGED <<cache, queued, lb, bounds>>

Crash ==
    /\ crashes < MaxCrashes
    /\ crashes' = crashes + 1
    /\ Restart
    /\ UNCHANGED <<api, lb, faults, toggles>>

-----------------------------------------------------------------------------
(* The cloud and the users, external.                                       *)

Provision(u) ==
    /\ lb[u].status = "changing"
    /\ lb' = [lb EXCEPT ![u].status = "running"]
    /\ UNCHANGED <<k8sVars, localVars, bounds>>

CreateService(s) ==
    /\ api[s].phase = "absent"
    /\ api' = [api EXCEPT ![s] = [@ EXCEPT !.phase = "wanted", !.config = 1]]
    /\ UNCHANGED <<cache, queued, known, lb, localVars, bounds>>

EditConfig(s) ==
    /\ api[s].phase = "wanted"
    /\ api[s].config < MaxConfig
    /\ api' = [api EXCEPT ![s].config = @ + 1]
    /\ UNCHANGED <<cache, queued, known, lb, localVars, bounds>>

EditName(s) ==
    /\ api[s].phase = "wanted"
    /\ EarlyRename \/ api[s].uuid # None
    /\ \E n \in CustomNames \ {api[s].name} : api' = [api EXCEPT ![s].name = n]
    /\ UNCHANGED <<cache, queued, known, lb, localVars, bounds>>

\* spec.type leaves LoadBalancer, or comes back.
EditType(s) ==
    /\ toggles < MaxToggles
    /\ toggles' = toggles + 1
    /\ \/ api[s].phase = "wanted"   /\ api' = [api EXCEPT ![s].phase = "unwanted"]
       \/ api[s].phase = "unwanted" /\ api' = [api EXCEPT ![s].phase = "wanted"]
    /\ UNCHANGED <<cache, queued, known, lb, localVars, faults, crashes>>

DeleteService(s) ==
    /\ api[s].phase \in {"wanted", "unwanted"}
    /\ api' = [api EXCEPT ![s].phase = IF api[s].finalizer THEN "deleting" ELSE "gone"]
    /\ UNCHANGED <<cache, queued, known, lb, localVars, bounds>>

-----------------------------------------------------------------------------
\* What the worker does by itself, failures left out.
Step(t) ==
    \/ GetLoadBalancer(t) \/ reconcileLbState(t) \/ RunCreateLb(t)
    \/ RunDeleteLb(t) \/ RunApply(t) \/ FinalState(t) \/ RunAnnotate(t)
    \/ RunPanic(t) \/ RunFinalizer(t)

Next ==
    \/ \E t \in Threads : Step(t) \/ lockForService(t) \/ CallFails(t) \/ AnswerLost(t)
    \/ \E s \in Services :
          \/ Informer(s) \/ SyncService(s) \/ SyncNodes(s)
          \/ CreateService(s) \/ EditConfig(s) \/ EditName(s) \/ EditType(s)
          \/ DeleteService(s)
    \/ \E u \in Uuids : Provision(u)
    \/ Crash

\* Workers run, the informer delivers, queued keys are processed and changing
\* balancers settle.  A Go mutex hands itself to a starving waiter, so a
\* worker that waits for a lock released again and again gets it.
Fairness ==
    /\ \A t \in Threads : WF_vars(Step(t)) /\ SF_vars(lockForService(t))
    /\ \A s \in Services : WF_vars(Informer(s)) /\ WF_vars(SyncService(s))
    /\ \A u \in Uuids : WF_vars(Provision(u))

Spec == Init /\ [][Next]_vars

FairSpec == Spec /\ Fairness

-----------------------------------------------------------------------------
(* The abstract specification.                                              *)

\* The balancer of each service, the balancers that were ever created, and the
\* services that shall have none in the eyes of the service queue.
HasBar == [s \in Services |-> AtMostOne(New(FALSE, Owned(s)))]
SpentBar == {u \in Uuids : lb[u].status # "unused"}
AskedBar == {s \in Services : Deletes(<<s, "service">>)}

OB == INSTANCE OneBalancer WITH has <- HasBar, spent <- SpentBar, asked <- AskedBar

-----------------------------------------------------------------------------
(* Properties.                                                              *)

\* The handlers of one service never overlap between mu.Lock() and the
\* deferred unlock, whatever return path each of them takes.
MutualExclusion ==
    \A s \in Services :
        ~(pc[<<s, "service">>] \in Critical /\ pc[<<s, "node">>] \in Critical)

\* EnsureLoadBalancer and UpdateLoadBalancer never create a second balancer
\* for a service: not when the answer to the first creation was lost, not
\* when the process crashed before the UUID was stored, and not when the two
\* workers meet.
AtMostOneLb ==
    \A u, v \in Uuids :
        Live(u) /\ Live(v) /\ lb[u].owner = lb[v].owner => u = v

\* The UUID annotation of a service is that of a balancer that was created
\* for this service, never of another service's.
UuidOwned ==
    \A s \in Services : api[s].uuid # None => lb[api[s].uuid].owner = s

\* A service that is gone leaves no balancer behind, which nobody would ever
\* delete: the finalizer is removed only after EnsureLoadBalancerDeleted.
NoOrphan == \A s \in Services : api[s].phase = "gone" => Owned(s) = {}

\* EnsureLoadBalancer always has a balancer to annotate the service with when
\* it dereferences actual.lb.
NoPanic == \A t \in Threads : pc[t] = "annotate" => seen[t] # None

\* A balancer disappears, and its address with it, only while the service
\* queue deletes on behalf of the very service it was created for.
DeletedByOwner ==
    [][\A u \in Uuids :
          Live(u) /\ lb'[u].status = "deleted" =>
              /\ pc[<<lb[u].owner, "service">>] = "delete"
              /\ snap[<<lb[u].owner, "service">>].phase \in {"unwanted", "deleting"}]_vars

\* A failing API call ends the handler with an error, the lookup's calls
\* included ("Keep the first error", Join).
FirstErrorKept ==
    [][faults' > faults => \A t \in Threads : pc'[t] # pc[t] => pc'[t] = "idle"]_vars

\* While the balancer named by the UUID annotation exists, no handler points
\* the annotation at another one.
UuidStable ==
    [][\A s \in Services, u \in Uuids :
          api[s].uuid = u /\ Live(u) /\ Live(u)' => api'[s].uuid = u]_vars

\* The handlers keep the promise of OneBalancer: whatever is called, fails or
\* crashes, a service gets a balancer only if it has none, each one is new,
\* and none is lost before EnsureLoadBalancerDeleted is called for its service.
OneBalancerSpec == OB!Spec

\* A service that stays of type LoadBalancer ends up with one balancer, which
\* its annotation names and which has the latest name and configuration.
Converges ==
    \A s \in Services :
        <>[](api[s].phase = "wanted") =>
            <>[](\E u \in Uuids :
                    /\ Owned(s) = {u} /\ api[s].uuid = u
                    /\ lb[u].name = api[s].name /\ lb[u].config = api[s].config)

\* A service that is deleted, or is no longer of type LoadBalancer, ends up
\* without a balancer, and a deleted one goes away.
CleansUp ==
    \A s \in Services :
        /\ api[s].phase = "deleting" ~> api[s].phase = "gone"
        /\ <>[](api[s].phase \in {"unwanted", "gone"}) => <>[](Owned(s) = {})

\* A worker that waits for the service's lock gets it: every return path of
\* the handlers unlocks.
LockServed ==
    \A t \in Threads : pc[t] = "lock" ~> pc[t] # "lock"
=============================================================================
