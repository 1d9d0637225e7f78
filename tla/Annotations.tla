----------------------------- MODULE Annotations -----------------------------
(***************************************************************************)
(* What the handlers of pkg/cloudscale_ccm/loadbalancer.go do with the     *)
(* annotations of services: the check that no Floating IP is claimed by    *)
(* two services, the assignment of Floating IPs, the patch that stores the *)
(* UUID, and the status, which an unknown IP mode turns into an error.     *)
(*                                                                         *)
(* Users edit the annotations at any time; the handlers work with copies   *)
(* of a service, but check against the other services as they are.  The     *)
(* service queue calls with the informer's copy, the node sync with the    *)
(* copy the service queue last worked on, which may be of a service that   *)
(* is gone by now.  A service has one balancer or none, as module          *)
(* LoadBalancer shows.                                                     *)
(***************************************************************************)
EXTENDS Naturals

CONSTANTS
    Services,     \* the services, by UID
    Ips,          \* Floating IPs
    Annotated,    \* the services with some other annotation, as those that are
                  \* made with "kubectl apply" have
    Claiming,     \* the services that are created with all Floating IPs
    MaxEdits,     \* bound on what users do
    MaxEvents,    \* bound on failing calls and node syncs
    Bad,          \* the value of an annotation that cannot be used
    None          \* no annotation, no service

ASSUME BoundsAssumption ==
    /\ MaxEdits \in Nat /\ MaxEvents \in Nat
    /\ Annotated \subseteq Services /\ Claiming \subseteq Services

ASSUME ValuesAssumption ==
    /\ None \notin Services /\ None # Bad /\ "set" \notin {None, Bad}
    /\ \A ips \in SUBSET Ips : ips \notin {None, Bad}

VARIABLES
    api,         \* api[s]: the service in the API server
    cache,       \* cache[s]: the informer's copy of it
    queued,      \* queued[s]: its key is in the service queue
    known,       \* known[s]: it is in the service controller's own cache
    pc,          \* pc[t]: where the call of a worker is
    snap,        \* snap[t]: the *v1.Service the handler was called with; that
                 \* of the service queue stays in the controller's cache
    todo,        \* todo[t]: Floating IPs the plan has yet to assign
    lb,          \* lb[s]: is there a balancer for it at cloudscale.ch?
    holder,      \* holder[ip]: the service whose balancer a Floating IP points to
    withdrawn,   \* the claims to Floating IPs that were taken back (history)
    edits, events

bounds == <<edits, events>>
vars == <<api, cache, queued, known, pc, snap, todo, lb, holder, withdrawn, bounds>>

\* The service queue and the node sync each run one call for a service.
Threads == Services \X {"service", "node"}

ServiceObject ==
    [phase : {"wanted", "unwanted", "deleting", "gone"},
     ips   : {None, Bad} \cup SUBSET Ips,   \* loadbalancer-floating-ips
     mode  : {None, Bad},                   \* loadbalancer-ip-mode
     uuid  : {None, "set"}]                 \* what the CCM itself stores

PCs == {"idle", "get", "called", "checked", "assign", "finalizer"}

\* The values the variables take; a plan holds Floating IPs only after it was
\* made, and none is left over when the handler returns, on whatever path.
TypeOK ==
    /\ api \in [Services -> ServiceObject]
    /\ cache \in [Services -> ServiceObject]
    /\ queued \in [Services -> BOOLEAN]
    /\ known \in [Services -> BOOLEAN]
    /\ pc \in [Threads -> PCs]
    /\ snap \in [Threads -> ServiceObject]
    /\ todo \in [Threads -> SUBSET Ips]
    /\ \A t \in Threads : pc[t] # "assign" => todo[t] = {}
    /\ lb \in [Services -> BOOLEAN]
    /\ holder \in [Ips -> Services \cup {None}]
    /\ withdrawn \subseteq Services \X Ips
    /\ edits \in 0..MaxEdits
    /\ events \in 0..MaxEvents

-----------------------------------------------------------------------------
(* Reading annotations: service_info.go.                                    *)

\* service.Annotations == nil
NoAnnotations(s, svc) ==
    s \notin Annotated /\ svc.ips = None /\ svc.mode = None /\ svc.uuid = None

\* annotationList: no annotation is the empty list, and some text is no list.
Unparsable(svc) == svc.ips = Bad
annotationList(svc) == IF svc.ips \in {None, Bad} THEN {} ELSE svc.ips

\* loadBalancerStatus returns an error: the IP mode is unknown and no hostname
\* is forced, which would be returned before the IP mode is read.
StatusErrs(svc) == svc.mode = Bad

\* Variant: services that are being deleted do not count.
findIPsAssignedElsewhere_Deleting(t) ==
    {ip \in annotationList(snap[t]) :
        \E r \in Services \ {t[1]} :
            api[r].phase = "wanted" /\ ip \in annotationList(api[r])}

\* Variant: services whose annotation cannot be parsed count as conflicts.
findIPsAssignedElsewhere_Strict(t) ==
    {ip \in annotationList(snap[t]) :
        \E r \in Services \ {t[1]} :
            /\ api[r].phase \in {"wanted", "deleting"}
            /\ Unparsable(api[r]) \/ ip \in annotationList(api[r])}

\* The Floating IPs of the handler's copy that another service of type
\* LoadBalancer claims now.  Those that cannot be parsed are passed over.
findIPsAssignedElsewhere(t) ==
    {ip \in annotationList(snap[t]) :
        \E r \in Services \ {t[1]} :
            /\ api[r].phase \in {"wanted", "deleting"}
            /\ ip \in annotationList(api[r])}

ConfigErrs(t) == Unparsable(snap[t]) \/ findIPsAssignedElsewhere(t) # {}

-----------------------------------------------------------------------------
\* A service as it is created.
Fresh(ips) == [phase |-> "wanted", ips |-> ips, mode |-> None, uuid |-> None]

Init ==
    /\ api = [s \in Services |-> Fresh(IF s \in Claiming THEN Ips ELSE None)]
    /\ cache = api
    /\ queued = [s \in Services |-> TRUE]
    /\ known = [s \in Services |-> FALSE]
    /\ pc = [t \in Threads |-> "idle"]
    /\ snap = [t \in Threads |-> Fresh(None)]
    /\ todo = [t \in Threads |-> {}]
    /\ lb = [s \in Services |-> FALSE]
    /\ holder = [ip \in Ips |-> None]
    /\ withdrawn = {}
    /\ edits = 0 /\ events = 0

Goto(t, next) == pc' = [pc EXCEPT ![t] = next] /\ UNCHANGED <<queued, snap, todo>>

\* Variant: what is left of the plan is kept.
Return_Plan(t) ==
    /\ pc' = [pc EXCEPT ![t] = "idle"]
    /\ snap' = [snap EXCEPT ![t] = IF t[2] = "node" THEN Fresh(None) ELSE @]
    /\ UNCHANGED todo

\* A handler returns.  The node sync forgets its copy of the service, the
\* service queue keeps it (cachedService.state).
Return(t) ==
    /\ pc' = [pc EXCEPT ![t] = "idle"]
    /\ todo' = [todo EXCEPT ![t] = {}]
    /\ snap' = [snap EXCEPT ![t] = IF t[2] = "node" THEN Fresh(None) ELSE @]

\* An error puts the key back into the service queue, after a failed node sync
\* if GetLoadBalancer still finds the balancer.
Fail(t) ==
    /\ Return(t)
    /\ queued' = [queued EXCEPT ![t[1]] = @ \/ t[2] = "service" \/ lb[t[1]]]

\* The service queue called with a service that shall have no balancer.
Deletes(t) == t[2] = "service" /\ snap[t].phase \in {"unwanted", "deleting"}

\* GetLoadBalancer, asked before a deletion, computes the status as well.
GetLoadBalancer(t) ==
    /\ pc[t] = "get"
    /\ \/ lb[t[1]] /\ StatusErrs(snap[t]) /\ Fail(t)
       \/ /\ ~(lb[t[1]] /\ StatusErrs(snap[t]))
          /\ Goto(t, IF lb[t[1]] THEN "called" ELSE "finalizer")
    /\ UNCHANGED <<api, cache, known, lb, holder, withdrawn, bounds>>

\* The mutex of the service is held between the check and the return.
Locked(s) == \E t \in Threads : t[1] = s /\ pc[t] \in {"checked", "assign"}

\* Variant: a refused configuration is not tried again.
ensureValidConfig_Once(t) ==
    /\ pc[t] = "called" /\ ~Locked(t[1])
    /\ \/ ConfigErrs(t) /\ Return(t) /\ UNCHANGED queued
       \/ ~ConfigErrs(t) /\ Goto(t, "checked")
    /\ UNCHANGED <<api, cache, known, lb, holder, withdrawn, bounds>>

\* EnsureLoadBalancer, UpdateLoadBalancer and EnsureLoadBalancerDeleted take
\* the mutex and check the configuration.
ensureValidConfig(t) ==
    /\ pc[t] = "called" /\ ~Locked(t[1])
    /\ \/ ConfigErrs(t) /\ Fail(t)
       \/ ~ConfigErrs(t) /\ Goto(t, "checked")
    /\ UNCHANGED <<api, cache, known, lb, holder, withdrawn, bounds>>

\* Variant: Floating IPs are assigned to new balancers only.
FloatingIPActions_New(t) ==
    IF snap[t].uuid = None
    THEN {ip \in annotationList(snap[t]) : holder[ip] # t[1]} ELSE {}

\* Floating IPs are assigned, never taken away.
FloatingIPActions(t) == {ip \in annotationList(snap[t]) : holder[ip] # t[1]}

\* The balancer is built if need be; the last plan of the loop, made when it
\* is ready, has the Floating IPs.
nextLbActions(t) ==
    /\ pc[t] = "checked" /\ ~Deletes(t)
    /\ lb' = [lb EXCEPT ![t[1]] = TRUE]
    /\ todo' = [todo EXCEPT ![t] = FloatingIPActions(t)]
    /\ pc' = [pc EXCEPT ![t] = "assign"]
    /\ UNCHANGED <<api, cache, queued, known, snap, holder, withdrawn, bounds>>

\* The Floating IP points to this balancer now, whatever it pointed to before.
\* The annotation has it in CIDR notation, the call without the prefix.
AssignFloatingIP(t) ==
    /\ pc[t] = "assign"
    /\ \E ip \in todo[t] :
          /\ holder' = [holder EXCEPT ![ip] = t[1]]
          /\ todo' = [todo EXCEPT ![t] = @ \ {ip}]
    /\ UNCHANGED <<api, cache, queued, known, pc, snap, lb, withdrawn, bounds>>

\* Service s becomes svc, and so gives up some of its claims to Floating IPs.
Change(s, svc) ==
    LET given == IF svc.phase = "unwanted" THEN annotationList(api[s])
                 ELSE annotationList(api[s]) \ annotationList(svc)
    IN
    /\ api' = [api EXCEPT ![s] = svc]
    /\ withdrawn' = withdrawn \cup ({s} \X given)

\* The JSON patch: annotations that differ from those of the copy are added;
\* if the copy has none at all, the annotations are first replaced by none.
AnnotateService(t) ==
    LET s    == t[1]
        uuid == IF snap[t].uuid = None THEN "set" ELSE api[s].uuid
    IN
    Change(s, IF NoAnnotations(s, snap[t])
              THEN [api[s] EXCEPT !.ips = None, !.mode = None, !.uuid = uuid]
              ELSE [api[s] EXCEPT !.uuid = uuid])

\* The patch adds to annotations that the copy had and the service has no more.
PatchErrs(t) ==
    /\ snap[t].uuid = None
    /\ NoAnnotations(t[1], api[t[1]]) /\ ~NoAnnotations(t[1], snap[t])

\* EnsureLoadBalancer stores what it knows and returns the status, or an error.
EnsureLoadBalancer(t) ==
    /\ t[2] = "service"
    /\ pc[t] = "assign" /\ todo[t] = {}
    /\ IF PatchErrs(t) THEN UNCHANGED <<api, withdrawn>> ELSE AnnotateService(t)
    /\ IF PatchErrs(t) \/ StatusErrs(snap[t]) THEN Fail(t)
       ELSE Return(t) /\ UNCHANGED queued
    /\ UNCHANGED <<cache, known, lb, holder, bounds>>

\* UpdateLoadBalancer returns when the plan is done; it stores nothing.
UpdateLoadBalancer(t) ==
    /\ t[2] = "node"
    /\ pc[t] = "assign" /\ todo[t] = {}
    /\ Return(t)
    /\ UNCHANGED <<api, cache, queued, known, lb, holder, withdrawn, bounds>>

\* The Floating IPs of a deleted balancer point nowhere.
EnsureLoadBalancerDeleted(t) ==
    /\ pc[t] = "checked" /\ Deletes(t)
    /\ lb' = [lb EXCEPT ![t[1]] = FALSE]
    /\ holder' = [ip \in Ips |-> IF holder[ip] = t[1] THEN None ELSE holder[ip]]
    /\ Goto(t, "finalizer")
    /\ UNCHANGED <<api, cache, known, withdrawn, bounds>>

\* Any call fails, or the last answer is lost.
CallFails(t) ==
    /\ pc[t] # "idle"
    /\ events < MaxEvents /\ events' = events + 1
    /\ \/ UNCHANGED <<api, withdrawn>>
       \/ /\ t[2] = "service" /\ pc[t] = "assign" /\ todo[t] = {}
          /\ ~PatchErrs(t) /\ AnnotateService(t)
    /\ Fail(t)
    /\ UNCHANGED <<cache, known, lb, holder, edits>>

-----------------------------------------------------------------------------
(* The Kubernetes service controller, external.                             *)

Informer(s) ==
    /\ cache[s] # api[s]
    /\ cache' = [cache EXCEPT ![s] = api[s]]
    /\ queued' = [queued EXCEPT ![s] = TRUE]
    /\ UNCHANGED <<api, known, pc, snap, todo, lb, holder, withdrawn, bounds>>

\* A service that is gone but still in the controller's own cache is deleted
\* without asking GetLoadBalancer.
SyncService(s) ==
    LET t == <<s, "service">> IN
    /\ queued[s] /\ pc[t] = "idle"
    /\ queued' = [queued EXCEPT ![s] = FALSE]
    /\ \/ cache[s].phase = "gone" /\ ~known[s] /\ UNCHANGED <<known, pc, snap>>
       \/ /\ cache[s].phase = "gone" /\ known[s]
          /\ snap' = [snap EXCEPT ![t] = [@ EXCEPT !.phase = "deleting"]]
          /\ pc' = [pc EXCEPT ![t] = "called"]
          /\ UNCHANGED known
       \/ /\ cache[s].phase # "gone"
          /\ known' = [known EXCEPT ![s] = TRUE]
          /\ snap' = [snap EXCEPT ![t] = cache[s]]
          /\ pc' = [pc EXCEPT ![t] = IF cache[s].phase = "wanted" THEN "called" ELSE "get"]
    /\ UNCHANGED <<api, cache, todo, lb, holder, withdrawn, bounds>>

\* Nodes changed: the node sync calls UpdateLoadBalancer with the service the
\* service queue last worked on, if its type is LoadBalancer.
SyncNodes(s) ==
    LET t == <<s, "node">> IN
    /\ events < MaxEvents /\ events' = events + 1
    /\ known[s] /\ pc[t] = "idle"
    /\ snap[<<s, "service">>].phase \in {"wanted", "deleting"}
    /\ snap' = [snap EXCEPT ![t] = snap[<<s, "service">>]]
    /\ pc' = [pc EXCEPT ![t] = "called"]
    /\ UNCHANGED <<api, cache, queued, known, todo, lb, holder, withdrawn, edits>>

\* A service marked for deletion goes when its finalizer does.
RunFinalizer(t) ==
    /\ pc[t] = "finalizer"
    /\ api' = [api EXCEPT ![t[1]].phase = IF @ = "deleting" THEN "gone" ELSE @]
    /\ known' = [known EXCEPT ![t[1]] = FALSE]
    /\ pc' = [pc EXCEPT ![t] = "idle"]
    /\ snap' = [snap EXCEPT ![t] = Fresh(None)]
    /\ UNCHANGED <<cache, queued, todo, lb, holder, withdrawn, bounds>>

-----------------------------------------------------------------------------
(* Users, external.                                                         *)

Edit(s, svc) ==
    /\ api[s].phase = "wanted"
    /\ edits < MaxEdits /\ edits' = edits + 1
    /\ svc # api[s]
    /\ Change(s, svc)
    /\ UNCHANGED <<cache, queued, known, pc, snap, todo, lb, holder, events>>

EditIps(s) ==
    \E ips \in {None, Bad} \cup ((SUBSET Ips) \ {{}}) : Edit(s, [api[s] EXCEPT !.ips = ips])

EditMode(s) == Edit(s, [api[s] EXCEPT !.mode = IF @ = None THEN Bad ELSE None])

\* spec.type is no longer LoadBalancer.
EditType(s) == Edit(s, [api[s] EXCEPT !.phase = "unwanted"])

DeleteService(s) == Edit(s, [api[s] EXCEPT !.phase = "deleting"])

-----------------------------------------------------------------------------
\* What a worker does by itself, failures left out.
Step(t) ==
    \/ GetLoadBalancer(t) \/ ensureValidConfig(t) \/ nextLbActions(t)
    \/ AssignFloatingIP(t) \/ EnsureLoadBalancer(t) \/ UpdateLoadBalancer(t)
    \/ EnsureLoadBalancerDeleted(t) \/ RunFinalizer(t)

Next ==
    \/ \E t \in Threads : Step(t) \/ CallFails(t)
    \/ \E s \in Services :
          \/ SyncService(s) \/ SyncNodes(s) \/ Informer(s)
          \/ EditIps(s) \/ EditMode(s) \/ EditType(s) \/ DeleteService(s)

Spec == Init /\ [][Next]_vars

\* Workers run, queued keys are processed and the informer delivers.  Weak
\* fairness is enough for the mutex, as node syncs are few.
Fairness ==
    /\ \A t \in Threads : WF_vars(Step(t))
    /\ \A s \in Services : WF_vars(SyncService(s))
    /\ WF_vars(\E s \in Services : Informer(s))

FairSpec == Spec /\ Fairness

-----------------------------------------------------------------------------
(* Properties.                                                              *)

\* The service has taken back its claim to the Floating IP, or is gone.
GivenUp(s, ip) == <<s, ip>> \in withdrawn \/ api[s].phase = "gone"

\* No flapping: a Floating IP moves from the balancer of one service to that
\* of another only if one of them has taken back its claim to it at some time
\* or is gone, although the check and the assignment are minutes apart, the
\* claims are checked against a copy of the service, and the node sync's copy
\* may be of a service that was deleted meanwhile.
NotStolen ==
    [][\A ip \in Ips :
          holder[ip] # None /\ holder'[ip] # None /\ holder'[ip] # holder[ip] =>
              GivenUp(holder[ip], ip) \/ GivenUp(holder'[ip], ip)]_vars

Claims(s, ip) == api[s].phase \in {"wanted", "deleting"} /\ ip \in annotationList(api[s])

\* ensureValidConfig refuses the service as it is.
Blocked(s) ==
    \/ Unparsable(api[s])
    \/ \E r \in Services \ {s}, ip \in annotationList(api[s]) : Claims(r, ip)

\* A node sync that waited while its service was deleted has built the
\* balancer again.
Revived(s) == api[s].phase = "gone" /\ lb[s]

\* A service gets the Floating IPs that it alone claims and no other service
\* gave up, also those that another service had until it was deleted; unless
\* the node sync revives the balancer of that service, which then may keep
\* them.
Served ==
    \A s \in Services, ip \in Ips :
        <>[](/\ api[s].phase = "wanted" /\ Claims(s, ip)
             /\ \A r \in Services \ {s} :
                   ~Claims(r, ip) /\ <<r, ip>> \notin withdrawn /\ ~Revived(r))
            => <>[](holder[ip] = s)

\* A service that was refused for the Floating IP of another is set up as soon
\* as nothing blocks it any more, though no event of its own tells the
\* controller so; it ends up with a balancer and its UUID stored, although
\* users may edit away the annotations that the patch would add to.
SetUpUnlessBlocked ==
    \A s \in Services :
        []<>(api[s].phase = "wanted" => (lb[s] /\ api[s].uuid = "set") \/ Blocked(s))

\* A service that is deleted goes, unless its own annotations are wrong or
\* another service claims one of its Floating IPs for ever.
DeletedUnlessBlocked ==
    \A s \in Services :
        []<>(api[s].phase = "deleting" => Blocked(s) \/ StatusErrs(api[s]))
=============================================================================
