------------------------- MODULE Annotations_proofs -------------------------
(***************************************************************************)
(* Proofs about annotations and Floating IPs, for any number of services   *)
(* and addresses and whatever users edit.                                  *)
(***************************************************************************)
EXTENDS Annotations, TLAPS

-----------------------------------------------------------------------------
(* Types.                                                                   *)

\* The Floating IPs of a service are Floating IPs.
LEMMA ListType == \A svc \in ServiceObject : annotationList(svc) \subseteq Ips
BY DEF ServiceObject, annotationList

\* Writing a field of a service keeps its type.
LEMMA ServiceUpdates ==
    ASSUME NEW o \in ServiceObject
    PROVE  /\ \A p \in {"wanted", "unwanted", "deleting", "gone"} :
                 [o EXCEPT !.phase = p] \in ServiceObject
           /\ \A ips \in {None, Bad} \cup SUBSET Ips : [o EXCEPT !.ips = ips] \in ServiceObject
           /\ \A m \in {None, Bad} : [o EXCEPT !.mode = m] \in ServiceObject
           /\ \A u \in {None, "set"} : [o EXCEPT !.uuid = u] \in ServiceObject
           /\ \A u \in {None, "set"} :
                 [o EXCEPT !.ips = None, !.mode = None, !.uuid = u] \in ServiceObject
<1> USE DEF ServiceObject
<1>1. \A p \in {"wanted", "unwanted", "deleting", "gone"} : [o EXCEPT !.phase = p] \in ServiceObject
  OBVIOUS
<1>2. \A ips \in {None, Bad} \cup SUBSET Ips : [o EXCEPT !.ips = ips] \in ServiceObject
  OBVIOUS
<1>3. \A m \in {None, Bad} : [o EXCEPT !.mode = m] \in ServiceObject
  OBVIOUS
<1>4. \A u \in {None, "set"} : [o EXCEPT !.uuid = u] \in ServiceObject
  OBVIOUS
<1>5. \A u \in {None, "set"} : [o EXCEPT !.ips = None, !.mode = None, !.uuid = u] \in ServiceObject
  OBVIOUS
<1> QED BY <1>1, <1>2, <1>3, <1>4, <1>5

LEMMA FreshType == \A ips \in {None, Ips} : Fresh(ips) \in ServiceObject
BY DEF Fresh, ServiceObject

\* The workers of a service.
LEMMA ThreadType ==
    /\ \A t \in Threads : t[1] \in Services /\ t[2] \in {"service", "node"}
    /\ \A s \in Services : <<s, "service">> \in Threads /\ <<s, "node">> \in Threads
BY DEF Threads

LEMMA InitType == Init => TypeOK
<1> SUFFICES ASSUME Init PROVE TypeOK
  OBVIOUS
<1>1. edits \in 0..MaxEdits /\ events \in 0..MaxEvents
  BY BoundsAssumption DEF Init
<1>2. api \in [Services -> ServiceObject]
  BY FreshType DEF Init
<1>3. snap \in [Threads -> ServiceObject]
  BY FreshType DEF Init
<1> QED BY <1>1, <1>2, <1>3 DEF Init, TypeOK, PCs

\* The variables that handlers write as they go on.
HandlerType ==
    /\ pc \in [Threads -> PCs]
    /\ snap \in [Threads -> ServiceObject]
    /\ todo \in [Threads -> SUBSET Ips]
    /\ \A t \in Threads : pc[t] # "assign" => todo[t] = {}

\* A handler that returns leaves the others alone.
LEMMA ReturnFacts ==
    ASSUME TypeOK, NEW t \in Threads, Return(t)
    PROVE  /\ HandlerType'
           /\ \A u \in Threads :
                 \/ pc'[u] = pc[u] /\ todo'[u] = todo[u] /\ snap'[u] = snap[u]
                 \/ pc'[u] = "idle" /\ todo'[u] = {} /\ snap'[u] \in {snap[u], Fresh(None)}
<1>1. pc' \in [Threads -> PCs] /\ \A u \in Threads : pc'[u] = IF u = t THEN "idle" ELSE pc[u]
  BY DEF Return, TypeOK, PCs
<1>2. /\ todo' \in [Threads -> SUBSET Ips]
      /\ \A u \in Threads : todo'[u] = IF u = t THEN {} ELSE todo[u]
  BY DEF Return, TypeOK
<1>3. /\ snap' \in [Threads -> ServiceObject]
      /\ \A u \in Threads : snap'[u] = snap[u] \/ (u = t /\ snap'[u] = Fresh(None))
  BY FreshType DEF Return, TypeOK
<1>4. \A u \in Threads : pc'[u] # "assign" => todo'[u] = {}
  BY <1>1, <1>2 DEF TypeOK
<1> QED BY <1>1, <1>2, <1>3, <1>4 DEF HandlerType

LEMMA FailFacts ==
    ASSUME TypeOK, NEW t \in Threads, Fail(t)
    PROVE  queued' \in [Services -> BOOLEAN] /\ Return(t)
BY ThreadType DEF Fail, TypeOK

\* A handler goes on.
LEMMA GotoFacts ==
    ASSUME TypeOK, NEW t \in Threads, NEW q \in PCs, Goto(t, q),
           pc[t] # "assign"
    PROVE  /\ HandlerType' /\ UNCHANGED <<queued, snap, todo>>
           /\ \A u \in Threads : pc'[u] = IF u = t THEN q ELSE pc[u]
<1>1. UNCHANGED <<queued, snap, todo>>
  BY DEF Goto
<1>2. pc' \in [Threads -> PCs] /\ \A u \in Threads : pc'[u] = IF u = t THEN q ELSE pc[u]
  BY DEF Goto, TypeOK
<1>3. todo[t] = {}
  BY DEF TypeOK
<1> QED BY <1>1, <1>2, <1>3 DEF TypeOK, HandlerType

LEMMA ChangeType ==
    ASSUME TypeOK, NEW s \in Services, NEW svc \in ServiceObject, Change(s, svc)
    PROVE  api' \in [Services -> ServiceObject] /\ withdrawn' \subseteq Services \X Ips
<1>1. annotationList(api[s]) \subseteq Ips
  BY ListType DEF TypeOK
<1> QED BY <1>1 DEF Change, TypeOK

\* The patch leaves all but the annotations alone.
LEMMA AnnotateType ==
    ASSUME TypeOK, NEW t \in Threads, AnnotateService(t)
    PROVE  \E svc \in ServiceObject : Change(t[1], svc) /\ svc.phase = api[t[1]].phase
<1> DEFINE s == t[1]
           uuid == IF snap[t].uuid = None THEN "set" ELSE api[s].uuid
           svc == IF NoAnnotations(s, snap[t])
                  THEN [api[s] EXCEPT !.ips = None, !.mode = None, !.uuid = uuid]
                  ELSE [api[s] EXCEPT !.uuid = uuid]
<1>1. api[s] \in ServiceObject /\ uuid \in {None, "set"}
  BY ThreadType DEF TypeOK, ServiceObject
<1>2. svc \in ServiceObject
  BY <1>1, ServiceUpdates
<1>3. svc.phase = api[s].phase
  BY <1>1 DEF ServiceObject
<1>4. Change(s, svc)
  BY DEF AnnotateService
<1> HIDE DEF svc
<1> QED BY <1>2, <1>3, <1>4

\* What users do to a service.
LEMMA EditSteps ==
    ASSUME TypeOK, NEW s \in Services,
           EditIps(s) \/ EditMode(s) \/ EditType(s) \/ DeleteService(s)
    PROVE  \E svc \in ServiceObject : Edit(s, svc) /\ svc.phase # "gone"
<1>1. api[s] \in ServiceObject
  BY DEF TypeOK
<1>2. ASSUME NEW ips \in {None, Bad} \cup SUBSET Ips, Edit(s, [api[s] EXCEPT !.ips = ips])
      PROVE  \E svc \in ServiceObject : Edit(s, svc) /\ svc.phase # "gone"
  <2>1. [api[s] EXCEPT !.ips = ips] \in ServiceObject
    BY <1>1, ServiceUpdates
  <2>2. [api[s] EXCEPT !.ips = ips].phase = "wanted"
    BY <1>1, <1>2 DEF Edit, ServiceObject
  <2> QED BY <1>2, <2>1, <2>2
<1>3. ASSUME NEW m \in {None, Bad}, Edit(s, [api[s] EXCEPT !.mode = m])
      PROVE  \E svc \in ServiceObject : Edit(s, svc) /\ svc.phase # "gone"
  <2>1. [api[s] EXCEPT !.mode = m] \in ServiceObject
    BY <1>1, ServiceUpdates
  <2>2. [api[s] EXCEPT !.mode = m].phase = "wanted"
    BY <1>1, <1>3 DEF Edit, ServiceObject
  <2> QED BY <1>3, <2>1, <2>2
<1>4. ASSUME NEW p \in {"unwanted", "deleting"}, Edit(s, [api[s] EXCEPT !.phase = p])
      PROVE  \E svc \in ServiceObject : Edit(s, svc) /\ svc.phase # "gone"
  <2>1. [api[s] EXCEPT !.phase = p] \in ServiceObject
    BY <1>1, ServiceUpdates
  <2>2. [api[s] EXCEPT !.phase = p].phase = p
    BY <1>1 DEF ServiceObject
  <2> QED BY <1>4, <2>1, <2>2
<1>5. EditMode(s) => \E m \in {None, Bad} : Edit(s, [api[s] EXCEPT !.mode = m])
  BY DEF EditMode
<1>6. EditIps(s) => \E ips \in {None, Bad} \cup SUBSET Ips : Edit(s, [api[s] EXCEPT !.ips = ips])
  BY DEF EditIps
<1>7. EditType(s) \/ DeleteService(s)
         => \E p \in {"unwanted", "deleting"} : Edit(s, [api[s] EXCEPT !.phase = p])
  BY DEF EditType, DeleteService
<1> QED BY <1>2, <1>3, <1>4, <1>5, <1>6, <1>7

\* The end of a deletion, for its service.
LEMMA FinalizerFacts ==
    ASSUME TypeOK, NEW t \in Threads, RunFinalizer(t)
    PROVE  /\ api' \in [Services -> ServiceObject]
           /\ api'[t[1]].phase = IF api[t[1]].phase = "deleting" THEN "gone" ELSE api[t[1]].phase
           /\ api'[t[1]].ips = api[t[1]].ips
           /\ \A r \in Services \ {t[1]} : api'[r] = api[r]
           /\ HandlerType'
           /\ \A u \in Threads :
                 \/ pc'[u] = pc[u] /\ snap'[u] = snap[u]
                 \/ pc'[u] = "idle" /\ snap'[u] = Fresh(None)
<1> DEFINE s == t[1]
           p == IF api[s].phase = "deleting" THEN "gone" ELSE api[s].phase
<1>1. api[s] \in ServiceObject /\ p \in {"wanted", "unwanted", "deleting", "gone"}
  BY ThreadType DEF TypeOK, ServiceObject
<1>2. [api[s] EXCEPT !.phase = p] \in ServiceObject
  BY <1>1, ServiceUpdates
<1>3. api' = [api EXCEPT ![s] = [api[s] EXCEPT !.phase = p]]
  BY ThreadType DEF RunFinalizer, TypeOK
<1>4. api' \in [Services -> ServiceObject] /\ api'[s] = [api[s] EXCEPT !.phase = p]
      /\ \A r \in Services \ {s} : api'[r] = api[r]
  BY <1>2, <1>3, ThreadType DEF TypeOK
<1>5. api'[s].phase = p /\ api'[s].ips = api[s].ips
  BY <1>1, <1>4 DEF ServiceObject
<1>6. todo[t] = {} /\ todo' = todo
  BY DEF RunFinalizer, TypeOK
<1>7. pc' \in [Threads -> PCs] /\ \A u \in Threads : pc'[u] = IF u = t THEN "idle" ELSE pc[u]
  BY DEF RunFinalizer, TypeOK, PCs
<1>8. /\ snap' \in [Threads -> ServiceObject]
      /\ \A u \in Threads : snap'[u] = IF u = t THEN Fresh(None) ELSE snap[u]
  BY FreshType DEF RunFinalizer, TypeOK
<1>9. HandlerType'
  BY <1>6, <1>7, <1>8 DEF TypeOK, HandlerType
<1> QED BY <1>4, <1>5, <1>7, <1>8, <1>9

\* The service controller starts a call with a copy of the service: that of the
\* informer, its own of a service that is gone, or, for the node sync, the one
\* it last worked on.
LEMMA SyncFacts ==
    ASSUME TypeOK, NEW s \in Services, SyncService(s) \/ SyncNodes(s)
    PROVE  /\ HandlerType' /\ known' \in [Services -> BOOLEAN]
           /\ queued' \in [Services -> BOOLEAN]
           /\ \A u \in Threads :
                 \/ pc'[u] = pc[u] /\ snap'[u] = snap[u]
                 \/ /\ pc'[u] \in {"called", "get"} /\ u[2] = "service"
                    /\ cache[u[1]].phase # "gone" /\ snap'[u] = cache[u[1]]
                 \/ /\ pc'[u] \in {"called", "get"} /\ u[2] = "service"
                    /\ cache[u[1]].phase = "gone"
                    /\ snap'[u] = [snap[u] EXCEPT !.phase = "deleting"]
                 \/ /\ pc'[u] \in {"called", "get"} /\ u[2] = "node"
                    /\ snap'[u] = snap[<<u[1], "service">>]
                    /\ snap'[u].phase \in {"wanted", "deleting"}
<1> DEFINE q == <<s, "service">>
           n == <<s, "node">>
<1>1. q \in Threads /\ n \in Threads /\ q # n
  BY ThreadType
<1>2. CASE SyncService(s)
  <2>1. pc[q] = "idle" /\ todo' = todo /\ todo[q] = {}
    BY <1>1, <1>2 DEF SyncService, TypeOK
  <2>2. known' \in [Services -> BOOLEAN] /\ queued' \in [Services -> BOOLEAN]
    BY <1>2 DEF SyncService, TypeOK
  <2>3. [snap[q] EXCEPT !.phase = "deleting"] \in ServiceObject /\ cache[s] \in ServiceObject
    BY <1>1, ServiceUpdates DEF TypeOK
  <2>4. CASE UNCHANGED <<pc, snap>>
    BY <2>1, <2>2, <2>4 DEF TypeOK, HandlerType
  <2>5. CASE /\ cache[s].phase = "gone"
             /\ snap' = [snap EXCEPT ![q] = [@ EXCEPT !.phase = "deleting"]]
             /\ pc' = [pc EXCEPT ![q] = "called"]
    <3>1. snap' = [snap EXCEPT ![q] = [snap[q] EXCEPT !.phase = "deleting"]]
      BY <1>1, <2>5 DEF TypeOK
    <3>2. /\ snap' \in [Threads -> ServiceObject]
          /\ snap'[q] = [snap[q] EXCEPT !.phase = "deleting"]
          /\ \A u \in Threads \ {q} : snap'[u] = snap[u]
      BY <1>1, <2>3, <3>1 DEF TypeOK
    <3>3. pc' \in [Threads -> PCs] /\ \A u \in Threads : pc'[u] = IF u = q THEN "called" ELSE pc[u]
      BY <1>1, <2>5 DEF TypeOK, PCs
    <3>4. HandlerType'
      BY <2>1, <3>2, <3>3 DEF TypeOK, HandlerType
    <3> QED BY <2>2, <2>5, <3>2, <3>3, <3>4
  <2>6. CASE /\ cache[s].phase # "gone"
             /\ snap' = [snap EXCEPT ![q] = cache[s]]
             /\ pc' = [pc EXCEPT ![q] = IF cache[s].phase = "wanted" THEN "called" ELSE "get"]
    <3>1. /\ snap' \in [Threads -> ServiceObject] /\ snap'[q] = cache[s]
          /\ \A u \in Threads \ {q} : snap'[u] = snap[u]
      BY <1>1, <2>3, <2>6 DEF TypeOK
    <3>2. /\ pc' \in [Threads -> PCs] /\ pc'[q] \in {"called", "get"}
          /\ \A u \in Threads \ {q} : pc'[u] = pc[u]
      BY <1>1, <2>6 DEF TypeOK, PCs
    <3>3. HandlerType'
      BY <2>1, <3>1, <3>2 DEF TypeOK, HandlerType
    <3> QED BY <2>2, <2>6, <3>1, <3>2, <3>3
  <2> QED BY <1>2, <2>4, <2>5, <2>6 DEF SyncService
<1>3. CASE SyncNodes(s)
  <2>1. pc[n] = "idle" /\ todo' = todo /\ todo[n] = {} /\ known' = known /\ queued' = queued
    BY <1>1, <1>3 DEF SyncNodes, TypeOK
  <2>2. /\ snap' \in [Threads -> ServiceObject] /\ snap'[n] = snap[q]
        /\ \A u \in Threads \ {n} : snap'[u] = snap[u]
    BY <1>1, <1>3 DEF SyncNodes, TypeOK
  <2>3. pc' \in [Threads -> PCs] /\ \A u \in Threads : pc'[u] = IF u = n THEN "called" ELSE pc[u]
    BY <1>1, <1>3 DEF SyncNodes, TypeOK, PCs
  <2>4. snap[q].phase \in {"wanted", "deleting"}
    BY <1>3 DEF SyncNodes
  <2>5. HandlerType'
    BY <2>1, <2>2, <2>3 DEF TypeOK, HandlerType
  <2> QED BY <2>1, <2>2, <2>3, <2>4, <2>5 DEF TypeOK
<1> QED BY <1>2, <1>3

\* The type invariant is inductive.
LEMMA TypeInductive == TypeOK /\ [Next]_vars => TypeOK'
<1> SUFFICES ASSUME TypeOK, [Next]_vars PROVE TypeOK'
  OBVIOUS
<1>1. CASE UNCHANGED vars
  BY <1>1 DEF vars, bounds, TypeOK
<1>2. ASSUME NEW s \in Services, SyncService(s) PROVE TypeOK'
  <2>1. UNCHANGED <<api, cache, lb, holder, withdrawn, edits, events>>
    BY <1>2 DEF SyncService, bounds
  <2> QED BY <1>2, <2>1, SyncFacts DEF TypeOK, HandlerType
<1>3. ASSUME NEW s \in Services, SyncNodes(s) PROVE TypeOK'
  <2>1. UNCHANGED <<api, cache, lb, holder, withdrawn, edits>>
    BY <1>3 DEF SyncNodes
  <2>2. events' \in 0..MaxEvents
    BY <1>3, BoundsAssumption DEF SyncNodes, TypeOK
  <2> QED BY <1>3, <2>1, <2>2, SyncFacts DEF TypeOK, HandlerType
<1>4. ASSUME NEW t \in Threads, GetLoadBalancer(t) PROVE TypeOK'
  <2>1. UNCHANGED <<api, cache, known, lb, holder, withdrawn, edits, events>>
    BY <1>4 DEF GetLoadBalancer, bounds
  <2>2. HandlerType' /\ queued' \in [Services -> BOOLEAN]
    <3>1. CASE Fail(t)
      BY <3>1, FailFacts, ReturnFacts
    <3>2. CASE Goto(t, IF lb[t[1]] THEN "called" ELSE "finalizer")
      BY <1>4, <3>2, GotoFacts DEF GetLoadBalancer, PCs, TypeOK
    <3> QED BY <1>4, <3>1, <3>2 DEF GetLoadBalancer
  <2> QED BY <2>1, <2>2 DEF TypeOK, HandlerType
<1>5. ASSUME NEW t \in Threads, ensureValidConfig(t) PROVE TypeOK'
  <2>1. UNCHANGED <<api, cache, known, lb, holder, withdrawn, edits, events>>
    BY <1>5 DEF ensureValidConfig, bounds
  <2>2. HandlerType' /\ queued' \in [Services -> BOOLEAN]
    <3>1. CASE Fail(t)
      BY <3>1, FailFacts, ReturnFacts
    <3>2. CASE Goto(t, "checked")
      BY <1>5, <3>2, GotoFacts DEF ensureValidConfig, PCs, TypeOK
    <3> QED BY <1>5, <3>1, <3>2 DEF ensureValidConfig
  <2> QED BY <2>1, <2>2 DEF TypeOK, HandlerType
<1>6. ASSUME NEW t \in Threads, nextLbActions(t) PROVE TypeOK'
  <2>1. FloatingIPActions(t) \subseteq Ips
    BY ListType DEF FloatingIPActions, TypeOK
  <2>2. UNCHANGED <<api, cache, queued, known, snap, holder, withdrawn, edits, events>>
    BY <1>6 DEF nextLbActions, bounds
  <2>3. /\ pc' \in [Threads -> PCs] /\ todo' \in [Threads -> SUBSET Ips]
        /\ \A u \in Threads : pc'[u] # "assign" => todo'[u] = {}
    BY <1>6, <2>1 DEF nextLbActions, TypeOK, PCs
  <2>4. lb' \in [Services -> BOOLEAN]
    BY <1>6 DEF nextLbActions, TypeOK
  <2> QED BY <2>2, <2>3, <2>4 DEF TypeOK
<1>7. ASSUME NEW t \in Threads, AssignFloatingIP(t) PROVE TypeOK'
  <2>1. UNCHANGED <<api, cache, queued, known, pc, snap, lb, withdrawn, edits, events>>
    BY <1>7 DEF AssignFloatingIP, bounds
  <2>2. /\ todo' \in [Threads -> SUBSET Ips]
        /\ \A u \in Threads : pc'[u] # "assign" => todo'[u] = {}
    BY <1>7 DEF AssignFloatingIP, TypeOK
  <2>3. holder' \in [Ips -> Services \cup {None}]
    BY <1>7, ThreadType DEF AssignFloatingIP, TypeOK
  <2> QED BY <2>1, <2>2, <2>3 DEF TypeOK
<1>8. ASSUME NEW t \in Threads, EnsureLoadBalancer(t) PROVE TypeOK'
  <2>1. HandlerType' /\ queued' \in [Services -> BOOLEAN]
    <3>1. CASE Fail(t)
      BY <3>1, FailFacts, ReturnFacts
    <3>2. CASE Return(t) /\ UNCHANGED queued
      BY <3>2, ReturnFacts DEF TypeOK
    <3> QED BY <1>8, <3>1, <3>2 DEF EnsureLoadBalancer
  <2>2. api' \in [Services -> ServiceObject] /\ withdrawn' \subseteq Services \X Ips
    <3>1. CASE PatchErrs(t)
      BY <1>8, <3>1 DEF EnsureLoadBalancer, TypeOK
    <3>2. CASE ~PatchErrs(t)
      BY <1>8, <3>2, AnnotateType, ChangeType, ThreadType DEF EnsureLoadBalancer
    <3> QED BY <3>1, <3>2
  <2>3. UNCHANGED <<cache, known, lb, holder, edits, events>>
    BY <1>8 DEF EnsureLoadBalancer, bounds
  <2> QED BY <2>1, <2>2, <2>3 DEF TypeOK, HandlerType
<1>9. ASSUME NEW t \in Threads, UpdateLoadBalancer(t) PROVE TypeOK'
  <2>1. UNCHANGED <<api, cache, queued, known, lb, holder, withdrawn, edits, events>>
    BY <1>9 DEF UpdateLoadBalancer, bounds
  <2>2. HandlerType'
    BY <1>9, ReturnFacts DEF UpdateLoadBalancer
  <2> QED BY <2>1, <2>2 DEF TypeOK, HandlerType
<1>10. ASSUME NEW t \in Threads, EnsureLoadBalancerDeleted(t) PROVE TypeOK'
  <2>1. UNCHANGED <<api, cache, known, withdrawn, edits, events>>
    BY <1>10 DEF EnsureLoadBalancerDeleted, bounds
  <2>2. HandlerType' /\ queued' \in [Services -> BOOLEAN]
    BY <1>10, GotoFacts DEF EnsureLoadBalancerDeleted, PCs, TypeOK
  <2>3. lb' \in [Services -> BOOLEAN] /\ holder' \in [Ips -> Services \cup {None}]
    BY <1>10 DEF EnsureLoadBalancerDeleted, TypeOK
  <2> QED BY <2>1, <2>2, <2>3 DEF TypeOK, HandlerType
<1>11. ASSUME NEW t \in Threads, RunFinalizer(t) PROVE TypeOK'
  <2>1. UNCHANGED <<cache, queued, lb, holder, withdrawn, edits, events>>
    BY <1>11 DEF RunFinalizer, bounds
  <2>2. known' \in [Services -> BOOLEAN]
    BY <1>11 DEF RunFinalizer, TypeOK
  <2> QED BY <1>11, <2>1, <2>2, FinalizerFacts DEF TypeOK, HandlerType
<1>12. ASSUME NEW s \in Services, Informer(s) PROVE TypeOK'
  <2>1. UNCHANGED <<api, known, pc, snap, todo, lb, holder, withdrawn, edits, events>>
    BY <1>12 DEF Informer, bounds
  <2>2. cache' \in [Services -> ServiceObject] /\ queued' \in [Services -> BOOLEAN]
    BY <1>12 DEF Informer, TypeOK
  <2> QED BY <2>1, <2>2 DEF TypeOK
<1>13. ASSUME NEW t \in Threads, CallFails(t) PROVE TypeOK'
  <2>1. events' \in 0..MaxEvents
    BY <1>13, BoundsAssumption DEF CallFails, TypeOK
  <2>2. api' \in [Services -> ServiceObject] /\ withdrawn' \subseteq Services \X Ips
    <3>1. CASE UNCHANGED <<api, withdrawn>>
      BY <3>1 DEF TypeOK
    <3>2. CASE AnnotateService(t)
      BY <3>2, AnnotateType, ChangeType, ThreadType
    <3> QED BY <1>13, <3>1, <3>2 DEF CallFails
  <2>3. HandlerType' /\ queued' \in [Services -> BOOLEAN]
    BY <1>13, FailFacts, ReturnFacts DEF CallFails
  <2>4. UNCHANGED <<cache, known, lb, holder, edits>>
    BY <1>13 DEF CallFails
  <2> QED BY <2>1, <2>2, <2>3, <2>4 DEF TypeOK, HandlerType
<1>14. ASSUME NEW s \in Services,
              EditIps(s) \/ EditMode(s) \/ EditType(s) \/ DeleteService(s)
       PROVE  TypeOK'
  <2>1. PICK svc \in ServiceObject : Edit(s, svc)
    BY <1>14, EditSteps
  <2>2. edits' \in 0..MaxEdits
    BY <2>1, BoundsAssumption DEF Edit, TypeOK
  <2>3. api' \in [Services -> ServiceObject] /\ withdrawn' \subseteq Services \X Ips
    BY <2>1, ChangeType DEF Edit
  <2>4. UNCHANGED <<cache, queued, known, pc, snap, todo, lb, holder, events>>
    BY <2>1 DEF Edit
  <2> QED BY <2>2, <2>3, <2>4 DEF TypeOK
<1> QED BY <1>1, <1>2, <1>3, <1>4, <1>5, <1>6, <1>7, <1>8, <1>9, <1>10, <1>11, <1>12,
           <1>13, <1>14
        DEF Next, Step

\* Every variable of the annotation handling keeps its type, and no plan is
\* left over after a return.
THEOREM TypeCorrect == Spec => []TypeOK
<1>1. Init => TypeOK
  BY InitType
<1>2. TypeOK /\ [Next]_vars => TypeOK'
  BY TypeInductive
<1> QED BY <1>1, <1>2, PTL DEF Spec

-----------------------------------------------------------------------------
(* Floating IPs that move.                                                  *)

\* The service claims the Floating IP, or has given it up.
Held(s, ip) == Claims(s, ip) \/ GivenUp(s, ip)

\* A copy of a service that may still get its Floating IPs.
Lists(svc, ip) == svc.phase \in {"wanted", "deleting"} /\ ip \in annotationList(svc)

\* The informer knows only what is true, and the node sync is not called for
\* services of another type.
CopyInv ==
    /\ \A s \in Services : cache[s].phase = "gone" => api[s].phase = "gone"
    /\ \A t \in Threads :
          snap[t].phase # "gone" /\ (t[2] = "node" => snap[t].phase # "unwanted")

\* A plan is made by a handler that does not delete, from its copy.
PlanInv ==
    \A t \in Threads :
        pc[t] = "assign" => ~Deletes(t) /\ todo[t] \subseteq annotationList(snap[t])

\* A claim in a copy of a service, and the assignment that follows from it,
\* are claims of the service unless it gave them up.
ClaimInv ==
    /\ \A s \in Services, ip \in Ips : Lists(cache[s], ip) \/ holder[ip] = s => Held(s, ip)
    /\ \A t \in Threads, ip \in Ips : Lists(snap[t], ip) => Held(t[1], ip)

\* A call is past the check with the Floating IP in its copy.
Checked(t, ip) ==
    pc[t] \in {"checked", "assign"} /\ ~Deletes(t) /\ ip \in annotationList(snap[t])

\* A call for the service is past the check, or one before has assigned the
\* Floating IP to it.
Passed(s, ip) == holder[ip] = s \/ \E t \in Threads : t[1] = s /\ Checked(t, ip)

\* Two services get past the check with the same Floating IP only if one of
\* them has given it up.
PassedInv ==
    \A ip \in Ips, s, r \in Services :
        s # r /\ Passed(s, ip) /\ Passed(r, ip) => GivenUp(s, ip) \/ GivenUp(r, ip)

FloatingInv == CopyInv /\ PlanInv /\ ClaimInv /\ PassedInv

LEMMA FreshFacts == Fresh(None).phase = "wanted" /\ annotationList(Fresh(None)) = {}
BY DEF Fresh, annotationList

LEMMA FloatingInit == Init => FloatingInv
<1> SUFFICES ASSUME Init PROVE FloatingInv
  OBVIOUS
<1>1. \A s \in Services : cache[s] = api[s] /\ api[s].phase = "wanted"
  BY DEF Init, Fresh
<1>2. \A s \in Services, ip \in Ips : holder[ip] # s
  BY ValuesAssumption DEF Init
<1>3. \A t \in Threads : snap[t] = Fresh(None) /\ pc[t] = "idle"
  BY DEF Init
<1>4. CopyInv
  BY <1>1, <1>3, FreshFacts DEF CopyInv
<1>5. PlanInv
  BY <1>3 DEF PlanInv
<1>6. ClaimInv
  BY <1>1, <1>2, <1>3, FreshFacts DEF ClaimInv, Lists, Held, Claims
<1>7. PassedInv
  BY <1>2, <1>3 DEF PassedInv, Passed, Checked
<1> QED BY <1>4, <1>5, <1>6, <1>7 DEF FloatingInv

-----------------------------------------------------------------------------
(* What a step does to the services, the copies, the plans and the           *)
(* Floating IPs.                                                             *)

\* Steps that leave the services alone, and those that write to one of them.
LEMMA ApiSteps ==
    ASSUME TypeOK, Next
    PROVE  \/ UNCHANGED <<api, withdrawn>>
           \/ \E t \in Threads : RunFinalizer(t)
           \/ \E s \in Services, svc \in ServiceObject :
                 /\ Change(s, svc)
                 /\ \/ svc.phase = api[s].phase
                    \/ api[s].phase = "wanted" /\ svc.phase # "gone"
<1>1. ASSUME NEW s \in Services,
             EditIps(s) \/ EditMode(s) \/ EditType(s) \/ DeleteService(s)
      PROVE  \E svc \in ServiceObject :
                Change(s, svc) /\ api[s].phase = "wanted" /\ svc.phase # "gone"
  <2>1. PICK svc \in ServiceObject : Edit(s, svc) /\ svc.phase # "gone"
    BY <1>1, EditSteps
  <2> QED BY <2>1 DEF Edit
<1>2. ASSUME NEW t \in Threads, AnnotateService(t)
      PROVE  \E svc \in ServiceObject : Change(t[1], svc) /\ svc.phase = api[t[1]].phase
  BY <1>2, AnnotateType
<1>3. ASSUME NEW t \in Threads, Step(t) \/ CallFails(t)
      PROVE  UNCHANGED <<api, withdrawn>> \/ RunFinalizer(t) \/ AnnotateService(t)
  BY <1>3 DEF Step, GetLoadBalancer, ensureValidConfig, nextLbActions, AssignFloatingIP,
              EnsureLoadBalancer, UpdateLoadBalancer, EnsureLoadBalancerDeleted, CallFails
<1>4. ASSUME NEW s \in Services, SyncService(s) \/ SyncNodes(s) \/ Informer(s)
      PROVE  UNCHANGED <<api, withdrawn>>
  BY <1>4 DEF SyncService, SyncNodes, Informer
<1> QED BY <1>1, <1>2, <1>3, <1>4, ThreadType DEF Next

\* What is given up stays so.
LEMMA GivenUpStep ==
    ASSUME TypeOK, Next, NEW r \in Services
    PROVE  /\ withdrawn \subseteq withdrawn'
           /\ api[r].phase = "gone" => api'[r].phase = "gone"
<1>1. CASE UNCHANGED <<api, withdrawn>>
  BY <1>1
<1>2. ASSUME NEW t \in Threads, RunFinalizer(t)
      PROVE  withdrawn' = withdrawn /\ (api[r].phase = "gone" => api'[r].phase = "gone")
  BY <1>2, FinalizerFacts, ThreadType DEF RunFinalizer
<1>3. ASSUME NEW s \in Services, NEW svc \in ServiceObject, Change(s, svc),
             svc.phase = api[s].phase \/ api[s].phase = "wanted"
      PROVE  /\ withdrawn \subseteq withdrawn'
             /\ api[r].phase = "gone" => api'[r].phase = "gone"
  BY <1>3 DEF Change, TypeOK
<1> QED BY <1>1, <1>2, <1>3, ApiSteps

\* A claim lasts until it is given up.
LEMMA HeldStep ==
    ASSUME TypeOK, Next, NEW r \in Services, NEW ip \in Ips, Held(r, ip)
    PROVE  Held(r, ip)'
<1>1. CASE UNCHANGED <<api, withdrawn>>
  BY <1>1 DEF Held, Claims, GivenUp, annotationList
<1>2. CASE GivenUp(r, ip)
  BY <1>2, GivenUpStep DEF Held, GivenUp
<1>3. ASSUME Claims(r, ip), NEW t \in Threads, RunFinalizer(t) PROVE Held(r, ip)'
  <2>1. CASE r # t[1]
    BY <1>3, <2>1, FinalizerFacts DEF Held, Claims, annotationList
  <2>2. CASE r = t[1] /\ api[r].phase # "deleting"
    BY <1>3, <2>2, FinalizerFacts DEF Held, Claims, annotationList
  <2>3. CASE r = t[1] /\ api[r].phase = "deleting"
    BY <1>3, <2>3, FinalizerFacts DEF Held, GivenUp
  <2> QED BY <2>1, <2>2, <2>3
<1>4. ASSUME Claims(r, ip), NEW s \in Services, NEW svc \in ServiceObject, Change(s, svc),
             svc.phase = api[s].phase \/ svc.phase # "gone"
      PROVE  Held(r, ip)'
  <2>1. CASE r # s
    BY <1>4, <2>1 DEF Held, Claims, Change, TypeOK, annotationList
  <2>2. CASE r = s
    <3>1. api'[s] = svc
      BY <1>4 DEF Change, TypeOK
    <3>2. CASE svc.phase = "unwanted"
      BY <1>4, <2>2, <3>2 DEF Held, Claims, GivenUp, Change
    <3>3. CASE svc.phase # "unwanted" /\ ip \in annotationList(svc)
      <4>1. svc.phase \in {"wanted", "deleting"}
        BY <1>4, <2>2, <3>3 DEF Claims, ServiceObject
      <4> QED BY <2>2, <3>1, <3>3, <4>1 DEF Held, Claims, annotationList
    <3>4. CASE svc.phase # "unwanted" /\ ip \notin annotationList(svc)
      BY <1>4, <2>2, <3>4 DEF Held, Claims, GivenUp, Change
    <3> QED BY <3>2, <3>3, <3>4
  <2> QED BY <2>1, <2>2
<1> QED BY <1>1, <1>2, <1>3, <1>4, ApiSteps DEF Held

\* Where a call is and what copy it has after a step: it goes on with the same
\* copy, returns, or begins.
LEMMA CallSteps ==
    ASSUME TypeOK, Next, NEW u \in Threads
    PROVE  \/ /\ snap'[u] = snap[u]
              /\ \/ pc'[u] = pc[u]
                 \/ pc[u] = "called" /\ pc'[u] = "checked" /\ ensureValidConfig(u) /\ ~ConfigErrs(u)
                 \/ pc[u] = "checked" /\ pc'[u] = "assign" /\ nextLbActions(u)
                 \/ pc'[u] \notin {"checked", "assign"}
           \/ pc'[u] \notin {"checked", "assign"} /\ snap'[u] = Fresh(None)
           \/ /\ pc'[u] \notin {"checked", "assign"}
              /\ \/ /\ u[2] = "service" /\ cache[u[1]].phase # "gone"
                    /\ snap'[u] = cache[u[1]]
                 \/ /\ u[2] = "service" /\ cache[u[1]].phase = "gone"
                    /\ snap'[u] = [snap[u] EXCEPT !.phase = "deleting"]
                 \/ /\ u[2] = "node" /\ snap'[u] = snap[<<u[1], "service">>]
                    /\ snap'[u].phase \in {"wanted", "deleting"}
<1>1. ASSUME NEW s \in Services, SyncService(s) \/ SyncNodes(s)
      PROVE  \/ pc'[u] = pc[u] /\ snap'[u] = snap[u]
             \/ /\ pc'[u] \notin {"checked", "assign"}
                /\ \/ /\ u[2] = "service" /\ cache[u[1]].phase # "gone"
                      /\ snap'[u] = cache[u[1]]
                   \/ /\ u[2] = "service" /\ cache[u[1]].phase = "gone"
                      /\ snap'[u] = [snap[u] EXCEPT !.phase = "deleting"]
                   \/ /\ u[2] = "node" /\ snap'[u] = snap[<<u[1], "service">>]
                      /\ snap'[u].phase \in {"wanted", "deleting"}
  <2>1. pc'[u] \in {"called", "get"} => pc'[u] \notin {"checked", "assign"}
    OBVIOUS
  <2> QED BY <1>1, <2>1, SyncFacts
<1>2. ASSUME NEW s \in Services,
             \/ Informer(s)
             \/ EditIps(s) \/ EditMode(s) \/ EditType(s) \/ DeleteService(s)
      PROVE  UNCHANGED <<pc, snap>>
  BY <1>2 DEF Informer, EditIps, EditMode, EditType, DeleteService, Edit
<1>3. ASSUME NEW t \in Threads, Return(t)
      PROVE  \/ pc'[u] = pc[u] /\ snap'[u] = snap[u]
             \/ pc'[u] = "idle" /\ snap'[u] \in {snap[u], Fresh(None)}
  BY <1>3, ReturnFacts
<1>4. ASSUME NEW t \in Threads, RunFinalizer(t)
      PROVE  \/ pc'[u] = pc[u] /\ snap'[u] = snap[u]
             \/ pc'[u] = "idle" /\ snap'[u] = Fresh(None)
  BY <1>4, FinalizerFacts
<1>5. ASSUME NEW t \in Threads, EnsureLoadBalancer(t) \/ UpdateLoadBalancer(t) \/ CallFails(t)
      PROVE  Return(t)
  BY <1>5 DEF EnsureLoadBalancer, UpdateLoadBalancer, CallFails, Fail
<1>6. ASSUME NEW t \in Threads, GetLoadBalancer(t)
      PROVE  Return(t) \/ (snap' = snap /\ (pc'[u] = pc[u] \/ pc'[u] \in {"called", "finalizer"}))
  BY <1>6 DEF GetLoadBalancer, Fail, Goto, TypeOK
<1>7. ASSUME NEW t \in Threads, ensureValidConfig(t)
      PROVE  \/ Return(t)
             \/ /\ snap' = snap
                /\ \/ pc'[u] = pc[u]
                   \/ u = t /\ pc[u] = "called" /\ pc'[u] = "checked" /\ ~ConfigErrs(u)
  BY <1>7 DEF ensureValidConfig, Fail, Goto, TypeOK
<1>8. ASSUME NEW t \in Threads, nextLbActions(t)
      PROVE  /\ snap' = snap
             /\ pc'[u] = pc[u] \/ (u = t /\ pc[u] = "checked" /\ pc'[u] = "assign")
  BY <1>8 DEF nextLbActions, TypeOK
<1>9. ASSUME NEW t \in Threads, AssignFloatingIP(t) PROVE UNCHANGED <<pc, snap>>
  BY <1>9 DEF AssignFloatingIP
<1>10. ASSUME NEW t \in Threads, EnsureLoadBalancerDeleted(t)
       PROVE  snap' = snap /\ (pc'[u] = pc[u] \/ pc'[u] = "finalizer")
  BY <1>10 DEF EnsureLoadBalancerDeleted, Goto, TypeOK
<1>11. ASSUME NEW s \in Services,
              \/ SyncService(s) \/ SyncNodes(s) \/ Informer(s)
              \/ EditIps(s) \/ EditMode(s) \/ EditType(s) \/ DeleteService(s)
       PROVE  \/ pc'[u] = pc[u] /\ snap'[u] = snap[u]
              \/ /\ pc'[u] \notin {"checked", "assign"}
                 /\ \/ /\ u[2] = "service" /\ cache[u[1]].phase # "gone"
                       /\ snap'[u] = cache[u[1]]
                    \/ /\ u[2] = "service" /\ cache[u[1]].phase = "gone"
                       /\ snap'[u] = [snap[u] EXCEPT !.phase = "deleting"]
                    \/ /\ u[2] = "node" /\ snap'[u] = snap[<<u[1], "service">>]
                       /\ snap'[u].phase \in {"wanted", "deleting"}
  BY <1>1, <1>2, <1>11
<1>12. ASSUME NEW t \in Threads, Step(t) \/ CallFails(t)
       PROVE  \/ /\ snap'[u] = snap[u]
                 /\ \/ pc'[u] = pc[u]
                    \/ /\ pc[u] = "called" /\ pc'[u] = "checked"
                       /\ ensureValidConfig(u) /\ ~ConfigErrs(u)
                    \/ pc[u] = "checked" /\ pc'[u] = "assign" /\ nextLbActions(u)
                    \/ pc'[u] \notin {"checked", "assign"}
              \/ pc'[u] \notin {"checked", "assign"} /\ snap'[u] = Fresh(None)
  BY <1>3, <1>4, <1>5, <1>6, <1>7, <1>8, <1>9, <1>10, <1>12 DEF Step
<1> QED BY <1>11, <1>12 DEF Next

\* A plan is made by nextLbActions, and gets shorter with each assignment.
LEMMA PlanSteps ==
    ASSUME TypeOK, Next, NEW u \in Threads, pc'[u] = "assign"
    PROVE  todo'[u] \subseteq todo[u] \/ (nextLbActions(u) /\ todo'[u] = FloatingIPActions(u))
<1>1. ASSUME NEW t \in Threads, Return(t) PROVE todo'[u] \subseteq todo[u]
  BY <1>1, ReturnFacts
<1>2. ASSUME NEW t \in Threads, nextLbActions(t)
      PROVE  \/ todo'[u] = todo[u]
             \/ nextLbActions(u) /\ todo'[u] = FloatingIPActions(u)
  BY <1>2 DEF nextLbActions, TypeOK
<1>3. ASSUME NEW t \in Threads, AssignFloatingIP(t) PROVE todo'[u] \subseteq todo[u]
  BY <1>3 DEF AssignFloatingIP, TypeOK
<1>4. ASSUME NEW t \in Threads,
             \/ GetLoadBalancer(t) \/ ensureValidConfig(t) \/ EnsureLoadBalancer(t)
             \/ UpdateLoadBalancer(t) \/ EnsureLoadBalancerDeleted(t) \/ RunFinalizer(t)
             \/ CallFails(t)
      PROVE  Return(t) \/ todo' = todo
  BY <1>4 DEF GetLoadBalancer, ensureValidConfig, EnsureLoadBalancer, UpdateLoadBalancer,
              EnsureLoadBalancerDeleted, RunFinalizer, CallFails, Fail, Goto
<1>5. ASSUME NEW s \in Services,
             \/ SyncService(s) \/ SyncNodes(s) \/ Informer(s)
             \/ EditIps(s) \/ EditMode(s) \/ EditType(s) \/ DeleteService(s)
      PROVE  todo' = todo
  BY <1>5 DEF SyncService, SyncNodes, Informer, EditIps, EditMode, EditType, DeleteService, Edit
<1> QED BY <1>1, <1>2, <1>3, <1>4, <1>5 DEF Next, Step

\* A Floating IP moves to another balancer only when it is assigned.
LEMMA HolderSteps ==
    ASSUME TypeOK, Next, NEW ip \in Ips
    PROVE  \/ holder'[ip] = holder[ip] \/ holder'[ip] = None
           \/ \E t \in Threads :
                 AssignFloatingIP(t) /\ pc[t] = "assign" /\ ip \in todo[t] /\ holder'[ip] = t[1]
<1>1. ASSUME NEW t \in Threads, AssignFloatingIP(t)
      PROVE  \/ holder'[ip] = holder[ip]
             \/ pc[t] = "assign" /\ ip \in todo[t] /\ holder'[ip] = t[1]
  BY <1>1 DEF AssignFloatingIP, TypeOK
<1>2. ASSUME NEW t \in Threads, EnsureLoadBalancerDeleted(t)
      PROVE  holder'[ip] = holder[ip] \/ holder'[ip] = None
  BY <1>2 DEF EnsureLoadBalancerDeleted
<1>3. ASSUME NEW t \in Threads,
             \/ GetLoadBalancer(t) \/ ensureValidConfig(t) \/ nextLbActions(t)
             \/ EnsureLoadBalancer(t) \/ UpdateLoadBalancer(t) \/ RunFinalizer(t)
             \/ CallFails(t)
      PROVE  holder' = holder
  BY <1>3 DEF GetLoadBalancer, ensureValidConfig, nextLbActions, EnsureLoadBalancer,
              UpdateLoadBalancer, RunFinalizer, CallFails
<1>4. ASSUME NEW s \in Services,
             \/ SyncService(s) \/ SyncNodes(s) \/ Informer(s)
             \/ EditIps(s) \/ EditMode(s) \/ EditType(s) \/ DeleteService(s)
      PROVE  holder' = holder
  BY <1>4 DEF SyncService, SyncNodes, Informer, EditIps, EditMode, EditType, DeleteService, Edit
<1> QED BY <1>1, <1>2, <1>3, <1>4 DEF Next, Step

\* The informer's copy is the service as it is or as it was.
LEMMA CacheSteps ==
    ASSUME TypeOK, Next, NEW s \in Services
    PROVE  cache'[s] = cache[s] \/ (cache'[s] = api[s] /\ api' = api)
<1>1. ASSUME NEW r \in Services, Informer(r)
      PROVE  api' = api /\ (cache'[s] = cache[s] \/ cache'[s] = api[s])
  BY <1>1 DEF Informer, TypeOK
<1>2. ASSUME NEW t \in Threads, Step(t) \/ CallFails(t) PROVE cache' = cache
  BY <1>2 DEF Step, GetLoadBalancer, ensureValidConfig, nextLbActions, AssignFloatingIP,
              EnsureLoadBalancer, UpdateLoadBalancer, EnsureLoadBalancerDeleted,
              RunFinalizer, CallFails
<1>3. ASSUME NEW r \in Services,
             \/ SyncService(r) \/ SyncNodes(r)
             \/ EditIps(r) \/ EditMode(r) \/ EditType(r) \/ DeleteService(r)
      PROVE  cache' = cache
  BY <1>3 DEF SyncService, SyncNodes, EditIps, EditMode, EditType, DeleteService, Edit
<1> QED BY <1>1, <1>2, <1>3 DEF Next

-----------------------------------------------------------------------------
(* The parts of the invariant, one by one.                                   *)

LEMMA CopyInductive == TypeOK /\ CopyInv /\ Next => CopyInv'
<1> SUFFICES ASSUME TypeOK, CopyInv, Next PROVE CopyInv'
  OBVIOUS
<1>1. ASSUME NEW s \in Services, cache'[s].phase = "gone" PROVE api'[s].phase = "gone"
  BY <1>1, CacheSteps, GivenUpStep DEF CopyInv
<1>2. ASSUME NEW t \in Threads
      PROVE  snap'[t].phase # "gone" /\ (t[2] = "node" => snap'[t].phase # "unwanted")
  <2>1. [snap[t] EXCEPT !.phase = "deleting"].phase = "deleting"
    BY DEF TypeOK, ServiceObject
  <2>2. CASE snap'[t] = snap[t] \/ snap'[t] = Fresh(None)
    BY <2>2, FreshFacts DEF CopyInv
  <2>3. CASE /\ t[2] = "service"
             /\ \/ cache[t[1]].phase # "gone" /\ snap'[t] = cache[t[1]]
                \/ snap'[t] = [snap[t] EXCEPT !.phase = "deleting"]
    BY <2>1, <2>3
  <2>4. CASE snap'[t].phase \in {"wanted", "deleting"}
    BY <2>4
  <2> QED BY <2>2, <2>3, <2>4, CallSteps
<1> QED BY <1>1, <1>2 DEF CopyInv

LEMMA PlanInductive == TypeOK /\ PlanInv /\ Next => PlanInv'
<1> SUFFICES ASSUME TypeOK, PlanInv, Next, NEW t \in Threads, pc'[t] = "assign"
             PROVE  ~Deletes(t)' /\ todo'[t] \subseteq annotationList(snap[t])'
  BY DEF PlanInv
<1>1. snap'[t] = snap[t] /\ (pc[t] = "assign" \/ nextLbActions(t))
  BY CallSteps
<1>2. ~Deletes(t)
  BY <1>1 DEF PlanInv, nextLbActions
<1>3. CASE nextLbActions(t)
  <2>1. FloatingIPActions(t) \subseteq annotationList(snap[t])
    BY DEF FloatingIPActions
  <2>2. todo'[t] = FloatingIPActions(t)
    BY <1>3 DEF nextLbActions, TypeOK
  <2> QED BY <1>1, <1>2, <2>1, <2>2 DEF Deletes, annotationList
<1>4. CASE ~nextLbActions(t)
  <2>1. todo'[t] \subseteq todo[t] /\ todo[t] \subseteq annotationList(snap[t])
    BY <1>1, <1>4, PlanSteps DEF PlanInv
  <2> QED BY <1>1, <1>2, <2>1 DEF Deletes, annotationList
<1> QED BY <1>3, <1>4

\* A handler that does not delete has a copy of a service of type LoadBalancer.
LEMMA ListsFacts ==
    ASSUME TypeOK, CopyInv, NEW t \in Threads, ~Deletes(t), NEW ip \in annotationList(snap[t])
    PROVE  Lists(snap[t], ip)
<1>1. snap[t].phase \in {"wanted", "unwanted", "deleting", "gone"} /\ t[2] \in {"service", "node"}
  BY ThreadType DEF TypeOK, ServiceObject
<1> QED BY <1>1 DEF CopyInv, Deletes, Lists

LEMMA ClaimInductive == TypeOK /\ CopyInv /\ PlanInv /\ ClaimInv /\ Next => ClaimInv'
<1> SUFFICES ASSUME TypeOK, CopyInv, PlanInv, ClaimInv, Next PROVE ClaimInv'
  OBVIOUS
<1>1. ASSUME NEW s \in Services, NEW ip \in Ips, Lists(cache[s], ip)' PROVE Held(s, ip)'
  <2>1. CASE cache'[s] = cache[s]
    <3>1. Lists(cache[s], ip)
      BY <1>1, <2>1 DEF Lists, annotationList
    <3> QED BY <3>1, HeldStep DEF ClaimInv
  <2>2. CASE cache'[s] = api[s] /\ api' = api
    BY <1>1, <2>2 DEF Lists, Held, Claims, annotationList
  <2> QED BY <2>1, <2>2, CacheSteps
<1>2. ASSUME NEW s \in Services, NEW ip \in Ips, holder'[ip] = s PROVE Held(s, ip)'
  <2>1. CASE holder'[ip] = holder[ip]
    BY <1>2, <2>1, HeldStep DEF ClaimInv
  <2>2. ASSUME NEW t \in Threads, pc[t] = "assign", ip \in todo[t], holder'[ip] = t[1]
        PROVE  Held(s, ip)'
    <3>1. Lists(snap[t], ip)
      BY <2>2, ListsFacts DEF PlanInv
    <3> QED BY <1>2, <2>2, <3>1, HeldStep DEF ClaimInv
  <2> QED BY <1>2, <2>1, <2>2, HolderSteps, ValuesAssumption
<1>3. ASSUME NEW t \in Threads, NEW ip \in Ips, Lists(snap[t], ip)' PROVE Held(t[1], ip)'
  <2>1. t[1] \in Services /\ <<t[1], "service">> \in Threads
    BY ThreadType
  <2>2. CASE snap'[t] = snap[t]
    <3>1. Lists(snap[t], ip)
      BY <1>3, <2>2 DEF Lists, annotationList
    <3> QED BY <2>1, <3>1, HeldStep DEF ClaimInv
  <2>3. CASE snap'[t] = Fresh(None)
    <3>1. annotationList(snap[t])' = {}
      BY <2>3, FreshFacts DEF annotationList
    <3> QED BY <1>3, <3>1 DEF Lists
  <2>4. CASE snap'[t] = cache[t[1]]
    <3>1. Lists(cache[t[1]], ip)
      BY <1>3, <2>4 DEF Lists, annotationList
    <3> QED BY <2>1, <3>1, HeldStep DEF ClaimInv
  <2>5. CASE cache[t[1]].phase = "gone"
    <3>1. Held(t[1], ip)
      BY <2>1, <2>5 DEF CopyInv, Held, GivenUp
    <3> QED BY <2>1, <3>1, HeldStep
  <2>6. CASE snap'[t] = snap[<<t[1], "service">>]
    <3> DEFINE q == <<t[1], "service">>
    <3>1. Lists(snap[q], ip) /\ q[1] = t[1]
      BY <1>3, <2>6 DEF Lists, annotationList
    <3>2. Held(q[1], ip)
      BY <2>1, <3>1 DEF ClaimInv
    <3> QED BY <2>1, <3>1, <3>2, HeldStep
  <2> QED BY <2>2, <2>3, <2>4, <2>5, <2>6, CallSteps
<1> QED BY <1>1, <1>2, <1>3 DEF ClaimInv

LEMMA PassedInductive ==
    TypeOK /\ CopyInv /\ PlanInv /\ ClaimInv /\ PassedInv /\ Next => PassedInv'
<1> SUFFICES ASSUME TypeOK, CopyInv, PlanInv, ClaimInv, PassedInv, Next PROVE PassedInv'
  OBVIOUS
<1>1. \A s \in Services, ip \in Ips : GivenUp(s, ip) => GivenUp(s, ip)'
  BY GivenUpStep DEF GivenUp
<1>2. ASSUME NEW t \in Threads, NEW ip \in Ips, Checked(t, ip)'
      PROVE  /\ ~Deletes(t) /\ ip \in annotationList(snap[t])
             /\ Checked(t, ip) \/ ~ConfigErrs(t)
  <2>1. pc'[t] \in {"checked", "assign"}
    BY <1>2 DEF Checked
  <2>2. snap'[t] = snap[t]
    BY <2>1, CallSteps
  <2>3. ~Deletes(t) /\ ip \in annotationList(snap[t])
    BY <1>2, <2>2 DEF Checked, Deletes, annotationList
  <2>4. pc[t] \in {"checked", "assign"} \/ ~ConfigErrs(t)
    BY <2>1, CallSteps
  <2> QED BY <2>3, <2>4 DEF Checked
<1>3. \* Whoever passes the check does so against services that passed it before.
      ASSUME NEW s \in Services, NEW ip \in Ips, Passed(s, ip)'
      PROVE  \/ Passed(s, ip)
             \/ \A r \in Services \ {s} : Held(r, ip) => GivenUp(r, ip)
  <2>1. CASE holder'[ip] = s
    <3>1. CASE holder'[ip] = holder[ip]
      BY <2>1, <3>1 DEF Passed
    <3>2. ASSUME NEW t \in Threads, pc[t] = "assign", ip \in todo[t], holder'[ip] = t[1]
          PROVE  Passed(s, ip)
      <4>1. Checked(t, ip)
        BY <3>2 DEF PlanInv, Checked
      <4> QED BY <2>1, <3>2, <4>1 DEF Passed
    <3> QED BY <2>1, <3>1, <3>2, HolderSteps, ValuesAssumption
  <2>2. ASSUME NEW t \in Threads, t[1] = s, Checked(t, ip)'
        PROVE  \/ Passed(s, ip)
               \/ \A r \in Services \ {s} : Held(r, ip) => GivenUp(r, ip)
    <3>1. CASE Checked(t, ip)
      BY <2>2, <3>1 DEF Passed
    <3>2. CASE ~ConfigErrs(t)
      <4>1. ASSUME NEW r \in Services \ {s} PROVE ~Claims(r, ip)
        BY <1>2, <2>2, <3>2, <4>1 DEF ConfigErrs, findIPsAssignedElsewhere, Claims
      <4> QED BY <4>1 DEF Held
    <3> QED BY <2>2, <3>1, <3>2, <1>2
  <2> QED BY <1>3, <2>1, <2>2 DEF Passed
<1>4. \* Who has passed the check held the Floating IP before this step.
      ASSUME NEW s \in Services, NEW ip \in Ips, Passed(s, ip)' PROVE Held(s, ip)
  <2>1. CASE holder'[ip] = s
    <3>1. CASE holder'[ip] = holder[ip]
      BY <2>1, <3>1 DEF ClaimInv
    <3>2. ASSUME NEW t \in Threads, pc[t] = "assign", ip \in todo[t], holder'[ip] = t[1]
          PROVE  Held(s, ip)
      BY <2>1, <3>2, ListsFacts DEF PlanInv, ClaimInv
    <3> QED BY <2>1, <3>1, <3>2, HolderSteps, ValuesAssumption
  <2>2. ASSUME NEW t \in Threads, t[1] = s, Checked(t, ip)' PROVE Held(s, ip)
    BY <1>2, <2>2, ListsFacts DEF ClaimInv
  <2> QED BY <1>4, <2>1, <2>2 DEF Passed
<1>5. ASSUME NEW ip \in Ips, NEW s \in Services, NEW r \in Services, s # r,
             Passed(s, ip)', Passed(r, ip)'
      PROVE  GivenUp(s, ip) \/ GivenUp(r, ip)
  BY <1>3, <1>4, <1>5 DEF PassedInv
<1> QED BY <1>1, <1>5 DEF PassedInv

LEMMA FloatingInvariance == Spec => [](TypeOK /\ FloatingInv)
<1>1. TypeOK /\ FloatingInv /\ [Next]_vars => FloatingInv'
  <2>1. TypeOK /\ FloatingInv /\ Next => FloatingInv'
    BY CopyInductive, PlanInductive, ClaimInductive, PassedInductive DEF FloatingInv
  <2>2. ASSUME FloatingInv, UNCHANGED vars PROVE FloatingInv'
    <3>1. CopyInv' /\ PlanInv'
      BY <2>2 DEF vars, FloatingInv, CopyInv, PlanInv, Deletes, annotationList
    <3>2. ClaimInv'
      BY <2>2 DEF vars, FloatingInv, ClaimInv, Lists, Held, Claims, GivenUp, annotationList
    <3>3. PassedInv'
      BY <2>2 DEF vars, FloatingInv, PassedInv, Passed, Checked, GivenUp, Deletes, annotationList
    <3> QED BY <3>1, <3>2, <3>3 DEF FloatingInv
  <2> QED BY <2>1, <2>2
<1> QED BY <1>1, FloatingInit, TypeCorrect, PTL DEF Spec

\* No flapping: a Floating IP moves from one service to another only if one of
\* them has given it up or is gone, for any number of services, addresses,
\* edits and node syncs with older copies.
THEOREM NotStolenHolds == Spec => NotStolen
<1> DEFINE Moves == \A ip \in Ips :
              holder[ip] # None /\ holder'[ip] # None /\ holder'[ip] # holder[ip] =>
                  GivenUp(holder[ip], ip) \/ GivenUp(holder'[ip], ip)
<1>1. ASSUME TypeOK, FloatingInv, Next PROVE Moves
  <2> SUFFICES ASSUME NEW ip \in Ips, holder[ip] # None, holder'[ip] # None,
                      holder'[ip] # holder[ip]
               PROVE  GivenUp(holder[ip], ip) \/ GivenUp(holder'[ip], ip)
    OBVIOUS
  <2>1. PICK t \in Threads : pc[t] = "assign" /\ ip \in todo[t] /\ holder'[ip] = t[1]
    BY <1>1, HolderSteps
  <2>2. Checked(t, ip)
    BY <1>1, <2>1 DEF FloatingInv, PlanInv, Checked
  <2>3. t[1] \in Services /\ Passed(t[1], ip)
    BY <2>2, ThreadType DEF Passed
  <2>4. holder[ip] \in Services /\ Passed(holder[ip], ip)
    BY <1>1 DEF TypeOK, Passed
  <2> QED BY <1>1, <2>1, <2>3, <2>4 DEF FloatingInv, PassedInv
<1>2. TypeOK /\ FloatingInv /\ [Next]_vars => [Moves]_vars
  BY <1>1
<1> QED BY <1>2, FloatingInvariance, PTL DEF Spec, NotStolen
=============================================================================
