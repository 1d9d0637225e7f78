------------------------ MODULE LoadBalancer_proofs ------------------------
(* Proofs about the life of a service's load balancer, for every number of  *)
(* services and balancers and every bound.                                  *)
EXTENDS LoadBalancer, TLAPS

\* A worker is a service and a kind.
LEMMA ThreadFacts ==
    /\ \A t \in Threads : t[1] \in Services /\ t[2] \in {"service", "node"}
    /\ \A s \in Services : <<s, "service">> \in Threads /\ <<s, "node">> \in Threads
    /\ \A t \in Threads : t = <<t[1], t[2]>>
BY DEF Threads

\* The copies of a service start out as objects without a UUID.
LEMMA AbsentType == \A s \in Services : Absent(s) \in ServiceObject
BY NamesAssumption, BoundsAssumption DEF Absent, ServiceObject, Phases

\* Writing a field of a service keeps its type.
LEMMA ServiceUpdates ==
    ASSUME NEW o \in ServiceObject
    PROVE  /\ \A x \in Phases : [o EXCEPT !.phase = x] \in ServiceObject
           /\ \A x \in BOOLEAN : [o EXCEPT !.finalizer = x] \in ServiceObject
           /\ \A x \in Names : [o EXCEPT !.name = x] \in ServiceObject
           /\ \A x \in 0..MaxConfig : [o EXCEPT !.config = x] \in ServiceObject
           /\ \A x \in Phases, b \in BOOLEAN :
                 [o EXCEPT !.phase = x, !.finalizer = b] \in ServiceObject
           /\ \A x \in Phases, c \in 0..MaxConfig :
                 [o EXCEPT !.phase = x, !.config = c] \in ServiceObject
<1>1. \A x \in Phases : [o EXCEPT !.phase = x] \in ServiceObject
  BY DEF ServiceObject
<1>2. \A x \in BOOLEAN : [o EXCEPT !.finalizer = x] \in ServiceObject
  BY DEF ServiceObject
<1>3. \A x \in Names : [o EXCEPT !.name = x] \in ServiceObject
  BY DEF ServiceObject
<1>4. \A x \in 0..MaxConfig : [o EXCEPT !.config = x] \in ServiceObject
  BY DEF ServiceObject
<1>5. \A x \in Phases, b \in BOOLEAN : [o EXCEPT !.phase = x, !.finalizer = b] \in ServiceObject
  BY DEF ServiceObject
<1>6. \A x \in Phases, c \in 0..MaxConfig : [o EXCEPT !.phase = x, !.config = c] \in ServiceObject
  BY DEF ServiceObject
<1> QED BY <1>1, <1>2, <1>3, <1>4, <1>5, <1>6

\* The lookups return balancers that exist, or none.
LEMMA LookupType ==
    ASSUME TypeOK, NEW svc \in ServiceObject, NEW g \in BOOLEAN, NEW l \in BOOLEAN
    PROVE  LET found == findByServiceInfo(svc, g, l) IN
           /\ found.elements \subseteq Uuids
           /\ \A u \in found.elements : Live(u)
           /\ AtMostOne(found) \in found.elements \cup {None}
           /\ AtMostOne(found) = None => found.elements = {}
<1> DEFINE found == findByServiceInfo(svc, g, l)
<1>1. found.elements \subseteq Uuids /\ \A u \in found.elements : Live(u)
  BY DEF findByServiceInfo, Join, getByUUID, findByName, New, ServiceObject
<1>2. found.elements # {} => AtMostOne(found) \in found.elements
  BY DEF AtMostOne
<1>3. found.elements = {} => AtMostOne(found) = None
  BY DEF AtMostOne
<1>4. None \notin Uuids
  BY NoneAssumption
<1> QED BY <1>1, <1>2, <1>3, <1>4

LEMMA FaultsOfType ==
    ASSUME NEW svc, NEW g, NEW l
    PROVE  FaultsOf(svc, g, l) \in Nat
BY DEF FaultsOf

LEMMA ChargeLookupType ==
    ASSUME TypeOK, NEW t, NEW g, NEW l, ChargeLookup(t, g, l)
    PROVE  faults' \in 0..MaxFaults
BY FaultsOfType, BoundsAssumption DEF ChargeLookup, TypeOK

LEMMA ReturnType ==
    ASSUME TypeOK, NEW t \in Threads, NEW next \in PCs, Return(t, next)
    PROVE  /\ pc' \in [Threads -> PCs]
           /\ lock' \in [Services -> Threads \cup {None}]
           /\ seen' \in [Threads -> Uuids \cup {None}]
           /\ snap' \in [Threads -> ServiceObject]
BY ThreadFacts, AbsentType DEF Return, TypeOK

LEMMA FailType ==
    ASSUME TypeOK, NEW t \in Threads, Fail(t)
    PROVE  /\ pc' \in [Threads -> PCs]
           /\ lock' \in [Services -> Threads \cup {None}]
           /\ seen' \in [Threads -> Uuids \cup {None}]
           /\ snap' \in [Threads -> ServiceObject]
           /\ queued' \in [Services -> BOOLEAN]
<1>1. "idle" \in PCs
  BY DEF PCs
<1>2. Return(t, "idle")
  BY DEF Fail
<1>3. queued' \in [Services -> BOOLEAN]
  BY ThreadFacts DEF Fail, TypeOK
<1> QED BY <1>1, <1>2, <1>3, ReturnType

LEMMA RestartType ==
    ASSUME TypeOK, Restart
    PROVE  /\ pc' \in [Threads -> PCs]
           /\ lock' \in [Services -> Threads \cup {None}]
           /\ seen' \in [Threads -> Uuids \cup {None}]
           /\ snap' \in [Threads -> ServiceObject]
           /\ cache' \in [Services -> ServiceObject]
           /\ queued' \in [Services -> BOOLEAN]
           /\ known' \in [Services -> BOOLEAN]
BY ThreadFacts, AbsentType DEF Restart, TypeOK, PCs

\* The effects of the API calls keep the types.
LEMMA EffectTypes ==
    ASSUME TypeOK, NEW t \in Threads
    PROVE  /\ \A u \in Uuids : CreateLb(t, u) => lb' \in [Uuids -> LoadBalancers]
           /\ seen[t] # None /\ DeleteLb(t) => lb' \in [Uuids -> LoadBalancers]
           /\ RenameLb(t) => lb' \in [Uuids -> LoadBalancers]
           /\ \A st \in {"running", "changing"} :
                 ApplyConfig(t, st) => lb' \in [Uuids -> LoadBalancers]
           /\ seen[t] # None /\ AnnotateService(t) => api' \in [Services -> ServiceObject]
           /\ RemoveFinalizer(t) => api' \in [Services -> ServiceObject]
<1>1. snap[t] \in ServiceObject /\ t[1] \in Services /\ snap[t].name \in Names
      /\ snap[t].config \in 0..MaxConfig
  BY ThreadFacts DEF TypeOK, ServiceObject
<1>2. 0 \in 0..MaxConfig
  BY BoundsAssumption
<1>3. ASSUME NEW u \in Uuids, CreateLb(t, u) PROVE lb' \in [Uuids -> LoadBalancers]
  BY <1>1, <1>2, <1>3 DEF CreateLb, TypeOK, LoadBalancers
<1>4. ASSUME seen[t] # None, DeleteLb(t) PROVE lb' \in [Uuids -> LoadBalancers]
  BY <1>1, <1>2, <1>4 DEF DeleteLb, TypeOK, LoadBalancers
<1>5. ASSUME RenameLb(t) PROVE lb' \in [Uuids -> LoadBalancers]
  BY <1>1, <1>5 DEF RenameLb, TypeOK, LoadBalancers
<1>6. ASSUME NEW st \in {"running", "changing"}, ApplyConfig(t, st)
      PROVE lb' \in [Uuids -> LoadBalancers]
  BY <1>1, <1>6 DEF ApplyConfig, TypeOK, LoadBalancers
<1>7. ASSUME seen[t] # None, AnnotateService(t) PROVE api' \in [Services -> ServiceObject]
  <2> DEFINE o == api[t[1]]
             n == DefaultName[t[1]]
  <2>1. o \in ServiceObject /\ seen[t] \in Uuids /\ n \in Names
    BY <1>1, <1>7, NamesAssumption DEF TypeOK
  <2>2. /\ [o EXCEPT !.uuid = seen[t]] \in ServiceObject
        /\ [o EXCEPT !.uuid = seen[t], !.name = n] \in ServiceObject
    BY <2>1 DEF ServiceObject
  <2>3. \/ api' = api
        \/ api' = [api EXCEPT ![t[1]] = [o EXCEPT !.uuid = seen[t]]]
        \/ api' = [api EXCEPT ![t[1]] = [o EXCEPT !.uuid = seen[t], !.name = n]]
    BY <1>7, <1>1 DEF AnnotateService, TypeOK
  <2> HIDE DEF o, n
  <2> QED BY <1>1, <2>2, <2>3 DEF TypeOK
<1>8. ASSUME RemoveFinalizer(t) PROVE api' \in [Services -> ServiceObject]
  <2>1. api[t[1]] \in ServiceObject
    BY <1>1 DEF TypeOK
  <2>2. WithoutFinalizer(api[t[1]]) \in ServiceObject
    BY <2>1 DEF WithoutFinalizer, ServiceObject, Phases
  <2> QED BY <2>2, <1>8, <1>1 DEF RemoveFinalizer, TypeOK
<1> QED BY <1>3, <1>4, <1>5, <1>6, <1>7, <1>8

LEMMA InitType == Init => TypeOK
<1> SUFFICES ASSUME Init PROVE TypeOK
  OBVIOUS
<1>1. Unused \in LoadBalancers
  BY BoundsAssumption DEF Unused, LoadBalancers
<1>2. "idle" \in PCs
  BY DEF PCs
<1>3. faults \in 0..MaxFaults /\ crashes \in 0..MaxCrashes /\ toggles \in 0..MaxToggles
  BY BoundsAssumption DEF Init
<1> QED BY <1>1, <1>2, <1>3, AbsentType, ThreadFacts DEF Init, TypeOK

\* One step per action.
LEMMA NextType == TypeOK /\ [Next]_vars => TypeOK'
<1> SUFFICES ASSUME TypeOK, [Next]_vars PROVE TypeOK'
  OBVIOUS
<1> USE ThreadFacts
<1>pcs. \A p \in Critical \cup {"idle", "get", "lock", "finalizer"} : p \in PCs
  BY DEF Critical, PCs
<1>look. ASSUME NEW t \in Threads, NEW g \in BOOLEAN, NEW l \in BOOLEAN
         PROVE  AtMostOne(findByServiceInfo(snap[t], g, l)) \in Uuids \cup {None}
  BY LookupType DEF TypeOK
<1>phs. \A x \in {"wanted", "unwanted", "deleting", "gone"} : x \in Phases
  BY DEF Phases
<1>obj. \A s \in Services : api[s] \in ServiceObject
  BY DEF TypeOK
<1>out. LookupOutcomes \subseteq BOOLEAN
  BY DEF LookupOutcomes
<1>1. ASSUME NEW t \in Threads, GetLoadBalancer(t) PROVE TypeOK'
  <2>1. PICK g \in LookupOutcomes, l \in LookupOutcomes :
          /\ ChargeLookup(t, g, l)
          /\ \/ Fail(t)
             \/ /\ \E p \in {"finalizer", "lock"} : Goto(t, p)
                /\ UNCHANGED seen
    BY <1>1 DEF GetLoadBalancer
  <2>2. faults' \in 0..MaxFaults
    BY <2>1, ChargeLookupType
  <2>3. CASE Fail(t)
    BY <1>1, <2>2, <2>3, FailType DEF GetLoadBalancer, TypeOK
  <2>4. CASE (\E p \in {"finalizer", "lock"} : Goto(t, p)) /\ UNCHANGED seen
    BY <1>1, <2>2, <2>4 DEF GetLoadBalancer, Goto, TypeOK, PCs
  <2> QED BY <2>1, <2>3, <2>4
<1>2. ASSUME NEW t \in Threads, lockForService(t) PROVE TypeOK'
  BY <1>2 DEF lockForService, TypeOK, PCs, bounds
<1>3. ASSUME NEW t \in Threads, reconcileLbState(t) PROVE TypeOK'
  <2>1. PICK g \in LookupOutcomes, l \in LookupOutcomes :
          LET u == AtMostOne(findByServiceInfo(snap[t], g, l)) IN
          /\ ChargeLookup(t, g, l)
          /\ \/ Fail(t)
             \/ Return(t, "finalizer") /\ UNCHANGED queued
             \/ /\ Goto(t, nextLbActions(t, u))
                /\ seen' = [seen EXCEPT ![t] = u]
    BY <1>3 DEF reconcileLbState
  <2> DEFINE u == AtMostOne(findByServiceInfo(snap[t], g, l))
  <2>2. faults' \in 0..MaxFaults
    BY <2>1, ChargeLookupType
  <2>3. CASE Fail(t)
    BY <1>3, <2>2, <2>3, FailType DEF reconcileLbState, TypeOK
  <2>4. CASE Return(t, "finalizer") /\ UNCHANGED queued
    BY <1>3, <2>2, <2>4, ReturnType, <1>pcs DEF reconcileLbState, TypeOK
  <2>5. CASE Goto(t, nextLbActions(t, u)) /\ seen' = [seen EXCEPT ![t] = u]
    <3>1. u \in Uuids \cup {None}
      BY <1>look, <1>out
    <3>2. nextLbActions(t, u) \in PCs
      BY DEF nextLbActions, PCs
    <3> HIDE DEF u
    <3> QED BY <1>3, <2>2, <2>5, <3>1, <3>2 DEF reconcileLbState, Goto, TypeOK
  <2> QED BY <2>1, <2>3, <2>4, <2>5
<1>4. ASSUME NEW t \in Threads, RunCreateLb(t) PROVE TypeOK'
  <2>1. lb' \in [Uuids -> LoadBalancers]
    BY <1>4, EffectTypes DEF RunCreateLb
  <2> QED BY <1>4, <2>1, <1>pcs DEF RunCreateLb, Goto, TypeOK, bounds, Critical
<1>5. ASSUME NEW t \in Threads, RunDeleteLb(t) PROVE TypeOK'
  <2>1. CASE Live(seen[t]) /\ seen[t] # None
    BY <1>5, <2>1, EffectTypes, ReturnType, <1>pcs DEF RunDeleteLb, TypeOK, bounds
  <2>2. CASE ~Live(seen[t])
    BY <1>5, <2>2, FailType DEF RunDeleteLb, TypeOK, bounds
  <2>3. CASE Live(seen[t]) /\ seen[t] = None
    <3>1. lb' = lb
      BY <1>5, <2>3, NoneAssumption DEF RunDeleteLb, DeleteLb, TypeOK
    <3> QED BY <1>5, <2>3, <3>1, ReturnType, <1>pcs DEF RunDeleteLb, TypeOK, bounds
  <2> QED BY <2>1, <2>2, <2>3
<1>6. ASSUME NEW t \in Threads, RunApply(t) PROVE TypeOK'
  <2>1. CASE Live(seen[t]) /\ t[2] = "node"
    BY <1>6, <2>1, EffectTypes, ReturnType, <1>pcs DEF RunApply, TypeOK, bounds
  <2>2. CASE Live(seen[t]) /\ t[2] = "service"
    <3>1. lb' \in [Uuids -> LoadBalancers]
      BY <1>6, <2>2, EffectTypes DEF RunApply
    <3> QED BY <1>6, <2>2, <3>1 DEF RunApply, TypeOK, PCs, bounds
  <2>3. CASE ~Live(seen[t])
    BY <1>6, <2>3, FailType DEF RunApply, TypeOK, bounds
  <2> QED BY <2>1, <2>2, <2>3
<1>7. ASSUME NEW t \in Threads, FinalState(t) PROVE TypeOK'
  <2>1. PICK g \in LookupOutcomes, l \in LookupOutcomes :
          LET u == AtMostOne(findByServiceInfo(snap[t], g, l)) IN
          /\ ChargeLookup(t, g, l)
          /\ \/ Fail(t)
             \/ Goto(t, "annotate") /\ seen' = [seen EXCEPT ![t] = u]
    BY <1>7 DEF FinalState
  <2> DEFINE u == AtMostOne(findByServiceInfo(snap[t], g, l))
  <2>2. faults' \in 0..MaxFaults
    BY <2>1, ChargeLookupType
  <2>3. CASE Fail(t)
    BY <1>7, <2>2, <2>3, FailType DEF FinalState, TypeOK
  <2>4. CASE Goto(t, "annotate") /\ seen' = [seen EXCEPT ![t] = u]
    <3>1. u \in Uuids \cup {None}
      BY <1>look, <1>out
    <3> HIDE DEF u
    <3> QED BY <1>7, <2>2, <2>4, <3>1 DEF FinalState, Goto, TypeOK, PCs
  <2> QED BY <2>1, <2>3, <2>4
<1>8. ASSUME NEW t \in Threads, RunAnnotate(t) PROVE TypeOK'
  <2>1. CASE Fail(t) /\ UNCHANGED api
    BY <1>8, <2>1, FailType DEF RunAnnotate, TypeOK, bounds
  <2>2. CASE AnnotateService(t) /\ Return(t, "idle") /\ UNCHANGED queued
    <3>1. api' \in [Services -> ServiceObject]
      BY <1>8, <2>2, EffectTypes DEF RunAnnotate
    <3> QED BY <1>8, <2>2, <3>1, ReturnType, <1>pcs DEF RunAnnotate, TypeOK, bounds
  <2> QED BY <1>8, <2>1, <2>2 DEF RunAnnotate
<1>9. ASSUME NEW t \in Threads, RunPanic(t) PROVE TypeOK'
  BY <1>9, RestartType DEF RunPanic, TypeOK, bounds
<1>10. ASSUME NEW t \in Threads, RunFinalizer(t) PROVE TypeOK'
  BY <1>10, EffectTypes, ReturnType, <1>pcs DEF RunFinalizer, TypeOK, bounds
<1>11. ASSUME NEW t \in Threads, CallFails(t) PROVE TypeOK'
  BY <1>11, FailType, BoundsAssumption DEF CallFails, Charge, TypeOK
<1>12. ASSUME NEW t \in Threads, AnswerLost(t) PROVE TypeOK'
  <2>1. faults' \in 0..MaxFaults
    BY <1>12, BoundsAssumption DEF AnswerLost, Charge, TypeOK
  <2>2. lb' \in [Uuids -> LoadBalancers] /\ api' \in [Services -> ServiceObject]
    <3>1. CASE pc[t] = "delete" /\ Live(seen[t]) /\ DeleteLb(t) /\ UNCHANGED api
      <4>1. CASE seen[t] = None
        BY <3>1, <4>1, NoneAssumption DEF DeleteLb, TypeOK
      <4> QED BY <3>1, <4>1, EffectTypes DEF TypeOK
    <3> QED BY <1>12, <3>1, EffectTypes DEF AnswerLost, TypeOK
  <2> QED BY <1>12, <2>1, <2>2, FailType DEF AnswerLost, TypeOK
<1>13. ASSUME NEW s \in Services, Informer(s) PROVE TypeOK'
  BY <1>13 DEF Informer, TypeOK, localVars, bounds
<1>14. ASSUME NEW s \in Services, SyncService(s) PROVE TypeOK'
  <2> DEFINE t == <<s, "service">>
  <2>1. /\ known' \in [Services -> BOOLEAN] /\ queued' \in [Services -> BOOLEAN]
        /\ pc' \in [Threads -> PCs]
    BY <1>14 DEF SyncService, TypeOK, PCs
  <2>3. api' \in [Services -> ServiceObject]
    <3>1. [api[s] EXCEPT !.finalizer = @ \/ ~cache[s].finalizer] \in ServiceObject
      <4>1. (api[s].finalizer \/ ~cache[s].finalizer) \in BOOLEAN
        OBVIOUS
      <4> QED BY <4>1, ServiceUpdates DEF TypeOK
    <3> QED BY <1>14, <3>1 DEF SyncService, TypeOK
  <2>2. snap' \in [Threads -> ServiceObject]
    <3>1. [snap[t] EXCEPT !.phase = "deleting", !.finalizer = FALSE] \in ServiceObject
      BY ServiceUpdates DEF TypeOK, Phases
    <3>2. cache[s] \in ServiceObject
      BY DEF TypeOK
    <3> QED BY <1>14, <3>1, <3>2 DEF SyncService, TypeOK
  <2> QED BY <1>14, <2>1, <2>2, <2>3 DEF SyncService, TypeOK, bounds
<1>15. ASSUME NEW s \in Services, SyncNodes(s) PROVE TypeOK'
  BY <1>15 DEF SyncNodes, TypeOK, PCs, k8sVars, bounds
<1>16. ASSUME NEW s \in Services, CreateService(s) PROVE TypeOK'
  <2>1. [api[s] EXCEPT !.phase = "wanted", !.config = 1] \in ServiceObject
    <3>1. 1 \in 0..MaxConfig
      BY BoundsAssumption
    <3> QED BY <3>1, <1>phs, <1>obj, ServiceUpdates
  <2> QED BY <1>16, <2>1 DEF CreateService, TypeOK, localVars, bounds
<1>17. ASSUME NEW s \in Services, EditConfig(s) PROVE TypeOK'
  <2>1. api' \in [Services -> ServiceObject]
    <3>1. api[s].config + 1 \in 0..MaxConfig
      BY <1>17, BoundsAssumption DEF EditConfig, TypeOK, ServiceObject
    <3>2. [api[s] EXCEPT !.config = api[s].config + 1] \in ServiceObject
      BY <3>1, ServiceUpdates DEF TypeOK
    <3> QED BY <1>17, <3>2 DEF EditConfig, TypeOK
  <2> QED BY <1>17, <2>1 DEF EditConfig, TypeOK, localVars, bounds
<1>18. ASSUME NEW s \in Services, EditName(s) PROVE TypeOK'
  <2>1. api' \in [Services -> ServiceObject]
    <3>1. \A n \in CustomNames : [api[s] EXCEPT !.name = n] \in ServiceObject
      BY NamesAssumption, <1>obj, ServiceUpdates
    <3> QED BY <1>18, <3>1 DEF EditName, TypeOK
  <2> QED BY <1>18, <2>1 DEF EditName, TypeOK, localVars, bounds
<1>19. ASSUME NEW s \in Services, EditType(s) PROVE TypeOK'
  <2>1. api' \in [Services -> ServiceObject]
    <3>1. \A x \in {"wanted", "unwanted"} : [api[s] EXCEPT !.phase = x] \in ServiceObject
      BY <1>phs, <1>obj, ServiceUpdates
    <3> QED BY <1>19, <3>1 DEF EditType, TypeOK
  <2>2. toggles' \in 0..MaxToggles
    BY <1>19, BoundsAssumption DEF EditType, TypeOK
  <2> QED BY <1>19, <2>1, <2>2 DEF EditType, TypeOK, localVars
<1>20. ASSUME NEW s \in Services, DeleteService(s) PROVE TypeOK'
  <2>1. api' \in [Services -> ServiceObject]
    <3>1. \A x \in {"deleting", "gone"} : [api[s] EXCEPT !.phase = x] \in ServiceObject
      BY <1>phs, <1>obj, ServiceUpdates
    <3> QED BY <1>20, <3>1 DEF DeleteService, TypeOK
  <2> QED BY <1>20, <2>1 DEF DeleteService, TypeOK, localVars, bounds
<1>21. ASSUME NEW u \in Uuids, Provision(u) PROVE TypeOK'
  <2>1. lb' \in [Uuids -> LoadBalancers]
    BY <1>21 DEF Provision, TypeOK, LoadBalancers
  <2> QED BY <1>21, <2>1 DEF Provision, TypeOK, k8sVars, localVars, bounds
<1>22. ASSUME Crash PROVE TypeOK'
  BY <1>22, RestartType, BoundsAssumption DEF Crash, TypeOK
<1>23. CASE UNCHANGED vars
  BY <1>23 DEF vars, TypeOK
<1> QED
  BY <1>1, <1>2, <1>3, <1>4, <1>5, <1>6, <1>7, <1>8, <1>9, <1>10, <1>11, <1>12,
     <1>13, <1>14, <1>15, <1>16, <1>17, <1>18, <1>19, <1>20, <1>21, <1>22, <1>23
  DEF Next, Step

\* Type correctness, for every instance.
THEOREM TypeCorrect == Spec => []TypeOK
<1>1. Init => TypeOK
  BY InitType
<1>2. TypeOK /\ [Next]_vars => TypeOK'
  BY NextType
<1> QED BY <1>1, <1>2, PTL DEF Spec

-----------------------------------------------------------------------------
(* Mutual exclusion.  The invariant ties the critical section to the lock:  *)
(* a worker between mu.Lock() and the deferred unlock is the lock's holder. *)

LockInv == \A t \in Threads : pc[t] \in Critical => lock[t[1]] = t

\* A return leaves the critical section and frees only the worker's own lock.
LEMMA ReturnKeepsLock ==
    ASSUME TypeOK, LockInv, NEW t \in Threads, NEW next \in PCs \ Critical,
           Return(t, next)
    PROVE  LockInv'
<1> SUFFICES ASSUME NEW w \in Threads, pc'[w] \in Critical PROVE lock'[w[1]] = w
  BY DEF LockInv
<1>1. w # t
  BY DEF Return, TypeOK
<1>2. pc[w] \in Critical /\ lock[w[1]] = w
  BY <1>1 DEF Return, TypeOK, LockInv
<1> QED BY <1>1, <1>2, ThreadFacts DEF Return, TypeOK

\* A step inside the critical section, or outside of it, leaves the lock alone.
LEMMA GotoKeepsLock ==
    ASSUME TypeOK, LockInv, NEW t \in Threads, NEW next, UNCHANGED lock,
           pc' = [pc EXCEPT ![t] = next], next \in Critical => pc[t] \in Critical
    PROVE  LockInv'
BY DEF LockInv, TypeOK

LEMMA LockInductive == TypeOK /\ LockInv /\ [Next]_vars => LockInv'
<1> SUFFICES ASSUME TypeOK, LockInv, [Next]_vars PROVE LockInv'
  OBVIOUS
<1>out. {"idle", "finalizer"} \subseteq PCs \ Critical
  BY DEF PCs, Critical
<1>fail. ASSUME NEW t \in Threads, Fail(t) PROVE LockInv'
  BY <1>fail, <1>out, ReturnKeepsLock DEF Fail
<1>same. ASSUME UNCHANGED <<pc, lock>> PROVE LockInv'
  BY <1>same DEF LockInv
<1>restart. ASSUME Restart PROVE LockInv'
  BY <1>restart DEF Restart, LockInv, Critical
<1>1. ASSUME NEW t \in Threads, GetLoadBalancer(t) PROVE LockInv'
  <2>1. Fail(t) \/ \E p \in {"finalizer", "lock"} : Goto(t, p)
    BY <1>1 DEF GetLoadBalancer
  <2> QED BY <2>1, <1>fail, GotoKeepsLock DEF Goto, Critical
<1>2. ASSUME NEW t \in Threads, lockForService(t) PROVE LockInv'
  <2> SUFFICES ASSUME NEW w \in Threads, pc'[w] \in Critical PROVE lock'[w[1]] = w
    BY DEF LockInv
  <2>1. CASE w = t
    BY <1>2, <2>1, ThreadFacts DEF lockForService, TypeOK
  <2>2. CASE w # t
    <3>1. lock[w[1]] = w
      BY <1>2, <2>2 DEF lockForService, TypeOK, LockInv
    <3>2. w[1] # t[1]
      BY <1>2, <3>1, NoneAssumption DEF lockForService
    <3> QED BY <1>2, <3>1, <3>2, ThreadFacts DEF lockForService, TypeOK
  <2> QED BY <2>1, <2>2
<1>3. ASSUME NEW t \in Threads, reconcileLbState(t) PROVE LockInv'
  <2>1. \/ Fail(t) \/ Return(t, "finalizer") \/ \E p : Goto(t, p)
    BY <1>3 DEF reconcileLbState
  <2>2. pc[t] \in Critical
    BY <1>3 DEF reconcileLbState, Critical
  <2> QED BY <2>1, <2>2, <1>fail, <1>out, ReturnKeepsLock, GotoKeepsLock DEF Goto
<1>4. ASSUME NEW t \in Threads, RunCreateLb(t) PROVE LockInv'
  BY <1>4, GotoKeepsLock DEF RunCreateLb, Goto, Critical
<1>5. ASSUME NEW t \in Threads, RunDeleteLb(t) PROVE LockInv'
  BY <1>5, <1>fail, <1>out, ReturnKeepsLock DEF RunDeleteLb
<1>6. ASSUME NEW t \in Threads, RunApply(t) PROVE LockInv'
  BY <1>6, <1>fail, <1>out, ReturnKeepsLock, GotoKeepsLock DEF RunApply, Critical
<1>7. ASSUME NEW t \in Threads, FinalState(t) PROVE LockInv'
  BY <1>7, <1>fail, GotoKeepsLock DEF FinalState, Goto, Critical
<1>8. ASSUME NEW t \in Threads, RunAnnotate(t) \/ RunFinalizer(t) PROVE LockInv'
  BY <1>8, <1>fail, <1>out, ReturnKeepsLock DEF RunAnnotate, RunFinalizer
<1>9. ASSUME NEW t \in Threads, RunPanic(t) PROVE LockInv'
  BY <1>9, <1>restart DEF RunPanic
<1>10. ASSUME NEW t \in Threads, CallFails(t) \/ AnswerLost(t) PROVE LockInv'
  BY <1>10, <1>fail DEF CallFails, AnswerLost
<1>11. ASSUME NEW s \in Services, SyncService(s) PROVE LockInv'
  <2>1. UNCHANGED pc \/ \E p \in {"lock", "get"} : pc' = [pc EXCEPT ![<<s, "service">>] = p]
    BY <1>11 DEF SyncService
  <2>2. UNCHANGED lock
    BY <1>11 DEF SyncService
  <2> QED BY <2>1, <2>2, <1>same, GotoKeepsLock, ThreadFacts DEF Critical
<1>12. ASSUME NEW s \in Services, SyncNodes(s) PROVE LockInv'
  BY <1>12, GotoKeepsLock, ThreadFacts DEF SyncNodes, Critical
<1>13. ASSUME NEW s \in Services,
              \/ Informer(s) \/ CreateService(s) \/ EditConfig(s) \/ EditName(s)
              \/ EditType(s) \/ DeleteService(s)
       PROVE  LockInv'
  BY <1>13, <1>same
  DEF Informer, CreateService, EditConfig, EditName, EditType, DeleteService, localVars
<1>14. ASSUME NEW u \in Uuids, Provision(u) PROVE LockInv'
  BY <1>14, <1>same DEF Provision, localVars
<1>15. ASSUME Crash PROVE LockInv'
  BY <1>15, <1>restart DEF Crash
<1>16. CASE UNCHANGED vars
  BY <1>16, <1>same DEF vars
<1> QED
  BY <1>1, <1>2, <1>3, <1>4, <1>5, <1>6, <1>7, <1>8, <1>9, <1>10, <1>11, <1>12,
     <1>13, <1>14, <1>15, <1>16 DEF Next, Step

\* A service's handlers never overlap: the early returns, the failures and
\* the crashes neither keep the lock nor free it for another holder.
THEOREM MutualExclusionHolds == Spec => []MutualExclusion
<1>1. Init => LockInv
  BY DEF Init, LockInv, Critical
<1>2. LockInv => MutualExclusion
  BY ThreadFacts DEF LockInv, MutualExclusion
<1> QED BY <1>1, <1>2, TypeCorrect, LockInductive, PTL DEF Spec

-----------------------------------------------------------------------------
(* What any step does to the copies of a service and to the balancers.  The *)
(* ownership and the uniqueness proofs below only use these facts.          *)

\* Without custom names a name only goes back to the default; a UUID comes from the worker that saw it.
ApiShape ==
    \A s \in Services :
        /\ CustomNames = {} => api'[s].name \in {api[s].name, DefaultName[s]}
        /\ \/ api'[s].uuid = api[s].uuid
           \/ \E t \in Threads : t[1] = s /\ api'[s].uuid = seen[t]

CacheShape == \A s \in Services : cache'[s] = cache[s] \/ cache'[s] = api[s]

SameIdentity(o1, o2) == o1.name = o2.name /\ o1.uuid = o2.uuid

SnapShape ==
    \A t \in Threads :
        \/ SameIdentity(snap'[t], snap[t])
        \/ SameIdentity(snap'[t], Absent(t[1]))
        \/ SameIdentity(snap'[t], cache[t[1]])
        \/ SameIdentity(snap'[t], snap[<<t[1], "service">>])

\* A worker sees a balancer by looking its service up.
SeenShape ==
    \A t \in Threads :
        \/ seen'[t] = seen[t]
        \/ seen'[t] = None
        \/ \E g, l \in LookupOutcomes :
              seen'[t] = AtMostOne(findByServiceInfo(snap[t], g, l))

\* A balancer is created by a worker at that step, or keeps its owner.
Created(t, u) ==
    /\ pc[t] = "create" /\ lb[u].status = "unused"
    /\ lb'[u].status = "changing" /\ lb'[u].owner = t[1] /\ lb'[u].name = snap[t].name
    /\ pc'[t] # "create"
    /\ \A v \in Uuids \ {u} : lb'[v] = lb[v]

Kept(u) ==
    /\ lb'[u].owner = lb[u].owner
    /\ (lb'[u].status = "unused") <=> (lb[u].status = "unused")
    /\ lb'[u].status \in {"changing", "running"} =>
          /\ Live(u)
          /\ \/ lb'[u].name = lb[u].name
             \/ \E t \in Threads : seen[t] = u /\ lb'[u].name = snap[t].name

LbShape ==
    \/ \E t \in Threads, u \in Uuids : Created(t, u)
    \/ \A u \in Uuids : Kept(u)

\* A worker comes to the creation by a lookup that found nothing.
CreateShape ==
    \A t \in Threads :
        pc'[t] = "create" =>
            \/ pc[t] = "create"
            \/ /\ pc[t] = "fetch" /\ UNCHANGED lb
               /\ \E g, l \in LookupOutcomes :
                     AtMostOne(findByServiceInfo(snap[t], g, l)) = None

Shape == ApiShape /\ CacheShape /\ SnapShape /\ SeenShape /\ LbShape /\ CreateShape

LEMMA UnchangedShapes ==
    /\ UNCHANGED api => ApiShape
    /\ UNCHANGED cache => CacheShape
    /\ UNCHANGED snap => SnapShape
    /\ UNCHANGED seen => SeenShape
    /\ UNCHANGED lb => LbShape
    /\ UNCHANGED pc => CreateShape
BY DEF ApiShape, CacheShape, SnapShape, SameIdentity, SeenShape, LbShape, Kept, Live,
       CreateShape

\* A step that moves one worker elsewhere than to the creation.
LEMMA MoveShape ==
    ASSUME TypeOK, NEW t \in Threads, NEW next, next # "create",
           pc' = [pc EXCEPT ![t] = next]
    PROVE  CreateShape
BY DEF CreateShape, TypeOK

LEMMA ReturnShape ==
    ASSUME TypeOK, NEW t \in Threads, NEW next, next # "create", Return(t, next)
    PROVE  SnapShape /\ SeenShape /\ CreateShape
<1>1. SnapShape
  <2> SUFFICES ASSUME NEW w \in Threads
               PROVE  SameIdentity(snap'[w], snap[w]) \/ SameIdentity(snap'[w], Absent(w[1]))
    BY DEF SnapShape
  <2>1. snap'[w] = snap[w] \/ snap'[w] = Absent(w[1])
    BY DEF Return, TypeOK
  <2> QED BY <2>1 DEF SameIdentity
<1>2. SeenShape
  BY DEF Return, SeenShape, TypeOK
<1> QED BY <1>1, <1>2, MoveShape DEF Return

LEMMA RestartShape ==
    ASSUME TypeOK, Restart
    PROVE  CacheShape /\ SnapShape /\ SeenShape /\ CreateShape
<1>1. CacheShape
  BY DEF Restart, CacheShape
<1>2. SnapShape
  <2> SUFFICES ASSUME NEW w \in Threads PROVE SameIdentity(snap'[w], Absent(w[1]))
    BY DEF SnapShape
  <2> QED BY DEF Restart, SameIdentity
<1>3. SeenShape /\ CreateShape
  BY DEF Restart, SeenShape, CreateShape
<1> QED BY <1>1, <1>2, <1>3

\* The effects of the API calls have the shapes.
LEMMA EffectShapes ==
    ASSUME TypeOK, NEW t \in Threads
    PROVE  /\ \A u \in Uuids :
                 pc[t] = "create" /\ pc'[t] # "create" /\ CreateLb(t, u) => LbShape
           /\ Live(seen[t]) /\ DeleteLb(t) => LbShape
           /\ Live(seen[t]) /\ RenameLb(t) => LbShape
           /\ \A st \in {"running", "changing"} :
                 Live(seen[t]) /\ ApplyConfig(t, st) => LbShape
           /\ AnnotateService(t) => ApiShape
           /\ RemoveFinalizer(t) => ApiShape
<1>1. ASSUME NEW u \in Uuids, pc[t] = "create", pc'[t] # "create", CreateLb(t, u)
      PROVE  LbShape
  <2>1. Created(t, u)
    BY <1>1 DEF CreateLb, Created, TypeOK
  <2> QED BY <2>1 DEF LbShape
<1>2. ASSUME Live(seen[t]), DeleteLb(t) PROVE LbShape
  <2> SUFFICES ASSUME NEW u \in Uuids PROVE Kept(u)
    BY DEF LbShape
  <2> QED BY <1>2 DEF DeleteLb, Kept, Live, TypeOK, LoadBalancers
<1>3. ASSUME Live(seen[t]), RenameLb(t) PROVE LbShape
  <2> SUFFICES ASSUME NEW u \in Uuids PROVE Kept(u)
    BY DEF LbShape
  <2> QED BY <1>3 DEF RenameLb, Kept, Live, TypeOK, LoadBalancers
<1>4. ASSUME NEW st \in {"running", "changing"}, Live(seen[t]), ApplyConfig(t, st)
      PROVE  LbShape
  <2> SUFFICES ASSUME NEW u \in Uuids PROVE Kept(u)
    BY DEF LbShape
  <2>1. CASE u # seen[t]
    BY <1>4, <2>1 DEF ApplyConfig, Kept, Live, TypeOK
  <2>2. CASE u = seen[t]
    <3>1. /\ lb'[u].owner = lb[u].owner /\ lb'[u].name = snap[t].name
          /\ lb'[u].status \in {"running", "changing"}
      BY <1>4, <2>2 DEF ApplyConfig, TypeOK, LoadBalancers
    <3> QED BY <1>4, <2>2, <3>1 DEF Kept, Live
  <2> QED BY <2>1, <2>2
<1>5. ASSUME AnnotateService(t) PROVE ApiShape
  <2> SUFFICES ASSUME NEW s \in Services
               PROVE  /\ api'[s].name \in {api[s].name, DefaultName[s]}
                      /\ api'[s].uuid = api[s].uuid \/ (t[1] = s /\ api'[s].uuid = seen[t])
    BY DEF ApiShape
  <2> DEFINE o == api[s]
             n == DefaultName[s]
  <2>1. o \in ServiceObject
    BY DEF TypeOK
  <2>2. /\ [o EXCEPT !.uuid = seen[t]].name = o.name
        /\ [o EXCEPT !.uuid = seen[t]].uuid = seen[t]
        /\ [o EXCEPT !.uuid = seen[t], !.name = n].name = n
        /\ [o EXCEPT !.uuid = seen[t], !.name = n].uuid = seen[t]
    BY <2>1 DEF ServiceObject
  <2>3. \/ api'[s] = o
        \/ t[1] = s /\ api'[s] = [o EXCEPT !.uuid = seen[t]]
        \/ t[1] = s /\ api'[s] = [o EXCEPT !.uuid = seen[t], !.name = n]
    <3>1. CASE t[1] = s
      BY <1>5, <3>1 DEF AnnotateService, TypeOK
    <3>2. CASE t[1] # s
      BY <1>5, <3>2, ThreadFacts DEF AnnotateService, TypeOK
    <3> QED BY <3>1, <3>2
  <2> HIDE DEF o, n
  <2>4. CASE api'[s] = o
    BY <2>4 DEF o
  <2>5. CASE t[1] = s /\ api'[s] = [o EXCEPT !.uuid = seen[t]]
    BY <2>2, <2>5 DEF o
  <2>6. CASE t[1] = s /\ api'[s] = [o EXCEPT !.uuid = seen[t], !.name = n]
    BY <2>2, <2>6 DEF n
  <2> QED BY <2>3, <2>4, <2>5, <2>6
<1>6. ASSUME RemoveFinalizer(t) PROVE ApiShape
  <2>1. \A s \in Services : api'[s] = api[s] \/ api'[s] = WithoutFinalizer(api[s])
    BY <1>6 DEF RemoveFinalizer, TypeOK
  <2>2. \A o \in ServiceObject : WithoutFinalizer(o).name = o.name /\ WithoutFinalizer(o).uuid = o.uuid
    BY DEF WithoutFinalizer, ServiceObject
  <2> QED BY <2>1, <2>2 DEF ApiShape, TypeOK
<1> QED BY <1>1, <1>2, <1>3, <1>4, <1>5, <1>6

\* Every step has the shapes, by actions.
LEMMA NextShape == TypeOK /\ [Next]_vars => Shape
<1> SUFFICES ASSUME TypeOK, [Next]_vars PROVE Shape
  OBVIOUS
<1> USE UnchangedShapes
<1>fail. ASSUME NEW t \in Threads, Fail(t) PROVE SnapShape /\ SeenShape /\ CreateShape
  BY <1>fail, ReturnShape DEF Fail
<1>goto. ASSUME NEW t \in Threads, NEW next, next # "create", Goto(t, next)
         PROVE  SnapShape /\ CreateShape
  BY <1>goto, MoveShape DEF Goto
<1>look. ASSUME NEW t \in Threads, NEW g \in LookupOutcomes, NEW l \in LookupOutcomes,
                seen' = [seen EXCEPT ![t] = AtMostOne(findByServiceInfo(snap[t], g, l))]
         PROVE  SeenShape
  BY <1>look DEF SeenShape, TypeOK
<1>1. ASSUME NEW t \in Threads, GetLoadBalancer(t) PROVE Shape
  <2>1. Fail(t) \/ (UNCHANGED seen /\ \E p \in {"finalizer", "lock"} : Goto(t, p))
    BY <1>1 DEF GetLoadBalancer
  <2>2. SnapShape /\ SeenShape /\ CreateShape
    BY <2>1, <1>fail, <1>goto
  <2> QED BY <1>1, <2>2 DEF GetLoadBalancer, Shape
<1>2. ASSUME NEW t \in Threads, lockForService(t) PROVE Shape
  BY <1>2, MoveShape DEF lockForService, Shape
<1>3. ASSUME NEW t \in Threads, reconcileLbState(t) PROVE Shape
  <2>1. PICK g \in LookupOutcomes, l \in LookupOutcomes :
          LET u == AtMostOne(findByServiceInfo(snap[t], g, l)) IN
          \/ Fail(t)
          \/ Return(t, "finalizer")
          \/ Goto(t, nextLbActions(t, u)) /\ seen' = [seen EXCEPT ![t] = u]
    BY <1>3 DEF reconcileLbState
  <2> DEFINE u == AtMostOne(findByServiceInfo(snap[t], g, l))
  <2>2. CASE Fail(t) \/ Return(t, "finalizer")
    BY <1>3, <2>2, <1>fail, ReturnShape DEF reconcileLbState, Shape
  <2>3. CASE Goto(t, nextLbActions(t, u)) /\ seen' = [seen EXCEPT ![t] = u]
    <3>1. nextLbActions(t, u) = "create" => u = None
      BY DEF nextLbActions
    <3>2. pc[t] = "fetch" /\ UNCHANGED <<api, cache, lb>>
      BY <1>3 DEF reconcileLbState
    <3>3. SnapShape /\ SeenShape
      BY <2>3, <1>look DEF Goto
    <3>4. CreateShape
      BY <2>3, <3>1, <3>2 DEF Goto, CreateShape, TypeOK
    <3> QED BY <3>2, <3>3, <3>4 DEF Shape
  <2> QED BY <2>1, <2>2, <2>3
<1>4. ASSUME NEW t \in Threads, RunCreateLb(t) PROVE Shape
  <2>1. pc'[t] = "fetch"
    BY <1>4 DEF RunCreateLb, Goto, TypeOK
  <2> QED BY <1>4, <2>1, EffectShapes, <1>goto DEF RunCreateLb, Shape
<1>5. ASSUME NEW t \in Threads, RunDeleteLb(t) PROVE Shape
  BY <1>5, EffectShapes, <1>fail, ReturnShape DEF RunDeleteLb, Shape
<1>6. ASSUME NEW t \in Threads, RunApply(t) PROVE Shape
  BY <1>6, EffectShapes, <1>fail, ReturnShape, MoveShape DEF RunApply, Shape
<1>7. ASSUME NEW t \in Threads, FinalState(t) PROVE Shape
  <2>1. SnapShape /\ SeenShape /\ CreateShape
    BY <1>7, <1>fail, <1>goto, <1>look DEF FinalState
  <2> QED BY <1>7, <2>1 DEF FinalState, Shape
<1>8. ASSUME NEW t \in Threads, RunAnnotate(t) \/ RunFinalizer(t) PROVE Shape
  BY <1>8, <1>fail, EffectShapes, ReturnShape DEF RunAnnotate, RunFinalizer, Shape
<1>9. ASSUME NEW t \in Threads, RunPanic(t) PROVE Shape
  BY <1>9, RestartShape DEF RunPanic, Shape
<1>10. ASSUME NEW t \in Threads, CallFails(t) PROVE Shape
  BY <1>10, <1>fail DEF CallFails, Shape
<1>11. ASSUME NEW t \in Threads, AnswerLost(t) PROVE Shape
  <2>0. pc'[t] = "idle"
    BY <1>11 DEF AnswerLost, Fail, Return, TypeOK
  <2>1. LbShape /\ ApiShape
    BY <1>11, <2>0, EffectShapes DEF AnswerLost
  <2> QED BY <1>11, <2>1, <1>fail DEF AnswerLost, Shape
<1>12. ASSUME NEW s \in Services, Informer(s) PROVE Shape
  <2>1. CacheShape
    BY <1>12 DEF Informer, CacheShape, TypeOK
  <2> QED BY <1>12, <2>1 DEF Informer, Shape, localVars
<1>13. ASSUME NEW s \in Services, SyncService(s) PROVE Shape
  <2> DEFINE t == <<s, "service">>
  <2>1. UNCHANGED pc \/ \E p \in {"lock", "get"} : pc' = [pc EXCEPT ![t] = p]
    BY <1>13 DEF SyncService
  <2>2. CreateShape
    BY <2>1, MoveShape, ThreadFacts
  <2>3. \/ UNCHANGED snap
        \/ snap' = [snap EXCEPT ![t] = cache[s]]
        \/ snap' = [snap EXCEPT ![t] = [@ EXCEPT !.phase = "deleting", !.finalizer = FALSE]]
    BY <1>13 DEF SyncService
  <2>4. SnapShape
    <3> SUFFICES ASSUME NEW w \in Threads
                 PROVE  \/ SameIdentity(snap'[w], snap[w])
                        \/ SameIdentity(snap'[w], cache[w[1]])
      BY DEF SnapShape
    <3>1. CASE w # t
      BY <2>3, <3>1 DEF SameIdentity, TypeOK
    <3>2. CASE w = t
      <4>1. w[1] = s /\ snap[t] \in ServiceObject
        BY <3>2, ThreadFacts DEF TypeOK
      <4>2. CASE snap' = [snap EXCEPT ![t] = [@ EXCEPT !.phase = "deleting", !.finalizer = FALSE]]
        BY <3>2, <4>1, <4>2 DEF SameIdentity, TypeOK, ServiceObject
      <4> QED BY <2>3, <3>2, <4>1, <4>2 DEF SameIdentity, TypeOK
    <3> QED BY <3>1, <3>2
  <2>5. ApiShape
    <3>1. api' = api \/ api' = [api EXCEPT ![s].finalizer = @ \/ ~cache[s].finalizer]
      BY <1>13 DEF SyncService
    <3> QED BY <3>1 DEF ApiShape, TypeOK, ServiceObject
  <2> QED BY <1>13, <2>2, <2>4, <2>5 DEF SyncService, Shape
<1>14. ASSUME NEW s \in Services, SyncNodes(s) PROVE Shape
  <2>1. CreateShape
    BY <1>14, MoveShape, ThreadFacts DEF SyncNodes
  <2>2. SnapShape
    <3> SUFFICES ASSUME NEW w \in Threads
                 PROVE  \/ SameIdentity(snap'[w], snap[w])
                        \/ SameIdentity(snap'[w], snap[<<w[1], "service">>])
      BY DEF SnapShape
    <3> QED BY <1>14, ThreadFacts DEF SyncNodes, SameIdentity, TypeOK
  <2> QED BY <1>14, <2>1, <2>2 DEF SyncNodes, Shape, k8sVars
<1>15. ASSUME NEW s \in Services,
              CreateService(s) \/ EditConfig(s) \/ EditType(s) \/ DeleteService(s)
       PROVE  Shape
  <2>1. ApiShape
    <3>1. CASE CreateService(s)
      BY <3>1 DEF CreateService, ApiShape, TypeOK, ServiceObject
    <3>2. CASE EditConfig(s)
      BY <3>2 DEF EditConfig, ApiShape, TypeOK, ServiceObject
    <3>3. CASE EditType(s)
      <4>1. PICK x : api' = [api EXCEPT ![s].phase = x]
        BY <3>3 DEF EditType
      <4> QED BY <4>1 DEF ApiShape, TypeOK, ServiceObject
    <3>4. CASE DeleteService(s)
      BY <3>4 DEF DeleteService, ApiShape, TypeOK, ServiceObject
    <3> QED BY <1>15, <3>1, <3>2, <3>3, <3>4
  <2> QED BY <1>15, <2>1
          DEF CreateService, EditConfig, EditType, DeleteService, Shape, localVars
<1>16. ASSUME NEW s \in Services, EditName(s) PROVE Shape
  <2>1. ApiShape
    BY <1>16 DEF EditName, ApiShape, TypeOK, ServiceObject
  <2> QED BY <1>16, <2>1 DEF EditName, Shape, localVars
<1>17. ASSUME NEW u \in Uuids, Provision(u) PROVE Shape
  <2>1. LbShape
    <3> SUFFICES ASSUME NEW v \in Uuids PROVE Kept(v)
      BY DEF LbShape
    <3> QED BY <1>17 DEF Provision, Kept, Live, TypeOK, LoadBalancers
  <2> QED BY <1>17, <2>1 DEF Provision, Shape, k8sVars, localVars
<1>18. ASSUME Crash PROVE Shape
  BY <1>18, RestartShape DEF Crash, Shape
<1>19. CASE UNCHANGED vars
  BY <1>19 DEF vars, Shape
<1> QED
  BY <1>1, <1>2, <1>3, <1>4, <1>5, <1>6, <1>7, <1>8, <1>9, <1>10, <1>11, <1>12,
     <1>13, <1>14, <1>15, <1>16, <1>17, <1>18, <1>19 DEF Next, Step

-----------------------------------------------------------------------------
(* Ownership, as long as no service has a name of its own choice.  Every    *)
(* copy of a service carries its default name and a UUID of its own, and a  *)
(* balancer carries the default name of the service it was created for, so  *)
(* that neither way to look a balancer up leads to another service's.       *)

Mine(u, s) == u # None => lb[u].owner = s

OwnInv ==
    /\ \A s \in Services : /\ api[s].name = DefaultName[s] /\ Mine(api[s].uuid, s)
                           /\ cache[s].name = DefaultName[s] /\ Mine(cache[s].uuid, s)
    /\ \A t \in Threads : /\ snap[t].name = DefaultName[t[1]] /\ Mine(snap[t].uuid, t[1])
                          /\ Mine(seen[t], t[1])
    /\ \A u \in Uuids : lb[u].status = "unused" <=> lb[u].owner = None
    /\ \A u \in Uuids : Live(u) => lb[u].name = DefaultName[lb[u].owner]

LEMMA OwnInit == Init => OwnInv
BY ThreadFacts DEF Init, OwnInv, Absent, Unused, Mine, Live

\* Whatever lookups fail, a worker finds a balancer of its own service.
LEMMA FindsOwn ==
    ASSUME TypeOK, OwnInv, NEW t \in Threads, NEW g \in BOOLEAN, NEW l \in BOOLEAN
    PROVE  Mine(AtMostOne(findByServiceInfo(snap[t], g, l)), t[1])
<1> DEFINE found == findByServiceInfo(snap[t], g, l)
<1>1. \A u \in found.elements : u \in Uuids /\ Live(u)
                                /\ (u = snap[t].uuid \/ lb[u].name = snap[t].name)
  BY DEF findByServiceInfo, Join, getByUUID, findByName, New, TypeOK, ServiceObject
<1>2. ASSUME NEW u \in found.elements PROVE lb[u].owner = t[1]
  <2>1. CASE u = snap[t].uuid
    BY <1>1, <2>1, NoneAssumption DEF OwnInv, Mine
  <2>2. CASE lb[u].name = snap[t].name
    <3>1. lb[u].owner \in Services
      BY <1>1 DEF OwnInv, Live, TypeOK, LoadBalancers
    <3> QED BY <1>1, <2>2, <3>1, ThreadFacts, NamesAssumption DEF OwnInv
  <2> QED BY <1>1, <2>1, <2>2
<1>3. AtMostOne(found) \in found.elements \/ AtMostOne(found) = None
  BY DEF AtMostOne
<1> HIDE DEF found
<1> QED BY <1>2, <1>3 DEF Mine, found

LEMMA OwnInductive ==
    ASSUME CustomNames = {}
    PROVE  TypeOK /\ OwnInv /\ [Next]_vars => OwnInv'
<1> SUFFICES ASSUME TypeOK, OwnInv, TypeOK', Shape PROVE OwnInv'
  BY NextType, NextShape
<1>none. None \notin Uuids /\ None \notin Services
  BY NoneAssumption
<1>1. ASSUME NEW u \in Uuids \cup {None}, NEW s \in Services, Mine(u, s) PROVE Mine(u, s)'
  <2>1. CASE u = None
    BY <2>1 DEF Mine
  <2>2. CASE u # None
    <3>1. u \in Uuids /\ lb[u].owner = s /\ lb[u].status # "unused"
      BY <1>1, <2>2, <1>none DEF Mine, OwnInv
    <3>2. lb'[u].owner = lb[u].owner
      BY <3>1 DEF Shape, LbShape, Created, Kept
    <3> QED BY <3>1, <3>2 DEF Mine
  <2> QED BY <2>1, <2>2
<1>2. \A s \in Services : api'[s].name = DefaultName[s] /\ Mine(api[s].uuid, s)'
  <2> SUFFICES ASSUME NEW s \in Services
               PROVE  api'[s].name = DefaultName[s] /\ Mine(api[s].uuid, s)'
    OBVIOUS
  <2>1. api'[s].name = DefaultName[s]
    BY DEF Shape, ApiShape, OwnInv
  <2>2. Mine(api'[s].uuid, s) /\ api'[s].uuid \in Uuids \cup {None}
    <3>1. api'[s].uuid \in Uuids \cup {None}
      BY DEF TypeOK, ServiceObject
    <3>2. CASE api'[s].uuid = api[s].uuid
      BY <3>1, <3>2 DEF OwnInv
    <3>3. ASSUME NEW t \in Threads, t[1] = s, api'[s].uuid = seen[t]
          PROVE  Mine(api'[s].uuid, s)
      BY <3>3 DEF OwnInv
    <3> QED BY <3>1, <3>2, <3>3 DEF Shape, ApiShape
  <2>3. (api'[s].uuid # None => lb'[api'[s].uuid].owner = s)
    BY <2>2, <1>1 DEF Mine
  <2> QED BY <2>1, <2>3 DEF Mine
<1>3. \A s \in Services : cache'[s].name = DefaultName[s] /\ Mine(cache[s].uuid, s)'
  <2> SUFFICES ASSUME NEW s \in Services
               PROVE  cache'[s].name = DefaultName[s] /\ Mine(cache[s].uuid, s)'
    OBVIOUS
  <2>1. /\ cache'[s].name = DefaultName[s] /\ Mine(cache'[s].uuid, s)
        /\ cache'[s].uuid \in Uuids \cup {None}
    BY DEF Shape, CacheShape, OwnInv, TypeOK, ServiceObject
  <2>2. (cache'[s].uuid # None => lb'[cache'[s].uuid].owner = s)
    BY <2>1, <1>1 DEF Mine
  <2> QED BY <2>1, <2>2 DEF Mine
<1>4. \A t \in Threads : snap'[t].name = DefaultName[t[1]] /\ Mine(snap[t].uuid, t[1])'
  <2> SUFFICES ASSUME NEW t \in Threads
               PROVE  snap'[t].name = DefaultName[t[1]] /\ Mine(snap[t].uuid, t[1])'
    OBVIOUS
  <2>1. t[1] \in Services /\ <<t[1], "service">> \in Threads /\ <<t[1], "service">>[1] = t[1]
    BY ThreadFacts
  <2>2. Absent(t[1]).name = DefaultName[t[1]] /\ Absent(t[1]).uuid = None
    BY DEF Absent
  <2>3. snap'[t].name = DefaultName[t[1]] /\ Mine(snap'[t].uuid, t[1])
    BY <2>1, <2>2 DEF Shape, SnapShape, SameIdentity, OwnInv, Mine
  <2>4. snap'[t].uuid \in Uuids \cup {None}
    BY DEF TypeOK, ServiceObject
  <2>5. (snap'[t].uuid # None => lb'[snap'[t].uuid].owner = t[1])
    BY <2>1, <2>3, <2>4, <1>1 DEF Mine
  <2> QED BY <2>3, <2>5 DEF Mine
<1>5. \A t \in Threads : Mine(seen[t], t[1])'
  <2> SUFFICES ASSUME NEW t \in Threads PROVE Mine(seen[t], t[1])'
    OBVIOUS
  <2>1. seen'[t] \in Uuids \cup {None} /\ t[1] \in Services
    BY ThreadFacts DEF TypeOK
  <2>2. LookupOutcomes \subseteq BOOLEAN
    BY DEF LookupOutcomes
  <2>3. Mine(seen'[t], t[1])
    BY <2>2, FindsOwn DEF Shape, SeenShape, OwnInv, Mine
  <2>4. (seen'[t] # None => lb'[seen'[t]].owner = t[1])
    BY <2>1, <2>3, <1>1 DEF Mine
  <2> QED BY <2>4 DEF Mine
<1>6. \A u \in Uuids : lb'[u].status = "unused" <=> lb'[u].owner = None
  BY ThreadFacts, <1>none DEF Shape, LbShape, Created, Kept, OwnInv
<1>7. ASSUME NEW u \in Uuids, Live(u)' PROVE lb'[u].name = DefaultName[lb'[u].owner]
  BY <1>7, <1>none, ThreadFacts DEF Shape, LbShape, Created, Kept, OwnInv, Mine, Live
<1> QED BY <1>2, <1>3, <1>4, <1>5, <1>6, <1>7 DEF OwnInv

\* The UUID annotation never names another service's balancer, whatever calls
\* fail, as long as every service keeps its default name.
THEOREM UuidOwnedHolds == ASSUME CustomNames = {} PROVE Spec => []UuidOwned
<1>1. TypeOK /\ OwnInv /\ [Next]_vars => OwnInv'
  BY OwnInductive
<1>2. OwnInv => UuidOwned
  BY DEF OwnInv, UuidOwned, Mine
<1> QED BY <1>1, <1>2, OwnInit, TypeCorrect, PTL DEF Spec

-----------------------------------------------------------------------------
(* Uniqueness, if the lookups of a balancer do not fail either.  A worker    *)
(* about to create a balancer has found none while it held the lock, and     *)
(* nobody else has created one since.                                        *)

CreateInv == \A t \in Threads, u \in Uuids :
                 pc[t] = "create" /\ Live(u) => lb[u].owner # t[1]

UniqueInv == LockInv /\ OwnInv /\ CreateInv /\ AtMostOneLb

\* A lookup without failing calls finds every balancer of the service.
LEMMA FindsAll ==
    ASSUME TypeOK, OwnInv, NEW t \in Threads, NEW u \in Uuids, Live(u),
           lb[u].owner = t[1]
    PROVE  AtMostOne(findByServiceInfo(snap[t], FALSE, FALSE)) # None
<1> DEFINE found == findByServiceInfo(snap[t], FALSE, FALSE)
<1>1. lb[u].name = snap[t].name
  BY DEF OwnInv
<1>2. u \in found.elements
  BY <1>1 DEF findByServiceInfo, Join, findByName, New
<1>3. found.elements # {} => AtMostOne(found) \in found.elements
  BY DEF AtMostOne
<1>4. found.elements \subseteq Uuids
  BY DEF findByServiceInfo, Join, getByUUID, findByName, New, TypeOK, ServiceObject
<1> HIDE DEF found
<1> QED BY <1>2, <1>3, <1>4, NoneAssumption DEF found

LEMMA UniqueInductive ==
    ASSUME CustomNames = {}, LookupFaults = FALSE
    PROVE  TypeOK /\ UniqueInv /\ [Next]_vars => UniqueInv'
<1> SUFFICES ASSUME TypeOK, UniqueInv, [Next]_vars PROVE UniqueInv'
  OBVIOUS
<1>1. LockInv' /\ OwnInv'
  BY LockInductive, OwnInductive DEF UniqueInv
<1>2. Shape
  BY NextShape
<1>3. ASSUME NEW t \in Threads, NEW u \in Uuids, pc'[t] = "create", Live(u)'
      PROVE  lb'[u].owner # t[1]
  <2>1. CASE pc[t] = "fetch" /\ UNCHANGED lb /\ \E g, l \in LookupOutcomes :
               AtMostOne(findByServiceInfo(snap[t], g, l)) = None
    <3>1. AtMostOne(findByServiceInfo(snap[t], FALSE, FALSE)) = None
      BY <2>1 DEF LookupOutcomes
    <3>2. Live(u) /\ lb'[u] = lb[u]
      BY <1>3, <2>1 DEF Live
    <3> QED BY <3>1, <3>2, FindsAll DEF UniqueInv
  <2>2. CASE pc[t] = "create"
    <3>1. CASE \E w \in Threads : Created(w, u)
      <4>1. PICK w \in Threads : Created(w, u)
        BY <3>1
      <4>2. pc[w] \in Critical /\ pc'[t] \in Critical
        BY <1>3, <4>1 DEF Created, Critical
      <4>3. CASE w[1] = t[1]
        <5>1. w = t
          BY <2>2, <4>1, <4>3 DEF Created, Critical, UniqueInv, LockInv
        <5>2. pc'[t] # "create"
          BY <4>1, <5>1 DEF Created
        <5> QED BY <5>2, <1>3
      <4> QED BY <4>1, <4>3 DEF Created
    <3>2. CASE lb'[u].owner = lb[u].owner /\ Live(u)
      BY <2>2, <3>2 DEF UniqueInv, CreateInv
    <3> QED BY <3>1, <3>2, <1>2, <1>3 DEF Shape, LbShape, Created, Kept, Live
  <2> QED BY <2>1, <2>2, <1>2, <1>3 DEF Shape, CreateShape
<1>4. ASSUME NEW u \in Uuids, NEW v \in Uuids, Live(u)', Live(v)',
             lb'[u].owner = lb'[v].owner, u # v
      PROVE  FALSE
  <2>1. CASE \A x \in Uuids : Kept(x)
    BY <2>1, <1>4 DEF Kept, Live, UniqueInv, AtMostOneLb
  <2>2. ASSUME NEW t \in Threads, NEW x \in Uuids, Created(t, x) PROVE FALSE
    <3>1. CASE x = u
      BY <1>4, <2>2, <3>1 DEF Created, Live, UniqueInv, CreateInv
    <3>2. CASE x = v
      BY <1>4, <2>2, <3>2 DEF Created, Live, UniqueInv, CreateInv
    <3>3. CASE x # u /\ x # v
      BY <1>4, <2>2, <3>3 DEF Created, Live, UniqueInv, AtMostOneLb
    <3> QED BY <3>1, <3>2, <3>3
  <2> QED BY <2>1, <2>2, <1>2 DEF Shape, LbShape
<1> QED BY <1>1, <1>3, <1>4 DEF UniqueInv, CreateInv, AtMostOneLb

LEMMA UniqueInit == Init => UniqueInv
<1>1. Init => LockInv /\ CreateInv /\ AtMostOneLb
  BY DEF Init, LockInv, CreateInv, AtMostOneLb, Critical, Live, Unused
<1> QED BY <1>1, OwnInit DEF UniqueInv

\* A service never has two balancers: not when the answer to the creation is
\* lost, nor when the process dies before it stores the UUID, nor when the
\* node sync and the service queue meet; provided that services keep their
\* default names and the lookups themselves do not fail.
THEOREM AtMostOneLbHolds ==
    ASSUME CustomNames = {}, LookupFaults = FALSE
    PROVE  Spec => []AtMostOneLb
<1>1. Init => UniqueInv
  BY UniqueInit
<1>2. TypeOK /\ UniqueInv /\ [Next]_vars => UniqueInv'
  BY UniqueInductive
<1>3. UniqueInv => AtMostOneLb
  BY DEF UniqueInv
<1> QED BY <1>1, <1>2, <1>3, TypeCorrect, PTL DEF Spec
=============================================================================
