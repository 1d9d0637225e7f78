------------------------- MODULE Lifecycle_proofs -------------------------
(***************************************************************************)
(* Proofs about the service object over its life: its UUID annotation, and *)
(* the finalizer that keeps it until its balancer is gone.                 *)
(***************************************************************************)
EXTENDS Refinement_proofs

-----------------------------------------------------------------------------
(* Who writes to a service object.                                          *)

\* What users do to a service.
UserEdits(s) ==
    \/ CreateService(s) \/ EditConfig(s) \/ EditName(s) \/ EditType(s) \/ DeleteService(s)

\* The ways a service object changes, besides users' edits.
Annotated(s) ==
    \E t \in Threads :
        /\ t[1] = s /\ pc[t] = "annotate"
        /\ api'[s].uuid = seen[t]
        /\ api'[s].phase = api[s].phase /\ api'[s].finalizer = api[s].finalizer

Finalized(s) ==
    \E t \in Threads :
        /\ t[1] = s /\ pc[t] = "finalizer" /\ pc'[t] = "idle"
        /\ UNCHANGED <<cache, lb>>
        /\ api'[s] = WithoutFinalizer(api[s])

FinalizerAdded(s) ==
    /\ SyncService(s) /\ pc[<<s, "service">>] = "idle"
    /\ api'[s] = [api[s] EXCEPT !.finalizer = TRUE]
    /\ api[s].phase # "gone"
    /\ UNCHANGED cache

ApiWrites(s) ==
    api'[s] = api[s] \/ Annotated(s) \/ Finalized(s) \/ FinalizerAdded(s) \/ UserEdits(s)

LEMMA AnnotateWrites ==
    ASSUME TypeOK, NEW t \in Threads, pc[t] = "annotate", AnnotateService(t),
           NEW s \in Services
    PROVE  ApiWrites(s)
<1>1. CASE s # t[1] \/ api' = api
  BY <1>1, ThreadFacts DEF AnnotateService, ApiWrites, TypeOK
<1>2. CASE s = t[1] /\ api' # api
  <2> DEFINE o == api[s]
             n == DefaultName[s]
  <2>1. o \in ServiceObject
    BY DEF TypeOK
  <2>2. \/ api'[s] = [o EXCEPT !.uuid = seen[t]]
        \/ api'[s] = [o EXCEPT !.uuid = seen[t], !.name = n]
    BY <1>2 DEF AnnotateService, TypeOK
  <2> HIDE DEF o, n
  <2>3. api'[s].uuid = seen[t] /\ api'[s].phase = o.phase /\ api'[s].finalizer = o.finalizer
    BY <2>1, <2>2 DEF ServiceObject
  <2> QED BY <1>2, <2>3 DEF ApiWrites, Annotated, o
<1> QED BY <1>1, <1>2

LEMMA FinalizerWrites ==
    ASSUME TypeOK, NEW t \in Threads, pc[t] = "finalizer", pc'[t] = "idle",
           UNCHANGED <<cache, lb>>, RemoveFinalizer(t), NEW s \in Services
    PROVE  ApiWrites(s)
<1>1. CASE s # t[1] \/ api' = api
  BY <1>1, ThreadFacts DEF RemoveFinalizer, ApiWrites, TypeOK
<1>2. CASE s = t[1] /\ api' # api
  <2>1. api'[s] = WithoutFinalizer(api[s])
    BY <1>2 DEF RemoveFinalizer, TypeOK
  <2> QED BY <1>2, <2>1 DEF ApiWrites, Finalized
<1> QED BY <1>1, <1>2

LEMMA SyncWrites ==
    ASSUME TypeOK, NEW r \in Services, SyncService(r), NEW s \in Services
    PROVE  ApiWrites(s)
<1>1. CASE api' = api
  BY <1>1 DEF ApiWrites
<1>2. CASE api' # api
  <2>1. /\ cache[r].finalizer \/ api[r].phase # "gone"
        /\ api' = [api EXCEPT ![r].finalizer = @ \/ ~cache[r].finalizer]
        /\ pc[<<r, "service">>] = "idle" /\ UNCHANGED cache
    BY <1>2 DEF SyncService
  <2>2. api[r] \in ServiceObject
    BY DEF TypeOK
  <2> DEFINE f == api[r].finalizer \/ ~cache[r].finalizer
  <2>3. api' = [api EXCEPT ![r] = [api[r] EXCEPT !.finalizer = f]]
    BY <2>1 DEF TypeOK
  <2>4. \A w \in Services : api'[w] = IF w = r THEN [api[r] EXCEPT !.finalizer = f] ELSE api[w]
    BY <2>3 DEF TypeOK
  <2>5. f = TRUE \/ f = api[r].finalizer
    BY <2>2 DEF ServiceObject
  <2>6. CASE cache[r].finalizer
    <3>1. f = api[r].finalizer
      BY <2>2, <2>6 DEF ServiceObject
    <3>2. [api[r] EXCEPT !.finalizer = f] = api[r]
      BY <2>2, <3>1 DEF ServiceObject
    <3> QED BY <2>4, <3>2 DEF ApiWrites
  <2>7. CASE ~cache[r].finalizer
    <3>1. f = TRUE
      BY <2>7
    <3>2. s = r => api'[s] = [api[s] EXCEPT !.finalizer = TRUE]
      BY <2>4, <3>1
    <3> HIDE DEF f
    <3> QED BY <2>1, <2>4, <2>7, <3>2 DEF ApiWrites, FinalizerAdded
  <2> QED BY <2>6, <2>7
<1> QED BY <1>1, <1>2

LEMMA NextApi ==
    ASSUME TypeOK, [Next]_vars, NEW s \in Services
    PROVE  ApiWrites(s)
<1>1. CASE api' = api
  BY <1>1 DEF ApiWrites
<1>2. ASSUME NEW t \in Threads, RunAnnotate(t) PROVE ApiWrites(s)
  BY <1>1, <1>2, AnnotateWrites DEF RunAnnotate
<1>3. ASSUME NEW t \in Threads, RunFinalizer(t) PROVE ApiWrites(s)
  <2>1. pc'[t] = "idle"
    BY <1>3 DEF RunFinalizer, Return, TypeOK
  <2> QED BY <1>3, <2>1, FinalizerWrites DEF RunFinalizer
<1>4. ASSUME NEW t \in Threads, AnswerLost(t) PROVE ApiWrites(s)
  <2>1. pc'[t] = "idle" /\ UNCHANGED cache
    BY <1>4 DEF AnswerLost, Fail, Return, TypeOK
  <2> QED BY <1>1, <1>4, <2>1, AnnotateWrites, FinalizerWrites DEF AnswerLost
<1>5. ASSUME NEW r \in Services, SyncService(r) PROVE ApiWrites(s)
  BY <1>5, SyncWrites
<1>6. ASSUME NEW r \in Services, UserEdits(r) PROVE ApiWrites(s)
  <2>1. CASE r = s
    BY <1>6, <2>1 DEF ApiWrites
  <2>2. CASE r # s
    <3>1. api'[s] = api[s]
      BY <1>6, <2>2 DEF UserEdits, CreateService, EditConfig, EditName, EditType,
                        DeleteService, TypeOK
    <3> QED BY <3>1 DEF ApiWrites
  <2> QED BY <2>1, <2>2
<1> QED BY <1>1, <1>2, <1>3, <1>4, <1>5, <1>6
        DEF Next, Step, GetLoadBalancer, reconcileLbState, RunCreateLb, RunDeleteLb, RunApply,
            FinalState, RunPanic, lockForService, CallFails, Informer, SyncNodes, Provision,
            Crash, UserEdits, vars, k8sVars

\* Users change neither the UUID nor the finalizer.
LEMMA UserFacts ==
    ASSUME TypeOK, NEW s \in Services, UserEdits(s)
    PROVE  /\ api'[s].uuid = api[s].uuid /\ api'[s].finalizer = api[s].finalizer
           /\ \/ api'[s].phase = api[s].phase
              \/ api[s].phase = "absent" /\ api'[s].phase = "wanted"
              \/ api[s].phase = "wanted" /\ api'[s].phase = "unwanted"
              \/ api[s].phase = "unwanted" /\ api'[s].phase = "wanted"
              \/ /\ api[s].phase \in {"wanted", "unwanted"}
                 /\ api'[s].phase = IF api[s].finalizer THEN "deleting" ELSE "gone"
<1>0. api[s] \in ServiceObject
  BY DEF TypeOK
<1>1. CASE CreateService(s)
  <2>1. api'[s] = [api[s] EXCEPT !.phase = "wanted", !.config = 1] /\ api[s].phase = "absent"
    BY <1>1 DEF CreateService, TypeOK
  <2> QED BY <1>0, <2>1 DEF ServiceObject
<1>2. CASE EditConfig(s)
  <2> DEFINE c == api[s].config + 1
  <2>1. api' = [api EXCEPT ![s] = [api[s] EXCEPT !.config = c]]
    BY <1>2 DEF EditConfig, TypeOK
  <2>2. api'[s] = [api[s] EXCEPT !.config = c]
    BY <2>1 DEF TypeOK
  <2> QED BY <1>0, <2>2 DEF ServiceObject
<1>3. CASE EditName(s)
  <2>1. PICK n : api' = [api EXCEPT ![s] = [api[s] EXCEPT !.name = n]]
    BY <1>3 DEF EditName, TypeOK
  <2>2. api'[s] = [api[s] EXCEPT !.name = n]
    BY <2>1 DEF TypeOK
  <2> QED BY <1>0, <2>2 DEF ServiceObject
<1>4. ASSUME NEW p, api' = [api EXCEPT ![s].phase = p]
      PROVE  /\ api'[s].uuid = api[s].uuid /\ api'[s].finalizer = api[s].finalizer
             /\ api'[s].phase = p
  <2>1. api' = [api EXCEPT ![s] = [api[s] EXCEPT !.phase = p]]
    BY <1>4 DEF TypeOK
  <2>2. api'[s] = [api[s] EXCEPT !.phase = p]
    BY <2>1 DEF TypeOK
  <2> QED BY <1>0, <2>2 DEF ServiceObject
<1>5. CASE EditType(s)
  BY <1>4, <1>5 DEF EditType
<1>6. CASE DeleteService(s)
  BY <1>4, <1>6 DEF DeleteService
<1> QED BY <1>1, <1>2, <1>3, <1>5, <1>6 DEF UserEdits

-----------------------------------------------------------------------------
(* The UUID annotation.                                                     *)

\* A handler annotates the service with a balancer that exists.
AnnotateInv == \A t \in Threads : pc[t] = "annotate" => seen[t] \in Uuids /\ Live(seen[t])

LEMMA AnnotateInductive ==
    ASSUME CustomNames = {}, LookupFaults = FALSE
    PROVE  TypeOK /\ LockInv /\ OwnInv /\ FinalInv /\ FinalInv' /\ AnnotateInv /\ [Next]_vars
              => AnnotateInv'
<1> SUFFICES ASSUME TypeOK, LockInv, OwnInv, FinalInv, FinalInv', AnnotateInv, [Next]_vars,
                    NEW t \in Threads, pc'[t] = "annotate"
             PROVE  seen'[t] \in Uuids /\ lb'[seen'[t]].status \in {"changing", "running"}
  BY DEF AnnotateInv, Live
<1>1. Plan(t)
  BY NextPlan
<1>2. CASE pc[t] = "annotate" /\ seen'[t] = seen[t]
  <2>1. seen[t] \in Uuids /\ Live(seen[t])
    BY <1>2 DEF AnnotateInv
  <2> QED BY <1>2, <2>1, HolderKeeps DEF Critical
<1>3. CASE /\ UNCHANGED lb
           /\ \E g, l \in LookupOutcomes :
                 seen'[t] = AtMostOne(findByServiceInfo(snap[t], g, l))
  <2>1. seen'[t] # None
    BY DEF FinalInv
  <2>2. seen'[t] = AtMostOne(findByServiceInfo(snap[t], FALSE, FALSE))
    BY <1>3 DEF LookupOutcomes
  <2>3. snap[t] \in ServiceObject
    BY DEF TypeOK
  <2> DEFINE found == findByServiceInfo(snap[t], FALSE, FALSE)
  <2>4. /\ found.elements \subseteq Uuids /\ \A u \in found.elements : Live(u)
        /\ AtMostOne(found) \in found.elements \cup {None}
    BY <2>3, LookupType
  <2> HIDE DEF found
  <2>5. seen'[t] = AtMostOne(found)
    BY <2>2 DEF found
  <2>6. seen'[t] \in Uuids /\ Live(seen'[t])
    BY <2>1, <2>4, <2>5
  <2> QED BY <1>3, <2>6 DEF Live
<1> QED BY <1>1, <1>2, <1>3 DEF Plan

\* A service keeps the UUID of its balancer: with default names, and lookups
\* that do not fail half way, no handler points the annotation elsewhere
\* while that balancer exists.
THEOREM UuidStableHolds ==
    ASSUME CustomNames = {}, LookupFaults = FALSE
    PROVE  Spec => UuidStable
<1> DEFINE Inv == TypeOK /\ UniqueInv /\ FinalInv /\ AnnotateInv
           Stable == \A s \in Services, u \in Uuids :
                        api[s].uuid = u /\ Live(u) /\ Live(u)' => api'[s].uuid = u
<1>1. ASSUME Inv, [Next]_vars PROVE Stable
  <2> SUFFICES ASSUME NEW s \in Services, NEW u \in Uuids, api[s].uuid = u, Live(u)
               PROVE  api'[s].uuid = u
    BY DEF Live
  <2>1. ApiWrites(s) /\ api[s] \in ServiceObject
    BY <1>1, NextApi DEF TypeOK
  <2>2. CASE api'[s] = api[s]
    BY <2>2
  <2>3. CASE Annotated(s)
    <3>1. PICK t \in Threads : /\ t[1] = s /\ pc[t] = "annotate"
                               /\ api'[s].uuid = seen[t]
      BY <2>3 DEF Annotated
    <3>2. seen[t] \in Uuids /\ Live(seen[t]) /\ lb[seen[t]].owner = s
      BY <1>1, <3>1, NoneAssumption DEF AnnotateInv, UniqueInv, OwnInv, Mine
    <3>3. lb[u].owner = s
      BY <1>1, NoneAssumption DEF UniqueInv, OwnInv, Mine
    <3>4. seen[t] = u
      BY <1>1, <3>2, <3>3 DEF UniqueInv, AtMostOneLb
    <3> QED BY <3>1, <3>4
  <2>4. CASE Finalized(s) \/ FinalizerAdded(s)
    BY <2>1, <2>4 DEF Finalized, FinalizerAdded, WithoutFinalizer, ServiceObject
  <2>5. CASE UserEdits(s)
    BY <1>1, <2>5, UserFacts
  <2> QED BY <2>1, <2>2, <2>3, <2>4, <2>5 DEF ApiWrites
<1>2. Init => FinalInv /\ AnnotateInv
  BY DEF Init, FinalInv, AnnotateInv
<1>3. TypeOK /\ UniqueInv /\ [Next]_vars => UniqueInv'
  BY UniqueInductive
<1>4. TypeOK /\ UniqueInv /\ FinalInv /\ [Next]_vars => FinalInv'
  BY FinalInductive DEF UniqueInv
<1>5. TypeOK /\ UniqueInv /\ FinalInv /\ FinalInv' /\ AnnotateInv /\ [Next]_vars => AnnotateInv'
  BY AnnotateInductive DEF UniqueInv
<1>6. Spec => []Inv
  BY <1>2, <1>3, <1>4, <1>5, UniqueInit, TypeCorrect, PTL DEF Spec
<1>7. Inv /\ [Next]_vars => [Stable]_vars
  BY <1>1
<1> QED BY <1>6, <1>7, PTL DEF Spec, UuidStable
-----------------------------------------------------------------------------
(* Orphans.  Without the node sync, and if no service gets its type back    *)
(* once it is no longer LoadBalancer, the finalizer is on a service as long *)
(* as it has a balancer.                                                    *)

\* Users do not give a service its type back.
TypeStays == \A s \in Services : api[s].phase = "unwanted" => api'[s].phase # "wanted"

\* The phases of a service that shall have no balancer any more.
Late == {"unwanted", "deleting", "gone"}

\* The finalizer is there before the balancer is, and goes after it.
FinalizerInv(s) ==
    /\ api[s].phase = "gone" => ~api[s].finalizer
    /\ ~api[s].finalizer => Owned(s) = {}

\* The informer's copy is an older state of the service.
CacheInv(s) ==
    /\ cache[s].phase \in Late => api[s].phase \in Late
    /\ cache[s].phase # "absent" => api[s].phase # "absent"
    /\ known[s] => cache[s].phase # "absent"
    /\ cache[s].phase = "wanted" /\ cache[s].finalizer => api[s].finalizer

\* Where the service queue's worker is.
WorkerInv(s) ==
    LET t == <<s, "service">> IN
    /\ pc[<<s, "node">>] = "idle"
    /\ pc[t] # "idle" =>
          /\ snap[t].phase \in {"wanted", "unwanted", "deleting"}
          /\ Deletes(t) => cache[s].phase \in Late
          /\ ~Deletes(t) => api[s].finalizer
    /\ pc[t] = "get" => Deletes(t)
    /\ pc[t] = "create" => ~Deletes(t)
    /\ pc[t] = "finalizer" => Deletes(t) /\ Owned(s) = {}

LifeInv == \A s \in Services : FinalizerInv(s) /\ CacheInv(s) /\ WorkerInv(s)

\* Balancers of a service come from the worker of its queue only.
LEMMA OwnedShrinks ==
    ASSUME TypeOK, LifeInv, [Next]_vars, NEW s \in Services,
           pc[<<s, "service">>] # "create"
    PROVE  Owned(s)' \subseteq Owned(s)
<1>1. CASE \A u \in Uuids : Kept(u)
  BY <1>1 DEF Kept, Owned, Live
<1>2. ASSUME NEW t \in Threads, NEW u \in Uuids, Created(t, u)
      PROVE  Owned(s)' \subseteq Owned(s)
  <2>1. t[1] # s
    BY <1>2, ThreadFacts DEF LifeInv, WorkerInv, Created
  <2> QED BY <1>2, <2>1 DEF Created, Owned, Live
<1> QED BY <1>1, <1>2, NextShape DEF Shape, LbShape

\* What a step does to the phase and to the finalizer of a service.
LEMMA ApiLife ==
    ASSUME TypeOK, LifeInv, [Next]_vars, [TypeStays]_vars, NEW s \in Services
    PROVE  /\ api[s].phase \in Late => api'[s].phase \in Late
           /\ api[s].phase # "absent" => api'[s].phase # "absent"
           /\ api'[s].phase = "gone" => ~api'[s].finalizer
           /\ api[s].finalizer /\ ~api'[s].finalizer =>
                 /\ pc[<<s, "service">>] = "finalizer" /\ pc'[<<s, "service">>] = "idle"
                 /\ UNCHANGED <<cache, lb>>
<1>1. ApiWrites(s) /\ api[s] \in ServiceObject
  BY NextApi DEF TypeOK
<1>2. api[s].phase = "unwanted" => api'[s].phase # "wanted"
  BY DEF TypeStays, vars
<1>3. api[s].phase = "gone" => ~api[s].finalizer
  BY DEF LifeInv, FinalizerInv
<1>4. CASE api'[s] = api[s]
  BY <1>3, <1>4
<1>5. CASE Annotated(s)
  <2>1. api'[s].phase = api[s].phase /\ api'[s].finalizer = api[s].finalizer
    BY <1>1, <1>5 DEF Annotated, ServiceObject
  <2> QED BY <1>3, <2>1
<1>6. CASE Finalized(s)
  <2>1. PICK t \in Threads : /\ t[1] = s /\ pc[t] = "finalizer" /\ pc'[t] = "idle"
                             /\ UNCHANGED <<cache, lb>>
                             /\ api'[s] = WithoutFinalizer(api[s])
    BY <1>6 DEF Finalized
  <2>2. t = <<s, "service">>
    BY <2>1, ThreadFacts DEF LifeInv, WorkerInv
  <2>3. /\ api'[s].phase = IF api[s].phase = "deleting" THEN "gone" ELSE api[s].phase
        /\ api'[s].finalizer = FALSE
    BY <1>1, <2>1 DEF WithoutFinalizer, ServiceObject
  <2> QED BY <2>1, <2>2, <2>3 DEF Late
<1>7. CASE FinalizerAdded(s)
  <2>1. /\ api'[s].phase = api[s].phase /\ api'[s].finalizer = TRUE
        /\ api[s].phase # "gone"
    BY <1>1, <1>7 DEF FinalizerAdded, ServiceObject
  <2> QED BY <2>1
<1>8. CASE UserEdits(s)
  BY <1>2, <1>3, <1>8, UserFacts DEF Late
<1> QED BY <1>1, <1>4, <1>5, <1>6, <1>7, <1>8 DEF ApiWrites

\* The service queue calls a handler with the informer's copy, or with its own
\* if the service is gone.
Called(s) ==
    LET t == <<s, "service">> IN
    /\ pc[t] = "idle" /\ UNCHANGED cache
    /\ \/ /\ pc'[t] = "lock" /\ snap'[t].phase = "wanted" /\ cache[s].phase = "wanted"
          /\ cache[s].finalizer \/ api'[s].finalizer
       \/ /\ pc'[t] \in {"lock", "get"} /\ snap'[t].phase \in {"unwanted", "deleting"}
          /\ cache[s].phase \in Late \/ (known[s] /\ cache[s].phase = "absent")

\* A lookup finds no balancer.
FindsNone(t) ==
    \E g, l \in LookupOutcomes : AtMostOne(findByServiceInfo(snap[t], g, l)) = None

\* How a worker comes to where it is.
Walk(t) ==
    /\ pc'[t] # "idle" => pc[t] # "idle" /\ snap'[t] = snap[t]
    /\ pc'[t] = "get" => pc[t] = "get"
    /\ pc'[t] = "create" => pc[t] = "create" \/ ~Deletes(t)
    /\ pc'[t] = "finalizer" =>
          \/ pc[t] = "finalizer"
          \/ pc[t] = "get" /\ UNCHANGED lb /\ FindsNone(t)
          \/ Deletes(t) /\ UNCHANGED lb /\ FindsNone(t)
          \/ DeletedBy(t)

LEMMA Rests ==
    ASSUME NEW t \in Threads,
           \/ pc'[t] = pc[t] /\ snap'[t] = snap[t]
           \/ pc'[t] = "idle"
           \/ /\ pc[t] # "idle" /\ snap'[t] = snap[t]
              /\ pc'[t] \notin {"get", "create", "finalizer"}
    PROVE  Walk(t)
BY DEF Walk

\* A step of one worker leaves the others where they are.
LEMMA OthersRest ==
    ASSUME TypeOK, NEW t \in Threads, NEW next, pc' = [pc EXCEPT ![t] = next],
           \A w \in Threads \ {t} : snap'[w] = snap[w], Walk(t)
    PROVE  \A w \in Threads : Walk(w)
BY Rests DEF TypeOK

LEMMA IdleWalk ==
    ASSUME TypeOK, NEW t \in Threads, Return(t, "idle")
    PROVE  \A w \in Threads : Walk(w)
<1>1. pc'[t] = "idle" /\ \A w \in Threads \ {t} : snap'[w] = snap[w]
  BY DEF Return, TypeOK
<1>2. Walk(t)
  BY <1>1, Rests
<1>3. pc' = [pc EXCEPT ![t] = "idle"]
  BY DEF Return
<1> QED BY <1>1, <1>2, <1>3, OthersRest

LEMMA GotoWalk ==
    ASSUME TypeOK, NEW t \in Threads, NEW next, next \notin {"get", "create", "finalizer"},
           pc[t] # "idle", pc' = [pc EXCEPT ![t] = next], UNCHANGED snap
    PROVE  \A w \in Threads : Walk(w)
<1>1. pc'[t] = next
  BY DEF TypeOK
<1>2. Walk(t)
  BY <1>1, Rests
<1> QED BY <1>2, OthersRest

LEMMA SameWalk ==
    ASSUME UNCHANGED <<pc, snap>>
    PROVE  \A w \in Threads : Walk(w)
BY Rests

LEMMA RestartWalk ==
    ASSUME Restart
    PROVE  \A w \in Threads : Walk(w)
<1>1. \A w \in Threads : pc'[w] = "idle"
  BY DEF Restart
<1> QED BY <1>1, Rests
LEMMA NextWalk ==
    ASSUME NodeSync = FALSE, TypeOK, DeleteInv, [Next]_vars
    PROVE  \/ \A w \in Threads : Walk(w)
           \/ \E s \in Services : Called(s) /\ \A w \in Threads \ {<<s, "service">>} : Walk(w)
<1>fail. ASSUME NEW t \in Threads, Fail(t) PROVE \A w \in Threads : Walk(w)
  BY <1>fail, IdleWalk DEF Fail
<1>fin. ASSUME NEW t \in Threads, pc' = [pc EXCEPT ![t] = "finalizer"], pc[t] # "idle",
               snap'[t] = snap[t], \A w \in Threads \ {t} : snap'[w] = snap[w],
               \/ pc[t] = "get" /\ UNCHANGED lb /\ FindsNone(t)
               \/ Deletes(t) /\ UNCHANGED lb /\ FindsNone(t)
               \/ DeletedBy(t)
        PROVE  \A w \in Threads : Walk(w)
  <2>1. pc'[t] = "finalizer"
    BY <1>fin DEF TypeOK
  <2>2. Walk(t)
    BY <1>fin, <2>1 DEF Walk
  <2> QED BY <1>fin, <2>2, OthersRest
<1>1. ASSUME NEW t \in Threads, GetLoadBalancer(t) PROVE \A w \in Threads : Walk(w)
  <2>1. PICK g \in LookupOutcomes, l \in LookupOutcomes :
          LET u == AtMostOne(findByServiceInfo(snap[t], g, l)) IN
          Fail(t) \/ Goto(t, IF u = None THEN "finalizer" ELSE "lock")
    BY <1>1 DEF GetLoadBalancer
  <2>2. pc[t] = "get" /\ UNCHANGED lb
    BY <1>1 DEF GetLoadBalancer
  <2>3. CASE Fail(t)
    BY <2>3, <1>fail
  <2>4. CASE Goto(t, "lock")
    BY <2>2, <2>4, GotoWalk DEF Goto
  <2>5. CASE Goto(t, "finalizer") /\ AtMostOne(findByServiceInfo(snap[t], g, l)) = None
    BY <2>2, <2>5, <1>fin DEF Goto, FindsNone
  <2> QED BY <2>1, <2>3, <2>4, <2>5
<1>2. ASSUME NEW t \in Threads, lockForService(t) PROVE \A w \in Threads : Walk(w)
  BY <1>2, GotoWalk DEF lockForService
<1>3. ASSUME NEW t \in Threads, reconcileLbState(t) PROVE \A w \in Threads : Walk(w)
  <2>1. PICK g \in LookupOutcomes, l \in LookupOutcomes :
          LET u == AtMostOne(findByServiceInfo(snap[t], g, l)) IN
          \/ Fail(t)
          \/ u = None /\ Deletes(t) /\ Return(t, "finalizer")
          \/ ~(u = None /\ Deletes(t)) /\ Goto(t, nextLbActions(t, u))
    BY <1>3 DEF reconcileLbState
  <2> DEFINE u == AtMostOne(findByServiceInfo(snap[t], g, l))
  <2>2. pc[t] = "fetch" /\ UNCHANGED lb
    BY <1>3 DEF reconcileLbState
  <2>3. CASE Fail(t)
    BY <2>3, <1>fail
  <2>4. CASE u = None /\ Deletes(t) /\ Return(t, "finalizer")
    <3>1. \A w \in Threads : snap'[w] = snap[w]
      BY <2>4 DEF Return, Deletes, TypeOK
    <3>2. FindsNone(t)
      BY <2>4 DEF FindsNone
    <3> QED BY <2>2, <2>4, <3>1, <3>2, <1>fin DEF Return
  <2>5. CASE ~(u = None /\ Deletes(t)) /\ Goto(t, nextLbActions(t, u))
    <3> DEFINE next == nextLbActions(t, u)
    <3>1. next \in {"create", "fetch", "delete", "apply"} /\ (next = "create" => ~Deletes(t))
      BY <2>5 DEF nextLbActions
    <3>2. pc' = [pc EXCEPT ![t] = next] /\ UNCHANGED snap
      BY <2>5 DEF Goto
    <3> HIDE DEF next
    <3>3. CASE next # "create"
      BY <2>2, <3>1, <3>2, <3>3, GotoWalk
    <3>4. CASE next = "create"
      <4>1. Walk(t)
        BY <2>2, <3>1, <3>2, <3>4 DEF Walk, TypeOK
      <4> QED BY <3>2, <4>1, OthersRest
    <3> QED BY <3>3, <3>4
  <2> QED BY <2>1, <2>3, <2>4, <2>5
<1>4. ASSUME NEW t \in Threads, RunCreateLb(t) PROVE \A w \in Threads : Walk(w)
  BY <1>4, GotoWalk DEF RunCreateLb, Goto
<1>5. ASSUME NEW t \in Threads, RunDeleteLb(t) PROVE \A w \in Threads : Walk(w)
  <2>1. CASE Fail(t)
    BY <2>1, <1>fail
  <2>2. CASE DeletedBy(t) /\ Return(t, "finalizer")
    <3>1. \A w \in Threads \ {t} : snap'[w] = snap[w]
      BY <2>2 DEF Return, TypeOK
    <3>2. t[2] = "service"
      BY <2>2 DEF DeletedBy, DeleteInv, Deletes
    <3>3. snap'[t] = snap[t]
      BY <2>2, <3>2 DEF Return, TypeOK
    <3> QED BY <2>2, <3>1, <3>3, <1>fin DEF Return, DeletedBy
  <2> QED BY <1>5, <2>1, <2>2 DEF RunDeleteLb, DeletedBy
<1>6. ASSUME NEW t \in Threads, RunApply(t) PROVE \A w \in Threads : Walk(w)
  <2>1. CASE Fail(t) \/ Return(t, "idle")
    BY <2>1, <1>fail, IdleWalk
  <2>2. CASE pc' = [pc EXCEPT ![t] = "final"] /\ UNCHANGED <<snap, seen>>
    BY <1>6, <2>2, GotoWalk DEF RunApply
  <2> QED BY <1>6, <2>1, <2>2 DEF RunApply
<1>7. ASSUME NEW t \in Threads, FinalState(t) PROVE \A w \in Threads : Walk(w)
  <2>1. Fail(t) \/ Goto(t, "annotate")
    BY <1>7 DEF FinalState
  <2> QED BY <1>7, <2>1, <1>fail, GotoWalk DEF FinalState, Goto
<1>8. ASSUME NEW t \in Threads, RunAnnotate(t) \/ RunFinalizer(t)
      PROVE  \A w \in Threads : Walk(w)
  BY <1>8, <1>fail, IdleWalk DEF RunAnnotate, RunFinalizer
<1>9. ASSUME NEW t \in Threads, RunPanic(t) PROVE \A w \in Threads : Walk(w)
  BY <1>9, RestartWalk DEF RunPanic
<1>10. ASSUME NEW t \in Threads, CallFails(t) \/ AnswerLost(t)
       PROVE  \A w \in Threads : Walk(w)
  BY <1>5, <1>6, <1>10, <1>fail DEF CallFails, AnswerLost
<1>11. ASSUME NEW s \in Services, SyncService(s)
       PROVE  /\ Called(s) \/ Walk(<<s, "service">>)
              /\ \A w \in Threads \ {<<s, "service">>} : Walk(w)
  <2> DEFINE t == <<s, "service">>
  <2>1. t \in Threads
    BY ThreadFacts
  <2>2. /\ \A w \in Threads \ {t} : snap'[w] = snap[w] /\ pc'[w] = pc[w]
        /\ pc[t] = "idle" /\ UNCHANGED cache
    BY <1>11 DEF SyncService, TypeOK
  <2>3. CASE pc'[t] = "idle"
    BY <2>1, <2>2, <2>3, Rests
  <2>4. CASE pc'[t] # "idle"
    <3>1. CASE /\ cache[s].phase \in {"absent", "gone"} /\ known[s]
               /\ snap' = [snap EXCEPT ![t] = [@ EXCEPT !.phase = "deleting",
                                                        !.finalizer = FALSE]]
               /\ pc' = [pc EXCEPT ![t] = "lock"]
      <4>1. snap[t] \in ServiceObject
        BY <2>1 DEF TypeOK
      <4>2. snap'[t] = [snap[t] EXCEPT !.phase = "deleting", !.finalizer = FALSE]
        BY <2>1, <3>1 DEF TypeOK
      <4>3. snap'[t].phase = "deleting"
        BY <4>1, <4>2 DEF ServiceObject
      <4>4. pc'[t] = "lock"
        BY <2>1, <3>1 DEF TypeOK
      <4> QED BY <2>1, <2>2, <3>1, <4>3, <4>4, Rests DEF Called, Late
    <3>2. CASE /\ cache[s].phase = "wanted"
               /\ api' = [api EXCEPT ![s].finalizer = @ \/ ~cache[s].finalizer]
               /\ snap' = [snap EXCEPT ![t] = cache[s]]
               /\ pc' = [pc EXCEPT ![t] = "lock"]
      <4>1. snap'[t] = cache[s] /\ pc'[t] = "lock"
        BY <2>1, <3>2 DEF TypeOK
      <4>2. api[s] \in ServiceObject
        BY DEF TypeOK
      <4> DEFINE f == api[s].finalizer \/ ~cache[s].finalizer
      <4>3. api' = [api EXCEPT ![s] = [api[s] EXCEPT !.finalizer = f]]
        BY <3>2 DEF TypeOK
      <4>4. api'[s].finalizer = f
        BY <4>2, <4>3 DEF TypeOK, ServiceObject
      <4>5. cache[s].finalizer \/ api'[s].finalizer
        BY <4>4
      <4> HIDE DEF f
      <4> QED BY <2>1, <2>2, <3>2, <4>1, <4>5, Rests DEF Called
    <3>3. CASE /\ cache[s].phase \in {"unwanted", "deleting"}
               /\ snap' = [snap EXCEPT ![t] = cache[s]]
               /\ pc' = [pc EXCEPT ![t] = "get"]
      <4>1. snap'[t] = cache[s] /\ pc'[t] = "get"
        BY <2>1, <3>3 DEF TypeOK
      <4> QED BY <2>1, <2>2, <3>3, <4>1, Rests DEF Called, Late
    <3> QED BY <1>11, <2>2, <2>4, <3>1, <3>2, <3>3 DEF SyncService
  <2> QED BY <2>3, <2>4
<1>12. ASSUME NEW s \in Services, SyncNodes(s) PROVE FALSE
  BY <1>12 DEF SyncNodes
<1>13. ASSUME NEW s \in Services,
              \/ Informer(s) \/ CreateService(s) \/ EditConfig(s) \/ EditName(s)
              \/ EditType(s) \/ DeleteService(s)
       PROVE  \A w \in Threads : Walk(w)
  BY <1>13, SameWalk
     DEF Informer, CreateService, EditConfig, EditName, EditType, DeleteService, localVars
<1>14. ASSUME NEW u \in Uuids, Provision(u) PROVE \A w \in Threads : Walk(w)
  BY <1>14, SameWalk DEF Provision, localVars
<1>15. CASE Crash
  BY <1>15, RestartWalk DEF Crash
<1>16. CASE UNCHANGED vars
  BY <1>16, SameWalk DEF vars
<1> QED
  BY <1>1, <1>2, <1>3, <1>4, <1>5, <1>6, <1>7, <1>8, <1>9, <1>10, <1>11, <1>12,
     <1>13, <1>14, <1>15, <1>16 DEF Next, Step
\* The controller's own cache has services that the informer has seen.
LEMMA KnownStep ==
    ASSUME TypeOK, [Next]_vars, NEW s \in Services, known'[s]
    PROVE  known[s] \/ cache[s].phase # "absent"
<1>1. CASE known' = known
  BY <1>1
<1>2. ASSUME NEW r \in Services, SyncService(r) PROVE known[s] \/ cache[s].phase # "absent"
  BY <1>2 DEF SyncService, TypeOK
<1>3. CASE Restart
  BY <1>3 DEF Restart
<1>4. ASSUME NEW t \in Threads, RunFinalizer(t) PROVE known[s]
  <2>1. known'[s] = IF s = t[1] THEN FALSE ELSE known[s]
    BY <1>4, ThreadFacts DEF RunFinalizer, TypeOK
  <2> QED BY <2>1
<1> QED BY <1>1, <1>2, <1>3, <1>4
        DEF Next, Step, GetLoadBalancer, reconcileLbState, RunCreateLb, RunDeleteLb, RunApply,
            FinalState, RunAnnotate, RunPanic, lockForService, CallFails, AnswerLost, Informer,
            SyncNodes, CreateService, EditConfig, EditName, EditType, DeleteService, Provision,
            Crash, vars, k8sVars

\* Nothing found means that there is nothing.
LEMMA NoneOwned ==
    ASSUME LookupFaults = FALSE, TypeOK, OwnInv, NEW s \in Services,
           FindsNone(<<s, "service">>)
    PROVE  Owned(s) = {}
<1> DEFINE t == <<s, "service">>
<1>1. t \in Threads /\ t[1] = s
  BY ThreadFacts
<1>2. AtMostOne(findByServiceInfo(snap[t], FALSE, FALSE)) = None
  BY DEF FindsNone, LookupOutcomes
<1> QED BY <1>1, <1>2, FindsAll DEF Owned

\* With the deletion of its balancer a service has none.
LEMMA DeletedOwned ==
    ASSUME TypeOK, UniqueInv, DeleteInv, NEW s \in Services, DeletedBy(<<s, "service">>)
    PROVE  Owned(s)' = {}
<1> DEFINE t == <<s, "service">>
<1>1. t \in Threads /\ t[1] = s
  BY ThreadFacts
<1>2. seen[t] \in Uuids /\ Live(seen[t])
  <2>1. seen[t] # None
    BY <1>1 DEF DeletedBy, DeleteInv
  <2> QED BY <1>1, <2>1 DEF TypeOK, DeletedBy
<1>3. lb[seen[t]].owner = s
  BY <1>1, <1>2, NoneAssumption DEF UniqueInv, OwnInv, Mine
<1>4. Owned(s) \subseteq {seen[t]}
  BY <1>2, <1>3 DEF UniqueInv, AtMostOneLb, Owned
<1>5. /\ \A u \in Uuids \ {seen[t]} : SameLife(u)
      /\ lb'[seen[t]].status = "deleted"
  BY <1>1, <1>2, DeletedEffect
<1> QED BY <1>4, <1>5 DEF SameLife, Owned, Live

LEMMA LifeInductive ==
    ASSUME LookupFaults = FALSE, NodeSync = FALSE
    PROVE  TypeOK /\ UniqueInv /\ DeleteInv /\ LifeInv /\ [Next]_vars /\ [TypeStays]_vars
              => LifeInv'
<1> SUFFICES ASSUME TypeOK, UniqueInv, DeleteInv, LifeInv, [Next]_vars, [TypeStays]_vars,
                    NEW s \in Services
             PROVE  FinalizerInv(s)' /\ CacheInv(s)' /\ WorkerInv(s)'
  BY DEF LifeInv
<1> DEFINE t == <<s, "service">>
           n == <<s, "node">>
<1>0. t \in Threads /\ n \in Threads /\ t # n
  BY ThreadFacts
<1>1. FinalizerInv(s) /\ CacheInv(s) /\ WorkerInv(s)
  BY DEF LifeInv
<1>2. /\ api[s].phase \in Late => api'[s].phase \in Late
      /\ api[s].phase # "absent" => api'[s].phase # "absent"
      /\ api'[s].phase = "gone" => ~api'[s].finalizer
      /\ api[s].finalizer /\ ~api'[s].finalizer =>
            pc[t] = "finalizer" /\ pc'[t] = "idle" /\ UNCHANGED <<cache, lb>>
  BY ApiLife
<1>3. cache'[s] = cache[s] \/ cache'[s] = api[s]
  BY NextShape DEF Shape, CacheShape
<1>4. pc[t] # "create" => Owned(s)' \subseteq Owned(s)
  BY OwnedShrinks
<1>5. FinalizerInv(s)'
  <2> SUFFICES ASSUME ~api'[s].finalizer PROVE Owned(s)' = {}
    BY <1>2 DEF FinalizerInv
  <2>1. CASE api[s].finalizer
    BY <1>1, <1>2, <2>1 DEF WorkerInv, Owned, Live
  <2>2. CASE ~api[s].finalizer
    BY <1>1, <1>4, <2>2 DEF WorkerInv, FinalizerInv
  <2> QED BY <2>1, <2>2
<1>6. CacheInv(s)'
  <2>1. cache'[s].phase \in Late => api'[s].phase \in Late
    BY <1>1, <1>2, <1>3 DEF CacheInv
  <2>2. cache'[s].phase # "absent" => api'[s].phase # "absent"
    BY <1>1, <1>2, <1>3 DEF CacheInv
  <2>3. known'[s] => cache'[s].phase # "absent"
    BY <1>1, <1>3, KnownStep DEF CacheInv
  <2>4. cache'[s].phase = "wanted" /\ cache'[s].finalizer => api'[s].finalizer
    BY <1>1, <1>2, <1>3 DEF CacheInv, WorkerInv, Late
  <2> QED BY <2>1, <2>2, <2>3, <2>4 DEF CacheInv, Late
<1>7. Called(s) \/ Walk(t)
  BY <1>0, NextWalk
<1>8. pc'[n] = "idle"
  BY <1>0, <1>1, NextWalk DEF WorkerInv, Walk
<1> DEFINE Asked == snap[t].phase \in {"unwanted", "deleting"}
<1>9. Deletes(t) <=> Asked
  BY DEF Deletes
<1>10. ASSUME pc'[t] # "idle" =>
                /\ snap'[t].phase \in {"wanted", "unwanted", "deleting"}
                /\ Asked' => cache'[s].phase \in Late
                /\ ~Asked' => api'[s].finalizer,
              pc'[t] = "get" => Asked',
              pc'[t] = "create" => ~Asked',
              pc'[t] = "finalizer" => Asked' /\ Owned(s)' = {}
       PROVE  WorkerInv(s)'
  <2>1. Deletes(t)' <=> Asked'
    BY DEF Deletes
  <2> QED BY <1>8, <1>10, <2>1 DEF WorkerInv, Late
<1>11. CASE Called(s)
  <2>1. pc[t] = "idle" /\ UNCHANGED cache /\ pc'[t] \in {"lock", "get"}
    BY <1>11 DEF Called
  <2>2. CASE /\ pc'[t] = "lock" /\ snap'[t].phase = "wanted" /\ cache[s].phase = "wanted"
             /\ cache[s].finalizer \/ api'[s].finalizer
    <3>1. api'[s].finalizer
      BY <1>1, <1>2, <2>1, <2>2 DEF CacheInv
    <3> QED BY <1>5, <1>6, <1>10, <2>2, <3>1
  <2>3. CASE /\ snap'[t].phase \in {"unwanted", "deleting"}
             /\ cache[s].phase \in Late \/ (known[s] /\ cache[s].phase = "absent")
    <3>1. cache[s].phase \in Late
      BY <1>1, <2>3 DEF CacheInv
    <3> QED BY <1>5, <1>6, <1>10, <2>1, <2>3, <3>1
  <2> QED BY <1>11, <2>2, <2>3 DEF Called
<1>12. CASE Walk(t)
  <2>1. CASE pc'[t] = "idle"
    BY <1>5, <1>6, <1>10, <2>1
  <2>2. CASE pc'[t] # "idle"
    <3>1. pc[t] # "idle" /\ snap'[t] = snap[t]
      BY <1>12, <2>2 DEF Walk
    <3>2. Asked' <=> Asked
      BY <3>1
    <3>3. Asked => cache'[s].phase \in Late
      BY <1>1, <1>3, <1>9, <3>1 DEF WorkerInv, CacheInv
    <3>4. ~Asked => api'[s].finalizer
      BY <1>1, <1>2, <1>9, <2>2, <3>1 DEF WorkerInv
    <3>5. pc'[t] = "get" => Asked
      BY <1>1, <1>9, <1>12 DEF WorkerInv, Walk
    <3>6. pc'[t] = "create" => ~Asked
      BY <1>1, <1>9, <1>12 DEF WorkerInv, Walk
    <3>7. ASSUME pc'[t] = "finalizer" PROVE Asked /\ Owned(s)' = {}
      <4>1. CASE pc[t] = "finalizer"
        BY <1>1, <1>4, <1>9, <4>1 DEF WorkerInv
      <4>2. CASE (pc[t] = "get" \/ Deletes(t)) /\ UNCHANGED lb /\ FindsNone(t)
        <5>1. Owned(s) = {}
          BY <4>2, NoneOwned DEF UniqueInv
        <5>2. Owned(s)' = {}
          BY <4>2, <5>1 DEF Owned, Live
        <5> QED BY <1>1, <1>9, <4>2, <5>2 DEF WorkerInv
      <4>3. CASE DeletedBy(t)
        <5>1. Deletes(t)
          BY <1>0, <4>3 DEF DeletedBy, DeleteInv
        <5> QED BY <1>9, <4>3, <5>1, DeletedOwned
      <4> QED BY <1>12, <3>7, <4>1, <4>2, <4>3 DEF Walk
    <3>8. snap'[t].phase \in {"wanted", "unwanted", "deleting"}
      BY <1>1, <3>1 DEF WorkerInv
    <3> HIDE DEF Asked
    <3> QED BY <1>5, <1>6, <1>10, <3>2, <3>3, <3>4, <3>5, <3>6, <3>7, <3>8
  <2> QED BY <2>1, <2>2
<1> QED BY <1>5, <1>6, <1>7, <1>11, <1>12

LEMMA LifeInit == Init => LifeInv
<1> SUFFICES ASSUME Init, NEW s \in Services
             PROVE  FinalizerInv(s) /\ CacheInv(s) /\ WorkerInv(s)
  BY DEF LifeInv
<1>1. pc[<<s, "service">>] = "idle" /\ pc[<<s, "node">>] = "idle"
  BY ThreadFacts DEF Init
<1>2. Owned(s) = {}
  BY DEF Init, Owned, Live, Unused
<1>3. api[s].phase = "absent" /\ cache[s].phase = "absent" /\ ~known[s]
  BY DEF Init, Absent
<1> QED BY <1>1, <1>2, <1>3 DEF FinalizerInv, CacheInv, WorkerInv, Late

\* A service that is gone has no balancer: with default names, lookups that
\* do not fail half way, no node sync, and users who do not give a service
\* its type LoadBalancer back while its balancer is being deleted.
THEOREM NoOrphanHolds ==
    ASSUME CustomNames = {}, LookupFaults = FALSE, NodeSync = FALSE
    PROVE  Spec /\ [][TypeStays]_vars => []NoOrphan
<1>1. TypeOK /\ UniqueInv /\ [Next]_vars => UniqueInv'
  BY UniqueInductive
<1>2. TypeOK /\ UniqueInv /\ DeleteInv /\ LifeInv /\ [Next]_vars /\ [TypeStays]_vars => LifeInv'
  BY LifeInductive
<1>3. LifeInv => NoOrphan
  BY DEF LifeInv, FinalizerInv, NoOrphan
<1> QED BY <1>1, <1>2, <1>3, UniqueInit, DeleteInit, DeleteInductive, LifeInit, TypeCorrect, PTL
        DEF Spec
=============================================================================
