------------------------- MODULE Refinement_proofs -------------------------
(***************************************************************************)
(* Proofs about the steps that create, use and delete balancers, up to the *)
(* refinement: LoadBalancer implements OneBalancer.                        *)
(***************************************************************************)
EXTENDS LoadBalancer_proofs

-----------------------------------------------------------------------------
(* How a worker comes to apply a plan, to delete, to the final state and to *)
(* the annotation.                                                          *)

Plan(t) ==
    /\ pc'[t] = "apply" => seen'[t] # None \/ (pc[t] = "apply" /\ seen'[t] = seen[t])
    /\ pc'[t] = "delete" =>
          /\ snap'[t] = snap[t]
          /\ (pc[t] = "delete" /\ seen'[t] = seen[t]) \/ (Deletes(t) /\ seen'[t] # None)
    /\ pc'[t] = "final" =>
          /\ seen'[t] = seen[t]
          /\ pc[t] = "final" \/ (pc[t] = "apply" /\ Live(seen[t]))
    /\ pc'[t] = "annotate" =>
          \/ pc[t] = "annotate" /\ seen'[t] = seen[t]
          \/ /\ pc[t] = "final" /\ UNCHANGED lb
             /\ \E g, l \in LookupOutcomes :
                   seen'[t] = AtMostOne(findByServiceInfo(snap[t], g, l))

\* A worker that stands still, or goes elsewhere.
LEMMA PlanRests ==
    ASSUME NEW t \in Threads,
           \/ pc'[t] = pc[t] /\ seen'[t] = seen[t] /\ snap'[t] = snap[t]
           \/ pc'[t] \notin {"apply", "delete", "final", "annotate"}
    PROVE  Plan(t)
BY DEF Plan

LEMMA ReturnPlan ==
    ASSUME TypeOK, NEW t \in Threads, NEW next,
           next \notin {"apply", "delete", "final", "annotate"}, Return(t, next)
    PROVE  \A w \in Threads : Plan(w)
<1> SUFFICES ASSUME NEW w \in Threads PROVE Plan(w)
  OBVIOUS
<1>1. CASE w = t
  <2>1. pc'[w] = next
    BY <1>1 DEF Return, TypeOK
  <2> QED BY <2>1, PlanRests
<1>2. CASE w # t
  BY <1>2, PlanRests DEF Return, TypeOK
<1> QED BY <1>1, <1>2

LEMMA RestartPlan ==
    ASSUME Restart
    PROVE  \A w \in Threads : Plan(w)
<1>1. \A w \in Threads : pc'[w] = "idle"
  BY DEF Restart
<1> QED BY <1>1, PlanRests

LEMMA NextPlan == TypeOK /\ [Next]_vars => \A t \in Threads : Plan(t)
<1> SUFFICES ASSUME TypeOK, [Next]_vars PROVE \A t \in Threads : Plan(t)
  OBVIOUS
<1>fail. ASSUME NEW t \in Threads, Fail(t) PROVE \A w \in Threads : Plan(w)
  BY <1>fail, ReturnPlan DEF Fail
<1>goto. ASSUME NEW t \in Threads, NEW next, pc' = [pc EXCEPT ![t] = next], UNCHANGED snap,
                next \notin {"apply", "delete", "final", "annotate"},
                \A w \in Threads \ {t} : seen'[w] = seen[w]
         PROVE  \A w \in Threads : Plan(w)
  BY <1>goto, PlanRests DEF TypeOK
<1>same. ASSUME UNCHANGED <<pc, seen, snap>> PROVE \A w \in Threads : Plan(w)
  BY <1>same, PlanRests
<1>1. ASSUME NEW t \in Threads, GetLoadBalancer(t) PROVE \A w \in Threads : Plan(w)
  <2>1. Fail(t) \/ (UNCHANGED seen /\ \E p \in {"finalizer", "lock"} : Goto(t, p))
    BY <1>1 DEF GetLoadBalancer
  <2> QED BY <2>1, <1>fail, <1>goto DEF Goto
<1>2. ASSUME NEW t \in Threads, lockForService(t) PROVE \A w \in Threads : Plan(w)
  BY <1>2, <1>goto DEF lockForService
<1>3. ASSUME NEW t \in Threads, reconcileLbState(t) PROVE \A w \in Threads : Plan(w)
  <2>1. PICK g \in LookupOutcomes, l \in LookupOutcomes :
          LET u == AtMostOne(findByServiceInfo(snap[t], g, l)) IN
          \/ Fail(t)
          \/ Return(t, "finalizer")
          \/ Goto(t, nextLbActions(t, u)) /\ seen' = [seen EXCEPT ![t] = u]
    BY <1>3 DEF reconcileLbState
  <2> DEFINE u == AtMostOne(findByServiceInfo(snap[t], g, l))
  <2>2. CASE Fail(t) \/ Return(t, "finalizer")
    BY <2>2, <1>fail, ReturnPlan
  <2>3. CASE Goto(t, nextLbActions(t, u)) /\ seen' = [seen EXCEPT ![t] = u]
    <3>1. /\ nextLbActions(t, u) \in {"create", "fetch", "delete", "apply"}
          /\ nextLbActions(t, u) = "delete" => Deletes(t) /\ u # None
          /\ nextLbActions(t, u) = "apply" => u # None
      BY DEF nextLbActions
    <3>2. ASSUME NEW w \in Threads PROVE Plan(w)
      <4>1. CASE w = t
        BY <2>3, <3>1, <4>1 DEF Goto, Plan, TypeOK
      <4>2. CASE w # t
        BY <2>3, <4>2, PlanRests DEF Goto, TypeOK
      <4> QED BY <4>1, <4>2
    <3> QED BY <3>2
  <2> QED BY <2>1, <2>2, <2>3
<1>4. ASSUME NEW t \in Threads, RunCreateLb(t) PROVE \A w \in Threads : Plan(w)
  BY <1>4, <1>goto DEF RunCreateLb, Goto
<1>5. ASSUME NEW t \in Threads, RunDeleteLb(t) PROVE \A w \in Threads : Plan(w)
  BY <1>5, <1>fail, ReturnPlan DEF RunDeleteLb
<1>6. ASSUME NEW t \in Threads, RunApply(t) PROVE \A w \in Threads : Plan(w)
  <2>1. CASE Fail(t) \/ Return(t, "idle")
    BY <2>1, <1>fail, ReturnPlan
  <2>2. CASE Live(seen[t]) /\ pc' = [pc EXCEPT ![t] = "final"] /\ UNCHANGED <<snap, seen>>
    <3>1. ASSUME NEW w \in Threads PROVE Plan(w)
      <4>1. CASE w = t
        BY <1>6, <2>2, <4>1 DEF RunApply, Plan, TypeOK
      <4>2. CASE w # t
        BY <2>2, <4>2, PlanRests DEF TypeOK
      <4> QED BY <4>1, <4>2
    <3> QED BY <3>1
  <2> QED BY <1>6, <2>1, <2>2 DEF RunApply
<1>7. ASSUME NEW t \in Threads, FinalState(t) PROVE \A w \in Threads : Plan(w)
  <2>1. PICK g \in LookupOutcomes, l \in LookupOutcomes :
          \/ Fail(t)
          \/ /\ Goto(t, "annotate")
             /\ seen' = [seen EXCEPT ![t] = AtMostOne(findByServiceInfo(snap[t], g, l))]
    BY <1>7 DEF FinalState
  <2>2. CASE Goto(t, "annotate")
             /\ seen' = [seen EXCEPT ![t] = AtMostOne(findByServiceInfo(snap[t], g, l))]
    <3>1. pc[t] = "final" /\ UNCHANGED lb
      BY <1>7 DEF FinalState
    <3>2. ASSUME NEW w \in Threads PROVE Plan(w)
      <4>1. CASE w = t
        BY <2>2, <3>1, <4>1 DEF Goto, Plan, TypeOK
      <4>2. CASE w # t
        BY <2>2, <4>2, PlanRests DEF Goto, TypeOK
      <4> QED BY <4>1, <4>2
    <3> QED BY <3>2
  <2> QED BY <2>1, <2>2, <1>fail
<1>8. ASSUME NEW t \in Threads, RunAnnotate(t) \/ RunFinalizer(t)
      PROVE  \A w \in Threads : Plan(w)
  BY <1>8, <1>fail, ReturnPlan DEF RunAnnotate, RunFinalizer
<1>9. ASSUME NEW t \in Threads, RunPanic(t) PROVE \A w \in Threads : Plan(w)
  BY <1>9, RestartPlan DEF RunPanic
<1>10. ASSUME NEW t \in Threads, CallFails(t) \/ AnswerLost(t)
       PROVE  \A w \in Threads : Plan(w)
  BY <1>10, <1>fail DEF CallFails, AnswerLost
<1>11. ASSUME NEW s \in Services, Informer(s) PROVE \A w \in Threads : Plan(w)
  BY <1>11, <1>same DEF Informer, localVars
<1>12. ASSUME NEW s \in Services, SyncService(s) PROVE \A w \in Threads : Plan(w)
  <2> DEFINE t == <<s, "service">>
  <2>1. /\ pc[t] = "idle" /\ UNCHANGED seen
        /\ UNCHANGED pc \/ \E p \in {"lock", "get"} : pc' = [pc EXCEPT ![t] = p]
        /\ \A w \in Threads \ {t} : snap'[w] = snap[w]
    BY <1>12 DEF SyncService, TypeOK
  <2>2. ASSUME NEW w \in Threads PROVE Plan(w)
    <3>1. CASE w = t
      <4>1. pc'[w] \in {"idle", "lock", "get"}
        BY <2>1, <3>1 DEF TypeOK
      <4> QED BY <4>1, PlanRests
    <3>2. CASE w # t
      BY <2>1, <3>2, PlanRests DEF TypeOK
    <3> QED BY <3>1, <3>2
  <2> QED BY <2>2
<1>13. ASSUME NEW s \in Services, SyncNodes(s) PROVE \A w \in Threads : Plan(w)
  <2> DEFINE t == <<s, "node">>
  <2>1. ASSUME NEW w \in Threads PROVE Plan(w)
    <3>1. CASE w = t
      <4>1. pc'[w] = "lock"
        BY <1>13, <3>1 DEF SyncNodes, TypeOK
      <4> QED BY <4>1, PlanRests
    <3>2. CASE w # t
      BY <1>13, <3>2, PlanRests DEF SyncNodes, TypeOK
    <3> QED BY <3>1, <3>2
  <2> QED BY <2>1
<1>14. ASSUME NEW s \in Services,
              \/ CreateService(s) \/ EditConfig(s) \/ EditName(s) \/ EditType(s)
              \/ DeleteService(s)
       PROVE  \A w \in Threads : Plan(w)
  BY <1>14, <1>same
     DEF CreateService, EditConfig, EditName, EditType, DeleteService, localVars
<1>15. ASSUME NEW u \in Uuids, Provision(u) PROVE \A w \in Threads : Plan(w)
  BY <1>15, <1>same DEF Provision, localVars
<1>16. CASE Crash
  BY <1>16, RestartPlan DEF Crash
<1>17. CASE UNCHANGED vars
  BY <1>17, <1>same DEF vars
<1> QED
  BY <1>1, <1>2, <1>3, <1>4, <1>5, <1>6, <1>7, <1>8, <1>9, <1>10, <1>11, <1>12,
     <1>13, <1>14, <1>15, <1>16, <1>17 DEF Next, Step

-----------------------------------------------------------------------------
(* Deletions.                                                               *)

\* A worker about to delete was called to do so, and has found a balancer.
DeleteInv == \A t \in Threads : pc[t] = "delete" => Deletes(t) /\ seen[t] # None

LEMMA DeleteInductive == TypeOK /\ DeleteInv /\ [Next]_vars => DeleteInv'
<1> SUFFICES ASSUME TypeOK, DeleteInv, [Next]_vars, NEW t \in Threads, pc'[t] = "delete"
             PROVE  Deletes(t)' /\ seen'[t] # None
  BY DEF DeleteInv
<1>1. /\ snap'[t] = snap[t]
      /\ (pc[t] = "delete" /\ seen'[t] = seen[t]) \/ (Deletes(t) /\ seen'[t] # None)
  BY NextPlan DEF Plan
<1> QED BY <1>1 DEF DeleteInv, Deletes

LEMMA DeleteInit == Init => DeleteInv
BY DEF Init, DeleteInv

\* The copies the service queue has are the same after the step.
SameAsked == \A s \in Services : snap'[<<s, "service">>] = snap[<<s, "service">>]

LEMMA ReturnSameAsked ==
    ASSUME TypeOK, NEW t \in Threads, NEW next, Return(t, next)
    PROVE  SameAsked
<1> SUFFICES ASSUME NEW s \in Services PROVE snap'[<<s, "service">>] = snap[<<s, "service">>]
  BY DEF SameAsked
<1>1. <<s, "service">> \in Threads /\ <<s, "service">>[2] = "service"
  BY ThreadFacts
<1>2. CASE t = <<s, "service">>
  BY <1>1, <1>2 DEF Return, TypeOK
<1>3. CASE t # <<s, "service">>
  BY <1>1, <1>3 DEF Return, TypeOK
<1> QED BY <1>2, <1>3

\* A balancer only stops to exist when a worker deletes it.
DeletedBy(t) ==
    /\ pc[t] = "delete" /\ Live(seen[t]) /\ DeleteLb(t)

\* Only these steps change the balancers, and none of them calls a handler.
LEMMA LbSteps ==
    ASSUME TypeOK, [Next]_vars
    PROVE  \/ UNCHANGED lb
           \/ /\ SameAsked
              /\ \/ \E t \in Threads, u \in Uuids :
                       pc[t] = "create" /\ pc'[t] # "create" /\ CreateLb(t, u)
                 \/ \E t \in Threads : DeletedBy(t)
                 \/ \E t \in Threads : Live(seen[t]) /\ RenameLb(t)
                 \/ \E t \in Threads, st \in {"running", "changing"} :
                       Live(seen[t]) /\ ApplyConfig(t, st)
                 \/ \E u \in Uuids : Provision(u)
<1>0. \/ UNCHANGED lb
      \/ \E t \in Threads : RunCreateLb(t) \/ RunDeleteLb(t) \/ RunApply(t) \/ AnswerLost(t)
      \/ \E u \in Uuids : Provision(u)
  BY DEF Next, Step, GetLoadBalancer, lockForService, reconcileLbState, FinalState,
         RunAnnotate, RunFinalizer, RunPanic, CallFails, Informer, SyncService, SyncNodes,
         CreateService, EditConfig, EditName, EditType, DeleteService, Crash, vars
<1>1. ASSUME NEW t \in Threads, RunCreateLb(t)
      PROVE  SameAsked /\ pc[t] = "create" /\ pc'[t] # "create" /\ \E u \in Uuids : CreateLb(t, u)
  BY <1>1 DEF RunCreateLb, Goto, SameAsked, TypeOK
<1>2. ASSUME NEW t \in Threads, RunDeleteLb(t)
      PROVE  UNCHANGED lb \/ (SameAsked /\ DeletedBy(t))
  BY <1>2, ReturnSameAsked DEF RunDeleteLb, DeletedBy
<1>3. ASSUME NEW t \in Threads, RunApply(t)
      PROVE  \/ UNCHANGED lb
             \/ /\ SameAsked /\ Live(seen[t])
                /\ \E st \in {"running", "changing"} : ApplyConfig(t, st)
  BY <1>3, ReturnSameAsked DEF RunApply, SameAsked
<1>4. ASSUME NEW t \in Threads, AnswerLost(t)
      PROVE  /\ SameAsked
             /\ \/ UNCHANGED lb
                \/ pc[t] = "create" /\ pc'[t] # "create" /\ \E u \in Uuids : CreateLb(t, u)
                \/ DeletedBy(t)
                \/ Live(seen[t]) /\ RenameLb(t)
  <2>1. SameAsked /\ pc'[t] = "idle"
    BY <1>4, ReturnSameAsked DEF AnswerLost, Fail, Return, TypeOK
  <2> QED BY <1>4, <2>1 DEF AnswerLost, DeletedBy
<1>5. ASSUME NEW u \in Uuids, Provision(u) PROVE SameAsked
  BY <1>5 DEF Provision, localVars, SameAsked
<1> QED BY <1>0, <1>1, <1>2, <1>3, <1>4, <1>5

\* In terms of single balancers: one is created, one is deleted, or all are
\* there as before.
SameLife(u) ==
    /\ lb'[u].owner = lb[u].owner
    /\ (lb'[u].status = "unused") <=> (lb[u].status = "unused")
    /\ Live(u)' <=> Live(u)

LEMMA LifeSteps ==
    ASSUME TypeOK, [Next]_vars
    PROVE  \/ SameAsked /\ \E t \in Threads, u \in Uuids : Created(t, u)
           \/ SameAsked /\ \E t \in Threads : seen[t] \in Uuids /\ DeletedBy(t)
           \/ \A u \in Uuids : SameLife(u)
<1>1. CASE UNCHANGED lb
  BY <1>1 DEF SameLife, Live
<1>2. ASSUME NEW t \in Threads, NEW u \in Uuids, pc[t] = "create", pc'[t] # "create",
             CreateLb(t, u)
      PROVE  Created(t, u)
  BY <1>2 DEF CreateLb, Created, TypeOK
<1>3. ASSUME NEW t \in Threads, DeletedBy(t), seen[t] \notin Uuids
      PROVE  \A u \in Uuids : SameLife(u)
  BY <1>3 DEF DeletedBy, DeleteLb, SameLife, Live, TypeOK
<1>4. ASSUME NEW t \in Threads, Live(seen[t]), RenameLb(t)
      PROVE  \A u \in Uuids : SameLife(u)
  BY <1>4 DEF RenameLb, SameLife, Live, TypeOK, LoadBalancers
<1>5. ASSUME NEW t \in Threads, NEW st \in {"running", "changing"}, Live(seen[t]),
             ApplyConfig(t, st)
      PROVE  \A u \in Uuids : SameLife(u)
  <2> SUFFICES ASSUME NEW u \in Uuids PROVE SameLife(u)
    OBVIOUS
  <2>1. CASE u # seen[t]
    BY <1>5, <2>1 DEF ApplyConfig, SameLife, Live, TypeOK
  <2>2. CASE u = seen[t]
    <3>1. lb'[u].owner = lb[u].owner /\ lb'[u].status \in {"running", "changing"}
      BY <1>5, <2>2 DEF ApplyConfig, TypeOK, LoadBalancers
    <3> QED BY <1>5, <2>2, <3>1 DEF SameLife, Live
  <2> QED BY <2>1, <2>2
<1>6. ASSUME NEW v \in Uuids, Provision(v) PROVE \A u \in Uuids : SameLife(u)
  BY <1>6 DEF Provision, SameLife, Live, TypeOK, LoadBalancers
<1> QED BY <1>1, <1>2, <1>3, <1>4, <1>5, <1>6, LbSteps

\* The deleted balancer, and no other, is gone.
LEMMA DeletedEffect ==
    ASSUME TypeOK, NEW t \in Threads, seen[t] \in Uuids, DeletedBy(t)
    PROVE  /\ \A u \in Uuids \ {seen[t]} : SameLife(u)
           /\ lb'[seen[t]].owner = lb[seen[t]].owner
           /\ lb'[seen[t]].status = "deleted"
<1>1. \A u \in Uuids \ {seen[t]} : lb'[u] = lb[u]
  BY DEF DeletedBy, DeleteLb, TypeOK
<1>2. lb'[seen[t]].status = "deleted" /\ lb'[seen[t]].owner = lb[seen[t]].owner
  BY DEF DeletedBy, DeleteLb, TypeOK, LoadBalancers
<1> QED BY <1>1, <1>2 DEF SameLife, Live

\* A balancer is only deleted by the service queue, called to do so for the
\* service the balancer was created for: with default names, and whatever
\* lookups fail.
THEOREM DeletedByOwnerHolds == ASSUME CustomNames = {} PROVE Spec => DeletedByOwner
<1> DEFINE Deletion ==
      \A u \in Uuids :
          Live(u) /\ lb'[u].status = "deleted" =>
              /\ pc[<<lb[u].owner, "service">>] = "delete"
              /\ snap[<<lb[u].owner, "service">>].phase \in {"unwanted", "deleting"}
<1>1. ASSUME TypeOK, OwnInv, DeleteInv, [Next]_vars PROVE Deletion
  <2> SUFFICES ASSUME NEW u \in Uuids, Live(u), lb'[u].status = "deleted"
               PROVE  /\ pc[<<lb[u].owner, "service">>] = "delete"
                      /\ snap[<<lb[u].owner, "service">>].phase \in {"unwanted", "deleting"}
    OBVIOUS
  <2>1. ~SameLife(u) /\ \A t \in Threads, v \in Uuids : ~Created(t, v)
    BY DEF SameLife, Live, Created
  <2>2. PICK t \in Threads : seen[t] \in Uuids /\ DeletedBy(t)
    BY <1>1, <2>1, LifeSteps
  <2>3. seen[t] = u
    BY <1>1, <2>1, <2>2, DeletedEffect
  <2>4. lb[u].owner = t[1]
    BY <1>1, <2>3, NoneAssumption DEF OwnInv, Mine
  <2>5. pc[t] = "delete" /\ Deletes(t)
    BY <1>1, <2>2 DEF DeletedBy, DeleteInv
  <2>6. t = <<lb[u].owner, "service">>
    BY <2>4, <2>5, ThreadFacts DEF Deletes
  <2> QED BY <2>5, <2>6 DEF Deletes
<1>2. TypeOK /\ OwnInv /\ [Next]_vars => OwnInv'
  BY OwnInductive
<1>3. TypeOK /\ OwnInv /\ DeleteInv /\ [Next]_vars => [Deletion]_vars
  BY <1>1
<1> HIDE DEF Deletion
<1>4. Spec => [][Deletion]_vars
  BY <1>2, <1>3, OwnInit, DeleteInit, DeleteInductive, TypeCorrect, PTL DEF Spec
<1> QED BY <1>4 DEF Deletion, DeletedByOwner

-----------------------------------------------------------------------------
(* The final state has a balancer.  The one a plan was applied to is still  *)
(* there, as only the holder of the lock could have deleted it, so that the *)
(* last lookup finds one.                                                   *)

FinalInv ==
    \A t \in Threads :
        /\ pc[t] \in {"apply", "annotate"} => seen[t] # None
        /\ pc[t] = "final" => seen[t] \in Uuids /\ Live(seen[t])

\* What another worker needs is not deleted.
LEMMA HolderKeeps ==
    ASSUME TypeOK, LockInv, OwnInv, [Next]_vars, NEW t \in Threads,
           pc[t] \in Critical \ {"delete"}, seen[t] \in Uuids, Live(seen[t])
    PROVE  lb'[seen[t]].status \in {"changing", "running"}
<1>1. CASE \A u \in Uuids : SameLife(u)
  BY <1>1 DEF SameLife, Live
<1>2. ASSUME NEW w \in Threads, NEW u \in Uuids, Created(w, u)
      PROVE  lb'[seen[t]].status \in {"changing", "running"}
  BY <1>2 DEF Created, Live
<1>3. ASSUME NEW w \in Threads, seen[w] \in Uuids, DeletedBy(w)
      PROVE  lb'[seen[t]].status \in {"changing", "running"}
  <2>1. pc[w] = "delete" /\ pc[w] \in Critical
    BY <1>3 DEF DeletedBy, Critical
  <2>2. CASE seen[w] = seen[t]
    <3>1. w[1] = t[1]
      BY <1>3, <2>2, NoneAssumption DEF OwnInv, Mine
    <3>2. w = t
      BY <2>1, <3>1 DEF LockInv
    <3> QED BY <2>1, <3>2
  <2>3. CASE seen[w] # seen[t]
    BY <1>3, <2>3, DeletedEffect DEF SameLife, Live
  <2> QED BY <2>2, <2>3
<1> QED BY <1>1, <1>2, <1>3, LifeSteps

LEMMA FinalInductive ==
    ASSUME CustomNames = {}, LookupFaults = FALSE
    PROVE  TypeOK /\ LockInv /\ OwnInv /\ FinalInv /\ [Next]_vars => FinalInv'
<1> SUFFICES ASSUME TypeOK, LockInv, OwnInv, FinalInv, [Next]_vars, NEW t \in Threads
             PROVE  /\ pc'[t] = "final" =>
                          seen'[t] \in Uuids /\ lb'[seen'[t]].status \in {"changing", "running"}
                    /\ pc'[t] \in {"apply", "annotate"} => seen'[t] # None
  BY DEF FinalInv, Live
<1>0. Plan(t)
  BY NextPlan
<1>1. ASSUME pc'[t] = "final"
      PROVE  seen'[t] \in Uuids /\ lb'[seen'[t]].status \in {"changing", "running"}
  <2>1. seen'[t] = seen[t] /\ pc[t] \in {"final", "apply"} /\ Live(seen[t])
    BY <1>0, <1>1 DEF Plan, FinalInv
  <2>2. seen[t] \in Uuids
    BY <2>1 DEF FinalInv, TypeOK
  <2> QED BY <2>1, <2>2, HolderKeeps DEF Critical
<1>2. ASSUME pc'[t] = "annotate" PROVE seen'[t] # None
  <2>1. CASE pc[t] = "annotate" /\ seen'[t] = seen[t]
    BY <2>1 DEF FinalInv
  <2>2. CASE /\ pc[t] = "final"
             /\ \E g, l \in LookupOutcomes :
                   seen'[t] = AtMostOne(findByServiceInfo(snap[t], g, l))
    <3>1. seen'[t] = AtMostOne(findByServiceInfo(snap[t], FALSE, FALSE))
      BY <2>2 DEF LookupOutcomes
    <3>2. seen[t] \in Uuids /\ Live(seen[t]) /\ lb[seen[t]].owner = t[1]
      BY <2>2, NoneAssumption DEF FinalInv, OwnInv, Mine
    <3> QED BY <3>1, <3>2, FindsAll
  <2> QED BY <1>0, <1>2, <2>1, <2>2 DEF Plan
<1>3. ASSUME pc'[t] = "apply" PROVE seen'[t] # None
  BY <1>0, <1>3 DEF Plan, FinalInv
<1> QED BY <1>1, <1>2, <1>3

\* EnsureLoadBalancer never dereferences a final state without a balancer,
\* with default names and lookups that do not fail half way.
THEOREM NoPanicHolds ==
    ASSUME CustomNames = {}, LookupFaults = FALSE
    PROVE  Spec => []NoPanic
<1>1. Init => LockInv /\ FinalInv
  BY DEF Init, LockInv, FinalInv, Critical
<1>2. TypeOK /\ OwnInv /\ [Next]_vars => OwnInv'
  BY OwnInductive
<1>3. TypeOK /\ LockInv /\ OwnInv /\ FinalInv /\ [Next]_vars => FinalInv'
  BY FinalInductive
<1>4. FinalInv => NoPanic
  BY DEF FinalInv, NoPanic
<1> QED BY <1>1, <1>2, <1>3, <1>4, OwnInit, LockInductive, TypeCorrect, PTL DEF Spec

-----------------------------------------------------------------------------
(* The refinement.                                                          *)

\* With one balancer at most, HasBar is that balancer.
LEMMA HasBarFacts ==
    ASSUME AtMostOneLb, NEW s \in Services
    PROVE  /\ Owned(s) = {} => HasBar[s] = None
           /\ \A u \in Owned(s) : HasBar[s] = u
<1>1. HasBar[s] = IF Owned(s) = {} THEN None ELSE CHOOSE u \in Owned(s) : TRUE
  BY DEF HasBar, AtMostOne, New
<1>2. \A u, v \in Owned(s) : u = v
  BY DEF Owned, AtMostOneLb
<1> QED BY <1>1, <1>2

\* The same balancers for the same services are the same abstract state.
LEMMA SameBars ==
    ASSUME \A u \in Uuids : SameLife(u)
    PROVE  HasBar' = HasBar /\ SpentBar' = SpentBar
<1>1. \A s \in Services : Owned(s)' = Owned(s)
  BY DEF Owned, SameLife
<1>2. HasBar' = HasBar
  BY <1>1 DEF HasBar
<1>3. SpentBar' = SpentBar
  BY DEF SpentBar, SameLife
<1> QED BY <1>2, <1>3

\* The same copies of services are asked for.
LEMMA SameAskedBar ==
    ASSUME SameAsked
    PROVE  AskedBar' = AskedBar
BY ThreadFacts DEF SameAsked, AskedBar, Deletes

\* A creation is Obtain.
LEMMA CreatedObtains ==
    ASSUME TypeOK, UniqueInv, UniqueInv', SameAsked, NEW t \in Threads, NEW u \in Uuids,
           Created(t, u)
    PROVE  OB!Obtain(t[1])
<1>s. t[1] \in Services
  BY ThreadFacts
<1>1. Owned(t[1]) = {}
  BY DEF Created, UniqueInv, CreateInv, Owned
<1>2. HasBar[t[1]] = None
  BY <1>s, <1>1, HasBarFacts DEF UniqueInv
<1>3. u \notin SpentBar /\ SpentBar' = SpentBar \cup {u}
  BY DEF Created, SpentBar
<1>4. \A s \in Services \ {t[1]} : Owned(s)' = Owned(s)
  BY DEF Created, Owned, Live
<1>5. HasBar'[t[1]] = u
  <2>1. u \in Owned(t[1])'
    BY DEF Created, Owned, Live
  <2>2. AtMostOneLb'
    BY DEF UniqueInv
  <2>3. \A v \in Owned(t[1])' : v = u
    BY <2>1, <2>2 DEF Owned, AtMostOneLb
  <2>4. HasBar'[t[1]] = IF Owned(t[1])' = {} THEN None ELSE CHOOSE v \in Owned(t[1])' : TRUE
    BY <1>s DEF HasBar, AtMostOne, New
  <2> QED BY <2>1, <2>3, <2>4
<1>6. HasBar' = [HasBar EXCEPT ![t[1]] = u]
  <2>1. \A s \in Services \ {t[1]} : HasBar'[s] = HasBar[s]
    BY <1>4 DEF HasBar
  <2>2. HasBar' = [s \in Services |-> HasBar'[s]] /\ HasBar = [s \in Services |-> HasBar[s]]
    BY DEF HasBar
  <2> QED BY <1>5, <2>1, <2>2
<1> QED BY <1>2, <1>3, <1>6, SameAskedBar DEF OB!Obtain

\* A deletion is Release.
LEMMA DeletedReleases ==
    ASSUME TypeOK, UniqueInv, DeleteInv, SameAsked, NEW t \in Threads, seen[t] \in Uuids,
           DeletedBy(t)
    PROVE  OB!Release(t[1])
<1> DEFINE u == seen[t]
<1>1. t[1] \in Services /\ lb[u].owner = t[1] /\ Live(u)
  BY ThreadFacts, NoneAssumption DEF UniqueInv, OwnInv, Mine, DeletedBy
<1>2. t = <<t[1], "service">> /\ Deletes(t)
  BY ThreadFacts DEF DeletedBy, DeleteInv, Deletes
<1>3. t[1] \in AskedBar
  BY <1>1, <1>2 DEF AskedBar
<1>4. HasBar[t[1]] = u /\ u # None
  BY <1>1, HasBarFacts, NoneAssumption DEF UniqueInv, Owned
<1>5. /\ \A v \in Uuids \ {u} : SameLife(v)
      /\ lb'[u].status = "deleted" /\ lb'[u].owner = lb[u].owner
  BY DeletedEffect
<1>6. Owned(t[1])' = {}
  <2> SUFFICES ASSUME NEW v \in Uuids, lb'[v].status \in {"changing", "running"},
                      lb'[v].owner = t[1]
               PROVE  FALSE
    BY DEF Owned, Live
  <2>1. v # u
    BY <1>5
  <2>2. Live(v) /\ lb[v].owner = t[1]
    BY <1>5, <2>1 DEF SameLife, Live
  <2> QED BY <1>1, <2>1, <2>2 DEF UniqueInv, AtMostOneLb
<1>7. \A s \in Services \ {t[1]} : Owned(s)' = Owned(s)
  <2> SUFFICES ASSUME NEW s \in Services \ {t[1]}, NEW v \in Uuids
               PROVE  v \in Owned(s)' <=> v \in Owned(s)
    BY DEF Owned
  <2>1. CASE v = u
    BY <1>1, <1>5, <2>1 DEF Owned, Live
  <2>2. CASE v # u
    BY <1>5, <2>2 DEF Owned, SameLife
  <2> QED BY <2>1, <2>2
<1>8. HasBar' = [HasBar EXCEPT ![t[1]] = None]
  <2>1. \A s \in Services \ {t[1]} : HasBar'[s] = HasBar[s]
    BY <1>7 DEF HasBar
  <2>2. HasBar'[t[1]] = None
    BY <1>1, <1>6 DEF HasBar, AtMostOne, New
  <2>3. HasBar' = [s \in Services |-> HasBar'[s]] /\ HasBar = [s \in Services |-> HasBar[s]]
    BY DEF HasBar
  <2> QED BY <2>1, <2>2, <2>3
<1>9. SpentBar' = SpentBar
  BY <1>1, <1>5 DEF SpentBar, SameLife, Live
<1> QED BY <1>3, <1>4, <1>8, <1>9, SameAskedBar DEF OB!Release

\* Every step maps to a step of OneBalancer.
LEMMA StepRefines ==
    ASSUME TypeOK, UniqueInv, UniqueInv', DeleteInv, [Next]_vars
    PROVE  OB!Next
<1>1. ASSUME SameAsked, NEW t \in Threads, NEW u \in Uuids, Created(t, u) PROVE OB!Next
  BY <1>1, CreatedObtains, ThreadFacts DEF OB!Next
<1>2. ASSUME SameAsked, NEW t \in Threads, seen[t] \in Uuids, DeletedBy(t) PROVE OB!Next
  BY <1>2, DeletedReleases, ThreadFacts DEF OB!Next
<1>3. CASE \A u \in Uuids : SameLife(u)
  <2>1. AskedBar' \subseteq Services
    BY DEF AskedBar
  <2> QED BY <1>3, <2>1, SameBars DEF OB!Next, OB!Ask
<1> QED BY <1>1, <1>2, <1>3, LifeSteps

LEMMA InitRefines == Init => OB!Init
<1> SUFFICES ASSUME Init PROVE OB!Init
  OBVIOUS
<1>1. \A s \in Services : Owned(s) = {}
  BY DEF Init, Owned, Live, Unused
<1>2. HasBar = [s \in Services |-> None]
  BY <1>1 DEF HasBar, AtMostOne, New
<1>3. SpentBar = {} /\ AskedBar = {}
  BY ThreadFacts DEF Init, SpentBar, AskedBar, Unused, Deletes, Absent
<1> QED BY <1>2, <1>3 DEF OB!Init

\* The handlers implement OneBalancer, for any number of services, failures
\* and crashes: a service gets a balancer only if it has none, always a new
\* one, and keeps it until EnsureLoadBalancerDeleted is called for it.
THEOREM Refinement ==
    ASSUME CustomNames = {}, LookupFaults = FALSE
    PROVE  Spec => OneBalancerSpec
<1>1. Init => UniqueInv
  BY UniqueInit
<1>2. TypeOK /\ UniqueInv /\ [Next]_vars => UniqueInv'
  BY UniqueInductive
<1>3. TypeOK /\ UniqueInv /\ UniqueInv' /\ DeleteInv /\ [Next]_vars => [OB!Next]_(OB!vars)
  BY StepRefines
<1>4. Spec => OB!Init /\ [][OB!Next]_(OB!vars)
  BY <1>1, <1>2, <1>3, InitRefines, DeleteInit, DeleteInductive, TypeCorrect, PTL DEF Spec
<1> QED BY <1>4 DEF OneBalancerSpec, OB!Spec
=============================================================================
