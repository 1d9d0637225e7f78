-------------------------- MODULE Reconcile_proofs --------------------------
(***************************************************************************)
(* Proofs about the contents of a balancer, for any configurations, nodes  *)
(* and addresses, any number of edits and any calls that fail.             *)
(***************************************************************************)
EXTENDS Reconcile, TLAPS, FiniteSetTheorems

-----------------------------------------------------------------------------
(* The invariant.                                                           *)

IsRecord(r) == r = [f \in DOMAIN r |-> r[f]]

IsLb(l) == l = [name |-> l.name, flavor |-> l.flavor, zone |-> l.zone, status |-> l.status,
                vip |-> l.vip]

\* The parts of the state are records with these fields.
ShapeInv ==
    /\ service = [config |-> service.config, zone |-> service.zone]
    /\ cloud = [lb |-> cloud.lb, pool |-> cloud.pool, member |-> cloud.member,
                listener |-> cloud.listener, monitor |-> cloud.monitor, ips |-> cloud.ips]
    /\ cloud.lb # None => IsLb(cloud.lb)

\* What the cloud holds has a name of its own.
IdInv ==
    \A k \in Kinds :
        /\ IsFiniteSet(cloud[k])
        /\ \A r \in cloud[k] :
              IsRecord(r) /\ {"id", "pool"} \subseteq DOMAIN r /\ r.id \in Nat
        /\ \A r, q \in cloud[k] : r.id = q.id => r = q

Creates(b, kind) == b.action.op = "create" /\ b.action.kind = kind
Deletes(b, kind) == b.action.op = "delete" /\ b.action.kind = kind

\* A plan is only made for a service that is not rejected.
LbInv ==
    /\ pc = "run" => ~Rejected(want)
    /\ \A b \in plan :
          /\ b.turn \in Int
          /\ b.action.op \in {"create-lb", "refetch", "rename-lb", "create", "delete", "update",
                              "assign"}
          /\ b.action.op = "refetch" => b.action = Refetch
          /\ b.action.op \notin {"create-lb", "refetch"} =>
                IsLb(cloud.lb) /\ ~Unchangeable(want)
          /\ b.action.op = "create-lb" =>
                /\ b.action.lb = desiredLb(want)
                /\ \A c \in plan : c # b => c.action = Refetch

\* A pool that is to be created has a name that is free, or is freed before.
CreatePoolInv ==
    \A b \in plan : Creates(b, "pool") =>
        /\ \E i \in DOMAIN want.config.ports : b.action.value = desiredPool(want, i)
        /\ \A q \in cloud.pool : q.name = b.action.value.name =>
              \E c \in plan : Deletes(c, "pool") /\ c.action.id = q.id /\ c.turn < b.turn
        /\ \A c \in plan : Creates(c, "pool") /\ c.action.value.name = b.action.value.name => b = c

\* What is to be created in a pool is not there, or goes away before; the pool
\* stays.
CreateInInv ==
    \A b \in plan : b.action.op = "create" /\ b.action.kind # "pool" =>
        /\ b.action.kind \in Kinds
        /\ \E p \in cloud.pool : p.id = b.action.pool
        /\ \A c \in plan : ~Deletes(c, "pool")
        /\ b.action.kind # "member" =>
              /\ \A r \in cloud[b.action.kind] : r.pool = b.action.pool =>
                    \E c \in plan : /\ Deletes(c, b.action.kind) /\ c.action.id = r.id
                                    /\ c.turn < b.turn
              /\ \A c \in plan :
                    Creates(c, b.action.kind) /\ c.action.pool = b.action.pool => b = c
        /\ b.action.kind = "member" =>
              /\ \E i \in DOMAIN want.config.ports : b.action.value \in desiredMembers(want, i)
              /\ \A m \in cloud.member : m.pool = b.action.pool =>
                    poolMemberKey(m) # poolMemberKey(b.action.value)
              /\ \A c \in plan :
                    /\ Creates(c, "member") /\ c.action.pool = b.action.pool
                    /\ poolMemberKey(c.action.value) = poolMemberKey(b.action.value)
                    => b = c

\* Pool p is what the i-th port of the service asks for.
Serves(w, p, i) == Without(p, {"id", "pool"}) = desiredPool(w, i)

\* What is to be deleted is not wanted, and nothing takes its name meanwhile.
DeleteInv ==
    \A b \in plan : b.action.op = "delete" =>
        /\ b.action.kind \in Kinds
        /\ b.action.kind = "pool" =>
              \A p \in cloud.pool : p.id = b.action.id =>
                  \A i \in DOMAIN want.config.ports : ~Serves(want, p, i)
        /\ b.action.kind = "member" =>
              \A m \in cloud.member, p \in cloud.pool : m.id = b.action.id /\ m.pool = p.id =>
                  \A i \in DOMAIN want.config.ports :
                      Serves(want, p, i) => Without(m, {"id", "pool"}) \notin desiredMembers(want, i)
        /\ b.action.kind = "listener" =>
              \A l \in cloud.listener, p \in cloud.pool : l.id = b.action.id /\ l.pool = p.id =>
                  \A i \in DOMAIN want.config.ports :
                      Serves(want, p, i) => listenerKey(l) # listenerKey(listenerForPort(want, i))
        /\ \A c \in plan : /\ Deletes(c, b.action.kind) /\ c.action.id = b.action.id
                           => b = c
        /\ \A c \in plan : Creates(c, b.action.kind) /\ c.turn <= b.turn =>
              \E r \in cloud[b.action.kind] : r.id = b.action.id

\* An update leaves what identifies a resource alone.
UpdateInv ==
    \A b \in plan : b.action.op = "update" =>
        /\ b.action.kind \in {"listener", "monitor"}
        /\ b.action.part \in {"settings", "http", "numbers"}
        /\ \A c \in plan : c.action.op # "delete"

PlanInv == LbInv /\ CreatePoolInv /\ CreateInInv /\ DeleteInv /\ UpdateInv

ContentInv == TypeOK /\ ShapeInv /\ IdInv /\ NoDuplicates /\ PlanInv

-----------------------------------------------------------------------------
(* What an action does.                                                     *)

\* Action b is carried out at cloudscale.ch, within the loop or by a call whose
\* answer is lost.
Does(b) ==
    /\ pc = "run" /\ b \in Foremost
    /\ b.action # Refetch /\ ~Refused(b.action)
    /\ \/ cloud' = Effect(b.action)
       \/ cloud' = [Effect(b.action) EXCEPT !.lb.status = "changing"]

Fields == {"lb", "ips"} \cup Kinds

\* What is left of a kind, and what it is after an update.
NotNamed(k, id) == {r \in cloud[k] : r.id # id}
NotIn(k, id)    == {r \in cloud[k] : r.pool # id}
Renewed(a, k)   == {Updated(a, r) : r \in cloud[k]}

\* The record that the cloud is.
LEMMA CloudShape ==
    ASSUME ShapeInv
    PROVE  IsRecord(cloud) /\ DOMAIN cloud = Fields
BY DEF ShapeInv, IsRecord, Fields, Kinds

\* What each operation does to what is in the balancer.
LEMMA EffectOnKinds ==
    ASSUME ShapeInv, NEW a
    PROVE  /\ a.op \in {"create-lb", "rename-lb", "assign", "create", "delete", "update"} =>
                 IsRecord(Effect(a)) /\ DOMAIN Effect(a) = Fields
           /\ a.op \in {"create-lb", "rename-lb", "assign"} =>
                 \A k \in Kinds : Effect(a)[k] = cloud[k]
           /\ a.op = "create" /\ a.kind \in Kinds =>
                 \A k \in Kinds : Effect(a)[k] = IF k = a.kind THEN cloud[k] \cup {Stored(a)}
                                                 ELSE cloud[k]
           /\ a.op = "delete" /\ a.kind \in Kinds \ {"pool"} =>
                 \A k \in Kinds : Effect(a)[k] = IF k = a.kind THEN NotNamed(k, a.id)
                                                 ELSE cloud[k]
           /\ a.op = "delete" /\ a.kind = "pool" =>
                 \A k \in Kinds : Effect(a)[k] = IF k = "pool" THEN NotNamed(k, a.id)
                                                 ELSE NotIn(k, a.id)
           /\ a.op = "update" /\ a.kind \in Kinds =>
                 \A k \in Kinds : Effect(a)[k] =
                     IF k = a.kind
                     THEN Renewed(a, k)
                     ELSE cloud[k]
<1> USE CloudShape DEF Effect, Fields, Kinds, IsRecord, NotNamed, NotIn, Renewed
<1>1. CASE a.op \in {"create-lb", "rename-lb", "assign"}
  BY <1>1
<1>2. CASE a.op = "create"
  BY <1>2
<1>3. CASE a.op = "delete" /\ a.kind # "pool"
  BY <1>3
<1>4. CASE a.op = "delete" /\ a.kind = "pool"
  BY <1>4
<1>5. CASE a.op = "update"
  BY <1>5
<1> QED BY <1>1, <1>2, <1>3, <1>4, <1>5

\* There is a name for a new resource that no other has.
LEMMA FreshId ==
    ASSUME IdInv, NEW k \in Kinds
    PROVE  Fresh(k) \in Nat /\ \A r \in cloud[k] : r.id # Fresh(k)
<1> DEFINE n == Cardinality(cloud[k]) + 1
           Free(i) == \A r \in cloud[k] : r.id # i
<1>1. IsFiniteSet(cloud[k]) /\ n \in Nat /\ Cardinality(cloud[k]) \in Nat
  BY FS_CardinalityType DEF IdInv
<1>2. \E i \in 1..n : Free(i)
  <2> SUFFICES ASSUME \A i \in 1..n : ~Free(i) PROVE FALSE
    OBVIOUS
  <2> DEFINE f == [i \in 1..n |-> CHOOSE r \in cloud[k] : r.id = i]
  <2>1. \A i \in 1..n : f[i] \in cloud[k] /\ f[i].id = i
    OBVIOUS
  <2>2. f \in [1..n -> cloud[k]]
    BY <2>1
  <2>3. IsFiniteSet(1..n) /\ Cardinality(1..n) = n
    BY <1>1, FS_Interval
  <2>4. \E i, j \in 1..n : i # j /\ f[i] = f[j]
    <3> HIDE DEF f
    <3> QED BY <1>1, <2>2, <2>3, FS_PigeonHole
  <2> QED BY <2>1, <2>4
<1>3. Fresh(k) = CHOOSE i \in 1..n : Free(i)
  BY DEF Fresh
<1>4. Fresh(k) \in 1..n /\ Free(Fresh(k))
  <2> HIDE DEF Free, n
  <2> QED BY <1>2, <1>3
<1> QED BY <1>1, <1>4

\* A stored resource is what was asked for, under a name of its own.
LEMMA StoredFields ==
    ASSUME NEW a
    PROVE  /\ IsRecord(Stored(a)) /\ DOMAIN Stored(a) = DOMAIN a.value \cup {"id", "pool"}
           /\ Stored(a).id = Fresh(a.kind) /\ Stored(a).pool = a.pool
           /\ \A f \in DOMAIN a.value : f \notin {"id", "pool", "http"} =>
                 Stored(a)[f] = a.value[f]
           /\ a.kind # "monitor" =>
                 \A f \in DOMAIN a.value : f \notin {"id", "pool"} => Stored(a)[f] = a.value[f]
<1> DEFINE named == [f \in DOMAIN a.value \cup {"id", "pool"} |->
                        CASE f = "id" -> Fresh(a.kind)
                          [] f = "pool" -> a.pool
                          [] OTHER -> a.value[f]]
<1>1. Stored(a) = IF a.kind = "monitor" /\ a.value.type = "http" /\ a.value.http = None
                  THEN [named EXCEPT !.http = DefaultHTTP] ELSE named
  BY DEF Stored
<1>2. /\ IsRecord(named) /\ DOMAIN named = DOMAIN a.value \cup {"id", "pool"}
      /\ named.id = Fresh(a.kind) /\ named.pool = a.pool
      /\ \A f \in DOMAIN a.value : f \notin {"id", "pool"} => named[f] = a.value[f]
  BY DEF IsRecord
<1> HIDE DEF named
<1> QED BY <1>1, <1>2 DEF IsRecord

\* What an action does to the contents, whether or not the balancer is then
\* changing.
LEMMA AfterAction ==
    ASSUME ShapeInv, LbInv, NEW b, Does(b)
    PROVE  /\ b \in plan
           /\ b.action.op \in {"create-lb", "rename-lb", "assign", "create", "delete", "update"}
           /\ IsRecord(cloud') /\ DOMAIN cloud' = Fields
           /\ \A k \in Fields \ {"lb"} : cloud'[k] = Effect(b.action)[k]
<1>1. b \in plan /\ b.action.op \in {"create-lb", "rename-lb", "assign", "create", "delete", "update"}
  BY DEF Does, Foremost, LbInv
<1>2. IsRecord(Effect(b.action)) /\ DOMAIN Effect(b.action) = Fields
  BY <1>1, EffectOnKinds
<1> QED BY <1>1, <1>2 DEF Does, IsRecord, Fields, Kinds


\* The ways in which the contents change.
LEMMA ActionKinds ==
    ASSUME ShapeInv, LbInv, CreateInInv, DeleteInv, UpdateInv, NEW b, Does(b)
    PROVE  \/ /\ b.action.op \in {"create-lb", "rename-lb", "assign"}
              /\ \A k \in Kinds : cloud'[k] = cloud[k]
           \/ /\ b.action.op = "create" /\ b.action.kind \in Kinds
              /\ \A k \in Kinds : cloud'[k] = IF k = b.action.kind
                                              THEN cloud[k] \cup {Stored(b.action)} ELSE cloud[k]
           \/ /\ b.action.op = "delete" /\ b.action.kind \in Kinds \ {"pool"}
              /\ \A k \in Kinds : cloud'[k] = IF k = b.action.kind
                                              THEN NotNamed(k, b.action.id)
                                              ELSE cloud[k]
           \/ /\ b.action.op = "delete" /\ b.action.kind = "pool"
              /\ \A k \in Kinds : cloud'[k] = IF k = "pool"
                                              THEN NotNamed(k, b.action.id)
                                              ELSE NotIn(k, b.action.id)
           \/ /\ b.action.op = "update" /\ b.action.kind \in {"listener", "monitor"}
              /\ b.action.part \in {"settings", "http", "numbers"}
              /\ \A k \in Kinds : cloud'[k] =
                     IF k = b.action.kind
                     THEN Renewed(b.action, k)
                     ELSE cloud[k]
<1> DEFINE a == b.action
<1>1. /\ b \in plan
      /\ a.op \in {"create-lb", "rename-lb", "assign", "create", "delete", "update"}
      /\ \A k \in Kinds : cloud'[k] = Effect(a)[k]
  BY AfterAction DEF Fields, Kinds
<1>2. CASE a.op \in {"create-lb", "rename-lb", "assign"}
  BY <1>1, <1>2, EffectOnKinds
<1>3. CASE a.op = "create"
  <2>1. a.kind \in Kinds
    BY <1>1, <1>3 DEF CreateInInv, Kinds
  <2> QED BY <1>1, <1>3, <2>1, EffectOnKinds
<1>4. CASE a.op = "delete"
  <2>1. a.kind \in Kinds
    BY <1>1, <1>4 DEF DeleteInv
  <2> QED BY <1>1, <1>4, <2>1, EffectOnKinds
<1>5. CASE a.op = "update"
  <2>1. a.kind \in {"listener", "monitor"} /\ a.part \in {"settings", "http", "numbers"}
    BY <1>1, <1>5 DEF UpdateInv
  <2>2. a.kind \in Kinds
    BY <2>1 DEF Kinds
  <2> QED BY <1>1, <1>5, <2>1, <2>2, EffectOnKinds
<1> QED BY <1>1, <1>2, <1>3, <1>4, <1>5

\* The same for one kind of contents.
ChangeOfKind(b, k) ==
    \/ cloud'[k] \subseteq cloud[k]
    \/ /\ b.action.op = "create" /\ b.action.kind = k
       /\ cloud'[k] = cloud[k] \cup {Stored(b.action)}
    \/ /\ b.action.op = "update" /\ b.action.kind = k /\ k \in {"listener", "monitor"}
       /\ b.action.part \in {"settings", "http", "numbers"}
       /\ cloud'[k] = Renewed(b.action, k)

LEMMA ActionOnKind ==
    ASSUME ShapeInv, LbInv, CreateInInv, DeleteInv, UpdateInv, NEW b, Does(b), NEW k \in Kinds
    PROVE  ChangeOfKind(b, k)
<1>1. NotNamed(k, b.action.id) \subseteq cloud[k] /\ NotIn(k, b.action.id) \subseteq cloud[k]
  BY DEF NotNamed, NotIn
<1> QED BY <1>1, ActionKinds DEF ChangeOfKind

\* A resource after an update in place.
LEMMA UpdatedFields ==
    ASSUME NEW r, IsRecord(r), NEW a
    PROVE  /\ IsRecord(Updated(a, r)) /\ DOMAIN Updated(a, r) = DOMAIN r
           /\ \A f \in DOMAIN r : f # a.part => Updated(a, r)[f] = r[f]
BY DEF IsRecord, Updated

LEMMA ActionIdInv ==
    ASSUME ShapeInv, IdInv, LbInv, CreateInInv, DeleteInv, UpdateInv, NEW b, Does(b)
    PROVE  IdInv'
<1> DEFINE a == b.action
<1> SUFFICES ASSUME NEW k \in Kinds
             PROVE  /\ IsFiniteSet(cloud'[k])
                    /\ \A r \in cloud'[k] :
                          IsRecord(r) /\ {"id", "pool"} \subseteq DOMAIN r /\ r.id \in Nat
                    /\ \A r, q \in cloud'[k] : r.id = q.id => r = q
  BY DEF IdInv
<1>0. /\ IsFiniteSet(cloud[k])
      /\ \A r \in cloud[k] :
            IsRecord(r) /\ {"id", "pool"} \subseteq DOMAIN r /\ r.id \in Nat
      /\ \A r, q \in cloud[k] : r.id = q.id => r = q
  BY DEF IdInv
<1>2. CASE a.op = "create" /\ a.kind = k /\ cloud'[k] = cloud[k] \cup {Stored(a)}
  <2>1. Fresh(k) \in Nat /\ \A r \in cloud[k] : r.id # Fresh(k)
    BY FreshId
  <2>2. /\ IsRecord(Stored(a)) /\ {"id", "pool"} \subseteq DOMAIN Stored(a)
        /\ Stored(a).id = Fresh(k)
    BY <1>2, StoredFields
  <2>3. IsFiniteSet(cloud'[k])
    BY <1>0, <1>2, FS_AddElement
  <2> QED BY <1>0, <1>2, <2>1, <2>2, <2>3
<1>3. CASE cloud'[k] \subseteq cloud[k]
  <2>1. IsFiniteSet(cloud'[k])
    BY <1>0, <1>3, FS_Subset
  <2> QED BY <1>0, <1>3, <2>1
<1>4. CASE /\ a.op = "update" /\ a.part \in {"settings", "http", "numbers"}
           /\ cloud'[k] = {Updated(a, r) : r \in cloud[k]}
  <2> DEFINE f == [r \in cloud[k] |-> Updated(a, r)]
  <2>1. \A r \in cloud[k] : /\ IsRecord(Updated(a, r)) /\ DOMAIN Updated(a, r) = DOMAIN r
                            /\ Updated(a, r).id = r.id
    <3> SUFFICES ASSUME NEW r \in cloud[k]
                 PROVE  /\ IsRecord(Updated(a, r)) /\ DOMAIN Updated(a, r) = DOMAIN r
                        /\ Updated(a, r).id = r.id
      OBVIOUS
    <3>1. IsRecord(r) /\ "id" \in DOMAIN r /\ a.part # "id"
      BY <1>0, <1>4
    <3> QED BY <3>1, UpdatedFields
  <2>2. IsFiniteSet(cloud'[k])
    <3>1. f \in Surjection(cloud[k], cloud'[k])
      BY <1>4 DEF Surjection
    <3> HIDE DEF f
    <3> QED BY <1>0, <3>1, FS_Surjection
  <2> QED BY <1>0, <1>4, <2>1, <2>2
<1>5. ChangeOfKind(b, k)
  BY ActionOnKind
<1> QED BY <1>2, <1>3, <1>4, <1>5 DEF Renewed, ChangeOfKind

LinkInv == \A k \in Kinds \ {"pool"} : \A r \in cloud[k] : \E p \in cloud.pool : r.pool = p.id

\* An update keeps the name of a resource and the pool it is in.
LEMMA UpdatedPlace ==
    ASSUME IdInv, NEW a, a.part \in {"settings", "http", "numbers"}, NEW k \in Kinds,
           NEW r \in cloud[k]
    PROVE  Updated(a, r).id = r.id /\ Updated(a, r).pool = r.pool
<1>1. IsRecord(r) /\ {"id", "pool"} \subseteq DOMAIN r
  BY DEF IdInv
<1> QED BY <1>1, UpdatedFields

LEMMA ActionLink ==
    ASSUME ShapeInv, IdInv, LbInv, CreateInInv, DeleteInv, UpdateInv, LinkInv, NEW b, Does(b)
    PROVE  LinkInv'
<1> DEFINE a == b.action
<1> SUFFICES ASSUME NEW k \in Kinds \ {"pool"}, NEW r \in cloud'[k]
             PROVE  \E p \in cloud'.pool : r.pool = p.id
  BY DEF LinkInv
<1>0. "pool" \in Kinds /\ b \in plan
  BY AfterAction DEF Kinds
<1>1. CASE \A l \in Kinds : cloud'[l] = cloud[l]
  BY <1>0, <1>1 DEF LinkInv
<1>2. CASE /\ a.op = "create" /\ a.kind \in Kinds
           /\ \A l \in Kinds : cloud'[l] = IF l = a.kind THEN cloud[l] \cup {Stored(a)}
                                           ELSE cloud[l]
  <2>1. cloud.pool \subseteq cloud'.pool
    BY <1>0, <1>2
  <2>2. CASE r \in cloud[k]
    BY <2>1, <2>2 DEF LinkInv
  <2>3. CASE k = a.kind /\ r = Stored(a)
    <3>1. \E p \in cloud.pool : p.id = a.pool
      BY <1>0, <1>2, <2>3 DEF CreateInInv
    <3>2. r.pool = a.pool
      BY <2>3, StoredFields
    <3> QED BY <2>1, <3>1, <3>2
  <2> QED BY <1>2, <2>2, <2>3
<1>3. CASE /\ a.kind # "pool"
           /\ \A l \in Kinds : cloud'[l] = IF l = a.kind THEN NotNamed(l, a.id) ELSE cloud[l]
  <2>1. cloud'.pool = cloud.pool /\ r \in cloud[k]
    BY <1>0, <1>3 DEF NotNamed
  <2> QED BY <2>1 DEF LinkInv
<1>4. CASE \A l \in Kinds : cloud'[l] = IF l = "pool" THEN NotNamed(l, a.id) ELSE NotIn(l, a.id)
  <2>1. cloud'.pool = NotNamed("pool", a.id) /\ r \in NotIn(k, a.id)
    BY <1>0, <1>4
  <2> QED BY <2>1 DEF LinkInv, NotNamed, NotIn
<1>5. CASE /\ a.kind \in {"listener", "monitor"} /\ a.part \in {"settings", "http", "numbers"}
           /\ \A l \in Kinds : cloud'[l] = IF l = a.kind THEN Renewed(a, l) ELSE cloud[l]
  <2>1. cloud'.pool = cloud.pool
    BY <1>0, <1>5
  <2>2. r \in cloud[k] \/ r \in Renewed(a, k)
    BY <1>5
  <2>3. \E q \in cloud[k] : r.pool = q.pool
    BY <1>5, <2>2, UpdatedPlace DEF Renewed
  <2> QED BY <2>1, <2>3 DEF LinkInv
<1> QED BY <1>1, <1>2, <1>3, <1>4, <1>5, ActionKinds

\* What is stored of a pool and of a member.
LEMMA StoredKeys ==
    ASSUME NEW a
    PROVE  /\ (\E i \in DOMAIN want.config.ports : a.value = desiredPool(want, i)) /\ a.kind = "pool"
                 => Stored(a).name = a.value.name
           /\ (\E i \in DOMAIN want.config.ports : a.value \in desiredMembers(want, i))
                 /\ a.kind = "member"
                 => poolMemberKey(Stored(a)) = poolMemberKey(a.value)
<1>1. ASSUME NEW i \in DOMAIN want.config.ports, a.value = desiredPool(want, i), a.kind = "pool"
      PROVE  Stored(a).name = a.value.name
  <2>1. "name" \in DOMAIN a.value
    BY <1>1 DEF desiredPool
  <2> QED BY <1>1, <2>1, StoredFields
<1>2. ASSUME NEW i \in DOMAIN want.config.ports, a.value \in desiredMembers(want, i),
             a.kind = "member"
      PROVE  poolMemberKey(Stored(a)) = poolMemberKey(a.value)
  <2>1. {"address", "subnet", "port", "monitorPort"} \subseteq DOMAIN a.value
    BY <1>2 DEF desiredMembers
  <2> QED BY <1>2, <2>1, StoredFields DEF poolMemberKey
<1> QED BY <1>1, <1>2


\* What may be created now: nothing that stands in its way is there any more.
LEMMA CreateNow ==
    ASSUME ShapeInv, LbInv, CreatePoolInv, CreateInInv, NEW b, Does(b), b.action.op = "create"
    PROVE  /\ b.action.kind = "pool" => \A q \in cloud.pool : q.name # b.action.value.name
           /\ b.action.kind = "member" =>
                 \A m \in cloud.member : m.pool = b.action.pool =>
                     poolMemberKey(m) # poolMemberKey(b.action.value)
           /\ b.action.kind \in {"listener", "monitor"} =>
                 \A r \in cloud[b.action.kind] : r.pool # b.action.pool
<1>1. b \in plan /\ \A c \in plan : ~(c.turn < b.turn)
  BY DEF Does, Foremost, LbInv
<1>2. CASE b.action.kind = "pool"
  BY <1>1, <1>2 DEF CreatePoolInv, Creates
<1>3. CASE b.action.kind = "member"
  BY <1>1, <1>3 DEF CreateInInv
<1>4. CASE b.action.kind \in {"listener", "monitor"}
  BY <1>1, <1>4 DEF CreateInInv
<1> QED BY <1>2, <1>3, <1>4

LEMMA ActionNoDuplicates ==
    ASSUME ShapeInv, IdInv, LbInv, CreatePoolInv, CreateInInv, DeleteInv, UpdateInv, NoDuplicates,
           NEW b, Does(b)
    PROVE  NoDuplicates'
<1> DEFINE a == b.action
<1>0. b \in plan /\ "pool" \in Kinds /\ "member" \in Kinds /\ {"listener", "monitor"} \subseteq Kinds
  BY AfterAction DEF Kinds
<1>1. ASSUME NEW p \in cloud'.pool, NEW q \in cloud'.pool, p.name = q.name
      PROVE  p = q
  <2>1. CASE p \in cloud.pool /\ q \in cloud.pool
    BY <1>1, <2>1 DEF NoDuplicates
  <2>2. CASE a.op = "create" /\ a.kind = "pool" /\ cloud'.pool = cloud.pool \cup {Stored(a)}
    <3>1. Stored(a).name = a.value.name
      BY <1>0, <2>2, StoredKeys DEF CreatePoolInv, Creates
    <3>2. \A r \in cloud.pool : r.name # a.value.name
      BY <2>2, CreateNow
    <3> QED BY <1>1, <2>1, <2>2, <3>1, <3>2
  <2>3. \/ cloud'.pool \subseteq cloud.pool
        \/ a.op = "create" /\ a.kind = "pool" /\ cloud'.pool = cloud.pool \cup {Stored(a)}
    <3>1. ChangeOfKind(b, "pool")
      BY <1>0, ActionOnKind
    <3> QED BY <3>1 DEF ChangeOfKind
  <2> QED BY <2>1, <2>2, <2>3
<1>2. ASSUME NEW m \in cloud'.member, NEW n \in cloud'.member,
             m.pool = n.pool /\ poolMemberKey(m) = poolMemberKey(n)
      PROVE  m = n
  <2>1. CASE m \in cloud.member /\ n \in cloud.member
    BY <1>2, <2>1 DEF NoDuplicates
  <2>2. CASE a.op = "create" /\ a.kind = "member" /\ cloud'.member = cloud.member \cup {Stored(a)}
    <3>1. poolMemberKey(Stored(a)) = poolMemberKey(a.value) /\ Stored(a).pool = a.pool
      BY <1>0, <2>2, StoredKeys, StoredFields DEF CreateInInv
    <3>2. \A r \in cloud.member : r.pool = a.pool => poolMemberKey(r) # poolMemberKey(a.value)
      BY <2>2, CreateNow
    <3> QED BY <1>2, <2>1, <2>2, <3>1, <3>2
  <2>3. \/ cloud'.member \subseteq cloud.member
        \/ a.op = "create" /\ a.kind = "member" /\ cloud'.member = cloud.member \cup {Stored(a)}
    <3>1. ChangeOfKind(b, "member")
      BY <1>0, ActionOnKind
    <3> QED BY <3>1 DEF ChangeOfKind
  <2> QED BY <2>1, <2>2, <2>3
<1>3. ASSUME NEW k \in {"listener", "monitor"}, NEW l \in cloud'[k], NEW m \in cloud'[k],
             l.pool = m.pool
      PROVE  l = m
  <2>0. k \in Kinds
    BY <1>0
  <2>1. CASE l \in cloud[k] /\ m \in cloud[k]
    BY <1>3, <2>1 DEF NoDuplicates
  <2>2. CASE a.op = "create" /\ a.kind = k /\ cloud'[k] = cloud[k] \cup {Stored(a)}
    <3>1. Stored(a).pool = a.pool
      BY StoredFields
    <3>2. \A r \in cloud[k] : r.pool # a.pool
      BY <2>2, CreateNow
    <3> QED BY <1>3, <2>1, <2>2, <3>1, <3>2
  <2>3. CASE a.part \in {"settings", "http", "numbers"} /\ cloud'[k] = Renewed(a, k)
    <3>1. PICK r \in cloud[k] : l = Updated(a, r)
      BY <2>3 DEF Renewed
    <3>2. PICK q \in cloud[k] : m = Updated(a, q)
      BY <2>3 DEF Renewed
    <3>3. r.pool = q.pool
      BY <1>3, <2>0, <2>3, <3>1, <3>2, UpdatedPlace
    <3> QED BY <3>1, <3>2, <3>3 DEF NoDuplicates
  <2>4. \/ cloud'[k] \subseteq cloud[k]
        \/ a.op = "create" /\ a.kind = k /\ cloud'[k] = cloud[k] \cup {Stored(a)}
        \/ a.part \in {"settings", "http", "numbers"} /\ cloud'[k] = Renewed(a, k)
    <3>1. ChangeOfKind(b, k)
      BY <2>0, ActionOnKind
    <3> QED BY <3>1 DEF ChangeOfKind
  <2> QED BY <2>1, <2>2, <2>3, <2>4
<1> QED BY <1>1, <1>2, <1>3 DEF NoDuplicates, poolMemberKey


-----------------------------------------------------------------------------
(* The balancer itself.                                                     *)

LEMMA EffectOnLb ==
    ASSUME ShapeInv, NEW a
    PROVE  /\ a.op = "create-lb" =>
                 Effect(a).lb = [name |-> a.lb.name, flavor |-> a.lb.flavor, zone |-> a.lb.zone,
                                 status |-> "changing",
                                 vip |-> AssignedVip(a.lb.vip)]
           /\ a.op = "rename-lb" => Effect(a).lb = [cloud.lb EXCEPT !.name = a.name]
           /\ a.op = "assign" => Effect(a).lb = cloud.lb
           /\ a.op \in {"create", "delete", "update"} /\ a.kind \in Kinds =>
                 Effect(a).lb = cloud.lb
<1> USE CloudShape DEF Effect, Fields, Kinds, IsRecord
<1>1. CASE a.op \in {"create-lb", "rename-lb", "assign"}
  BY <1>1
<1>2. CASE a.op = "create"
  BY <1>2
<1>3. CASE a.op = "delete" /\ a.kind # "pool"
  BY <1>3
<1>4. CASE a.op = "delete" /\ a.kind = "pool"
  BY <1>4
<1>5. CASE a.op = "update"
  BY <1>5
<1> QED BY <1>1, <1>2, <1>3, <1>4, <1>5

\* The balancer after an action: a new one is as desired, of one that is there
\* only the name and the status change.
LEMMA ActionOnLb ==
    ASSUME ShapeInv, LbInv, CreateInInv, DeleteInv, UpdateInv, NEW b, Does(b)
    PROVE  /\ IsLb(cloud'.lb)
           /\ \/ /\ cloud'.lb.flavor = want.config.flavor
                 /\ cloud'.lb.zone = desiredZone(want)
                 /\ want.config.vip # None => SameVip(want.config.vip, cloud'.lb.vip)
              \/ /\ ~Unchangeable(want)
                 /\ cloud'.lb.flavor = cloud.lb.flavor /\ cloud'.lb.zone = cloud.lb.zone
                 /\ cloud'.lb.vip = cloud.lb.vip
<1> DEFINE a == b.action
           e == Effect(a).lb
<1>1. /\ b \in plan
      /\ a.op \in {"create-lb", "rename-lb", "assign", "create", "delete", "update"}
  BY AfterAction
<1>2. a.op # "create-lb" => IsLb(cloud.lb) /\ ~Unchangeable(want)
  BY <1>1 DEF LbInv
<1>3. IsRecord(Effect(a)) /\ DOMAIN Effect(a) = Fields
  BY <1>1, EffectOnKinds
<1>4. cloud'.lb = e \/ cloud'.lb = [e EXCEPT !.status = "changing"]
  BY <1>3 DEF Does, Fields, IsRecord
<1>5. a.op \in {"create", "delete", "update"} => a.kind \in Kinds
  BY <1>1 DEF CreateInInv, DeleteInv, UpdateInv, Kinds
<1>6. IsLb(e) /\ \/ /\ e.flavor = want.config.flavor
                    /\ e.zone = desiredZone(want)
                    /\ want.config.vip # None => SameVip(want.config.vip, e.vip)
                 \/ /\ ~Unchangeable(want)
                    /\ e.flavor = cloud.lb.flavor /\ e.zone = cloud.lb.zone
                    /\ e.vip = cloud.lb.vip
  <2>1. CASE a.op = "create-lb"
    <3>1. a.lb = desiredLb(want)
      BY <1>1, <2>1 DEF LbInv
    <3>2. e = [name |-> a.lb.name, flavor |-> a.lb.flavor, zone |-> a.lb.zone,
               status |-> "changing", vip |-> AssignedVip(a.lb.vip)]
      BY <2>1, EffectOnLb
    <3> HIDE DEF e
    <3>3. IsLb(e)
      BY <3>2 DEF IsLb
    <3>4. e.flavor = a.lb.flavor /\ e.zone = a.lb.zone /\ e.vip = AssignedVip(a.lb.vip)
      BY <3>2
    <3>5. a.lb.vip # None => SameVip(a.lb.vip, e.vip)
      BY <3>4 DEF AssignedVip, SameVip
    <3> QED BY <3>1, <3>3, <3>4, <3>5 DEF desiredLb
  <2>2. CASE a.op = "rename-lb"
    BY <1>2, <2>2, EffectOnLb DEF IsLb
  <2>3. CASE a.op \in {"create", "delete", "update", "assign"}
    BY <1>2, <1>5, <2>3, EffectOnLb
  <2> QED BY <1>1, <2>1, <2>2, <2>3
<1> HIDE DEF e
<1> QED BY <1>4, <1>6 DEF IsLb

LEMMA ActionShape ==
    ASSUME ShapeInv, LbInv, CreateInInv, DeleteInv, UpdateInv, NEW b, Does(b), service' = service
    PROVE  ShapeInv'
<1>1. IsRecord(cloud') /\ DOMAIN cloud' = Fields
  BY AfterAction
<1>2. IsLb(cloud'.lb)
  BY ActionOnLb
<1>3. cloud' = [lb |-> cloud'.lb, pool |-> cloud'.pool, member |-> cloud'.member,
                listener |-> cloud'.listener, monitor |-> cloud'.monitor, ips |-> cloud'.ips]
  BY <1>1 DEF IsRecord, Fields, Kinds
<1> QED BY <1>2, <1>3 DEF ShapeInv

\* A service that was not rejected is not rejected after the action either.
LEMMA ActionNotRejected ==
    ASSUME ShapeInv, LbInv, CreateInInv, DeleteInv, UpdateInv, NEW b, Does(b), want' = want
    PROVE  ~Rejected(want)' /\ ~Unchangeable(want)'
<1>1. ~Rejected(want)
  BY DEF LbInv, Does
<1>2. Accepted(want)' <=> Accepted(want)
  BY DEF Accepted, ServerZones, filterNodesBySelector
<1>3. desiredZone(want)' = desiredZone(want)
  BY DEF desiredZone, ServerZones, filterNodesBySelector
<1> QED BY <1>1, <1>2, <1>3, ActionOnLb DEF Rejected, Unchangeable


\* LbInv is kept by an action of the plan.
LEMMA RunLbInv ==
    ASSUME ShapeInv, LbInv, CreateInInv, DeleteInv, UpdateInv, NEW b, Does(b),
           want' = want, plan' = plan \ {b}
    PROVE  LbInv'
<1>1. ~Rejected(want)' /\ ~Unchangeable(want)' /\ IsLb(cloud'.lb)
  BY ActionNotRejected, ActionOnLb
<1>2. desiredLb(want)' = desiredLb(want)
  BY DEF desiredLb, desiredZone, ServerZones, filterNodesBySelector
<1>3. \A c \in plan' : c \in plan
  OBVIOUS
<1> QED BY <1>1, <1>2, <1>3 DEF LbInv


-----------------------------------------------------------------------------
(* The rest of the plan, when one of its actions is done.                   *)

\* What is deleted is gone; the rest stays.
LEMMA DeletedGone ==
    ASSUME ShapeInv, LbInv, CreateInInv, DeleteInv, UpdateInv, NEW b, Does(b), NEW k \in Kinds,
           Deletes(b, k), NEW r \in cloud'[k]
    PROVE  r.id # b.action.id
<1>1. cloud'[k] = NotNamed(k, b.action.id)
  BY ActionKinds DEF Deletes
<1> QED BY <1>1 DEF NotNamed

LEMMA Survives ==
    ASSUME ShapeInv, LbInv, CreateInInv, DeleteInv, UpdateInv, NEW b, Does(b), NEW k \in Kinds,
           NEW r \in cloud[k],
           ~(Deletes(b, k) /\ b.action.id = r.id),
           k = "pool" \/ ~(Deletes(b, "pool") /\ b.action.id = r.pool),
           k \in {"pool", "member"} \/ b.action.op # "update"
    PROVE  r \in cloud'[k]
<1>1. b.action.op \in {"create-lb", "rename-lb", "assign", "create", "delete", "update"}
  BY AfterAction
<1>2. r \in NotNamed(k, b.action.id) <=> r.id # b.action.id
  BY DEF NotNamed
<1>3. r \in NotIn(k, b.action.id) <=> r.pool # b.action.id
  BY DEF NotIn
<1> QED BY <1>1, <1>2, <1>3, ActionKinds DEF Deletes

LEMMA RunCreatePoolInv ==
    ASSUME ShapeInv, LbInv, CreatePoolInv, CreateInInv, DeleteInv, UpdateInv, NEW b, Does(b),
           want' = want, plan' = plan \ {b}
    PROVE  CreatePoolInv'
<1> SUFFICES ASSUME NEW c \in plan', Creates(c, "pool")
             PROVE  /\ \E i \in DOMAIN want.config.ports : c.action.value = desiredPool(want, i)
                    /\ \A q \in cloud'.pool : q.name = c.action.value.name =>
                          \E d \in plan' : /\ Deletes(d, "pool") /\ d.action.id = q.id
                                           /\ d.turn < c.turn
                    /\ \A d \in plan' :
                          Creates(d, "pool") /\ d.action.value.name = c.action.value.name => c = d
  BY DEF CreatePoolInv, Creates, Deletes, desiredPool
<1>0. b \in plan /\ c \in plan /\ c # b /\ "pool" \in Kinds
  BY AfterAction DEF Kinds
<1>1. /\ \E i \in DOMAIN want.config.ports : c.action.value = desiredPool(want, i)
      /\ \A d \in plan' : Creates(d, "pool") /\ d.action.value.name = c.action.value.name => c = d
  BY <1>0 DEF CreatePoolInv
<1>2. ASSUME NEW q \in cloud'.pool, q.name = c.action.value.name
      PROVE  \E d \in plan' : Deletes(d, "pool") /\ d.action.id = q.id /\ d.turn < c.turn
  <2>1. CASE q \in cloud.pool
    <3>1. PICK d \in plan : Deletes(d, "pool") /\ d.action.id = q.id /\ d.turn < c.turn
      BY <1>0, <1>2, <2>1 DEF CreatePoolInv
    <3>2. d # b
      BY <1>0, <1>2, <3>1, DeletedGone
    <3> QED BY <3>1, <3>2
  <2>2. CASE Creates(b, "pool") /\ q = Stored(b.action)
    <3>1. q.name = b.action.value.name
      BY <1>0, <2>2, StoredKeys DEF CreatePoolInv, Creates
    <3> QED BY <1>0, <1>2, <2>2, <3>1 DEF CreatePoolInv
  <2>3. ChangeOfKind(b, "pool")
    BY <1>0, ActionOnKind
  <2> QED BY <1>2, <2>1, <2>2, <2>3 DEF ChangeOfKind, Creates
<1> QED BY <1>1, <1>2

LEMMA RunCreateInInv ==
    ASSUME ShapeInv, IdInv, LbInv, CreateInInv, DeleteInv, UpdateInv, NEW b, Does(b),
           want' = want, plan' = plan \ {b}
    PROVE  CreateInInv'
<1> DEFINE Same(c, d) == /\ Creates(d, "member") /\ d.action.pool = c.action.pool
                         /\ poolMemberKey(d.action.value) = poolMemberKey(c.action.value)
<1> SUFFICES ASSUME NEW c \in plan', c.action.op = "create", c.action.kind # "pool"
             PROVE  /\ c.action.kind \in Kinds
                    /\ \E p \in cloud'.pool : p.id = c.action.pool
                    /\ \A d \in plan' : ~Deletes(d, "pool")
                    /\ c.action.kind # "member" =>
                          /\ \A r \in cloud'[c.action.kind] : r.pool = c.action.pool =>
                                \E d \in plan' : /\ Deletes(d, c.action.kind)
                                                 /\ d.action.id = r.id /\ d.turn < c.turn
                          /\ \A d \in plan' :
                                Creates(d, c.action.kind) /\ d.action.pool = c.action.pool => c = d
                    /\ c.action.kind = "member" =>
                          /\ \E i \in DOMAIN want.config.ports :
                                c.action.value \in desiredMembers(want, i)
                          /\ \A m \in cloud'.member : m.pool = c.action.pool =>
                                poolMemberKey(m) # poolMemberKey(c.action.value)
                          /\ \A d \in plan' : Same(c, d) => c = d
  BY DEF CreateInInv, Creates, Deletes, desiredMembers, desiredAddresses, filterNodesBySelector,
         poolMemberKey
<1> DEFINE k == c.action.kind
<1>0. b \in plan /\ c \in plan /\ c # b /\ "pool" \in Kinds /\ "member" \in Kinds /\ k \in Kinds
  BY AfterAction DEF Kinds, CreateInInv
<1>1. \A d \in plan : ~Deletes(d, "pool")
  BY <1>0 DEF CreateInInv
<1>2. \E p \in cloud'.pool : p.id = c.action.pool
  <2>1. PICK p \in cloud.pool : p.id = c.action.pool
    BY <1>0 DEF CreateInInv
  <2>2. p \in cloud'.pool
    BY <1>0, <1>1, Survives
  <2> QED BY <2>1, <2>2
<1>3. ASSUME k # "member", NEW r \in cloud'[k], r.pool = c.action.pool
      PROVE  \E d \in plan' : Deletes(d, k) /\ d.action.id = r.id /\ d.turn < c.turn
  <2>1. CASE \E q \in cloud[k] : q.id = r.id /\ q.pool = r.pool
    <3>1. PICK d \in plan : Deletes(d, k) /\ d.action.id = r.id /\ d.turn < c.turn
      BY <1>0, <1>3, <2>1 DEF CreateInInv
    <3>2. d # b
      BY <1>0, <1>3, <3>1, DeletedGone
    <3> QED BY <3>1, <3>2
  <2>2. CASE Creates(b, k) /\ r = Stored(b.action)
    <3>1. b.action.pool = c.action.pool
      BY <1>3, <2>2, StoredFields
    <3> QED BY <1>0, <1>3, <2>2, <3>1 DEF CreateInInv
  <2>3. ChangeOfKind(b, k)
    BY <1>0, ActionOnKind
  <2>4. CASE b.action.part \in {"settings", "http", "numbers"} /\ r \in Renewed(b.action, k)
    BY <1>0, <2>1, <2>4, UpdatedPlace DEF Renewed
  <2> QED BY <1>3, <2>1, <2>2, <2>3, <2>4 DEF ChangeOfKind, Creates
<1>4. ASSUME k = "member", NEW m \in cloud'.member, m.pool = c.action.pool
      PROVE  poolMemberKey(m) # poolMemberKey(c.action.value)
  <2>1. CASE m \in cloud.member
    BY <1>0, <1>4, <2>1 DEF CreateInInv
  <2>2. CASE Creates(b, "member") /\ m = Stored(b.action)
    <3>1. m.pool = b.action.pool /\ poolMemberKey(m) = poolMemberKey(b.action.value)
      BY <1>0, <2>2, StoredFields, StoredKeys DEF CreateInInv, Creates
    <3> QED BY <1>0, <1>4, <2>2, <3>1 DEF CreateInInv
  <2>3. ChangeOfKind(b, "member")
    BY <1>0, ActionOnKind
  <2> QED BY <1>4, <2>1, <2>2, <2>3 DEF ChangeOfKind, Creates
<1>5. /\ k # "member" =>
            \A d \in plan' : Creates(d, k) /\ d.action.pool = c.action.pool => c = d
      /\ k = "member" =>
            /\ \E i \in DOMAIN want.config.ports : c.action.value \in desiredMembers(want, i)
            /\ \A d \in plan' : Same(c, d) => c = d
  BY <1>0 DEF CreateInInv
<1>6. k # "member" =>
          \A r \in cloud'[k] : r.pool = c.action.pool =>
              \E d \in plan' : Deletes(d, k) /\ d.action.id = r.id /\ d.turn < c.turn
  BY <1>3
<1>7. k = "member" =>
          \A m \in cloud'.member : m.pool = c.action.pool =>
              poolMemberKey(m) # poolMemberKey(c.action.value)
  BY <1>4
<1> HIDE DEF Same
<1> QED BY <1>0, <1>1, <1>2, <1>5, <1>6, <1>7


\* A new resource does not take the name of one that is still to be deleted.
LEMMA NewNotDeleted ==
    ASSUME IdInv, LbInv, DeleteInv, NEW b, Does(b), NEW k \in Kinds, Creates(b, k),
           NEW c \in plan, Deletes(c, k)
    PROVE  Stored(b.action).id # c.action.id
<1>1. b \in plan /\ b.turn <= c.turn
  BY DEF Does, Foremost
<1>2. \E r \in cloud[k] : r.id = c.action.id
  BY <1>1 DEF DeleteInv, Deletes
<1>3. Stored(b.action).id = Fresh(k) /\ \A r \in cloud[k] : r.id # Fresh(k)
  BY StoredFields, FreshId DEF Creates
<1> QED BY <1>2, <1>3

\* As long as something is to be deleted, nothing is updated: what there is was
\* there before or is new.
LEMMA OldOrNew ==
    ASSUME ShapeInv, IdInv, LbInv, CreateInInv, DeleteInv, UpdateInv, NEW b, Does(b),
           NEW c \in plan, c.action.op = "delete", NEW k \in Kinds, NEW r \in cloud'[k]
    PROVE  r \in cloud[k] \/ (Creates(b, k) /\ r = Stored(b.action))
<1>1. b \in plan
  BY AfterAction
<1>2. b.action.op # "update"
  BY <1>1 DEF UpdateInv
<1>3. ChangeOfKind(b, k)
  BY ActionOnKind
<1> QED BY <1>2, <1>3 DEF ChangeOfKind, Creates

\* The same for what is in a pool: it was in that pool before.
LEMMA OldContents ==
    ASSUME ShapeInv, IdInv, LbInv, CreateInInv, DeleteInv, UpdateInv, LinkInv, NEW b, Does(b),
           NEW k \in Kinds \ {"pool"}, NEW c \in plan, Deletes(c, k), NEW r \in cloud'[k],
           r.id = c.action.id, NEW p \in cloud'.pool, r.pool = p.id
    PROVE  r \in cloud[k] /\ p \in cloud.pool
<1>0. "pool" \in Kinds
  BY DEF Kinds
<1>1. r \in cloud[k]
  BY OldOrNew, NewNotDeleted DEF Deletes
<1>2. PICK q \in cloud.pool : r.pool = q.id
  BY <1>1 DEF LinkInv
<1>3. p \in cloud.pool \/ (Creates(b, "pool") /\ p = Stored(b.action))
  BY <1>0, OldOrNew DEF Deletes
<1>4. p # Stored(b.action) \/ ~Creates(b, "pool")
  <2>1. q.id # Fresh("pool")
    BY <1>0, FreshId
  <2>2. Stored(b.action).id = Fresh(b.action.kind)
    BY StoredFields
  <2> QED BY <1>2, <2>1, <2>2 DEF Creates
<1> QED BY <1>1, <1>3, <1>4

LEMMA RunDeleteInv ==
    ASSUME ShapeInv, IdInv, LbInv, CreateInInv, DeleteInv, UpdateInv, LinkInv, NEW b, Does(b),
           want' = want, plan' = plan \ {b}
    PROVE  DeleteInv'
<1> DEFINE Ports == DOMAIN want.config.ports
<1> SUFFICES ASSUME NEW c \in plan', c.action.op = "delete"
             PROVE  /\ c.action.kind \in Kinds
                    /\ c.action.kind = "pool" =>
                          \A p \in cloud'.pool : p.id = c.action.id => \A i \in Ports : ~Serves(want, p, i)
                    /\ c.action.kind = "member" =>
                          \A m \in cloud'.member, p \in cloud'.pool :
                              m.id = c.action.id /\ m.pool = p.id =>
                                  \A i \in Ports : Serves(want, p, i) =>
                                      Without(m, {"id", "pool"}) \notin desiredMembers(want, i)
                    /\ c.action.kind = "listener" =>
                          \A l \in cloud'.listener, p \in cloud'.pool :
                              l.id = c.action.id /\ l.pool = p.id =>
                                  \A i \in Ports : Serves(want, p, i) =>
                                      listenerKey(l) # listenerKey(listenerForPort(want, i))
                    /\ \A d \in plan' :
                          Deletes(d, c.action.kind) /\ d.action.id = c.action.id => c = d
                    /\ \A d \in plan' : Creates(d, c.action.kind) /\ d.turn <= c.turn =>
                          \E r \in cloud'[c.action.kind] : r.id = c.action.id
  BY DEF DeleteInv
<1> DEFINE k == c.action.kind
<1>1. /\ b \in plan /\ c \in plan /\ c # b /\ k \in Kinds /\ Deletes(c, k)
      /\ "pool" \in Kinds /\ {"member", "listener"} \subseteq Kinds \ {"pool"}
  BY AfterAction DEF DeleteInv, Kinds, Deletes
<1>2. ASSUME k = "pool", NEW p \in cloud'.pool, p.id = c.action.id, NEW i \in Ports
      PROVE  ~Serves(want, p, i)
  <2>1. p \in cloud.pool
    BY <1>1, <1>2, OldOrNew, NewNotDeleted
  <2> QED BY <1>1, <1>2, <2>1 DEF DeleteInv
<1>3. ASSUME k = "member", NEW m \in cloud'.member, NEW p \in cloud'.pool,
             m.id = c.action.id, m.pool = p.id, NEW i \in Ports, Serves(want, p, i)
      PROVE  Without(m, {"id", "pool"}) \notin desiredMembers(want, i)
  <2>1. m \in cloud.member /\ p \in cloud.pool
    BY <1>1, <1>3, OldContents
  <2> QED BY <1>1, <1>3, <2>1 DEF DeleteInv
<1>4. ASSUME k = "listener", NEW l \in cloud'.listener, NEW p \in cloud'.pool,
             l.id = c.action.id, l.pool = p.id, NEW i \in Ports, Serves(want, p, i)
      PROVE  listenerKey(l) # listenerKey(listenerForPort(want, i))
  <2>1. l \in cloud.listener /\ p \in cloud.pool
    BY <1>1, <1>4, OldContents
  <2> QED BY <1>1, <1>4, <2>1 DEF DeleteInv
<1>5. \A d \in plan' : Deletes(d, k) /\ d.action.id = c.action.id => c = d
  BY <1>1 DEF DeleteInv
<1>6. ASSUME NEW d \in plan', Creates(d, k), d.turn <= c.turn
      PROVE  \E r \in cloud'[k] : r.id = c.action.id
  <2>1. PICK r \in cloud[k] : r.id = c.action.id
    BY <1>1, <1>6 DEF DeleteInv
  <2>2. ~(Deletes(b, k) /\ b.action.id = r.id)
    BY <1>1, <2>1 DEF DeleteInv
  <2>3. k = "pool" \/ ~Deletes(b, "pool")
    BY <1>1, <1>6 DEF CreateInInv, Creates
  <2>4. b.action.op # "update"
    BY <1>1 DEF UpdateInv
  <2>5. r \in cloud'[k]
    BY <1>1, <2>2, <2>3, <2>4, Survives
  <2> QED BY <2>1, <2>5
<1>7. k = "pool" => \A p \in cloud'.pool : p.id = c.action.id => \A i \in Ports : ~Serves(want, p, i)
  BY <1>2
<1>8. k = "member" =>
          \A m \in cloud'.member, p \in cloud'.pool : m.id = c.action.id /\ m.pool = p.id =>
              \A i \in Ports :
                  Serves(want, p, i) => Without(m, {"id", "pool"}) \notin desiredMembers(want, i)
  BY <1>3
<1>9. k = "listener" =>
          \A l \in cloud'.listener, p \in cloud'.pool : l.id = c.action.id /\ l.pool = p.id =>
              \A i \in Ports :
                  Serves(want, p, i) => listenerKey(l) # listenerKey(listenerForPort(want, i))
  BY <1>4
<1> QED BY <1>1, <1>5, <1>6, <1>7, <1>8, <1>9

LEMMA RunUpdateInv ==
    ASSUME UpdateInv, NEW b, plan' = plan \ {b}
    PROVE  UpdateInv'
BY DEF UpdateInv


-----------------------------------------------------------------------------
(* New plans.                                                               *)

LEMMA KeyOfKind ==
    ASSUME NEW r
    PROVE  /\ key("pool", r) = poolKey(r) /\ key("member", r) = poolMemberKey(r)
           /\ key("listener", r) = listenerKey(r) /\ key("monitor", r) = monitorKey(r)
BY DEF key

\* The pools a service wants have different names.
LEMMA DesiredNames ==
    ASSUME want.config \in Configs, NEW i \in DOMAIN want.config.ports,
           NEW j \in DOMAIN want.config.ports,
           desiredPool(want, i).name = desiredPool(want, j).name
    PROVE  i = j
<1>1. poolName(want.config.ports[i]) = poolName(want.config.ports[j])
  BY DEF desiredPool
<1>2. want.config.ports[i].name = want.config.ports[j].name
  BY <1>1 DEF poolName
<1> QED BY <1>2, ReconcileAssumption

\* A pool that serves a port has its name and its key.
LEMMA ServesKey ==
    ASSUME NEW p, NEW i, Serves(want, p, i)
    PROVE  p.name = desiredPool(want, i).name /\ poolKey(p) = poolKey(desiredPool(want, i))
<1> DEFINE d == desiredPool(want, i)
           u == Without(p, {"id", "pool"})
<1>1. {"name", "algorithm", "protocol"} \subseteq DOMAIN d
  BY DEF desiredPool
<1>2. u = d
  BY DEF Serves
<1>3. \A f \in DOMAIN u : u[f] = p[f]
  BY DEF Without
<1> HIDE DEF u, d
<1>4. p.name = d.name /\ p.algorithm = d.algorithm /\ p.protocol = d.protocol
  BY <1>1, <1>2, <1>3
<1> QED BY <1>4 DEF poolKey, d

\* A pool with the name of a missing one is to be deleted.
LEMMA NameTaken ==
    ASSUME want.config \in Configs, IdInv, NoDuplicates, NEW p \in poolsToCreate(want),
           NEW q \in cloud.pool, q.name = p.name
    PROVE  q \in poolsToDelete(want)
<1>1. \A r \in cloud.pool : poolKey(r) = poolKey(q) => r.id <= q.id
  <2> SUFFICES ASSUME NEW r \in cloud.pool, poolKey(r) = poolKey(q) PROVE r.id <= q.id
    OBVIOUS
  <2>1. r = q
    BY DEF NoDuplicates, poolKey
  <2>2. q.id \in Nat
    BY DEF IdInv, Kinds
  <2> QED BY <2>1, <2>2
<1>2. ASSUME NEW d \in DesiredPools(want), poolKey(d) = poolKey(q)
      PROVE  FALSE
  <2>1. PICK i \in DOMAIN want.config.ports : d = desiredPool(want, i)
    BY <1>2 DEF DesiredPools
  <2>2. PICK j \in DOMAIN want.config.ports : p = desiredPool(want, j)
    BY DEF poolsToCreate, toCreate, DesiredPools
  <2>3. d.name = p.name
    BY <1>2 DEF poolKey
  <2>4. d = p
    BY <2>1, <2>2, <2>3, DesiredNames
  <2>5. poolKey(p) # poolKey(q)
    BY KeyOfKind DEF poolsToCreate, toCreate
  <2> QED BY <1>2, <2>4, <2>5
<1> QED BY <1>1, <1>2, KeyOfKind DEF poolsToDelete, toDelete, Newest

\* A pool that is to be deleted serves no port.
LEMMA DeletedServesNone ==
    ASSUME NEW p \in poolsToDelete(want), NEW i \in DOMAIN want.config.ports
    PROVE  p \in cloud.pool /\ ~Serves(want, p, i)
<1>1. desiredPool(want, i) \in DesiredPools(want)
  BY DEF DesiredPools
<1>2. poolKey(desiredPool(want, i)) # poolKey(p)
  BY <1>1, KeyOfKind DEF poolsToDelete, toDelete
<1> QED BY <1>2, ServesKey DEF poolsToDelete, toDelete


\* The state of affairs when a plan is made for a balancer that is there.
Planning ==
    /\ TypeOK /\ ShapeInv /\ IdInv /\ NoDuplicates
    /\ pc' = "run" /\ want' = want /\ cloud' = cloud
    /\ ~Rejected(want) /\ cloud.lb # None

LEMMA PlanningLb ==
    ASSUME Planning
    PROVE  ~Rejected(want)' /\ IsLb(cloud'.lb) /\ ~Unchangeable(want)'
<1>1. IsLb(cloud.lb) /\ ~Unchangeable(want)
  BY DEF Planning, ShapeInv, Rejected
<1>2. Accepted(want)' <=> Accepted(want)
  BY DEF Planning, Accepted, ServerZones, filterNodesBySelector
<1>3. desiredZone(want)' = desiredZone(want)
  BY DEF Planning, desiredZone, ServerZones, filterNodesBySelector
<1> QED BY <1>1, <1>2, <1>3 DEF Planning, Rejected, Unchangeable

LEMMA PoolPlan ==
    ASSUME Planning, NEW order \in Orders(want), plan' = nextLbActions(want, order),
           poolsToDelete(want) \cup poolsToCreate(want) # {}
    PROVE  PlanInv'
<1> DEFINE n == Cardinality(poolsToDelete(want))
           IsRename(b) == b = [turn |-> 0, action |-> RenameLb(want.config.name)]
           IsMember(b, p, m) == b = [turn |-> 2 * order[p] - 1, action |-> DeleteResource("member", m)]
           IsPool(b, p) == b = [turn |-> 2 * order[p], action |-> DeleteResource("pool", p)]
           IsCreate(b, p) == b = [turn |-> 2 * n + 1, action |-> CreatePool(p)]
           IsRefetch(b) == b = [turn |-> 2 * n + 2, action |-> Refetch]
<1>0. /\ want.config \in Configs /\ IdInv /\ NoDuplicates
      /\ want' = want /\ cloud' = cloud
  BY DEF Planning, TypeOK
<1>1. n \in Nat /\ \A p \in poolsToDelete(want) : order[p] \in 1..n
  <2>1. IsFiniteSet(cloud.pool) /\ poolsToDelete(want) \in SUBSET cloud.pool
    BY <1>0 DEF IdInv, Kinds, poolsToDelete, toDelete
  <2>2. IsFiniteSet(poolsToDelete(want))
    BY <2>1, FS_Subset
  <2>3. n \in Nat
    BY <2>2, FS_CardinalityType
  <2>4. order \in [poolsToDelete(want) -> 1..n]
    BY DEF Orders, Bijection, Injection
  <2> QED BY <2>3, <2>4
<1>2. \A b \in plan' : \/ IsRename(b) \/ IsRefetch(b)
                       \/ \E p \in poolsToDelete(want) :
                              IsPool(b, p) \/ \E m \in Of("member", p) : IsMember(b, p, m)
                       \/ \E p \in poolsToCreate(want) : IsCreate(b, p)
  <2>1. plan' = At(0, Rename(want)) \cup (PoolActions(want, order) \cup At(2 * n + 2, {Refetch}))
    BY DEF nextLbActions
  <2>2. \A b \in At(0, Rename(want)) : IsRename(b)
    BY DEF At, Rename
  <2>3. \A b \in At(2 * n + 2, {Refetch}) : IsRefetch(b)
    BY DEF At
  <2>4. \A b \in PoolActions(want, order) :
            \/ \E p \in poolsToDelete(want) :
                   IsPool(b, p) \/ \E m \in Of("member", p) : IsMember(b, p, m)
            \/ \E p \in poolsToCreate(want) : IsCreate(b, p)
    BY DEF PoolActions, DeletePools, At
  <2> HIDE DEF IsRename, IsRefetch, IsPool, IsMember, IsCreate
  <2> QED BY <2>1, <2>2, <2>3, <2>4
<1>3. \A p \in poolsToDelete(want) : \E b \in plan' : IsPool(b, p)
  <2> SUFFICES ASSUME NEW p \in poolsToDelete(want) PROVE \E b \in plan' : IsPool(b, p)
    OBVIOUS
  <2> DEFINE b == [turn |-> 2 * order[p], action |-> DeleteResource("pool", p)]
  <2>1. b \in At(2 * order[p], {DeleteResource("pool", p)})
    BY DEF At
  <2>2. b \in DeletePools(want, order)
    BY <2>1, Zenon DEF DeletePools
  <2>3. b \in PoolActions(want, order)
    BY <2>2 DEF PoolActions
  <2>4. b \in plan'
    BY <2>3 DEF nextLbActions
  <2> QED BY <2>4
<1>4. /\ \A b : IsRename(b) => b.turn = 0 /\ b.action.op = "rename-lb"
      /\ \A b : IsRefetch(b) =>
            b.turn = 2 * n + 2 /\ b.action = Refetch /\ b.action.op = "refetch"
      /\ \A b, p : IsPool(b, p) =>
            b.turn = 2 * order[p] /\ Deletes(b, "pool") /\ b.action.id = p.id
      /\ \A b, p, m : IsMember(b, p, m) =>
            b.turn = 2 * order[p] - 1 /\ Deletes(b, "member") /\ b.action.id = m.id
      /\ \A b, p : IsCreate(b, p) =>
            b.turn = 2 * n + 1 /\ Creates(b, "pool") /\ b.action.value = p
  BY DEF Creates, Deletes, RenameLb, Refetch, DeleteResource, CreatePool
<1>5. /\ \A b, c, p : IsPool(b, p) /\ IsPool(c, p) => b = c
      /\ \A b, c, p, m : IsMember(b, p, m) /\ IsMember(c, p, m) => b = c
      /\ \A b, c, p : IsCreate(b, p) /\ IsCreate(c, p) => b = c
  OBVIOUS
<1> HIDE DEF n, IsRename, IsRefetch, IsPool, IsMember, IsCreate
<1>6. LbInv'
  <2>1. ~Rejected(want)' /\ IsLb(cloud'.lb) /\ ~Unchangeable(want)'
    BY PlanningLb
  <2>2. ASSUME NEW b \in plan'
        PROVE  /\ b.turn \in Int
               /\ b.action.op \in {"refetch", "rename-lb", "create", "delete"}
               /\ b.action.op = "refetch" => b.action = Refetch
    BY <1>1, <1>2, <1>4 DEF Creates, Deletes
  <2> QED BY <2>1, <2>2 DEF LbInv
<1>7. CreatePoolInv'
  <2> SUFFICES ASSUME NEW b \in plan', Creates(b, "pool")
               PROVE  /\ \E i \in DOMAIN want.config.ports : b.action.value = desiredPool(want, i)
                      /\ \A q \in cloud.pool : q.name = b.action.value.name =>
                            \E c \in plan' : /\ Deletes(c, "pool") /\ c.action.id = q.id
                                             /\ c.turn < b.turn
                      /\ \A c \in plan' :
                            Creates(c, "pool") /\ c.action.value.name = b.action.value.name => b = c
    BY <1>0 DEF CreatePoolInv, Creates, Deletes
  <2>1. \A c \in plan' : Creates(c, "pool") => \E p \in poolsToCreate(want) : IsCreate(c, p)
    BY <1>2, <1>4 DEF Creates, Deletes
  <2>2. PICK p \in poolsToCreate(want) : IsCreate(b, p)
    BY <2>1
  <2>3. \A q \in poolsToCreate(want) : \E i \in DOMAIN want.config.ports : q = desiredPool(want, i)
    BY DEF poolsToCreate, toCreate, DesiredPools
  <2>4. ASSUME NEW q \in cloud.pool, q.name = b.action.value.name
        PROVE  \E c \in plan' : Deletes(c, "pool") /\ c.action.id = q.id /\ c.turn < b.turn
    <3>1. q \in poolsToDelete(want)
      BY <1>0, <1>4, <2>2, <2>4, NameTaken
    <3>2. PICK c \in plan' : IsPool(c, q)
      BY <1>3, <3>1
    <3>3. order[q] \in 1..n
      BY <1>1, <3>1
    <3> QED BY <1>1, <1>4, <2>2, <3>2, <3>3
  <2>5. ASSUME NEW c \in plan', Creates(c, "pool"), c.action.value.name = b.action.value.name
        PROVE  b = c
    <3>1. PICK q \in poolsToCreate(want) : IsCreate(c, q)
      BY <2>1, <2>5
    <3>2. p = q
      BY <1>0, <1>4, <2>2, <2>3, <2>5, <3>1, DesiredNames
    <3> QED BY <1>5, <2>2, <3>1, <3>2
  <2> QED BY <1>4, <2>2, <2>3, <2>4, <2>5
<1>8. CreateInInv'
  <2>1. \A b \in plan' : b.action.op = "create" => b.action.kind = "pool"
    BY <1>2, <1>4 DEF Creates, Deletes
  <2> QED BY <2>1 DEF CreateInInv
<1>9. DeleteInv'
  <2> SUFFICES ASSUME NEW b \in plan', b.action.op = "delete"
               PROVE  /\ b.action.kind \in Kinds
                      /\ b.action.kind = "pool" =>
                            \A p \in cloud.pool : p.id = b.action.id =>
                                \A i \in DOMAIN want.config.ports : ~Serves(want, p, i)
                      /\ b.action.kind = "member" =>
                            \A m \in cloud.member, p \in cloud.pool :
                                m.id = b.action.id /\ m.pool = p.id =>
                                    \A i \in DOMAIN want.config.ports : ~Serves(want, p, i)
                      /\ b.action.kind # "listener"
                      /\ \A c \in plan' :
                            Deletes(c, b.action.kind) /\ c.action.id = b.action.id => b = c
                      /\ \A c \in plan' : Creates(c, b.action.kind) => ~(c.turn <= b.turn)
    BY <1>0 DEF DeleteInv
  <2>0. /\ \A p, q \in cloud.pool : p.id = q.id => p = q
        /\ \A l, m \in cloud.member : l.id = m.id => l = m
        /\ \A p : \A m \in Of("member", p) : m \in cloud.member /\ m.pool = p.id
        /\ {"pool", "member"} \subseteq Kinds
        /\ \A p \in poolsToDelete(want) : p \in cloud.pool
    BY <1>0 DEF IdInv, Kinds, Of, poolsToDelete, toDelete
  <2>1. ASSUME NEW p \in poolsToDelete(want), IsPool(b, p)
        PROVE  /\ b.action.kind = "pool"
               /\ \A q \in cloud.pool : q.id = b.action.id =>
                     \A i \in DOMAIN want.config.ports : ~Serves(want, q, i)
               /\ \A c \in plan' : Deletes(c, "pool") /\ c.action.id = b.action.id => b = c
               /\ \A c \in plan' : Creates(c, "pool") => ~(c.turn <= b.turn)
    <3>1. Deletes(b, "pool") /\ b.action.id = p.id /\ b.turn = 2 * order[p]
      BY <1>4, <2>1
    <3>2. \A q \in cloud.pool : q.id = b.action.id =>
              \A i \in DOMAIN want.config.ports : ~Serves(want, q, i)
      BY <2>0, <3>1, DeletedServesNone
    <3>3. ASSUME NEW c \in plan', Deletes(c, "pool"), c.action.id = b.action.id
          PROVE  b = c
      <4>1. PICK q \in poolsToDelete(want) : IsPool(c, q)
        BY <1>2, <1>4, <3>3 DEF Creates, Deletes
      <4>2. q = p
        BY <1>4, <2>0, <3>1, <3>3, <4>1
      <4> QED BY <1>5, <2>1, <4>1, <4>2
    <3>4. ASSUME NEW c \in plan', Creates(c, "pool") PROVE ~(c.turn <= b.turn)
      <4>1. c.turn = 2 * n + 1
        BY <1>2, <1>4, <3>4 DEF Creates, Deletes
      <4>2. order[p] \in 1..n
        BY <1>1
      <4> QED BY <1>1, <3>1, <4>1, <4>2
    <3> QED BY <3>1, <3>2, <3>3, <3>4 DEF Deletes
  <2>2. ASSUME NEW p \in poolsToDelete(want), NEW m \in Of("member", p), IsMember(b, p, m)
        PROVE  /\ b.action.kind = "member"
               /\ \A l \in cloud.member, q \in cloud.pool :
                      l.id = b.action.id /\ l.pool = q.id =>
                          \A i \in DOMAIN want.config.ports : ~Serves(want, q, i)
               /\ \A c \in plan' : Deletes(c, "member") /\ c.action.id = b.action.id => b = c
               /\ \A c \in plan' : ~Creates(c, "member")
    <3>1. Deletes(b, "member") /\ b.action.id = m.id
      BY <1>4, <2>2
    <3>2. \A l \in cloud.member, q \in cloud.pool :
              l.id = b.action.id /\ l.pool = q.id =>
                  \A i \in DOMAIN want.config.ports : ~Serves(want, q, i)
      BY <2>0, <2>2, <3>1, DeletedServesNone
    <3>3. ASSUME NEW c \in plan', Deletes(c, "member"), c.action.id = b.action.id
          PROVE  b = c
      <4>1. PICK q \in poolsToDelete(want) : \E l \in Of("member", q) : IsMember(c, q, l)
        BY <1>2, <1>4, <3>3 DEF Creates, Deletes
      <4>2. PICK l \in Of("member", q) : IsMember(c, q, l)
        BY <4>1
      <4>3. l = m
        BY <1>4, <2>0, <3>1, <3>3, <4>2
      <4>4. q = p
        BY <2>0, <4>3
      <4> QED BY <1>5, <2>2, <4>2, <4>3, <4>4
    <3>4. \A c \in plan' : ~Creates(c, "member")
      BY <1>2, <1>4 DEF Creates, Deletes
    <3> QED BY <3>1, <3>2, <3>3, <3>4 DEF Deletes
  <2>3. CASE \E p \in poolsToDelete(want) : IsPool(b, p)
    BY <2>0, <2>1, <2>3
  <2>4. CASE \E p \in poolsToDelete(want) : \E m \in Of("member", p) : IsMember(b, p, m)
    BY <2>0, <2>2, <2>4
  <2> QED BY <1>2, <1>4, <2>3, <2>4 DEF Creates
<1>10. UpdateInv'
  <2>1. \A b \in plan' : b.action.op # "update"
    BY <1>2, <1>4 DEF Creates, Deletes
  <2> QED BY <2>1 DEF UpdateInv
<1> QED BY <1>6, <1>7, <1>8, <1>9, <1>10 DEF PlanInv


\* What a port has in its pool, what it should have, and when that is seen to.
Parts == {"member", "listener", "monitor"}

PortPool(i) == poolsByName(desiredPool(want, i).name)

Desired(k, i) == IF k = "member" THEN desiredMembers(want, i)
                 ELSE IF k = "listener" THEN {listenerForPort(want, i)}
                 ELSE {healthMonitorForPort(want)}

TurnOf(k, i) == IF k = "member" THEN 6 * i ELSE IF k = "listener" THEN 6 * i + 2 ELSE 6 * i + 4

ToDelete(k, i) == toDelete(k, Desired(k, i), Of(k, PortPool(i)))
ToCreate(k, i) == toCreate(k, Desired(k, i), Of(k, PortPool(i)))

\* When no pool is missing, each port has a pool of its own.
LEMMA PortPools ==
    ASSUME want.config \in Configs, IdInv, NoDuplicates, poolsToCreate(want) = {},
           NEW i \in DOMAIN want.config.ports
    PROVE  /\ PortPool(i) \in cloud.pool /\ PortPool(i).name = desiredPool(want, i).name
           /\ \A p \in cloud.pool : p.name = desiredPool(want, i).name => p = PortPool(i)
           /\ \A j \in DOMAIN want.config.ports : PortPool(i).id = PortPool(j).id => i = j
<1> DEFINE name(j) == desiredPool(want, j).name
           First(j, p) == /\ p.name = name(j)
                          /\ \A q \in cloud.pool : q.name = name(j) => q.id <= p.id
<1>1. ASSUME NEW j \in DOMAIN want.config.ports
      PROVE  PortPool(j) \in cloud.pool /\ PortPool(j).name = name(j)
  <2>1. desiredPool(want, j) \in DesiredPools(want)
    BY DEF DesiredPools
  <2>2. PICK p \in cloud.pool : key("pool", desiredPool(want, j)) = key("pool", p)
    BY <2>1 DEF poolsToCreate, toCreate
  <2>3. p.name = name(j)
    BY <2>2, KeyOfKind DEF poolKey
  <2>4. p.id \in Nat
    BY DEF IdInv, Kinds
  <2>5. First(j, p)
    BY <2>3, <2>4 DEF NoDuplicates
  <2>6. PortPool(j) = CHOOSE q \in cloud.pool : First(j, q)
    BY DEF PortPool, poolsByName
  <2>7. PortPool(j) \in cloud.pool /\ First(j, PortPool(j))
    <3> HIDE DEF First
    <3> QED BY <2>5, <2>6
  <2> QED BY <2>7
<1>2. ASSUME NEW j \in DOMAIN want.config.ports, PortPool(i).id = PortPool(j).id
      PROVE  i = j
  <2>1. PortPool(i) = PortPool(j)
    BY <1>1, <1>2 DEF IdInv, Kinds
  <2>2. name(i) = name(j)
    BY <1>1, <2>1
  <2> QED BY <2>2, DesiredNames
<1>3. \A p \in cloud.pool : p.name = name(i) => p = PortPool(i)
  BY <1>1 DEF NoDuplicates
<1> QED BY <1>1, <1>2, <1>3

\* The parts of a plan for the contents.
DeletesIn(b, k, i, r) == b = [turn |-> TurnOf(k, i), action |-> DeleteResource(k, r)]
CreatesIn(b, k, i, r) == b = [turn |-> TurnOf(k, i) + 1, action |-> CreateIn(k, PortPool(i), r)]

LEMMA ContentParts ==
    ASSUME NEW i \in DOMAIN want.config.ports, NEW b
    PROVE  b \in ContentActions(want, i) <=>
               \E k \in Parts : \/ \E r \in ToDelete(k, i) : DeletesIn(b, k, i, r)
                                \/ \E r \in ToCreate(k, i) : CreatesIn(b, k, i, r)
<1> DEFINE In(k) == Replace(k, TurnOf(k, i), PortPool(i), Desired(k, i))
<1>1. \A k : b \in In(k) <=> \/ \E r \in ToDelete(k, i) : DeletesIn(b, k, i, r)
                             \/ \E r \in ToCreate(k, i) : CreatesIn(b, k, i, r)
  BY DEF Replace, At, ToDelete, ToCreate, DeletesIn, CreatesIn
<1>2. ContentActions(want, i) = In("member") \cup In("listener") \cup In("monitor")
  BY DEF ContentActions, PortPool, Desired, TurnOf
<1> HIDE DEF In
<1>3. b \in ContentActions(want, i) <=> \E k \in Parts : b \in In(k)
  BY <1>2 DEF Parts
<1> QED BY <1>1, <1>3


\* Where a listener or a monitor is missing, one that is there instead is to be
\* deleted.
LEMMA OnlyOne ==
    ASSUME want.config \in Configs, IdInv, NoDuplicates, poolsToCreate(want) = {},
           NEW i \in DOMAIN want.config.ports, NEW k \in {"listener", "monitor"},
           NEW d \in ToCreate(k, i), NEW r \in cloud[k], r.pool = PortPool(i).id
    PROVE  r \in ToDelete(k, i)
<1>1. r \in Of(k, PortPool(i)) /\ \A q \in Of(k, PortPool(i)) : q = r
  BY DEF Of, NoDuplicates
<1>2. r.id \in Nat
  BY DEF IdInv, Kinds
<1>3. Newest(k, Of(k, PortPool(i)), r)
  BY <1>1, <1>2 DEF Newest
<1>4. Desired(k, i) = {d} /\ key(k, d) # key(k, r)
  BY <1>1 DEF ToCreate, toCreate, Desired
<1> QED BY <1>1, <1>3, <1>4 DEF ToDelete, toDelete

\* A member that is not wanted is not among the desired members.
LEMMA UnwantedMember ==
    ASSUME NEW i \in DOMAIN want.config.ports, NEW m \in ToDelete("member", i)
    PROVE  Without(m, {"id", "pool"}) \notin desiredMembers(want, i)
<1> DEFINE u == Without(m, {"id", "pool"})
<1> SUFFICES ASSUME u \in desiredMembers(want, i) PROVE FALSE
  OBVIOUS
<1>1. {"address", "subnet", "port", "monitorPort"} \subseteq DOMAIN u
  BY DEF desiredMembers
<1>2. \A f \in DOMAIN u : u[f] = m[f]
  BY DEF Without
<1>3. key("member", u) = key("member", m)
  <2> HIDE DEF u
  <2> QED BY <1>1, <1>2, KeyOfKind DEF poolMemberKey
<1>4. u \in Desired("member", i)
  BY DEF Desired
<1> QED BY <1>3, <1>4 DEF ToDelete, toDelete

\* Members are told apart by their keys.
LEMMA SameMember ==
    ASSUME NEW i, NEW r \in desiredMembers(want, i), NEW q \in desiredMembers(want, i),
           poolMemberKey(r) = poolMemberKey(q)
    PROVE  r = q
BY DEF desiredMembers, poolMemberKey

LEMMA ContentPlan ==
    ASSUME Planning, NEW order \in Orders(want), plan' = nextLbActions(want, order),
           poolsToDelete(want) \cup poolsToCreate(want) = {}, Contents(want) # {}
    PROVE  PlanInv'
<1> DEFINE Ports == DOMAIN want.config.ports
           n == 6 * Len(want.config.ports) + 6
           IsRename(b) == b = [turn |-> 0, action |-> RenameLb(want.config.name)]
           IsRefetch(b) == b = [turn |-> n, action |-> Refetch]
           Deletion(b, k, i) == \E r \in ToDelete(k, i) : DeletesIn(b, k, i, r)
           Creation(b, k, i) == \E r \in ToCreate(k, i) : CreatesIn(b, k, i, r)
<1>0. /\ want.config \in Configs /\ IdInv /\ NoDuplicates /\ poolsToCreate(want) = {}
      /\ want' = want /\ cloud' = cloud
  BY DEF Planning, TypeOK
<1>1. n \in Int /\ \A k \in Parts : \A i \in Ports : TurnOf(k, i) \in Int
  BY <1>0, ReconcileAssumption DEF Parts, TurnOf
<1>2. \A b \in plan' : \/ IsRename(b) \/ IsRefetch(b)
                       \/ \E i \in Ports : \E k \in Parts : Deletion(b, k, i) \/ Creation(b, k, i)
  <2>1. plan' = At(0, Rename(want)) \cup (Contents(want) \cup At(n, {Refetch}))
    BY DEF nextLbActions
  <2>2. \A b \in At(0, Rename(want)) : IsRename(b)
    BY DEF At, Rename
  <2>3. \A b \in At(n, {Refetch}) : IsRefetch(b)
    BY DEF At
  <2>4. \A b \in Contents(want) : \E i \in Ports : b \in ContentActions(want, i)
    BY DEF Contents
  <2>5. \A b \in Contents(want) :
            \E i \in Ports : \E k \in Parts : Deletion(b, k, i) \/ Creation(b, k, i)
    BY <2>4, ContentParts
  <2> HIDE DEF IsRename, IsRefetch, Deletion, Creation
  <2> QED BY <2>1, <2>2, <2>3, <2>5
<1>3. \A i \in Ports : \A k \in Parts : \A r \in ToDelete(k, i) :
          \E b \in plan' : DeletesIn(b, k, i, r)
  <2> SUFFICES ASSUME NEW i \in Ports, NEW k \in Parts, NEW r \in ToDelete(k, i)
               PROVE  \E b \in plan' : DeletesIn(b, k, i, r)
    OBVIOUS
  <2> DEFINE b == [turn |-> TurnOf(k, i), action |-> DeleteResource(k, r)]
  <2>1. DeletesIn(b, k, i, r)
    BY DEF DeletesIn
  <2>2. b \in ContentActions(want, i)
    BY <2>1, ContentParts
  <2>3. b \in Contents(want)
    BY <2>2 DEF Contents
  <2>4. b \in plan'
    BY <2>3 DEF nextLbActions
  <2> QED BY <2>1, <2>4
<1>4. /\ \A b : IsRename(b) => b.turn = 0 /\ b.action.op = "rename-lb"
      /\ \A b : IsRefetch(b) => b.turn = n /\ b.action = Refetch /\ b.action.op = "refetch"
      /\ \A b, k, i, r : DeletesIn(b, k, i, r) =>
            b.turn = TurnOf(k, i) /\ Deletes(b, k) /\ b.action.id = r.id
      /\ \A b, k, i, r : CreatesIn(b, k, i, r) =>
            /\ b.turn = TurnOf(k, i) + 1 /\ Creates(b, k)
            /\ b.action.pool = PortPool(i).id /\ b.action.value = r
  BY DEF Creates, Deletes, RenameLb, Refetch, DeleteResource, CreateIn, DeletesIn, CreatesIn
<1>5. /\ \A b, c, k, i, r : DeletesIn(b, k, i, r) /\ DeletesIn(c, k, i, r) => b = c
      /\ \A b, c, k, i, r : CreatesIn(b, k, i, r) /\ CreatesIn(c, k, i, r) => b = c
  BY DEF DeletesIn, CreatesIn
<1>6. /\ Parts \subseteq Kinds /\ "pool" \notin Parts
      /\ \A k : \A i : \A r \in ToDelete(k, i) : r \in cloud[k] /\ r.pool = PortPool(i).id
      /\ \A k : \A i : \A r \in ToCreate(k, i) : r \in Desired(k, i)
  BY DEF Parts, Kinds, ToDelete, ToCreate, toDelete, toCreate, Of
<1> HIDE DEF n, IsRename, IsRefetch
<1>7. \A b \in plan' : /\ b.action.op \in {"rename-lb", "refetch", "delete", "create"}
                       /\ b.action.op = "refetch" => b.action = Refetch
                       /\ b.turn \in Int
  BY <1>1, <1>2, <1>4 DEF Creates, Deletes
<1>8. \A b \in plan' : b.action.op = "delete" =>
          b.action.kind \in Parts /\ \E i \in Ports : Deletion(b, b.action.kind, i)
  BY <1>2, <1>4 DEF Creates, Deletes
<1>9. \A b \in plan' : b.action.op = "create" =>
          b.action.kind \in Parts /\ \E i \in Ports : Creation(b, b.action.kind, i)
  BY <1>2, <1>4 DEF Creates, Deletes
<1>10. LbInv'
  <2>1. ~Rejected(want)' /\ IsLb(cloud'.lb) /\ ~Unchangeable(want)'
    BY PlanningLb
  <2> QED BY <1>7, <2>1 DEF LbInv
<1>11. CreatePoolInv'
  BY <1>6, <1>9 DEF CreatePoolInv, Creates
<1>12. UpdateInv'
  BY <1>7 DEF UpdateInv
<1>13. CreateInInv'
  <2> SUFFICES ASSUME NEW b \in plan', b.action.op = "create"
               PROVE  /\ b.action.kind \in Kinds
                      /\ \E p \in cloud.pool : p.id = b.action.pool
                      /\ \A c \in plan' : ~Deletes(c, "pool")
                      /\ b.action.kind # "member" =>
                            /\ \A r \in cloud[b.action.kind] : r.pool = b.action.pool =>
                                  \E c \in plan' : /\ Deletes(c, b.action.kind)
                                                   /\ c.action.id = r.id /\ c.turn < b.turn
                            /\ \A c \in plan' :
                                  Creates(c, b.action.kind) /\ c.action.pool = b.action.pool => b = c
                      /\ b.action.kind = "member" =>
                            /\ \E i \in Ports : b.action.value \in desiredMembers(want, i)
                            /\ \A m \in cloud.member : m.pool = b.action.pool =>
                                  poolMemberKey(m) # poolMemberKey(b.action.value)
                            /\ \A c \in plan' :
                                  /\ Creates(c, "member") /\ c.action.pool = b.action.pool
                                  /\ poolMemberKey(c.action.value) = poolMemberKey(b.action.value)
                                  => b = c
    BY <1>0 DEF CreateInInv, Creates, Deletes
  <2> DEFINE k == b.action.kind
  <2>1. k \in Parts
    BY <1>9
  <2>2. PICK i \in Ports : Creation(b, k, i)
    BY <1>9
  <2>3. PICK d \in ToCreate(k, i) : CreatesIn(b, k, i, d)
    BY <2>2
  <2>4. b.turn = TurnOf(k, i) + 1 /\ b.action.pool = PortPool(i).id /\ b.action.value = d
    BY <1>4, <2>3
  <2>5. PortPool(i) \in cloud.pool
    BY <1>0, PortPools
  <2>6. \A c \in plan' : ~Deletes(c, "pool")
    BY <1>6, <1>8 DEF Deletes
  <2>7. ASSUME NEW c \in plan', Creates(c, k), c.action.pool = b.action.pool
        PROVE  \E e \in ToCreate(k, i) : CreatesIn(c, k, i, e) /\ c.action.value = e
    <3>1. PICK j \in Ports : Creation(c, k, j)
      BY <1>9, <2>7 DEF Creates
    <3>2. PICK e \in ToCreate(k, j) : CreatesIn(c, k, j, e)
      BY <3>1
    <3>3. c.action.pool = PortPool(j).id /\ c.action.value = e
      BY <1>4, <3>2
    <3>4. i = j
      BY <1>0, <2>4, <2>7, <3>3, PortPools
    <3> QED BY <3>2, <3>3, <3>4
  <2>8. ASSUME k # "member", NEW r \in cloud[k], r.pool = b.action.pool
        PROVE  \E c \in plan' : Deletes(c, k) /\ c.action.id = r.id /\ c.turn < b.turn
    <3>1. k \in {"listener", "monitor"}
      BY <2>1, <2>8 DEF Parts
    <3>2. r \in ToDelete(k, i)
      BY <1>0, <2>3, <2>4, <2>8, <3>1, OnlyOne
    <3>3. PICK c \in plan' : DeletesIn(c, k, i, r)
      BY <1>3, <2>1, <3>2
    <3>4. c.turn = TurnOf(k, i) /\ Deletes(c, k) /\ c.action.id = r.id
      BY <1>4, <3>3
    <3>5. TurnOf(k, i) \in Int
      BY <1>1, <2>1
    <3> QED BY <2>4, <3>4, <3>5
  <2>9. ASSUME k # "member", NEW c \in plan', Creates(c, k), c.action.pool = b.action.pool
        PROVE  b = c
    <3>1. PICK e \in ToCreate(k, i) : CreatesIn(c, k, i, e)
      BY <2>7, <2>9
    <3>2. e \in Desired(k, i) /\ d \in Desired(k, i)
      BY <1>6
    <3>3. e = d
      BY <2>9, <3>2 DEF Desired
    <3> QED BY <1>5, <2>3, <3>1, <3>3
  <2>10. ASSUME k = "member" PROVE d \in desiredMembers(want, i)
    BY <1>6, <2>10 DEF Desired
  <2>11. ASSUME k = "member", NEW m \in cloud.member, m.pool = b.action.pool
         PROVE  poolMemberKey(m) # poolMemberKey(b.action.value)
    <3>1. m \in Of(k, PortPool(i))
      BY <2>4, <2>11 DEF Of
    <3>2. key(k, d) # key(k, m)
      BY <3>1 DEF ToCreate, toCreate
    <3> QED BY <2>4, <2>11, <3>2, KeyOfKind
  <2>12. ASSUME k = "member", NEW c \in plan', Creates(c, "member"),
                c.action.pool = b.action.pool,
                poolMemberKey(c.action.value) = poolMemberKey(b.action.value)
         PROVE  b = c
    <3>1. PICK e \in ToCreate(k, i) : CreatesIn(c, k, i, e) /\ c.action.value = e
      BY <2>7, <2>12
    <3>2. e \in desiredMembers(want, i) /\ d \in desiredMembers(want, i)
      BY <1>6, <2>12 DEF Desired
    <3>3. e = d
      BY <2>4, <2>12, <3>1, <3>2, SameMember
    <3> QED BY <1>5, <2>3, <3>1, <3>3
  <2>13. /\ k \in Kinds
         /\ \E p \in cloud.pool : p.id = b.action.pool
    BY <1>6, <2>1, <2>4, <2>5
  <2>14. k # "member" =>
            /\ \A r \in cloud[k] : r.pool = b.action.pool =>
                  \E c \in plan' : Deletes(c, k) /\ c.action.id = r.id /\ c.turn < b.turn
            /\ \A c \in plan' : Creates(c, k) /\ c.action.pool = b.action.pool => b = c
    BY <2>8, <2>9
  <2>15. k = "member" =>
            /\ \E j \in Ports : b.action.value \in desiredMembers(want, j)
            /\ \A m \in cloud.member : m.pool = b.action.pool =>
                  poolMemberKey(m) # poolMemberKey(b.action.value)
            /\ \A c \in plan' :
                  /\ Creates(c, "member") /\ c.action.pool = b.action.pool
                  /\ poolMemberKey(c.action.value) = poolMemberKey(b.action.value)
                  => b = c
    BY <2>4, <2>10, <2>11, <2>12
  <2> QED BY <2>6, <2>13, <2>14, <2>15
<1>14. DeleteInv'
  <2> SUFFICES ASSUME NEW b \in plan', b.action.op = "delete"
               PROVE  /\ b.action.kind \in Kinds /\ b.action.kind # "pool"
                      /\ b.action.kind = "member" =>
                            \A m \in cloud.member, p \in cloud.pool :
                                m.id = b.action.id /\ m.pool = p.id =>
                                    \A i \in Ports : Serves(want, p, i) =>
                                        Without(m, {"id", "pool"}) \notin desiredMembers(want, i)
                      /\ b.action.kind = "listener" =>
                            \A l \in cloud.listener, p \in cloud.pool :
                                l.id = b.action.id /\ l.pool = p.id =>
                                    \A i \in Ports : Serves(want, p, i) =>
                                        listenerKey(l) # listenerKey(listenerForPort(want, i))
                      /\ \A c \in plan' :
                            Deletes(c, b.action.kind) /\ c.action.id = b.action.id => b = c
                      /\ \E r \in cloud[b.action.kind] : r.id = b.action.id
    BY <1>0 DEF DeleteInv
  <2> DEFINE k == b.action.kind
  <2>1. k \in Parts
    BY <1>8
  <2>2. PICK i \in Ports : Deletion(b, k, i)
    BY <1>8
  <2>3. PICK r \in ToDelete(k, i) : DeletesIn(b, k, i, r)
    BY <2>2
  <2>4. b.action.id = r.id /\ r \in cloud[k] /\ r.pool = PortPool(i).id
    BY <1>4, <1>6, <2>3
  <2>5. k \in Kinds /\ \A q \in cloud[k] : q.id = r.id => q = r
    BY <1>0, <1>6, <2>1, <2>4 DEF IdInv
  <2>6. ASSUME NEW p \in cloud.pool, r.pool = p.id, NEW j \in Ports, Serves(want, p, j)
        PROVE  j = i
    <3>1. p.name = desiredPool(want, j).name
      BY <2>6, ServesKey
    <3>2. p = PortPool(j)
      BY <1>0, <3>1, PortPools
    <3> QED BY <1>0, <2>4, <2>6, <3>2, PortPools
  <2>7. ASSUME k = "member", NEW m \in cloud.member, NEW p \in cloud.pool, m.id = b.action.id,
               m.pool = p.id, NEW j \in Ports, Serves(want, p, j)
        PROVE  Without(m, {"id", "pool"}) \notin desiredMembers(want, j)
    <3>1. m = r
      BY <2>4, <2>5, <2>7
    <3>2. j = i
      BY <2>6, <2>7, <3>1
    <3> QED BY <2>7, <3>1, <3>2, UnwantedMember
  <2>8. ASSUME k = "listener", NEW l \in cloud.listener, NEW p \in cloud.pool, l.id = b.action.id,
               l.pool = p.id, NEW j \in Ports, Serves(want, p, j)
        PROVE  listenerKey(l) # listenerKey(listenerForPort(want, j))
    <3>1. l = r
      BY <2>4, <2>5, <2>8
    <3>2. j = i
      BY <2>6, <2>8, <3>1
    <3>3. listenerForPort(want, i) \in Desired(k, i)
      BY <2>8 DEF Desired
    <3>4. key(k, listenerForPort(want, i)) # key(k, r)
      BY <3>3 DEF ToDelete, toDelete
    <3> QED BY <2>8, <3>1, <3>2, <3>4, KeyOfKind
  <2>9. ASSUME NEW c \in plan', Deletes(c, k), c.action.id = b.action.id
        PROVE  b = c
    <3>1. PICK j \in Ports : Deletion(c, k, j)
      BY <1>8, <2>9 DEF Deletes
    <3>2. PICK q \in ToDelete(k, j) : DeletesIn(c, k, j, q)
      BY <3>1
    <3>3. c.action.id = q.id /\ q \in cloud[k] /\ q.pool = PortPool(j).id
      BY <1>4, <1>6, <3>2
    <3>4. q = r
      BY <2>4, <2>5, <2>9, <3>3
    <3>5. i = j
      BY <1>0, <2>4, <3>3, <3>4, PortPools
    <3> QED BY <1>5, <2>3, <3>2, <3>4, <3>5
  <2>10. k = "member" =>
            \A m \in cloud.member, p \in cloud.pool : m.id = b.action.id /\ m.pool = p.id =>
                \A j \in Ports : Serves(want, p, j) =>
                    Without(m, {"id", "pool"}) \notin desiredMembers(want, j)
    BY <2>7
  <2>11. k = "listener" =>
            \A l \in cloud.listener, p \in cloud.pool : l.id = b.action.id /\ l.pool = p.id =>
                \A j \in Ports : Serves(want, p, j) =>
                    listenerKey(l) # listenerKey(listenerForPort(want, j))
    BY <2>8
  <2>12. k # "pool"
    BY <1>6, <2>1
  <2> QED BY <2>4, <2>5, <2>9, <2>10, <2>11, <2>12
<1> QED BY <1>10, <1>11, <1>12, <1>13, <1>14 DEF PlanInv


\* An update in place is one of a listener or of a monitor.
LEMMA UpdateParts ==
    ASSUME NEW i, NEW a \in UpdateActions(want, i)
    PROVE  /\ a.op = "update" /\ a.kind \in {"listener", "monitor"}
           /\ a.part \in {"settings", "http", "numbers"}
<1>1. \/ \E m, f, v : a = Update("listener", m, "settings", f, v)
      \/ \E m, f, v : a = Update("monitor", m, "http", f, v)
      \/ \E m, f, v : a = Update("monitor", m, "numbers", f, v)
  BY DEF UpdateActions
<1> QED BY <1>1 DEF Update

LEMMA UpdatePlan ==
    ASSUME Planning, NEW order \in Orders(want), plan' = nextLbActions(want, order),
           poolsToDelete(want) \cup poolsToCreate(want) = {}, Contents(want) = {}
    PROVE  PlanInv'
<1> DEFINE n == Len(want.config.ports) + 1
<1>0. want.config \in Configs /\ want' = want /\ cloud' = cloud
  BY DEF Planning, TypeOK
<1>1. n \in Int /\ \A i \in DOMAIN want.config.ports : i \in Int
  BY <1>0, ReconcileAssumption
<1>2. \A b \in plan' :
          /\ b.turn \in Int
          /\ b.action.op \in {"rename-lb", "update", "assign"}
          /\ b.action.op = "update" => /\ b.action.kind \in {"listener", "monitor"}
                                       /\ b.action.part \in {"settings", "http", "numbers"}
  <2>1. plan' = At(0, Rename(want)) \cup (Updates(want) \cup At(n, FloatingIPActions(want)))
    BY DEF nextLbActions
  <2>2. \A b \in At(0, Rename(want)) : b.turn = 0 /\ b.action.op = "rename-lb"
    BY DEF At, Rename, RenameLb
  <2>3. \A b \in At(n, FloatingIPActions(want)) : b.turn = n /\ b.action.op = "assign"
    BY DEF At, FloatingIPActions, AssignFloatingIP
  <2>4. \A b \in Updates(want) : \E i \in DOMAIN want.config.ports :
            b.turn = i /\ b.action \in UpdateActions(want, i)
    BY DEF Updates, At
  <2> HIDE DEF n
  <2> QED BY <1>1, <2>1, <2>2, <2>3, <2>4, UpdateParts
<1>3. ~Rejected(want)' /\ IsLb(cloud'.lb) /\ ~Unchangeable(want)'
  BY PlanningLb
<1>4. LbInv'
  BY <1>2, <1>3 DEF LbInv
<1>5. CreatePoolInv' /\ CreateInInv' /\ DeleteInv' /\ UpdateInv'
  BY <1>2 DEF CreatePoolInv, CreateInInv, DeleteInv, UpdateInv, Creates
<1> QED BY <1>4, <1>5 DEF PlanInv

\* Whatever plan is made, it is in order.
LEMMA NewPlan ==
    ASSUME TypeOK, ShapeInv, IdInv, NoDuplicates, reconcileLbState
    PROVE  PlanInv'
<1>1. pc' = "run" /\ want' = want /\ cloud' = cloud /\ ~Rejected(want)
  BY DEF reconcileLbState
<1>2. ~Rejected(want)'
  <2>1. Accepted(want)' <=> Accepted(want)
    BY <1>1 DEF Accepted, ServerZones, filterNodesBySelector
  <2>2. desiredZone(want)' = desiredZone(want)
    BY <1>1 DEF desiredZone, ServerZones, filterNodesBySelector
  <2> QED BY <1>1, <2>1, <2>2 DEF Rejected, Unchangeable
<1>3. CASE plan' = At(1, {CreateLb(desiredLb(want))}) \cup At(2, {Refetch})
  <2>1. \A b \in plan' : \/ b = [turn |-> 1, action |-> CreateLb(desiredLb(want))]
                         \/ b = [turn |-> 2, action |-> Refetch]
    BY <1>3 DEF At
  <2>2. desiredLb(want)' = desiredLb(want)
    BY <1>1 DEF desiredLb, desiredZone, ServerZones, filterNodesBySelector
  <2>3. \A b \in plan' :
            /\ b.turn \in Int
            /\ b.action.op \in {"create-lb", "refetch"}
            /\ b.action.op = "refetch" => b.action = Refetch
            /\ b.action.op = "create-lb" =>
                  /\ b.action.lb = desiredLb(want)'
                  /\ \A c \in plan' : c # b => c.action = Refetch
    BY <2>1, <2>2 DEF CreateLb, Refetch
  <2>4. LbInv'
    BY <1>2, <2>3 DEF LbInv
  <2>5. CreatePoolInv' /\ CreateInInv' /\ DeleteInv' /\ UpdateInv'
    BY <2>3 DEF CreatePoolInv, CreateInInv, DeleteInv, UpdateInv, Creates
  <2> QED BY <2>4, <2>5 DEF PlanInv
<1>4. CASE plan' = At(1, {Refetch})
  <2>1. \A b \in plan' : b.turn = 1 /\ b.action = Refetch /\ b.action.op = "refetch"
    BY <1>4 DEF At, Refetch
  <2>2. LbInv'
    BY <1>2, <2>1 DEF LbInv
  <2>3. CreatePoolInv' /\ CreateInInv' /\ DeleteInv' /\ UpdateInv'
    BY <2>1 DEF CreatePoolInv, CreateInInv, DeleteInv, UpdateInv, Creates
  <2> QED BY <2>2, <2>3 DEF PlanInv
<1>5. ASSUME cloud.lb # None, NEW order \in Orders(want), plan' = nextLbActions(want, order)
      PROVE  PlanInv'
  <2>1. Planning
    BY <1>1, <1>5 DEF Planning
  <2> QED BY <1>5, <2>1, PoolPlan, ContentPlan, UpdatePlan
<1> QED BY <1>3, <1>4, <1>5 DEF reconcileLbState


-----------------------------------------------------------------------------
(* Every step keeps the invariant.                                          *)

LEMMA TypeLink == TypeOK => LinkInv
BY DEF TypeOK, LinkInv

LEMMA InitContent == Init => ContentInv
<1> SUFFICES ASSUME Init PROVE ContentInv
  OBVIOUS
<1>1. \A k \in Kinds : cloud[k] = {}
  BY DEF Init, Kinds
<1>2. TypeOK
  <2>1. service.config \in Configs /\ want.config \in Configs /\ want.nodes \subseteq Nodes
    BY ReconcileAssumption DEF Init
  <2>2. edits \in 0..MaxEdits /\ moves \in 0..MaxMoves /\ faults \in 0..MaxFaults
    BY ReconcileAssumption DEF Init
  <2>3. \A k \in Kinds \ {"pool"} : cloud[k] = {}
    BY <1>1
  <2>4. /\ nodes \subseteq Nodes /\ due \subseteq CallKinds /\ call \in CallKinds
        /\ newest \in CallKinds /\ pc \in {"idle", "fetch", "run"} /\ plan = {}
        /\ known = None /\ waiting = [kind \in CallKinds |-> None]
    BY DEF Init, CallKinds
  <2> QED BY <2>1, <2>2, <2>3, <2>4 DEF TypeOK
<1>3. ShapeInv
  BY DEF Init, ShapeInv
<1>4. IdInv
  BY <1>1, FS_EmptySet DEF IdInv
<1>5. NoDuplicates
  BY DEF Init, NoDuplicates
<1>6. PlanInv
  BY DEF Init, PlanInv, LbInv, CreatePoolInv, CreateInInv, DeleteInv, UpdateInv
<1> QED BY <1>2, <1>3, <1>4, <1>5, <1>6 DEF ContentInv

\* The parts of the invariant that are about the contents.
StoreInv == IdInv /\ LinkInv /\ NoDuplicates

\* They are the same whatever else changes.
LEMMA SameStore ==
    ASSUME StoreInv, \A k \in Kinds : cloud'[k] = cloud[k]
    PROVE  StoreInv'
<1>0. {"pool", "member", "listener", "monitor"} \subseteq Kinds
  BY DEF Kinds
<1>1. IdInv'
  BY DEF StoreInv, IdInv
<1>2. LinkInv'
  <2>1. cloud'.pool = cloud.pool
    BY <1>0
  <2> QED BY <2>1 DEF StoreInv, LinkInv
<1>3. NoDuplicates'
  <2>1. /\ cloud'.pool = cloud.pool /\ cloud'.member = cloud.member
        /\ \A k \in {"listener", "monitor"} : cloud'[k] = cloud[k]
    BY <1>0
  <2> QED BY <2>1 DEF StoreInv, NoDuplicates, poolMemberKey
<1> QED BY <1>1, <1>2, <1>3 DEF StoreInv

LEMMA ActionStore ==
    ASSUME TypeOK, ShapeInv, IdInv, NoDuplicates, PlanInv, NEW b, Does(b)
    PROVE  StoreInv'
BY TypeLink, ActionIdInv, ActionLink, ActionNoDuplicates DEF StoreInv, PlanInv

LEMMA NoPlan ==
    ASSUME plan' = {}, pc' # "run"
    PROVE  PlanInv'
BY DEF PlanInv, LbInv, CreatePoolInv, CreateInInv, DeleteInv, UpdateInv

LEMMA SamePlan ==
    ASSUME PlanInv, UNCHANGED <<plan, cloud, want, pc>>
    PROVE  PlanInv'
<1>1. Rejected(want)' <=> Rejected(want)
  BY DEF Rejected, Accepted, Unchangeable, desiredZone, ServerZones, filterNodesBySelector
<1>2. desiredLb(want)' = desiredLb(want) /\ (Unchangeable(want)' <=> Unchangeable(want))
  BY DEF Unchangeable, desiredLb, desiredZone, ServerZones, filterNodesBySelector
<1>3. LbInv'
  BY <1>1, <1>2 DEF PlanInv, LbInv
<1>4. CreatePoolInv'
  BY DEF PlanInv, CreatePoolInv
<1>5. CreateInInv'
  BY DEF PlanInv, CreateInInv
<1>6. DeleteInv' /\ UpdateInv'
  BY DEF PlanInv, DeleteInv, UpdateInv
<1> QED BY <1>3, <1>4, <1>5, <1>6 DEF PlanInv

\* One turn of runActions.
LEMMA RunActionStep ==
    ASSUME ContentInv, NEW b \in Foremost, pc = "run", RunAction(b)
    PROVE  ContentInv'
<1>0. TypeOK /\ ShapeInv /\ IdInv /\ NoDuplicates /\ PlanInv /\ LinkInv
  BY TypeLink DEF ContentInv
<1>1. Does(b)
  BY DEF Does, RunAction
<1>2. /\ service' = service /\ want' = want /\ pc' = pc /\ plan' = plan \ {b}
      /\ UNCHANGED <<nodes, due, known, waiting, newest, call, edits, moves, faults>>
  BY DEF RunAction, bounds, calls
<1>3. StoreInv'
  BY <1>0, <1>1, ActionStore
<1>4. ShapeInv'
  BY <1>0, <1>1, <1>2, ActionShape DEF PlanInv
<1>5. PlanInv'
  <2>1. LbInv' /\ CreatePoolInv'
    BY <1>0, <1>1, <1>2, RunLbInv, RunCreatePoolInv DEF PlanInv
  <2>2. CreateInInv' /\ DeleteInv' /\ UpdateInv'
    BY <1>0, <1>1, <1>2, RunCreateInInv, RunDeleteInv, RunUpdateInv DEF PlanInv
  <2> QED BY <2>1, <2>2 DEF PlanInv
<1>6. TypeOK'
  BY <1>0, <1>2, <1>3 DEF TypeOK, StoreInv, LinkInv
<1> QED BY <1>3, <1>4, <1>5, <1>6 DEF ContentInv, StoreInv

\* A call ends with an error; the cloud may have changed or not.
LEMMA FailStep ==
    ASSUME ContentInv, Fail, faults' \in 0..MaxFaults,
           cloud' = cloud \/ \E b : Does(b)
    PROVE  ContentInv'
<1>0. TypeOK /\ ShapeInv /\ IdInv /\ NoDuplicates /\ PlanInv /\ StoreInv
  BY TypeLink DEF ContentInv, StoreInv
<1>1. /\ pc' = "idle" /\ plan' = {} /\ due' \subseteq CallKinds
      /\ UNCHANGED <<service, nodes, known, waiting, newest, call, want, edits, moves>>
  BY <1>0 DEF Fail, TypeOK, CallKinds, calls
<1>2. StoreInv'
  BY <1>0, ActionStore, SameStore
<1>3. ShapeInv'
  <2>1. CASE cloud' = cloud
    BY <1>0, <1>1, <2>1 DEF ShapeInv
  <2>2. CASE \E b : Does(b)
    BY <1>0, <1>1, <2>2, ActionShape DEF PlanInv
  <2> QED BY <2>1, <2>2
<1>4. PlanInv'
  BY <1>1, NoPlan
<1>5. TypeOK'
  BY <1>0, <1>1, <1>2 DEF TypeOK, StoreInv, LinkInv
<1> QED BY <1>2, <1>3, <1>4, <1>5 DEF ContentInv, StoreInv

LEMMA CallFailsStep ==
    ASSUME ContentInv, CallFails
    PROVE  Fail /\ faults' \in 0..MaxFaults /\ (cloud' = cloud \/ \E b : Does(b))
<1>1. faults' \in 0..MaxFaults
  BY ReconcileAssumption DEF ContentInv, TypeOK, CallFails, Charge
<1> QED BY <1>1 DEF CallFails, Does

\* The balancer is no longer changing.
LEMMA ProvisionStep ==
    ASSUME ContentInv, Provision
    PROVE  ContentInv'
<1>0. TypeOK /\ ShapeInv /\ IdInv /\ NoDuplicates /\ PlanInv /\ StoreInv
  BY TypeLink DEF ContentInv, StoreInv
<1>1. /\ cloud.lb # None /\ cloud' = [cloud EXCEPT !.lb.status = "running"]
      /\ UNCHANGED <<service, nodes, due, known, waiting, newest, call, pc, want, plan>>
      /\ UNCHANGED <<edits, moves, faults>>
  BY DEF Provision, bounds, calls
<1>2. /\ \A k \in Kinds : cloud'[k] = cloud[k]
      /\ cloud'.lb = [cloud.lb EXCEPT !.status = "running"]
      /\ cloud' = [lb |-> cloud'.lb, pool |-> cloud'.pool, member |-> cloud'.member,
                   listener |-> cloud'.listener, monitor |-> cloud'.monitor, ips |-> cloud'.ips]
  BY <1>0, <1>1, CloudShape DEF Fields, Kinds, IsRecord
<1>3. /\ IsLb(cloud'.lb) /\ cloud'.lb.flavor = cloud.lb.flavor
      /\ cloud'.lb.zone = cloud.lb.zone /\ cloud'.lb.vip = cloud.lb.vip
  BY <1>0, <1>1, <1>2 DEF ShapeInv, IsLb
<1>4. StoreInv' /\ ShapeInv'
  <2>1. StoreInv'
    BY <1>0, <1>2, SameStore
  <2>2. ShapeInv'
    BY <1>0, <1>1, <1>2, <1>3 DEF ShapeInv
  <2> QED BY <2>1, <2>2
<1>5. TypeOK'
  BY <1>0, <1>1, <1>4 DEF TypeOK, StoreInv, LinkInv
<1>6. LbInv'
  <2>1. (Accepted(want)' <=> Accepted(want)) /\ desiredLb(want)' = desiredLb(want)
    BY <1>1 DEF Accepted, desiredLb, desiredZone, ServerZones, filterNodesBySelector
  <2>2. desiredZone(want)' = desiredZone(want)
    BY <1>1 DEF desiredZone, ServerZones, filterNodesBySelector
  <2>3. Unchangeable(want)' <=> Unchangeable(want)
    BY <1>1, <1>3, <2>2 DEF Unchangeable
  <2> QED BY <1>0, <1>1, <1>3, <2>1, <2>3 DEF PlanInv, LbInv, Rejected
<1>7. CreatePoolInv' /\ CreateInInv' /\ DeleteInv' /\ UpdateInv'
  <2>1. /\ cloud'.pool = cloud.pool /\ cloud'.member = cloud.member
        /\ cloud'.listener = cloud.listener
    BY <1>2 DEF Kinds
  <2>2. CreatePoolInv'
    BY <1>0, <1>1, <2>1 DEF PlanInv, CreatePoolInv
  <2>3. CreateInInv'
    BY <1>0, <1>1, <1>2, <2>1 DEF PlanInv, CreateInInv
  <2>4. DeleteInv'
    BY <1>0, <1>1, <1>2, <2>1 DEF PlanInv, DeleteInv
  <2>5. UpdateInv'
    BY <1>0, <1>1 DEF PlanInv, UpdateInv
  <2> QED BY <2>2, <2>3, <2>4, <2>5
<1> QED BY <1>4, <1>5, <1>6, <1>7 DEF ContentInv, StoreInv, PlanInv


LEMMA ContentStep ==
    ASSUME ContentInv, [Next]_vars
    PROVE  ContentInv'
<1>0. TypeOK /\ ShapeInv /\ IdInv /\ NoDuplicates /\ PlanInv /\ StoreInv
  BY TypeLink DEF ContentInv, StoreInv
<1> DEFINE Steady == /\ TypeOK' /\ cloud' = cloud
                     /\ service' = [config |-> service'.config, zone |-> service'.zone]
<1>1. ASSUME Steady, PlanInv' PROVE ContentInv'
  <2>1. StoreInv'
    BY <1>0, <1>1, SameStore
  <2>2. ShapeInv'
    BY <1>0, <1>1 DEF ShapeInv
  <2> QED BY <1>1, <2>1, <2>2 DEF ContentInv, StoreInv
<1>2. ASSUME NEW kind \in CallKinds, Call(kind) PROVE ContentInv'
  <2>1. PICK svc \in {service, known} : svc # None /\ known' = svc
          /\ waiting' = [waiting EXCEPT
                            ![kind] = [config |-> svc.config, zone |-> svc.zone, nodes |-> nodes]]
    BY <1>2 DEF Call
  <2>2. svc.config \in Configs
    BY <1>0, <2>1 DEF TypeOK
  <2>3. /\ due' \subseteq CallKinds /\ newest' = kind
        /\ UNCHANGED <<service, nodes, call, pc, want, plan, cloud, edits, moves, faults>>
    BY <1>0, <1>2 DEF Call, TypeOK, bounds, CallKinds
  <2>4. /\ DOMAIN waiting' = CallKinds
        /\ \A k \in CallKinds : waiting'[k] # None =>
              waiting'[k].config \in Configs /\ waiting'[k].nodes \subseteq Nodes
    BY <1>0, <2>1, <2>2 DEF TypeOK
  <2>5. TypeOK'
    BY <1>0, <2>1, <2>2, <2>3, <2>4 DEF TypeOK
  <2>6. Steady
    BY <1>0, <2>3, <2>5 DEF ShapeInv
  <2> QED BY <1>0, <1>1, <2>3, <2>6, SamePlan
<1>3. CASE reconcileLbState
  <2>1. TypeOK'
    BY <1>0, <1>3 DEF reconcileLbState, TypeOK, bounds, calls
  <2>2. service' = service /\ cloud' = cloud
    BY <1>3 DEF reconcileLbState
  <2>3. Steady
    BY <1>0, <2>1, <2>2 DEF ShapeInv
  <2> QED BY <1>0, <1>1, <1>3, <2>3, NewPlan
<1>4. CASE RejectConfig
  BY <1>0, <1>4, FailStep DEF RejectConfig, TypeOK
<1>5. CASE runActions
  <2>1. PICK b \in Foremost : pc = "run" /\ (RunAction(b) \/ RunRefused(b) \/ RunRefetch(b))
    BY <1>5 DEF runActions
  <2>2. CASE RunAction(b)
    BY <2>1, <2>2, RunActionStep
  <2>3. CASE RunRefused(b)
    BY <1>0, <2>3, FailStep DEF RunRefused, TypeOK
  <2>4. CASE RunRefetch(b)
    <3>1. TypeOK'
      BY <1>0, <2>4 DEF RunRefetch, TypeOK, bounds, calls
    <3>2. service' = service /\ cloud' = cloud /\ plan' = {} /\ pc' # "run"
      BY <2>4 DEF RunRefetch
    <3>3. Steady
      BY <1>0, <3>1, <3>2 DEF ShapeInv
    <3> QED BY <1>1, <3>2, <3>3, NoPlan
  <2> QED BY <2>1, <2>2, <2>3, <2>4
<1>6. CASE Return
  <2>1. /\ service'.config = service.config
        /\ service' = [config |-> service'.config, zone |-> service'.zone]
    BY <1>0, <1>6 DEF Return, ShapeInv
  <2>2. TypeOK'
    BY <1>0, <1>6, <2>1 DEF Return, TypeOK, bounds, calls, CallKinds
  <2>3. cloud' = cloud /\ plan' = {} /\ pc' # "run"
    BY <1>6 DEF Return
  <2>4. Steady
    BY <2>1, <2>2, <2>3
  <2> QED BY <1>1, <2>3, <2>4, NoPlan
<1>7. CASE CallFails
  BY <1>7, CallFailsStep, FailStep
<1>8. CASE Provision
  BY <1>8, ProvisionStep
<1>9. CASE EditService
  <2>1. PICK c \in Configs : service' = [service EXCEPT !.config = c]
    BY <1>9 DEF EditService
  <2>2. /\ service'.config = c
        /\ service' = [config |-> service'.config, zone |-> service'.zone]
    BY <1>0, <2>1 DEF ShapeInv
  <2>3. edits' \in 0..MaxEdits
    BY <1>0, <1>9, ReconcileAssumption DEF EditService, TypeOK
  <2>4. TypeOK'
    BY <1>0, <1>9, <2>2, <2>3 DEF EditService, TypeOK, calls, CallKinds
  <2>5. UNCHANGED <<plan, cloud, want, pc>>
    BY <1>9 DEF EditService
  <2> QED BY <1>0, <1>1, <2>2, <2>4, <2>5, SamePlan
<1>10. CASE MoveNodes
  <2>1. moves' \in 0..MaxMoves /\ nodes' \subseteq Nodes
    BY <1>0, <1>10, ReconcileAssumption DEF MoveNodes, TypeOK
  <2>2. TypeOK'
    BY <1>0, <1>10, <2>1 DEF MoveNodes, TypeOK, calls, CallKinds
  <2>3. service' = service /\ UNCHANGED <<plan, cloud, want, pc>>
    BY <1>10 DEF MoveNodes
  <2>4. Steady
    BY <1>0, <2>2, <2>3 DEF ShapeInv
  <2> QED BY <1>0, <1>1, <2>3, <2>4, SamePlan
<1>11. CASE UNCHANGED vars
  <2>1. /\ UNCHANGED <<service, nodes, due, known, waiting, newest, call, pc, want, plan>>
        /\ UNCHANGED <<cloud, edits, moves, faults>>
    BY <1>11 DEF vars
  <2>2. TypeOK'
    BY <1>0, <2>1 DEF TypeOK
  <2>3. Steady
    BY <1>0, <2>1, <2>2 DEF ShapeInv
  <2> QED BY <1>0, <1>1, <2>1, <2>3, SamePlan
<1>12. ASSUME NEW kind \in CallKinds, lockForService(kind) PROVE ContentInv'
  <2>1. /\ waiting' = [waiting EXCEPT ![kind] = None] /\ want' = waiting[kind]
        /\ call' = kind /\ pc' = "fetch" /\ waiting[kind] # None
        /\ UNCHANGED <<service, nodes, due, known, newest, plan, cloud, edits, moves, faults>>
    BY <1>12 DEF lockForService, bounds
  <2>2. plan' = {} /\ want'.config \in Configs /\ want'.nodes \subseteq Nodes
    BY <1>0, <1>12, <2>1 DEF TypeOK, lockForService
  <2>3. /\ DOMAIN waiting' = CallKinds
        /\ \A k \in CallKinds : waiting'[k] # None =>
              waiting'[k].config \in Configs /\ waiting'[k].nodes \subseteq Nodes
    BY <1>0, <2>1 DEF TypeOK
  <2>4. TypeOK'
    BY <1>0, <2>1, <2>2, <2>3 DEF TypeOK
  <2>5. Steady
    BY <1>0, <2>1, <2>4 DEF ShapeInv
  <2> QED BY <1>1, <2>1, <2>2, <2>5, NoPlan
<1>13. CASE Crash
  <2>1. /\ pc' = "idle" /\ plan' = {} /\ due' = {"service"} /\ known' = None
        /\ waiting' = [kind \in CallKinds |-> None]
        /\ UNCHANGED <<service, nodes, newest, call, want, cloud, edits, moves>>
    BY <1>13 DEF Crash
  <2>2. faults' \in 0..MaxFaults
    BY <1>0, <1>13, ReconcileAssumption DEF Crash, Charge, TypeOK
  <2>3. TypeOK'
    BY <1>0, <2>1, <2>2 DEF TypeOK, CallKinds
  <2>4. Steady
    BY <1>0, <2>1, <2>3 DEF ShapeInv
  <2> QED BY <1>1, <2>1, <2>4, NoPlan
<1> QED BY <1>2, <1>3, <1>4, <1>5, <1>6, <1>7, <1>8, <1>9, <1>10, <1>11, <1>12, <1>13
       DEF Next

LEMMA ContentInvHolds == Spec => []ContentInv
<1>1. Init => ContentInv
  BY InitContent
<1>2. ContentInv /\ [Next]_vars => ContentInv'
  BY ContentStep
<1> QED BY <1>1, <1>2, PTL DEF Spec



-----------------------------------------------------------------------------
(* The theorems.                                                            *)

\* Type correctness: whatever is edited, moves or fails, the variables have
\* their types, there is no plan outside runActions, and what the balancer
\* holds is in a pool that exists.
THEOREM TypeCorrect == Spec => []TypeOK
<1>1. ContentInv => TypeOK
  BY DEF ContentInv
<1> QED BY <1>1, ContentInvHolds, PTL

\* No failure, lost answer or new start makes the loop create a pool, member,
\* listener or monitor a second time.
THEOREM NoDuplicatesHolds == Spec => []NoDuplicates
<1>1. ContentInv => NoDuplicates
  BY DEF ContentInv
<1> QED BY <1>1, ContentInvHolds, PTL

\* The cloud changes when an action is carried out, or by itself.
LEMMA CloudSteps ==
    ASSUME [Next]_vars
    PROVE  cloud' = cloud \/ Provision \/ \E b : Does(b)
<1>1. ASSUME runActions PROVE cloud' = cloud \/ \E b : Does(b)
  <2>1. PICK b \in Foremost : pc = "run" /\ (RunAction(b) \/ RunRefused(b) \/ RunRefetch(b))
    BY <1>1 DEF runActions
  <2>2. RunAction(b) => Does(b)
    BY <2>1 DEF Does, RunAction
  <2> QED BY <2>1, <2>2 DEF RunRefused, RunRefetch
<1>2. ASSUME CallFails PROVE cloud' = cloud \/ \E b : Does(b)
  BY <1>2 DEF CallFails, Does
<1> QED BY <1>1, <1>2 DEF Next, Call, lockForService, reconcileLbState, RejectConfig, Return,
                         Crash, EditService, MoveNodes, vars

\* A rejected configuration changes nothing at all: actions are run only from
\* a plan, and a plan is made only for a service that is not rejected.
THEOREM RefusedUntouchedHolds == Spec => RefusedUntouched
<1> DEFINE Changes == IF cloud.lb = None THEN cloud' # cloud
                      ELSE [cloud' EXCEPT !.lb.status = cloud.lb.status] # cloud
<1>1. ASSUME ContentInv, [Next]_vars, Changes PROVE ~Rejected(want)
  <2>0. ShapeInv /\ LbInv
    BY <1>1 DEF ContentInv, PlanInv
  <2>1. CASE cloud' = cloud
    <3>1. cloud.lb # None /\ IsLb(cloud.lb)
      BY <1>1, <2>0, <2>1 DEF ShapeInv
    <3>2. [cloud.lb EXCEPT !.status = cloud.lb.status] = cloud.lb
      BY <3>1 DEF IsLb
    <3>3. [cloud EXCEPT !.lb.status = cloud.lb.status] = cloud
      BY <2>0, <3>2 DEF ShapeInv
    <3> QED BY <1>1, <2>1, <3>1, <3>3
  <2>2. CASE Provision
    <3>1. cloud.lb # None /\ IsLb(cloud.lb) /\ cloud' = [cloud EXCEPT !.lb.status = "running"]
      BY <2>0, <2>2 DEF Provision, ShapeInv
    <3>2. cloud'.lb = [cloud.lb EXCEPT !.status = "running"]
      BY <2>0, <3>1, CloudShape DEF Fields, IsRecord
    <3>3. [cloud'.lb EXCEPT !.status = cloud.lb.status] = cloud.lb
      BY <3>1, <3>2 DEF IsLb
    <3>4. [cloud' EXCEPT !.lb.status = cloud.lb.status]
            = [cloud EXCEPT !.lb = [cloud'.lb EXCEPT !.status = cloud.lb.status]]
      BY <2>0, <3>1, CloudShape DEF Fields, IsRecord
    <3>5. [cloud EXCEPT !.lb = cloud.lb] = cloud
      BY <2>0, CloudShape DEF IsRecord
    <3> QED BY <1>1, <3>1, <3>3, <3>4, <3>5
  <2>3. CASE \E b : Does(b)
    BY <2>0, <2>3 DEF Does, LbInv
  <2> QED BY <1>1, <2>1, <2>2, <2>3, CloudSteps
<1>2. ContentInv /\ [Next]_vars => [Changes => ~Rejected(want)]_vars
  BY <1>1
<1> QED BY <1>2, ContentInvHolds, PTL DEF Spec, RefusedUntouched

\* The contents of a pool the service still wants, after an action.
LEMMA ActionKeeps ==
    ASSUME ContentInv, NEW b, Does(b), NEW i \in DOMAIN want.config.ports, NEW p \in cloud.pool,
           Serves(want, p, i)
    PROVE  /\ p \in cloud'.pool
           /\ \A m \in cloud.member :
                 m.pool = p.id /\ Without(m, {"id", "pool"}) \in desiredMembers(want, i) =>
                     m \in cloud'.member
           /\ \A l \in cloud.listener :
                 l.pool = p.id /\ listenerKey(l) = listenerKey(listenerForPort(want, i)) =>
                     \E m \in cloud'.listener : m.id = l.id /\ m.pool = p.id
<1>0. /\ ShapeInv /\ IdInv /\ LbInv /\ CreateInInv /\ DeleteInv /\ UpdateInv
      /\ {"pool", "member", "listener"} \subseteq Kinds
  BY DEF ContentInv, PlanInv, Kinds
<1>1. b \in plan
  BY <1>0, AfterAction
<1>2. ~(Deletes(b, "pool") /\ b.action.id = p.id)
  BY <1>0, <1>1 DEF DeleteInv, Deletes
<1>3. p \in cloud'.pool
  BY <1>0, <1>2, Survives
<1>4. ASSUME NEW m \in cloud.member, m.pool = p.id,
             Without(m, {"id", "pool"}) \in desiredMembers(want, i)
      PROVE  m \in cloud'.member
  <2>1. ~(Deletes(b, "member") /\ b.action.id = m.id)
    BY <1>0, <1>1, <1>4 DEF DeleteInv, Deletes
  <2> QED BY <1>0, <1>2, <1>4, <2>1, Survives
<1>5. ASSUME NEW l \in cloud.listener, l.pool = p.id,
             listenerKey(l) = listenerKey(listenerForPort(want, i))
      PROVE  \E m \in cloud'.listener : m.id = l.id /\ m.pool = p.id
  <2>1. ~(Deletes(b, "listener") /\ b.action.id = l.id)
    BY <1>0, <1>1, <1>5 DEF DeleteInv, Deletes
  <2>2. CASE b.action.op # "update"
    <3>1. l \in cloud'.listener
      BY <1>0, <1>2, <1>5, <2>1, <2>2, Survives
    <3> QED BY <1>5, <3>1
  <2>3. CASE b.action.op = "update" /\ b.action.kind # "listener"
    <3>1. cloud'.listener = cloud.listener
      BY <1>0, <2>3, ActionKinds
    <3> QED BY <1>5, <3>1
  <2>4. CASE b.action.op = "update" /\ b.action.kind = "listener"
    <3>1. /\ b.action.part \in {"settings", "http", "numbers"}
          /\ cloud'.listener = Renewed(b.action, "listener")
      BY <1>0, <2>4, ActionKinds
    <3>2. Updated(b.action, l) \in cloud'.listener
      BY <3>1 DEF Renewed
    <3>3. Updated(b.action, l).id = l.id /\ Updated(b.action, l).pool = l.pool
      BY <1>0, <3>1, UpdatedPlace
    <3> QED BY <1>5, <3>2, <3>3
  <2> QED BY <2>2, <2>3, <2>4
<1> QED BY <1>3, <1>4, <1>5

\* A step of the loop never removes a pool that the service still wants, nor
\* the members and the listener it wants there, for any two versions of the
\* service: traffic through the other ports is not interrupted.
THEOREM UnaffectedKeptHolds == Spec => UnaffectedKept
<1> DEFINE Kept == \A i \in DOMAIN want.config.ports : \A p \in cloud.pool :
          Without(p, {"id", "pool"}) = desiredPool(want, i) =>
             /\ p \in cloud'.pool
             /\ {m \in Of("member", p) : Without(m, {"id", "pool"}) \in desiredMembers(want, i)}
                   \subseteq cloud'.member
             /\ \A l \in Of("listener", p) : listenerKey(l) = listenerKey(listenerForPort(want, i)) =>
                    \E m \in cloud'.listener : m.id = l.id /\ m.pool = p.id
<1>1. ASSUME ContentInv, [Next]_vars PROVE Kept
  <2>1. ASSUME \E b : Does(b) PROVE Kept
    BY <1>1, <2>1, ActionKeeps DEF Serves, Of
  <2>2. ASSUME cloud' = cloud \/ Provision PROVE Kept
    <3>1. /\ cloud'.pool = cloud.pool /\ cloud'.member = cloud.member
          /\ cloud'.listener = cloud.listener
      BY <1>1, <2>2, CloudShape DEF ContentInv, Provision, Fields, Kinds, IsRecord
    <3> QED BY <3>1 DEF Of
  <2> QED BY <1>1, <2>1, <2>2, CloudSteps
<1>2. ContentInv /\ [Next]_vars => [Kept]_vars
  BY <1>1
<1> QED BY <1>2, ContentInvHolds, PTL DEF Spec, UnaffectedKept

=============================================================================
