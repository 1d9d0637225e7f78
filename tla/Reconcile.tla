------------------------------ MODULE Reconcile ------------------------------
(***************************************************************************)
(* The contents of one load balancer: pkg/cloudscale_ccm/reconcile.go (what *)
(* a service wants, the plan that gets there, the loop that runs it),       *)
(* pkg/internal/actions (what a plan is made of) and pkg/internal/compare.  *)
(*                                                                         *)
(* One handler at a time holds the mutex of the service (LoadBalancer,     *)
(* MutualExclusion), so one reconcile loop runs; another handler may wait, *)
(* with the copies of the service and the nodes it was called with.  Users *)
(* change the service and nodes come and go meanwhile; any call may fail.  *)
(***************************************************************************)
EXTENDS Integers, Sequences, FiniteSets, Functions

CONSTANTS
    Configs,      \* the service configurations users write
    FirstConfig,  \* the one the service is created with
    Nodes,        \* the nodes of the cluster
    ZoneOf,       \* ZoneOf[n]: the zone of the node's server
    Interfaces,   \* Interfaces[n]: its addresses, [type, address, subnet]
    FewestNodes,  \* bound: at least so many nodes are there
    MaxEdits,     \* bound on changes of the service
    MaxMoves,     \* bound on changes of the set of nodes
    MaxFaults,    \* bound on failing calls and crashes
    None          \* nothing: nil, or an absent annotation

\* Kubernetes sees to it that the ports of a service have different names.
ASSUME ReconcileAssumption ==
    /\ FirstConfig \in Configs
    /\ \A c \in Configs :
          /\ Len(c.ports) \in Nat /\ DOMAIN c.ports = 1..Len(c.ports)
          /\ \A i, j \in DOMAIN c.ports : c.ports[i].name = c.ports[j].name => i = j
    /\ MaxEdits \in Nat /\ MaxMoves \in Nat /\ MaxFaults \in Nat /\ FewestNodes \in Nat

VARIABLES
    service,   \* [config, zone]: the service; the zone annotation is ours
    nodes,     \* the nodes that are ready
    due,       \* the calls the service controller owes: "service", "nodes"
    known,     \* its own copy of the service, which node calls are made with
    waiting,   \* waiting[kind]: the copies of a call that waits for the mutex
    newest,    \* the kind of call whose copies were taken last (history)
    call,      \* the last call to get the mutex, "service" (Ensure..) or
               \* "nodes" (Update..)
    pc,        \* "idle", "fetch" or "run": where that call is
    want,      \* the service and the nodes it was made with
    plan,      \* the actions to run: a set of [turn, action]
    cloud,     \* the load balancer and what it holds
    edits, moves, faults    \* how much of each bound is used up

calls   == <<known, waiting, newest>>
bounds  == <<edits, moves, faults>>
vars    == <<service, nodes, due, known, waiting, newest, call, pc, want, plan, cloud,
             edits, moves, faults>>

\* EnsureLoadBalancer, of the service queue, and UpdateLoadBalancer, of the
\* node sync.
CallKinds == {"service", "nodes"}

-----------------------------------------------------------------------------
(* What a service wants.                                                    *)

\* The servers of the nodes the node selector matches.
filterNodesBySelector(w) == w.nodes \cap w.config.selector

ServerZones(w) == {ZoneOf[n] : n \in filterNodesBySelector(w)}

\* desiredLbState succeeds: the annotations parse, there is one zone, and the
\* ports can be balanced.
Accepted(w) ==
    /\ w.config.valid
    /\ w.zone # None \/ Cardinality(ServerZones(w)) = 1
    /\ \A i \in DOMAIN w.config.ports :
          /\ w.config.ports[i].protocol \in {"TCP", "UDP"}
          /\ w.config.ports[i].nodePort # 0

desiredZone(w) == IF w.zone # None THEN w.zone ELSE CHOOSE z \in ServerZones(w) : TRUE

desiredLb(w) == [name |-> w.config.name, flavor |-> w.config.flavor,
                 zone |-> desiredZone(w), vip |-> w.config.vip]

poolName(port) == <<port.protocol, port.name>>

desiredPool(w, i) ==
    LET port == w.config.ports[i] IN
    [name |-> poolName(port), algorithm |-> w.config.algorithm,
     protocol |-> IF port.protocol = "TCP" THEN w.config.poolProtocol ELSE "udp"]

\* One member for each private address in an allowed subnet.
desiredAddresses(w) ==
    {a \in UNION {Interfaces[n] : n \in filterNodesBySelector(w)} :
        /\ a.type # "public"
        /\ a.subnet # None
        /\ w.config.subnets = {} \/ a.subnet \in w.config.subnets}

desiredMembers(w, i) ==
    LET nodePort == w.config.ports[i].nodePort
        monitorPort == IF w.config.local /\ w.config.healthPort > 0
                       THEN w.config.healthPort ELSE nodePort
    IN {[address |-> a.address, subnet |-> a.subnet, port |-> nodePort,
         monitorPort |-> monitorPort] : a \in desiredAddresses(w)}

\* Settings that are changed in place.
ListenerSettings == {"cidrs", "client-data-ms", "member-connect-ms", "member-data-ms"}
MonitorNumbers   == {"delay-s", "timeout-s", "up-threshold", "down-threshold"}
HttpOptions      == {"host", "path", "method", "codes"}

listenerForPort(w, i) ==
    LET port == w.config.ports[i] IN
    [protocol |-> IF port.protocol = "TCP" THEN w.config.listenerProtocol ELSE "udp",
     port |-> port.port, settings |-> w.config.settings]

\* What the API, and the code before it compares, use for an option left out.
DefaultHTTP == [version |-> "1.1", host |-> None, path |-> "/", method |-> "GET", codes |-> "200"]

FillOut(http) == [o \in DOMAIN DefaultHTTP |-> IF http[o] = "" THEN DefaultHTTP[o] ELSE http[o]]

healthMonitorForPort(w) ==
    [type    |-> IF w.config.local THEN "http" ELSE w.config.monitorType,
     numbers |-> w.config.numbers,
     http    |-> IF w.config.http # None THEN FillOut(w.config.http)
                 ELSE IF w.config.local
                      THEN [DefaultHTTP EXCEPT !.path = "/livez", !.version = "1.0"]
                      ELSE None]

-----------------------------------------------------------------------------
(* What there is, and how the two are compared.                             *)

Kinds == {"pool", "member", "listener", "monitor"}

\* The contents of the balancer that belong to pool p.
Of(kind, p) == {r \in cloud[kind] : r.pool = p.id}

poolKey(p) == <<p.name, p.algorithm, p.protocol>>
poolMemberKey(m) == <<m.address, m.subnet, m.port, m.monitorPort>>
listenerKey(l) == <<l.protocol, l.port>>
monitorKey(m) == <<m.type, IF m.http # None THEN m.http.version ELSE "1.1">>

\* The key function that goes with each kind.
key(kind, r) ==
    CASE kind = "pool"     -> poolKey(r)
      [] kind = "member"   -> poolMemberKey(r)
      [] kind = "listener" -> listenerKey(r)
      [] kind = "monitor"  -> monitorKey(r)

\* compare.Diff: maps by key, where the last of several actual items with one
\* key wins.
Newest(kind, actual, a) == \A b \in actual : key(kind, b) = key(kind, a) => b.id <= a.id

\* Variant: what is still desired is deleted as well.
toDelete_All(kind, desired, actual) == {a \in actual : Newest(kind, actual, a)}

toDelete(kind, desired, actual) ==
    {a \in actual : /\ Newest(kind, actual, a)
                    /\ \A d \in desired : key(kind, d) # key(kind, a)}

toCreate(kind, desired, actual) ==
    {d \in desired : \A a \in actual : key(kind, d) # key(kind, a)}

\* compare.Match: pairs of a desired and an actual item.
Match(kind, desired, actual) ==
    {m \in desired \X actual : /\ key(kind, m[1]) = key(kind, m[2])
                               /\ Newest(kind, actual, m[2])}

-----------------------------------------------------------------------------
(* Plans.                                                                   *)

CreateLb(l)            == [op |-> "create-lb", lb |-> l]
Refetch                == [op |-> "refetch"]
RenameLb(name)         == [op |-> "rename-lb", name |-> name]
DeleteResource(kind, r) == [op |-> "delete", kind |-> kind, id |-> r.id]
CreatePool(p)          == [op |-> "create", kind |-> "pool", pool |-> None, value |-> p]
CreateIn(kind, p, r)   == [op |-> "create", kind |-> kind, pool |-> p.id, value |-> r]
Update(kind, r, part, field, value) ==
    [op |-> "update", kind |-> kind, id |-> r.id, part |-> part, field |-> field,
     value |-> value]
AssignFloatingIP(ip)   == [op |-> "assign", ip |-> ip]

\* The desired address may be missing, the actual one is always given.
SameVip(d, a) == d.subnet = a.subnet /\ d.address \in {None, a.address}

\* Some of the settings of a balancer cannot be changed.
Unchangeable(w) ==
    \/ w.config.vip # None /\ ~SameVip(w.config.vip, cloud.lb.vip)
    \/ w.config.flavor # cloud.lb.flavor
    \/ desiredZone(w) # cloud.lb.zone

DesiredPools(w) == {desiredPool(w, i) : i \in DOMAIN w.config.ports}
\* Variant: if one pool has to go, all do.
poolsToDelete_All(w) ==
    IF toDelete("pool", DesiredPools(w), cloud.pool) = {} THEN {} ELSE cloud.pool

poolsToDelete(w) == toDelete("pool", DesiredPools(w), cloud.pool)
poolsToCreate(w) == toCreate("pool", DesiredPools(w), cloud.pool)

Rename(w) == IF w.config.name # cloud.lb.name THEN {RenameLb(w.config.name)} ELSE {}

\* A plan is a set of [turn, action]: smaller turns come first, actions of the
\* same turn in any order.
At(turn, actions) == {[turn |-> turn, action |-> a] : a \in actions}

\* The orders in which the undesired pools may be deleted: the iteration over
\* a map decides.
Orders(w) == Bijection(poolsToDelete(w), 1..Cardinality(poolsToDelete(w)))

\* Undesired pools go one by one, each after its members.
DeletePools(w, order) ==
    UNION {At(2 * order[p] - 1, {DeleteResource("member", m) : m \in Of("member", p)})
           \cup At(2 * order[p], {DeleteResource("pool", p)}) : p \in poolsToDelete(w)}

\* Variant: the missing pools are created first.
PoolActions_CreateFirst(w, order) ==
    DeletePools(w, order)
    \cup At(0, {CreatePool(p) : p \in poolsToCreate(w)})

\* When the undesired pools are gone, the missing ones are created.
PoolActions(w, order) ==
    DeletePools(w, order)
    \cup At(2 * Cardinality(poolsToDelete(w)) + 1, {CreatePool(p) : p \in poolsToCreate(w)})

poolsByName(name) ==
    CHOOSE p \in cloud.pool : p.name = name /\ \A q \in cloud.pool : q.name = name => q.id <= p.id

\* The members, listeners and monitors of the i-th port: each kind is first
\* deleted, then created.
Replace(kind, turn, p, desired) ==
    At(turn, {DeleteResource(kind, r) : r \in toDelete(kind, desired, Of(kind, p))})
    \cup At(turn + 1, {CreateIn(kind, p, r) : r \in toCreate(kind, desired, Of(kind, p))})

ContentActions(w, i) ==
    LET p == poolsByName(desiredPool(w, i).name)
    IN Replace("member", 6 * i, p, desiredMembers(w, i))
       \cup Replace("listener", 6 * i + 2, p, {listenerForPort(w, i)})
       \cup Replace("monitor", 6 * i + 4, p, {healthMonitorForPort(w)})

\* Variant: the lists of expected codes are compared by identity as well.
HttpDiffers_Codes(option, d, a) ==
    CASE option = "host"  -> d # None \/ a # None
      [] option = "codes" -> TRUE
      [] OTHER            -> d # a

\* The hosts of two monitors are pointers, which are the same only if both are
\* nil.
HttpDiffers(option, d, a) ==
    IF option = "host" THEN d # None \/ a # None ELSE d # a

\* What is changed in place at the i-th port.
UpdateActions(w, i) ==
    LET p         == poolsByName(desiredPool(w, i).name)
        listeners == Match("listener", {listenerForPort(w, i)}, Of("listener", p))
        monitors  == Match("monitor", {healthMonitorForPort(w)}, Of("monitor", p))
    IN (UNION {{Update("listener", m[2], "settings", f, m[1].settings[f]) :
                   f \in {g \in ListenerSettings : m[1].settings[g] # m[2].settings[g]}}
               : m \in listeners})
       \cup
       (UNION {{Update("monitor", m[2], "http", o, m[1].http[o]) :
                   o \in {x \in HttpOptions : HttpDiffers(x, m[1].http[x], m[2].http[x])}}
               : m \in {n \in monitors : n[1].http # None /\ n[2].http # None}})
       \cup
       (UNION {{Update("monitor", m[2], "numbers", f, m[1].numbers[f]) :
                   f \in {g \in MonitorNumbers : m[1].numbers[g] # m[2].numbers[g]}}
               : m \in monitors})

FloatingIPActions(w) == {AssignFloatingIP(ip) : ip \in w.config.ips \ cloud.ips}

Contents(w) == UNION {ContentActions(w, i) : i \in DOMAIN w.config.ports}
Updates(w)  == UNION {At(i, UpdateActions(w, i)) : i \in DOMAIN w.config.ports}

\* The plan for a balancer that exists and is not changing.  Changes to pools,
\* or to what is in them, end with a new look at the balancer.
nextLbActions(w, order) ==
    LET ports == Len(w.config.ports)
    IN At(0, Rename(w)) \cup
       (IF poolsToDelete(w) \cup poolsToCreate(w) # {}
        THEN PoolActions(w, order) \cup At(2 * Cardinality(poolsToDelete(w)) + 2, {Refetch})
        ELSE IF Contents(w) # {}
        THEN Contents(w) \cup At(6 * ports + 6, {Refetch})
        ELSE Updates(w) \cup At(ports + 1, FloatingIPActions(w)))

-----------------------------------------------------------------------------
(* What the actions do at cloudscale.ch.                                    *)

\* The cloud names a new resource; the smallest name that is free will do.
Fresh(kind) == CHOOSE n \in 1..Cardinality(cloud[kind]) + 1 : \A r \in cloud[kind] : r.id # n

\* The API fills in the HTTP options of a monitor that needs some.
Stored(a) ==
    LET named == [f \in DOMAIN a.value \cup {"id", "pool"} |->
                     CASE f = "id" -> Fresh(a.kind)
                       [] f = "pool" -> a.pool
                       [] OTHER -> a.value[f]]
    IN IF a.kind = "monitor" /\ a.value.type = "http" /\ a.value.http = None
       THEN [named EXCEPT !.http = DefaultHTTP]
       ELSE named

\* A balancer cannot listen twice on a port.
Refused(a) ==
    /\ a.op = "create" /\ a.kind = "listener"
    /\ \E l \in cloud.listener : listenerKey(l) = listenerKey(a.value)

\* A request to change one field leaves out the others: a Host that is nil is
\* left out as well, and stays.
Updated(a, r) ==
    IF r.id = a.id /\ ~(a.field = "host" /\ a.value = None)
    THEN [r EXCEPT ![a.part][a.field] = a.value] ELSE r

\* The cloud chooses what is not asked for.
AssignedVip(vip) ==
    IF vip = None THEN [address |-> "automatic", subnet |-> "public"]
    ELSE [address |-> IF vip.address = None THEN "automatic" ELSE vip.address,
          subnet  |-> vip.subnet]

\* The balancer after action a; deleting a pool deletes what is in it.
Effect(a) ==
    CASE a.op = "create-lb" ->
           [cloud EXCEPT !.lb = [name |-> a.lb.name, flavor |-> a.lb.flavor,
                                 zone |-> a.lb.zone, status |-> "changing",
                                 vip |-> AssignedVip(a.lb.vip)]]
      [] a.op = "rename-lb" -> [cloud EXCEPT !.lb.name = a.name]
      [] a.op = "create" -> [cloud EXCEPT ![a.kind] = @ \cup {Stored(a)}]
      [] a.op = "delete" /\ a.kind # "pool" ->
           [cloud EXCEPT ![a.kind] = {r \in @ : r.id # a.id}]
      [] a.op = "delete" /\ a.kind = "pool" ->
           [k \in DOMAIN cloud |->
               IF k = "pool" THEN {r \in cloud.pool : r.id # a.id}
               ELSE IF k \in Kinds THEN {r \in cloud[k] : r.pool # a.id}
               ELSE cloud[k]]
      [] a.op = "update" ->
           [cloud EXCEPT ![a.kind] = {Updated(a, r) : r \in @}]
      [] a.op = "assign" -> [cloud EXCEPT !.ips = @ \cup {a.ip}]

-----------------------------------------------------------------------------
Init ==
    /\ service = [config |-> FirstConfig, zone |-> None]
    /\ nodes = Nodes
    /\ due = {"service"}
    /\ known = None
    /\ waiting = [kind \in CallKinds |-> None]
    /\ newest = "service"
    /\ call = "service"
    /\ pc = "idle"
    /\ want = [config |-> FirstConfig, zone |-> None, nodes |-> Nodes]
    /\ plan = {}
    /\ cloud = [lb |-> None, pool |-> {}, member |-> {}, listener |-> {}, monitor |-> {},
                ips |-> {}]
    /\ edits = 0 /\ moves = 0 /\ faults = 0

\* The service controller calls a handler, once at a time for each kind: the
\* service queue with the service as it is, the node sync with the copy that
\* the service queue took last.  Both take the nodes there are, so nothing is
\* left for the node sync after a call of the service queue.
Call(kind) ==
    LET svc == IF kind = "service" THEN service ELSE known IN
    /\ kind \in due
    /\ waiting[kind] = None /\ (pc = "idle" \/ call # kind)
    /\ svc # None
    /\ known' = svc
    /\ waiting' = [waiting EXCEPT
                      ![kind] = [config |-> svc.config, zone |-> svc.zone, nodes |-> nodes]]
    /\ newest' = kind
    /\ due' = IF kind = "service" THEN {} ELSE due \ {"nodes"}
    /\ UNCHANGED <<service, nodes, call, pc, want, plan, cloud, bounds>>

\* The handler gets the mutex and goes on with the copies it was called with;
\* a call made later may have been first.
lockForService(kind) ==
    /\ pc = "idle"
    /\ waiting[kind] # None
    /\ waiting' = [waiting EXCEPT ![kind] = None]
    /\ call' = kind
    /\ pc' = "fetch"
    /\ want' = waiting[kind]
    /\ UNCHANGED <<service, nodes, due, known, newest, plan, cloud, bounds>>

\* A call that returns an error is made again, by the service queue.  (After a
\* failed node sync only if the balancer exists; until then the service queue
\* has not been successful, and calls again anyway.)
Fail ==
    /\ pc' = "idle"
    /\ plan' = {}
    /\ due' = due \cup {"service"}
    /\ UNCHANGED <<service, nodes, calls, call, want, edits, moves>>

\* An error instead of a plan: even an acceptable service is rejected if it
\* changes what cannot be changed.
Rejected(w) == Accepted(w) => cloud.lb # None /\ Unchangeable(w)

\* The head of the loop: both states are fetched, and the plan made from them.
reconcileLbState ==
    /\ pc = "fetch"
    /\ ~Rejected(want)
    /\ pc' = "run"
    /\ \/ /\ cloud.lb = None
          /\ plan' = At(1, {CreateLb(desiredLb(want))}) \cup At(2, {Refetch})
       \/ /\ cloud.lb # None /\ cloud.lb.status = "changing"
          /\ plan' = At(1, {Refetch})
       \/ /\ cloud.lb # None /\ cloud.lb.status # "changing"
          /\ \E order \in Orders(want) : plan' = nextLbActions(want, order)
    /\ UNCHANGED <<service, nodes, due, calls, call, want, cloud, bounds>>

\* Variant: the balancer is renamed before the rest is looked at.
RejectConfig_Rename ==
    /\ pc = "fetch"
    /\ Rejected(want)
    /\ Fail
    /\ cloud' = IF cloud.lb = None THEN cloud ELSE [cloud EXCEPT !.lb.name = want.config.name]
    /\ UNCHANGED faults

\* No state is desired that could be planned for.
RejectConfig ==
    /\ pc = "fetch"
    /\ Rejected(want)
    /\ Fail
    /\ UNCHANGED <<cloud, faults>>

\* What may be run next.
Foremost == {b \in plan : \A c \in plan : b.turn <= c.turn}

\* One turn of runActions' loop.  After the last change before a new look the
\* balancer may be changing.
RunAction(b) ==
    /\ b.action # Refetch /\ ~Refused(b.action)
    /\ plan' = plan \ {b}
    /\ \/ cloud' = Effect(b.action)
       \/ /\ {c.action : c \in plan'} = {Refetch}
          /\ cloud' = [Effect(b.action) EXCEPT !.lb.status = "changing"]
    /\ UNCHANGED <<service, nodes, due, calls, call, pc, want, bounds>>

RunRefused(b) ==
    /\ b.action # Refetch /\ Refused(b.action)
    /\ Fail
    /\ UNCHANGED <<cloud, faults>>

\* Variant: the rest of the plan is kept.
RunRefetch_KeepsPlan(b) ==
    /\ b.action = Refetch
    /\ pc' = "fetch"
    /\ UNCHANGED <<service, nodes, due, calls, call, want, plan, cloud, bounds>>

\* Variant: the control code is taken for Proceed.
RunRefetch_Proceeds(b) ==
    /\ b.action = Refetch
    /\ plan' = plan \ {b}
    /\ UNCHANGED <<service, nodes, due, calls, call, pc, want, cloud, bounds>>

RunRefetch(b) ==
    /\ b.action = Refetch
    /\ pc' = "fetch"
    /\ plan' = {}
    /\ UNCHANGED <<service, nodes, due, calls, call, want, cloud, bounds>>

runActions ==
    /\ pc = "run"
    /\ \E b \in Foremost : RunAction(b) \/ RunRefused(b) \/ RunRefetch(b)

\* The plan is done.  EnsureLoadBalancer notes the zone of the balancer in an
\* annotation of the service, UpdateLoadBalancer just returns.  A service that
\* is changed is queued.
Return ==
    /\ pc = "run" /\ plan = {}
    /\ pc' = "idle"
    /\ service' = IF call = "service" /\ want.zone # cloud.lb.zone
                  THEN [service EXCEPT !.zone = cloud.lb.zone] ELSE service
    /\ due' = IF service' = service THEN due ELSE due \cup {"service"}
    /\ UNCHANGED <<nodes, calls, call, want, plan, cloud, bounds>>

Charge == faults < MaxFaults /\ faults' = faults + 1

\* A call fails without effect; or it took effect, and the answer is lost.
CallFails ==
    /\ pc # "idle"
    /\ Charge
    /\ Fail
    /\ \/ UNCHANGED cloud
       \/ /\ pc = "run"
          /\ \E b \in Foremost : /\ b.action # Refetch /\ ~Refused(b.action)
                                 /\ cloud' = Effect(b.action)

\* The process stops, the calls that wait are lost; the new one queues the
\* service.
Crash ==
    /\ Charge
    /\ pc' = "idle" /\ plan' = {} /\ due' = {"service"}
    /\ known' = None /\ waiting' = [kind \in CallKinds |-> None]
    /\ UNCHANGED <<service, nodes, newest, call, want, cloud, edits, moves>>

Provision ==
    /\ cloud.lb # None /\ cloud.lb.status = "changing"
    /\ cloud' = [cloud EXCEPT !.lb.status = "running"]
    /\ UNCHANGED <<service, nodes, due, calls, call, pc, want, plan, bounds>>

EditService ==
    /\ edits < MaxEdits
    /\ edits' = edits + 1
    /\ \E c \in Configs \ {service.config} : service' = [service EXCEPT !.config = c]
    /\ due' = due \cup {"service"}
    /\ UNCHANGED <<nodes, calls, call, pc, want, plan, cloud, moves, faults>>

MoveNodes ==
    /\ moves < MaxMoves
    /\ moves' = moves + 1
    /\ \E ns \in (SUBSET Nodes) \ {nodes} : Cardinality(ns) >= FewestNodes /\ nodes' = ns
    /\ due' = due \cup {"nodes"}
    /\ UNCHANGED <<service, calls, call, pc, want, plan, cloud, edits, faults>>

Next ==
    \/ \E kind \in CallKinds : Call(kind) \/ lockForService(kind)
    \/ reconcileLbState \/ RejectConfig \/ runActions \/ Return
    \/ CallFails \/ Crash \/ Provision \/ EditService \/ MoveNodes

Spec == Init /\ [][Next]_vars

\* The handlers run, owed calls are made, and a changing balancer settles; a
\* handler gets the mutex if that is free again and again.
Fairness ==
    /\ WF_vars(reconcileLbState) /\ WF_vars(RejectConfig)
    /\ WF_vars(runActions) /\ WF_vars(Return)
    /\ WF_vars(Provision)
    /\ \A kind \in CallKinds : WF_vars(Call(kind)) /\ SF_vars(lockForService(kind))

FairSpec == Spec /\ Fairness

-----------------------------------------------------------------------------
(* Properties.                                                              *)

\* The values the variables take; what the cloud holds is always in a pool
\* that exists.
TypeOK ==
    /\ service.config \in Configs
    /\ nodes \subseteq Nodes
    /\ due \subseteq CallKinds /\ call \in CallKinds /\ newest \in CallKinds
    /\ known # None => known.config \in Configs
    /\ DOMAIN waiting = CallKinds
    /\ \A kind \in CallKinds : waiting[kind] # None =>
          waiting[kind].config \in Configs /\ waiting[kind].nodes \subseteq Nodes
    /\ pc \in {"idle", "fetch", "run"}
    /\ want.config \in Configs /\ want.nodes \subseteq Nodes
    /\ pc # "run" => plan = {}
    /\ \A k \in Kinds \ {"pool"} : \A r \in cloud[k] : \E p \in cloud.pool : r.pool = p.id
    /\ edits \in 0..MaxEdits /\ moves \in 0..MaxMoves /\ faults \in 0..MaxFaults

\* No failure makes the loop create a pool, member, listener or monitor a
\* second time: not a lost answer in the middle of a plan, not a new start.
NoDuplicates ==
    /\ \A p, q \in cloud.pool : p.name = q.name => p = q
    /\ \A m, n \in cloud.member :
          m.pool = n.pool /\ poolMemberKey(m) = poolMemberKey(n) => m = n
    /\ \A k \in {"listener", "monitor"} : \A l, m \in cloud[k] : l.pool = m.pool => l = m

Without(r, fields) == [f \in DOMAIN r \ fields |-> r[f]]
Bare(resources) == {Without(r, {"id", "pool"}) : r \in resources}

\* The monitor a user asks for, where a is.  The API's defaults are included,
\* and a Host that is not asked for is left as it is.
AskedMonitor(w, a) ==
    LET m == healthMonitorForPort(w) IN
    IF m.http = None THEN [m EXCEPT !.http = IF m.type = "http" THEN DefaultHTTP ELSE None]
    ELSE IF m.http.host = None /\ a.http # None THEN [m EXCEPT !.http.host = a.http.host]
    ELSE m

\* The balancer is what the service and the nodes w ask for, nothing more.
Realises(w) ==
    /\ cloud.lb # None
    /\ cloud.lb.name = w.config.name
    /\ Bare(cloud.pool) = DesiredPools(w)
    /\ \A i \in DOMAIN w.config.ports : \A p \in cloud.pool :
          p.name = poolName(w.config.ports[i]) =>
             /\ Bare(Of("member", p)) = desiredMembers(w, i)
             /\ Bare(Of("listener", p)) = {listenerForPort(w, i)}
             /\ \E a \in Of("monitor", p) : Bare(Of("monitor", p)) = {AskedMonitor(w, a)}
    /\ w.config.ips \subseteq cloud.ips

Current == [config |-> service.config, zone |-> service.zone, nodes |-> nodes]

\* All calls have returned, the last one without an error.
Quiescent == pc = "idle" /\ due = {} /\ \A kind \in CallKinds : waiting[kind] = None

\* When all calls have returned, the balancer is just what the last of them was
\* called for, whatever failed before and however old its copies were.  That
\* is the latest service and the latest nodes, unless the call waited for the
\* mutex while one that was made later went ahead: the handlers do not look
\* again.
Settled == Quiescent => Realises(want) /\ (call = newest => Realises(Current))

\* The Host of a monitor is set to what it is, or to nil, which does nothing.
SameHost(a) ==
    /\ a.op = "update" /\ a.kind = "monitor" /\ a.part = "http" /\ a.field = "host"
    /\ \E m \in cloud.monitor : m.id = a.id /\ a.value \in {None, m.http.host}

\* The last call, made again, would leave the balancer alone.  Only Hosts would
\* be set once more, as the code compares them by their addresses.
Quiet ==
    Quiescent /\ cloud.lb.status = "running" =>
        \A order \in Orders(want) : \A b \in nextLbActions(want, order) : SameHost(b.action)

\* A step of the loop never removes a pool that the service still wants, nor
\* what it wants in it: a change of one port leaves the others alone.
UnaffectedKept ==
    [][\A i \in DOMAIN want.config.ports : \A p \in cloud.pool :
          Without(p, {"id", "pool"}) = desiredPool(want, i) =>
             /\ p \in cloud'.pool
             /\ {m \in Of("member", p) : Without(m, {"id", "pool"}) \in desiredMembers(want, i)}
                   \subseteq cloud'.member
             /\ \A l \in Of("listener", p) : listenerKey(l) = listenerKey(listenerForPort(want, i)) =>
                    \E m \in cloud'.listener : m.id = l.id /\ m.pool = p.id]_vars

\* A configuration that is refused, because it cannot be parsed or would take
\* a new balancer and so a new address, changes nothing at all.
RefusedUntouched ==
    [][(IF cloud.lb = None THEN cloud' # cloud
        ELSE [cloud' EXCEPT !.lb.status = cloud.lb.status] # cloud)
          => ~Rejected(want)]_vars

\* The balancer of a service whose configuration is not refused gets to what
\* the service asks for, unless the last call was overtaken by a later one
\* while it waited for the mutex.
Converges ==
    <>[](\/ Rejected(Current) \/ Realises(Current)
         \/ Quiescent /\ call # newest)
=============================================================================
