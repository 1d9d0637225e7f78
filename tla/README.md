# A TLA+ verification of the cloudscale.ch cloud controller manager

The cloud controller manager (CCM) gives every Kubernetes service of type
`LoadBalancer` a load balancer at cloudscale.ch, keeps it configured, and
deletes it again; it also tells Kubernetes about the servers behind its nodes.
This directory models both in TLA+, checks the models with TLC and proves their
safety properties with TLAPS, for any number of services, ports, nodes, servers
and failures.

## The system

| Component | State | Operations | Talks to |
|---|---|---|---|
| Handlers, `loadbalancer.go` | a mutex per service (`muMap`) | `GetLoadBalancer`, `EnsureLoadBalancer`, `UpdateLoadBalancer`, `EnsureLoadBalancerDeleted` | called by the Kubernetes service controller; call everything below |
| Lookup, `lb_mapper.go`, `limiter.go` | none | `findByServiceInfo`: by UUID and by name, joined | cloudscale.ch |
| Reconcile, `reconcile.go` | none between calls | `desiredLbState`, `actualLbState`, `nextLbActions`, `runActions`, `reconcileLbState` | lookup, actions |
| Actions, `actions.go`, `control.go` | none | one per kind of request, and `Refetch`, `AwaitLb`, `Sleep` | cloudscale.ch |
| Compare, `compare.go` | none | `Diff`, `Match` | used by the planner |
| Annotations, `service_info.go`, `annotate.go` | annotations of the service (UUID, zone, version) | reading with defaults, JSON patch | Kubernetes API |
| Floating IP check, `loadbalancer.go:656-758` | none | `ensureValidConfig` | Kubernetes API |
| Servers and nodes, `server_mapper.go`, `instances.go`, `provider_id.go` | none | `mapNodes`, `InstanceExists`, ... | cloudscale.ch |
| Wiring, `cloud.go`, `main.go` | none after start-up | | |

The CCM keeps no state of its own but the mutexes: what it knows is in the
annotations of the services and at cloudscale.ch, and every call starts from
there. What is hard about it follows from that:

* two workers of the service controller, the service queue and the node sync,
  call for the same service with different, possibly old, copies of it;
* every call is a long series of requests, any of which may fail, or take
  effect without an answer, and the process may stop between two of them;
* a balancer is found by a UUID that may be out of date or not yet stored, or
  by a name that users may change;
* the plan depends on what an earlier, interrupted plan left behind, and on a
  balancer that needs time after each change.

`PROJECT.json` lists each such hazard with the line where it bites and the
properties that would notice it.

What makes each part correct: a service has at most one balancer and never
touches another's; a deleted service leaves none; handlers exclude each other
and always let go; a Floating IP is not pulled back and forth between
services, gets to the one that asks for it, and no conflict over one blocks a
service for longer than it lasts; a node is taken for the right server, and
removed only if that server is gone; the contents of a balancer get to what the
service asks for from any state an interruption can leave, without duplicates,
without touching what did not change, and without applying half of a refused
configuration.

## The modules

**`LoadBalancer`** is the life of the balancers of all services. The variables
`api`, `cache`, `queued`, `known` are the Kubernetes side (the API server, the
informer's copy, the queue, the controller's own cache), `lb` is cloudscale.ch,
and `lock`, `pc`, `snap`, `seen` are the handlers: for each service and worker
where it is, the copy of the service it was called with and the balancer it
found last. Each action is a stretch of a handler with one API call:

| Action | Code |
|---|---|
| `GetLoadBalancer` | the handler of that name, no lock |
| `lockForService` | `mu.Lock()` of the three others |
| `reconcileLbState` | one turn of the loop: fetch, and the head of `nextLbActions` |
| `RunCreateLb`, `RunDeleteLb`, `RunApply` | the plans: create and look again, delete, change |
| `FinalState`, `RunAnnotate`, `RunPanic` | the end of `EnsureLoadBalancer` |
| `CallFails`, `AnswerLost` | an error return at any of these, without or with effect |
| `Return`, `Fail` | the deferred unlock, and what the service controller does then |

`Informer`, `SyncService`, `SyncNodes`, `RunFinalizer` and `Crash` are the
service controller of k8s.io/cloud-provider v0.29 as the code uses it;
`Provision` and the `Create/Edit/Delete` actions are the cloud and the users.
The contents of a balancer are one number, its configuration. The error
handling of `Join` is modelled as it is written (`JoinError`): it drops errors.
`AnnotateService` stores the UUID; from a copy that may have had no annotations
it first drops those there are, a new name included (`annotate.go:39`). The
patch fails if the service is gone (`PatchErrs`).

**`Reconcile`** opens up the contents of one balancer: pools, members,
listeners, monitors, Floating IPs. One reconcile loop runs at a time, which is
what `MutualExclusion` of the other module shows; handlers wait for each other
with the copies of the service and the nodes they were called with.

| Action | Code |
|---|---|
| `Call("service")`, `Call("nodes")` | `EnsureLoadBalancer` and `UpdateLoadBalancer` are called, each worker once at a time, with copies (`waiting`): the service queue with the current service, the node sync with the copy the service queue took last (`known`) |
| `lockForService` | one of the waiting handlers gets the mutex, in any order, and goes on with its copies (`want`) |
| `reconcileLbState`, `RejectConfig` | fetch and plan, or an error instead of a plan |
| `runActions` (`RunAction`, `RunRefused`, `RunRefetch`) | the next action of the plan |
| `Return` | the handler returns; `EnsureLoadBalancer` stores the zone |
| `CallFails`, `Crash` | any call fails, or takes effect without an answer; the process stops and forgets the waiting calls |

`desiredPool`, `desiredMembers`, `listenerForPort`, `healthMonitorForPort` are
what a service asks for; `toDelete`, `toCreate` and `Match` are package compare;
`nextLbActions` is the plan, a set of actions each with its turn: those of a
smaller turn come first, those of the same turn in any order (the order of
`Orders`, in which pools are deleted, comes from the iteration over a Go map);
`Effect` is what each action does at cloudscale.ch. `EditService` and
`MoveNodes` change the service and the nodes at any time, and make the service
controller owe a call (`due`). A VIP is compared as the code does, where the
desired address may be missing (`SameVip`), and an update of a Host to nil
changes nothing (`Updated`), since a nil field is left out of the request.
Of the external side the model assumes that deleting a pool deletes
what is in it (the code never deletes listeners and monitors of a pool it
removes), that a balancer always has an address (`AssignedVip`), that the API fills in the HTTP options left out for an http monitor
(the code's comment at `reconcile.go:894`), and that a balancer cannot have two
listeners on one port.

**`OneBalancer`** is the abstract specification of what the handlers promise to
a service: it has one balancer or none, gets a fresh one only if it has none,
and loses it only if a handler was called to delete it. `LoadBalancer`
implements it (`OneBalancerSpec`, the instance `OB`): `has` is the balancer
that belongs to the service at cloudscale.ch, `spent` the UUIDs handed out, and
`asked` the services whose service queue is in `EnsureLoadBalancerDeleted`.

**`Annotations`** is what the handlers do with the annotations of several
services. `api`, `cache`, `queued`, `known`, `snap` are as in `LoadBalancer`,
and there are the same two workers for each service; `lb` says whether it has a
balancer, `holder` where each Floating IP points to, `todo` which ones a plan
has yet to assign, and `withdrawn` remembers which service once gave up which
address.

| Action | Code |
|---|---|
| `GetLoadBalancer` | the handler of that name, with the error of `loadBalancerStatus` |
| `ensureValidConfig`, `findIPsAssignedElsewhere` | the mutex and the gate in front of the three other handlers, which reads all services |
| `nextLbActions`, `AssignFloatingIP` | the plan, as far as it is about Floating IPs, and each of its requests |
| `EnsureLoadBalancer` with `AnnotateService`, `PatchErrs`, `StatusErrs` | the end of the handler: the JSON patch and the status |
| `UpdateLoadBalancer` | the end of that handler, which stores nothing |
| `EnsureLoadBalancerDeleted` | the deletion, which also frees the addresses |
| `CallFails` | a request that fails, or a patch whose answer is lost |

The edits of users and the service controller are external; `SyncNodes` calls
`UpdateLoadBalancer` with the copy the service queue last worked on, so that a
node sync can wait for the mutex while its service is deleted, and then build
its balancer again (`Revived`) and assign its Floating IPs. A patch made from a
copy without annotations replaces all annotations there are (`annotate.go:39`);
one made from a copy with annotations is refused if the service has none any
more (`PatchErrs`), as JSON patch demands. Two details are abstracted: an
address stands for its CIDR notation, whose prefix the action cuts off
(`actions.go:558`), and no service forces a hostname, with which
`loadBalancerStatus` would return before it reads the IP mode.

**`Nodes`** is the other half of the provider: servers at cloudscale.ch
(`server`), node objects (`node`), which server's kubelet registered a node
(`host`), the metadata on its way to a node (`meta`), and a running `mapNodes`
(`mapping`, `copy`, `todo`, `found`) that ends in the `members` of the pools.

| Action | Code |
|---|---|
| `InstanceMetadata`, `ApplyMetadata` | the handler, and the node controller that stores its answer |
| `MonitorNode` | the node lifecycle controller, with `InstanceExists` and `InstanceShutdown` |
| `UpdateLoadBalancer`, `mapNodes`, `desiredLbState` | the call with copies of the nodes, each turn of the loop, the members |

`findByNode`, `getByProviderID`, `findByName` and the limiter's `One` and
`AtMostOne` are operators; each lookup may fail. The rest is external:
k8s.io/cloud-provider v0.29, which passes nodes to the balancers whether they
are ready or not, sets a provider ID only if there is none, and whose lifecycle
controller asks and removes in one step here; kubelets, which register without
a provider ID (or with a foreign one) and take over a node object that is still
there from an earlier server of the same name; and users, who create, stop,
start, rename and delete servers.

**`MCLoadBalancer`**, **`MCReconcile`**, **`MCAnnotations`** and **`MCNodes`**
give the constants their values. The theorems are in **`LoadBalancer_proofs`**,
**`Refinement_proofs`** and **`Lifecycle_proofs`** (each extends the one before),
**`Reconcile_proofs`** and **`Settled_proofs`** (likewise),
**`Annotations_proofs`** and **`Nodes_proofs`**. Definitions with an underscore in
their name (`findByName_Running`) are variants with a plausible bug, used only
to see that the properties notice it.

## What TLC checks

Runs that pass:

| Run | Properties | Bounds |
|---|---|---|
| `lb_safety` | `TypeOK`, `MutualExclusion`, `AtMostOneLb`, `NoPanic`, `UuidStable`, `OneBalancerSpec` | 1 service, node sync, 4 UUIDs, 1 failure, 1 crash, 2 configurations, 2 changes of type |
| `lb_two_services` | `UuidOwned`, `DeletedByOwner` | 2 services, 3 UUIDs, 2 failures, lookups included |
| `lb_liveness` | `AtMostOneLb`, `NoOrphan`, `Converges`, `CleansUp` | 1 service, no node sync, renames, 1 failure, 1 crash |
| `lb_node_sync` | `Converges`, `LockServed` | 1 service, node sync, 1 failure, 1 crash, 1 configuration |
| `rc_ports` | `TypeOK`, `NoDuplicates`, `UnaffectedKept`, `RefusedUntouched` | 6 configurations with 2 ports, 2 changes, 1 failure |
| `rc_settings` | `Settled`, `Quiet`, `Converges` | 7 configurations with 1 port, 2 zones, no to 2 nodes, both workers, 2 changes of the service, 1 of the nodes, 1 failure or crash |
| `an_floating_ips` | `TypeOK`, `NotStolen`, `Served`, `SetUpUnlessBlocked`, `DeletedUnlessBlocked` | 2 services, one of them created with the only address and one with no annotation of its own, 2 edits or deletions, 1 failure or node sync |
| `nodes` | `TypeOK`, `IdRight`, `MetadataOfId`, `RemovedOnlyIfGone`, `NotDropped`, `Handled`, `Initialized`, `MembersFollow` | 2 node names, 2 servers of which one is there at first, 2 events, 1 failure |

What the runs of the contents show. `Settled`: when all calls have returned,
the balancer is what the last call was made for, and that is the latest service
and the latest nodes unless the call was overtaken: it waited for the mutex with
its copies while a call made later went ahead (`call # newest`). In that case
the code really does go back, an `UpdateLoadBalancer` to an older configuration
or an `EnsureLoadBalancer` to an older set of nodes, and nothing is due that
would repair it; `Converges` has the same exception. `Quiet`: that call, made
again, would change nothing. Its plan may be non-empty, as the Hosts of two
monitors are compared as pointers (`reconcile.go:632`), but then it only sets
Hosts to what they are.

What the runs of `Annotations` and `Nodes` show. `NotStolen`: a Floating IP
moves from one service to another only if one of the two once gave it up or is
gone; the check at the start of a call is enough for that although the
assignment comes minutes later, because a service that is past the check keeps
its claim in view of every later check, and only a service whose claim was
withdrawn meanwhile can still assign. `Served`: the service that alone claims an
address gets it in the end, also after another that had it was deleted. It has
two exceptions, both of them what the code does: a service that gave up an
address while its last call still assigned it may keep it, since nothing reads a
Floating IP back; and so may one that is gone but whose balancer a node sync
built again. `SetUpUnlessBlocked`: a service refused for a conflict, or whose
patch was refused, ends up with a balancer and its UUID stored once nothing
blocks it, although it gets no event of its own then. `DeletedUnlessBlocked`
names in its statement the only cases in which the code does otherwise: a
deleted service whose own annotations cannot be used or whose address another
service claims.

`IdRight` and `MetadataOfId`: the lookup by name never gives a node the ID of
another server as long as its own server keeps its name, and from then on the
ID rules. `RemovedOnlyIfGone` and `Handled` are the two halves of "a node goes
when its server does". `NotDropped` and `MembersFollow` are the two sides of
`mapNodes` giving up at the first node it cannot map: no server with a node
loses its traffic, and the members are right once every node can be mapped; as
long as one cannot (a foreign provider ID, or that of a server replaced under
the same name while its node stayed ready), the balancers are not updated at
all.

One failure and one crash at every point of a call suffice to reach each state
an interruption can leave behind, since a call keeps nothing from the one
before; the second failure in `lb_two_services` lets both calls of a lookup
fail. Two changes give every pair of configurations in sequence, and a change
during a running call; in `an_floating_ips` one for each service, or a
claim that is withdrawn and renewed or passed on during a call, together with
either a failure or a node sync, whose copy may be older than both (the run's
largest bounds within reach: 790,000 states); in `rc_settings` the one change of
nodes is what makes the node sync call, before, between or after the changes of
the service; in `nodes` a
server replaced under the same name, or renamed twice. UUIDs are as many as can be created within the other
bounds; where they run out (the node sync may create balancers again and
again), a creation has to wait, which the safety properties do not depend on.
UUIDs are interchangeable, so the safety runs use symmetry. Deadlock is not
checked: once all services are gone and the bounds are used up, the system may
stop.

Fairness (`FairSpec`): a worker that can go on does, the informer delivers,
queued keys are processed, changing balancers settle. A worker that waits for
the mutex gets it if it is free again and again (strong fairness): Go's mutexes
go into starvation mode after a millisecond. `Reconcile` assumes
the same of its handlers: an owed call is made (`Call`), a waiting one gets the
mutex (strong fairness of `lockForService`). In `Annotations` every worker runs,
queued keys are processed and the informer delivers; weak fairness is enough for
the mutex there, as node syncs are few. In `Nodes` both node controllers keep asking, as
their loops do, and the service controller calls whenever nodes changed or the
last call failed. Failures, crashes, heartbeats and what users do are not fair.

Runs that show a disagreement between the code and what is said about it
(`findings` in `PROJECT.json` quotes both):

| Run | What TLC finds |
|---|---|
| `lb_join_error` | `Join` never takes over an error, so a failing lookup counts as "not found" if the other of its two calls finds nothing either: then a second balancer is created, or the finalizer removed too early |
| `lb_update_orphan` | an `UpdateLoadBalancer` that waited for the mutex during the deletion creates the balancer anew; nobody deletes it |
| `lb_rename` | renaming a service before its UUID is stored gives a second balancer |
| `rc_port_swap` | two ports that change places make every call fail at the same action |

More disagreements are in the models but have no run of their own:

* an `UpdateLoadBalancer` with the previous copy of the service undoes a change
  of its configuration, and an `EnsureLoadBalancer` with the previous nodes a
  change of the members, for good (`call # newest` in `Settled` and `Converges`
  of `Reconcile`; the cause is that of `lb_update_orphan`, a copy taken before
  the mutex);
* the node sync that builds the balancer of a deleted service again also assigns
  its Floating IPs, and may so take them from the service that has them now
  (`Revived` in `Served`);
* HTTP options that are removed while the type stays http stay on the monitor,
  as `reconcile.go:631` compares them only if there are some (`Settled`);
* the Hosts of two monitors are compared as pointers (`HttpDiffers`), so that
  every call sets them again (`SameHost` in `Quiet`), and a Host that is taken
  off the service stays on the monitor (`Updated`, `AskedMonitor`);
* allowed subnets that match no node empty the pools (`desiredAddresses`), where
  `loadbalancer.go:292-294` promises an error; the configurations of the runs
  have subnets that some address of every node is in, so that no run takes an
  empty pool for right, unless there are no nodes;
* annotations a user adds to a service that had none are dropped by the first
  patch (`AnnotateService`), if the handler's copy is older, a custom name or
  Floating IPs among them;
* the comment at `server_mapper.go:52` speaks of a 1:1 mapping, which nothing
  enforces: two nodes may map to one server after servers were renamed.

The passing runs of `Reconcile` therefore leave out, from the configurations in
liveness and `Settled` runs, ports that change places, HTTP options that are
removed while the type stays http, and subnets that match nothing; and those of `LoadBalancer` leave
out early renames and, for `Converges` and `CleansUp`, changes of a service
that has a node sync.

## What is proved

`LoadBalancer_proofs`, for all values of the constants that satisfy the named
assumptions (default names differ between services, bounds are numbers, `None`
is none of the other values):

* `TypeCorrect`: `Spec => []TypeOK`.
* `MutualExclusionHolds`: `Spec => []MutualExclusion`. The invariant `LockInv`
  says that a worker is between lock and unlock only if it holds the lock of
  its service; every return path, and the restart, gives it back.
* `UuidOwnedHolds`: with default names (`CustomNames = {}`), the UUID
  annotation never names another service's balancer, even if lookups fail.
  `UuidOwned` is not inductive: the UUID passes from the lookup through `seen`
  into the annotation, from there into the informer's copy, and from there into
  the next handler's copy. `OwnInv` says of each of these that the UUID in it
  belongs to the service, and that live balancers carry the default name of
  their owner.
* `AtMostOneLbHolds`: with default names and lookups that do not fail half way
  (`LookupFaults = FALSE`), a service never has two balancers. The
  strengthening `UniqueInv` adds `CreateInv`: a worker that is about to create
  holds the lock and there is no balancer of its service. It is stable because
  only the holder of the lock creates, and the lookup by name sees every
  balancer of the service. Without the assumption on lookups the statement is
  not true of the code: `Join` drops errors.

`Refinement_proofs` builds on these:

* `DeletedByOwnerHolds`: with default names, `Spec => DeletedByOwner`, even if
  lookups fail. `DeleteInv` says that a worker about to delete was called to
  delete; that the balancer it has seen is its own service's is in `OwnInv`.
* `NoPanicHolds`: with default names and sound lookups, the final state of
  `EnsureLoadBalancer` has a balancer. `FinalInv` says that a worker that
  applies a plan has seen a balancer, and that this one is still there when the
  final state is read: it holds the lock (`LockInv`), so nobody else can have
  deleted it (`HolderKeeps`), and the lookup finds it.
* `Refinement`: under the same assumptions `Spec => OneBalancerSpec`. Every
  step that changes a balancer's owner or status is a creation, which is
  `Obtain` because `CreateInv` says that there is none and the UUID is unused,
  or a deletion, which is `Release` because `DeleteInv` says that the worker was
  called to delete; every other step leaves `has` and `spent` alone and is
  `Ask`.

These proofs first reduce each action to its effect on the few variables at
hand (`NextShape`), so that the invariants are argued once per shape of step and
not once per action.

`Lifecycle_proofs` adds what a service goes through:

* `UuidStableHolds`: with default names and sound lookups, the UUID annotation
  does not change to another balancer's while the first one is there.
  `AnnotateInv` says that a handler about to annotate has seen a balancer that
  still exists; with `AtMostOneLb` and `UuidOwned` that is the one the service
  already names.
* `NoOrphanHolds`: with default names, sound lookups and no node sync,
  `Spec /\ [][TypeStays]_vars => []NoOrphan`. `LifeInv` follows the finalizer:
  it is on a service before its balancer is created and until it is deleted
  (`FinalizerInv`), the informer's copy is not ahead of the service
  (`CacheInv`), and a worker that removes the finalizer does so when there is no
  balancer left and none can come (`WorkerInv`). `TypeStays` says that the type
  of a service is not changed back to `LoadBalancer` after it was something
  else. Without it the statement is not true: while the balancer is deleted the
  type goes back, the finalizer is then removed from a service that is wanted
  again, the informer's copy still shows it, and the next call builds a balancer
  for a service without finalizer. That race is in the service controller, not
  in this repository; `lb_liveness` stays clear of it with one change of type,
  and so does the theorem with `TypeStays`. Without the assumption on the node
  sync the statement is not true either: that is `lb_update_orphan`.

`Reconcile_proofs`, for all configurations of a service whose ports have
different names, which Kubernetes demands of services with several ports:

* `TypeCorrect`, `NoDuplicatesHolds`, `RefusedUntouchedHolds` and
  `UnaffectedKeptHolds`. None of them says anything of the plan, which was made
  from an earlier look at the balancer, so `ContentInv` has to: at any point of
  running a plan, what is still to be created is not there, or is deleted at an
  earlier turn (`CreatePoolInv`, `CreateInInv`); what is to be deleted is not
  what the service wants, and nothing takes its place before (`DeleteInv`); an
  update leaves alone what identifies a resource (`UpdateInv`); and a plan is
  only made for a service that is not refused (`LbInv`). `IdInv` says that ids
  are not given twice. A first group of lemmas shows these of a plan just made,
  from the facts about `toDelete`, `toCreate`, `Match` and `Orders`; a second
  one that each action keeps them for the rest of the plan.

`Settled_proofs` builds on that:

* `SettledHolds`: when all calls have returned without an error the balancer is
  what the copies of the last one ask for, and what the latest service and nodes
  ask for unless it was overtaken. `SettleInv` says that a plan without
  `Refetch`, after which the loop ends, holds an action for everything that is
  still wrong (`LastInv`), with the right value (`ValueInv`); that the copies of
  the newest call, waiting or at work, are the current service and nodes unless
  another call is due (`DueInv`); and that resources have the fields they were
  created with (`FieldsInv`), which matters since updates are made field by
  field.
* `QuietHolds`: then the last call, made again, would change nothing, so calls
  do not disturb a balancer that is right. What is left of the plan are Hosts,
  set to what they are or to nil, which has no effect.

  Both assume `SettingsGiven` (each configuration has a value for each setting,
  as the defaults of `serviceInfo` see to), that `None` is not a record, and
  `HttpKept`: HTTP options do not come or go while the type and the HTTP version
  stay. Without `HttpKept` both are false because of `reconcile.go:631`. The
  configurations of `rc_settings` satisfy all of them.

`Annotations_proofs`:

* `TypeCorrect`, which includes that no return path leaves Floating IPs in a
  plan.
* `NotStolenHolds`. `FloatingInv` says that copies of a service are not ahead of
  it (`CopyInv`), that a plan is made from the handler's copy, and by a handler
  that does not delete (`PlanInv`), that a claim in any copy, the node sync's
  included, and an address held, is a claim the service still makes or has given
  up (`ClaimInv`), and that of two services with a call past the check with the
  same address, or holding it, one has given it up (`PassedInv`). The last is
  what the check is for: it reads all services, and so sees the claim of whoever
  passed before. A service that is gone counts as having given up, since a node
  sync may still work for it.

`Nodes_proofs`, however many servers share a name:

* `TypeCorrect`, `MetadataOfIdHolds`, `RemovedOnlyIfGoneHolds`.
* `IdRightHolds`, from `NodeInv`: as long as the server of a node keeps the
  node's name, the provider ID and the metadata on its way to the node are that
  server's or not there; the lookup by name refuses to choose among several.
* `NotDroppedHolds`, from `MapInv`: the server a node had when the call began is
  found already or its node is still to be looked up, so a call that gets to the
  end has them all.

Every invariant and every action property of the passing runs is the subject of
a theorem. Only model-checked are the liveness properties, since fairness is
beyond the prover: `Converges` and `CleansUp`, `LockServed`, `Served`,
`SetUpUnlessBlocked`, `DeletedUnlessBlocked`, `Handled`, `Initialized` and `MembersFollow`. The
inductive invariants were checked with TLC on the instances of the runs before
they were proved.

## What is not modelled

* Between the modules: the Floating IP check, mapping nodes to servers and
  reading the balancer's contents are calls that may fail in `LoadBalancer`;
  `Annotations` takes from it that a service has one balancer or none
  (`OneBalancerSpec`) and that one handler at a time is past the mutex
  (`MutualExclusion`).
* Requests that are carried out after the client has given up: a lost request
  takes effect at once or never.
* Services with a `loadBalancerClass`, which the service controller ignores,
  and the addresses shown to users
  (`loadBalancerStatus`, `nodeAddresses`), which are copied from the cloud.
* Text formats (JSON, integers, names, provider IDs): a text parses or does
  not. `PatchServiceExternalTrafficPolicy`, `None` and `Count`, which only
  tests call.
* Wiring and command line (`cloud.go`, `main.go`), which keep no state after
  start-up, test support and the test server.

## Plan

The system's state-changing parts are all modelled and the safety properties of
the runs are proved. What is left:

1. An abstract specification of what a reconcile loop promises (a balancer is
   only changed towards what the service asks for, or from scratch), and the
   proof that `Reconcile` implements it, as `LoadBalancer` does `OneBalancer`.
2. The safety part of the liveness properties: that what a fair step needs is
   there (a wanted service without a settled balancer has a call due or running;
   a node whose server is gone can be removed), so that TLC is left with
   fairness alone.
3. Weaker assumptions: `UuidOwned` and `AtMostOneLb` with custom names that do
   not clash.
4. Requests that take effect after the client gave up, in a module of their own:
   which of the properties survive them.
