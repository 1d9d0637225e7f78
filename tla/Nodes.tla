------------------------------- MODULE Nodes -------------------------------
(***************************************************************************)
(* Nodes and the servers behind them: server_mapper.go finds the server of *)
(* a node, by its provider ID or by its name; instances.go tells the       *)
(* Kubernetes controllers what a node's server is, whether it exists and   *)
(* whether it is shut down; and the load balancer handlers turn the nodes  *)
(* into servers, which become the members of the pools.                    *)
(*                                                                         *)
(* A server is what cloudscale.ch has, with a name that need not be that   *)
(* of a node nor be unique.  A node is what a kubelet registers.           *)
(***************************************************************************)
EXTENDS Naturals, FiniteSets

CONSTANTS
    Nodes,        \* the nodes, by name
    Uuids,        \* the servers the cloud can hand out, by UUID
    Existing,     \* those that are there at first
    MaxEvents,    \* bound on what users do with servers and nodes
    MaxFaults,    \* bound on failing API calls
    Foreign,      \* a provider ID that is not "cloudscale://<uuid>"
    None          \* no provider ID, no server, no node's name

ASSUME BoundsAssumption ==
    MaxEvents \in Nat /\ MaxFaults \in Nat /\ Existing \subseteq Uuids

ASSUME ValuesAssumption ==
    /\ None \notin Nodes \cup Uuids /\ Foreign \notin Uuids /\ None # Foreign

VARIABLES
    server,     \* server[u]: the servers of cloudscale.ch
    node,       \* node[n]: the node objects of Kubernetes
    host,       \* host[n]: the server whose kubelet registered the node
    strayed,    \* nodes whose server was once gone or had another name (history)
    meta,       \* meta[n]: what InstanceMetadata returned, not applied yet
    dirty,      \* the nodes changed since UpdateLoadBalancer was last called
    copy,       \* copy[n]: the provider ID in the copy of the node mapNodes got
    todo,       \* nodes mapNodes has yet to map
    found,      \* the servers it found
    mapping,    \* is mapNodes running?
    members,    \* the servers the pools' members were made from
    events, faults

nodeVars == <<node, host, strayed, meta>>
mapVars  == <<copy, todo, found, mapping>>
vars == <<server, node, host, strayed, meta, dirty, copy, todo, found,
          mapping, members, events, faults>>

ProviderIDs == Uuids \cup {None, Foreign}

Servers == [status : {"unused", "running", "stopped", "deleted"},
            name : Nodes \cup {None}]

NodeObjects == [exists : BOOLEAN, pid : ProviderIDs, ready : BOOLEAN,
                shutdown : BOOLEAN]                \* the taint

NoNode == [exists |-> FALSE, pid |-> None, ready |-> FALSE, shutdown |-> FALSE]

TypeOK ==
    /\ server \in [Uuids -> Servers]
    /\ node \in [Nodes -> NodeObjects]
    /\ host \in [Nodes -> Uuids \cup {None}]
    /\ strayed \subseteq Nodes
    /\ meta \in [Nodes -> Uuids \cup {None}]
    /\ dirty \in BOOLEAN
    /\ copy \in [Nodes -> ProviderIDs]
    /\ todo \subseteq Nodes
    /\ found \subseteq Uuids
    /\ mapping \in BOOLEAN
    /\ members \subseteq Uuids
    /\ events \in 0..MaxEvents
    /\ faults \in 0..MaxFaults

Init ==
    /\ \E name \in [Existing -> Nodes \cup {None}] :
          server = [u \in Uuids |->
                       IF u \in Existing THEN [status |-> "running", name |-> name[u]]
                       ELSE [status |-> "unused", name |-> None]]
    /\ node = [n \in Nodes |-> NoNode]
    /\ host = [n \in Nodes |-> None]
    /\ strayed = {} /\ todo = {} /\ found = {} /\ members = {}
    /\ meta = [n \in Nodes |-> None]
    /\ copy = [n \in Nodes |-> None]
    /\ dirty = FALSE /\ mapping = FALSE
    /\ events = 0 /\ faults = 0

-----------------------------------------------------------------------------
(* Looking up a server: server_mapper.go and limiter.go.                    *)

Live(u) == server[u].status \in {"running", "stopped"}

\* A limiter: an error, or the elements found.
New(err, elements) == [error |-> err, elements |-> elements]

\* Variant: every error is taken for "404 Not Found".
getByProviderID_AnyError(u, fails) ==
    New(FALSE, IF fails THEN {} ELSE {v \in {u} : Live(v)})

\* A server that is not found is no error.
getByProviderID(u, fails) ==
    IF fails THEN New(TRUE, {}) ELSE New(FALSE, {v \in {u} : Live(v)})

\* Variant: only servers that run are listed.
findByName_Running(n, fails) ==
    IF fails THEN New(TRUE, {})
    ELSE New(FALSE, {u \in Uuids : server[u].status = "running" /\ server[u].name = n})

findByName(n, fails) ==
    IF fails THEN New(TRUE, {})
    ELSE New(FALSE, {u \in Uuids : Live(u) /\ server[u].name = n})

\* Variant: the name comes first.
findByNode_Name(n, pid, fails) ==
    LET named == findByName(n, fails) IN
    IF named.error \/ named.elements # {} \/ pid \in {None, Foreign} THEN named
    ELSE getByProviderID(pid, fails)

\* The server of a node with provider ID pid.  parseCloudscaleProviderID
\* returns an error for a foreign one.
findByNode(n, pid, fails) ==
    CASE pid = None                  -> findByName(n, fails)
      [] pid = Foreign               -> New(TRUE, {})
      [] pid \notin {None, Foreign}  -> getByProviderID(pid, fails)

\* Variant: the first of several will do.
One_First(l) == ~l.error /\ l.elements # {}

\* One returns the element: there is exactly one, and no error.
One(l) == ~l.error /\ \E u \in l.elements : l.elements = {u}

\* AtMostOne returns nil: there is no element, and no error.
AtMostOneIsNil(l) == ~l.error /\ l.elements = {}

\* Whether the API call fails, within the bound.
Charge(fails) ==
    /\ fails => faults < MaxFaults
    /\ faults' = IF fails THEN faults + 1 ELSE faults

-----------------------------------------------------------------------------
(* What instances.go answers to the node and node lifecycle controllers.    *)

\* The node object n goes, and what was going on for it with it.
Remove(n) ==
    /\ node' = [node EXCEPT ![n] = NoNode]
    /\ host' = [host EXCEPT ![n] = None]
    /\ strayed' = strayed \ {n}
    /\ meta' = [meta EXCEPT ![n] = None]
    /\ dirty' = TRUE

\* Variant: a server that is not found is an error, as in InstanceShutdown.
InstanceExists_One(n, fails) ==
    LET l == findByNode(n, node[n].pid, fails) IN New(~One(l), l.elements)

\* InstanceExists returns true, false or an error as this limiter has one
\* element, none or an error.  There is no answer without a provider ID.
InstanceExists(n, fails) ==
    IF node[n].pid = None THEN New(TRUE, {}) ELSE findByNode(n, node[n].pid, fails)

\* InstanceShutdown returns true; all else is false or an error.
InstanceShutdown(n, fails) ==
    LET l == findByNode(n, node[n].pid, fails) IN
    node[n].pid # None /\ One(l) /\ \A u \in l.elements : server[u].status = "stopped"

\* The node lifecycle controller asks InstanceExists for a node that is not
\* ready and removes the node if the answer is no.  If it is yes, it asks
\* InstanceShutdown and taints the node.  After an error it does nothing.
MonitorNode(n) ==
    /\ node[n].exists /\ ~node[n].ready
    /\ \E fails \in BOOLEAN :
         LET answer == InstanceExists(n, fails) IN
         /\ Charge(fails)
         /\ \/ AtMostOneIsNil(answer) /\ Remove(n)
            \/ /\ ~AtMostOneIsNil(answer)
               /\ node' = [node EXCEPT ![n].shutdown =
                              @ \/ (One(answer) /\ InstanceShutdown(n, fails))]
               /\ UNCHANGED <<host, strayed, meta, dirty>>
    /\ UNCHANGED <<server, mapVars, members, events>>

\* InstanceMetadata for every node now and then.
InstanceMetadata(n) ==
    /\ node[n].exists /\ meta[n] = None
    /\ \E fails \in BOOLEAN :
         LET l == findByNode(n, node[n].pid, fails) IN
         /\ Charge(fails)
         /\ \/ /\ One(l)
               /\ \E u \in l.elements : meta' = [meta EXCEPT ![n] = u]
            \/ ~One(l) /\ UNCHANGED meta
    /\ UNCHANGED <<server, node, host, strayed, dirty, mapVars, members, events>>

\* The node controller stores the provider ID, if there is none yet, and the
\* addresses.
ApplyMetadata(n) ==
    /\ meta[n] # None
    /\ node' = [node EXCEPT ![n].pid = IF @ = None THEN meta[n] ELSE @]
    /\ meta' = [meta EXCEPT ![n] = None]
    /\ dirty' = (dirty \/ node[n].pid = None)
    /\ UNCHANGED <<server, host, strayed, mapVars, members, events, faults>>

-----------------------------------------------------------------------------
(* UpdateLoadBalancer, as far as the nodes matter.                          *)

\* The service controller calls it with copies of all nodes, whether they are
\* ready or not.
UpdateLoadBalancer ==
    /\ dirty /\ ~mapping
    /\ dirty' = FALSE
    /\ mapping' = TRUE
    /\ copy' = [n \in Nodes |-> node[n].pid]
    /\ todo' = {n \in Nodes : node[n].exists}
    /\ found' = {}
    /\ UNCHANGED <<server, nodeVars, members, events, faults>>

\* Variant: the error is not returned.
MapFails_Swallowed ==
    /\ mapping' = FALSE
    /\ copy' = [n \in Nodes |-> None]
    /\ todo' = {} /\ found' = {}
    /\ UNCHANGED dirty

\* An error ends the call, and the service is queued again.
MapFails ==
    /\ mapping' = FALSE
    /\ dirty' = TRUE
    /\ copy' = [n \in Nodes |-> None]
    /\ todo' = {} /\ found' = {}

\* Variant: nodes that cannot be mapped are left out.
mapNodes_Skips ==
    /\ \E n \in todo, fails \in BOOLEAN :
         LET l == findByNode(n, copy[n], fails) IN
         /\ Charge(fails)
         /\ found' = IF One(l) THEN found \cup l.elements ELSE found
         /\ todo' = todo \ {n}
    /\ UNCHANGED <<server, nodeVars, mapping, dirty, copy, members, events>>

\* Variant: the nodes' names are collected, not the servers.
mapNodes_Names ==
    /\ \E n \in todo :
          /\ One(findByNode(n, copy[n], FALSE))
          /\ found' = found \cup {n}
          /\ todo' = todo \ {n}
    /\ UNCHANGED <<server, nodeVars, mapping, dirty, copy, members, events, faults>>

\* A turn of the loop of mapNodes: one API call.
mapNodes ==
    /\ \E n \in todo, fails \in BOOLEAN :
         LET l == findByNode(n, copy[n], fails) IN
         /\ Charge(fails)
         /\ \/ ~One(l) /\ MapFails
            \/ /\ One(l)
               /\ found' = found \cup l.elements
               /\ todo' = todo \ {n}
               /\ UNCHANGED <<mapping, dirty, copy>>
    /\ UNCHANGED <<server, nodeVars, members, events>>

\* The desired state is made from the servers, and the balancer reconciled.
desiredLbState ==
    /\ mapping /\ todo = {}
    /\ members' = found
    /\ mapping' = FALSE
    /\ found' = {}
    /\ copy' = [n \in Nodes |-> None]
    /\ UNCHANGED <<server, nodeVars, dirty, todo, events, faults>>

-----------------------------------------------------------------------------
(* Users, the cloud and kubelets, external.                                 *)

Event == events < MaxEvents /\ events' = events + 1

\* Server u is changed; the nodes it hosts may have strayed.
SetServer(u, status, name) ==
    /\ Event
    /\ server' = [server EXCEPT ![u] = [status |-> status, name |-> name]]
    /\ strayed' = strayed \cup
                  {n \in Nodes : host[n] = u /\ (status = "deleted" \/ name # n)}
    /\ UNCHANGED <<node, host, meta, dirty, mapVars, members, faults>>

CreateServer(u) ==
    /\ server[u].status = "unused"
    /\ \E name \in Nodes \cup {None} : SetServer(u, "running", name)

StopServer(u) == server[u].status = "running" /\ SetServer(u, "stopped", server[u].name)

StartServer(u) == server[u].status = "stopped" /\ SetServer(u, "running", server[u].name)

DeleteServer(u) == Live(u) /\ SetServer(u, "deleted", None)

RenameServer(u) ==
    /\ Live(u)
    /\ \E name \in (Nodes \cup {None}) \ {server[u].name} :
          SetServer(u, server[u].status, name)

DeleteNode(n) ==
    /\ node[n].exists
    /\ Event
    /\ Remove(n)
    /\ UNCHANGED <<server, mapVars, members, faults>>

\* The kubelet of server u registers node n.  A node object that is still
\* there from an earlier server is taken over, with its provider ID.
Register(n) ==
    /\ \E u \in Uuids :
         /\ server[u].status = "running"
         /\ \A o \in Nodes : host[o] # u
         /\ IF node[n].exists
            THEN /\ host[n] # None
                 /\ server[host[n]].status = "deleted"
                 /\ node' = [node EXCEPT ![n].ready = TRUE]
                 /\ UNCHANGED <<strayed, dirty>>
            ELSE /\ node' = [node EXCEPT ![n] = [NoNode EXCEPT !.exists = TRUE,
                                                               !.ready = TRUE]]
                 /\ strayed' = IF server[u].name = n THEN strayed ELSE strayed \cup {n}
                 /\ dirty' = TRUE
         /\ host' = [host EXCEPT ![n] = u]
    /\ UNCHANGED <<server, meta, mapVars, members, events, faults>>

\* A node of another provider, or none, joins.
RegisterForeign(n) ==
    /\ ~node[n].exists
    /\ Event
    /\ node' = [node EXCEPT ![n] = [NoNode EXCEPT !.exists = TRUE, !.pid = Foreign,
                                                  !.ready = TRUE]]
    /\ dirty' = TRUE
    /\ UNCHANGED <<server, host, strayed, meta, mapVars, members, faults>>

\* Heartbeats stop, at any time, and come back from a running server; then the
\* controller takes away the taint.
NotReady(n) ==
    /\ node[n].exists /\ node[n].ready
    /\ node' = [node EXCEPT ![n].ready = FALSE]
    /\ UNCHANGED <<server, host, strayed, meta, dirty, mapVars, members, events, faults>>

Ready(n) ==
    /\ node[n].exists /\ ~node[n].ready
    /\ host[n] # None
    /\ server[host[n]].status = "running"
    /\ node' = [node EXCEPT ![n].ready = TRUE, ![n].shutdown = FALSE]
    /\ UNCHANGED <<server, host, strayed, meta, dirty, mapVars, members, events, faults>>

-----------------------------------------------------------------------------
Next ==
    \/ \E n \in Nodes :
          \/ MonitorNode(n) \/ InstanceMetadata(n) \/ ApplyMetadata(n)
          \/ DeleteNode(n) \/ Register(n) \/ RegisterForeign(n) \/ NotReady(n) \/ Ready(n)
    \/ UpdateLoadBalancer \/ mapNodes \/ desiredLbState
    \/ \E u \in Uuids :
          CreateServer(u) \/ StopServer(u) \/ StartServer(u) \/ DeleteServer(u) \/ RenameServer(u)

Spec == Init /\ [][Next]_vars

\* The controllers keep asking, and the service controller calls when nodes
\* have changed or the last call failed.
Fairness ==
    /\ \A n \in Nodes :
          WF_vars(MonitorNode(n)) /\ WF_vars(InstanceMetadata(n)) /\ WF_vars(ApplyMetadata(n))
    /\ WF_vars(UpdateLoadBalancer) /\ WF_vars(mapNodes) /\ WF_vars(desiredLbState)

FairSpec == Spec /\ Fairness

-----------------------------------------------------------------------------
(* Properties.                                                              *)

\* "Names are too weak of an association": a node is taken away only if the
\* server its provider ID names is gone, not when the API fails, the ID is
\* another provider's or missing, or the server has another name.
RemovedOnlyIfGone ==
    [][\A n \in Nodes :
          node[n].exists /\ ~node'[n].exists /\ events' = events =>
              /\ node[n].pid \in Uuids
              /\ server[node[n].pid].status = "deleted"]_vars

\* As long as the server of a node keeps the node's name, the provider ID the
\* node gets is that server's, however many servers have the same name.
IdRight ==
    \A n \in Nodes :
        node[n].exists /\ n \notin strayed => node[n].pid \in {None, Foreign, host[n]}

\* The metadata a node gets is that of the server its provider ID names,
\* although the ID comes from a lookup by name and servers are renamed.
MetadataOfId ==
    \A n \in Nodes : meta[n] # None => node[n].pid \in {None, meta[n]}

\* A server that some node has as its provider ID is never dropped from the
\* balancer, whatever fails while the nodes are mapped.
NotDropped ==
    [][\A u \in members \ members', n \in Nodes : copy[n] # u]_vars

\* A node that is not ready is removed once its server is gone, and tainted
\* once it is stopped.
Handled ==
    \A n \in Nodes :
        /\ []<>~(/\ node[n].exists /\ ~node[n].ready /\ node[n].pid \in Uuids
                 /\ server[node[n].pid].status = "deleted")
        /\ <>[](/\ node[n].exists /\ ~node[n].ready /\ node[n].pid \in Uuids
                /\ server[node[n].pid].status = "stopped")
              => <>[]node[n].shutdown

\* A node whose name is that of one server gets a provider ID.
Initialized ==
    \A n \in Nodes :
        []<>~(/\ node[n].exists /\ node[n].pid = None
              /\ \E u \in Uuids : {v \in Uuids : Live(v) /\ server[v].name = n} = {u})

\* Once every node has the provider ID of a server that exists, the members
\* are those servers, in spite of nodes that could not be mapped before.
MembersFollow ==
    <>[](\A n \in Nodes :
            node[n].exists =>
                node[n].pid \in Uuids /\ server[node[n].pid].status \in {"running", "stopped"})
    => <>[](members = {node[n].pid : n \in {m \in Nodes : node[m].exists}})
=============================================================================
