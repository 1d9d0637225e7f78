---------------------------- MODULE Nodes_proofs ----------------------------
(***************************************************************************)
(* Proofs about nodes and the servers behind them, for every number of     *)
(* nodes and servers, and however many servers share a name.               *)
(***************************************************************************)
EXTENDS Nodes, TLAPS

-----------------------------------------------------------------------------
(* Lookups.                                                                 *)

\* The three kinds of provider ID exclude each other.
LEMMA ProviderIDFacts == \A u \in Uuids : u # None /\ u # Foreign
BY ValuesAssumption

\* A lookup finds servers that exist: the one the provider ID names, or those
\* that have the node's name.
LEMMA LookupFacts ==
    ASSUME NEW n \in Nodes, NEW pid \in ProviderIDs, NEW fails \in BOOLEAN
    PROVE  LET l == findByNode(n, pid, fails) IN
           /\ l.elements \subseteq {u \in Uuids : Live(u)}
           /\ pid \in Uuids => l.elements \subseteq {pid}
           /\ pid = Foreign => l.error
           /\ pid = None /\ ~l.error =>
                 l.elements = {u \in Uuids : Live(u) /\ server[u].name = n}
           /\ pid \in Uuids /\ ~l.error => (l.elements = {} <=> ~Live(pid))
<1> USE ValuesAssumption
<1>1. CASE pid = None
  BY <1>1 DEF findByNode, findByName, New
<1>2. CASE pid = Foreign
  BY <1>2 DEF findByNode, New
<1>3. CASE pid \in Uuids
  BY <1>3, ProviderIDFacts DEF findByNode, getByProviderID, New
<1> QED BY <1>1, <1>2, <1>3 DEF ProviderIDs

-----------------------------------------------------------------------------
(* Types.                                                                   *)

LEMMA NoNodeType == NoNode \in NodeObjects
BY DEF NoNode, NodeObjects, ProviderIDs

\* Writing a field of a node keeps its type.
LEMMA NodeUpdates ==
    ASSUME NEW o \in NodeObjects
    PROVE  /\ \A p \in ProviderIDs : [o EXCEPT !.pid = p] \in NodeObjects
           /\ \A b \in BOOLEAN : [o EXCEPT !.ready = b] \in NodeObjects
           /\ \A b \in BOOLEAN : [o EXCEPT !.shutdown = b] \in NodeObjects
           /\ \A b, c \in BOOLEAN : [o EXCEPT !.ready = b, !.shutdown = c] \in NodeObjects
           /\ \A b, c \in BOOLEAN : [o EXCEPT !.exists = b, !.ready = c] \in NodeObjects
           /\ \A b, c \in BOOLEAN, p \in ProviderIDs :
                 [o EXCEPT !.exists = b, !.pid = p, !.ready = c] \in NodeObjects
<1> USE DEF NodeObjects
<1>1. \A p \in ProviderIDs : [o EXCEPT !.pid = p] \in NodeObjects
  OBVIOUS
<1>2. \A b \in BOOLEAN : [o EXCEPT !.ready = b] \in NodeObjects
  OBVIOUS
<1>3. \A b \in BOOLEAN : [o EXCEPT !.shutdown = b] \in NodeObjects
  OBVIOUS
<1>4. \A b, c \in BOOLEAN : [o EXCEPT !.ready = b, !.shutdown = c] \in NodeObjects
  OBVIOUS
<1>5. \A b, c \in BOOLEAN : [o EXCEPT !.exists = b, !.ready = c] \in NodeObjects
  OBVIOUS
<1>6. \A b, c \in BOOLEAN, p \in ProviderIDs :
         [o EXCEPT !.exists = b, !.pid = p, !.ready = c] \in NodeObjects
  OBVIOUS
<1> QED BY <1>1, <1>2, <1>3, <1>4, <1>5, <1>6

LEMMA ChargeType ==
    ASSUME TypeOK, NEW fails \in BOOLEAN, Charge(fails)
    PROVE  faults' \in 0..MaxFaults
BY BoundsAssumption DEF Charge, TypeOK

LEMMA EventType == ASSUME TypeOK, Event PROVE events' \in 0..MaxEvents
BY BoundsAssumption DEF Event, TypeOK

LEMMA RemoveType ==
    ASSUME TypeOK, NEW n \in Nodes, Remove(n)
    PROVE  /\ node' \in [Nodes -> NodeObjects]
           /\ host' \in [Nodes -> Uuids \cup {None}]
           /\ strayed' \subseteq Nodes
           /\ meta' \in [Nodes -> Uuids \cup {None}]
           /\ dirty' \in BOOLEAN
BY NoNodeType DEF Remove, TypeOK

LEMMA InitType == Init => TypeOK
<1> SUFFICES ASSUME Init PROVE TypeOK
  OBVIOUS
<1>1. server \in [Uuids -> Servers]
  BY BoundsAssumption DEF Init, Servers
<1>2. events \in 0..MaxEvents /\ faults \in 0..MaxFaults
  BY BoundsAssumption DEF Init
<1> QED BY <1>1, <1>2, NoNodeType DEF Init, TypeOK, ProviderIDs

LEMMA SetServerType ==
    ASSUME TypeOK, NEW u \in Uuids, NEW status \in {"running", "stopped", "deleted"},
           NEW name \in Nodes \cup {None}, SetServer(u, status, name)
    PROVE  TypeOK'
<1>1. server' \in [Uuids -> Servers]
  BY DEF SetServer, TypeOK, Servers
<1>2. events' \in 0..MaxEvents
  BY EventType DEF SetServer
<1> QED BY <1>1, <1>2 DEF SetServer, TypeOK, mapVars

\* What users do with a server is a change of its status or its name.
LEMMA ServerSteps ==
    ASSUME TypeOK, NEW u \in Uuids,
           \/ CreateServer(u) \/ StopServer(u) \/ StartServer(u) \/ DeleteServer(u)
           \/ RenameServer(u)
    PROVE  \E status \in {"running", "stopped", "deleted"}, name \in Nodes \cup {None} :
              SetServer(u, status, name)
<1>1. server[u].name \in Nodes \cup {None}
  BY DEF TypeOK, Servers
<1>2. RenameServer(u) => server[u].status \in {"running", "stopped"}
  BY DEF RenameServer, Live
<1> QED
  BY <1>1, <1>2 DEF CreateServer, StopServer, StartServer, DeleteServer, RenameServer

LEMMA NextType == TypeOK /\ [Next]_vars => TypeOK'
<1> SUFFICES ASSUME TypeOK, [Next]_vars PROVE TypeOK'
  OBVIOUS
<1>1. ASSUME NEW n \in Nodes, MonitorNode(n) PROVE TypeOK'
  <2>1. PICK fails \in BOOLEAN :
          /\ Charge(fails)
          /\ \/ Remove(n)
             \/ /\ node' = [node EXCEPT ![n].shutdown =
                              @ \/ (/\ One(InstanceExists(n, fails))
                                    /\ InstanceShutdown(n, fails))]
                /\ UNCHANGED <<host, strayed, meta, dirty>>
    BY <1>1 DEF MonitorNode
  <2>2. faults' \in 0..MaxFaults
    BY <2>1, ChargeType
  <2>3. CASE Remove(n)
    BY <1>1, <2>2, <2>3, RemoveType DEF MonitorNode, TypeOK, mapVars
  <2>4. CASE UNCHANGED <<host, strayed, meta, dirty>> /\ ~Remove(n)
    <3>1. node' \in [Nodes -> NodeObjects]
      <4> DEFINE b == node[n].shutdown
                      \/ (One(InstanceExists(n, fails)) /\ InstanceShutdown(n, fails))
      <4>1. b \in BOOLEAN
        OBVIOUS
      <4>2. node' = [node EXCEPT ![n] = [node[n] EXCEPT !.shutdown = b]]
        BY <2>1, <2>4
      <4> HIDE DEF b
      <4> QED BY <4>1, <4>2, NodeUpdates DEF TypeOK
    <3> QED BY <1>1, <2>2, <2>4, <3>1 DEF MonitorNode, TypeOK, mapVars
  <2> QED BY <2>1, <2>3, <2>4
<1>2. ASSUME NEW n \in Nodes, InstanceMetadata(n) PROVE TypeOK'
  <2>1. PICK fails \in BOOLEAN :
          /\ Charge(fails)
          /\ \/ \E u \in findByNode(n, node[n].pid, fails).elements :
                   meta' = [meta EXCEPT ![n] = u]
             \/ UNCHANGED meta
    BY <1>2 DEF InstanceMetadata
  <2>2. node[n].pid \in ProviderIDs
    BY DEF TypeOK, NodeObjects
  <2>3. findByNode(n, node[n].pid, fails).elements \subseteq Uuids
    BY <2>2, LookupFacts
  <2>4. meta' \in [Nodes -> Uuids \cup {None}]
    BY <2>1, <2>3 DEF TypeOK
  <2>5. faults' \in 0..MaxFaults
    BY <2>1, ChargeType
  <2> QED BY <1>2, <2>4, <2>5 DEF InstanceMetadata, TypeOK, mapVars
<1>3. ASSUME NEW n \in Nodes, ApplyMetadata(n) PROVE TypeOK'
  <2>1. meta[n] \in ProviderIDs /\ node[n].pid \in ProviderIDs
    BY <1>3 DEF ApplyMetadata, TypeOK, ProviderIDs, NodeObjects
  <2>2. node' \in [Nodes -> NodeObjects]
    BY <1>3, <2>1, NodeUpdates DEF ApplyMetadata, TypeOK
  <2>3. dirty' \in BOOLEAN
    BY <1>3 DEF ApplyMetadata
  <2> QED BY <1>3, <2>2, <2>3 DEF ApplyMetadata, TypeOK, mapVars
<1>4. ASSUME NEW n \in Nodes, DeleteNode(n) PROVE TypeOK'
  BY <1>4, RemoveType, EventType DEF DeleteNode, TypeOK, mapVars
<1>5. ASSUME NEW n \in Nodes, Register(n) PROVE TypeOK'
  <2>1. PICK u \in Uuids :
          /\ host' = [host EXCEPT ![n] = u]
          /\ \/ node' = [node EXCEPT ![n] = [node[n] EXCEPT !.ready = TRUE]]
                /\ UNCHANGED <<strayed, dirty>>
             \/ /\ node' = [node EXCEPT ![n] = [NoNode EXCEPT !.exists = TRUE, !.ready = TRUE]]
                /\ strayed' = IF server[u].name = n THEN strayed ELSE strayed \cup {n}
                /\ dirty' = TRUE
    BY <1>5 DEF Register
  <2>2. node' \in [Nodes -> NodeObjects]
    <3>1. [NoNode EXCEPT !.exists = TRUE, !.ready = TRUE] \in NodeObjects
      BY NoNodeType, NodeUpdates
    <3>2. [node[n] EXCEPT !.ready = TRUE] \in NodeObjects
      BY NodeUpdates DEF TypeOK
    <3> QED BY <2>1, <3>1, <3>2 DEF TypeOK
  <2> QED BY <1>5, <2>1, <2>2 DEF Register, TypeOK, mapVars
<1>6. ASSUME NEW n \in Nodes, RegisterForeign(n) PROVE TypeOK'
  <2>1. [NoNode EXCEPT !.exists = TRUE, !.pid = Foreign, !.ready = TRUE] \in NodeObjects
    BY NoNodeType, NodeUpdates DEF ProviderIDs
  <2> QED BY <1>6, <2>1, EventType DEF RegisterForeign, TypeOK, mapVars
<1>7. ASSUME NEW n \in Nodes, NotReady(n) PROVE TypeOK'
  BY <1>7, NodeUpdates DEF NotReady, TypeOK, mapVars
<1>8. ASSUME NEW n \in Nodes, Ready(n) PROVE TypeOK'
  <2> DEFINE mid == [node EXCEPT ![n].ready = TRUE]
  <2>1. mid \in [Nodes -> NodeObjects]
    BY NodeUpdates DEF TypeOK
  <2>2. node' = [mid EXCEPT ![n].shutdown = FALSE]
    BY <1>8 DEF Ready
  <2> HIDE DEF mid
  <2>3. node' \in [Nodes -> NodeObjects]
    BY <2>1, <2>2, NodeUpdates
  <2> QED BY <1>8, <2>3 DEF Ready, TypeOK, mapVars
<1>9. CASE UpdateLoadBalancer
  <2>1. copy' \in [Nodes -> ProviderIDs]
    BY <1>9 DEF UpdateLoadBalancer, TypeOK, NodeObjects
  <2> QED BY <1>9, <2>1 DEF UpdateLoadBalancer, TypeOK, nodeVars
<1>10. CASE mapNodes
  <2>1. PICK n \in todo, fails \in BOOLEAN :
          /\ Charge(fails)
          /\ \/ MapFails
             \/ /\ found' = found \cup findByNode(n, copy[n], fails).elements
                /\ todo' = todo \ {n}
                /\ UNCHANGED <<mapping, dirty, copy>>
    BY <1>10 DEF mapNodes
  <2>2. findByNode(n, copy[n], fails).elements \subseteq Uuids
    BY LookupFacts DEF TypeOK
  <2>3. faults' \in 0..MaxFaults
    BY <2>1, ChargeType
  <2> QED BY <1>10, <2>1, <2>2, <2>3 DEF mapNodes, MapFails, TypeOK, nodeVars, ProviderIDs
<1>11. CASE desiredLbState
  BY <1>11 DEF desiredLbState, TypeOK, nodeVars, ProviderIDs
<1>12. ASSUME NEW u \in Uuids,
              \/ CreateServer(u) \/ StopServer(u) \/ StartServer(u) \/ DeleteServer(u)
              \/ RenameServer(u)
       PROVE  TypeOK'
  BY <1>12, ServerSteps, SetServerType
<1>13. CASE UNCHANGED vars
  BY <1>13 DEF vars, TypeOK
<1> QED
  BY <1>1, <1>2, <1>3, <1>4, <1>5, <1>6, <1>7, <1>8, <1>9, <1>10, <1>11, <1>12, <1>13
     DEF Next

\* Every variable keeps its type: among others the members of the pools are
\* made from servers, and only from them.
THEOREM TypeCorrect == Spec => []TypeOK
BY InitType, NextType, PTL DEF Spec

-----------------------------------------------------------------------------
(* Nodes and provider IDs.                                                  *)

\* What ties a node to its server: provider IDs and metadata are those of
\* servers that were created, and as long as the server keeps the node's name,
\* they are that server's.
Tied(n) ==
    /\ ~node[n].exists => node[n].pid = None /\ host[n] = None /\ meta[n] = None
    /\ node[n].exists => (host[n] = None <=> node[n].pid = Foreign)
    /\ node[n].pid = Foreign => meta[n] = None
    /\ node[n].pid \in Uuids => server[node[n].pid].status # "unused"
    /\ meta[n] # None =>
          server[meta[n]].status # "unused" /\ node[n].pid \in {None, meta[n]}
    /\ node[n].exists /\ host[n] # None /\ n \notin strayed =>
          /\ Live(host[n]) /\ server[host[n]].name = n
          /\ node[n].pid \in {None, host[n]}
          /\ meta[n] \in {None, host[n]}

NodeInv == \A n \in Nodes : Tied(n)

LEMMA NodeInit == Init => NodeInv
BY ValuesAssumption DEF Init, NodeInv, Tied, NoNode

\* A step that leaves alone all that Tied speaks of.
LEMMA TiedSame ==
    ASSUME TypeOK, NEW n \in Nodes, Tied(n), UNCHANGED server,
           node'[n].exists = node[n].exists, node'[n].pid = node[n].pid,
           host'[n] = host[n], meta'[n] = meta[n], n \in strayed' <=> n \in strayed
    PROVE  Tied(n)'
BY DEF Tied, Live

\* A node that is removed is tied to nothing.
LEMMA TiedRemoved ==
    ASSUME TypeOK, NodeInv, NEW n \in Nodes, Remove(n), UNCHANGED server
    PROVE  NodeInv'
<1> SUFFICES ASSUME NEW m \in Nodes PROVE Tied(m)'
  BY DEF NodeInv
<1>1. CASE m = n
  <2>1. node'[m] = NoNode /\ host'[m] = None /\ meta'[m] = None
    BY <1>1 DEF Remove, TypeOK
  <2> QED BY <2>1, ValuesAssumption DEF Tied, NoNode
<1>2. CASE m # n
  <2>1. /\ node'[m] = node[m] /\ host'[m] = host[m] /\ meta'[m] = meta[m]
        /\ m \in strayed' <=> m \in strayed
    BY <1>2 DEF Remove, TypeOK
  <2> QED BY <2>1, TiedSame DEF NodeInv
<1> QED BY <1>1, <1>2

\* Servers change, but are never unused again; a node strays if its server no
\* longer has its name.
LEMMA TiedServer ==
    ASSUME TypeOK, NodeInv, NEW u \in Uuids, NEW status \in {"running", "stopped", "deleted"},
           NEW name \in Nodes \cup {None}, SetServer(u, status, name)
    PROVE  NodeInv'
<1> SUFFICES ASSUME NEW n \in Nodes PROVE Tied(n)'
  BY DEF NodeInv
<1>1. /\ UNCHANGED <<node, host, meta>>
      /\ server' \in [Uuids -> Servers]
      /\ server'[u] = [status |-> status, name |-> name]
      /\ \A v \in Uuids \ {u} : server'[v] = server[v]
  BY SetServerType DEF SetServer, TypeOK
<1>2. \A v \in Uuids : server[v].status # "unused" => server'[v].status # "unused"
  BY <1>1
<1>3. n \notin strayed' => n \notin strayed /\ (host[n] = u => status # "deleted" /\ name = n)
  BY DEF SetServer
<1>4. Tied(n) /\ host[n] \in Uuids \cup {None} /\ meta[n] \in Uuids \cup {None}
  BY DEF NodeInv, TypeOK
<1>5. ASSUME node[n].exists, host[n] # None, n \notin strayed'
      PROVE  Live(host[n])' /\ server'[host[n]].name = n
  BY <1>1, <1>3, <1>4, <1>5 DEF Tied, Live
<1> QED BY <1>1, <1>2, <1>3, <1>4, <1>5 DEF Tied

LEMMA NodeInductive == TypeOK /\ NodeInv /\ [Next]_vars => NodeInv'
<1> SUFFICES ASSUME TypeOK, NodeInv, [Next]_vars PROVE NodeInv'
  OBVIOUS
<1>same. ASSUME UNCHANGED <<server, host, strayed, meta>>,
                \A n \in Nodes : node'[n].exists = node[n].exists /\ node'[n].pid = node[n].pid
         PROVE  NodeInv'
  BY <1>same, TiedSame DEF NodeInv
<1>1. ASSUME NEW n \in Nodes, MonitorNode(n) PROVE NodeInv'
  <2>1. CASE Remove(n)
    BY <1>1, <2>1, TiedRemoved DEF MonitorNode
  <2>2. CASE ~Remove(n)
    <3>1. UNCHANGED <<server, host, strayed, meta>>
          /\ \E b \in BOOLEAN : node' = [node EXCEPT ![n].shutdown = b]
      BY <1>1, <2>2 DEF MonitorNode
    <3> QED BY <3>1, <1>same DEF TypeOK, NodeObjects
  <2> QED BY <2>1, <2>2
<1>2. ASSUME NEW n \in Nodes, InstanceMetadata(n) PROVE NodeInv'
  <2> SUFFICES ASSUME NEW m \in Nodes PROVE Tied(m)'
    BY DEF NodeInv
  <2>1. PICK fails \in BOOLEAN :
          LET l == findByNode(n, node[n].pid, fails) IN
          \/ One(l) /\ \E u \in l.elements : meta' = [meta EXCEPT ![n] = u]
          \/ UNCHANGED meta
    BY <1>2 DEF InstanceMetadata
  <2>2. node[n].exists /\ UNCHANGED <<server, node, host, strayed>>
    BY <1>2 DEF InstanceMetadata
  <2>3. CASE UNCHANGED meta \/ m # n
    BY <2>1, <2>2, <2>3, TiedSame DEF NodeInv, TypeOK
  <2>4. CASE m = n /\ ~UNCHANGED meta
    <3> DEFINE l == findByNode(n, node[n].pid, fails)
    <3>1. PICK u \in l.elements : meta' = [meta EXCEPT ![n] = u] /\ One(l)
      BY <2>1, <2>4
    <3>2. node[n].pid \in ProviderIDs
      BY DEF TypeOK, NodeObjects
    <3>3. /\ u \in Uuids /\ Live(u) /\ ~l.error /\ l.elements = {u}
          /\ meta'[n] = u
      <4>1. u \in Uuids /\ Live(u)
        BY <3>2, LookupFacts
      <4>2. ~l.error /\ l.elements = {u}
        BY <3>1 DEF One
      <4>3. meta'[n] = u
        BY <3>1 DEF TypeOK
      <4> QED BY <4>1, <4>2, <4>3
    <3>4. node[n].pid \in {None, u}
      BY <3>2, <3>3, LookupFacts DEF ProviderIDs
    <3>5. ASSUME host[n] # None, n \notin strayed PROVE u = host[n]
      <4>1. host[n] \in Uuids /\ Live(host[n]) /\ server[host[n]].name = n
            /\ node[n].pid \in {None, host[n]}
        BY <2>2, <3>5 DEF NodeInv, Tied, TypeOK
      <4>2. CASE node[n].pid = None
        BY <3>2, <3>3, <4>1, <4>2, LookupFacts
      <4>3. CASE node[n].pid = u
        BY <3>3, <4>1, <4>3, ProviderIDFacts
      <4> QED BY <3>4, <4>2, <4>3
    <3>6. node[n].pid # Foreign
      BY <3>3, <3>4, ProviderIDFacts, ValuesAssumption
    <3>7. Tied(n)
      BY DEF NodeInv
    <3>8. server[u].status # "unused"
      BY <3>3 DEF Live
    <3> QED BY <2>2, <2>4, <3>3, <3>4, <3>5, <3>6, <3>7, <3>8 DEF Tied, Live
  <2> QED BY <2>3, <2>4
<1>3. ASSUME NEW n \in Nodes, ApplyMetadata(n) PROVE NodeInv'
  <2> SUFFICES ASSUME NEW m \in Nodes PROVE Tied(m)'
    BY DEF NodeInv
  <2>1. UNCHANGED <<server, host, strayed>> /\ meta[n] # None
    BY <1>3 DEF ApplyMetadata
  <2>2. CASE m # n
    BY <1>3, <2>2, TiedSame DEF ApplyMetadata, NodeInv, TypeOK
  <2>3. CASE m = n
    <3>1. /\ node'[n].exists = node[n].exists /\ node'[n].pid = meta[n] /\ meta'[n] = None
          /\ node[n].exists /\ node[n].pid \in {None, meta[n]} /\ meta[n] \in Uuids
      BY <1>3, <2>1 DEF ApplyMetadata, TypeOK, NodeObjects, NodeInv, Tied
    <3>2. meta[n] # Foreign
      BY <3>1, ProviderIDFacts
    <3>3. Tied(n) /\ node[n].pid # Foreign
      BY <3>1, <3>2, ValuesAssumption DEF NodeInv
    <3> QED BY <2>1, <2>3, <3>1, <3>2, <3>3 DEF Tied, Live
  <2> QED BY <2>2, <2>3
<1>4. ASSUME NEW n \in Nodes, DeleteNode(n) PROVE NodeInv'
  BY <1>4, TiedRemoved DEF DeleteNode
<1>5. ASSUME NEW n \in Nodes, Register(n) PROVE NodeInv'
  <2> SUFFICES ASSUME NEW m \in Nodes PROVE Tied(m)'
    BY DEF NodeInv
  <2>1. PICK u \in Uuids :
          /\ server[u].status = "running"
          /\ host' = [host EXCEPT ![n] = u]
          /\ IF node[n].exists
             THEN /\ host[n] # None
                  /\ server[host[n]].status = "deleted"
                  /\ node' = [node EXCEPT ![n].ready = TRUE]
                  /\ UNCHANGED strayed
             ELSE /\ node' = [node EXCEPT ![n] = [NoNode EXCEPT !.exists = TRUE, !.ready = TRUE]]
                  /\ strayed' = IF server[u].name = n THEN strayed ELSE strayed \cup {n}
    BY <1>5 DEF Register
  <2>2. UNCHANGED <<server, meta>>
    BY <1>5 DEF Register
  <2>3. CASE m # n
    <3>1. node'[m] = node[m] /\ host'[m] = host[m] /\ (m \in strayed' <=> m \in strayed)
      BY <2>1, <2>3 DEF TypeOK
    <3> QED BY <2>2, <3>1, TiedSame DEF NodeInv
  <2>4. CASE m = n /\ node[n].exists
    <3>1. /\ node'[n].exists /\ node'[n].pid = node[n].pid /\ host'[n] = u
          /\ UNCHANGED strayed
      BY <2>1, <2>4 DEF TypeOK, NodeObjects
    <3>2. n \in strayed
      BY <2>1, <2>4 DEF NodeInv, Tied, Live
    <3>3. u # None
      BY ProviderIDFacts
    <3> QED BY <2>1, <2>2, <2>4, <3>1, <3>2, <3>3 DEF NodeInv, Tied
  <2>5. CASE m = n /\ ~node[n].exists
    <3>1. node'[n].exists /\ node'[n].pid = None /\ host'[n] = u /\ meta'[n] = None
      BY <2>1, <2>2, <2>5 DEF NoNode, TypeOK, NodeInv, Tied
    <3>2. n \notin strayed' => server[u].name = n
      BY <2>1, <2>5
    <3>3. u # None
      BY ProviderIDFacts
    <3> QED BY <2>1, <2>2, <2>5, <3>1, <3>2, <3>3, ValuesAssumption DEF Tied, Live
  <2> QED BY <2>3, <2>4, <2>5
<1>6. ASSUME NEW n \in Nodes, RegisterForeign(n) PROVE NodeInv'
  <2> SUFFICES ASSUME NEW m \in Nodes PROVE Tied(m)'
    BY DEF NodeInv
  <2>1. CASE m # n
    BY <1>6, <2>1, TiedSame DEF RegisterForeign, NodeInv, TypeOK
  <2>2. CASE m = n
    <3>1. /\ node'[n].exists /\ node'[n].pid = Foreign /\ host'[n] = None /\ meta'[n] = None
          /\ UNCHANGED server
      BY <1>6 DEF RegisterForeign, NoNode, TypeOK, NodeInv, Tied
    <3> QED BY <2>2, <3>1, ValuesAssumption DEF Tied
  <2> QED BY <2>1, <2>2
<1>7. ASSUME NEW n \in Nodes, NotReady(n) \/ Ready(n) PROVE NodeInv'
  BY <1>7, <1>same DEF NotReady, Ready, TypeOK, NodeObjects
<1>8. CASE UpdateLoadBalancer \/ mapNodes \/ desiredLbState
  BY <1>8, <1>same DEF UpdateLoadBalancer, mapNodes, desiredLbState, nodeVars
<1>9. ASSUME NEW u \in Uuids,
             \/ CreateServer(u) \/ StopServer(u) \/ StartServer(u) \/ DeleteServer(u)
             \/ RenameServer(u)
      PROVE  NodeInv'
  BY <1>9, ServerSteps, TiedServer
<1>10. CASE UNCHANGED vars
  BY <1>10, <1>same DEF vars
<1> QED
  BY <1>1, <1>2, <1>3, <1>4, <1>5, <1>6, <1>7, <1>8, <1>9, <1>10 DEF Next

LEMMA NodeInvariance == Spec => [](TypeOK /\ NodeInv)
BY TypeCorrect, NodeInit, NodeInductive, PTL DEF Spec

\* As long as a node's server keeps the node's name, the node's provider ID is
\* that server's: InstanceMetadata takes it from a lookup by name only if the
\* name is one server's.
THEOREM IdRightHolds == Spec => []IdRight
<1>1. TypeOK /\ NodeInv => IdRight
  BY DEF NodeInv, Tied, IdRight
<1> QED BY <1>1, NodeInvariance, PTL

\* The metadata applied to a node with a provider ID are those of the server
\* it names, whatever servers were renamed since InstanceMetadata was called.
THEOREM MetadataOfIdHolds == Spec => []MetadataOfId
<1>1. NodeInv => MetadataOfId
  BY DEF NodeInv, Tied, MetadataOfId
<1> QED BY <1>1, NodeInvariance, PTL

\* The answer of InstanceExists for which a node is removed.
LEMMA ExistsNot ==
    ASSUME TypeOK, NodeInv, NEW n \in Nodes, NEW fails \in BOOLEAN,
           AtMostOneIsNil(InstanceExists(n, fails))
    PROVE  node[n].pid \in Uuids /\ server[node[n].pid].status = "deleted"
<1> DEFINE pid == node[n].pid
<1>1. pid \in ProviderIDs
  BY DEF TypeOK, NodeObjects
<1>2. pid # None /\ ~findByNode(n, pid, fails).error /\ findByNode(n, pid, fails).elements = {}
  BY DEF AtMostOneIsNil, InstanceExists, New
<1>3. pid \in Uuids
  BY <1>1, <1>2, LookupFacts DEF ProviderIDs
<1>4. ~Live(pid)
  BY <1>1, <1>2, <1>3, LookupFacts
<1>5. server[pid].status # "unused" /\ server[pid] \in Servers
  BY <1>3 DEF NodeInv, Tied, TypeOK
<1> QED BY <1>3, <1>4, <1>5 DEF Live, Servers

\* Only the node lifecycle controller removes a node without a user's doing.
LEMMA RemovalStep ==
    ASSUME TypeOK, [Next]_vars, NEW n \in Nodes,
           node[n].exists, ~node'[n].exists, events' = events
    PROVE  MonitorNode(n) /\ Remove(n)
<1>event. ~Event
  BY BoundsAssumption DEF Event, TypeOK
<1>1. ASSUME NEW m \in Nodes, MonitorNode(m) PROVE m = n /\ Remove(n)
  <2>1. Remove(m) \/ \E b \in BOOLEAN : node' = [node EXCEPT ![m].shutdown = b]
    BY <1>1 DEF MonitorNode
  <2>2. ~\E b \in BOOLEAN : node' = [node EXCEPT ![m].shutdown = b]
    BY DEF TypeOK, NodeObjects
  <2> QED BY <2>1, <2>2 DEF Remove, TypeOK
<1>2. ~UNCHANGED node
  OBVIOUS
<1>3. \A m \in Nodes : ~InstanceMetadata(m)
  BY <1>2 DEF InstanceMetadata
<1>4. \A m \in Nodes : ~ApplyMetadata(m) /\ ~NotReady(m) /\ ~Ready(m)
  BY DEF ApplyMetadata, NotReady, Ready, TypeOK, NodeObjects
<1>5. \A m \in Nodes : ~DeleteNode(m) /\ ~RegisterForeign(m)
  BY <1>event DEF DeleteNode, RegisterForeign
<1>6. ASSUME NEW m \in Nodes, Register(m) PROVE FALSE
  <2>1. \/ node' = [node EXCEPT ![m].ready = TRUE]
        \/ node' = [node EXCEPT ![m] = [NoNode EXCEPT !.exists = TRUE, !.ready = TRUE]]
    BY <1>6 DEF Register
  <2> QED BY <2>1 DEF NoNode, TypeOK, NodeObjects
<1>7. ~UpdateLoadBalancer /\ ~mapNodes /\ ~desiredLbState /\ ~UNCHANGED vars
  BY <1>2 DEF UpdateLoadBalancer, mapNodes, desiredLbState, nodeVars, vars
<1>8. ASSUME NEW u \in Uuids,
             \/ CreateServer(u) \/ StopServer(u) \/ StartServer(u) \/ DeleteServer(u)
             \/ RenameServer(u)
      PROVE  FALSE
  BY <1>2, <1>8, ServerSteps DEF SetServer
<1> QED BY <1>1, <1>3, <1>4, <1>5, <1>6, <1>7, <1>8 DEF Next

\* The controllers remove a node only if the server its provider ID names is
\* deleted: never for an API error, a foreign or a missing provider ID.
THEOREM RemovedOnlyIfGoneHolds == Spec => RemovedOnlyIfGone
<1> DEFINE Removal ==
      \A n \in Nodes :
          node[n].exists /\ ~node'[n].exists /\ events' = events =>
              /\ node[n].pid \in Uuids
              /\ server[node[n].pid].status = "deleted"
<1>1. TypeOK /\ NodeInv /\ [Next]_vars => [Removal]_vars
  <2> SUFFICES ASSUME TypeOK, NodeInv, [Next]_vars, NEW n \in Nodes,
                      node[n].exists, ~node'[n].exists, events' = events
               PROVE  node[n].pid \in Uuids /\ server[node[n].pid].status = "deleted"
    OBVIOUS
  <2>1. MonitorNode(n) /\ Remove(n)
    BY RemovalStep
  <2>2. ASSUME NEW b \in BOOLEAN, node' = [node EXCEPT ![n].shutdown = b] PROVE FALSE
    BY <2>2 DEF TypeOK, NodeObjects
  <2>3. PICK fails \in BOOLEAN : AtMostOneIsNil(InstanceExists(n, fails))
    BY <2>1, <2>2 DEF MonitorNode
  <2> QED BY <2>3, ExistsNot
<1> QED BY <1>1, NodeInvariance, PTL DEF Spec, RemovedOnlyIfGone

-----------------------------------------------------------------------------
(* Members.                                                                 *)

\* The server a node had when the call began is found or still looked for.
MapInv == \A n \in Nodes : copy[n] \in Uuids => n \in todo \/ copy[n] \in found

\* A turn of the loop either ends the call or finds the server of a node.
LEMMA MapNode ==
    ASSUME TypeOK, MapInv, mapNodes PROVE MapInv'
<1>1. PICK n \in todo, fails \in BOOLEAN :
        LET l == findByNode(n, copy[n], fails) IN
        \/ MapFails
        \/ /\ One(l)
           /\ found' = found \cup l.elements
           /\ todo' = todo \ {n}
           /\ UNCHANGED copy
  BY DEF mapNodes
<1>2. CASE MapFails
  BY <1>2, ValuesAssumption DEF MapFails, MapInv
<1>3. CASE ~MapFails
  <2> DEFINE l == findByNode(n, copy[n], fails)
  <2>1. n \in Nodes /\ copy[n] \in ProviderIDs
    BY DEF TypeOK
  <2>2. copy[n] \in Uuids => copy[n] \in l.elements
    BY <1>1, <1>3, <2>1, LookupFacts DEF One
  <2> QED BY <1>1, <1>3, <2>2 DEF MapInv
<1> QED BY <1>2, <1>3

LEMMA MapInductive == TypeOK /\ NodeInv /\ MapInv /\ [Next]_vars => MapInv'
<1> SUFFICES ASSUME TypeOK, NodeInv, MapInv, [Next]_vars PROVE MapInv'
  OBVIOUS
<1>1. CASE UpdateLoadBalancer
  <2>1. \A n \in Nodes : node[n].pid \in Uuids => node[n].exists
    BY ValuesAssumption DEF NodeInv, Tied
  <2> QED BY <1>1, <2>1 DEF UpdateLoadBalancer, MapInv
<1>2. CASE mapNodes
  BY <1>2, MapNode
<1>3. CASE desiredLbState
  BY <1>3, ValuesAssumption DEF desiredLbState, MapInv
<1>4. CASE UNCHANGED mapVars
  BY <1>4 DEF mapVars, MapInv
<1>5. ASSUME NEW u \in Uuids,
             \/ CreateServer(u) \/ StopServer(u) \/ StartServer(u) \/ DeleteServer(u)
             \/ RenameServer(u)
      PROVE  UNCHANGED mapVars
  BY <1>5, ServerSteps DEF SetServer
<1> QED
  BY <1>1, <1>2, <1>3, <1>4, <1>5
     DEF Next, MonitorNode, InstanceMetadata, ApplyMetadata, DeleteNode, Register,
         RegisterForeign, NotReady, Ready, vars, mapVars

LEMMA MapInit == Init => MapInv
BY ValuesAssumption DEF Init, MapInv

\* Members change in one place.
LEMMA MembersStep == TypeOK /\ [Next]_vars /\ ~desiredLbState => UNCHANGED members
<1> SUFFICES ASSUME TypeOK, [Next]_vars, ~desiredLbState PROVE UNCHANGED members
  OBVIOUS
<1>1. ASSUME NEW u \in Uuids,
             \/ CreateServer(u) \/ StopServer(u) \/ StartServer(u) \/ DeleteServer(u)
             \/ RenameServer(u)
      PROVE  UNCHANGED members
  BY <1>1, ServerSteps DEF SetServer
<1> QED
  BY <1>1 DEF Next, MonitorNode, InstanceMetadata, ApplyMetadata, DeleteNode, Register,
         RegisterForeign, NotReady, Ready, UpdateLoadBalancer, mapNodes, vars

\* No server with a node loses its traffic because the nodes could not be
\* mapped: mapNodes finds the server of every node or returns an error.
THEOREM NotDroppedHolds == Spec => NotDropped
<1> DEFINE Kept == \A u \in members \ members', n \in Nodes : copy[n] # u
<1>1. ASSUME TypeOK, MapInv, [Next]_vars PROVE Kept
  <2>1. CASE desiredLbState
    BY <1>1, <2>1 DEF desiredLbState, MapInv, TypeOK
  <2>2. CASE ~desiredLbState
    BY <1>1, <2>2, MembersStep
  <2> QED BY <2>1, <2>2
<1>2. TypeOK /\ MapInv /\ [Next]_vars => [Kept]_vars
  BY <1>1
<1>3. Spec => [](TypeOK /\ MapInv)
  BY NodeInvariance, MapInit, MapInductive, PTL DEF Spec
<1> QED BY <1>2, <1>3, PTL DEF Spec, NotDropped
=============================================================================
