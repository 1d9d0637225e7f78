---------------------------- MODULE MCReconcile ----------------------------
(* Instances of Reconcile for TLC: two nodes and the configurations a user   *)
(* writes in each run.                                                       *)
EXTENDS Reconcile

MCNodes == {1, 2}

MCZoneOf == [n \in MCNodes |-> "lpg1"]

\* Each server has a public address and one in a private subnet; the second
\* also has one in another subnet, and one in a network without subnets.
Address(type, n, subnet) == [type |-> type, address |-> <<n, subnet>>, subnet |-> subnet]
MCInterfaces ==
    [n \in MCNodes |->
        {Address("public", n, "public"), Address("private", n, "a")}
        \cup IF n = 2 THEN {Address("private", n, "b"), Address("private", n, None)} ELSE {}]

Port(name, protocol, port, nodePort) ==
    [name |-> name, protocol |-> protocol, port |-> port, nodePort |-> nodePort]

http  == Port("http", "TCP", 80, 30080)
https == Port("https", "TCP", 443, 30443)
dns   == Port("dns", "UDP", 53, 30053)

Base ==
    [name |-> "lb", flavor |-> "lb-standard", vip |-> None, valid |-> TRUE,
     algorithm |-> "round_robin", poolProtocol |-> "tcp", listenerProtocol |-> "tcp",
     settings |-> [f \in ListenerSettings |-> "default"], monitorType |-> "tcp",
     numbers |-> [f \in MonitorNumbers |-> "default"], http |-> None, local |-> FALSE,
     healthPort |-> 0, subnets |-> {}, selector |-> Nodes, ips |-> {},
     ports |-> <<http, https>>]

\* No option set but those given.
Http(options) == [o \in DOMAIN DefaultHTTP |-> IF o \in DOMAIN options THEN options[o] ELSE ""]

\* Ports come, go and change; pools are rebuilt; two ports change places;
\* two changes cannot be made.
Swapped == [Base EXCEPT !.ports = <<[http EXCEPT !.port = 443], [https EXCEPT !.port = 80]>>]
PortConfigs ==
    {Base, Swapped,
     [Base EXCEPT !.ports = <<http, dns>>],
     [Base EXCEPT !.algorithm = "source_ip", !.vip = [address |-> None, subnet |-> "public"]],
     [Base EXCEPT !.vip = [address |-> "given", subnet |-> "public"], !.name = "renamed"],
     [Base EXCEPT !.ports = <<[http EXCEPT !.protocol = "SCTP"]>>]}

\* One port; its number, settings, monitors, members and Floating IPs change,
\* and one change cannot be made.
Single == [Base EXCEPT !.ports = <<http>>]
Web == [Single EXCEPT !.monitorType = "http", !.http = Http([path |-> "/health"])]
SettingConfigs ==
    {Single, Web,
     [Single EXCEPT !.settings["cidrs"] = "other", !.ports = <<[http EXCEPT !.port = 8080]>>],
     [Web EXCEPT !.http = Http([method |-> "HEAD", version |-> "1.0", host |-> "a.ch"]),
                 !.ips = {"ip"}],
     [Single EXCEPT !.local = TRUE, !.healthPort = 31000, !.numbers["delay-s"] = "other"],
     [Single EXCEPT !.subnets = {"a"}, !.poolProtocol = "proxy", !.name = "renamed"],
     [Single EXCEPT !.selector = {1}, !.flavor = "lb-large"]}

SwapConfigs == {Base, Swapped}

\* The nodes are in two zones.
TwoZones == [n \in MCNodes |-> IF n = 1 THEN "lpg1" ELSE "rma1"]
=============================================================================
