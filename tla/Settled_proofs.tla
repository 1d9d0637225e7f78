--------------------------- MODULE Settled_proofs ---------------------------
(***************************************************************************)
(* Proofs about what the reconcile loop gets to: when all calls have        *)
(* returned, the balancer is what the service asks for, and there is        *)
(* nothing left to do.                                                      *)
(***************************************************************************)
EXTENDS Reconcile_proofs

-----------------------------------------------------------------------------
(* What is assumed of the configurations.                                   *)

MonitorOf(c) == healthMonitorForPort([config |-> c])

\* A configuration has a value for each of the settings.
SettingsGiven ==
    \A c \in Configs : /\ c.settings = [f \in ListenerSettings |-> c.settings[f]]
                       /\ c.numbers = [f \in MonitorNumbers |-> c.numbers[f]]

\* Users do not take the HTTP options away, or add them, without changing the
\* type or the HTTP version: the code would not notice.
HttpKept ==
    \A c, d \in Configs : monitorKey(MonitorOf(c)) = monitorKey(MonitorOf(d)) =>
        (MonitorOf(c).http = None <=> MonitorOf(d).http = None)

-----------------------------------------------------------------------------
(* The invariant.                                                           *)

IsHttp(h) == h = [o \in DOMAIN DefaultHTTP |-> h[o]]

\* The HTTP options of a monitor made for configuration c.
HttpFrom(a, c) ==
    /\ monitorKey(a) = monitorKey(MonitorOf(c))
    /\ MonitorOf(c).http = None => a.http = IF a.type = "http" THEN DefaultHTTP ELSE None
    /\ MonitorOf(c).http # None => IsHttp(a.http)

\* What the cloud holds has the fields it was created with.
FieldsInv ==
    /\ \A p \in cloud.pool : DOMAIN p = {"name", "algorithm", "protocol", "id", "pool"}
    /\ \A m \in cloud.member :
          DOMAIN m = {"address", "subnet", "port", "monitorPort", "id", "pool"}
    /\ \A l \in cloud.listener :
          /\ DOMAIN l = {"protocol", "port", "settings", "id", "pool"}
          /\ l.settings = [f \in ListenerSettings |-> l.settings[f]]
    /\ \A a \in cloud.monitor :
          /\ DOMAIN a = {"type", "numbers", "http", "id", "pool"}
          /\ a.numbers = [f \in MonitorNumbers |-> a.numbers[f]]
          /\ \E c \in Configs : HttpFrom(a, c)

\* An update brings a setting to what the service wants.
RightUpdate(a) ==
    LET m == healthMonitorForPort(want) IN
    \/ /\ a.kind = "listener" /\ a.part = "settings" /\ a.field \in ListenerSettings
       /\ a.value = want.config.settings[a.field]
    \/ /\ a.kind = "monitor" /\ a.part = "numbers" /\ a.field \in MonitorNumbers
       /\ a.value = want.config.numbers[a.field]
    \/ /\ a.kind = "monitor" /\ a.part = "http" /\ a.field \in HttpOptions
       /\ m.http # None /\ a.value = m.http[a.field]

\* The plan ends without a new look at the balancer.
Last == pc = "run" /\ \A b \in plan : b.action # Refetch

\* The values in a plan are those the service wants.
ValueInv ==
    \A b \in plan :
        /\ Creates(b, "listener") =>
              \E i \in DOMAIN want.config.ports : b.action.value = listenerForPort(want, i)
        /\ Creates(b, "monitor") => b.action.value = healthMonitorForPort(want)
        /\ b.action.op = "update" => Last /\ RightUpdate(b.action)
        /\ b.action.op = "rename-lb" => b.action = RenameLb(want.config.name)

Planned(a) == \E b \in plan : b.action = a

\* Pools and members are right, and there is a listener and a monitor for each
\* port.
PortsDone ==
    /\ Bare(cloud.pool) = DesiredPools(want)
    /\ \A i \in DOMAIN want.config.ports : \A p \in cloud.pool :
          p.name = poolName(want.config.ports[i]) =>
             /\ Bare(Of("member", p)) = desiredMembers(want, i)
             /\ \E l \in cloud.listener :
                   l.pool = p.id /\ listenerKey(l) = listenerKey(listenerForPort(want, i))
             /\ \E a \in cloud.monitor : a.pool = p.id

\* The settings of listeners and monitors are right or will be.
ListenersNear ==
    \A l \in cloud.listener : \A f \in ListenerSettings :
        \/ l.settings[f] = want.config.settings[f]
        \/ Planned(Update("listener", l, "settings", f, want.config.settings[f]))

\* A Host that is not asked for.
LeftOut(o, value) == o = "host" /\ value = None

MonitorsNear ==
    LET m == healthMonitorForPort(want) IN
    \A a \in cloud.monitor :
        /\ monitorKey(a) = monitorKey(m)
        /\ \A f \in MonitorNumbers :
              \/ a.numbers[f] = want.config.numbers[f]
              \/ Planned(Update("monitor", a, "numbers", f, want.config.numbers[f]))
        /\ m.http # None => \A o \in HttpOptions :
              \/ LeftOut(o, m.http[o])
              \/ a.http[o] = m.http[o]
              \/ Planned(Update("monitor", a, "http", o, m.http[o]))

\* The same for the name of the balancer and for the Floating IPs.
LbNear ==
    /\ IsLb(cloud.lb)
    /\ cloud.lb.name = want.config.name \/ Planned(RenameLb(want.config.name))
    /\ \A ip \in want.config.ips : ip \in cloud.ips \/ Planned(AssignFloatingIP(ip))

\* What is still wrong when a last plan is run is seen to by the rest of it.
LastInv ==
    Last => /\ \A b \in plan : b.action.op \in {"rename-lb", "update", "assign"}
            /\ PortsDone /\ ListenersNear /\ MonitorsNear /\ LbNear

\* A call was made with what there is now, unless another one is due.
UpToDate(w) ==
    /\ "service" \notin due => w.config = service.config
    /\ due = {} => w.nodes = nodes

\* So are the copy of the service controller and the newest call, which may
\* wait for the mutex or have been the last to get it.
DueInv ==
    /\ "service" \notin due => known # None /\ known.config = service.config
    /\ waiting[newest] # None => UpToDate(waiting[newest])
    /\ waiting[newest] = None /\ call = newest => UpToDate(want)

\* A call of the node sync starts from a balancer that is what is wanted, and
\* leaves one.
IdleInv == pc = "idle" /\ "service" \notin due /\ waiting["service"] = None => Realises(want)

SettleInv == FieldsInv /\ ValueInv /\ LastInv /\ DueInv /\ IdleInv

-----------------------------------------------------------------------------
(* The monitors services ask for.                                           *)

LEMMA MonitorFields ==
    ASSUME NEW c
    PROVE  /\ DOMAIN MonitorOf(c) = {"type", "numbers", "http"}
           /\ MonitorOf(c).numbers = c.numbers
           /\ MonitorOf(c).http # None => IsHttp(MonitorOf(c).http)
BY DEF MonitorOf, healthMonitorForPort, IsHttp, FillOut, DefaultHTTP

LEMMA WantMonitor == healthMonitorForPort(want) = MonitorOf(want.config)
BY DEF MonitorOf, healthMonitorForPort

\* Options are a record, and so not None.
LEMMA HttpIsNotNone ==
    ASSUME ~IsRecord(None), NEW h, IsHttp(h)
    PROVE  h # None
<1>1. DOMAIN h = DOMAIN DefaultHTTP
  BY DEF IsHttp
<1>2. IsRecord(h)
  BY <1>1 DEF IsRecord, IsHttp
<1> QED BY <1>2

\* A monitor the service wants, once it is stored.
LEMMA StoredMonitor ==
    ASSUME ~IsRecord(None), NEW a, NEW c \in Configs, a.kind = "monitor", a.value = MonitorOf(c)
    PROVE  /\ DOMAIN Stored(a) = {"type", "numbers", "http", "id", "pool"}
           /\ Stored(a).numbers = c.numbers
           /\ HttpFrom(Stored(a), c)
<1> DEFINE v == MonitorOf(c)
           s == Stored(a)
           named == [f \in DOMAIN a.value \cup {"id", "pool"} |->
                        CASE f = "id" -> Fresh(a.kind)
                          [] f = "pool" -> a.pool
                          [] OTHER -> a.value[f]]
<1>1. s = IF v.type = "http" /\ v.http = None THEN [named EXCEPT !.http = DefaultHTTP] ELSE named
  BY DEF Stored
<1>2. DOMAIN v = {"type", "numbers", "http"} /\ v.numbers = c.numbers
  BY MonitorFields
<1>3. /\ DOMAIN named = {"type", "numbers", "http", "id", "pool"}
      /\ named.type = v.type /\ named.numbers = v.numbers /\ named.http = v.http
  <2> HIDE DEF v
  <2> QED BY <1>2 DEF v
<1> HIDE DEF named, v, s
<1>4. /\ DOMAIN s = {"type", "numbers", "http", "id", "pool"}
      /\ s.type = v.type /\ s.numbers = v.numbers
      /\ s.http = IF v.type = "http" /\ v.http = None THEN DefaultHTTP ELSE v.http
  BY <1>1, <1>3
<1>5. IsHttp(DefaultHTTP) /\ DefaultHTTP.version = "1.1"
  BY DEF IsHttp, DefaultHTTP
<1>6. DefaultHTTP # None
  BY <1>5, HttpIsNotNone
<1>7. monitorKey(s) = monitorKey(v)
  BY <1>4, <1>5, <1>6 DEF monitorKey
<1>8. v.http # None => IsHttp(s.http)
  BY <1>4, MonitorFields DEF v
<1> QED BY <1>2, <1>4, <1>7, <1>8 DEF HttpFrom, v, s

-----------------------------------------------------------------------------
(* The fields of what is there, after an action.                            *)

\* What all of the following assumes.
Assumed == SettingsGiven /\ HttpKept /\ ~IsRecord(None)

LEMMA ActionPoolFields ==
    ASSUME ContentInv, FieldsInv, NEW b, Does(b), NEW p \in cloud'.pool
    PROVE  DOMAIN p = {"name", "algorithm", "protocol", "id", "pool"}
<1>0. /\ ShapeInv /\ LbInv /\ CreatePoolInv /\ CreateInInv /\ DeleteInv /\ UpdateInv
      /\ "pool" \in Kinds
  BY DEF ContentInv, PlanInv, Kinds
<1>1. b \in plan /\ ChangeOfKind(b, "pool")
  BY <1>0, AfterAction, ActionOnKind
<1>2. CASE Creates(b, "pool") /\ p = Stored(b.action)
  <2>1. PICK i \in DOMAIN want.config.ports : b.action.value = desiredPool(want, i)
    BY <1>0, <1>1, <1>2 DEF CreatePoolInv
  <2>2. DOMAIN b.action.value = {"name", "algorithm", "protocol"}
    BY <2>1 DEF desiredPool
  <2> QED BY <1>2, <2>2, StoredFields
<1> QED BY <1>1, <1>2 DEF ChangeOfKind, FieldsInv, Creates

LEMMA ActionMemberFields ==
    ASSUME ContentInv, FieldsInv, NEW b, Does(b), NEW m \in cloud'.member
    PROVE  DOMAIN m = {"address", "subnet", "port", "monitorPort", "id", "pool"}
<1>0. /\ ShapeInv /\ LbInv /\ CreatePoolInv /\ CreateInInv /\ DeleteInv /\ UpdateInv
      /\ "member" \in Kinds
  BY DEF ContentInv, PlanInv, Kinds
<1>1. b \in plan /\ ChangeOfKind(b, "member")
  BY <1>0, AfterAction, ActionOnKind
<1>2. CASE Creates(b, "member") /\ m = Stored(b.action)
  <2>1. PICK i \in DOMAIN want.config.ports : b.action.value \in desiredMembers(want, i)
    BY <1>0, <1>1, <1>2 DEF CreateInInv, Creates
  <2>2. DOMAIN b.action.value = {"address", "subnet", "port", "monitorPort"}
    BY <2>1 DEF desiredMembers
  <2>3. DOMAIN m = DOMAIN b.action.value \cup {"id", "pool"}
    BY <1>2, StoredFields
  <2> QED BY <2>2, <2>3
<1> QED BY <1>1, <1>2 DEF ChangeOfKind, FieldsInv, Creates

LEMMA ActionListenerFields ==
    ASSUME Assumed, ContentInv, FieldsInv, ValueInv, NEW b, Does(b), NEW l \in cloud'.listener
    PROVE  /\ DOMAIN l = {"protocol", "port", "settings", "id", "pool"}
           /\ l.settings = [f \in ListenerSettings |-> l.settings[f]]
<1>0. /\ ShapeInv /\ IdInv /\ LbInv /\ CreatePoolInv /\ CreateInInv /\ DeleteInv /\ UpdateInv
      /\ "listener" \in Kinds /\ want.config \in Configs
  BY DEF ContentInv, PlanInv, Kinds, TypeOK
<1>1. b \in plan /\ ChangeOfKind(b, "listener")
  BY <1>0, AfterAction, ActionOnKind
<1>2. CASE Creates(b, "listener") /\ l = Stored(b.action)
  <2>1. PICK i \in DOMAIN want.config.ports : b.action.value = listenerForPort(want, i)
    BY <1>1, <1>2 DEF ValueInv
  <2>2. /\ DOMAIN b.action.value = {"protocol", "port", "settings"}
        /\ b.action.value.settings = want.config.settings
    BY <2>1 DEF listenerForPort
  <2>3. /\ DOMAIN l = DOMAIN b.action.value \cup {"id", "pool"}
        /\ l.settings = b.action.value.settings
    <3>1. "settings" \in DOMAIN b.action.value /\ "settings" \notin {"id", "pool", "http"}
      BY <2>2
    <3>2. Stored(b.action)["settings"] = b.action.value["settings"]
      BY <3>1, StoredFields
    <3> QED BY <1>2, <3>2, StoredFields
  <2>4. DOMAIN l = {"protocol", "port", "settings", "id", "pool"}
    BY <2>2, <2>3
  <2> QED BY <1>0, <2>2, <2>3, <2>4 DEF Assumed, SettingsGiven
<1>3. ASSUME b.action.op = "update", b.action.kind = "listener", NEW r \in cloud.listener,
             l = Updated(b.action, r)
      PROVE  /\ DOMAIN l = {"protocol", "port", "settings", "id", "pool"}
             /\ l.settings = [f \in ListenerSettings |-> l.settings[f]]
  <2>1. /\ b.action.part = "settings" /\ b.action.field \in ListenerSettings
    BY <1>1, <1>3 DEF ValueInv, RightUpdate
  <2>2. /\ DOMAIN r = {"protocol", "port", "settings", "id", "pool"}
        /\ r.settings = [f \in ListenerSettings |-> r.settings[f]]
    BY DEF FieldsInv
  <2> QED BY <1>3, <2>1, <2>2 DEF Updated
<1> QED BY <1>1, <1>2, <1>3 DEF ChangeOfKind, FieldsInv, Creates, Renewed

LEMMA ActionMonitorFields ==
    ASSUME Assumed, ContentInv, FieldsInv, ValueInv, LastInv, NEW b, Does(b),
           NEW a \in cloud'.monitor
    PROVE  /\ DOMAIN a = {"type", "numbers", "http", "id", "pool"}
           /\ a.numbers = [f \in MonitorNumbers |-> a.numbers[f]]
           /\ \E c \in Configs : HttpFrom(a, c)
<1>0. /\ ShapeInv /\ IdInv /\ LbInv /\ CreatePoolInv /\ CreateInInv /\ DeleteInv /\ UpdateInv
      /\ "monitor" \in Kinds /\ want.config \in Configs
  BY DEF ContentInv, PlanInv, Kinds, TypeOK
<1>1. b \in plan /\ ChangeOfKind(b, "monitor")
  BY <1>0, AfterAction, ActionOnKind
<1>2. CASE Creates(b, "monitor") /\ a = Stored(b.action)
  <2>1. b.action.kind = "monitor" /\ b.action.value = MonitorOf(want.config)
    BY <1>1, <1>2, WantMonitor DEF ValueInv, Creates
  <2>2. /\ DOMAIN a = {"type", "numbers", "http", "id", "pool"}
        /\ a.numbers = want.config.numbers /\ HttpFrom(a, want.config)
    BY <1>0, <1>2, <2>1, StoredMonitor DEF Assumed
  <2> QED BY <1>0, <2>2 DEF Assumed, SettingsGiven
<1>3. ASSUME b.action.op = "update", b.action.kind = "monitor", NEW r \in cloud.monitor,
             a = Updated(b.action, r)
      PROVE  /\ DOMAIN a = {"type", "numbers", "http", "id", "pool"}
             /\ a.numbers = [f \in MonitorNumbers |-> a.numbers[f]]
             /\ \E c \in Configs : HttpFrom(a, c)
  <2>1. RightUpdate(b.action) /\ Last
    BY <1>1, <1>3 DEF ValueInv
  <2>2. PICK c \in Configs : HttpFrom(r, c)
    BY DEF FieldsInv
  <2>3. /\ DOMAIN r = {"type", "numbers", "http", "id", "pool"}
        /\ r.numbers = [f \in MonitorNumbers |-> r.numbers[f]]
        /\ IsRecord(r)
    BY <1>0 DEF FieldsInv, IdInv
  <2>4. CASE b.action.part = "numbers" /\ b.action.field \in MonitorNumbers
    <3>1. /\ DOMAIN a = {"type", "numbers", "http", "id", "pool"}
          /\ a.numbers = [f \in MonitorNumbers |-> a.numbers[f]]
          /\ a.type = r.type /\ a.http = r.http
      BY <1>3, <2>3, <2>4 DEF Updated
    <3>2. HttpFrom(a, c)
      BY <2>2, <3>1 DEF HttpFrom, monitorKey
    <3> QED BY <3>1, <3>2
  <2>5. CASE /\ b.action.part = "http" /\ b.action.field \in HttpOptions
             /\ healthMonitorForPort(want).http # None
    <3>1. monitorKey(r) = monitorKey(MonitorOf(want.config))
      BY <2>1, WantMonitor DEF LastInv, MonitorsNear
    <3>2. MonitorOf(c).http # None
      BY <1>0, <2>2, <2>5, <3>1, WantMonitor DEF Assumed, HttpKept, HttpFrom
    <3>3. IsHttp(r.http)
      BY <2>2, <3>2 DEF HttpFrom
    <3>4. /\ DOMAIN a = {"type", "numbers", "http", "id", "pool"}
          /\ a.numbers = r.numbers /\ a.type = r.type
          /\ a.http = r.http \/ a.http = [r.http EXCEPT ![b.action.field] = b.action.value]
      BY <1>3, <2>3, <2>5 DEF Updated
    <3>5. DOMAIN DefaultHTTP = {"version", "host", "path", "method", "codes"}
      BY DEF DefaultHTTP
    <3>6. IsHttp(a.http) /\ a.http.version = r.http.version
      BY <2>5, <3>3, <3>4, <3>5 DEF IsHttp, HttpOptions
    <3>7. a.http # None /\ r.http # None
      BY <3>3, <3>6, HttpIsNotNone DEF Assumed
    <3>8. monitorKey(a) = monitorKey(r)
      BY <3>4, <3>6, <3>7 DEF monitorKey
    <3>9. HttpFrom(a, c)
      BY <2>2, <3>2, <3>6, <3>8 DEF HttpFrom
    <3> QED BY <2>3, <3>4, <3>9
  <2> QED BY <2>1, <2>4, <2>5, <1>3 DEF RightUpdate
<1> QED BY <1>1, <1>2, <1>3 DEF ChangeOfKind, FieldsInv, Creates, Renewed

LEMMA ActionFields ==
    ASSUME Assumed, ContentInv, FieldsInv, ValueInv, LastInv, NEW b, Does(b)
    PROVE  FieldsInv'
<1>1. \A p \in cloud'.pool : DOMAIN p = {"name", "algorithm", "protocol", "id", "pool"}
  BY ActionPoolFields
<1>2. \A m \in cloud'.member :
          DOMAIN m = {"address", "subnet", "port", "monitorPort", "id", "pool"}
  BY ActionMemberFields
<1>3. \A l \in cloud'.listener :
          /\ DOMAIN l = {"protocol", "port", "settings", "id", "pool"}
          /\ l.settings = [f \in ListenerSettings |-> l.settings[f]]
  BY ActionListenerFields
<1>4. \A a \in cloud'.monitor :
          /\ DOMAIN a = {"type", "numbers", "http", "id", "pool"}
          /\ a.numbers = [f \in MonitorNumbers |-> a.numbers[f]]
          /\ \E c \in Configs : HttpFrom(a, c)
  BY ActionMonitorFields
<1> QED BY <1>1, <1>2, <1>3, <1>4 DEF FieldsInv

-----------------------------------------------------------------------------
(* The last plan, when one of its actions is done.                          *)

LEMMA StillPlanned ==
    ASSUME NEW b, plan' = plan \ {b}, NEW a, Planned(a), a # b.action
    PROVE  Planned(a)'
BY DEF Planned

LEMMA RunValueInv ==
    ASSUME ValueInv, NEW b \in plan, b.action # Refetch, pc' = pc, want' = want,
           plan' = plan \ {b}
    PROVE  ValueInv' /\ (Last' => Last)
<1>1. Last' <=> Last
  BY DEF Last
<1>2. healthMonitorForPort(want)' = healthMonitorForPort(want)
  BY DEF healthMonitorForPort
<1>3. \A i : listenerForPort(want, i)' = listenerForPort(want, i)
  BY DEF listenerForPort
<1>4. \A a : RightUpdate(a)' <=> RightUpdate(a)
  BY <1>2 DEF RightUpdate
<1>5. \A c \in plan' : c \in plan
  OBVIOUS
<1> QED BY <1>1, <1>2, <1>3, <1>4, <1>5 DEF ValueInv, Creates

\* What an update in place does to a listener.
LEMMA UpdatedListener ==
    ASSUME IdInv, FieldsInv, NEW a, RightUpdate(a), a.op = "update", a.kind = "listener",
           NEW r \in cloud.listener
    PROVE  /\ Updated(a, r).id = r.id /\ Updated(a, r).pool = r.pool
           /\ listenerKey(Updated(a, r)) = listenerKey(r)
           /\ \A f \in ListenerSettings :
                 Updated(a, r).settings[f] = IF r.id = a.id /\ f = a.field
                                             THEN want.config.settings[f] ELSE r.settings[f]
<1>1. /\ a.part = "settings" /\ a.field \in ListenerSettings
      /\ a.value = want.config.settings[a.field]
  BY DEF RightUpdate
<1>2. /\ DOMAIN r = {"protocol", "port", "settings", "id", "pool"}
      /\ r.settings = [f \in ListenerSettings |-> r.settings[f]]
  BY DEF FieldsInv
<1>3. CASE r.id # a.id
  BY <1>3 DEF Updated
<1>4. CASE r.id = a.id
  <2>1. Updated(a, r) = [r EXCEPT !["settings"] = [r.settings EXCEPT ![a.field] = a.value]]
    BY <1>1, <1>4 DEF Updated, ListenerSettings
  <2> QED BY <1>1, <1>2, <1>4, <2>1 DEF listenerKey
<1> QED BY <1>3, <1>4

\* The same for a monitor.
LEMMA UpdatedMonitor ==
    ASSUME Assumed, want.config \in Configs, IdInv, FieldsInv, MonitorsNear, NEW a, RightUpdate(a),
           a.op = "update", a.kind = "monitor", NEW r \in cloud.monitor
    PROVE  LET m == healthMonitorForPort(want) IN
           /\ Updated(a, r).id = r.id /\ Updated(a, r).pool = r.pool
           /\ monitorKey(Updated(a, r)) = monitorKey(r)
           /\ \A f \in MonitorNumbers :
                 Updated(a, r).numbers[f] = IF r.id = a.id /\ a.part = "numbers" /\ f = a.field
                                            THEN want.config.numbers[f] ELSE r.numbers[f]
           /\ m.http # None => \A o \in HttpOptions :
                 Updated(a, r).http[o] = IF /\ r.id = a.id /\ a.part = "http" /\ o = a.field
                                            /\ ~LeftOut(o, m.http[o])
                                         THEN m.http[o] ELSE r.http[o]
<1> DEFINE m == healthMonitorForPort(want)
<1>1. \/ /\ a.part = "numbers" /\ a.field \in MonitorNumbers
         /\ a.value = want.config.numbers[a.field]
      \/ /\ a.part = "http" /\ a.field \in HttpOptions
         /\ m.http # None /\ a.value = m.http[a.field]
  BY DEF RightUpdate
<1>2. /\ DOMAIN r = {"type", "numbers", "http", "id", "pool"}
      /\ r.numbers = [f \in MonitorNumbers |-> r.numbers[f]]
  BY DEF FieldsInv
<1>3. PICK c \in Configs : HttpFrom(r, c)
  BY DEF FieldsInv
<1>4. m.http # None => IsHttp(r.http)
  <2>1. monitorKey(r) = monitorKey(MonitorOf(want.config))
    BY WantMonitor DEF MonitorsNear
  <2> QED BY <1>3, <2>1, WantMonitor DEF Assumed, HttpKept, HttpFrom
<1> HIDE DEF m
<1>5. CASE r.id # a.id \/ LeftOut(a.field, a.value)
  <2>1. Updated(a, r) = r
    BY <1>5 DEF Updated, LeftOut
  <2>2. LeftOut(a.field, a.value) => a.part = "http" /\ m.http # None /\ a.value = m.http[a.field]
    BY <1>1 DEF LeftOut, MonitorNumbers
  <2> QED BY <1>5, <2>1, <2>2 DEF m, LeftOut
<1>6. CASE r.id = a.id /\ a.part = "numbers"
  <2>1. Updated(a, r) = [r EXCEPT !["numbers"] = [r.numbers EXCEPT ![a.field] = a.value]]
    BY <1>1, <1>6 DEF Updated, MonitorNumbers
  <2>2. /\ Updated(a, r).id = r.id /\ Updated(a, r).pool = r.pool
        /\ Updated(a, r).type = r.type /\ Updated(a, r).http = r.http
        /\ Updated(a, r).numbers = [r.numbers EXCEPT ![a.field] = a.value]
    BY <1>2, <2>1
  <2>3. monitorKey(Updated(a, r)) = monitorKey(r)
    BY <2>2 DEF monitorKey
  <2>4. \A f \in MonitorNumbers :
            Updated(a, r).numbers[f] = IF f = a.field THEN want.config.numbers[f] ELSE r.numbers[f]
    BY <1>1, <1>2, <1>6, <2>2
  <2> QED BY <1>6, <2>2, <2>3, <2>4 DEF m
<1>7. CASE r.id = a.id /\ a.part = "http" /\ ~LeftOut(a.field, a.value)
  <2>1. Updated(a, r) = [r EXCEPT !["http"] = [r.http EXCEPT ![a.field] = a.value]]
    BY <1>7 DEF Updated, LeftOut
  <2>2. /\ Updated(a, r).id = r.id /\ Updated(a, r).pool = r.pool
        /\ Updated(a, r).type = r.type /\ Updated(a, r).numbers = r.numbers
        /\ Updated(a, r).http = [r.http EXCEPT ![a.field] = a.value]
    BY <1>2, <2>1
  <2>3. DOMAIN DefaultHTTP = {"version", "host", "path", "method", "codes"}
    BY DEF DefaultHTTP
  <2>4. a.field \in HttpOptions /\ m.http # None /\ a.value = m.http[a.field] /\ IsHttp(r.http)
    BY <1>1, <1>4, <1>7
  <2>5. /\ IsHttp(Updated(a, r).http) /\ Updated(a, r).http.version = r.http.version
        /\ \A o \in HttpOptions :
              Updated(a, r).http[o] = IF o = a.field THEN m.http[o] ELSE r.http[o]
    BY <2>2, <2>3, <2>4 DEF IsHttp, HttpOptions
  <2>6. Updated(a, r).http # None /\ r.http # None
    BY <2>4, <2>5, HttpIsNotNone DEF Assumed
  <2>7. monitorKey(Updated(a, r)) = monitorKey(r)
    BY <2>2, <2>5, <2>6 DEF monitorKey
  <2> QED BY <1>7, <2>2, <2>4, <2>5, <2>7 DEF m
<1> QED BY <1>1, <1>5, <1>6, <1>7 DEF m


\* What an action of the last plan leaves alone.
LEMMA LastAction ==
    ASSUME ContentInv, ValueInv, LastInv, Last, NEW b, Does(b)
    PROVE  /\ b \in plan /\ b.action.op \in {"rename-lb", "update", "assign"}
           /\ b.action.op = "update" => RightUpdate(b.action)
           /\ cloud'.pool = cloud.pool /\ cloud'.member = cloud.member
           /\ cloud'.listener = IF b.action.op = "update" /\ b.action.kind = "listener"
                                THEN Renewed(b.action, "listener") ELSE cloud.listener
           /\ cloud'.monitor = IF b.action.op = "update" /\ b.action.kind = "monitor"
                               THEN Renewed(b.action, "monitor") ELSE cloud.monitor
<1>0. ShapeInv /\ LbInv /\ CreateInInv /\ DeleteInv /\ UpdateInv
  BY DEF ContentInv, PlanInv
<1>1. b \in plan /\ b.action.op \in {"rename-lb", "update", "assign"}
  BY <1>0, AfterAction DEF LastInv
<1>2. b.action.op = "update" => RightUpdate(b.action)
  BY <1>1 DEF ValueInv
<1>3. \A k \in Kinds : cloud'[k] = IF b.action.op = "update" /\ b.action.kind = k
                                   THEN Renewed(b.action, k) ELSE cloud[k]
  BY <1>0, <1>1, ActionKinds
<1>4. b.action.op = "update" => b.action.kind \in {"listener", "monitor"}
  BY <1>2 DEF RightUpdate
<1> QED BY <1>1, <1>2, <1>3, <1>4 DEF Kinds

LEMMA RunPortsDone ==
    ASSUME Assumed, ContentInv, FieldsInv, ValueInv, LastInv, Last, NEW b, Does(b), want' = want
    PROVE  PortsDone'
<1> DEFINE Ports == DOMAIN want.config.ports
<1>0. /\ IdInv /\ want.config \in Configs /\ PortsDone /\ MonitorsNear
      /\ "monitor" \in Kinds
  BY DEF ContentInv, TypeOK, LastInv, Kinds
<1>1. /\ cloud'.pool = cloud.pool /\ cloud'.member = cloud.member
      /\ b.action.op = "update" => RightUpdate(b.action)
  BY LastAction
<1>2. \A i : /\ desiredMembers(want, i)' = desiredMembers(want, i)
             /\ listenerForPort(want, i)' = listenerForPort(want, i)
             /\ desiredPool(want, i)' = desiredPool(want, i)
  BY DEF desiredMembers, desiredAddresses, filterNodesBySelector, listenerForPort, desiredPool
<1>3. DesiredPools(want)' = DesiredPools(want)
  BY <1>2 DEF DesiredPools
<1>4. \A p : Of("member", p)' = Of("member", p)
  BY <1>1 DEF Of
<1>5. ASSUME NEW l \in cloud.listener
      PROVE  \E n \in cloud'.listener : n.pool = l.pool /\ listenerKey(n) = listenerKey(l)
  <2>1. CASE b.action.op = "update" /\ b.action.kind = "listener"
    <3>1. Updated(b.action, l) \in cloud'.listener
      BY <2>1, LastAction DEF Renewed
    <3> QED BY <1>0, <1>1, <2>1, <3>1, UpdatedListener
  <2> QED BY <2>1, LastAction
<1>6. ASSUME NEW a \in cloud.monitor
      PROVE  \E n \in cloud'.monitor : n.pool = a.pool
  <2>1. CASE b.action.op = "update" /\ b.action.kind = "monitor"
    <3>1. Updated(b.action, a) \in cloud'.monitor
      BY <2>1, LastAction DEF Renewed
    <3>2. b.action.part \in {"settings", "http", "numbers"}
      BY <1>1, <2>1 DEF RightUpdate
    <3>3. Updated(b.action, a).pool = a.pool
      BY <1>0, <3>2, UpdatedPlace
    <3> QED BY <3>1, <3>3
  <2> QED BY <2>1, LastAction
<1>7. Bare(cloud.pool)' = Bare(cloud.pool)
  BY <1>1
<1>8. ASSUME NEW i \in Ports, NEW p \in cloud.pool, p.name = poolName(want.config.ports[i])
      PROVE  /\ Bare(Of("member", p))' = desiredMembers(want, i)
             /\ \E l \in cloud'.listener :
                   l.pool = p.id /\ listenerKey(l) = listenerKey(listenerForPort(want, i))
             /\ \E a \in cloud'.monitor : a.pool = p.id
  <2>1. Bare(Of("member", p)) = desiredMembers(want, i)
    BY <1>0, <1>8 DEF PortsDone
  <2>2. PICK l \in cloud.listener :
            l.pool = p.id /\ listenerKey(l) = listenerKey(listenerForPort(want, i))
    BY <1>0, <1>8 DEF PortsDone
  <2>3. PICK a \in cloud.monitor : a.pool = p.id
    BY <1>0, <1>8 DEF PortsDone
  <2>4. \E n \in cloud'.listener :
            n.pool = p.id /\ listenerKey(n) = listenerKey(listenerForPort(want, i))
    BY <1>5, <2>2
  <2>5. \E n \in cloud'.monitor : n.pool = p.id
    BY <1>6, <2>3
  <2> QED BY <1>4, <2>1, <2>4, <2>5
<1> QED BY <1>0, <1>1, <1>2, <1>3, <1>7, <1>8 DEF PortsDone

LEMMA RunListenersNear ==
    ASSUME ContentInv, FieldsInv, ValueInv, LastInv, Last, NEW b, Does(b), want' = want,
           plan' = plan \ {b}
    PROVE  ListenersNear'
<1> DEFINE Todo(l, f) == Update("listener", l, "settings", f, want.config.settings[f])
<1>0. IdInv /\ ListenersNear
  BY DEF ContentInv, LastInv
<1> SUFFICES ASSUME NEW l \in cloud'.listener, NEW f \in ListenerSettings
             PROVE  l.settings[f] = want.config.settings[f] \/ Planned(Todo(l, f))'
  BY DEF ListenersNear, Planned
<1>1. \A r \in cloud.listener : r.settings[f] = want.config.settings[f] \/ Planned(Todo(r, f))
  BY <1>0 DEF ListenersNear
<1>2. CASE b.action.op = "update" /\ b.action.kind = "listener"
  <2>1. RightUpdate(b.action) /\ \E r \in cloud.listener : l = Updated(b.action, r)
    BY <1>2, LastAction DEF Renewed
  <2>2. PICK r \in cloud.listener : l = Updated(b.action, r)
    BY <2>1
  <2>3. /\ l.id = r.id
        /\ l.settings[f] = IF r.id = b.action.id /\ f = b.action.field
                           THEN want.config.settings[f] ELSE r.settings[f]
    BY <1>0, <1>2, <2>1, <2>2, UpdatedListener
  <2>4. Todo(l, f) = Todo(r, f)
    BY <2>3 DEF Update
  <2>5. CASE r.id = b.action.id /\ f = b.action.field
    BY <2>3, <2>5
  <2>6. CASE ~(r.id = b.action.id /\ f = b.action.field)
    <3>1. Todo(r, f) # b.action
      BY <2>6 DEF Update
    <3>2. Planned(Todo(r, f)) => Planned(Todo(r, f))'
      BY <3>1, StillPlanned
    <3> QED BY <1>1, <2>3, <2>4, <2>6, <3>2
  <2> QED BY <2>5, <2>6
<1>3. CASE ~(b.action.op = "update" /\ b.action.kind = "listener")
  <2>1. l \in cloud.listener
    BY <1>3, LastAction
  <2>2. Todo(l, f) # b.action
    BY <1>3 DEF Update
  <2>3. Planned(Todo(l, f)) => Planned(Todo(l, f))'
    BY <2>2, StillPlanned
  <2> QED BY <1>1, <2>1, <2>3
<1> QED BY <1>2, <1>3

LEMMA RunMonitorsNear ==
    ASSUME Assumed, ContentInv, FieldsInv, ValueInv, LastInv, Last, NEW b, Does(b), want' = want,
           plan' = plan \ {b}
    PROVE  MonitorsNear'
<1> DEFINE m == healthMonitorForPort(want)
           Number(a, f) == Update("monitor", a, "numbers", f, want.config.numbers[f])
           Option(a, o) == Update("monitor", a, "http", o, m.http[o])
<1>0. IdInv /\ MonitorsNear /\ want.config \in Configs
  BY DEF ContentInv, TypeOK, LastInv
<1>1. m' = m
  BY DEF healthMonitorForPort
<1> HIDE DEF m
<1> SUFFICES ASSUME NEW a \in cloud'.monitor
             PROVE  /\ monitorKey(a) = monitorKey(m)
                    /\ \A f \in MonitorNumbers :
                          a.numbers[f] = want.config.numbers[f] \/ Planned(Number(a, f))'
                    /\ m.http # None => \A o \in HttpOptions :
                          \/ LeftOut(o, m.http[o])
                          \/ a.http[o] = m.http[o] \/ Planned(Option(a, o))'
  BY <1>1 DEF MonitorsNear, Planned, m
<1>2. \A r \in cloud.monitor :
          /\ monitorKey(r) = monitorKey(m)
          /\ \A f \in MonitorNumbers :
                r.numbers[f] = want.config.numbers[f] \/ Planned(Number(r, f))
          /\ m.http # None => \A o \in HttpOptions :
                LeftOut(o, m.http[o]) \/ r.http[o] = m.http[o] \/ Planned(Option(r, o))
  BY <1>0 DEF MonitorsNear, m
<1>3. CASE b.action.op = "update" /\ b.action.kind = "monitor"
  <2>1. RightUpdate(b.action) /\ \E r \in cloud.monitor : a = Updated(b.action, r)
    BY <1>3, LastAction DEF Renewed
  <2>2. PICK r \in cloud.monitor : a = Updated(b.action, r)
    BY <2>1
  <2>3. /\ a.id = r.id /\ monitorKey(a) = monitorKey(r)
        /\ \A f \in MonitorNumbers :
              a.numbers[f] = IF r.id = b.action.id /\ b.action.part = "numbers" /\ f = b.action.field
                             THEN want.config.numbers[f] ELSE r.numbers[f]
        /\ m.http # None => \A o \in HttpOptions :
              a.http[o] = IF /\ r.id = b.action.id /\ b.action.part = "http"
                             /\ o = b.action.field /\ ~LeftOut(o, m.http[o])
                          THEN m.http[o] ELSE r.http[o]
    BY <1>0, <1>3, <2>1, <2>2, UpdatedMonitor DEF m
  <2>4. ASSUME NEW f \in MonitorNumbers
        PROVE  a.numbers[f] = want.config.numbers[f] \/ Planned(Number(a, f))'
    <3>1. CASE r.id = b.action.id /\ b.action.part = "numbers" /\ f = b.action.field
      BY <2>3, <3>1
    <3>2. CASE ~(r.id = b.action.id /\ b.action.part = "numbers" /\ f = b.action.field)
      <4>1. Number(r, f) # b.action
        BY <3>2 DEF Update
      <4>2. Planned(Number(r, f)) => Planned(Number(r, f))'
        BY <4>1, StillPlanned
      <4>3. Number(a, f) = Number(r, f)
        BY <2>3 DEF Update
      <4> QED BY <1>2, <2>3, <3>2, <4>2, <4>3
    <3> QED BY <3>1, <3>2
  <2>5. ASSUME m.http # None, NEW o \in HttpOptions, ~LeftOut(o, m.http[o])
        PROVE  a.http[o] = m.http[o] \/ Planned(Option(a, o))'
    <3>1. CASE r.id = b.action.id /\ b.action.part = "http" /\ o = b.action.field
      BY <2>3, <2>5, <3>1
    <3>2. CASE ~(r.id = b.action.id /\ b.action.part = "http" /\ o = b.action.field)
      <4>1. Option(r, o) # b.action
        BY <3>2 DEF Update
      <4>2. Planned(Option(r, o)) => Planned(Option(r, o))'
        BY <1>1, <4>1, StillPlanned
      <4>3. Option(a, o) = Option(r, o)
        BY <2>3 DEF Update
      <4> QED BY <1>1, <1>2, <2>3, <2>5, <3>2, <4>2, <4>3
    <3> QED BY <3>1, <3>2
  <2> QED BY <1>2, <2>3, <2>4, <2>5
<1>4. CASE ~(b.action.op = "update" /\ b.action.kind = "monitor")
  <2>1. a \in cloud.monitor
    BY <1>4, LastAction
  <2>2. \A f : Number(a, f) # b.action /\ Option(a, f) # b.action
    BY <1>4 DEF Update
  <2>3. \A f : Planned(Number(a, f)) => Planned(Number(a, f))'
    BY <2>2, StillPlanned
  <2>4. \A o : Planned(Option(a, o)) => Planned(Option(a, o))'
    BY <1>1, <2>2, StillPlanned
  <2> QED BY <1>1, <1>2, <2>1, <2>3, <2>4
<1> QED BY <1>3, <1>4

LEMMA RunLbNear ==
    ASSUME ContentInv, ValueInv, LastInv, Last, NEW b, Does(b), want' = want, plan' = plan \ {b}
    PROVE  LbNear'
<1> DEFINE a == b.action
           e == Effect(a)
<1>0. ShapeInv /\ LbInv /\ CreateInInv /\ DeleteInv /\ UpdateInv /\ LbNear
  BY DEF ContentInv, PlanInv, LastInv
<1>1. /\ b \in plan /\ a.op \in {"rename-lb", "update", "assign"}
      /\ a.op = "update" => a.kind \in Kinds
  BY LastAction DEF RightUpdate, Kinds
<1>2. a.op = "rename-lb" => a = RenameLb(want.config.name)
  BY <1>1 DEF ValueInv
<1>3. IsRecord(e) /\ DOMAIN e = Fields
  BY <1>0, <1>1, EffectOnKinds
<1>4. /\ a.op = "rename-lb" => e.lb = [cloud.lb EXCEPT !.name = a.name]
      /\ a.op # "rename-lb" => e.lb = cloud.lb
  BY <1>0, <1>1, EffectOnLb
<1>5. e.ips = IF a.op = "assign" THEN cloud.ips \cup {a.ip} ELSE cloud.ips
  <2> USE <1>0, CloudShape DEF Effect, Fields, Kinds, IsRecord
  <2>1. CASE a.op \in {"rename-lb", "assign"}
    BY <2>1
  <2>2. CASE a.op = "update"
    BY <1>1, <2>2
  <2> QED BY <1>1, <2>1, <2>2
<1> HIDE DEF e
<1>6. (cloud'.lb = e.lb \/ cloud'.lb = [e.lb EXCEPT !.status = "changing"]) /\ cloud'.ips = e.ips
  BY <1>3 DEF Does, Fields, IsRecord, e
<1>7. IsLb(cloud.lb) /\ IsLb(cloud'.lb)
  BY <1>0, ActionOnLb DEF LbNear
<1>8. cloud'.lb.name = want.config.name \/ Planned(RenameLb(want.config.name))'
  <2>1. CASE a.op = "rename-lb"
    <3>1. a.name = want.config.name
      BY <1>2, <2>1 DEF RenameLb
    <3>2. e.lb.name = a.name /\ DOMAIN e.lb = {"name", "flavor", "zone", "status", "vip"}
      BY <1>4, <1>7, <2>1 DEF IsLb
    <3> QED BY <1>6, <3>1, <3>2
  <2>2. CASE a.op # "rename-lb"
    <3>1. cloud'.lb.name = cloud.lb.name
      BY <1>4, <1>6, <1>7, <2>2 DEF IsLb
    <3>2. RenameLb(want.config.name) # a
      BY <2>2 DEF RenameLb
    <3>3. Planned(RenameLb(want.config.name)) => Planned(RenameLb(want.config.name))'
      BY <3>2, StillPlanned
    <3> QED BY <1>0, <3>1, <3>3 DEF LbNear
  <2> QED BY <2>1, <2>2
<1>9. ASSUME NEW ip \in want.config.ips
      PROVE  ip \in cloud'.ips \/ Planned(AssignFloatingIP(ip))'
  <2>1. CASE a = AssignFloatingIP(ip)
    BY <1>5, <1>6, <2>1 DEF AssignFloatingIP
  <2>2. CASE a # AssignFloatingIP(ip)
    <3>1. Planned(AssignFloatingIP(ip)) => Planned(AssignFloatingIP(ip))'
      BY <2>2, StillPlanned
    <3> QED BY <1>0, <1>5, <1>6, <3>1 DEF LbNear
  <2> QED BY <2>1, <2>2
<1> QED BY <1>7, <1>8, <1>9 DEF LbNear, Planned

LEMMA RunLastInv ==
    ASSUME Assumed, ContentInv, FieldsInv, ValueInv, LastInv, NEW b, Does(b), pc' = pc, want' = want,
           plan' = plan \ {b}
    PROVE  ValueInv' /\ LastInv'
<1>0. ShapeInv /\ LbInv /\ b.action # Refetch
  BY DEF ContentInv, PlanInv, Does
<1>1. b \in plan
  BY <1>0, AfterAction
<1>2. ValueInv' /\ (Last' => Last)
  BY <1>0, <1>1, RunValueInv
<1>3. ASSUME Last PROVE PortsDone' /\ ListenersNear' /\ MonitorsNear' /\ LbNear'
  BY <1>3, RunPortsDone, RunListenersNear, RunMonitorsNear, RunLbNear
<1>4. Last => \A c \in plan' : c.action.op \in {"rename-lb", "update", "assign"}
  BY DEF LastInv
<1> QED BY <1>2, <1>3, <1>4 DEF LastInv


-----------------------------------------------------------------------------
(* The last plan, when it is made.                                          *)

\* What has the key of something desired is what is desired.
LEMMA PoolByKey ==
    ASSUME NEW p, DOMAIN p = {"name", "algorithm", "protocol", "id", "pool"}, NEW i,
           poolKey(p) = poolKey(desiredPool(want, i))
    PROVE  Without(p, {"id", "pool"}) = desiredPool(want, i)
<1> DEFINE d == desiredPool(want, i)
           u == Without(p, {"id", "pool"})
<1>1. d = [name |-> d.name, algorithm |-> d.algorithm, protocol |-> d.protocol]
  BY DEF desiredPool
<1>2. u = [name |-> p.name, algorithm |-> p.algorithm, protocol |-> p.protocol]
  BY DEF Without
<1> HIDE DEF d, u
<1>3. p.name = d.name /\ p.algorithm = d.algorithm /\ p.protocol = d.protocol
  BY DEF poolKey, d
<1> QED BY <1>1, <1>2, <1>3 DEF u, d

LEMMA MemberByKey ==
    ASSUME NEW m, DOMAIN m = {"address", "subnet", "port", "monitorPort", "id", "pool"}, NEW i,
           NEW d \in desiredMembers(want, i), poolMemberKey(m) = poolMemberKey(d)
    PROVE  Without(m, {"id", "pool"}) = d
<1> DEFINE u == Without(m, {"id", "pool"})
<1>1. d = [address |-> d.address, subnet |-> d.subnet, port |-> d.port,
           monitorPort |-> d.monitorPort]
  BY DEF desiredMembers
<1>2. u = [address |-> m.address, subnet |-> m.subnet, port |-> m.port,
           monitorPort |-> m.monitorPort]
  BY DEF Without
<1> HIDE DEF u
<1>3. m.address = d.address /\ m.subnet = d.subnet /\ m.port = d.port
      /\ m.monitorPort = d.monitorPort
  BY DEF poolMemberKey
<1> QED BY <1>1, <1>2, <1>3 DEF u

\* There is nothing to do about pools and their contents.
Unchanging ==
    /\ TypeOK /\ ShapeInv /\ IdInv /\ NoDuplicates /\ FieldsInv
    /\ poolsToDelete(want) = {} /\ poolsToCreate(want) = {} /\ Contents(want) = {}

\* Then the pools are those the service wants,
LEMMA RightPools ==
    ASSUME Unchanging
    PROVE  Bare(cloud.pool) = DesiredPools(want)
<1>0. /\ IdInv /\ NoDuplicates /\ FieldsInv /\ poolsToDelete(want) = {}
      /\ poolsToCreate(want) = {}
  BY DEF Unchanging
<1>1. ASSUME NEW p \in cloud.pool PROVE Without(p, {"id", "pool"}) \in DesiredPools(want)
  <2>1. p.id \in Nat
    BY <1>0 DEF IdInv, Kinds
  <2>2. Newest("pool", cloud.pool, p)
    <3> SUFFICES ASSUME NEW q \in cloud.pool, key("pool", q) = key("pool", p) PROVE q.id <= p.id
      BY DEF Newest
    <3>1. q.name = p.name
      BY KeyOfKind DEF poolKey
    <3>2. q = p
      BY <1>0, <3>1 DEF NoDuplicates
    <3> QED BY <2>1, <3>2
  <2>3. PICK d \in DesiredPools(want) : key("pool", d) = key("pool", p)
    BY <1>0, <2>2 DEF poolsToDelete, toDelete
  <2>4. PICK i \in DOMAIN want.config.ports : d = desiredPool(want, i)
    BY DEF DesiredPools
  <2>5. poolKey(p) = poolKey(desiredPool(want, i))
    BY <2>3, <2>4, KeyOfKind
  <2>6. Without(p, {"id", "pool"}) = desiredPool(want, i)
    BY <1>0, <2>5, PoolByKey DEF FieldsInv
  <2> QED BY <2>6 DEF DesiredPools
<1>2. ASSUME NEW d \in DesiredPools(want) PROVE \E p \in cloud.pool : d = Without(p, {"id", "pool"})
  <2>1. PICK i \in DOMAIN want.config.ports : d = desiredPool(want, i)
    BY DEF DesiredPools
  <2>2. PICK p \in cloud.pool : key("pool", d) = key("pool", p)
    BY <1>0 DEF poolsToCreate, toCreate
  <2>3. poolKey(p) = poolKey(desiredPool(want, i))
    BY <2>1, <2>2, KeyOfKind
  <2>4. Without(p, {"id", "pool"}) = desiredPool(want, i)
    BY <1>0, <2>3, PoolByKey DEF FieldsInv
  <2> QED BY <2>1, <2>4
<1> QED BY <1>1, <1>2 DEF Bare

\* every part of a port is there,
LEMMA NothingToReplace ==
    ASSUME Unchanging, NEW i \in DOMAIN want.config.ports, NEW k \in Parts
    PROVE  ToDelete(k, i) = {} /\ ToCreate(k, i) = {}
<1>1. \A b : b \notin ContentActions(want, i)
  BY DEF Unchanging, Contents
<1>2. ASSUME NEW r \in ToDelete(k, i) PROVE FALSE
  <2> DEFINE b == [turn |-> TurnOf(k, i), action |-> DeleteResource(k, r)]
  <2>1. DeletesIn(b, k, i, r)
    BY DEF DeletesIn
  <2> HIDE DEF b
  <2>2. b \in ContentActions(want, i)
    BY <2>1, ContentParts
  <2> QED BY <1>1, <2>2
<1>3. ASSUME NEW r \in ToCreate(k, i) PROVE FALSE
  <2> DEFINE b == [turn |-> TurnOf(k, i) + 1, action |-> CreateIn(k, PortPool(i), r)]
  <2>1. CreatesIn(b, k, i, r)
    BY DEF CreatesIn
  <2> HIDE DEF b
  <2>2. b \in ContentActions(want, i)
    BY <2>1, ContentParts
  <2> QED BY <1>1, <2>2
<1> QED BY <1>2, <1>3

\* the members are those the service wants,
LEMMA RightMembers ==
    ASSUME Unchanging, NEW i \in DOMAIN want.config.ports
    PROVE  Bare(Of("member", PortPool(i))) = desiredMembers(want, i)
<1> DEFINE p == PortPool(i)
<1>0. IdInv /\ NoDuplicates /\ FieldsInv /\ ToDelete("member", i) = {} /\ ToCreate("member", i) = {}
  BY NothingToReplace DEF Unchanging, Parts
<1>1. Desired("member", i) = desiredMembers(want, i)
  BY DEF Desired
<1>2. ASSUME NEW m \in Of("member", p) PROVE Without(m, {"id", "pool"}) \in desiredMembers(want, i)
  <2>1. m \in cloud.member /\ m.pool = p.id /\ m.id \in Nat
    BY <1>0 DEF Of, IdInv, Kinds
  <2>2. Newest("member", Of("member", p), m)
    <3> SUFFICES ASSUME NEW q \in Of("member", p), key("member", q) = key("member", m)
                 PROVE  q.id <= m.id
      BY DEF Newest
    <3>1. q \in cloud.member /\ q.pool = m.pool /\ poolMemberKey(q) = poolMemberKey(m)
      BY <2>1, KeyOfKind DEF Of
    <3>2. q = m
      BY <1>0, <2>1, <3>1 DEF NoDuplicates
    <3> QED BY <2>1, <3>2
  <2>3. PICK d \in desiredMembers(want, i) : key("member", d) = key("member", m)
    BY <1>0, <1>1, <2>2 DEF ToDelete, toDelete
  <2>4. poolMemberKey(m) = poolMemberKey(d)
    BY <2>3, KeyOfKind
  <2>5. Without(m, {"id", "pool"}) = d
    BY <1>0, <2>1, <2>4, MemberByKey DEF FieldsInv
  <2> QED BY <2>5
<1>3. ASSUME NEW d \in desiredMembers(want, i)
      PROVE  \E m \in Of("member", p) : d = Without(m, {"id", "pool"})
  <2>1. PICK m \in Of("member", p) : key("member", d) = key("member", m)
    BY <1>0, <1>1 DEF ToCreate, toCreate
  <2>2. poolMemberKey(m) = poolMemberKey(d) /\ m \in cloud.member
    BY <2>1, KeyOfKind DEF Of
  <2>3. Without(m, {"id", "pool"}) = d
    BY <1>0, <2>2, MemberByKey DEF FieldsInv
  <2> QED BY <2>3
<1> HIDE DEF p
<1> QED BY <1>2, <1>3 DEF Bare, p


\* and there is a listener and a monitor for each port, and no other.
LEMMA RightPart ==
    ASSUME Unchanging, NEW i \in DOMAIN want.config.ports, NEW k \in {"listener", "monitor"},
           NEW d, Desired(k, i) = {d}
    PROVE  /\ \E r \in cloud[k] : r.pool = PortPool(i).id /\ key(k, r) = key(k, d)
           /\ \A r \in cloud[k] : r.pool = PortPool(i).id => <<d, r>> \in Match(k, {d}, Of(k, PortPool(i)))
<1>0. IdInv /\ NoDuplicates /\ ToCreate(k, i) = {} /\ k \in Kinds
  BY NothingToReplace DEF Unchanging, Parts, Kinds
<1>1. PICK q \in Of(k, PortPool(i)) : key(k, d) = key(k, q)
  BY <1>0 DEF ToCreate, toCreate
<1>2. q \in cloud[k] /\ q.pool = PortPool(i).id
  BY DEF Of
<1>3. ASSUME NEW r \in cloud[k], r.pool = PortPool(i).id
      PROVE  <<d, r>> \in Match(k, {d}, Of(k, PortPool(i)))
  <2>1. \A s \in Of(k, PortPool(i)) : s = r
    BY <1>0, <1>3 DEF Of, NoDuplicates
  <2>2. r \in Of(k, PortPool(i)) /\ key(k, d) = key(k, r) /\ r.id \in Nat
    BY <1>0, <1>1, <1>3, <2>1 DEF Of, IdInv
  <2>3. Newest(k, Of(k, PortPool(i)), r)
    BY <2>1, <2>2 DEF Newest
  <2> QED BY <2>2, <2>3 DEF Match
<1> QED BY <1>1, <1>2, <1>3

LEMMA PortOfPool ==
    ASSUME Unchanging, NEW p \in cloud.pool
    PROVE  \E i \in DOMAIN want.config.ports : p = PortPool(i)
<1>0. want.config \in Configs /\ IdInv /\ NoDuplicates /\ poolsToCreate(want) = {}
  BY DEF Unchanging, TypeOK
<1>1. Without(p, {"id", "pool"}) \in DesiredPools(want)
  BY RightPools DEF Bare
<1>2. PICK i \in DOMAIN want.config.ports : Serves(want, p, i)
  BY <1>1 DEF DesiredPools, Serves
<1>3. p.name = desiredPool(want, i).name
  BY <1>2, ServesKey
<1>4. p = PortPool(i)
  BY <1>0, <1>3, PortPools
<1> QED BY <1>4

LEMMA PortOf ==
    ASSUME Unchanging, NEW k \in {"listener", "monitor"}, NEW r \in cloud[k]
    PROVE  \E i \in DOMAIN want.config.ports : r.pool = PortPool(i).id
<1>1. PICK p \in cloud.pool : r.pool = p.id
  BY DEF Unchanging, TypeOK, Kinds
<1> QED BY <1>1, PortOfPool

LEMMA PlannedPorts ==
    ASSUME Unchanging
    PROVE  PortsDone
<1>0. want.config \in Configs /\ IdInv /\ NoDuplicates /\ poolsToCreate(want) = {}
  BY DEF Unchanging, TypeOK
<1>1. ASSUME NEW i \in DOMAIN want.config.ports, NEW p \in cloud.pool,
             p.name = poolName(want.config.ports[i])
      PROVE  /\ Bare(Of("member", p)) = desiredMembers(want, i)
             /\ \E l \in cloud.listener :
                   l.pool = p.id /\ listenerKey(l) = listenerKey(listenerForPort(want, i))
             /\ \E a \in cloud.monitor : a.pool = p.id
  <2>1. p.name = desiredPool(want, i).name
    BY <1>1 DEF desiredPool
  <2>2. p = PortPool(i)
    BY <1>0, <2>1, PortPools
  <2>3. /\ Desired("listener", i) = {listenerForPort(want, i)}
        /\ Desired("monitor", i) = {healthMonitorForPort(want)}
    BY DEF Desired
  <2>4. \E l \in cloud.listener :
            l.pool = p.id /\ key("listener", l) = key("listener", listenerForPort(want, i))
    BY <2>2, <2>3, RightPart
  <2>5. \E a \in cloud.monitor : a.pool = p.id
    BY <2>2, <2>3, RightPart
  <2>6. Bare(Of("member", p)) = desiredMembers(want, i)
    BY <2>2, RightMembers
  <2> QED BY <2>4, <2>5, <2>6, KeyOfKind
<1> QED BY <1>1, RightPools DEF PortsDone

LEMMA AtParts ==
    ASSUME NEW t, NEW S
    PROVE  /\ \A b \in At(t, S) : b.action \in S
           /\ \A a \in S : \E b \in At(t, S) : b.action = a
<1>1. \A b \in At(t, S) : b.action \in S
  BY DEF At
<1>2. ASSUME NEW a \in S PROVE \E b \in At(t, S) : b.action = a
  <2>1. [turn |-> t, action |-> a] \in At(t, S)
    BY DEF At
  <2> QED BY <2>1
<1> QED BY <1>1, <1>2

\* What the last plan is made of.
LEMMA LastParts ==
    ASSUME Unchanging, NEW order, plan' = nextLbActions(want, order)
    PROVE  /\ \A b \in plan' : \/ b.action \in Rename(want)
                               \/ \E i \in DOMAIN want.config.ports : b.action \in UpdateActions(want, i)
                               \/ b.action \in FloatingIPActions(want)
           /\ \A a \in Rename(want) : Planned(a)'
           /\ \A i \in DOMAIN want.config.ports : \A a \in UpdateActions(want, i) : Planned(a)'
           /\ \A a \in FloatingIPActions(want) : Planned(a)'
<1> DEFINE n == Len(want.config.ports) + 1
<1>1. plan' = At(0, Rename(want)) \cup (Updates(want) \cup At(n, FloatingIPActions(want)))
  BY DEF nextLbActions, Unchanging
<1>2. \A t, S : /\ \A b \in At(t, S) : b.action \in S
                /\ \A a \in S : \E b \in At(t, S) : b.action = a
  BY AtParts
<1>3. /\ \A b \in Updates(want) : \E i \in DOMAIN want.config.ports : b.action \in UpdateActions(want, i)
      /\ \A i \in DOMAIN want.config.ports : \A a \in UpdateActions(want, i) :
            \E b \in Updates(want) : b.action = a
  BY <1>2 DEF Updates
<1> HIDE DEF n
<1> QED BY <1>1, <1>2, <1>3 DEF Planned

LEMMA ListenerUpdate ==
    ASSUME Unchanging, NEW l \in cloud.listener, NEW f \in ListenerSettings,
           l.settings[f] # want.config.settings[f]
    PROVE  \E i \in DOMAIN want.config.ports :
               Update("listener", l, "settings", f, want.config.settings[f]) \in UpdateActions(want, i)
<1>1. PICK i \in DOMAIN want.config.ports : l.pool = PortPool(i).id
  BY PortOf
<1> DEFINE d == listenerForPort(want, i)
           M == Match("listener", {d}, Of("listener", PortPool(i)))
<1>2. Desired("listener", i) = {d} /\ d.settings = want.config.settings
  BY DEF Desired, listenerForPort
<1>3. <<d, l>> \in M
  BY <1>1, <1>2, RightPart
<1> HIDE DEF d
<1>4. UNION {{Update("listener", m[2], "settings", g, m[1].settings[g]) :
                  g \in {h \in ListenerSettings : m[1].settings[h] # m[2].settings[h]}} : m \in M}
        \subseteq UpdateActions(want, i)
  BY DEF UpdateActions, PortPool, d
<1>5. Update("listener", l, "settings", f, want.config.settings[f])
        \in UNION {{Update("listener", m[2], "settings", g, m[1].settings[g]) :
                  g \in {h \in ListenerSettings : m[1].settings[h] # m[2].settings[h]}} : m \in M}
  <2> DEFINE m == <<d, l>>
  <2>1. /\ m \in M /\ m[1].settings = want.config.settings /\ m[2] = l
        /\ f \in {h \in ListenerSettings : m[1].settings[h] # m[2].settings[h]}
    BY <1>2, <1>3
  <2> HIDE DEF m, M
  <2> QED BY <2>1
<1> QED BY <1>4, <1>5


\* A monitor that is not to be replaced has options if the service wants some.
LEMMA MonitorHttp ==
    ASSUME Assumed, want.config \in Configs, FieldsInv, NEW a \in cloud.monitor,
           monitorKey(a) = monitorKey(healthMonitorForPort(want))
    PROVE  LET m == healthMonitorForPort(want) IN
           /\ m.http # None => IsHttp(a.http) /\ a.http # None
           /\ m.http = None => a.http = IF a.type = "http" THEN DefaultHTTP ELSE None
<1>1. PICK c \in Configs : HttpFrom(a, c)
  BY DEF FieldsInv
<1>2. MonitorOf(c).http = None <=> MonitorOf(want.config).http = None
  BY <1>1, WantMonitor DEF Assumed, HttpKept, HttpFrom
<1>3. IsHttp(a.http) => a.http # None
  BY HttpIsNotNone DEF Assumed
<1> QED BY <1>1, <1>2, <1>3, WantMonitor DEF HttpFrom

LEMMA MonitorUpdate ==
    ASSUME Assumed, Unchanging, NEW a \in cloud.monitor
    PROVE  LET m == healthMonitorForPort(want) IN
           /\ monitorKey(a) = monitorKey(m)
           /\ \A f \in MonitorNumbers : a.numbers[f] # want.config.numbers[f] =>
                 \E i \in DOMAIN want.config.ports :
                     Update("monitor", a, "numbers", f, want.config.numbers[f])
                        \in UpdateActions(want, i)
           /\ m.http # None => \A o \in HttpOptions : a.http[o] # m.http[o] =>
                 \E i \in DOMAIN want.config.ports :
                     Update("monitor", a, "http", o, m.http[o]) \in UpdateActions(want, i)
<1>1. PICK i \in DOMAIN want.config.ports : a.pool = PortPool(i).id
  BY PortOf
<1> DEFINE d == healthMonitorForPort(want)
           M == Match("monitor", {d}, Of("monitor", PortPool(i)))
           H == {n \in M : n[1].http # None /\ n[2].http # None}
           Numbers == UNION {{Update("monitor", m[2], "numbers", f, m[1].numbers[f]) :
                                 f \in {g \in MonitorNumbers : m[1].numbers[g] # m[2].numbers[g]}}
                             : m \in M}
           Options == UNION {{Update("monitor", m[2], "http", o, m[1].http[o]) :
                                 o \in {x \in HttpOptions : HttpDiffers(x, m[1].http[x], m[2].http[x])}}
                             : m \in H}
<1>2. Desired("monitor", i) = {d} /\ d.numbers = want.config.numbers
  BY DEF Desired, healthMonitorForPort
<1>3. <<d, a>> \in M
  BY <1>1, <1>2, RightPart
<1>4. monitorKey(a) = monitorKey(d)
  <2>1. key("monitor", d) = key("monitor", a)
    BY <1>3 DEF Match
  <2> QED BY <2>1, KeyOfKind
<1>5. d.http # None => a.http # None
  BY <1>4, MonitorHttp DEF Unchanging, TypeOK
<1>6. Numbers \subseteq UpdateActions(want, i) /\ Options \subseteq UpdateActions(want, i)
  BY DEF UpdateActions, PortPool
<1> HIDE DEF d
<1> DEFINE m == <<d, a>>
<1>7. m \in M /\ m[1] = d /\ m[2] = a
  BY <1>3
<1>8. d.http # None => m \in H
  BY <1>5, <1>7
<1> HIDE DEF m, M, H
<1>9. ASSUME NEW f \in MonitorNumbers, a.numbers[f] # want.config.numbers[f]
      PROVE  Update("monitor", a, "numbers", f, want.config.numbers[f]) \in Numbers
  <2>1. f \in {g \in MonitorNumbers : m[1].numbers[g] # m[2].numbers[g]}
    BY <1>2, <1>7, <1>9
  <2> QED BY <1>2, <1>7, <2>1
<1>10. ASSUME d.http # None, NEW o \in HttpOptions, a.http[o] # d.http[o]
       PROVE  Update("monitor", a, "http", o, d.http[o]) \in Options
  <2>1. HttpDiffers(o, m[1].http[o], m[2].http[o])
    BY <1>7, <1>10 DEF HttpDiffers
  <2> QED BY <1>7, <1>8, <1>10, <2>1
<1> HIDE DEF Numbers, Options
<1> QED BY <1>4, <1>6, <1>9, <1>10 DEF d

\* What the plan updates is brought to what the service wants.
LEMMA UpdatesRight ==
    ASSUME NEW i, NEW a \in UpdateActions(want, i)
    PROVE  a.op = "update" /\ RightUpdate(a)
<1> DEFINE l == listenerForPort(want, i)
           d == healthMonitorForPort(want)
           p == PortPool(i)
<1>1. \/ \E m \in {l} \X Of("listener", p), f \in ListenerSettings :
             a = Update("listener", m[2], "settings", f, m[1].settings[f])
      \/ \E m \in {d} \X Of("monitor", p), o \in HttpOptions :
             m[1].http # None /\ a = Update("monitor", m[2], "http", o, m[1].http[o])
      \/ \E m \in {d} \X Of("monitor", p), f \in MonitorNumbers :
             a = Update("monitor", m[2], "numbers", f, m[1].numbers[f])
  BY DEF UpdateActions, Match, PortPool
<1>2. l.settings = want.config.settings /\ d.numbers = want.config.numbers
  BY DEF listenerForPort, healthMonitorForPort
<1> HIDE DEF l, d, p
<1> QED BY <1>1, <1>2 DEF Update, RightUpdate, d


LEMMA LastPlan ==
    ASSUME Assumed, Planning, FieldsInv, NEW order, plan' = nextLbActions(want, order),
           poolsToDelete(want) \cup poolsToCreate(want) = {}, Contents(want) = {}
    PROVE  ValueInv' /\ LastInv'
<1> DEFINE m == healthMonitorForPort(want)
           Ports == DOMAIN want.config.ports
<1>0. /\ Unchanging /\ want' = want /\ cloud' = cloud /\ pc' = "run" /\ want.config \in Configs
      /\ IsLb(cloud.lb)
  BY PlanningLb DEF Planning, Unchanging, TypeOK
<1>1. \A b \in plan' :
          \/ b.action.op = "rename-lb" /\ b.action = RenameLb(want.config.name)
          \/ b.action.op = "update" /\ RightUpdate(b.action)
          \/ b.action.op = "assign"
  <2>1. \A a \in Rename(want) : a.op = "rename-lb" /\ a = RenameLb(want.config.name)
    BY DEF Rename, RenameLb
  <2>2. \A a \in FloatingIPActions(want) : a.op = "assign"
    BY DEF FloatingIPActions, AssignFloatingIP
  <2> QED BY <1>0, <2>1, <2>2, LastParts, UpdatesRight
<1>2. m' = m /\ \A a : RightUpdate(a)' <=> RightUpdate(a)
  BY <1>0 DEF RightUpdate, healthMonitorForPort
<1>3. Last'
  BY <1>0, <1>1 DEF Last, Refetch
<1>4. ValueInv'
  BY <1>0, <1>1, <1>2, <1>3 DEF ValueInv, Creates
<1>5. PortsDone'
  <2>1. PortsDone
    BY <1>0, PlannedPorts
  <2>2. \A i : /\ desiredMembers(want, i)' = desiredMembers(want, i)
               /\ listenerForPort(want, i)' = listenerForPort(want, i)
    BY <1>0 DEF desiredMembers, desiredAddresses, filterNodesBySelector, listenerForPort
  <2>3. DesiredPools(want)' = DesiredPools(want)
    BY <1>0 DEF DesiredPools, desiredPool
  <2>4. \A p : Of("member", p)' = Of("member", p)
    BY <1>0 DEF Of
  <2>5. \A p : Bare(Of("member", p))' = Bare(Of("member", p))
    BY <2>4
  <2>6. Bare(cloud.pool)' = Bare(cloud.pool)
    BY <1>0
  <2> QED BY <1>0, <2>1, <2>2, <2>3, <2>5, <2>6 DEF PortsDone
<1>6. ListenersNear'
  <2> SUFFICES ASSUME NEW l \in cloud.listener, NEW f \in ListenerSettings,
                      l.settings[f] # want.config.settings[f]
               PROVE  Planned(Update("listener", l, "settings", f, want.config.settings[f]))'
    BY <1>0 DEF ListenersNear, Planned
  <2>1. PICK i \in Ports :
            Update("listener", l, "settings", f, want.config.settings[f]) \in UpdateActions(want, i)
    BY <1>0, ListenerUpdate
  <2> QED BY <1>0, <2>1, LastParts DEF Planned
<1>7. MonitorsNear'
  <2> SUFFICES ASSUME NEW a \in cloud.monitor
               PROVE  /\ monitorKey(a) = monitorKey(m)
                      /\ \A f \in MonitorNumbers :
                            \/ a.numbers[f] = want.config.numbers[f]
                            \/ Planned(Update("monitor", a, "numbers", f, want.config.numbers[f]))'
                      /\ m.http # None => \A o \in HttpOptions :
                            \/ LeftOut(o, m.http[o])
                            \/ a.http[o] = m.http[o]
                            \/ Planned(Update("monitor", a, "http", o, m.http[o]))'
    BY <1>0, <1>2 DEF MonitorsNear, Planned
  <2>1. monitorKey(a) = monitorKey(m)
    BY <1>0, MonitorUpdate
  <2>2. ASSUME NEW f \in MonitorNumbers, a.numbers[f] # want.config.numbers[f]
        PROVE  Planned(Update("monitor", a, "numbers", f, want.config.numbers[f]))'
    <3>1. PICK i \in Ports :
              Update("monitor", a, "numbers", f, want.config.numbers[f]) \in UpdateActions(want, i)
      BY <1>0, <2>2, MonitorUpdate
    <3> QED BY <1>0, <3>1, LastParts DEF Planned
  <2>3. ASSUME m.http # None, NEW o \in HttpOptions, a.http[o] # m.http[o]
        PROVE  Planned(Update("monitor", a, "http", o, m.http[o]))'
    <3>1. PICK i \in Ports : Update("monitor", a, "http", o, m.http[o]) \in UpdateActions(want, i)
      BY <1>0, <2>3, MonitorUpdate
    <3> QED BY <1>0, <1>2, <3>1, LastParts DEF Planned
  <2> QED BY <2>1, <2>2, <2>3
<1>8. LbNear'
  <2>1. cloud.lb.name # want.config.name => Planned(RenameLb(want.config.name))'
    BY <1>0, LastParts DEF Rename, Planned
  <2>2. ASSUME NEW ip \in want.config.ips, ip \notin cloud.ips
        PROVE  Planned(AssignFloatingIP(ip))'
    <3>1. AssignFloatingIP(ip) \in FloatingIPActions(want)
      BY <2>2 DEF FloatingIPActions
    <3> QED BY <1>0, <3>1, LastParts
  <2> QED BY <1>0, <2>1, <2>2 DEF LbNear, Planned
<1>9. \A b \in plan' : b.action.op \in {"rename-lb", "update", "assign"}
  BY <1>1
<1> QED BY <1>4, <1>5, <1>6, <1>7, <1>8, <1>9 DEF LastInv

\* A plan that changes pools, or what is in them, ends with a new look.
LEMMA PoolPlanValues ==
    ASSUME Planning, NEW order, plan' = nextLbActions(want, order),
           poolsToDelete(want) \cup poolsToCreate(want) # {}
    PROVE  ValueInv' /\ LastInv'
<1> DEFINE n == 2 * Cardinality(poolsToDelete(want))
<1>0. want' = want
  BY DEF Planning
<1>1. plan' = At(0, Rename(want)) \cup (PoolActions(want, order) \cup At(n + 2, {Refetch}))
  BY DEF nextLbActions
<1>2. ~Last'
  BY <1>1, AtParts DEF Last
<1>3. \A b \in At(0, Rename(want)) : b.action.op = "rename-lb" /\ b.action = RenameLb(want.config.name)
  BY DEF At, Rename, RenameLb
<1>4. \A b \in At(n + 2, {Refetch}) : b.action.op = "refetch"
  BY DEF At, Refetch
<1>5. \A b \in PoolActions(want, order) :
          b.action.op = "delete" \/ (b.action.op = "create" /\ b.action.kind = "pool")
  BY DEF PoolActions, DeletePools, At, DeleteResource, CreatePool
<1> HIDE DEF n
<1>6. ValueInv'
  BY <1>0, <1>1, <1>3, <1>4, <1>5 DEF ValueInv, Creates
<1> QED BY <1>2, <1>6 DEF LastInv

LEMMA ContentPlanValues ==
    ASSUME Planning, NEW order, plan' = nextLbActions(want, order),
           poolsToDelete(want) \cup poolsToCreate(want) = {}, Contents(want) # {}
    PROVE  ValueInv' /\ LastInv'
<1> DEFINE n == 6 * Len(want.config.ports) + 6
<1>0. want' = want
  BY DEF Planning
<1>1. plan' = At(0, Rename(want)) \cup (Contents(want) \cup At(n, {Refetch}))
  BY DEF nextLbActions
<1>2. ~Last'
  <2> HIDE DEF n
  <2>1. \E b \in At(n, {Refetch}) : b.action = Refetch
    BY AtParts
  <2> QED BY <1>1, <2>1 DEF Last
<1>3. \A b \in At(0, Rename(want)) : b.action.op = "rename-lb" /\ b.action = RenameLb(want.config.name)
  BY DEF At, Rename, RenameLb
<1>4. \A b \in At(n, {Refetch}) : b.action.op = "refetch"
  BY DEF At, Refetch
<1>5. ASSUME NEW b \in Contents(want)
      PROVE  /\ b.action.op \in {"create", "delete"}
             /\ Creates(b, "listener") =>
                   \E i \in DOMAIN want.config.ports : b.action.value = listenerForPort(want, i)
             /\ Creates(b, "monitor") => b.action.value = healthMonitorForPort(want)
  <2>1. PICK i \in DOMAIN want.config.ports : b \in ContentActions(want, i)
    BY DEF Contents
  <2>2. PICK k \in Parts : \/ \E r \in ToDelete(k, i) : DeletesIn(b, k, i, r)
                           \/ \E r \in ToCreate(k, i) : CreatesIn(b, k, i, r)
    BY <2>1, ContentParts
  <2>3. CASE \E r \in ToDelete(k, i) : DeletesIn(b, k, i, r)
    BY <2>3 DEF DeletesIn, DeleteResource, Creates
  <2>4. ASSUME NEW r \in ToCreate(k, i), CreatesIn(b, k, i, r)
        PROVE  /\ b.action.op = "create" /\ b.action.kind = k /\ b.action.value = r
               /\ k = "listener" => r = listenerForPort(want, i)
               /\ k = "monitor" => r = healthMonitorForPort(want)
    <3>1. b.action.op = "create" /\ b.action.kind = k /\ b.action.value = r
      BY <2>4 DEF CreatesIn, CreateIn
    <3> QED BY <3>1 DEF ToCreate, toCreate, Desired
  <2> QED BY <2>2, <2>3, <2>4 DEF Creates
<1> HIDE DEF n
<1>6. \A i : listenerForPort(want, i)' = listenerForPort(want, i)
  BY <1>0 DEF listenerForPort
<1>7. healthMonitorForPort(want)' = healthMonitorForPort(want)
  BY <1>0 DEF healthMonitorForPort
<1>8. ValueInv'
  BY <1>0, <1>1, <1>3, <1>4, <1>5, <1>6, <1>7 DEF ValueInv, Creates
<1> QED BY <1>2, <1>8 DEF LastInv

LEMMA NewPlanValues ==
    ASSUME Assumed, ContentInv, FieldsInv, reconcileLbState
    PROVE  ValueInv' /\ LastInv'
<1>1. pc' = "run" /\ want' = want /\ cloud' = cloud /\ ~Rejected(want)
  BY DEF reconcileLbState
<1>2. CASE plan' = At(1, {CreateLb(desiredLb(want))}) \cup At(2, {Refetch})
  <2>1. \A b \in plan' : b.action.op \in {"create-lb", "refetch"}
    BY <1>2 DEF At, CreateLb, Refetch
  <2>2. ~Last'
    BY <1>2, AtParts DEF Last
  <2> QED BY <2>1, <2>2 DEF ValueInv, LastInv, Creates
<1>3. CASE plan' = At(1, {Refetch})
  <2>1. \A b \in plan' : b.action.op = "refetch"
    BY <1>3 DEF At, Refetch
  <2>2. ~Last'
    BY <1>3, AtParts DEF Last
  <2> QED BY <2>1, <2>2 DEF ValueInv, LastInv, Creates
<1>4. ASSUME cloud.lb # None, NEW order, plan' = nextLbActions(want, order)
      PROVE  ValueInv' /\ LastInv'
  <2>1. Planning
    BY <1>1, <1>4 DEF Planning, ContentInv
  <2> QED BY <1>4, <2>1, PoolPlanValues, ContentPlanValues, LastPlan
<1> QED BY <1>2, <1>3, <1>4 DEF reconcileLbState


-----------------------------------------------------------------------------
(* The last plan, when all of it is done.                                   *)

\* The balancer is a record, and so not None.
LEMMA LbIsNotNone ==
    ASSUME ~IsRecord(None), NEW l, IsLb(l)
    PROVE  l # None
BY DEF IsLb, IsRecord

LEMMA RightListener ==
    ASSUME Assumed, want.config \in Configs, FieldsInv, NEW l \in cloud.listener, NEW i,
           listenerKey(l) = listenerKey(listenerForPort(want, i)),
           \A f \in ListenerSettings : l.settings[f] = want.config.settings[f]
    PROVE  Without(l, {"id", "pool"}) = listenerForPort(want, i)
<1> DEFINE d == listenerForPort(want, i)
           u == Without(l, {"id", "pool"})
<1>1. d = [protocol |-> d.protocol, port |-> d.port, settings |-> want.config.settings]
  BY DEF listenerForPort
<1>2. u = [protocol |-> l.protocol, port |-> l.port, settings |-> l.settings]
  <2>1. DOMAIN l = {"protocol", "port", "settings", "id", "pool"}
    BY DEF FieldsInv
  <2> QED BY <2>1 DEF Without
<1>3. l.settings = want.config.settings
  <2>1. /\ l.settings = [f \in ListenerSettings |-> l.settings[f]]
        /\ want.config.settings = [f \in ListenerSettings |-> want.config.settings[f]]
    BY DEF FieldsInv, Assumed, SettingsGiven
  <2>2. [f \in ListenerSettings |-> l.settings[f]]
          = [f \in ListenerSettings |-> want.config.settings[f]]
    OBVIOUS
  <2> QED BY <2>1, <2>2
<1> HIDE DEF d, u
<1>4. l.protocol = d.protocol /\ l.port = d.port
  BY DEF listenerKey, d
<1> QED BY <1>1, <1>2, <1>3, <1>4 DEF d, u

LEMMA RightMonitor ==
    ASSUME Assumed, want.config \in Configs, FieldsInv, NEW a \in cloud.monitor,
           monitorKey(a) = monitorKey(healthMonitorForPort(want)),
           \A f \in MonitorNumbers : a.numbers[f] = want.config.numbers[f],
           healthMonitorForPort(want).http # None =>
               \A o \in HttpOptions : \/ LeftOut(o, healthMonitorForPort(want).http[o])
                                      \/ a.http[o] = healthMonitorForPort(want).http[o]
    PROVE  Without(a, {"id", "pool"}) = AskedMonitor(want, a)
<1> DEFINE m == healthMonitorForPort(want)
           u == Without(a, {"id", "pool"})
<1>1. m = [type |-> m.type, numbers |-> want.config.numbers, http |-> m.http]
  BY DEF healthMonitorForPort
<1>2. u = [type |-> a.type, numbers |-> a.numbers, http |-> a.http]
  <2>1. DOMAIN a = {"type", "numbers", "http", "id", "pool"}
    BY DEF FieldsInv
  <2> QED BY <2>1 DEF Without
<1>3. a.numbers = want.config.numbers
  <2>1. /\ a.numbers = [f \in MonitorNumbers |-> a.numbers[f]]
        /\ want.config.numbers = [f \in MonitorNumbers |-> want.config.numbers[f]]
    BY DEF FieldsInv, Assumed, SettingsGiven
  <2>2. [f \in MonitorNumbers |-> a.numbers[f]] = [f \in MonitorNumbers |-> want.config.numbers[f]]
    OBVIOUS
  <2> QED BY <2>1, <2>2
<1>4. a.type = m.type
  BY DEF monitorKey
<1>5. /\ m.http # None => IsHttp(a.http) /\ a.http # None /\ IsHttp(m.http)
      /\ m.http = None => a.http = IF a.type = "http" THEN DefaultHTTP ELSE None
  BY MonitorHttp, MonitorFields, WantMonitor
<1>6. AskedMonitor(want, a) =
        IF m.http = None THEN [m EXCEPT !.http = IF m.type = "http" THEN DefaultHTTP ELSE None]
        ELSE IF m.http.host = None /\ a.http # None THEN [m EXCEPT !.http.host = a.http.host]
        ELSE m
  BY DEF AskedMonitor
<1>7. m.http # None => \A o \in HttpOptions : LeftOut(o, m.http[o]) \/ a.http[o] = m.http[o]
  OBVIOUS
<1>8. m.http # None =>
        a.http = IF m.http.host = None THEN [m.http EXCEPT !.host = a.http.host] ELSE m.http
  <2> SUFFICES ASSUME m.http # None
               PROVE  a.http = IF m.http.host = None THEN [m.http EXCEPT !.host = a.http.host]
                               ELSE m.http
    OBVIOUS
  <2>1. a.http.version = m.http.version
    BY <1>5 DEF monitorKey
  <2> HIDE DEF m
  <2>2. \A o \in DOMAIN DefaultHTTP : LeftOut(o, m.http[o]) \/ a.http[o] = m.http[o]
    BY <1>7, <2>1 DEF DefaultHTTP, HttpOptions
  <2>3. "host" \in DOMAIN DefaultHTTP
    BY DEF DefaultHTTP
  <2>4. IsHttp(a.http) /\ IsHttp(m.http)
    BY <1>5
  <2>5. CASE m.http.host = None
    <3> DEFINE e == [m.http EXCEPT !.host = a.http.host]
    <3>1. DOMAIN e = DOMAIN DefaultHTTP /\ DOMAIN a.http = DOMAIN DefaultHTTP
      BY <2>4 DEF IsHttp
    <3>2. \A o \in DOMAIN DefaultHTTP : e[o] = a.http[o]
      BY <2>2, <2>3, <2>4 DEF IsHttp, LeftOut
    <3>3. e = [o \in DOMAIN DefaultHTTP |-> e[o]] /\ a.http = [o \in DOMAIN DefaultHTTP |-> a.http[o]]
      BY <2>4, <3>1 DEF IsHttp
    <3> HIDE DEF e
    <3>4. e = a.http
      BY <3>2, <3>3
    <3> QED BY <2>5, <3>4 DEF e
  <2>6. CASE m.http.host # None
    BY <2>2, <2>4, <2>6 DEF IsHttp, LeftOut
  <2> QED BY <2>5, <2>6
<1> HIDE DEF m, u
<1>9. CASE m.http = None
  <2>1. \A h : [m EXCEPT !.http = h]
                 = [type |-> m.type, numbers |-> want.config.numbers, http |-> h]
    BY <1>1
  <2> QED BY <1>2, <1>3, <1>4, <1>5, <1>6, <1>9, <2>1 DEF u
<1>10. CASE m.http # None
  <2>1. m.http.host = None => [m EXCEPT !.http.host = a.http.host]
          = [type |-> m.type, numbers |-> want.config.numbers,
             http |-> [m.http EXCEPT !.host = a.http.host]]
    BY <1>1
  <2> QED BY <1>1, <1>2, <1>3, <1>4, <1>5, <1>6, <1>8, <1>10, <2>1 DEF u
<1> QED BY <1>9, <1>10

LEMMA PlanDone ==
    ASSUME Assumed, ContentInv, FieldsInv, LastInv, pc = "run", plan = {}
    PROVE  Realises(want)
<1>0. /\ want.config \in Configs /\ NoDuplicates
      /\ PortsDone /\ ListenersNear /\ MonitorsNear /\ LbNear
  BY DEF ContentInv, TypeOK, LastInv, Last
<1>1. \A a : ~Planned(a)
  BY DEF Planned
<1>2. /\ cloud.lb # None /\ cloud.lb.name = want.config.name
      /\ want.config.ips \subseteq cloud.ips
  BY <1>0, <1>1, LbIsNotNone DEF LbNear, Assumed
<1>3. ASSUME NEW i \in DOMAIN want.config.ports, NEW p \in cloud.pool,
             p.name = poolName(want.config.ports[i])
      PROVE  /\ Bare(Of("member", p)) = desiredMembers(want, i)
             /\ Bare(Of("listener", p)) = {listenerForPort(want, i)}
             /\ \E a \in Of("monitor", p) : Bare(Of("monitor", p)) = {AskedMonitor(want, a)}
  <2>1. Bare(Of("member", p)) = desiredMembers(want, i)
    BY <1>0, <1>3 DEF PortsDone
  <2>2. PICK l \in cloud.listener :
            l.pool = p.id /\ listenerKey(l) = listenerKey(listenerForPort(want, i))
    BY <1>0, <1>3 DEF PortsDone
  <2>3. PICK a \in cloud.monitor : a.pool = p.id
    BY <1>0, <1>3 DEF PortsDone
  <2>4. Of("listener", p) = {l} /\ Of("monitor", p) = {a}
    BY <1>0, <2>2, <2>3 DEF Of, NoDuplicates
  <2>5. Without(l, {"id", "pool"}) = listenerForPort(want, i)
    BY <1>0, <1>1, <2>2, RightListener DEF ListenersNear
  <2>6. /\ monitorKey(a) = monitorKey(healthMonitorForPort(want))
        /\ \A f \in MonitorNumbers : a.numbers[f] = want.config.numbers[f]
        /\ healthMonitorForPort(want).http # None =>
               \A o \in HttpOptions : \/ LeftOut(o, healthMonitorForPort(want).http[o])
                                      \/ a.http[o] = healthMonitorForPort(want).http[o]
    BY <1>0, <1>1 DEF MonitorsNear
  <2>7. Without(a, {"id", "pool"}) = AskedMonitor(want, a)
    BY <1>0, <2>6, RightMonitor
  <2>8. \A r : Bare({r}) = {Without(r, {"id", "pool"})}
    BY DEF Bare
  <2> QED BY <2>1, <2>4, <2>5, <2>7, <2>8
<1> QED BY <1>0, <1>2, <1>3 DEF Realises, PortsDone


-----------------------------------------------------------------------------
(* Every step keeps the invariant.                                          *)

\* The contents are the same, and of the balancer at most the status changes.
SameCloud ==
    /\ \A k \in Kinds : cloud'[k] = cloud[k]
    /\ cloud'.ips = cloud.ips
    /\ cloud.lb # None => cloud'.lb.name = cloud.lb.name /\ IsLb(cloud'.lb)

LEMMA CloudStays ==
    ASSUME ShapeInv, cloud' = cloud \/ Provision
    PROVE  SameCloud
<1>1. CASE cloud' = cloud
  BY <1>1 DEF SameCloud, ShapeInv
<1>2. CASE Provision
  <2>1. cloud.lb # None /\ IsLb(cloud.lb) /\ cloud' = [cloud EXCEPT !.lb.status = "running"]
    BY <1>2 DEF Provision, ShapeInv
  <2>2. /\ \A k \in Kinds : cloud'[k] = cloud[k]
        /\ cloud'.ips = cloud.ips
        /\ cloud'.lb = [cloud.lb EXCEPT !.status = "running"]
    BY <2>1, CloudShape DEF Fields, Kinds, IsRecord
  <2>3. IsLb(cloud'.lb) /\ cloud'.lb.name = cloud.lb.name
    BY <2>1, <2>2 DEF IsLb
  <2> QED BY <2>2, <2>3 DEF SameCloud
<1> QED BY <1>1, <1>2

LEMMA SameFields ==
    ASSUME FieldsInv, SameCloud
    PROVE  FieldsInv'
<1>1. /\ cloud'.pool = cloud.pool /\ cloud'.member = cloud.member
      /\ cloud'.listener = cloud.listener /\ cloud'.monitor = cloud.monitor
  BY DEF SameCloud, Kinds
<1> QED BY <1>1 DEF FieldsInv

\* What a service asks for depends on the service.
LEMMA SameWishes ==
    ASSUME want' = want
    PROVE  /\ \A i : /\ desiredMembers(want, i)' = desiredMembers(want, i)
                     /\ listenerForPort(want, i)' = listenerForPort(want, i)
           /\ DesiredPools(want)' = DesiredPools(want)
           /\ healthMonitorForPort(want)' = healthMonitorForPort(want)
           /\ \A a : AskedMonitor(want, a)' = AskedMonitor(want, a)
           /\ \A a : RightUpdate(a)' <=> RightUpdate(a)
<1>1. healthMonitorForPort(want)' = healthMonitorForPort(want)
  BY DEF healthMonitorForPort
<1> QED BY <1>1 DEF desiredMembers, desiredAddresses, filterNodesBySelector, listenerForPort,
                    DesiredPools, desiredPool, RightUpdate, AskedMonitor

LEMMA SameRealises ==
    ASSUME Assumed, SameCloud, want' = want, Realises(want)
    PROVE  Realises(want)'
<1>1. /\ cloud'.pool = cloud.pool /\ cloud'.member = cloud.member /\ cloud'.ips = cloud.ips
      /\ cloud'.listener = cloud.listener /\ cloud'.monitor = cloud.monitor
  BY DEF SameCloud, Kinds
<1>2. \A p : /\ Bare(Of("member", p))' = Bare(Of("member", p))
             /\ Bare(Of("listener", p))' = Bare(Of("listener", p))
             /\ Bare(Of("monitor", p))' = Bare(Of("monitor", p))
             /\ Of("monitor", p)' = Of("monitor", p)
  BY <1>1 DEF Of
<1>3. cloud.lb # None /\ cloud'.lb # None /\ cloud'.lb.name = cloud.lb.name
  BY LbIsNotNone DEF Realises, SameCloud, Assumed
<1>4. Bare(cloud.pool)' = Bare(cloud.pool)
  BY <1>1
<1> QED BY <1>1, <1>2, <1>3, <1>4, SameWishes DEF Realises

LEMMA SamePlanValues ==
    ASSUME ValueInv, LastInv, ContentInv, Assumed, SameCloud, UNCHANGED <<plan, pc, want>>
    PROVE  ValueInv' /\ LastInv'
<1>0. Last' <=> Last
  BY DEF Last
<1>1. /\ cloud'.pool = cloud.pool /\ cloud'.member = cloud.member /\ cloud'.ips = cloud.ips
      /\ cloud'.listener = cloud.listener /\ cloud'.monitor = cloud.monitor
  BY DEF SameCloud, Kinds
<1>2. ValueInv'
  BY <1>0, SameWishes DEF ValueInv, Creates
<1>3. ASSUME Last PROVE PortsDone'
  <2>1. PortsDone
    BY <1>3 DEF LastInv
  <2>2. \A p : Bare(Of("member", p))' = Bare(Of("member", p))
    BY <1>1 DEF Of
  <2>3. Bare(cloud.pool)' = Bare(cloud.pool)
    BY <1>1
  <2> QED BY <1>1, <2>1, <2>2, <2>3, SameWishes DEF PortsDone
<1>4. ASSUME Last PROVE ListenersNear' /\ MonitorsNear'
  <2>1. ListenersNear /\ MonitorsNear
    BY <1>4 DEF LastInv
  <2>2. ListenersNear'
    BY <1>1, <2>1 DEF ListenersNear, Planned
  <2>3. MonitorsNear'
    BY <1>1, <2>1, SameWishes DEF MonitorsNear, Planned
  <2> QED BY <2>2, <2>3
<1>5. ASSUME Last PROVE LbNear'
  <2>1. LbNear
    BY <1>5 DEF LastInv
  <2>2. cloud.lb # None
    BY <2>1, LbIsNotNone DEF LbNear, Assumed
  <2>3. IsLb(cloud'.lb) /\ cloud'.lb.name = cloud.lb.name
    BY <2>2 DEF SameCloud
  <2> QED BY <1>1, <2>1, <2>3 DEF LbNear, Planned
<1>6. LastInv'
  BY <1>0, <1>3, <1>4, <1>5 DEF LastInv
<1> QED BY <1>2, <1>6

LEMMA NoPlanValues ==
    ASSUME plan' = {}, pc' # "run"
    PROVE  ValueInv' /\ LastInv'
BY DEF ValueInv, LastInv, Last

LEMMA FailSettles ==
    ASSUME Assumed, ContentInv, SettleInv, Fail, cloud' = cloud \/ \E b : Does(b)
    PROVE  SettleInv'
<1>0. ShapeInv /\ FieldsInv /\ ValueInv /\ LastInv
  BY DEF ContentInv, SettleInv
<1>1. pc' = "idle" /\ plan' = {} /\ "service" \in due'
  BY DEF Fail
<1>2. FieldsInv'
  BY <1>0, ActionFields, CloudStays, SameFields
<1>3. ValueInv' /\ LastInv'
  BY <1>1, NoPlanValues
<1>4. DueInv' /\ IdleInv'
  BY <1>1 DEF DueInv, UpToDate, IdleInv
<1> QED BY <1>2, <1>3, <1>4 DEF SettleInv

\* A new call is made with what there is.
LEMMA CallSettles ==
    ASSUME Assumed, ContentInv, SettleInv, NEW kind \in CallKinds, Call(kind)
    PROVE  DueInv' /\ IdleInv'
<1> DEFINE svc == IF kind = "service" THEN service ELSE known
           copies == [config |-> svc.config, zone |-> svc.zone, nodes |-> nodes]
<1>0. DueInv /\ IdleInv /\ DOMAIN waiting = CallKinds
  BY DEF ContentInv, SettleInv, TypeOK
<1>1. /\ svc # None /\ known' = svc /\ newest' = kind
      /\ waiting' = [waiting EXCEPT ![kind] = copies]
      /\ UNCHANGED <<service, nodes, pc, want, cloud>>
  BY DEF Call
<1>2. due' = IF kind = "service" THEN {} ELSE due \ {"nodes"}
  BY DEF Call
<1>3. "service" \notin due' => svc.config = service.config
  BY <1>0, <1>2 DEF DueInv
<1>4. copies.config = svc.config /\ copies.nodes = nodes /\ copies # None
  BY DEF Assumed, IsRecord
<1> HIDE DEF svc, copies
<1>5. waiting'[kind] = copies /\ \A k \in CallKinds \ {kind} : waiting'[k] = waiting[k]
  BY <1>0, <1>1
<1>6. DueInv'
  BY <1>1, <1>3, <1>4, <1>5 DEF DueInv, UpToDate
<1>7. IdleInv'
  <2>1. CASE kind = "service"
    BY <1>4, <1>5, <2>1 DEF IdleInv
  <2>2. CASE kind = "nodes"
    <3>1. SameCloud
      BY <1>1, CloudStays DEF ContentInv
    <3> QED BY <1>0, <1>1, <1>2, <1>5, <2>2, <3>1, SameRealises DEF IdleInv, CallKinds
  <2> QED BY <2>1, <2>2 DEF CallKinds
<1> QED BY <1>6, <1>7

LEMMA SettleStep ==
    ASSUME Assumed, ContentInv, SettleInv, [Next]_vars
    PROVE  SettleInv'
<1>0. ShapeInv /\ FieldsInv /\ ValueInv /\ LastInv /\ DueInv /\ IdleInv
  BY DEF ContentInv, SettleInv
<1>1. cloud' = cloud \/ Provision => SameCloud /\ FieldsInv'
  BY <1>0, CloudStays, SameFields
<1>2. ASSUME NEW kind \in CallKinds, Call(kind) PROVE SettleInv'
  <2>1. UNCHANGED <<pc, want, plan, cloud>>
    BY <1>2 DEF Call
  <2>2. ValueInv' /\ LastInv'
    BY <1>0, <1>1, <2>1, SamePlanValues
  <2> QED BY <1>1, <1>2, <2>1, <2>2, CallSettles DEF SettleInv
<1>3. ASSUME NEW kind \in CallKinds, lockForService(kind) PROVE SettleInv'
  <2>1. /\ waiting' = [waiting EXCEPT ![kind] = None] /\ want' = waiting[kind]
        /\ call' = kind /\ pc' = "fetch" /\ waiting[kind] # None
        /\ UNCHANGED <<service, nodes, due, known, newest, plan, cloud>>
    BY <1>3 DEF lockForService
  <2>2. plan' = {} /\ DOMAIN waiting = CallKinds /\ newest \in CallKinds
    BY <1>3, <2>1 DEF lockForService, ContentInv, TypeOK
  <2>3. \A k \in CallKinds : waiting'[k] = IF k = kind THEN None ELSE waiting[k]
    BY <2>1, <2>2
  <2>4. DueInv' /\ IdleInv'
    BY <1>0, <2>1, <2>2, <2>3 DEF DueInv, UpToDate, IdleInv
  <2> QED BY <1>1, <2>1, <2>2, <2>4, NoPlanValues DEF SettleInv
<1>4. CASE reconcileLbState
  <2>1. cloud' = cloud /\ pc' = "run" /\ UNCHANGED <<service, nodes, due, calls, call, want>>
    BY <1>4 DEF reconcileLbState
  <2>2. DueInv' /\ IdleInv'
    BY <1>0, <2>1 DEF DueInv, UpToDate, IdleInv, calls
  <2> QED BY <1>0, <1>1, <1>4, <2>1, <2>2, NewPlanValues DEF SettleInv
<1>5. CASE RejectConfig
  BY <1>5, FailSettles DEF RejectConfig
<1>6. CASE runActions
  <2>1. PICK b \in Foremost : pc = "run" /\ (RunAction(b) \/ RunRefused(b) \/ RunRefetch(b))
    BY <1>6 DEF runActions
  <2>2. CASE RunAction(b)
    <3>1. Does(b)
      BY <2>1, <2>2 DEF Does, RunAction
    <3>2. plan' = plan \ {b} /\ UNCHANGED <<service, nodes, due, calls, call, pc, want>>
      BY <2>2 DEF RunAction
    <3>3. FieldsInv' /\ ValueInv' /\ LastInv'
      BY <1>0, <3>1, <3>2, ActionFields, RunLastInv
    <3>4. DueInv' /\ IdleInv'
      BY <1>0, <2>1, <3>2 DEF DueInv, UpToDate, IdleInv, calls
    <3> QED BY <3>3, <3>4 DEF SettleInv
  <2>3. CASE RunRefused(b)
    BY <2>3, FailSettles DEF RunRefused
  <2>4. CASE RunRefetch(b)
    <3>1. /\ cloud' = cloud /\ plan' = {} /\ pc' = "fetch"
          /\ UNCHANGED <<service, nodes, due, calls, call, want>>
      BY <2>4 DEF RunRefetch
    <3>2. DueInv' /\ IdleInv'
      BY <1>0, <3>1 DEF DueInv, UpToDate, IdleInv, calls
    <3> QED BY <1>1, <3>1, <3>2, NoPlanValues DEF SettleInv
  <2> QED BY <2>1, <2>2, <2>3, <2>4
<1>7. CASE Return
  <2>1. /\ pc = "run" /\ plan = {} /\ pc' = "idle" /\ plan' = {} /\ cloud' = cloud
        /\ UNCHANGED <<nodes, calls, call, want>> /\ (due' = due \/ "service" \in due')
    BY <1>7 DEF Return
  <2>2. service'.config = service.config
    BY <1>0, <1>7 DEF Return, ShapeInv
  <2>3. Realises(want)'
    BY <1>0, <1>1, <2>1, PlanDone, SameRealises
  <2>4. DueInv'
    BY <1>0, <2>1, <2>2 DEF DueInv, UpToDate, calls
  <2>5. IdleInv'
    BY <2>3 DEF IdleInv
  <2> QED BY <1>1, <2>1, <2>4, <2>5, NoPlanValues DEF SettleInv
<1>8. CASE CallFails
  BY <1>8, CallFailsStep, FailSettles
<1>9. CASE Crash
  <2>1. cloud' = cloud /\ pc' = "idle" /\ plan' = {} /\ "service" \in due'
    BY <1>9 DEF Crash
  <2>2. DueInv' /\ IdleInv'
    BY <2>1 DEF DueInv, UpToDate, IdleInv
  <2> QED BY <1>1, <2>1, <2>2, NoPlanValues DEF SettleInv
<1>10. CASE Provision \/ UNCHANGED vars
  <2>1. /\ UNCHANGED <<service, nodes, due, calls, call, pc, want, plan>>
        /\ Provision \/ cloud' = cloud
    BY <1>10 DEF Provision, vars, calls
  <2>2. ValueInv' /\ LastInv'
    BY <1>0, <1>1, <2>1, SamePlanValues
  <2>3. DueInv'
    BY <1>0, <2>1 DEF DueInv, UpToDate, calls
  <2>4. IdleInv'
    BY <1>0, <1>1, <2>1, SameRealises DEF IdleInv, calls
  <2> QED BY <1>1, <2>1, <2>2, <2>3, <2>4 DEF SettleInv
<1>11. CASE EditService \/ MoveNodes
  <2>1. UNCHANGED <<calls, call, pc, want, plan, cloud>>
    BY <1>11 DEF EditService, MoveNodes
  <2>2. ValueInv' /\ LastInv'
    BY <1>0, <1>1, <2>1, SamePlanValues
  <2>3. "service" \in due' \/ (service' = service /\ "service" \notin due /\ due' # {})
    BY <1>11 DEF EditService, MoveNodes
  <2>4. DueInv'
    BY <1>0, <2>1, <2>3 DEF DueInv, UpToDate, calls
  <2>5. IdleInv'
    BY <1>0, <1>1, <2>1, <2>3, SameRealises DEF IdleInv, calls
  <2> QED BY <1>1, <2>1, <2>2, <2>4, <2>5 DEF SettleInv
<1> QED BY <1>2, <1>3, <1>4, <1>5, <1>6, <1>7, <1>8, <1>9, <1>10, <1>11 DEF Next

LEMMA SettleInit == Init => SettleInv
<1> SUFFICES ASSUME Init PROVE SettleInv
  OBVIOUS
<1>1. /\ cloud.pool = {} /\ cloud.member = {} /\ cloud.listener = {} /\ cloud.monitor = {}
      /\ plan = {} /\ pc = "idle" /\ "service" \in due
  BY DEF Init
<1> QED BY <1>1 DEF SettleInv, FieldsInv, ValueInv, LastInv, Last, DueInv, UpToDate, IdleInv

\* What a service asks for does not depend on its zone.
LEMMA RealisesCurrent ==
    ASSUME Realises(want), want.config = service.config, want.nodes = nodes
    PROVE  Realises(Current)
<1>1. Current.config = want.config /\ Current.nodes = want.nodes
  BY DEF Current
<1>2. \A i : /\ desiredMembers(Current, i) = desiredMembers(want, i)
             /\ listenerForPort(Current, i) = listenerForPort(want, i)
             /\ desiredPool(Current, i) = desiredPool(want, i)
  BY <1>1 DEF desiredMembers, desiredAddresses, filterNodesBySelector, listenerForPort, desiredPool
<1>3. DesiredPools(Current) = DesiredPools(want)
  BY <1>1, <1>2 DEF DesiredPools
<1>4. \A a : AskedMonitor(Current, a) = AskedMonitor(want, a)
  <2>1. healthMonitorForPort(Current) = healthMonitorForPort(want)
    BY <1>1 DEF healthMonitorForPort
  <2> QED BY <2>1 DEF AskedMonitor
<1> HIDE DEF Current
<1> QED BY <1>1, <1>2, <1>3, <1>4 DEF Realises

\* When all calls have returned without an error, the balancer is what the last
\* of them was called for, and what the latest service and nodes ask for if
\* that call was not overtaken by a later one while it waited for the mutex:
\* for any configurations that give all settings and between which HTTP options
\* do not come or go unnoticed, and whatever was changed, moved, interrupted or
\* refused before.
THEOREM SettledHolds ==
    ASSUME SettingsGiven, HttpKept, ~IsRecord(None)
    PROVE  Spec => []Settled
<1>0. Assumed
  BY DEF Assumed
<1>1. ContentInv /\ SettleInv /\ [Next]_vars => SettleInv'
  BY <1>0, SettleStep
<1>2. ASSUME ContentInv, SettleInv PROVE Settled
  <2> SUFFICES ASSUME Quiescent PROVE Realises(want) /\ (call = newest => Realises(Current))
    BY DEF Settled
  <2>1. due = {} /\ waiting[newest] = None /\ waiting["service"] = None /\ pc = "idle"
    BY <1>2 DEF Quiescent, ContentInv, TypeOK, CallKinds
  <2>2. Realises(want)
    BY <1>2, <2>1 DEF SettleInv, IdleInv
  <2>3. call = newest => want.config = service.config /\ want.nodes = nodes
    BY <1>2, <2>1 DEF SettleInv, DueInv, UpToDate
  <2> QED BY <2>2, <2>3, RealisesCurrent
<1>3. ContentInv /\ SettleInv => Settled
  BY <1>2
<1> QED BY <1>1, <1>3, SettleInit, ContentInvHolds, PTL DEF Spec


-----------------------------------------------------------------------------
(* Nothing is left to do.                                                   *)

\* A balancer that is what the service asks for.
Settles == ContentInv /\ FieldsInv /\ Realises(want)

LEMMA NoPoolsToChange ==
    ASSUME Settles
    PROVE  poolsToDelete(want) = {} /\ poolsToCreate(want) = {}
<1>0. Bare(cloud.pool) = DesiredPools(want)
  BY DEF Settles, Realises
<1>1. ASSUME NEW p \in cloud.pool PROVE \E d \in DesiredPools(want) : key("pool", d) = key("pool", p)
  <2>1. Without(p, {"id", "pool"}) \in DesiredPools(want)
    BY <1>0 DEF Bare
  <2>2. PICK i \in DOMAIN want.config.ports : Serves(want, p, i)
    BY <2>1 DEF DesiredPools, Serves
  <2>3. poolKey(desiredPool(want, i)) = poolKey(p) /\ desiredPool(want, i) \in DesiredPools(want)
    BY <2>2, ServesKey DEF DesiredPools
  <2> QED BY <2>3, KeyOfKind
<1>2. ASSUME NEW d \in DesiredPools(want) PROVE \E p \in cloud.pool : key("pool", d) = key("pool", p)
  <2>1. PICK p \in cloud.pool : Without(p, {"id", "pool"}) = d
    BY <1>0 DEF Bare
  <2>2. PICK i \in DOMAIN want.config.ports : Serves(want, p, i) /\ d = desiredPool(want, i)
    BY <2>1 DEF DesiredPools, Serves
  <2>3. poolKey(d) = poolKey(p)
    BY <2>2, ServesKey
  <2> QED BY <2>3, KeyOfKind
<1> QED BY <1>1, <1>2 DEF poolsToDelete, poolsToCreate, toDelete, toCreate

\* The contents of the pool of a port.
LEMMA PortSettled ==
    ASSUME Settles, NEW i \in DOMAIN want.config.ports
    PROVE  /\ Bare(Of("member", PortPool(i))) = desiredMembers(want, i)
           /\ Bare(Of("listener", PortPool(i))) = {listenerForPort(want, i)}
           /\ \E a \in Of("monitor", PortPool(i)) :
                 Of("monitor", PortPool(i)) = {a} /\ Without(a, {"id", "pool"}) = AskedMonitor(want, a)
<1>1. /\ want.config \in Configs /\ IdInv /\ NoDuplicates /\ poolsToCreate(want) = {}
      /\ Realises(want)
  BY NoPoolsToChange DEF Settles, ContentInv, TypeOK
<1>2. PortPool(i) \in cloud.pool /\ PortPool(i).name = desiredPool(want, i).name
  BY <1>1, PortPools
<1>3. PortPool(i).name = poolName(want.config.ports[i])
  BY <1>2 DEF desiredPool
<1>4. /\ Bare(Of("member", PortPool(i))) = desiredMembers(want, i)
      /\ Bare(Of("listener", PortPool(i))) = {listenerForPort(want, i)}
  BY <1>1, <1>2, <1>3 DEF Realises
<1>5. PICK a \in Of("monitor", PortPool(i)) :
          Bare(Of("monitor", PortPool(i))) = {AskedMonitor(want, a)}
  BY <1>1, <1>2, <1>3 DEF Realises
<1>6. Of("monitor", PortPool(i)) = {a}
  BY <1>1 DEF Of, NoDuplicates
<1>7. Without(a, {"id", "pool"}) = AskedMonitor(want, a)
  BY <1>5 DEF Bare
<1> QED BY <1>4, <1>6, <1>7

LEMMA AskedKey ==
    ASSUME ~IsRecord(None), NEW a
    PROVE  LET m == healthMonitorForPort(want)
               d == AskedMonitor(want, a)
           IN /\ monitorKey(d) = monitorKey(m)
              /\ d.numbers = want.config.numbers
              /\ m.http # None => \A o \in HttpOptions : LeftOut(o, m.http[o]) \/ d.http[o] = m.http[o]
              /\ DOMAIN d = {"type", "numbers", "http"}
<1> DEFINE m == healthMonitorForPort(want)
           d == AskedMonitor(want, a)
<1>1. m = [type |-> m.type, numbers |-> want.config.numbers, http |-> m.http]
  BY DEF healthMonitorForPort
<1>2. d = IF m.http = None THEN [m EXCEPT !.http = IF m.type = "http" THEN DefaultHTTP ELSE None]
          ELSE IF m.http.host = None /\ a.http # None THEN [m EXCEPT !.http.host = a.http.host]
          ELSE m
  BY DEF AskedMonitor
<1>3. IsHttp(DefaultHTTP) /\ DefaultHTTP.version = "1.1"
  BY DEF IsHttp, DefaultHTTP
<1>4. DefaultHTTP # None
  BY <1>3, HttpIsNotNone
<1>5. m.http # None => IsHttp(m.http)
  BY MonitorFields, WantMonitor
<1> HIDE DEF m, d
<1>6. CASE m.http = None
  <2>1. d = [type |-> m.type, numbers |-> want.config.numbers,
             http |-> IF m.type = "http" THEN DefaultHTTP ELSE None]
    BY <1>1, <1>2, <1>6
  <2> QED BY <1>1, <1>3, <1>4, <1>6, <2>1 DEF monitorKey, m, d
<1>7. CASE m.http # None /\ m.http.host = None /\ a.http # None
  <2> DEFINE h == [m.http EXCEPT !.host = a.http.host]
  <2>1. d = [type |-> m.type, numbers |-> want.config.numbers, http |-> h]
    BY <1>1, <1>2, <1>7
  <2>2. /\ h.version = m.http.version /\ IsHttp(h)
        /\ \A o \in HttpOptions : o # "host" => h[o] = m.http[o]
    BY <1>5, <1>7 DEF IsHttp, DefaultHTTP, HttpOptions
  <2> HIDE DEF h
  <2>3. h # None
    BY <2>2, HttpIsNotNone
  <2>4. monitorKey(d) = monitorKey(m)
    BY <1>1, <1>7, <2>1, <2>2, <2>3 DEF monitorKey
  <2> QED BY <1>7, <2>1, <2>2, <2>4 DEF LeftOut, m, d
<1>8. CASE m.http # None /\ ~(m.http.host = None /\ a.http # None)
  BY <1>1, <1>2, <1>8 DEF m, d
<1> QED BY <1>6, <1>7, <1>8

\* A listener or a monitor, by what it is without its name and pool.
LEMMA BareListener ==
    ASSUME NEW l, NEW i, Without(l, {"id", "pool"}) = listenerForPort(want, i)
    PROVE  listenerKey(l) = listenerKey(listenerForPort(want, i)) /\ l.settings = want.config.settings
<1> DEFINE d == listenerForPort(want, i)
           u == Without(l, {"id", "pool"})
<1>1. DOMAIN d = {"protocol", "port", "settings"} /\ d.settings = want.config.settings
  BY DEF listenerForPort
<1>2. \A f \in DOMAIN u : u[f] = l[f]
  BY DEF Without
<1>3. u = d
  OBVIOUS
<1> HIDE DEF u, d
<1>4. l.protocol = d.protocol /\ l.port = d.port /\ l.settings = d.settings
  BY <1>1, <1>2, <1>3
<1> QED BY <1>1, <1>4 DEF listenerKey, d

LEMMA BareMonitor ==
    ASSUME ~IsRecord(None), NEW a, Without(a, {"id", "pool"}) = AskedMonitor(want, a)
    PROVE  LET m == healthMonitorForPort(want)
           IN /\ monitorKey(a) = monitorKey(m)
              /\ a.numbers = want.config.numbers
              /\ m.http # None => \A o \in HttpOptions : LeftOut(o, m.http[o]) \/ a.http[o] = m.http[o]
<1> DEFINE d == AskedMonitor(want, a)
           u == Without(a, {"id", "pool"})
<1>1. DOMAIN d = {"type", "numbers", "http"}
  BY AskedKey
<1>2. \A f \in DOMAIN u : u[f] = a[f]
  BY DEF Without
<1>3. u = d
  OBVIOUS
<1> HIDE DEF u, d
<1>4. a.type = d.type /\ a.numbers = d.numbers /\ a.http = d.http
  BY <1>1, <1>2, <1>3
<1>5. monitorKey(a) = monitorKey(d)
  BY <1>4 DEF monitorKey
<1> QED BY <1>4, <1>5, AskedKey DEF d


LEMMA NoContentsToChange ==
    ASSUME ~IsRecord(None), Settles
    PROVE  Contents(want) = {}
<1>1. ASSUME NEW i \in DOMAIN want.config.ports, NEW k \in Parts
      PROVE  ToDelete(k, i) = {} /\ ToCreate(k, i) = {}
  <2> DEFINE S == Of(k, PortPool(i))
  <2>1. ASSUME k = "member" PROVE /\ \A r \in S : \E d \in Desired(k, i) : key(k, d) = key(k, r)
                                  /\ \A d \in Desired(k, i) : \E r \in S : key(k, d) = key(k, r)
    <3>1. Bare(S) = Desired(k, i)
      BY <2>1, PortSettled DEF Desired
    <3>2. ASSUME NEW r, NEW d \in Desired(k, i), Without(r, {"id", "pool"}) = d
          PROVE  key(k, d) = key(k, r)
      <4>1. {"address", "subnet", "port", "monitorPort"} \subseteq DOMAIN d
        BY <2>1 DEF Desired, desiredMembers
      <4>2. \A f \in DOMAIN d : d[f] = r[f]
        BY <3>2 DEF Without
      <4>3. poolMemberKey(d) = poolMemberKey(r)
        BY <4>1, <4>2 DEF poolMemberKey
      <4> QED BY <2>1, <4>3, KeyOfKind
    <3>3. \A r \in S : Without(r, {"id", "pool"}) \in Desired(k, i)
      BY <3>1 DEF Bare
    <3>4. \A d \in Desired(k, i) : \E r \in S : Without(r, {"id", "pool"}) = d
      BY <3>1 DEF Bare
    <3> HIDE DEF S
    <3> QED BY <3>2, <3>3, <3>4
  <2>2. ASSUME k = "listener" PROVE /\ \A r \in S : \E d \in Desired(k, i) : key(k, d) = key(k, r)
                                    /\ \A d \in Desired(k, i) : \E r \in S : key(k, d) = key(k, r)
    <3>1. Desired(k, i) = {listenerForPort(want, i)} /\ Bare(S) = {listenerForPort(want, i)}
      BY <2>2, PortSettled DEF Desired
    <3>2. \A r \in S : key(k, listenerForPort(want, i)) = key(k, r)
      BY <2>2, <3>1, BareListener, KeyOfKind DEF Bare
    <3>3. \E r \in S : Without(r, {"id", "pool"}) = listenerForPort(want, i)
      BY <3>1 DEF Bare
    <3> QED BY <3>1, <3>2, <3>3
  <2>3. ASSUME k = "monitor" PROVE /\ \A r \in S : \E d \in Desired(k, i) : key(k, d) = key(k, r)
                                   /\ \A d \in Desired(k, i) : \E r \in S : key(k, d) = key(k, r)
    <3>1. PICK a \in S : S = {a} /\ Without(a, {"id", "pool"}) = AskedMonitor(want, a)
      BY <2>3, PortSettled
    <3>2. key(k, healthMonitorForPort(want)) = key(k, a)
      BY <2>3, <3>1, BareMonitor, KeyOfKind
    <3>3. Desired(k, i) = {healthMonitorForPort(want)}
      BY <2>3 DEF Desired
    <3> HIDE DEF S
    <3> QED BY <3>1, <3>2, <3>3
  <2>4. /\ \A r \in S : \E d \in Desired(k, i) : key(k, d) = key(k, r)
        /\ \A d \in Desired(k, i) : \E r \in S : key(k, d) = key(k, r)
    BY <2>1, <2>2, <2>3 DEF Parts
  <2> QED BY <2>4 DEF ToDelete, ToCreate, toDelete, toCreate
<1>2. \A i \in DOMAIN want.config.ports : \A b : b \notin ContentActions(want, i)
  BY <1>1, ContentParts
<1> QED BY <1>2 DEF Contents

\* In place, only Hosts are set, to what they are or to nothing.
LEMMA OnlyHostsSet ==
    ASSUME ~IsRecord(None), Settles, NEW i \in DOMAIN want.config.ports,
           NEW a \in UpdateActions(want, i)
    PROVE  SameHost(a)
<1> DEFINE p == PortPool(i)
           l == listenerForPort(want, i)
           d == healthMonitorForPort(want)
<1>1. ASSUME NEW m \in {l} \X Of("listener", p) PROVE m[1].settings = m[2].settings
  <2>1. m[1] = l /\ Without(m[2], {"id", "pool"}) = l
    BY PortSettled DEF Bare
  <2> QED BY <2>1, BareListener DEF listenerForPort
<1>2. ASSUME NEW m \in {d} \X Of("monitor", p)
      PROVE  /\ m[1] = d /\ m[2] \in cloud.monitor /\ m[1].numbers = m[2].numbers
             /\ d.http # None => \A o \in HttpOptions :
                   LeftOut(o, d.http[o]) \/ m[2].http[o] = d.http[o]
  <2>1. m[1] = d /\ m[2] \in cloud.monitor /\ Without(m[2], {"id", "pool"}) = AskedMonitor(want, m[2])
    BY PortSettled DEF Of
  <2>2. d.numbers = want.config.numbers
    BY DEF healthMonitorForPort
  <2> HIDE DEF d
  <2> QED BY <2>1, <2>2, BareMonitor DEF d
<1>3. \/ \E m \in {l} \X Of("listener", p), f \in ListenerSettings :
             m[1].settings[f] # m[2].settings[f]
      \/ \E m \in {d} \X Of("monitor", p), o \in HttpOptions :
             /\ m[1].http # None /\ HttpDiffers(o, m[1].http[o], m[2].http[o])
             /\ a = Update("monitor", m[2], "http", o, m[1].http[o])
      \/ \E m \in {d} \X Of("monitor", p), f \in MonitorNumbers :
             m[1].numbers[f] # m[2].numbers[f]
  BY DEF UpdateActions, Match, PortPool
<1> HIDE DEF l, d, p
<1>4. PICK m \in {d} \X Of("monitor", p), o \in HttpOptions :
          /\ m[1].http # None /\ HttpDiffers(o, m[1].http[o], m[2].http[o])
          /\ a = Update("monitor", m[2], "http", o, m[1].http[o])
  BY <1>1, <1>2, <1>3
<1>5. /\ m[1] = d /\ m[2] \in cloud.monitor
      /\ LeftOut(o, d.http[o]) \/ m[2].http[o] = d.http[o]
  BY <1>2, <1>4
<1>6. o = "host"
  BY <1>4, <1>5 DEF HttpDiffers, LeftOut
<1>7. /\ a.op = "update" /\ a.kind = "monitor" /\ a.part = "http" /\ a.field = "host"
      /\ a.id = m[2].id /\ a.value = d.http[o]
  BY <1>4, <1>5, <1>6 DEF Update
<1> QED BY <1>5, <1>6, <1>7 DEF SameHost, LeftOut

\* A call leaves nothing to do for a repetition of it: once all calls have
\* returned and the balancer is running, the plan for the last call holds
\* nothing but updates of Hosts, which the code compares by their addresses,
\* to what they are.
THEOREM QuietHolds ==
    ASSUME SettingsGiven, HttpKept, ~IsRecord(None)
    PROVE  Spec => []Quiet
<1>0. Assumed
  BY DEF Assumed
<1>1. ContentInv /\ SettleInv /\ [Next]_vars => SettleInv'
  BY <1>0, SettleStep
<1>2. ASSUME ContentInv, SettleInv PROVE Quiet
  <2> SUFFICES ASSUME Quiescent, NEW order, NEW b \in nextLbActions(want, order)
               PROVE  SameHost(b.action)
    BY DEF Quiet
  <2>1. Settles
    BY <1>2 DEF Settles, SettleInv, IdleInv, Quiescent, CallKinds
  <2>2. poolsToDelete(want) \cup poolsToCreate(want) = {} /\ Contents(want) = {}
    BY <2>1, NoPoolsToChange, NoContentsToChange
  <2>3. FloatingIPActions(want) = {} /\ Rename(want) = {}
    BY <2>1 DEF Settles, Realises, FloatingIPActions, Rename
  <2>4. \A t : At(t, {}) = {}
    BY DEF At
  <2>5. nextLbActions(want, order)
          = At(0, Rename(want)) \cup (Updates(want)
               \cup At(Len(want.config.ports) + 1, FloatingIPActions(want)))
    BY <2>2 DEF nextLbActions
  <2>6. b \in Updates(want)
    BY <2>3, <2>4, <2>5
  <2>7. PICK i \in DOMAIN want.config.ports : b \in At(i, UpdateActions(want, i))
    BY <2>6 DEF Updates
  <2>8. b.action \in UpdateActions(want, i)
    BY <2>7, AtParts
  <2> QED BY <2>1, <2>8, OnlyHostsSet
<1>3. ContentInv /\ SettleInv => Quiet
  BY <1>2
<1> QED BY <1>1, <1>3, SettleInit, ContentInvHolds, PTL DEF Spec

=============================================================================
