----------------------- MODULE ForwardControlProofs -----------------------
(***************************************************************************)
(* Proofs about the rules of port forwarding, for any number of devices,   *)
(* agents, ports, rules and administrators' requests.                      *)
(***************************************************************************)
EXTENDS ForwardControl, TLAPS

Rows == [enabled : BOOLEAN, online : BOOLEAN, fresh : BOOLEAN]
Bodies == {r \in [id : {0}, src : Devices, dst : Devices, port : Ports, enabled : BOOLEAN] : r.src # r.dst}
Stored == [id : Nat \ {0}, src : Devices, dst : Devices, port : Ports, enabled : BOOLEAN]

Checking == {"source", "target", "capable", "conflict", "write"}
Records ==
  [op : {"none", "enable", "delete device", "create", "update", "delete rule"},
   pc : {"idle", "set", "count", "remove", "erase"} \cup Checking,
   dev : Devices \cup {NoRow}, id : Nat, rule : Bodies \cup {NoRow}, flag : BOOLEAN, body : {<<>>}]

\* What the fields of an administrator's request hold when its handler reads them.
Shape(r) ==
  /\ r.pc \in Checking => r.rule \in Bodies /\ r.op \in {"create", "update"}
  /\ r.op = "create" => r.id = 0
  /\ r.pc \in {"set", "count", "remove"} => r.dev \in Devices

\* The tables are typed and the ids of rules are those of an autoincrement column.
Types ==
  /\ mix \in Mixes /\ devices \in [Devices -> Rows \cup {NoRow}] /\ crossed \subseteq Admins
  /\ rules \subseteq Stored /\ serial \in Nat
  /\ \A r \in rules : r.id <= serial
  /\ \A r, q \in rules : r.id = q.id => r = q
  /\ DOMAIN req = Slots
  /\ \A s \in Admins : req[s] \in Records /\ Shape(req[s])

\* What the statements behind a request have found, and no other request has undone.
Vouched(r) ==
  /\ r.pc \in {"target", "capable", "conflict", "write"} => devices[r.rule.src] # NoRow
  /\ r.pc \in {"capable", "conflict", "write"} => devices[r.rule.dst] # NoRow
  /\ r.pc = "write" /\ r.rule.enabled =>
       \A q \in rules : ~(q.port = r.rule.port /\ q.enabled /\ q.src = r.rule.src /\ q.id # r.id)
  /\ r.pc = "remove" => \A q \in rules : q.enabled => r.dev \notin {q.src, q.dst}

VouchInv == \A s \in Admins \ crossed : Vouched(req[s])

Inv == Types /\ VouchInv /\ PortsDistinct /\ RulesNameDevices
-----------------------------------------------------------------------------
\* The administrators' slots are slots, and no agent's.
LEMMA AdminSlots == Admins \subseteq Slots /\ \A d \in Devices, f \in Devices \cup {"loop", "ticker"} :
                      <<d, f>> \in Slots /\ <<d, f>> \notin Admins
BY SlotAssumption DEF Slots

\* A slot without a request.
LEMMA IdleTyped == Idle \in Records /\ Shape(Idle) /\ Vouched(Idle) /\ Idle.pc = "idle"
BY DEF Idle, Records, Shape, Vouched, Checking

\* A step that writes no rule, removes no device and moves no administrator's request.
LEMMA AgentStep ==
  ASSUME Inv, UNCHANGED <<rules, serial, mix, crossed, unsure>>,
         DOMAIN req' = Slots, \A s \in Admins : req'[s] = req[s],
         devices' \in [Devices -> Rows \cup {NoRow}],
         \A d \in Devices : devices[d] # NoRow => devices'[d] # NoRow
  PROVE  Inv'
<1>1. Types'
  BY DEF Inv, Types
<1>2. VouchInv'
  <2> SUFFICES ASSUME NEW s \in Admins, s \notin crossed PROVE Vouched(req[s])'
    BY DEF VouchInv
  <2>1. Vouched(req[s]) /\ req'[s] = req[s] /\ Shape(req[s])
    BY DEF Inv, VouchInv, Types
  <2>2. req[s].pc \in Checking => req[s].rule.src \in Devices /\ req[s].rule.dst \in Devices
    BY <2>1 DEF Shape, Bodies
  <2> QED BY <2>1, <2>2 DEF Vouched, Checking
<1>3. PortsDistinct'
  BY DEF Inv, PortsDistinct
<1>4. RulesNameDevices'
  <2>1. \A r \in rules : r.src \in Devices /\ r.dst \in Devices
    BY DEF Inv, Types, Stored
  <2> QED BY <2>1 DEF Inv, RulesNameDevices
<1> QED BY <1>1, <1>2, <1>3, <1>4 DEF Inv

\* UpsertDevice writes a row and removes none.
LEMMA UpsertRow ==
  ASSUME Types, NEW d, NEW online \in BOOLEAN, UpsertDevice(d, online)
  PROVE  devices' \in [Devices -> Rows \cup {NoRow}] /\ \A e \in Devices : devices[e] # NoRow => devices'[e] # NoRow
<1> DEFINE row == [enabled |-> devices[d] = NoRow \/ devices[d].enabled, online |-> online, fresh |-> TRUE]
<1>1. devices' = [devices EXCEPT ![d] = row]
  BY DEF UpsertDevice
<1>2. d \in Devices => row \in Rows
  BY DEF Rows, Types
<1>3. d \in Devices => row # NoRow
  BY <1>2, RowAssumption DEF Rows
<1> HIDE DEF row
<1> QED BY <1>1, <1>2, <1>3 DEF Types

\* The handlers of an agent's requests.
LEMMA AgentHandlerInv ==
  ASSUME Inv, NEW s \in Slots \ Admins, AgentHandler(s)
  PROVE  Inv'
<1>1. UNCHANGED <<rules, serial, mix, crossed, unsure>>
  BY DEF AgentHandler, AgentRequest, EnsureAgentDeviceAllowed, BootstrapDevice, AnnounceDevice,
         StatusDevice, PutAgentProductState, PutTunnelState, AnswerRules, tables, Rest, bounds, history
<1>2. DOMAIN req' = Slots /\ \A t \in Admins : req'[t] = req[t]
  <2>1. DOMAIN req = Slots
    BY DEF Inv, Types
  <2> DEFINE OnlyOwn == DOMAIN req' = Slots /\ \A t \in Admins : req'[t] = req[t]
  <2>2. ASSUME NEW r, req' = [req EXCEPT ![s] = r] PROVE OnlyOwn
    BY <2>1, <2>2, AdminSlots
  <2>3. \A pc, b : [req EXCEPT ![s].pc = pc, ![s].body = b] = [req EXCEPT ![s] = [req[s] EXCEPT !.pc = pc, !.body = b]]
    OBVIOUS
  <2>4. \A pc : [req EXCEPT ![s].pc = pc] = [req EXCEPT ![s] = [req[s] EXCEPT !.pc = pc]]
    OBVIOUS
  <2>5. ASSUME NEW pc, Goto(s, pc) PROVE OnlyOwn
    BY <2>2, <2>4, <2>5 DEF Goto
  <2>6. ASSUME End(s) PROVE OnlyOwn
    BY <2>2, <2>6 DEF End
  <2>7. ASSUME NEW b, Continue(s, b) PROVE OnlyOwn
    <3>1. CASE DOMAIN b = {}
      BY <2>6, <2>7, <3>1 DEF Continue, Finish
    <3>2. CASE DOMAIN b # {}
      BY <2>2, <2>3, <2>7, <3>2 DEF Continue
    <3> QED BY <3>1, <3>2
  <2> HIDE DEF OnlyOwn
  <2>8. OnlyOwn
    BY <2>5, <2>6, <2>7
       DEF AgentHandler, AgentRequest, EnsureAgentDeviceAllowed, BootstrapDevice, AnnounceDevice,
           StatusDevice, PutAgentProductState, PutTunnelState, AnswerRules, Refuse, Finish
  <2> QED BY <2>8 DEF OnlyOwn
<1>3. devices' \in [Devices -> Rows \cup {NoRow}] /\ \A d \in Devices : devices[d] # NoRow => devices'[d] # NoRow
  <2>1. Types
    BY DEF Inv
  <2>2. CASE devices' = devices
    BY <2>1, <2>2 DEF Types
  <2>3. CASE \E online \in BOOLEAN : UpsertDevice(req[s].dev, online)
    BY <2>1, <2>3, UpsertRow
  <2> QED BY <2>2, <2>3
       DEF AgentHandler, AgentRequest, EnsureAgentDeviceAllowed, BootstrapDevice, AnnounceDevice,
           StatusDevice, PutAgentProductState, PutTunnelState, AnswerRules, tables
<1> QED BY <1>1, <1>2, <1>3, AgentStep

\* What the agents, the UDP server, the LAN service and the clean-up do by themselves.
LEMMA AgentOwnInv ==
  ASSUME Inv, NEW d \in Devices, NEW p \in Devices,
         \/ (Loop(d) \/ UDPRegister(d) \/ LanBootstrap(d) \/ Age(d)) /\ Rest
         \/ StopAgent(d) /\ UNCHANGED history
         \/ (WorkerExits(d, p) \/ DropTunnel(d, p)) /\ Rest
         \/ (WorkerReports(d, p) \/ TickerReports(d, p)) /\ UNCHANGED history
         \/ MarkOfflineBefore /\ Rest
  PROVE  Inv'
<1>1. Types /\ DOMAIN req = Slots
  BY DEF Inv, Types
<1>2. UNCHANGED <<rules, serial, mix, crossed, unsure>>
  BY DEF Loop, StartAgent, SendRegister, PullRules, StopTunnel, StartTunnels, SendHeartbeat, Send,
         UDPRegister, LanBootstrap, Age, StopAgent, WorkerExits, DropTunnel, WorkerReports,
         TickerReports, MarkOfflineBefore, tables, Rest, bounds, history
<1>3. DOMAIN req' = Slots /\ \A t \in Admins : req'[t] = req[t]
  <2>1. ASSUME NEW from \in Devices \cup {"loop", "ticker"}, NEW op, NEW body, Send(d, from, op, body)
        PROVE  DOMAIN req' = Slots /\ \A t \in Admins : req'[t] = req[t]
    BY <1>1, <2>1, AdminSlots DEF Send
  <2>2. CASE UNCHANGED req
    BY <1>1, <2>2
  <2>3. UNCHANGED req \/ \E from \in Devices \cup {"loop", "ticker"} : \E op, body : Send(d, from, op, body)
    BY DEF Loop, StartAgent, SendRegister, PullRules, StopTunnel, StartTunnels, SendHeartbeat,
           UDPRegister, LanBootstrap, Age, StopAgent, WorkerExits, DropTunnel, WorkerReports,
           TickerReports, MarkOfflineBefore
  <2> QED BY <2>1, <2>2, <2>3
<1>4. devices' \in [Devices -> Rows \cup {NoRow}] /\ \A e \in Devices : devices[e] # NoRow => devices'[e] # NoRow
  <2>1. CASE devices' = devices
    BY <1>1, <2>1 DEF Types
  <2>2. CASE \E online \in BOOLEAN : UpsertDevice(d, online)
    BY <1>1, <2>2, UpsertRow
  <2>3. ASSUME NEW row \in Rows
        PROVE  /\ [row EXCEPT !.fresh = FALSE] \in Rows /\ [row EXCEPT !.fresh = FALSE] # NoRow
               /\ [row EXCEPT !.online = FALSE] \in Rows /\ [row EXCEPT !.online = FALSE] # NoRow
    <3>1. [row EXCEPT !.fresh = FALSE] \in Rows /\ [row EXCEPT !.online = FALSE] \in Rows
      BY DEF Rows
    <3> QED BY <3>1, RowAssumption DEF Rows
  <2>4. CASE Age(d)
    <3>1. devices[d] \in Rows /\ devices' = [devices EXCEPT ![d] = [devices[d] EXCEPT !.fresh = FALSE]]
      BY <1>1, <2>4 DEF Age, Types
    <3> DEFINE row == [devices[d] EXCEPT !.fresh = FALSE]
    <3>2. row \in Rows /\ row # NoRow
      BY <2>3, <3>1
    <3> HIDE DEF row
    <3>3. devices' = [devices EXCEPT ![d] = row]
      BY <3>1 DEF row
    <3> QED BY <1>1, <3>2, <3>3 DEF Types
  <2>5. CASE MarkOfflineBefore
    <3>1. \A e \in Devices : /\ devices[e] = NoRow => devices'[e] = NoRow
                             /\ devices[e] # NoRow => devices'[e] \in {devices[e], [devices[e] EXCEPT !.online = FALSE]}
      BY <2>5 DEF MarkOfflineBefore
    <3>2. ASSUME NEW e \in Devices
          PROVE  devices'[e] \in Rows \cup {NoRow} /\ (devices[e] # NoRow => devices'[e] # NoRow)
      <4>1. CASE devices[e] = NoRow
        BY <3>1, <4>1
      <4>2. CASE devices[e] \in Rows
        <5>1. [devices[e] EXCEPT !.online = FALSE] \in Rows /\ [devices[e] EXCEPT !.online = FALSE] # NoRow
          BY <2>3, <4>2
        <5> DEFINE row == [devices[e] EXCEPT !.online = FALSE]
        <5> HIDE DEF row
        <5>2. row \in Rows /\ row # NoRow /\ (devices[e] # NoRow => devices'[e] \in {devices[e], row})
          BY <3>1, <5>1 DEF row
        <5> QED BY <3>1, <4>2, <5>2
      <4> QED BY <1>1, <4>1, <4>2 DEF Types
    <3>3. devices' = [e \in Devices |-> devices'[e]]
      BY <2>5 DEF MarkOfflineBefore
    <3> QED BY <3>2, <3>3
  <2> QED BY <2>1, <2>2, <2>4, <2>5
       DEF Loop, StartAgent, SendRegister, PullRules, StopTunnel, StartTunnels, SendHeartbeat, Send,
           UDPRegister, LanBootstrap, StopAgent, WorkerExits, DropTunnel, WorkerReports,
           TickerReports, tables
<1> QED BY <1>2, <1>3, <1>4, AgentStep

-----------------------------------------------------------------------------
(* The administrator's requests.                                            *)

\* A step of one administrator's request leaves it an idle slot or a typed
\* record, and the others as they were.
LEMMA OwnSlot ==
  ASSUME Types, NEW s \in Admins, NEW r \in Records, Shape(r), req' = [req EXCEPT ![s] = r]
  PROVE  /\ DOMAIN req' = Slots
         /\ \A t \in Admins : req'[t] = IF t = s THEN r ELSE req[t]
         /\ \A t \in Admins : req'[t] \in Records /\ Shape(req'[t])
<1>1. DOMAIN req' = Slots /\ \A t \in Admins : req'[t] = IF t = s THEN r ELSE req[t]
  BY AdminSlots DEF Types
<1> QED BY <1>1 DEF Types

\* A request that goes on to the statement pc.
Onward(r, pc, flag) == [r EXCEPT !.pc = pc, !.flag = flag]
LEMMA GotoRecord ==
  ASSUME NEW r \in Records, Shape(r), NEW pc \in {"remove"} \cup Checking, NEW flag \in BOOLEAN,
         pc \in Checking => r.pc \in Checking, pc = "remove" => r.pc = "count"
  PROVE  /\ Onward(r, pc, flag) \in Records /\ Shape(Onward(r, pc, flag))
         /\ Onward(r, pc, flag).pc = pc /\ Onward(r, pc, flag).rule = r.rule
         /\ Onward(r, pc, flag).id = r.id /\ Onward(r, pc, flag).dev = r.dev
<1> DEFINE q == Onward(r, pc, flag)
<1>1. /\ q \in Records /\ q.pc = pc /\ q.rule = r.rule /\ q.id = r.id /\ q.dev = r.dev
      /\ q.op = r.op
  BY DEF Records, Onward
<1> HIDE DEF q
<1>2. Shape(q)
  BY <1>1 DEF Shape, Checking
<1> QED BY <1>1, <1>2 DEF q

\* A statement that writes no rule and removes no device, after which the
\* request is over or still vouched for.
LEMMA ReadStep ==
  ASSUME Inv, NEW s \in Admins, NEW r \in Records, Shape(r), req' = [req EXCEPT ![s] = r],
         s \notin crossed => Vouched(r), UNCHANGED <<rules, serial, mix>>, ~At(s, "remove"),
         devices' \in [Devices -> Rows \cup {NoRow}],
         \A d \in Devices : devices[d] # NoRow => devices'[d] # NoRow,
         r = Idle \/ r.pc # "idle", Cross(s), Vouch(s)
  PROVE  Inv'
<1>1. /\ DOMAIN req' = Slots
      /\ \A t \in Admins : req'[t] = IF t = s THEN r ELSE req[t]
      /\ \A t \in Admins : req'[t] \in Records /\ Shape(req'[t])
  BY OwnSlot DEF Inv
<1>2. crossed' = crossed \ {t \in Admins : req'[t] = Idle}
  BY DEF Cross
<1>3. unsure \subseteq unsure'
  BY DEF Vouch
<1>4. Types'
  BY <1>1, <1>2 DEF Inv, Types
<1>5. VouchInv'
  <2> SUFFICES ASSUME NEW t \in Admins, t \notin crossed' PROVE Vouched(req[t])'
    BY DEF VouchInv
  <2>1. CASE req'[t] = Idle
    BY <2>1 DEF Vouched, Idle
  <2>2. CASE req'[t] # Idle
    <3>1. t \notin crossed
      BY <1>2, <2>2
    <3>2. Vouched(req'[t]) /\ Shape(req'[t])
      BY <1>1, <3>1 DEF Inv, VouchInv
    <3>3. req'[t].pc \in Checking => req'[t].rule.src \in Devices /\ req'[t].rule.dst \in Devices
      BY <3>2 DEF Shape, Bodies
    <3> QED BY <3>2, <3>3 DEF Vouched, Checking
  <2> QED BY <2>1, <2>2
<1>6. PortsDistinct'
  BY <1>3 DEF Inv, PortsDistinct
<1>7. RulesNameDevices'
  <2>1. \A q \in rules : q.src \in Devices /\ q.dst \in Devices
    BY DEF Inv, Types, Stored
  <2> QED BY <1>3, <2>1 DEF Inv, RulesNameDevices
<1> QED BY <1>4, <1>5, <1>6, <1>7 DEF Inv

\* A request that reads on or is over.
LEMMA QuietAdmin ==
  ASSUME Inv, NEW s \in Admins, Cross(s), Vouch(s), UNCHANGED bounds,
         \/ SetDeviceEnabled(s) \/ EnabledRuleReferenceCount(s) \/ GetSource(s)
         \/ GetTarget(s) \/ AgentCapableDevices(s) \/ LocalPortConflict(s)
  PROVE  Inv'
<1> DEFINE r == req[s]
           To(pc, flag) == Onward(r, pc, flag)
<1>1. /\ r \in Records /\ Shape(r) /\ (s \notin crossed => Vouched(r))
      /\ devices \in [Devices -> Rows \cup {NoRow}]
  BY DEF Inv, Types, VouchInv
<1>2. ~At(s, "remove") /\ UNCHANGED <<rules, serial, mix>>
  BY DEF SetDeviceEnabled, EnabledRuleReferenceCount, GetSource, GetTarget, AgentCapableDevices,
         LocalPortConflict, At, tables, bounds
<1>3. ASSUME End(s), devices' \in [Devices -> Rows \cup {NoRow}],
             \A d \in Devices : devices[d] # NoRow => devices'[d] # NoRow
      PROVE  Inv'
  BY <1>2, <1>3, IdleTyped, ReadStep DEF End
<1>4. CASE SetDeviceEnabled(s)
  <2>1. r.dev \in Devices
    BY <1>1, <1>4 DEF SetDeviceEnabled, At, Shape
  <2>2. CASE devices[r.dev] = NoRow
    BY <1>1, <1>3, <1>4, <2>2 DEF SetDeviceEnabled
  <2>3. CASE devices[r.dev] # NoRow
    <3> DEFINE row == [devices[r.dev] EXCEPT !.enabled = r.flag]
    <3>1. row \in Rows /\ devices' = [devices EXCEPT ![r.dev] = row]
      BY <1>1, <1>4, <2>1, <2>3 DEF SetDeviceEnabled, Rows, Records
    <3> HIDE DEF row
    <3>2. row # NoRow
      BY <3>1, RowAssumption DEF Rows
    <3>3. devices' \in [Devices -> Rows \cup {NoRow}] /\ \A d \in Devices : devices[d] # NoRow => devices'[d] # NoRow
      BY <1>1, <3>1, <3>2
    <3> QED BY <1>3, <1>4, <3>3 DEF SetDeviceEnabled
  <2> QED BY <2>2, <2>3
<1>5. ASSUME devices' = devices, NEW pc \in {"remove"} \cup Checking, NEW flag \in BOOLEAN,
             pc \in Checking => r.pc \in Checking, pc = "remove" => r.pc = "count",
             req' = [req EXCEPT ![s] = To(pc, flag)], s \notin crossed => Vouched(To(pc, flag))
      PROVE  Inv'
  <2> DEFINE q == To(pc, flag)
  <2>1. q \in Records /\ Shape(q) /\ q.pc = pc
    BY <1>1, <1>5, GotoRecord
  <2>2. q.pc # "idle"
    BY <1>5, <2>1 DEF Checking
  <2>3. req' = [req EXCEPT ![s] = q] /\ (s \notin crossed => Vouched(q))
    BY <1>5
  <2> HIDE DEF q
  <2> QED BY <1>1, <1>2, <1>5, <2>1, <2>2, <2>3, ReadStep
<1>6. \A pc : Goto(s, pc) => req' = [req EXCEPT ![s] = To(pc, r.flag)]
  <2> SUFFICES ASSUME NEW pc, Goto(s, pc) PROVE req' = [req EXCEPT ![s] = To(pc, r.flag)]
    OBVIOUS
  <2>1. [r EXCEPT !.pc = pc] = To(pc, r.flag)
    BY <1>1 DEF Records, Onward
  <2>2. req' = [req EXCEPT ![s] = [r EXCEPT !.pc = pc]]
    BY DEF Goto
  <2> QED BY <2>1, <2>2
<1>7. ASSUME NEW pc \in {"remove"} \cup Checking, NEW flag \in BOOLEAN,
             pc \in Checking => r.pc \in Checking, pc = "remove" => r.pc = "count"
      PROVE  /\ To(pc, flag).pc = pc /\ To(pc, flag).rule = r.rule
             /\ To(pc, flag).id = r.id /\ To(pc, flag).dev = r.dev
  BY <1>1, <1>7, GotoRecord
<1>8. r.flag \in BOOLEAN
  BY <1>1 DEF Records
<1> HIDE DEF To
<1>9. CASE EnabledRuleReferenceCount(s)
  <2>1. r.pc = "count" /\ devices' = devices
    BY <1>9 DEF EnabledRuleReferenceCount, At, tables
  <2>2. CASE References(r.dev) # {}
    BY <1>1, <1>3, <1>9, <2>1, <2>2 DEF EnabledRuleReferenceCount
  <2>3. CASE References(r.dev) = {}
    <3>1. Vouched(To("remove", r.flag))
      BY <1>7, <1>8, <2>1, <2>3 DEF Vouched, References, Checking
    <3>2. req' = [req EXCEPT ![s] = To("remove", r.flag)]
      BY <1>6, <1>9, <2>3 DEF EnabledRuleReferenceCount
    <3> QED BY <1>5, <1>8, <2>1, <3>1, <3>2 DEF Checking
  <2> QED BY <2>2, <2>3
<1>10. CASE GetSource(s)
  <2>1. r.pc = "source" /\ devices' = devices /\ r.rule.src \in Devices
    BY <1>1, <1>10 DEF GetSource, At, tables, Shape, Checking, Bodies
  <2>2. CASE devices[r.rule.src] = NoRow
    BY <1>1, <1>3, <1>10, <2>1, <2>2 DEF GetSource
  <2>3. CASE devices[r.rule.src] # NoRow
    <3> DEFINE on == devices[r.rule.src].enabled
    <3>1. on \in BOOLEAN
      BY <1>1, <2>1, <2>3 DEF Rows
    <3>2. req' = [req EXCEPT ![s] = To("target", on)]
      BY <1>10, <2>3 DEF GetSource, To, Onward
    <3> HIDE DEF on
    <3>3. Vouched(To("target", on))
      BY <1>7, <2>1, <2>3, <3>1 DEF Vouched, Checking
    <3> QED BY <1>5, <2>1, <3>1, <3>2, <3>3 DEF Checking
  <2> QED BY <2>2, <2>3
<1>11. CASE GetTarget(s)
  <2>1. r.pc = "target" /\ devices' = devices
    BY <1>11 DEF GetTarget, At, tables
  <2>2. CASE devices[r.rule.dst] = NoRow \/ ~r.flag \/ ~devices[r.rule.dst].enabled
    BY <1>1, <1>3, <1>11, <2>1, <2>2 DEF GetTarget
  <2>3. CASE ~(devices[r.rule.dst] = NoRow \/ ~r.flag \/ ~devices[r.rule.dst].enabled)
    <3>1. s \notin crossed => Vouched(To("capable", r.flag))
      BY <1>1, <1>7, <1>8, <2>1, <2>3 DEF Vouched, Checking
    <3>2. req' = [req EXCEPT ![s] = To("capable", r.flag)]
      BY <1>6, <1>11, <2>3 DEF GetTarget
    <3> QED BY <1>5, <1>8, <2>1, <3>1, <3>2 DEF Checking
  <2> QED BY <2>2, <2>3
<1>12. CASE AgentCapableDevices(s)
  <2>1. r.pc = "capable" /\ devices' = devices
    BY <1>12 DEF AgentCapableDevices, At, tables
  <2>2. CASE ~({r.rule.src, r.rule.dst} \subseteq capable)
    BY <1>1, <1>3, <1>12, <2>1, <2>2 DEF AgentCapableDevices
  <2>3. CASE {r.rule.src, r.rule.dst} \subseteq capable
    <3> DEFINE pc == IF r.rule.enabled THEN "conflict" ELSE "write"
    <3>1. pc \in Checking /\ (pc = "write" => ~r.rule.enabled) /\ pc \in {"conflict", "write"}
      BY DEF Checking
    <3>2. req' = [req EXCEPT ![s] = To(pc, r.flag)]
      BY <1>6, <1>12, <2>3 DEF AgentCapableDevices
    <3> HIDE DEF pc
    <3>3. s \notin crossed => Vouched(To(pc, r.flag))
      BY <1>1, <1>7, <1>8, <2>1, <3>1 DEF Vouched, Checking
    <3> QED BY <1>5, <1>8, <2>1, <3>1, <3>2, <3>3 DEF Checking
  <2> QED BY <2>2, <2>3
<1>13. CASE LocalPortConflict(s)
  <2>1. r.pc = "conflict" /\ devices' = devices
    BY <1>13 DEF LocalPortConflict, At, tables
  <2>2. CASE Conflicts(s) # {}
    BY <1>1, <1>3, <1>13, <2>1, <2>2 DEF LocalPortConflict
  <2>3. CASE Conflicts(s) = {}
    <3>1. \A q \in rules : ~(q.port = r.rule.port /\ q.enabled /\ q.src = r.rule.src /\ q.id # r.id)
      BY <2>3 DEF Conflicts
    <3>2. s \notin crossed => Vouched(To("write", r.flag))
      BY <1>1, <1>7, <1>8, <2>1, <3>1 DEF Vouched, Checking
    <3>3. req' = [req EXCEPT ![s] = To("write", r.flag)]
      BY <1>6, <1>13, <2>3 DEF LocalPortConflict
    <3> QED BY <1>5, <1>8, <2>1, <3>2, <3>3 DEF Checking
  <2> QED BY <2>2, <2>3
<1> QED BY <1>4, <1>9, <1>10, <1>11, <1>12, <1>13

\* A request that ends by writing: the requests it crossed vouch for nothing
\* any more, and those that begin later have not looked yet.
LEMMA WriteStep ==
  ASSUME Inv, NEW s \in Admins, End(s), Cross(s), rules' # rules \/ At(s, "remove"), mix' = mix,
         devices' \in [Devices -> Rows \cup {NoRow}], rules' \subseteq Stored, serial' \in Nat,
         \A r \in rules' : r.id <= serial', \A r, q \in rules' : r.id = q.id => r = q
  PROVE  Types' /\ VouchInv'
<1>1. /\ DOMAIN req' = Slots
      /\ \A t \in Admins : req'[t] = IF t = s THEN Idle ELSE req[t]
      /\ \A t \in Admins : req'[t] \in Records /\ Shape(req'[t])
  BY OwnSlot, IdleTyped DEF Inv, End
<1>2. crossed' = (crossed \cup {t \in Admins : Busy(t)}) \ {t \in Admins : req'[t] = Idle}
  BY DEF Cross
<1>3. Types'
  BY <1>1, <1>2 DEF Inv, Types
<1>4. VouchInv'
  <2> SUFFICES ASSUME NEW t \in Admins, t \notin crossed' PROVE Vouched(req[t])'
    BY DEF VouchInv
  <2>1. req'[t].pc = "idle"
    <3>1. CASE req'[t] = Idle
      BY <3>1, IdleTyped
    <3>2. CASE req'[t] # Idle
      BY <1>1, <1>2, <3>2 DEF Busy, At
    <3> QED BY <3>1, <3>2
  <2> QED BY <2>1 DEF Vouched
<1> QED BY <1>3, <1>4

\* validateRule vouches for the rule that a request stores last.
LEMMA StoreRule ==
  ASSUME Inv, NEW s \in Admins, At(s, "write"), End(s), Cross(s), Vouch(s),
         UNCHANGED <<devices, mix>>,
         NEW x \in Stored, x \notin rules, NEW old \in SUBSET rules, rules' = old \cup {x},
         \A q \in old : q.id # x.id /\ q.id # req[s].id,
         x.src = req[s].rule.src, x.dst = req[s].rule.dst, x.port = req[s].rule.port,
         serial' \in Nat, x.id <= serial', serial <= serial'
  PROVE  Inv'
<1> DEFINE r == req[s]
<1>1. /\ r.pc = "write" /\ r.rule \in Bodies /\ (s \notin crossed => Vouched(r))
      /\ devices \in [Devices -> Rows \cup {NoRow}] /\ rules \subseteq Stored /\ serial \in Nat
      /\ \A q \in rules : q.id <= serial /\ \A p \in rules : p.id = q.id => p = q
  BY DEF Inv, Types, VouchInv, At, Shape, Checking
<1>2. Types' /\ VouchInv'
  <2>1. rules' # rules /\ rules' \subseteq Stored
    BY <1>1
  <2>2. \A q \in rules' : q.id <= serial'
    BY <1>1 DEF Stored
  <2>3. \A p, q \in rules' : p.id = q.id => p = q
    BY <1>1
  <2> QED BY <1>1, <2>1, <2>2, <2>3, WriteStep
<1>3. \A q \in old : q.id \in unsure => q.id \in unsure'
  <2>1. {q.id : q \in rules' \ rules} = {x.id}
    OBVIOUS
  <2> QED BY <2>1 DEF Vouch
<1>4. x.id \in unsure' \/ (s \notin crossed /\ (x.enabled => r.rule.enabled))
  BY DEF Vouch
<1>5. s \notin crossed => /\ devices[x.src] # NoRow /\ devices[x.dst] # NoRow
                          /\ r.rule.enabled => \A q \in old : ~(q.port = x.port /\ q.enabled /\ q.src = x.src)
  BY <1>1 DEF Vouched
<1>6. PortsDistinct'
  <2> SUFFICES ASSUME NEW p \in rules', NEW q \in rules', p.id # q.id, p.enabled, q.enabled,
                      p.src = q.src, p.port = q.port
               PROVE  p.id \in unsure' \/ q.id \in unsure'
    BY DEF PortsDistinct
  <2>1. CASE p \in old /\ q \in old
    BY <1>3, <2>1 DEF Inv, PortsDistinct
  <2>2. CASE p = x \/ q = x
    BY <1>4, <1>5, <2>2
  <2> QED BY <2>1, <2>2
<1>7. RulesNameDevices'
  <2>1. ASSUME NEW q \in old
        PROVE  /\ q.src # q.dst
               /\ q.enabled => (devices'[q.src] # NoRow /\ devices'[q.dst] # NoRow) \/ q.id \in unsure'
    BY <1>3 DEF Inv, RulesNameDevices
  <2>2. x.src # x.dst
    BY <1>1 DEF Bodies
  <2>3. x.enabled => (devices'[x.src] # NoRow /\ devices'[x.dst] # NoRow) \/ x.id \in unsure'
    BY <1>4, <1>5
  <2> QED BY <2>1, <2>2, <2>3 DEF RulesNameDevices
<1> QED BY <1>2, <1>6, <1>7 DEF Inv

\* A statement that ends a request and changes no table.
LEMMA EndStep ==
  ASSUME Inv, NEW s \in Admins, End(s), Cross(s), Vouch(s), ~At(s, "remove"),
         UNCHANGED <<rules, serial, mix, devices>>
  PROVE  Inv'
<1>1. devices' \in [Devices -> Rows \cup {NoRow}]
  BY DEF Inv, Types
<1> QED BY <1>1, IdleTyped, ReadStep DEF End

\* The id of a new rule is one no rule has had.
LEMMA CreateInv ==
  ASSUME Inv, NEW s \in Admins, CreateRule(s), Cross(s), Vouch(s), UNCHANGED bounds
  PROVE  Inv'
<1> DEFINE r == req[s]
<1>1. r.rule \in Bodies /\ r.id = 0 /\ serial \in Nat /\ rules \subseteq Stored
  BY DEF CreateRule, Inv, Types, At, Shape, Checking
<1>2. PICK on \in BOOLEAN : rules' = rules \cup {[r.rule EXCEPT !.id = serial + 1, !.enabled = on]}
  BY <1>1 DEF CreateRule, Bodies
<1> DEFINE x == [r.rule EXCEPT !.id = serial + 1, !.enabled = on]
<1>3. /\ x \in Stored /\ x.id = serial + 1
      /\ x.src = r.rule.src /\ x.dst = r.rule.dst /\ x.port = r.rule.port
  <2>1. serial + 1 \in Nat \ {0}
    BY <1>1
  <2>2. ASSUME NEW n \in Nat \ {0}, NEW b \in Bodies
        PROVE  LET y == [b EXCEPT !.id = n, !.enabled = on]
               IN  /\ y \in Stored /\ y.id = n
                   /\ y.src = b.src /\ y.dst = b.dst /\ y.port = b.port
    BY DEF Bodies, Stored
  <2> QED BY <1>1, <2>1, <2>2
<1>4. rules' = rules \cup {x}
  BY <1>2
<1> HIDE DEF x
<1>5. \A q \in rules : q.id # x.id /\ q.id # r.id
  BY <1>1, <1>3 DEF Inv, Types, Stored
<1>6. x \notin rules
  BY <1>5
<1>7. serial' \in Nat /\ x.id <= serial' /\ serial <= serial'
  BY <1>1, <1>3 DEF CreateRule
<1>8. At(s, "write") /\ End(s) /\ UNCHANGED <<devices, mix>>
  BY DEF CreateRule, bounds
<1> QED BY <1>3, <1>4, <1>5, <1>6, <1>7, <1>8, StoreRule

\* An update replaces the rule that has its id, if one is left.
LEMMA UpdateInv ==
  ASSUME Inv, NEW s \in Admins, UpdateRule(s), Cross(s), Vouch(s), UNCHANGED bounds
  PROVE  Inv'
<1> DEFINE r == req[s]
<1>1. /\ r.rule \in Bodies /\ serial \in Nat /\ rules \subseteq Stored
      /\ \A q \in rules : q.id <= serial /\ \A p \in rules : p.id = q.id => p = q
  BY DEF UpdateRule, Inv, Types, At, Shape, Checking
<1>2. At(s, "write") /\ ~At(s, "remove") /\ End(s) /\ UNCHANGED <<devices, serial, mix>>
  BY DEF UpdateRule, At, bounds
<1>3. CASE rules' = rules
  BY <1>2, <1>3, EndStep
<1>4. CASE rules' # rules
  <2>1. PICK o \in rules : o.id = r.id
    BY <1>4 DEF UpdateRule
  <2> DEFINE x == [r.rule EXCEPT !.id = o.id]
             old == rules \ {o}
  <2>2. /\ x \in Stored /\ x.id = o.id /\ x.src = r.rule.src /\ x.dst = r.rule.dst
        /\ x.port = r.rule.port
    BY <1>1, <2>1 DEF Bodies, Stored
  <2>3. rules' = old \cup {x}
    BY <1>1, <2>1 DEF UpdateRule
  <2> HIDE DEF x
  <2>4. \A q \in old : q.id # x.id /\ q.id # r.id
    BY <1>1, <2>1, <2>2
  <2>5. x \notin rules
    BY <1>1, <1>4, <2>1, <2>2, <2>3
  <2>6. serial' \in Nat /\ x.id <= serial' /\ serial <= serial'
    BY <1>1, <1>2, <2>1, <2>2 DEF Stored
  <2>7. old \in SUBSET rules
    OBVIOUS
  <2> HIDE DEF old
  <2> QED BY <1>2, <2>2, <2>3, <2>4, <2>5, <2>6, <2>7, StoreRule
<1> QED BY <1>3, <1>4

\* A rule that is gone needs no device and no port.
LEMMA DeleteRuleInv ==
  ASSUME Inv, NEW s \in Admins, DeleteRule(s), Cross(s), Vouch(s), UNCHANGED bounds
  PROVE  Inv'
<1>1. ~At(s, "remove") /\ End(s) /\ UNCHANGED <<devices, serial, mix>> /\ rules' \subseteq rules
  BY DEF DeleteRule, At, bounds
<1>2. CASE rules' = rules
  BY <1>1, <1>2, EndStep
<1>3. CASE rules' # rules
  <2>1. unsure \subseteq unsure'
    BY <1>1 DEF Vouch
  <2>2. Types' /\ VouchInv'
    BY <1>1, <1>3, WriteStep DEF Inv, Types
  <2>3. PortsDistinct' /\ RulesNameDevices'
    BY <1>1, <2>1 DEF Inv, PortsDistinct, RulesNameDevices
  <2> QED BY <2>2, <2>3 DEF Inv
<1> QED BY <1>2, <1>3

\* A device is removed when no enabled rule names it, or its rules are unsure.
LEMMA DeleteDeviceInv ==
  ASSUME Inv, NEW s \in Admins, DeleteDevice(s), Cross(s), Vouch(s), UNCHANGED bounds
  PROVE  Inv'
<1> DEFINE d == req[s].dev
<1>1. /\ At(s, "remove") /\ End(s) /\ UNCHANGED <<rules, serial, mix>>
      /\ devices' = [devices EXCEPT ![d] = NoRow]
  BY DEF DeleteDevice, bounds
<1>2. Types' /\ VouchInv'
  BY <1>1, WriteStep DEF Inv, Types
<1>3. unsure \subseteq unsure'
  BY <1>1 DEF Vouch
<1>4. ASSUME NEW q \in rules, q.enabled, d \in {q.src, q.dst} PROVE q.id \in unsure'
  <2>1. CASE s \in crossed
    BY <1>1, <1>4, <2>1 DEF Vouch
  <2>2. CASE s \notin crossed
    BY <1>1, <1>4, <2>2 DEF Inv, VouchInv, Vouched, At
  <2> QED BY <2>1, <2>2
<1>5. PortsDistinct'
  BY <1>1, <1>3 DEF Inv, PortsDistinct
<1>6. RulesNameDevices'
  <2>1. ASSUME NEW q \in rules
        PROVE  /\ q.src # q.dst
               /\ q.enabled => (devices'[q.src] # NoRow /\ devices'[q.dst] # NoRow) \/ q.id \in unsure'
    <3>1. q.src \in Devices /\ q.dst \in Devices /\ devices \in [Devices -> Rows \cup {NoRow}]
      BY DEF Inv, Types, Stored
    <3>2. /\ q.src # q.dst
          /\ q.enabled => (devices[q.src] # NoRow /\ devices[q.dst] # NoRow) \/ q.id \in unsure
      BY DEF Inv, RulesNameDevices
    <3>3. CASE d \in {q.src, q.dst}
      BY <1>4, <3>2, <3>3
    <3>4. CASE d \notin {q.src, q.dst}
      <4>1. devices'[q.src] = devices[q.src] /\ devices'[q.dst] = devices[q.dst]
        BY <1>1, <3>1, <3>4
      <4> QED BY <1>3, <3>2, <4>1
    <3> QED BY <3>3, <3>4
  <2> QED BY <1>1, <2>1 DEF RulesNameDevices
<1> QED BY <1>2, <1>5, <1>6 DEF Inv

\* A request that begins has found nothing yet.
LEMMA AdmitInv ==
  ASSUME Inv, NEW s \in Admins, AdminRequest(s), UNCHANGED history
  PROVE  Inv'
<1>1. ASSUME NEW r \in Records, Shape(r), Vouched(r), Admit(s, r) PROVE Inv'
  <2>1. /\ DOMAIN req' = Slots
        /\ \A t \in Admins : req'[t] = IF t = s THEN r ELSE req[t]
        /\ \A t \in Admins : req'[t] \in Records /\ Shape(req'[t])
    BY <1>1, OwnSlot DEF Inv, Admit
  <2>2. UNCHANGED <<devices, rules, serial, mix, unsure, crossed>>
    BY <1>1 DEF Admit, tables, history
  <2>3. Types'
    BY <2>1, <2>2 DEF Inv, Types
  <2>4. VouchInv'
    <3> SUFFICES ASSUME NEW t \in Admins, t \notin crossed PROVE Vouched(req'[t])
      BY <2>2 DEF VouchInv, Vouched
    <3> QED BY <1>1, <2>1 DEF Inv, VouchInv
  <2>5. PortsDistinct' /\ RulesNameDevices'
    BY <2>2 DEF Inv, PortsDistinct, RulesNameDevices
  <2> QED BY <2>3, <2>4, <2>5 DEF Inv
<1>2. mix \in Mixes /\ serial \in Nat
  BY DEF Inv, Types
<1>3. ASSUME NEW d \in Devices, NEW flag \in BOOLEAN,
             Admit(s, [Idle EXCEPT !.op = "enable", !.pc = "set", !.dev = d, !.flag = flag])
      PROVE  Inv'
  <2> DEFINE r == [Idle EXCEPT !.op = "enable", !.pc = "set", !.dev = d, !.flag = flag]
  <2>1. r \in Records /\ Shape(r) /\ Vouched(r)
    BY DEF Idle, Records, Shape, Vouched, Checking
  <2> HIDE DEF r
  <2> QED BY <1>1, <1>3, <2>1 DEF r
<1>4. ASSUME NEW d \in Devices,
             Admit(s, [Idle EXCEPT !.op = "delete device", !.pc = "count", !.dev = d])
      PROVE  Inv'
  <2> DEFINE r == [Idle EXCEPT !.op = "delete device", !.pc = "count", !.dev = d]
  <2>1. r \in Records /\ Shape(r) /\ Vouched(r)
    BY DEF Idle, Records, Shape, Vouched, Checking
  <2> HIDE DEF r
  <2> QED BY <1>1, <1>4, <2>1 DEF r
<1>5. ASSUME NEW b \in mix.rules,
             Admit(s, [Idle EXCEPT !.op = "create", !.pc = "source", !.rule = b])
      PROVE  Inv'
  <2> DEFINE r == [Idle EXCEPT !.op = "create", !.pc = "source", !.rule = b]
  <2>1. b \in Bodies
    BY <1>2, RuleAssumption DEF Bodies
  <2>2. r \in Records /\ Shape(r) /\ Vouched(r)
    BY <2>1 DEF Idle, Records, Shape, Vouched, Checking
  <2> HIDE DEF r
  <2> QED BY <1>1, <1>5, <2>2 DEF r
<1>6. ASSUME NEW b \in mix.rules, NEW i \in 1..serial,
             Admit(s, [Idle EXCEPT !.op = "update", !.pc = "source", !.rule = b, !.id = i])
      PROVE  Inv'
  <2> DEFINE r == [Idle EXCEPT !.op = "update", !.pc = "source", !.rule = b, !.id = i]
  <2>1. b \in Bodies /\ i \in Nat
    BY <1>2, RuleAssumption DEF Bodies
  <2>2. r \in Records /\ Shape(r) /\ Vouched(r)
    BY <2>1 DEF Idle, Records, Shape, Vouched, Checking
  <2> HIDE DEF r
  <2> QED BY <1>1, <1>6, <2>2 DEF r
<1>7. ASSUME NEW i \in 1..serial, Admit(s, [Idle EXCEPT !.op = "delete rule", !.pc = "erase", !.id = i])
      PROVE  Inv'
  <2> DEFINE r == [Idle EXCEPT !.op = "delete rule", !.pc = "erase", !.id = i]
  <2>1. i \in Nat
    BY <1>2
  <2>2. r \in Records /\ Shape(r) /\ Vouched(r)
    BY <2>1 DEF Idle, Records, Shape, Vouched, Checking
  <2> HIDE DEF r
  <2> QED BY <1>1, <1>7, <2>2 DEF r
<1> QED BY <1>3, <1>4, <1>5, <1>6, <1>7 DEF AdminRequest

\* A request that fails is over and has written nothing more.
LEMMA FailInv ==
  ASSUME Inv, NEW s \in Slots, Fail(s), crossed' = crossed \ {s}, UNCHANGED unsure
  PROVE  Inv'
<1>1. /\ UNCHANGED <<devices, rules, serial, mix>> /\ req' = [req EXCEPT ![s] = Idle]
      /\ DOMAIN req = Slots /\ crossed \subseteq Admins /\ devices \in [Devices -> Rows \cup {NoRow}]
  BY DEF Fail, Refuse, Finish, End, tables, Inv, Types
<1>2. \A t \in Admins : req'[t] = IF t = s THEN Idle ELSE req[t]
  BY <1>1, AdminSlots
<1>3. CASE s \notin Admins
  <2>1. crossed' = crossed
    BY <1>1, <1>3
  <2> QED BY <1>1, <1>2, <1>3, <2>1, AgentStep
<1>4. CASE s \in Admins
  <2>1. Types'
    BY <1>1, <1>2, IdleTyped DEF Inv, Types
  <2>2. VouchInv'
    <3> SUFFICES ASSUME NEW t \in Admins, t \notin crossed' PROVE Vouched(req'[t])
      BY <1>1 DEF VouchInv, Vouched
    <3> QED BY <1>2, IdleTyped DEF Inv, VouchInv
  <2>3. PortsDistinct' /\ RulesNameDevices'
    BY <1>1 DEF Inv, PortsDistinct, RulesNameDevices
  <2> QED BY <2>1, <2>2, <2>3 DEF Inv
<1> QED BY <1>3, <1>4

-----------------------------------------------------------------------------
\* No rule and no request at the start.
LEMMA InitInv == Init => Inv
<1> SUFFICES ASSUME Init PROVE Inv
  OBVIOUS
<1>1. devices \in [Devices -> Rows \cup {NoRow}]
  BY DEF Init, Rows
<1>2. DOMAIN req = Slots /\ \A s \in Admins : req[s] = Idle
  BY AdminSlots DEF Init
<1>3. Types
  BY <1>1, <1>2, IdleTyped DEF Init, Types
<1>4. VouchInv
  BY <1>2, IdleTyped DEF VouchInv
<1>5. PortsDistinct /\ RulesNameDevices
  BY DEF Init, PortsDistinct, RulesNameDevices
<1> QED BY <1>3, <1>4, <1>5 DEF Inv

\* Every step keeps the invariant.
LEMMA InvStep == Inv /\ [Next]_vars => Inv'
<1> SUFFICES ASSUME Inv, [Next]_vars PROVE Inv'
  OBVIOUS
<1>1. ASSUME NEW s \in Admins, AdminHandler(s) PROVE Inv'
  BY <1>1, QuietAdmin, CreateInv, UpdateInv, DeleteRuleInv, DeleteDeviceInv DEF AdminHandler, AdminStep
<1>2. CASE MarkOfflineBefore /\ Rest
  <2>1. CASE Devices # {}
    BY <1>2, <2>1, AgentOwnInv
  <2>2. CASE Devices = {}
    <3>1. UNCHANGED <<rules, serial, mix, crossed, unsure, req>> /\ devices' \in [Devices -> Rows \cup {NoRow}]
      BY <1>2, <2>2 DEF MarkOfflineBefore, Rest, bounds, history
    <3> QED BY <2>2, <3>1, AgentStep DEF Inv, Types
  <2> QED BY <2>1, <2>2
<1>3. CASE UNCHANGED vars
  BY <1>3, AgentStep DEF vars, tables, bounds, history, Inv, Types
<1>4. ASSUME NEW d \in Devices,
             \/ (Loop(d) \/ UDPRegister(d) \/ LanBootstrap(d) \/ Age(d)) /\ Rest
             \/ StopAgent(d) /\ UNCHANGED history
      PROVE  Inv'
  BY <1>4, AgentOwnInv
<1>5. ASSUME NEW d \in Devices, NEW p \in Devices,
             \/ (WorkerExits(d, p) \/ DropTunnel(d, p)) /\ Rest
             \/ (WorkerReports(d, p) \/ TickerReports(d, p)) /\ UNCHANGED history
      PROVE  Inv'
  BY <1>5, AgentOwnInv
<1> QED BY <1>1, <1>2, <1>3, <1>4, <1>5, AgentHandlerInv, AdmitInv, FailInv DEF Next

\* Two enabled rules of a source listen on different ports, unless one of them
\* was written while another request wrote or was stored enabled unchecked.
THEOREM PortsStayDistinct == Spec => []PortsDistinct
<1>1. Inv => PortsDistinct
  BY DEF Inv
<1> QED BY <1>1, InitInv, InvStep, PTL DEF Spec

\* An enabled rule joins two different devices that exist, unless it crossed
\* the deletion of one of them or was stored enabled unchecked.
THEOREM RulesKeepDevices == Spec => []RulesNameDevices
<1>1. Inv => RulesNameDevices
  BY DEF Inv
<1> QED BY <1>1, InitInv, InvStep, PTL DEF Spec
=============================================================================
