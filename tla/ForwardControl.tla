-------------------------- MODULE ForwardControl --------------------------
(***************************************************************************)
(* The control plane of port forwarding: handlers_admin.go and             *)
(* handlers_agent.go over internal/controlstore/store.go, with the agent   *)
(* loop of cmd/client/main.go that polls it.                               *)
(*                                                                         *)
(* A handler runs no transaction around its statements: a request is a     *)
(* process whose pc stands before its next statement, and every other      *)
(* request runs between two statements.  An agent has one request in       *)
(* flight from its loop, one from the worker of each tunnel and one from   *)
(* the status ticker of a tunnel that is up (the HTTP client has no        *)
(* timeout, each waits for its answer); the administrator's requests run   *)
(* in Admins.  Names, addresses, hosts and profiles travel                 *)
(* with their row and are left out; the audit log and the sessions table   *)
(* are written but never read here, and left out too.  last_seen is        *)
(* abstracted to fresh: younger than peer_ttl.                             *)
(***************************************************************************)
EXTENDS Naturals, FiniteSets, TLC

CONSTANTS Devices, Admins, Ports,
          NoRow,       \* no such row, or no value
          Mixes,       \* a behaviour has the requests (ops), the rules they may write
                       \* (rules; Validate refuses src = dst before any statement), the
                       \* bounds (admin, reports, faults), the devices registered before (known), the agents
                       \* up (on) and the agents that may start (boot) of one of these
          MaxRules     \* bound: rules ever created, at least every mix.admin

\* The rules of a request come without the id of a row and have passed Validate.
ASSUME RuleAssumption ==
  \A m \in Mixes : m.rules \subseteq
    {r \in [id : {0}, src : Devices, dst : Devices, port : Ports, enabled : BOOLEAN] : r.src # r.dst}
ASSUME RowAssumption == NoRow \notin [enabled : BOOLEAN, online : BOOLEAN, fresh : BOOLEAN]
ASSUME SlotAssumption == Admins \cap (Devices \X (Devices \cup {"loop", "ticker"})) = {}

VARIABLES
  devices,   \* devices: id -> [enabled, online, fresh] or NoRow
  capable,   \* device_product_states: devices with an agent row
  rules,     \* forward_rules: [id, src, dst, port, enabled]
  serial,    \* the last id given to a rule
  shown,     \* tunnel_states: (device, peer) -> state or NoRow
  req,       \* the requests
  agent,     \* runAgentLoop of each device
  tunnel,    \* its sessions: peer -> [sig, state, stop]
  wanted,    \* the groups of the answer it is applying, or NoRow
  mix, spent, faults, reports,
  unsure,    \* history: rules whose checks did not cover what was stored
  crossed    \* history: requests during which another one wrote

tables == <<devices, capable, rules, serial, shown>>
agents == <<agent, tunnel, wanted>>
bounds == <<mix, spent, faults, reports>>
history == <<unsure, crossed>>
vars == <<tables, req, agents, bounds, history>>

-----------------------------------------------------------------------------
\* State
Ids == 1..MaxRules
Slots == (Devices \X (Devices \cup {"loop", "ticker"})) \cup Admins
States == {"", "connecting", "p2p", "backoff", "disabled"}
Rules == [id : Ids, src : Devices, dst : Devices, port : Ports, enabled : BOOLEAN]
Idle == [op |-> "none", pc |-> "idle", dev |-> NoRow, id |-> 0, rule |-> NoRow,
         flag |-> FALSE, body |-> <<>>]

Goto(s, pc) == req' = [req EXCEPT ![s].pc = pc]
End(s) == req' = [req EXCEPT ![s] = Idle]
At(s, pc) == req[s].pc = pc
Busy(s) == ~At(s, "idle")

RulesForDevice(d) == {r \in rules : r.enabled /\ d \in {r.src, r.dst}}

\* groupRulesByPeer and forwardRulesSignature: one group for every peer that
\* shares a rule with d; its signature names the rules d listens for.
GroupRulesByPeer(d, rs) ==
  LET peers == {IF r.src = d THEN r.dst ELSE r.src : r \in rs}
  IN [p \in peers |-> {r \in rs : r.src = d /\ r.dst = p}]

Sigs(d) == [p \in DOMAIN tunnel[d] |-> tunnel[d][p].sig]

Init ==
  /\ mix \in Mixes /\ spent = 0 /\ faults = 0 /\ reports = 0
  /\ devices = [d \in Devices |-> IF d \notin mix.known THEN NoRow
                  ELSE [enabled |-> TRUE, online |-> d \in mix.on, fresh |-> TRUE]]
  /\ capable = mix.known /\ rules = {} /\ serial = 0
  /\ shown = [l \in Devices \X Devices |-> NoRow]
  /\ req = [s \in Slots |-> Idle]
  /\ agent = [d \in Devices |-> IF d \in mix.on THEN "on" ELSE "off"]
  /\ tunnel = [d \in Devices |-> <<>>]
  /\ wanted = [d \in Devices |-> NoRow]
  /\ unsure = {} /\ crossed = {}

-----------------------------------------------------------------------------
\* How a request ends for the agent: register, heartbeat and status only log an
\* error; without an answer there is nothing to apply; a bootstrap that fails
\* leaves an agent without a saved server address idle.
After(d, op, ok) ==
  CASE op = "bootstrap" /\ ok -> {"register"}
    [] op = "bootstrap" /\ ~ok -> {"register", "stuck"}
    [] op = "register" -> {"sync"}
    [] op = "rules" -> {"on"}
    [] OTHER -> {agent[d]}

Finish(s, ok) ==
  /\ End(s)
  /\ IF s \in Admins THEN UNCHANGED agent
     ELSE \E next \in After(s[1], req[s].op, ok) : agent' = [agent EXCEPT ![s[1]] = next]

Refuse(s) == Finish(s, FALSE) /\ UNCHANGED <<tunnel, wanted>>

-----------------------------------------------------------------------------
\* An insert enables the device; the update of a row leaves enabled alone.
UpsertDevice(d, online) ==
  devices' = [devices EXCEPT ![d] =
    [enabled |-> @ = NoRow \/ @.enabled, online |-> online, fresh |-> TRUE]]

\* ensureAgentDeviceAllowed; only a bootstrap tolerates a missing row
EnsureAgentDeviceAllowed(s) ==
  /\ At(s, "allowed")
  /\ LET row == devices[req[s].dev]
     IN IF (IF row = NoRow THEN req[s].op = "bootstrap" ELSE row.enabled)
        THEN /\ Goto(s, IF req[s].op = "rules" THEN "read" ELSE "upsert")
             /\ UNCHANGED agents
        ELSE Refuse(s)
  /\ UNCHANGED tables

\* handleAgentBootstrap
BootstrapDevice(s) ==
  /\ At(s, "upsert") /\ req[s].op = "bootstrap"
  /\ UpsertDevice(req[s].dev, FALSE) /\ Finish(s, TRUE)
  /\ UNCHANGED <<capable, rules, serial, shown, tunnel, wanted>>

\* handleAgentRegister and handleAgentHeartbeat: the device is online
AnnounceDevice(s) ==
  /\ At(s, "upsert") /\ req[s].op \in {"register", "heartbeat"}
  /\ UpsertDevice(req[s].dev, TRUE) /\ Goto(s, "product")
  /\ UNCHANGED <<capable, rules, serial, shown, agents>>

\* handleAgentTunnelStatus: the device is as online as the reported tunnel
StatusDevice(s) ==
  /\ At(s, "upsert") /\ req[s].op = "status"
  /\ UpsertDevice(req[s].dev,
       \A p \in DOMAIN req[s].body : req[s].body[p] \in {"connecting", "p2p"})
  /\ Goto(s, "product")
  /\ UNCHANGED <<capable, rules, serial, shown, agents>>

\* putTunnelReports goes on with the tunnels that are left.
Continue(s, body) == IF DOMAIN body = {} THEN Finish(s, TRUE)
                     ELSE /\ req' = [req EXCEPT ![s].pc = "put", ![s].body = body]
                          /\ UNCHANGED agent

UpsertDeviceProductState(d) == capable' = capable \cup {d}

\* putAgentProductState: the rules it reads only go into the row's metadata
PutAgentProductState(s) ==
  /\ At(s, "product")
  /\ UpsertDeviceProductState(req[s].dev)
  /\ Continue(s, req[s].body)
  /\ UNCHANGED <<devices, rules, serial, shown, tunnel, wanted>>

\* mutant: a heartbeat carries its tunnels but does not store them
PutTunnelStateOfStatus(s) ==
  /\ At(s, "put")
  /\ shown' = IF req[s].op = "heartbeat" THEN shown
              ELSE [l \in DOMAIN shown |-> IF l[1] = req[s].dev /\ l[2] \in DOMAIN req[s].body
                                           THEN req[s].body[l[2]] ELSE shown[l]]
  /\ Finish(s, TRUE)
  /\ UNCHANGED <<devices, capable, rules, serial, tunnel, wanted>>

\* PutTunnelState, for one tunnel or for each of a heartbeat's
PutTunnelState(s) ==
  /\ At(s, "put")
  /\ \E p \in DOMAIN req[s].body :
       /\ shown' = [shown EXCEPT ![<<req[s].dev, p>>] = req[s].body[p]]
       /\ Continue(s, [q \in DOMAIN req[s].body \ {p} |-> req[s].body[q]])
  /\ UNCHANGED <<devices, capable, rules, serial, tunnel, wanted>>

\* handleAgentRules, and the answer
AnswerRules(s) ==
  /\ At(s, "read") /\ End(s)
  /\ wanted' = [wanted EXCEPT ![req[s].dev] =
                  GroupRulesByPeer(req[s].dev, RulesForDevice(req[s].dev))]
  /\ UNCHANGED <<tables, agent, tunnel>>

AgentRequest(s) == \/ EnsureAgentDeviceAllowed(s) \/ BootstrapDevice(s) \/ AnnounceDevice(s)
                   \/ StatusDevice(s) \/ PutAgentProductState(s) \/ PutTunnelState(s)
                   \/ AnswerRules(s)

-----------------------------------------------------------------------------
\* The agent: bootstrap, runAgentLoop and the workers' reports
Send(d, from, op, body) ==
  /\ At(<<d, from>>, "idle")
  /\ req' = [req EXCEPT ![<<d, from>>] =
               [Idle EXCEPT !.op = op, !.pc = "allowed", !.dev = d, !.body = body]]
  /\ UNCHANGED tables

StartAgent(d) ==
  /\ agent[d] = "off" /\ d \in mix.boot
  /\ Send(d, "loop", "bootstrap", <<>>)
  /\ agent' = [agent EXCEPT ![d] = "boot"] /\ UNCHANGED <<tunnel, wanted>>

SendRegister(d) == agent[d] = "register" /\ Send(d, "loop", "register", <<>>) /\ UNCHANGED agents

\* mutant: the rules are asked for once
PullRulesOnce(d) == /\ agent[d] = "sync" /\ wanted[d] = NoRow
                    /\ Send(d, "loop", "rules", <<>>) /\ UNCHANGED agents

\* syncRules asks
PullRules(d) == /\ agent[d] \in {"sync", "on"} /\ wanted[d] = NoRow
                /\ Send(d, "loop", "rules", <<>>) /\ UNCHANGED agents

\* A session stays if its group is still there with the same signature.
Kept(d, p) == p \in DOMAIN wanted[d] /\ tunnel[d][p].sig = wanted[d][p]

Stopping(d) == {p \in DOMAIN tunnel[d] : tunnel[d][p].stop # "no"}

SetTunnel(d, p, state, stop) ==
  tunnel' = [tunnel EXCEPT ![d][p].state = state, ![d][p].stop = stop]

\* syncRules stops one session after the other: it reports it disabled ...
StopTunnel(d) ==
  /\ wanted[d] # NoRow /\ Stopping(d) = {}
  /\ \E p \in DOMAIN tunnel[d] :
       /\ ~Kept(d, p)
       /\ SetTunnel(d, p, "disabled", "posted")
       /\ Send(d, "loop", "status", p :> "disabled")
  /\ UNCHANGED <<agent, wanted>>

\* ... then cancels its worker, which reports the same and exits ...
WorkerExits(d, p) ==
  /\ p \in Stopping(d) /\ tunnel[d][p].stop = "posted" /\ At(<<d, "loop">>, "idle")
  /\ SetTunnel(d, p, "disabled", "exiting")
  /\ Send(d, p, "status", p :> "disabled")
  /\ UNCHANGED <<agent, wanted>>

\* ... and deletes the session when the worker is done.
DropTunnel(d, p) ==
  /\ p \in Stopping(d) /\ tunnel[d][p].stop = "exiting" /\ At(<<d, p>>, "idle")
  /\ tunnel' = [tunnel EXCEPT ![d] = [q \in DOMAIN @ \ {p} |-> @[q]]]
  /\ UNCHANGED <<tables, req, agent, wanted>>

StartTunnels(d) ==
  /\ wanted[d] # NoRow /\ \A p \in DOMAIN tunnel[d] : Kept(d, p)
  /\ tunnel' = [tunnel EXCEPT ![d] =
       [p \in DOMAIN wanted[d] |-> IF p \in DOMAIN @ THEN @[p]
          ELSE [sig |-> wanted[d][p], state |-> "", stop |-> "no"]]]
  /\ wanted' = [wanted EXCEPT ![d] = NoRow] /\ agent' = [agent EXCEPT ![d] = "on"]
  /\ UNCHANGED <<tables, req>>

SnapshotAgentSessions(d) == [p \in DOMAIN tunnel[d] |-> tunnel[d][p].state]

\* sendHeartbeat
SendHeartbeat(d) ==
  /\ agent[d] = "on" /\ wanted[d] = NoRow
  /\ Send(d, "loop", "heartbeat", SnapshotAgentSessions(d))
  /\ UNCHANGED agents

Moves == {<<"", "connecting">>, <<"connecting", "p2p">>, <<"connecting", "backoff">>,
          <<"p2p", "backoff">>, <<"p2p", "connecting">>, <<"backoff", "connecting">>}

\* report of runPeerWorker: the status is set, then posted.  A worker whose
\* session is being stopped goes on until it is cancelled.
WorkerReports(d, p) ==
  /\ reports < mix.reports /\ p \in DOMAIN tunnel[d] /\ tunnel[d][p].stop # "exiting"
  /\ \E to \in States :
       /\ <<tunnel[d][p].state, to>> \in Moves
            \/ (tunnel[d][p].stop = "posted" /\ to \in {"connecting", "p2p", "backoff"})
       /\ SetTunnel(d, p, to, tunnel[d][p].stop)
       /\ Send(d, p, "status", p :> to)
  /\ reports' = reports + 1 /\ UNCHANGED <<agent, wanted, mix, spent, faults>>

\* The status ticker of a run that is up (AgentWorker has its last tick after
\* the run)
TickerReports(d, p) ==
  /\ reports < mix.reports /\ p \in DOMAIN tunnel[d] /\ tunnel[d][p].state = "p2p"
  /\ Send(d, "ticker", "status", p :> "p2p")
  /\ reports' = reports + 1 /\ UNCHANGED <<agents, mix, spent, faults>>

Quiet(d) == \A s \in Slots \ Admins : s[1] = d => ~Busy(s)

StopAgent(d) ==
  /\ agent[d] # "off" /\ "stop" \in mix.ops /\ spent < mix.admin /\ Quiet(d)
  /\ agent' = [agent EXCEPT ![d] = "off"] /\ tunnel' = [tunnel EXCEPT ![d] = <<>>]
  /\ wanted' = [wanted EXCEPT ![d] = NoRow] /\ spent' = spent + 1
  /\ UNCHANGED <<tables, req, mix, faults, reports>>

-----------------------------------------------------------------------------
\* Writers of a device's row that check nothing: a UDP registration and the
\* bootstrap of the LAN service (handleRegister, handleLANBootstrap)
UDPRegister(d) == /\ \E p \in DOMAIN tunnel[d] : tunnel[d][p].state = "connecting"
                  /\ "udp" \in mix.ops /\ UpsertDevice(d, TRUE)
                  /\ UNCHANGED <<capable, rules, serial, shown, req, agents>>

LanBootstrap(d) == /\ "lan" \in mix.ops /\ UpsertDevice(d, FALSE)
                   /\ UNCHANGED <<capable, rules, serial, shown, req, agents>>

\* The row of a device nobody refreshes ages past peer_ttl (heartbeats come
\* every 10 s, peer_ttl is 45 s).
Age(d) ==
  /\ devices[d] # NoRow /\ Quiet(d)
  /\ agent[d] \in {"off", "stuck"} \/ ~devices[d].enabled
  /\ devices' = [devices EXCEPT ![d].fresh = FALSE]
  /\ UNCHANGED <<capable, rules, serial, shown, req, agents>>

\* mutant: only the rows of disabled devices are looked at
MarkOfflineDisabled ==
  /\ devices' = [d \in Devices |->
       IF devices[d] # NoRow /\ ~devices[d].fresh /\ ~devices[d].enabled
       THEN [devices[d] EXCEPT !.online = FALSE] ELSE devices[d]]
  /\ UNCHANGED <<capable, rules, serial, shown, req, agents>>

MarkOfflineBefore ==
  /\ devices' = [d \in Devices |->
       IF devices[d] # NoRow /\ ~devices[d].fresh
       THEN [devices[d] EXCEPT !.online = FALSE] ELSE devices[d]]
  /\ UNCHANGED <<capable, rules, serial, shown, req, agents>>

-----------------------------------------------------------------------------
\* The administrator's requests
Admit(s, r) == /\ At(s, "idle") /\ spent < mix.admin /\ r.op \in mix.ops
               /\ spent' = spent + 1 /\ req' = [req EXCEPT ![s] = r]
               /\ UNCHANGED <<tables, agents, mix, faults, reports>>

AdminRequest(s) ==
  \/ \E d \in Devices, flag \in BOOLEAN :
       Admit(s, [Idle EXCEPT !.op = "enable", !.pc = "set", !.dev = d, !.flag = flag])
  \/ \E d \in Devices :
       Admit(s, [Idle EXCEPT !.op = "delete device", !.pc = "count", !.dev = d])
  \/ \E r \in mix.rules :
       Admit(s, [Idle EXCEPT !.op = "create", !.pc = "source", !.rule = r])
  \/ \E r \in mix.rules, i \in 1..serial :
       Admit(s, [Idle EXCEPT !.op = "update", !.pc = "source", !.rule = r, !.id = i])
  \/ \E i \in 1..serial :
       Admit(s, [Idle EXCEPT !.op = "delete rule", !.pc = "erase", !.id = i])

SetDeviceEnabled(s) ==
  /\ At(s, "set") /\ End(s)
  /\ devices' = IF devices[req[s].dev] = NoRow THEN devices
                ELSE [devices EXCEPT ![req[s].dev].enabled = req[s].flag]
  /\ UNCHANGED <<capable, rules, serial, shown, agents>>

\* mutant: only the rules that start at the device count
ReferencesOut(d) == {r \in rules : r.enabled /\ r.src = d}

References(d) == {r \in rules : r.enabled /\ d \in {r.src, r.dst}}

EnabledRuleReferenceCount(s) ==
  /\ At(s, "count")
  /\ IF References(req[s].dev) # {} THEN End(s) ELSE Goto(s, "remove")
  /\ UNCHANGED <<tables, agents>>

\* The product state row stays.
DeleteDevice(s) ==
  /\ At(s, "remove") /\ End(s)
  /\ devices' = [devices EXCEPT ![req[s].dev] = NoRow]
  /\ UNCHANGED <<capable, rules, serial, shown, agents>>

\* validateRule
GetSource(s) ==
  /\ At(s, "source")
  /\ LET row == devices[req[s].rule.src]
     IN IF row = NoRow THEN End(s)
        ELSE req' = [req EXCEPT ![s].pc = "target", ![s].flag = row.enabled]
  /\ UNCHANGED <<tables, agents>>

GetTarget(s) ==
  /\ At(s, "target")
  /\ LET row == devices[req[s].rule.dst]
     IN IF row = NoRow \/ ~req[s].flag \/ ~row.enabled THEN End(s) ELSE Goto(s, "capable")
  /\ UNCHANGED <<tables, agents>>

AgentCapableDevices(s) ==
  /\ At(s, "capable")
  /\ IF ~({req[s].rule.src, req[s].rule.dst} \subseteq capable) THEN End(s)
     ELSE Goto(s, IF req[s].rule.enabled THEN "conflict" ELSE "write")
  /\ UNCHANGED <<tables, agents>>

\* mutant: an update is not compared with the other rules
ConflictsOfNew(s) == {r \in rules : r.port = req[s].rule.port /\ r.enabled
                                    /\ r.src = req[s].rule.src /\ req[s].id = 0}

Conflicts(s) == {r \in rules : r.port = req[s].rule.port /\ r.enabled
                               /\ r.src = req[s].rule.src /\ r.id # req[s].id}

LocalPortConflict(s) ==
  /\ At(s, "conflict")
  /\ IF Conflicts(s) # {} THEN End(s) ELSE Goto(s, "write")
  /\ UNCHANGED <<tables, agents>>

\* gorm writes the column's default, true, when a row is created with false.
CreateRule(s) ==
  /\ At(s, "write") /\ req[s].op = "create" /\ End(s)
  /\ \E on \in {req[s].rule.enabled, TRUE} :
       rules' = rules \cup {[req[s].rule EXCEPT !.id = serial + 1, !.enabled = on]}
  /\ serial' = serial + 1
  /\ UNCHANGED <<devices, capable, shown, agents>>

\* An update of a rule that is gone changes nothing.
UpdateRule(s) ==
  /\ At(s, "write") /\ req[s].op = "update" /\ End(s)
  /\ rules' = {IF r.id = req[s].id THEN [req[s].rule EXCEPT !.id = r.id] ELSE r : r \in rules}
  /\ UNCHANGED <<devices, capable, serial, shown, agents>>

DeleteRule(s) ==
  /\ At(s, "erase") /\ End(s)
  /\ rules' = {r \in rules : r.id # req[s].id}
  /\ UNCHANGED <<devices, capable, serial, shown, agents>>

AdminStep(s) == \/ SetDeviceEnabled(s) \/ EnabledRuleReferenceCount(s) \/ DeleteDevice(s)
                \/ GetSource(s) \/ GetTarget(s) \/ AgentCapableDevices(s)
                \/ LocalPortConflict(s) \/ CreateRule(s) \/ UpdateRule(s) \/ DeleteRule(s)

\* A statement fails and the handler answers with the error.
Fail(s) == /\ Busy(s) /\ faults < mix.faults /\ Refuse(s)
           /\ faults' = faults + 1 /\ UNCHANGED <<tables, mix, spent, reports>>

-----------------------------------------------------------------------------
\* Which rules the checks vouch for: a request vouches for what it wrote unless
\* another one wrote since it began, or a rule it checked as disabled was
\* stored enabled.
Cross(s) ==
  crossed' = (IF rules' # rules \/ At(s, "remove")
              THEN crossed \cup {t \in Admins : Busy(t)} ELSE crossed)
             \ {t \in Admins : req'[t] = Idle}

Vouch(s) ==
  LET written == {r.id : r \in rules' \ rules}
      unchecked == {r.id : r \in {x \in rules' \ rules : x.enabled /\ ~req[s].rule.enabled}}
      lost == {r.id : r \in {x \in rules : At(s, "remove") /\ req[s].dev \in {x.src, x.dst}}}
  IN unsure' = IF s \in crossed THEN unsure \cup written \cup lost
               ELSE (unsure \ written) \cup unchecked

Rest == UNCHANGED <<bounds, history>>
AgentHandler(s) == AgentRequest(s) /\ Rest
AdminHandler(s) == AdminStep(s) /\ Cross(s) /\ Vouch(s) /\ UNCHANGED bounds
Loop(d) == \/ StartAgent(d) \/ SendRegister(d) \/ PullRules(d)
           \/ StopTunnel(d) \/ StartTunnels(d) \/ SendHeartbeat(d)

Next ==
  \/ \E s \in Slots \ Admins : AgentHandler(s)
  \/ \E d \in Devices :
       \/ (Loop(d) \/ UDPRegister(d) \/ LanBootstrap(d) \/ Age(d)) /\ Rest
       \/ StopAgent(d) /\ UNCHANGED history
       \/ \E p \in Devices :
            \/ (WorkerExits(d, p) \/ DropTunnel(d, p)) /\ Rest
            \/ (WorkerReports(d, p) \/ TickerReports(d, p)) /\ UNCHANGED history
  \/ MarkOfflineBefore /\ Rest
  \/ \E s \in Admins : (AdminRequest(s) /\ UNCHANGED history) \/ AdminHandler(s)
  \/ \E s \in Slots : Fail(s) /\ crossed' = crossed \ {s} /\ UNCHANGED unsure

\* Handlers run to their end, the loop's select serves a ticker that is ready
\* in the end, workers finish, and the clean-up runs on its ticker.
Fairness ==
  /\ \A s \in Slots \ Admins : WF_vars(AgentHandler(s))
  /\ \A s \in Admins : WF_vars(AdminHandler(s))
  /\ \A d \in Devices :
       /\ WF_vars(SendRegister(d) /\ Rest)
       /\ SF_vars(PullRules(d) /\ Rest) /\ SF_vars(SendHeartbeat(d) /\ Rest)
       /\ WF_vars((StopTunnel(d) \/ StartTunnels(d)) /\ Rest)
       /\ \A p \in Devices : WF_vars((WorkerExits(d, p) \/ DropTunnel(d, p)) /\ Rest)
       /\ WF_vars(Age(d) /\ Rest)
  /\ WF_vars(MarkOfflineBefore /\ Rest)

Spec == Init /\ [][Next]_vars /\ Fairness

-----------------------------------------------------------------------------
\* The tables hold rows of their types; what an agent runs and applies are
\* groups of rules by peer.
TypeOK ==
  /\ \A d \in Devices : \/ devices[d] = NoRow
                        \/ devices[d] \in [enabled : BOOLEAN, online : BOOLEAN, fresh : BOOLEAN]
  /\ capable \subseteq Devices /\ rules \subseteq Rules /\ serial \in 0..MaxRules
  /\ \A l \in Devices \X Devices : shown[l] \in States \cup {NoRow}
  /\ \A s \in Slots : req[s].body = <<>> \/ DOMAIN req[s].body \subseteq Devices
  /\ \A d \in Devices :
       /\ agent[d] \in {"off", "boot", "register", "sync", "on", "stuck"}
       /\ DOMAIN tunnel[d] \subseteq Devices \ {d}
       /\ wanted[d] = NoRow \/ DOMAIN wanted[d] \subseteq Devices \ {d}
       /\ \A p \in DOMAIN tunnel[d] :
            tunnel[d][p] \in [sig : SUBSET Rules, state : States,
                              stop : {"no", "posted", "exiting"}]
  /\ unsure \subseteq Ids /\ crossed \subseteq Admins

\* validateRule, LocalPortConflict: two enabled rules of a source listen on the
\* same port only if one of them was written while another request wrote, or
\* was created as a disabled rule.
PortsDistinct ==
  \A r, q \in rules : (r.id # q.id /\ r.enabled /\ q.enabled /\ r.src = q.src /\ r.port = q.port)
                       => r.id \in unsure \/ q.id \in unsure

\* handleDeviceByID, validateRule: an enabled rule joins two different devices
\* that exist, whatever was disabled, deleted, patched and bootstrapped before,
\* unless the rule and the deletion of a device crossed.
RulesNameDevices ==
  \A r \in rules : /\ r.src # r.dst
                   /\ r.enabled => \/ devices[r.src] # NoRow /\ devices[r.dst] # NoRow
                                   \/ r.id \in unsure

Served(d) == agent[d] = "on" /\ devices[d] # NoRow /\ devices[d].enabled

\* syncRules: an agent that stays up, and whose device stays enabled, ends with
\* exactly one session for each peer of its enabled rules, run with the rules
\* as they are stored, whatever changed while it was applying an answer.
AgentRunsRules ==
  \A d \in Devices : <>[]Served(d) => <>[](Sigs(d) = GroupRulesByPeer(d, RulesForDevice(d)))

\* putTunnelReports: the posts of the loop, the worker and the ticker overtake
\* one another, but in the end the back office shows the state each running
\* tunnel is in.
TunnelShown ==
  \A d \in Devices : <>[]Served(d) =>
    <>[](\A p \in DOMAIN tunnel[d] : shown[d, p] = tunnel[d][p].state)

\* MarkOfflineBefore: the device of an agent that has stopped is shown offline
\* in the end, even if its last report was stored after it stopped.
GoneGoesOffline ==
  \A d \in Devices : <>[](agent[d] = "off" /\ Quiet(d))
                     => <>[](devices[d] = NoRow \/ ~devices[d].online)
=============================================================================
