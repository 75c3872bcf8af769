---------------------------- MODULE LanControl ----------------------------
(***************************************************************************)
(* internal/server/handlers_lan.go over internal/controlstore/store.go:    *)
(* the control plane of the virtual LAN.  Its tables hold the networks,    *)
(* the devices' addresses, the groups with their members, the ACL, the     *)
(* routes, the reported links and the learned paths.                       *)
(*                                                                         *)
(* A handler runs no transaction around its statements, so a request is a  *)
(* process whose pc stands before its next statement, and every other      *)
(* request runs between two statements.  Statements that touch only rows   *)
(* nobody else writes share a step.  A device sends its own requests one   *)
(* after the other and gives one up when its HTTP client times out; the    *)
(* handler then goes on in one of the Late slots, which also hold the      *)
(* administrator's requests.  Names, MTU, ports and protocols only travel  *)
(* with their row and are left out; so are the read-only listings.         *)
(* updated_at has seconds: two rows of a device are taken to be written in *)
(* different ones.                                                         *)
(***************************************************************************)
EXTENDS Naturals, Sequences, FiniteSets, FiniteSetsExt, SequencesExt, TLC

CONSTANTS Devices, Groups, Late,
          CIDRs,       \* [lo, hi]: network and broadcast address; lo > hi: IPv6
          Default,     \* the CIDR of the default network
          Names,       \* Names[d]: the device_name d sends
          NoHost,      \* the empty hostname
          NoRow,       \* no such row, or no value
          RuleEnds,    \* the ends the administrator's rules name
          Mixes,       \* a behaviour has the requests and the devices of one of these
          Patched,     \* [ip, host]: what the administrator assigns
          MaxLate,     \* bound: requests that run in Late
          MaxFaults    \* bound: statements that fail

VARIABLES
  networks,    \* virtual_networks: id -> CIDR
  serial,      \* the last id a table gave to a new row
  addresses,   \* virtual_addresses: device -> rows, last updated first
  registered,  \* devices and virtual_device_keys: the devices with a row
  product,     \* device_product_states, product "lan": device -> "online" or "offline"
  groups,      \* virtual_device_groups
  members,     \* virtual_device_group_members
  acl,         \* virtual_acl_rules
  routes,      \* virtual_routes
  link,        \* virtual_peer_states: (device, peer, network) -> path
  event,       \* virtual_peer_path_events: the last path of each link
  learned,     \* virtual_learned_paths: link -> preheat_enabled
  req,         \* the requests
  client,      \* UDPTunnelLAN on each device
  held,        \* the address its adapter was configured with
  config,      \* the rules and routes of the last answer it took
  mix, late, faults,
  moved,       \* history: devices whose address a request in Late could write
  altered,     \* history: networks deleted while in use, or given another CIDR
  standing,    \* history: rules and routes in force since a bootstrap began
  disturbed    \* history: links with overlapping or failed reports

netVars == <<networks, serial, addresses>>
ruleVars == <<groups, members, acl, routes>>
reportVars == <<product, link, event, learned>>
clientVars == <<client, held, config>>
bounds == <<mix, late, faults>>
history == <<moved, altered, standing, disturbed>>
vars == <<netVars, registered, ruleVars, reportVars, req, clientVars, bounds, history>>

-----------------------------------------------------------------------------
\* State
NoAddr == [net |-> 0, ip |-> 0, host |-> NoHost]
Ids == 1..(MaxLate + 1)
Slots == (Devices \X {"refresh", "report"}) \cup Late
NoPeer == "no peer"
Links == Devices \X (Devices \cup {NoPeer}) \X Ids
Paths == {"p2p", "relay", "none"}
Anyone == "anyone"
Ends == Devices \cup Groups \cup {Anyone}
IPs == UNION {c.lo .. c.hi : c \in CIDRs}
Hostnames == {Names[d] : d \in Devices} \cup Devices \cup {NoHost}
Addresses == [net : Ids \cup {0}, ip : IPs \cup {0}, host : Hostnames]
Rules == [id : Ids, net : Ids, src : Ends, dst : Ends]
Routes == [id : Ids, dev : Devices, net : Ids, cidr : CIDRs]
Idle == [op |-> "none", pc |-> "idle", dev |-> NoRow, net |-> 0, cidr |-> NoRow,
         addr |-> NoAddr, alloc |-> FALSE, body |-> NoRow, seen |-> NoRow]

Rows(n) == UNION {{[dev |-> d, ip |-> r.ip, host |-> r.host] :
                     r \in {x \in ToSet(addresses[d]) : x.net = n}} : d \in Devices}
RowOf(d, n) == SelectSeq(addresses[d], LAMBDA r : r.net = n)
Networks == {n \in Ids : networks[n] # NoRow}
\* mutant: the broadcast address is handed out
HostsWithBroadcast(c) == (c.lo + 1) .. c.hi

Hosts(c) == (c.lo + 1) .. (c.hi - 1)

Goto(s, r) == req' = [req EXCEPT ![s] = r]
End(s) == Goto(s, Idle)
At(s, pc) == req[s].pc = pc

\* The devices a rule's end stands for (aclDevices)
EndDevices(e, known, memb) ==
  CASE e = Anyone -> known [] e \in Groups -> memb[e] [] OTHER -> {e}

Expand(rules, known, memb) ==
  UNION {{[rule |-> r, src |-> a, dst |-> b] :
            a \in EndDevices(r.src, known, memb), b \in EndDevices(r.dst, known, memb)} :
         r \in rules}

\* What a bootstrap of d answers when its statements all run now
InForce(d, n) ==
  [rules |-> Expand({r \in acl : r.net = n}, {x.dev : x \in Rows(n)}, members),
   routes |-> {r \in routes : r.net = n /\ r.dev = d}]

Init ==
  /\ networks = [n \in Ids |-> NoRow] /\ serial = 0
  /\ addresses = [d \in Devices |-> <<>>]
  /\ registered = {} /\ product = <<>>
  /\ groups = {} /\ members = [g \in Groups |-> {}] /\ acl = {} /\ routes = {}
  /\ link = <<>> /\ event = <<>> /\ learned = <<>>
  /\ req = [s \in Slots |-> Idle]
  /\ client = [d \in Devices |-> "off"] /\ held = [d \in Devices |-> NoAddr]
  /\ config = [d \in Devices |-> NoRow]
  /\ mix \in Mixes /\ late = 0 /\ faults = 0
  /\ moved = {} /\ altered = {} /\ disturbed = {}
  /\ standing = [d \in Devices |-> {}]

-----------------------------------------------------------------------------
\* How a request ends for the program that sent it: a first bootstrap or a
\* first report that fails leaves the service idle until it is restarted.
AfterError(s) == IF s \notin Late /\ client[s[1]] \in {"starting", "configured"}
                 THEN [client EXCEPT ![s[1]] = "stuck"] ELSE client

Error(s) == End(s) /\ client' = AfterError(s) /\ UNCHANGED <<held, config>>

-----------------------------------------------------------------------------
\* UpsertVirtualAddress(req[s].addr): select, then insert or update
Taken(s) == \E x \in Rows(req[s].net) :
              /\ x.dev # req[s].dev
              /\ x.ip = req[s].addr.ip \/ (x.host # NoHost /\ x.host = req[s].addr.host)

WriteRow(s) ==
  LET d == req[s].dev
  IN addresses' = [addresses EXCEPT ![d] =
       <<req[s].addr>> \o SelectSeq(@, LAMBDA r : r.net # req[s].net)]

\* mutant: the error of the upsert is not looked at
UpsertErrorIgnored(s) ==
  /\ Goto(s, [req[s] EXCEPT !.pc = IF req[s].op = "bootstrap" THEN "policy" ELSE "idle"])
  /\ UNCHANGED clientVars

\* A failed upsert: allocateVirtualAddress tries once more with the device id
\* as the hostname.
UpsertError(s) ==
  IF req[s].alloc /\ req[s].addr.host # req[s].dev
  THEN /\ Goto(s, [req[s] EXCEPT !.addr.host = req[s].dev, !.pc = "select"])
       /\ UNCHANGED clientVars
  ELSE Error(s)

Upserted(s) == /\ IF req[s].op = "bootstrap"
                  THEN Goto(s, [req[s] EXCEPT !.pc = "policy"])
                  ELSE End(s)
               /\ UNCHANGED clientVars

SelectAddress(s) ==
  /\ At(s, "select")
  /\ Goto(s, [req[s] EXCEPT !.pc = IF RowOf(req[s].dev, req[s].net) = <<>>
                                    THEN "insert" ELSE "update"])
  /\ UNCHANGED <<netVars, registered, ruleVars, reportVars, clientVars>>

InsertAddress(s) ==
  /\ At(s, "insert")
  /\ IF Taken(s) \/ RowOf(req[s].dev, req[s].net) # <<>>
     THEN UpsertError(s) /\ UNCHANGED addresses
     ELSE WriteRow(s) /\ Upserted(s)
  /\ UNCHANGED <<networks, serial, registered, ruleVars, reportVars>>

\* An update of a row that is gone changes nothing and succeeds.
UpdateAddress(s) ==
  /\ At(s, "update")
  /\ IF RowOf(req[s].dev, req[s].net) = <<>> THEN Upserted(s) /\ UNCHANGED addresses
     ELSE IF Taken(s) THEN UpsertError(s) /\ UNCHANGED addresses
     ELSE WriteRow(s) /\ Upserted(s)
  /\ UNCHANGED <<networks, serial, registered, ruleVars, reportVars>>

\* allocateVirtualAddress: the first free host of the network
FreeHosts(s) == Hosts(req[s].cidr) \ {x.ip : x \in Rows(req[s].net)}

HostFor(s) == IF req[s].addr.host \in {NoHost} \cup {x.host : x \in Rows(req[s].net)}
              THEN req[s].dev ELSE req[s].addr.host

Allocate(s) ==
  /\ At(s, "allocate")
  /\ IF FreeHosts(s) = {} THEN Error(s)
     ELSE /\ Goto(s, [req[s] EXCEPT
                 !.addr = [net |-> req[s].net, ip |-> Min(FreeHosts(s)), host |-> HostFor(s)],
                 !.alloc = TRUE, !.pc = "select"])
          /\ UNCHANGED clientVars
  /\ UNCHANGED <<netVars, registered, ruleVars, reportVars>>

-----------------------------------------------------------------------------
\* handleLANBootstrap
\* mutant: the service asks only when it starts
SendBootstrapOnce(d) ==
  /\ At(<<d, "refresh">>, "idle") /\ client[d] = "off" /\ d \in mix.on
  /\ Goto(<<d, "refresh">>, [Idle EXCEPT !.op = "bootstrap", !.pc = "find", !.dev = d,
                                         !.addr.host = Names[d]])
  /\ client' = [client EXCEPT ![d] = "starting"]
  /\ UNCHANGED <<netVars, registered, ruleVars, reportVars, held, config>>

\* The service starts, or its refresh ticker fires.
SendBootstrap(d) ==
  /\ At(<<d, "refresh">>, "idle")
  /\ client[d] = "off" \/ (client[d] = "up" /\ "refresh" \in mix.ops)
  /\ d \in mix.on
  /\ Goto(<<d, "refresh">>, [Idle EXCEPT !.op = "bootstrap", !.pc = "find", !.dev = d,
                          !.addr.host = Names[d]])
  /\ client' = IF client[d] = "off" THEN [client EXCEPT ![d] = "starting"] ELSE client
  /\ UNCHANGED <<netVars, registered, ruleVars, reportVars, held, config>>

\* lanNetworkAndAddress
FindAddress(s) ==
  /\ At(s, "find")
  /\ LET rows == addresses[req[s].dev]
     IN IF rows = <<>> THEN Goto(s, [req[s] EXCEPT !.pc = "ensure"])
        ELSE Goto(s, [req[s] EXCEPT !.addr = rows[1], !.net = rows[1].net, !.pc = "network"])
  /\ UNCHANGED <<netVars, registered, ruleVars, reportVars, clientVars>>

FindNetwork(s) ==
  /\ At(s, "network")
  /\ IF networks[req[s].net] = NoRow THEN Error(s)
     ELSE /\ Goto(s, [req[s] EXCEPT !.cidr = networks[req[s].net], !.pc = "register"])
          /\ UNCHANGED clientVars
  /\ UNCHANGED <<netVars, registered, ruleVars, reportVars>>

WithCIDR(c) == {n \in Networks : networks[n] = c}

InsertNetwork(c) == /\ networks' = [networks EXCEPT ![serial + 1] = c]
                    /\ serial' = serial + 1

\* EnsureDefaultVirtualNetwork: insert unless the CIDR is there, then select
EnsureDefault(s) ==
  /\ At(s, "ensure")
  /\ IF WithCIDR(Default) = {} THEN InsertNetwork(Default)
     ELSE UNCHANGED <<networks, serial>>
  /\ Goto(s, [req[s] EXCEPT !.pc = "default"])
  /\ UNCHANGED <<addresses, registered, ruleVars, reportVars, clientVars>>

SelectDefault(s) ==
  /\ At(s, "default")
  /\ \/ /\ WithCIDR(Default) = {} /\ Error(s)
     \/ /\ \E n \in WithCIDR(Default) :
             Goto(s, [req[s] EXCEPT !.net = n, !.cidr = Default, !.pc = "register"])
        /\ UNCHANGED clientVars
  /\ UNCHANGED <<netVars, registered, ruleVars, reportVars>>

\* UpsertDevice, UpsertVirtualDeviceKey, UpsertDeviceProductState
Register(s) ==
  /\ At(s, "register")
  /\ registered' = registered \cup {req[s].dev}
  /\ product' = (req[s].dev :> "offline") @@ product
  /\ Goto(s, [req[s] EXCEPT !.pc = IF req[s].addr.net = 0 THEN "allocate" ELSE "policy"])
  /\ UNCHANGED <<netVars, ruleVars, link, event, learned, clientVars>>

\* mutant: only the newest rule is read (First instead of Find)
ReadNewestPolicy(s) ==
  /\ At(s, "policy")
  /\ Goto(s, [req[s] EXCEPT !.pc = "peers",
       !.seen = [rules |-> {r \in acl : r.net = req[s].net /\ \A q \in acl : q.id <= r.id},
                 routes |-> {r \in routes : r.net = req[s].net /\ r.dev = req[s].dev}]])
  /\ UNCHANGED <<netVars, registered, ruleVars, reportVars, clientVars>>

\* ListVirtualRoutes and ListVirtualACLRules
ReadPolicy(s) ==
  /\ At(s, "policy")
  /\ Goto(s, [req[s] EXCEPT !.pc = "peers",
       !.seen = [rules |-> {r \in acl : r.net = req[s].net},
                 routes |-> {r \in routes : r.net = req[s].net /\ r.dev = req[s].dev}]])
  /\ UNCHANGED <<netVars, registered, ruleVars, reportVars, clientVars>>

\* ListVirtualAddresses, ListVirtualDeviceKeys, ListVirtualLearnedPaths
ReadPeers(s) ==
  /\ At(s, "peers")
  /\ Goto(s, [req[s] EXCEPT !.pc = "expand", !.body = {x.dev : x \in Rows(req[s].net)}])
  /\ UNCHANGED <<netVars, registered, ruleVars, reportVars, clientVars>>

\* expandVirtualACLRules, and the answer.  The service configures its adapter
\* with its first answer; refreshLANPeers only takes the rules of a later one.
ExpandAndAnswer(s) ==
  /\ At(s, "expand") /\ End(s)
  /\ IF s \in Late THEN UNCHANGED clientVars
     ELSE /\ config' = [config EXCEPT ![s[1]] =
               [rules |-> Expand(req[s].seen.rules, req[s].body, members),
                routes |-> req[s].seen.routes]]
          /\ IF client[s[1]] = "starting"
             THEN /\ held' = [held EXCEPT ![s[1]] = req[s].addr]
                  /\ client' = [client EXCEPT ![s[1]] = "configured"]
             ELSE UNCHANGED <<client, held>>
  /\ UNCHANGED <<netVars, registered, ruleVars, reportVars>>

Bootstrap(s) == \/ FindAddress(s) \/ FindNetwork(s) \/ EnsureDefault(s)
                \/ SelectDefault(s) \/ Register(s) \/ ReadPolicy(s)
                \/ ReadPeers(s) \/ ExpandAndAnswer(s)

\* The service is stopped.
StopService(d) ==
  /\ client[d] # "off" /\ "restart" \in mix.ops
  /\ At(<<d, "refresh">>, "idle") /\ At(<<d, "report">>, "idle")
  /\ client' = [client EXCEPT ![d] = "off"]
  /\ held' = [held EXCEPT ![d] = NoAddr] /\ config' = [config EXCEPT ![d] = NoRow]
  /\ UNCHANGED <<netVars, registered, ruleVars, reportVars, req>>

-----------------------------------------------------------------------------
\* The administrator's requests on addresses and networks
Admit(s, r) == /\ s \in Late /\ At(s, "idle") /\ late < mix.late /\ r.op \in mix.ops
               /\ late' = late + 1 /\ Goto(s, r)
               /\ UNCHANGED <<netVars, registered, ruleVars, reportVars, clientVars,
                              mix, faults>>

AddressRequest(s) ==
  \E d \in Devices, n \in 1..serial :
    LET r == [Idle EXCEPT !.dev = d, !.net = n]
    IN \/ Admit(s, [r EXCEPT !.op = "release", !.pc = "delete"])
       \/ Admit(s, [r EXCEPT !.op = "reassign", !.pc = "delete"])
       \/ Admit(s, [r EXCEPT !.op = "touch", !.pc = "get"])
       \/ \E p \in Patched :
            Admit(s, [r EXCEPT !.op = "patch address", !.pc = "validate",
                               !.addr = [net |-> n, ip |-> p.ip, host |-> p.host]])

\* DeleteVirtualAddress; reassign goes on whether or not there was a row
DeleteAddress(s) ==
  /\ At(s, "delete")
  /\ addresses' = [addresses EXCEPT ![req[s].dev] =
                     SelectSeq(@, LAMBDA r : r.net # req[s].net)]
  /\ IF req[s].op = "reassign" THEN Goto(s, [req[s] EXCEPT !.pc = "lookup"]) ELSE End(s)
  /\ UNCHANGED <<networks, serial, registered, ruleVars, reportVars, clientVars>>

\* touchVirtualAddress: write the row back as it was read, or allocate one
GetAddress(s) ==
  /\ At(s, "get")
  /\ LET row == RowOf(req[s].dev, req[s].net)
     IN IF row = <<>> THEN Goto(s, [req[s] EXCEPT !.pc = "lookup"])
        ELSE Goto(s, [req[s] EXCEPT !.addr = row[1], !.pc = "select"])
  /\ UNCHANGED <<netVars, registered, ruleVars, reportVars, clientVars>>

\* virtualNetworkByID before allocateVirtualAddress
LookupNetwork(s) ==
  /\ At(s, "lookup")
  /\ IF networks[req[s].net] = NoRow THEN End(s)
     ELSE Goto(s, [req[s] EXCEPT !.cidr = networks[req[s].net], !.pc = "allocate"])
  /\ UNCHANGED <<netVars, registered, ruleVars, reportVars, clientVars>>

\* validateVirtualAddressCIDR
ValidateAddress(s) ==
  /\ At(s, "validate")
  /\ IF networks[req[s].net] # NoRow /\ req[s].addr.ip \in Hosts(networks[req[s].net])
     THEN Goto(s, [req[s] EXCEPT !.cidr = networks[req[s].net], !.pc = "select"])
     ELSE End(s)
  /\ UNCHANGED <<netVars, registered, ruleVars, reportVars, clientVars>>

\* handleAdminLANNetwork(s): one statement each, except the delete
CreateNetwork == \E c \in CIDRs : WithCIDR(c) = {} /\ InsertNetwork(c)

PatchNetwork == \E n \in Networks, c \in CIDRs :
                  /\ WithCIDR(c) \subseteq {n} /\ UNCHANGED serial
                  /\ networks' = [networks EXCEPT ![n] = c]

NetworkRequest(s) ==
  \E n \in 1..serial :
    Admit(s, [Idle EXCEPT !.op = "delete network", !.pc = "check", !.net = n, !.body = 1])

\* ensureVirtualNetworkEmpty lists four tables, one after the other.
HasRows(i, n) == CASE i = 1 -> Rows(n) # {}
                   [] i = 2 -> \E r \in acl : r.net = n
                   [] i = 3 -> \E r \in routes : r.net = n
                   [] i = 4 -> \E k \in DOMAIN link : k[3] = n

CheckEmpty(s) ==
  /\ At(s, "check")
  /\ LET i == req[s].body
     IN IF HasRows(i, req[s].net) THEN End(s)
        ELSE Goto(s, [req[s] EXCEPT !.body = i + 1, !.pc = IF i < 4 THEN "check" ELSE "remove"])
  /\ UNCHANGED <<netVars, registered, ruleVars, reportVars, clientVars>>

DeleteNetwork(s) ==
  /\ At(s, "remove") /\ End(s)
  /\ networks' = [networks EXCEPT ![req[s].net] = NoRow]
  /\ UNCHANGED <<serial, addresses, registered, ruleVars, reportVars, clientVars>>

-----------------------------------------------------------------------------
\* Groups, ACL and routes
\* UpsertVirtualDeviceGroup, then the transaction SetVirtualDeviceGroupMembers
GroupRequest(s) ==
  \E g \in Groups, m \in SUBSET Devices :
    Admit(s, [Idle EXCEPT !.op = "group", !.pc = "upsert group", !.dev = g, !.body = m])

UpsertGroup(s) ==
  /\ At(s, "upsert group") /\ groups' = groups \cup {req[s].dev}
  /\ Goto(s, [req[s] EXCEPT !.pc = "members"])
  /\ UNCHANGED <<netVars, registered, members, acl, routes, reportVars, clientVars>>

SetMembers(s) ==
  /\ At(s, "members") /\ members' = [members EXCEPT ![req[s].dev] = req[s].body]
  /\ End(s)
  /\ UNCHANGED <<netVars, registered, groups, acl, routes, reportVars, clientVars>>

\* The transaction is rolled back when there is no such group.
DeleteGroup == \E g \in groups : /\ groups' = groups \ {g}
                                 /\ members' = [members EXCEPT ![g] = {}]

NewRules(n) == {[id |-> serial + 1, net |-> n, src |-> e[1], dst |-> e[2]] : e \in RuleEnds}

CreateRule == \E n \in 1..serial : \E r \in NewRules(n) :
                acl' = acl \cup {r} /\ serial' = serial + 1

PatchRule == \E r \in acl, e \in RuleEnds :
               /\ acl' = (acl \ {r}) \cup {[r EXCEPT !.src = e[1], !.dst = e[2]]}
               /\ UNCHANGED serial

DeleteRule == \E r \in acl : acl' = acl \ {r} /\ UNCHANGED serial

\* decodeVirtualRoute looks the device up before the route is written; a PATCH
\* names the row it updates, a POST has id 0.
RouteRequest(s) ==
  \E d \in Devices, n \in 1..serial, c \in CIDRs, id \in {0} \cup {r.id : r \in routes} :
    Admit(s, [Idle EXCEPT !.op = "route", !.pc = "device", !.dev = d, !.net = n,
                          !.cidr = c, !.body = id])

FindDevice(s) ==
  /\ At(s, "device")
  /\ IF req[s].dev \in registered THEN Goto(s, [req[s] EXCEPT !.pc = "route"]) ELSE End(s)
  /\ UNCHANGED <<netVars, registered, ruleVars, reportVars, clientVars>>

UpsertRoute(s) ==
  LET row == [id |-> req[s].body, dev |-> req[s].dev, net |-> req[s].net, cidr |-> req[s].cidr]
      same == {r \in routes : [r EXCEPT !.id = 0] = [row EXCEPT !.id = 0]}
  IN /\ At(s, "route") /\ End(s)
     /\ IF row.id > 0
        THEN /\ routes' = IF row.id \in {r.id : r \in routes} /\ same = {}
                          THEN {r \in routes : r.id # row.id} \cup {row} ELSE routes
             /\ UNCHANGED serial
        ELSE IF same # {} THEN UNCHANGED <<routes, serial>>
        ELSE routes' = routes \cup {[row EXCEPT !.id = serial + 1]} /\ serial' = serial + 1
     /\ UNCHANGED <<networks, addresses, registered, groups, members, acl, reportVars, clientVars>>

DeleteRoute == \E r \in routes : routes' = routes \ {r}

-----------------------------------------------------------------------------
\* handleLANStatus
Key(s) == <<req[s].dev, req[s].body.peer, req[s].net>>

\* The first report, from bootstrapAndRun, names no peer and has no path.
SendStatus(d) ==
  /\ At(<<d, "report">>, "idle") /\ d \in mix.reports
  /\ \E b \in [peer : Devices \cup {NoPeer}, path : Paths, learned : BOOLEAN] :
       /\ IF client[d] = "configured"
          THEN /\ b = [peer |-> NoPeer, path |-> "none", learned |-> FALSE]
               /\ mix.ops \cap {"status", "refresh"} # {}
          ELSE /\ client[d] = "up" /\ "status" \in mix.ops
               /\ b.peer \in Devices \ {d} /\ b.path # "none"
       /\ Goto(<<d, "report">>, [Idle EXCEPT !.op = "status", !.pc = "previous", !.dev = d,
                               !.net = held[d].net, !.body = b])
  /\ UNCHANGED <<netVars, registered, ruleVars, reportVars, clientVars>>

\* PutVirtualPeerState: select the previous row, upsert, and an event if the
\* path changed
SelectPrevious(s) ==
  /\ At(s, "previous")
  /\ Goto(s, [req[s] EXCEPT !.pc = "put",
                !.seen = IF Key(s) \in DOMAIN link THEN link[Key(s)] ELSE NoRow])
  /\ UNCHANGED <<netVars, registered, ruleVars, reportVars, clientVars>>

\* mutant: the first report of a link writes no event
PutStateFirstSilent(s) ==
  /\ At(s, "put") /\ link' = (Key(s) :> req[s].body.path) @@ link
  /\ Goto(s, [req[s] EXCEPT !.pc = IF req[s].seen \in {NoRow, req[s].body.path}
                                   THEN "product" ELSE "event"])
  /\ UNCHANGED <<netVars, registered, ruleVars, product, event, learned, clientVars>>

PutState(s) ==
  /\ At(s, "put") /\ link' = (Key(s) :> req[s].body.path) @@ link
  /\ Goto(s, [req[s] EXCEPT !.pc = IF req[s].seen = req[s].body.path
                                   THEN "product" ELSE "event"])
  /\ UNCHANGED <<netVars, registered, ruleVars, product, event, learned, clientVars>>

InsertEvent(s) ==
  /\ At(s, "event") /\ event' = (Key(s) :> req[s].body.path) @@ event
  /\ Goto(s, [req[s] EXCEPT !.pc = "product"])
  /\ UNCHANGED <<netVars, registered, ruleVars, product, link, learned, clientVars>>

Reported(s) ==
  /\ End(s) /\ UNCHANGED <<held, config>>
  /\ client' = IF s \notin Late /\ client[s[1]] = "configured"
               THEN [client EXCEPT ![s[1]] = "up"] ELSE client

\* UpsertDeviceProductState of lanProductMetadata
PutProduct(s) ==
  /\ At(s, "product") /\ product' = (req[s].dev :> "online") @@ product
  /\ IF req[s].body.learned
     THEN Goto(s, [req[s] EXCEPT !.pc = "learn"]) /\ UNCHANGED clientVars
     ELSE Reported(s)
  /\ UNCHANGED <<netVars, registered, ruleVars, link, event, learned>>

\* UpsertVirtualLearnedPath of what LearnedPathsSnapshot reports, which always
\* has preheat_enabled set
PutLearned(s) ==
  /\ At(s, "learn") /\ learned' = (Key(s) :> TRUE) @@ learned
  /\ Reported(s)
  /\ UNCHANGED <<netVars, registered, ruleVars, product, link, event>>

\* SetVirtualLearnedPathPreheat
SetPreheat == \E k \in DOMAIN learned, b \in BOOLEAN :
                learned' = [learned EXCEPT ![k] = b]

Report(s) == \/ SelectPrevious(s) \/ PutState(s) \/ InsertEvent(s)
             \/ PutProduct(s) \/ PutLearned(s)

-----------------------------------------------------------------------------
\* What cuts a request short.  Its program waits ten seconds for the answer
\* and gives up; the handler's context is then cancelled, which it notices at
\* its next statement or not at all.
GiveUp(s) ==
  /\ s \notin Late /\ ~At(s, "idle") /\ "timeout" \in mix.ops /\ late < mix.late
  /\ \E t \in Late : At(t, "idle") /\ req' = [req EXCEPT ![s] = Idle, ![t] = req[s]]
  /\ late' = late + 1 /\ client' = AfterError(s)
  /\ UNCHANGED <<netVars, registered, ruleVars, reportVars, held, config, mix, faults>>

Fail(s) ==
  /\ ~At(s, "idle")
  /\ \/ "fault" \in mix.ops /\ faults < MaxFaults /\ faults' = faults + 1
     \/ s \in Late /\ req[s].op \in {"bootstrap", "status"} /\ UNCHANGED faults
  /\ IF req[s].pc \in {"select", "insert", "update"} THEN UpsertError(s) ELSE Error(s)
  /\ UNCHANGED <<netVars, registered, ruleVars, reportVars, mix, late>>

-----------------------------------------------------------------------------
AddressOps == {"release", "reassign", "touch", "patch address"}
AllInForce(d) == UNION {InForce(d, n).rules \cup InForce(d, n).routes : n \in Ids}
InReport(k) == {s \in Slots : req[s].op = "status" /\ Key(s) = k /\ req[s].pc \in {"put", "event"}}

\* The history variables follow every step.
History ==
  /\ moved' = {d \in Devices :
       \/ \E s \in Late : req'[s].dev = d /\ req'[s].op \in AddressOps \cup {"bootstrap"}
       \/ d \in moved /\ ~(client[d] = "off" /\ client'[d] = "starting")}
  /\ altered' = altered \cup {n \in Networks :
       /\ networks'[n] # networks[n]
       /\ networks'[n] # NoRow \/ Rows(n) # {} \/ \E s \in Slots : req[s].net = n /\ req[s].op # "delete network"}
  /\ standing' = [d \in Devices |->
       LET s == <<d, "refresh">>
       IN IF req'[s].op = "none" THEN {}
          ELSE IF req[s].op = "none" THEN AllInForce(d)' ELSE standing[d] \cap AllInForce(d)']
  /\ disturbed' = disturbed
       \cup {k \in Links : Cardinality(InReport(k)') > 1}
       \cup {Key(s) : s \in {t \in Slots : req[t].pc = "event" /\ event' = event /\ req'[t] # req[t]}}

Step(s) == \/ Bootstrap(s) \/ Report(s)
           \/ Allocate(s) \/ SelectAddress(s) \/ InsertAddress(s) \/ UpdateAddress(s)
           \/ DeleteAddress(s) \/ GetAddress(s) \/ LookupNetwork(s) \/ ValidateAddress(s)
           \/ CheckEmpty(s) \/ DeleteNetwork(s)
           \/ UpsertGroup(s) \/ SetMembers(s) \/ FindDevice(s) \/ UpsertRoute(s)

Admission(s) == \/ AddressRequest(s) \/ NetworkRequest(s) \/ GroupRequest(s) \/ RouteRequest(s)

\* The administrator's requests of one statement
Single(op) == /\ op \in mix.ops /\ late < mix.late /\ late' = late + 1
              /\ UNCHANGED <<registered, req, clientVars, mix, faults>>

SingleRequest ==
  \/ /\ Single("network") /\ (CreateNetwork \/ PatchNetwork)
     /\ UNCHANGED <<addresses, ruleVars, reportVars>>
  \/ /\ Single("group") /\ DeleteGroup
     /\ UNCHANGED <<netVars, acl, routes, reportVars>>
  \/ /\ Single("rule") /\ (CreateRule \/ PatchRule \/ DeleteRule)
     /\ UNCHANGED <<networks, addresses, groups, members, routes, reportVars>>
  \/ /\ Single("route") /\ DeleteRoute
     /\ UNCHANGED <<netVars, groups, members, acl, reportVars>>
  \/ /\ Single("preheat") /\ SetPreheat
     /\ UNCHANGED <<netVars, ruleVars, product, link, event>>

Next == /\ \/ /\ \/ \E d \in Devices : SendBootstrap(d) \/ SendStatus(d) \/ StopService(d)
                 \/ \E s \in Slots : Step(s)
              /\ UNCHANGED bounds
           \/ \E s \in Slots : Admission(s) \/ GiveUp(s) \/ Fail(s)
           \/ SingleRequest
        /\ History

\* net/http runs every handler to its end, and the tickers of the service
\* keep firing; nothing makes an administrator act or a statement fail.
Spec == /\ Init /\ [][Next]_vars
        /\ \A s \in Slots : WF_vars(Step(s) /\ UNCHANGED bounds /\ History)
        /\ \A d \in Devices : WF_vars(SendBootstrap(d) /\ UNCHANGED bounds /\ History)

-----------------------------------------------------------------------------
TypeOK ==
  /\ networks \in [Ids -> CIDRs \cup {NoRow}] /\ serial \in Ids \cup {0}
  /\ \A d \in Devices : ToSet(addresses[d]) \subseteq Addresses
  /\ registered \subseteq Devices /\ groups \subseteq Groups
  /\ members \in [Groups -> SUBSET Devices] /\ acl \subseteq Rules /\ routes \subseteq Routes
  /\ DOMAIN link \cup DOMAIN event \cup DOMAIN learned \subseteq Links
  /\ client \in [Devices -> {"off", "starting", "configured", "stuck", "up"}]
  /\ held \in [Devices -> Addresses]
  /\ \A s \in Slots : DOMAIN req[s] = DOMAIN Idle

\* The address a running service configured its adapter with is stored as a row
\* of its device, so by the unique index no other device can be given it,
\* unless an administrator's request, or a bootstrap the service had given up,
\* was still to write that device's address.
HeldAddressStored ==
  \A d \in Devices : held[d] # NoAddr /\ d \notin moved => held[d] \in ToSet(addresses[d])

\* An address is a host address of a network that exists, never the network's own
\* or the broadcast address, unless the network was given another CIDR, or deleted
\* while it was used: every request that writes one looks the network up first.
AddressesUsable ==
  \A d \in Devices : \A r \in ToSet(addresses[d]) :
    r.net \notin altered =>
      networks[r.net] # NoRow /\ networks[r.net].lo < r.ip /\ r.ip < networks[r.net].hi

NetOf(x) == IF "rule" \in DOMAIN x THEN x.rule.net ELSE x.net

\* A rule expanded over its groups, or a route, that was in force for a pair of
\* devices from the first to the last statement of a bootstrap is in the
\* answer, however the other rules, groups and addresses changed meanwhile.
StandingRulesAnswered ==
  [][\A d \in Devices :
       LET s == <<d, "refresh">>
       IN req[s].pc = "expand" /\ ExpandAndAnswer(s)
            => \A x \in standing[d] :
                 NetOf(x) = req[s].net => x \in config'[d].rules \cup config'[d].routes]_vars

\* The last event in a link's path log is the path the link is stored with,
\* once no report of the link is under way.
EventLogFollowsState ==
  \A k \in DOMAIN link : InReport(k) = {} /\ k \notin disturbed
                           => k \in DOMAIN event /\ event[k] = link[k]

\* A learned path whose preheating the administrator has switched off stays off
\* until the administrator switches it on.
PreheatSettingKept ==
  [][\A k \in DOMAIN learned : learned[k] = FALSE /\ late' = late
                                 => learned'[k] = FALSE]_vars

\* Its newest address lies in a network that was deleted under it: its
\* bootstraps are refused for good.
Orphaned(d) == addresses[d] # <<>> /\ networks[addresses[d][1].net] = NoRow

\* It has no address and the default network has none to give.
TurnedAway(d) ==
  addresses[d] = <<>> /\ \E n \in WithCIDR(Default) :
                           Hosts(Default) \subseteq {x.ip : x \in Rows(n)}

\* Once the administrator stops, every running service ends up with the rules
\* and routes that are stored for its network, since it asks again and again,
\* except when it is orphaned or turned away.
RulesReachDevices ==
  \A d \in Devices : <>[](\/ client[d] # "up" \/ Orphaned(d) \/ TurnedAway(d)
                          \/ addresses[d] # <<>> /\ config[d] = InForce(d, addresses[d][1].net))
=============================================================================
