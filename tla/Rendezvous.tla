---------------------------- MODULE Rendezvous ----------------------------
(***************************************************************************)
(* internal/server/udp.go: the UDP rendezvous and relay server.  A device  *)
(* registers a slot (from, want, profile) from a socket; when the mirror   *)
(* slot is registered too, both sides are told of each other and a relay   *)
(* route is stored for each of the two sockets.  One goroutine serves all  *)
(* packets (register, LAN register, relay, LAN UDP relay); another one     *)
(* expires slots, routes and sessions every 15 s.  Routes are kept in      *)
(* a sync.Map that the two share without a.mu, so handleRelay and the      *)
(* Range of cleanupLoop are split at their reads and writes.               *)
(*                                                                         *)
(* A slot of table "agent" is in a.peers, one of table "lan" in            *)
(* a.lanPeers; the two handlers do the same to their table.  A time stamp  *)
(* is the age since it was set.  Sockets gives the addresses a slot's      *)
(* owner registers from: agents open a socket per slot, a LAN device uses  *)
(* one for all its peers.                                                  *)
(***************************************************************************)
EXTENDS Integers

CONSTANTS
  Slots,      \* [table, from, want, profile]
  Addrs,      \* UDP addresses
  NoAddr,     \* no address: an absent map entry
  Sockets,    \* [Slots -> SUBSET Addrs]
  PeerTTL, PairTTL, RelayIdle,   \* in ticks
  StoreErrors   \* whether calls of the store may fail

Mirror(s) == [s EXCEPT !.from = s.want, !.want = s.from]
Devices == {s.from : s \in Slots} \cup {s.want : s \in Slots}

\* pairKey(a, b, profile), the same for a slot and its mirror.
PairKey(s) == <<{s.from, s.want}, s.profile>>
PairKeys == {PairKey(s) : s \in Slots}
NoKey == <<{}, "none">>

ASSUME SlotAssumption ==
  Slots \subseteq [table : {"agent", "lan"}, from : Devices, want : Devices,
                   profile : {s.profile : s \in Slots}]
ASSUME AddrAssumption == NoAddr \notin Addrs /\ Sockets \in [Slots -> SUBSET Addrs]
ASSUME TTLAssumption == PeerTTL \in Nat /\ PairTTL \in Nat /\ RelayIdle \in Nat
ASSUME StoreAssumption == StoreErrors \in BOOLEAN

\* An age stops growing once every TTL has passed.
MaxAge == PeerTTL + PairTTL + RelayIdle + 1
Ages == 0..MaxAge
MaybeAddr == Addrs \cup {NoAddr}

VARIABLES
  peers,     \* per slot: a.peers or a.lanPeers, its socket and age
  told,      \* per slot: the mirror's address in the last PeerInfo sent
  pairs,     \* per address: its relay route, with its age and its session
  session,   \* per pair: the session in the store, cached in a.pairByID
  touched,   \* per pair: age of the session's last_seen
  relaying,  \* handleRelay between its Load and its Store: src and route
  cleaner    \* cleanupLoop: pc, the addresses still to visit, the doomed one

storeVars == <<session, touched>>
vars == <<peers, told, pairs, storeVars, relaying, cleaner>>

\* Absent entries.  A route's key is its pair, NoKey for session id 0.
NoPeer == [addr |-> NoAddr, seen |-> 0]
NoRoute == [dst |-> NoAddr, used |-> 0, key |-> NoKey]
Idle == [src |-> NoAddr, route |-> NoRoute]
Resting == [pc |-> "waiting", todo |-> {}, doomed |-> NoAddr]

Init ==
  /\ peers = [s \in Slots |-> NoPeer]
  /\ told = [s \in Slots |-> NoAddr]
  /\ pairs = [a \in Addrs |-> NoRoute]
  /\ session = [k \in PairKeys |-> "none"]
  /\ touched = [k \in PairKeys |-> 0]
  /\ relaying = Idle
  /\ cleaner = Resting
-----------------------------------------------------------------------------
\* The slot table after s registered from a.
Registered(s, a) == [peers EXCEPT ![s] = [addr |-> a, seen |-> 0]]

\* Routes after the slot's old socket was given up for a.
Voided(s, a) ==
  [x \in Addrs |-> IF x = peers[s].addr /\ x # a THEN NoRoute ELSE pairs[x]]

\* ensurePairSession: the pair's session, NoKey when StartSession failed.
Opened(k) == IF session[k] = "none" /\ StoreErrors THEN {k, NoKey} ELSE {k}

Route(dst, key) == [dst |-> dst, used |-> 0, key |-> key]

\* Mutant of Paired: the registering side is routed to itself.
PairedToSelf(r, a, b, key) == [r EXCEPT ![a] = Route(a, key), ![b] = Route(a, key)]

\* The two Stores that end a pairing.
Paired(r, a, b, key) == [r EXCEPT ![a] = Route(b, key), ![b] = Route(a, key)]

\* handleRegister and handleLANRegister, the mirror slot being absent.
RegisterAlone(s, a) ==
  /\ relaying = Idle
  /\ Mirror(s) \in Slots => Registered(s, a)[Mirror(s)] = NoPeer
  /\ peers' = Registered(s, a)
  /\ pairs' = Voided(s, a)
  /\ UNCHANGED <<told, session, touched, relaying, cleaner>>

\* Mutant of RegisterPair: only the registering side is told.
RegisterPairTellsOne(s, a) ==
  LET m == Mirror(s)
      b == Registered(s, a)[m].addr
      k == PairKey(s)
  IN
  /\ relaying = Idle
  /\ m \in Slots /\ b # NoAddr
  /\ peers' = Registered(s, a)
  /\ told' = [told EXCEPT ![s] = b]
  /\ \E id \in Opened(k) :
       /\ pairs' = Paired(Voided(s, a), a, b, id)
       /\ IF id = NoKey \/ session[k] # "none"
            THEN UNCHANGED <<session, touched>>
            ELSE /\ session' = [session EXCEPT ![k] = "active"]
                 /\ touched' = [touched EXCEPT ![k] = 0]
  /\ UNCHANGED <<relaying, cleaner>>

\* The same with the mirror slot present: both sides are told, the session is
\* taken from pairByID or started, two routes are stored.
RegisterPair(s, a) ==
  LET m == Mirror(s)
      b == Registered(s, a)[m].addr
      k == PairKey(s)
  IN
  /\ relaying = Idle
  /\ m \in Slots /\ b # NoAddr
  /\ peers' = Registered(s, a)
  /\ told' = [told EXCEPT ![s] = b, ![m] = a]
  /\ \E id \in Opened(k) :
       /\ pairs' = Paired(Voided(s, a), a, b, id)
       /\ IF id = NoKey \/ session[k] # "none"
            THEN UNCHANGED <<session, touched>>
            ELSE /\ session' = [session EXCEPT ![k] = "active"]
                 /\ touched' = [touched EXCEPT ![k] = 0]
  /\ UNCHANGED <<relaying, cleaner>>

\* handleRelay: a KCP packet from a; its route is loaded, the packet written.
RelayLoad(a) ==
  /\ relaying = Idle
  /\ pairs[a] # NoRoute
  /\ relaying' = [src |-> a, route |-> pairs[a]]
  /\ UNCHANGED <<peers, told, pairs, storeVars, cleaner>>

\* The write succeeded: TouchSession, and the loaded route is stored anew.
RelayStore ==
  LET r == relaying.route IN
  /\ relaying # Idle
  /\ pairs' = [pairs EXCEPT ![relaying.src] = Route(r.dst, r.key)]
  /\ \/ touched' = [k \in PairKeys |-> IF k = r.key THEN 0 ELSE touched[k]]
     \/ StoreErrors /\ UNCHANGED touched
  /\ relaying' = Idle
  /\ UNCHANGED <<peers, told, session, cleaner>>

\* The write failed: nothing is stored.
RelayFails ==
  /\ relaying # Idle
  /\ relaying' = Idle
  /\ UNCHANGED <<peers, told, pairs, storeVars, cleaner>>
-----------------------------------------------------------------------------
Expired(s) == peers[s] # NoPeer /\ peers[s].seen > PeerTTL

\* cleanupExpiredPeers, under a.mu.
CleanPeers ==
  LET gone == {peers[s].addr : s \in {x \in Slots : Expired(x)}} IN
  /\ cleaner.pc = "waiting"
  /\ peers' = [s \in Slots |-> IF Expired(s) THEN NoPeer ELSE peers[s]]
  /\ pairs' = [a \in Addrs |-> IF a \in gone THEN NoRoute ELSE pairs[a]]
  /\ cleaner' = [pc |-> "ranging", todo |-> Addrs, doomed |-> NoAddr]
  /\ UNCHANGED <<told, storeVars, relaying>>

\* pairs.Range reads the route of a and finds it stale or not.
RangeRead(a) ==
  /\ cleaner.pc = "ranging" /\ cleaner.doomed = NoAddr
  /\ a \in cleaner.todo
  /\ cleaner' = [pc |-> "ranging", todo |-> cleaner.todo \ {a},
                  doomed |-> IF pairs[a].used > PairTTL THEN a ELSE NoAddr]
  /\ UNCHANGED <<peers, told, pairs, storeVars, relaying>>

\* Mutant of RangeDelete: the stale route is skipped.
RangeSkip ==
  /\ cleaner.doomed # NoAddr
  /\ cleaner' = [cleaner EXCEPT !.doomed = NoAddr]
  /\ UNCHANGED <<peers, told, pairs, storeVars, relaying>>

\* pairs.Delete of the address found stale.
RangeDelete ==
  /\ cleaner.doomed # NoAddr
  /\ pairs' = [pairs EXCEPT ![cleaner.doomed] = NoRoute]
  /\ cleaner' = [pc |-> "ranging", todo |-> cleaner.todo, doomed |-> NoAddr]
  /\ UNCHANGED <<peers, told, storeVars, relaying>>

IdleSession(k) == session[k] = "active" /\ touched[k] > RelayIdle

\* EndIdleSessions ends the round.
CleanStore ==
  /\ cleaner.pc = "ranging" /\ cleaner.todo = {} /\ cleaner.doomed = NoAddr
  /\ \/ session' = [k \in PairKeys |-> IF IdleSession(k) THEN "ended" ELSE session[k]]
     \/ StoreErrors /\ UNCHANGED session
  /\ cleaner' = Resting
  /\ UNCHANGED <<peers, told, pairs, touched, relaying>>

Later(n) == IF n < MaxAge THEN n + 1 ELSE MaxAge

\* Time passes.  A clean-up round compares with the time at its start, so what
\* passes during a round may as well pass after it.
Tick ==
  /\ cleaner.pc = "waiting"
  /\ peers' = [s \in Slots |-> IF peers[s] = NoPeer THEN NoPeer
                                ELSE [peers[s] EXCEPT !.seen = Later(@)]]
  /\ pairs' = [a \in Addrs |-> IF pairs[a] = NoRoute THEN NoRoute
                                ELSE [pairs[a] EXCEPT !.used = Later(@)]]
  /\ touched' = [k \in PairKeys |-> IF session[k] = "active" THEN Later(touched[k])
                                     ELSE touched[k]]
  /\ UNCHANGED <<told, session, relaying, cleaner>>

\* An agent's HTTP report of a tunnel that is up touches the pair's open
\* session (UpdateSessionPathForPair).
ReportPath(k) ==
  /\ session[k] = "active"
  /\ touched' = [touched EXCEPT ![k] = 0]
  /\ UNCHANGED <<peers, told, pairs, session, relaying, cleaner>>

UDP ==
  \/ \E s \in Slots : \E a \in Sockets[s] : RegisterAlone(s, a) \/ RegisterPair(s, a)
  \/ \E a \in Addrs : RelayLoad(a)
  \/ RelayStore
  \/ RelayFails

HTTP == \E k \in PairKeys : ReportPath(k)

Cleanup ==
  \/ CleanPeers
  \/ \E a \in Addrs : RangeRead(a)
  \/ RangeDelete
  \/ CleanStore

Next == UDP \/ HTTP \/ Cleanup \/ Tick

Spec == Init /\ [][Next]_vars

\* EndIdleSessions succeeds and ends a session.
EndIdle == CleanStore /\ session' # session

\* The ticker of cleanupLoop never stops, and neither does time; packets and
\* reports may.  A store that fails does not fail every time.
FairSpec == Spec /\ WF_vars(Cleanup) /\ SF_vars(Tick) /\ SF_vars(EndIdle)
-----------------------------------------------------------------------------
Routes == [dst : MaybeAddr, used : Ages, key : PairKeys \cup {NoKey}]

\* Type correctness of the server's tables.
TypeOK ==
  /\ peers \in [Slots -> [addr : MaybeAddr, seen : Ages]]
  /\ told \in [Slots -> MaybeAddr]
  /\ pairs \in [Addrs -> Routes]
  /\ session \in [PairKeys -> {"none", "active", "ended"}]
  /\ touched \in [PairKeys -> Ages]
  /\ relaying \in [src : MaybeAddr, route : Routes]
  /\ cleaner \in [pc : {"waiting", "ranging"}, todo : SUBSET Addrs, doomed : MaybeAddr]

\* a and b are sockets of two slots that asked for each other.
Mutual(a, b) ==
  \E s \in Slots : Mirror(s) \in Slots /\ a \in Sockets[s] /\ b \in Sockets[Mirror(s)]

\* handleLANUDPRelay: the sockets a frame for device d may be sent to, the
\* first one met in a map's unordered iteration.
LANTargets(d) ==
  {peers[s].addr : s \in {x \in Slots : x.table = "lan" /\ x.from = d /\ peers[x] # NoPeer}}

\* A packet is relayed only between two sockets whose owners asked for each
\* other, also when handleRelay stores a route anew during a clean-up round,
\* and a LAN frame for a device goes to a socket of that device.
RoutesAreMutual ==
  /\ \A a \in Addrs : pairs[a] # NoRoute => Mutual(a, pairs[a].dst)
  /\ relaying # Idle => Mutual(relaying.src, relaying.route.dst)
  /\ \A d \in Devices : \A a \in LANTargets(d) :
       \E s \in Slots : s.from = d /\ a \in Sockets[s]

\* As long as two slots that want each other are both registered, each owner
\* was last told the other's current socket, however often sockets changed
\* and registrations expired before.
PairedSlotsInformed ==
  \A s \in Slots :
    LET m == Mirror(s) IN
    m \in Slots /\ peers[s] # NoPeer /\ peers[m] # NoPeer => told[s] = peers[m].addr

\* Once packets and reports stop coming, cleanupLoop empties every table and
\* ends every session, whatever the two goroutines did to the routes before.
Drained ==
  /\ \A s \in Slots : peers[s] = NoPeer
  /\ \A a \in Addrs : pairs[a] = NoRoute
  /\ \A k \in PairKeys : session[k] # "active"
Drains == <>[][~(UDP \/ HTTP)]_vars => <>[]Drained

\* A device may register for several peers at once (internal/server/server.go,
\* comment on App.peers): two slots just registered for each other have a
\* relay route between their sockets.
PairedSlotsRouted ==
  \A s \in Slots :
    LET m == Mirror(s) IN
    m \in Slots /\ peers[s] # NoPeer /\ peers[m] # NoPeer
      /\ peers[s].seen = 0 /\ peers[m].seen = 0
      => pairs[peers[s].addr].dst = peers[m].addr

\* A relay route that carried a packet within the relay idle timeout (it is
\* fresher than the registrations of both its ends) is given up only when its
\* owner moves to another socket.
ActiveRelayKept ==
  [][\A a \in Addrs :
       /\ pairs[a] # NoRoute /\ pairs[a].used <= RelayIdle
       /\ \A s \in Slots : peers[s].addr \in {a, pairs[a].dst} => pairs[a].used < peers[s].seen
       /\ pairs'[a] = NoRoute
       => \E s \in Slots : peers[s].addr = a /\ peers'[s].addr \notin {a, NoAddr}]_vars
=============================================================================
