---------------------------- MODULE LanPeerSteps ----------------------------
(***************************************************************************)
(* What one UDPTunnelLAN device does to its record of one peer: the        *)
(* handlers of lanP2P (cmd/UDPTunnelLAN/packet_runtime.go) as functions    *)
(* from a peer record to the peer record they leave.  A peer record holds  *)
(* the atomics of lanP2PPeer and the goroutines working on them:           *)
(*   addr       where packets for the peer go: nowhere yet, the peer's     *)
(*              current socket, a socket the peer has closed, the server   *)
(*   punched, punching, ready (datagramReady), relay (isRelay),            *)
(*   long (longPunching), connected, signals (punchSignals)                *)
(*   codec      the tx and rx codecs exist                                 *)
(*   kcp        a confirmed KCP session is installed                       *)
(*   loops      punch loops running                                        *)
(*   opening    openTunnel goroutines between their compare-and-swap on    *)
(*              connected and their outcome                                *)
(*   retry      a delayed open retry is pending                            *)
(*   rotating   a socket rotation has been started                         *)
(*   failures   openFailures, counted up to RotateAfter                    *)
(*   active     the last traffic is younger than lanActiveTrafficTTL       *)
(* and the network's settings: policy, and whether the server relays.      *)
(***************************************************************************)
EXTENDS Naturals, FiniteSets

CONSTANTS RotateAfter,  \* lanRelayRotateAfter
          MaxLoops,     \* bound: punch loops alive at once
          MaxOpening    \* bound: openTunnel goroutines alive at once

ASSUME CountsAssumption ==
  RotateAfter \in Nat /\ MaxLoops \in Nat /\ MaxOpening \in Nat

Policies == {"prefer_p2p", "prefer_relay", "relay_only"}
Addrs == {"none", "peer", "stale", "server"}
Incoming == "incoming"
Ack == "ack"
BothSignals == {Incoming, Ack}

PeerRecord ==
  [policy: Policies, relayEnabled: BOOLEAN, addr: Addrs, punched: BOOLEAN,
   punching: BOOLEAN, ready: BOOLEAN, relay: BOOLEAN, long: BOOLEAN,
   connected: BOOLEAN, signals: SUBSET BothSignals, codec: BOOLEAN,
   kcp: BOOLEAN, loops: 0..MaxLoops, opening: 0..MaxOpening, retry: BOOLEAN,
   rotating: BOOLEAN, failures: 0..RotateAfter, active: BOOLEAN]

NewPeer(policy, relayEnabled) ==
  [policy |-> policy, relayEnabled |-> relayEnabled, addr |-> "none",
   punched |-> FALSE, punching |-> FALSE, ready |-> FALSE, relay |-> FALSE,
   long |-> FALSE, connected |-> FALSE, signals |-> {}, codec |-> FALSE,
   kcp |-> FALSE, loops |-> 0, opening |-> 0, retry |-> FALSE,
   rotating |-> FALSE, failures |-> 0, active |-> FALSE]

\* The bounds on goroutines: an event that would exceed one is not taken.
Within(p) == p.loops <= MaxLoops /\ p.opening <= MaxOpening

RelayOnly(p) == p.policy = "relay_only"
PinnedToRelay(p) == p.relay /\ RelayOnly(p)

-----------------------------------------------------------------------------
(* Shared pieces of the handlers.                                           *)

StartPunchLoop(p) ==
  IF p.punching THEN p
  ELSE [p EXCEPT !.punching = TRUE, !.loops = @ + 1]

LearnAddr(p, a) == IF PinnedToRelay(p) THEN p ELSE [p EXCEPT !.addr = a]

Confirmed(p) == p.codec /\ p.signals = BothSignals

MarkPunchSignal(p, signal) ==
  LET q == [p EXCEPT !.signals = @ \cup {signal}]
  IN  [q EXCEPT !.ready = @ \/ Confirmed(q)]

CanUseDatagram(p) == p.ready /\ p.codec /\ ~PinnedToRelay(p) /\ p.addr # "none"

OpenTunnel(p) ==
  CASE CanUseDatagram(p) -> [p EXCEPT !.relay = FALSE]
    [] ~CanUseDatagram(p) /\ ~p.connected ->
         [p EXCEPT !.connected = TRUE, !.opening = @ + 1]
    [] OTHER -> p

OpenTunnelUnlessDatagramReady(p) == IF RelayOnly(p) THEN p ELSE OpenTunnel(p)

-----------------------------------------------------------------------------
(* Control messages: the server's PeerInfo and the peer's Punch, PunchAck.  *)

OnPeerInfo(p, a) ==
  LET q == StartPunchLoop(LearnAddr([p EXCEPT !.codec = TRUE], a))
  IN  IF ~p.relay /\ q.punched /\ ~q.connected
      THEN OpenTunnelUnlessDatagramReady(q) ELSE q

\* A mutant: one signal is enough to confirm the datagram path.
OnPunchOneWay(p, signal, a) ==
  LET q == [MarkPunchSignal(LearnAddr(p, a), signal) EXCEPT !.ready = @ \/ p.codec]
  IN  IF p.punched THEN q
      ELSE OpenTunnelUnlessDatagramReady([q EXCEPT !.punched = TRUE])

\* A mutant: a relay-only peer is moved to the address a punch came from.
OnPunchUnpinned(p, signal, a) ==
  LET q == MarkPunchSignal([p EXCEPT !.addr = a], signal)
  IN  IF p.punched THEN q
      ELSE OpenTunnelUnlessDatagramReady([q EXCEPT !.punched = TRUE])

OnPunch(p, signal, a) ==
  LET q == MarkPunchSignal(LearnAddr(p, a), signal)
      switch == q.relay /\ Confirmed(q) /\ ~RelayOnly(q)
  IN  IF ~p.punched \/ switch
      THEN OpenTunnelUnlessDatagramReady([q EXCEPT !.punched = TRUE])
      ELSE q

-----------------------------------------------------------------------------
(* The punch loop, session intents and the 30 second relay fallback timer.  *)

PunchSends(p) == ~p.punched /\ p.addr # "none"
IdleLongPunch(p) == PunchSends(p) /\ p.long /\ ~p.active

PunchTick(p) ==
  CASE p.punched -> [p EXCEPT !.loops = @ - 1]
    [] IdleLongPunch(p) ->
         [p EXCEPT !.long = FALSE, !.punching = FALSE, !.loops = @ - 1]
    [] OTHER -> p

SessionIntent(p) ==
  LET q == [p EXCEPT !.active = TRUE]
  IN  IF p.ready \/ p.connected \/ RelayOnly(p) THEN q
      ELSE StartPunchLoop([q EXCEPT !.long = @ \/ ~p.relayEnabled,
                                    !.punched = FALSE])

EnableLongPunching(p) ==
  IF p.ready \/ p.connected THEN p
  ELSE StartPunchLoop([p EXCEPT !.long = TRUE, !.relay = FALSE,
                                !.punched = FALSE, !.punching = FALSE])

\* A mutant: the fallback also waits while a punch loop is registered.
RelayFallbackUnlessPunching(p) ==
  CASE ~p.relayEnabled -> EnableLongPunching(p)
    [] p.relayEnabled /\ (p.punched \/ p.punching) -> p
    [] OTHER -> OpenTunnelUnlessDatagramReady(
                  [p EXCEPT !.long = FALSE, !.addr = "server",
                            !.relay = TRUE, !.punched = TRUE])

\* A mutant: the fallback also takes a peer that is already punched.
RelayFallbackPunched(p) ==
  IF ~p.relayEnabled THEN EnableLongPunching(p)
  ELSE OpenTunnelUnlessDatagramReady([p EXCEPT !.addr = "server",
                                               !.relay = TRUE])

RelayFallback(p) ==
  CASE ~p.relayEnabled -> EnableLongPunching(p)
    [] p.relayEnabled /\ p.punched -> p
    [] OTHER -> OpenTunnelUnlessDatagramReady(
                  [p EXCEPT !.long = FALSE, !.addr = "server",
                            !.relay = TRUE, !.punched = TRUE])

-----------------------------------------------------------------------------
(* The end of an openTunnel goroutine, the open retry, a broken session and *)
(* the socket rotation.                                                     *)

OpenSucceeds(p) == [p EXCEPT !.opening = @ - 1, !.kcp = TRUE, !.failures = 0]

\* aged: the relay is older than lanRelayMaxAge.  others: another peer of
\* this device has a live session, which the rotation would break.
AfterRelayFailure(p, aged, others) ==
  LET f == IF p.failures < RotateAfter THEN p.failures + 1 ELSE RotateAfter
  IN  CASE p.active -> [p EXCEPT !.retry = TRUE]
        [] ~p.active /\ (f = RotateAfter \/ aged) /\ ~others ->
             [p EXCEPT !.failures = f, !.rotating = TRUE]
        [] OTHER -> [p EXCEPT !.failures = f, !.retry = TRUE]

\* A mutant: a failed open leaves connected set.
OpenFailsConnected(p, aged, others) ==
  LET q == [p EXCEPT !.opening = @ - 1]
  IN  IF p.relay
      THEN AfterRelayFailure([q EXCEPT !.addr = "server", !.punched = TRUE,
                                       !.punching = FALSE], aged, others)
      ELSE [q EXCEPT !.punched = FALSE, !.punching = FALSE, !.ready = FALSE,
                     !.signals = {}]

OpenFails(p, aged, others) ==
  LET q == [p EXCEPT !.opening = @ - 1, !.connected = FALSE]
  IN  IF p.relay
      THEN AfterRelayFailure([q EXCEPT !.addr = "server", !.punched = TRUE,
                                       !.punching = FALSE], aged, others)
      ELSE [q EXCEPT !.punched = FALSE, !.punching = FALSE, !.ready = FALSE,
                     !.signals = {}]

OpenRetry(p) ==
  LET q == [p EXCEPT !.retry = FALSE]
  IN  IF q.connected \/ ~q.punched THEN q ELSE OpenTunnel(q)

TunnelBreaks(p) ==
  [p EXCEPT !.kcp = FALSE, !.connected = FALSE, !.punched = FALSE,
            !.punching = FALSE, !.relay = FALSE, !.ready = FALSE,
            !.signals = {}]

Rotate(p) ==
  [p EXCEPT !.kcp = FALSE, !.connected = FALSE, !.punched = FALSE,
            !.punching = FALSE, !.relay = FALSE, !.ready = FALSE,
            !.long = FALSE, !.signals = {}, !.failures = 0, !.addr = "none",
            !.rotating = FALSE]

-----------------------------------------------------------------------------
(* peerDataPath: the path the device reports for the peer.                  *)

DataPath(p) ==
  CASE p.ready /\ ~p.relay -> "p2p_datagram"
    [] ~(p.ready /\ ~p.relay) /\ p.connected ->
         IF p.relay THEN "relay_udp" ELSE "p2p_kcp"
    [] ~p.connected /\ p.relay /\ p.relayEnabled -> "relay_udp"
    [] OTHER -> "none"
=============================================================================
