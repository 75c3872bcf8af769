------------------------------ MODULE LanPeer ------------------------------
(***************************************************************************)
(* Devices, each with its record of one peer, under every order of the     *)
(* events that reach it: control messages from the server and the peer,    *)
(* the ticks of its punch loops and timers, the outcomes of KCP opens,     *)
(* session intents and the socket rotation.  What the peer and the network *)
(* do is left open here: any message may arrive at any time, from the      *)
(* peer's socket or from one it has closed (LanPair composes two devices). *)
(*                                                                         *)
(* The relay fallback timer needs no state: UpsertPeers re-arms it on each *)
(* configuration refresh, so one is always pending or about to be.         *)
(***************************************************************************)
EXTENDS LanPeerSteps

CONSTANT Device

VARIABLE peer  \* each device's record of its peer

TypeOK == peer \in [Device -> PeerRecord]

Init == \E policy \in [Device -> Policies], relayEnabled \in [Device -> BOOLEAN] :
          peer = [d \in Device |-> NewPeer(policy[d], relayEnabled[d])]

Becomes(d, p) == Within(p) /\ peer' = [peer EXCEPT ![d] = p]

PeerInfo(d) == Becomes(d, OnPeerInfo(peer[d], "peer"))
Punch(d, src) == Becomes(d, OnPunch(peer[d], Incoming, src))
PunchAck(d, src) == Becomes(d, OnPunch(peer[d], Ack, src))
Tick(d) == peer[d].loops > 0 /\ Becomes(d, PunchTick(peer[d]))
Intent(d) == Becomes(d, SessionIntent(peer[d]))
Idle(d) == peer[d].active /\ Becomes(d, [peer[d] EXCEPT !.active = FALSE])
Fallback(d) == Becomes(d, RelayFallback(peer[d]))
OpenOk(d) == peer[d].opening > 0 /\ Becomes(d, OpenSucceeds(peer[d]))
OpenFail(d) == /\ peer[d].opening > 0
               /\ \E aged, others \in BOOLEAN :
                    Becomes(d, OpenFails(peer[d], aged, others))
Retry(d) == peer[d].retry /\ Becomes(d, OpenRetry(peer[d]))
Break(d) == peer[d].kcp /\ Becomes(d, TunnelBreaks(peer[d]))
RotateSocket(d) == peer[d].rotating /\ Becomes(d, Rotate(peer[d]))
RotateAborts(d) == /\ peer[d].rotating
                   /\ Becomes(d, [peer[d] EXCEPT !.rotating = FALSE])

OpenEnds(d) == OpenOk(d) \/ OpenFail(d)
RotateEnds(d) == RotateSocket(d) \/ RotateAborts(d)

Next == \E d \in Device :
          \/ PeerInfo(d) \/ Tick(d) \/ Intent(d) \/ Idle(d) \/ Fallback(d)
          \/ \E src \in {"peer", "stale"} : Punch(d, src) \/ PunchAck(d, src)
          \/ OpenEnds(d) \/ Retry(d) \/ Break(d) \/ RotateEnds(d)

Spec == Init /\ [][Next]_peer

\* The tickers and timers keep firing, the register loop keeps the server's
\* PeerInfo coming, and an open ends: its confirmation has a deadline.
FairSpec == /\ Spec
            /\ \A d \in Device :
                 /\ WF_peer(PeerInfo(d)) /\ WF_peer(Tick(d)) /\ WF_peer(Fallback(d))
                 /\ WF_peer(OpenEnds(d)) /\ WF_peer(Retry(d))
                 /\ WF_peer(RotateEnds(d))

-----------------------------------------------------------------------------
(* The datagram path reported is a path to the peer: the address is one     *)
(* learned from it or about it, never the server's, however the fallback    *)
(* to the relay and the confirming punches cross.                           *)
DatagramGoesDirect ==
  \A d \in Device :
    DataPath(peer[d]) = "p2p_datagram" => peer[d].addr \in {"peer", "stale"}

(* connected blocks every new open, so a peer whose flag is set while no    *)
(* openTunnel goroutine works on it and no session is installed would never *)
(* be opened again.  No order of opens, failures and resets leaves it so.   *)
NeverStranded ==
  \A d \in Device : peer[d].connected => (peer[d].opening > 0 \/ peer[d].kcp)

(* The settings on relaying hold whatever arrives.  While the server does   *)
(* not relay, the peer never enters relay mode: nothing is addressed to the *)
(* server, and no relay failure rotates the socket.  Under relay_only, a    *)
(* peer in relay mode stays on the server's address through every punch and *)
(* PeerInfo, and no KCP session to it is opened.                            *)
PolicyRespected ==
  \A d \in Device :
    LET p == peer[d]
    IN  /\ ~p.relayEnabled => ~p.relay /\ p.addr # "server" /\ ~p.rotating
        /\ PinnedToRelay(p) => p.addr = "server" /\ p.opening = 0 /\ ~p.kcp

(* Where the server relays and the policy allows direct paths, the device   *)
(* keeps coming back to a path or an attempt at one (peerDataPath reports   *)
(* an open in progress as p2p_kcp): whatever fails, it is never left        *)
(* punched, unconnected and out of relay mode with nothing that would retry.*)
PathRecurs ==
  \A d \in Device :
    []<>(peer[d].relayEnabled /\ ~RelayOnly(peer[d]) => DataPath(peer[d]) # "none")

(* When a punch loop stops long punching because the peer has no traffic,   *)
(* punching for that peer has stopped: no other loop goes on                *)
(* (连接优化任务.md:14 binds continued punching to active sessions).        *)
IdleStopEndsPunching ==
  [][\A d \in Device :
       peer[d].long /\ ~peer[d].active /\ peer'[d] = PunchTick(peer[d]) /\ ~peer'[d].long
         => peer'[d].loops = 0]_peer
=============================================================================
