------------------------------ MODULE LanPair ------------------------------
(***************************************************************************)
(* Two UDPTunnelLAN devices punching towards each other through a network  *)
(* that delays, reorders and loses their Punch and PunchAck datagrams,     *)
(* with the server introducing them (PeerInfo) and relaying, and a KCP     *)
(* session that opens only when both ends take part.                       *)
(*                                                                         *)
(* A datagram records the socket it came from: the sender's current one or *)
(* one it has closed since.  Datagrams sent to the server, or to a closed  *)
(* socket, reach nobody.  The devices exchange no session traffic: LanPeer *)
(* has what traffic changes.                                               *)
(***************************************************************************)
EXTENDS LanPeer

CONSTANTS Listener, Dialer,  \* the device with the smaller id listens
          MaxInFlight        \* bound: a datagram sent beyond it is lost at once

ASSUME DevicesAssumption == Listener # Dialer /\ Device = {Listener, Dialer}

VARIABLES net,    \* datagrams in flight
          ready,  \* the listener's ready frame is on its way to the dialer
          heard   \* devices a punch of which has ever reached the other

pairVars == <<peer, net, ready, heard>>

Other(d) == IF d = Listener THEN Dialer ELSE Listener
Datagram == [to: Device, kind: BothSignals, src: {"peer", "stale"}]

PairTypeOK == /\ TypeOK
              /\ net \subseteq Datagram
              /\ ready \in BOOLEAN
              /\ heard \subseteq Device

PairInit == /\ peer = [d \in Device |-> NewPeer("prefer_p2p", TRUE)]
            /\ net = {} /\ ready = FALSE /\ heard = {}

\* What is in flight after device d sends to address a.
Sent(d, a, kind) ==
  IF a = "peer" THEN {[to |-> Other(d), kind |-> kind, src |-> "peer"]} ELSE {}

\* The network with what is sent, as far as it holds it.
Carries(n, sent) == IF Cardinality(n \cup sent) <= MaxInFlight
                    THEN n \cup sent ELSE n

\* What a device does on its own.
Local(d) ==
  /\ \/ PeerInfo(d) \/ Fallback(d) \/ Retry(d) \/ Break(d) \/ RotateAborts(d)
  /\ UNCHANGED <<net, ready, heard>>

PunchRound(d) == /\ Tick(d)
                 /\ net' = IF PunchSends(peer[d])
                           THEN Carries(net, Sent(d, peer[d].addr, Incoming))
                           ELSE net
                 /\ UNCHANGED <<ready, heard>>

RecvPunch(m) == /\ m.kind = Incoming
                /\ Punch(m.to, m.src)
                /\ net' = Carries(net \ {m}, Sent(m.to, m.src, Ack))
                /\ heard' = heard \cup {Other(m.to)}
                /\ UNCHANGED ready

RecvPunchAck(m) == /\ m.kind = Ack
                   /\ PunchAck(m.to, m.src)
                   /\ net' = net \ {m}
                   /\ UNCHANGED <<ready, heard>>

Lose(m) == net' = net \ {m} /\ UNCHANGED <<peer, ready, heard>>

Reaches(d) == peer[d].addr \in {"peer", "server"}

\* The listener's session is up once the dialer's handshake arrives, and it
\* sends the ready frame; the dialer's is up once that arrives.
ListenerOpens == /\ peer[Dialer].opening > 0 /\ Reaches(Dialer)
                 /\ OpenOk(Listener)
                 /\ ready' = Reaches(Listener)
                 /\ UNCHANGED <<net, heard>>

DialerOpens == /\ ready /\ OpenOk(Dialer)
               /\ ready' = FALSE
               /\ UNCHANGED <<net, heard>>

OpenGivesUp(d) == /\ OpenFail(d)
                  /\ ready' = (ready /\ d = Listener)
                  /\ UNCHANGED <<net, heard>>

\* The closed socket takes the datagrams under way to it along, and is where
\* the other device still sends.
SocketRotates(d) ==
  LET o == Other(d)
      a == IF peer[o].addr = "peer" THEN "stale" ELSE peer[o].addr
  IN  /\ peer[d].rotating
      /\ peer' = [peer EXCEPT ![d] = Rotate(@), ![o].addr = a]
      /\ net' = {[m EXCEPT !.src = "stale"] : m \in {n \in net : n.to = o}}
      /\ ready' = (ready /\ d = Listener)
      /\ UNCHANGED heard

PairNext == \/ \E d \in Device :
                 Local(d) \/ PunchRound(d) \/ OpenGivesUp(d) \/ SocketRotates(d)
            \/ \E m \in net : RecvPunch(m) \/ RecvPunchAck(m) \/ Lose(m)
            \/ ListenerOpens \/ DialerOpens

PairSpec == PairInit /\ [][PairNext]_pairVars

-----------------------------------------------------------------------------
(* A device reports the datagram path only if a punch of each of the two    *)
(* devices has reached the other: a datagram has made it both ways.         *)
ReadyBothWays ==
  \A d \in Device : DataPath(peer[d]) = "p2p_datagram" => heard = Device

(* Once nothing is in flight and nobody punches, a device that reports the  *)
(* datagram path as ready does not face a peer that has given up on it and  *)
(* gone to the relay (连接优化任务.md:16 says this split is avoided).       *)
SettledAgreement ==
  (net = {} /\ \A d \in Device : peer[d].loops = 0)
     => \A d \in Device :
          ~(DataPath(peer[d]) = "p2p_datagram" /\ peer[Other(d)].relay)
=============================================================================
