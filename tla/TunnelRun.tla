----------------------------- MODULE TunnelRun -----------------------------
(***************************************************************************)
(* cmd/client/main.go: runTunnelOnce, one run of a tunnel, as the          *)
(* goroutines that share its atomics: the main one, the receiver and the   *)
(* punch timer.  Every load, store and compare-and-swap they may race on   *)
(* is a step.  The server and the peer are the environment:                *)
(* their messages may come at any time, in any order, again, or never.     *)
(*                                                                         *)
(* An address is where it came from: "server" is the relay, "told" one     *)
(* that PeerInfo brought, "heard" the source of a packet of the peer.      *)
(* Sealing, UPnP, punchLoop, keepalives and the packets the tunnel carries *)
(* are left out: they only read this state and send.                       *)
(***************************************************************************)
EXTENDS Naturals

VARIABLE tun

Phases == {"dial", "forced", "wait", "open", "hello", "up"}

Run == [phase : Phases,        \* where the main goroutine is
        addr : {"none", "server", "told", "heard"},                 \* peerAddr
        relay : BOOLEAN,       \* isRelay
        punched : BOOLEAN,
        closed : BOOLEAN,      \* punchedCh, which closeOnce closes
        recv : {"idle", "info", "adopt", "mark", "close"},          \* the receiver
        enter : {"no", "called", "swapped", "stored", "marked", "done"}, \* enterRelay
        timer : {"off", "armed"},
        late : BOOLEAN,        \* history: PeerInfo was stored after the punch
        crossed : BOOLEAN]     \* history: isRelay was set between the receiver's
                               \* check of it and its store

Fresh == [phase |-> "dial", addr |-> "none", relay |-> FALSE, punched |-> FALSE,
          closed |-> FALSE, recv |-> "idle", enter |-> "no", timer |-> "off",
          late |-> FALSE, crossed |-> FALSE]

-----------------------------------------------------------------------------
(* The main goroutine.                                                      *)

\* The socket is open and the registration sent; the others start.
Registered(force) ==
  /\ tun.phase = "dial"
  /\ tun' = IF force THEN [tun EXCEPT !.phase = "forced", !.enter = "called"]
            ELSE [tun EXCEPT !.phase = "wait", !.timer = "armed"]

ForcedRelay == /\ tun.phase = "forced" /\ tun.enter = "done"
               /\ tun' = [tun EXCEPT !.phase = "wait", !.timer = "armed"]

PunchDone == /\ tun.phase = "wait" /\ tun.closed
             /\ tun' = [tun EXCEPT !.phase = "open"]

Up == [tun EXCEPT !.phase = "up"]

\* tunnel.Open: the dialer needs an address, the listener a first packet
\* within its deadline, and then the handshake marker.
OpenDialer == tun.phase = "open" /\ tun.addr # "none"
OpenListener == /\ tun.phase = "open"
                /\ tun' = [tun EXCEPT !.phase = "hello"]
ConsumeHandshake == tun.phase = "hello"

-----------------------------------------------------------------------------
(* The receiver.                                                            *)

Receiving == tun.phase # "dial" /\ tun.recv = "idle"

ReceivePeerInfo == /\ Receiving /\ ~tun.relay
                   /\ tun' = [tun EXCEPT !.recv = "info"]

StorePeerInfo ==
  /\ tun.recv = "info"
  /\ tun' = [tun EXCEPT !.recv = "idle", !.addr = "told",
                        !.late = @ \/ tun.punched]

\* A mutant: the source of a punch is not adopted.
ReceivePunchNoAdopt == Receiving /\ tun' = [tun EXCEPT !.recv = "mark"]

\* MsgPunch and MsgPunchAck, up to the check in adoptPeerAddrSafe
ReceivePunch ==
  /\ Receiving
  /\ tun' = [tun EXCEPT !.recv = IF tun.relay THEN "mark" ELSE "adopt"]

AdoptPeerAddr == /\ tun.recv = "adopt"
                 /\ tun' = [tun EXCEPT !.recv = "mark", !.addr = "heard"]

MarkPunched == /\ tun.recv = "mark"
               /\ tun' = [tun EXCEPT !.punched = TRUE,
                                     !.recv = IF tun.punched THEN "idle" ELSE "close"]

ClosePunched == /\ tun.recv = "close"
                /\ tun' = [tun EXCEPT !.recv = "idle", !.closed = TRUE]

-----------------------------------------------------------------------------
(* The punch timer and enterRelay.                                          *)

\* A mutant: the timer is dropped instead of entering the relay.
TimerDropped == /\ tun.timer = "armed" /\ ~tun.closed
                /\ tun' = [tun EXCEPT !.timer = "off"]

TimerFires == /\ tun.timer = "armed" /\ ~tun.closed
              /\ tun' = [tun EXCEPT !.timer = "off", !.enter = "called"]

TimerStops == /\ tun.timer = "armed" /\ tun.closed
              /\ tun' = [tun EXCEPT !.timer = "off"]

SwapRelay ==
  /\ tun.enter = "called"
  /\ tun' = [tun EXCEPT !.enter = "swapped", !.relay = TRUE,
                        !.crossed = tun.recv \in {"info", "adopt"}]

\* A mutant: the address stays that of the peer.
StoreServerNot == /\ tun.enter = "swapped"
                  /\ tun' = [tun EXCEPT !.enter = "stored"]

StoreServer == /\ tun.enter = "swapped"
               /\ tun' = [tun EXCEPT !.enter = "stored", !.addr = "server"]

MarkRelay == /\ tun.enter = "stored"
             /\ tun' = [tun EXCEPT !.enter = "marked", !.punched = TRUE]

CloseRelay == /\ tun.enter = "marked"
              /\ tun' = [tun EXCEPT !.enter = "done", !.closed = TRUE]

-----------------------------------------------------------------------------
Receives == ReceivePeerInfo \/ ReceivePunch
ReceiverSteps == StorePeerInfo \/ AdoptPeerAddr \/ MarkPunched \/ ClosePunched
RelaySteps == SwapRelay \/ StoreServer \/ MarkRelay \/ CloseRelay
TimerSteps == TimerFires \/ TimerStops

\* The steps that the goroutines take without hearing from anyone.
OwnSteps == \/ ForcedRelay \/ PunchDone \/ ReceiverSteps \/ RelaySteps
            \/ TimerSteps
=============================================================================
