--------------------------- MODULE LanPairProofs ---------------------------
(***************************************************************************)
(* The safety of LanPeer and of LanPair, for every bound on goroutines and *)
(* datagrams in flight and every rotation threshold.                       *)
(*                                                                         *)
(* First what the handlers of LanPeerSteps keep true of a peer record:     *)
(* Sound.  None of LanPeer's three properties is inductive alone; its      *)
(* invariant is that the record of each device is Sound.  For two devices, *)
(* neither of which sees more than its own record, the invariant adds what *)
(* a record and a datagram prove about the other one: a recorded incoming  *)
(* punch that the other one was heard, a recorded or travelling            *)
(* acknowledgement that the device itself was.                             *)
(***************************************************************************)
EXTENDS LanPair, TLAPS


\* What the handlers keep true of a peer record.  A ready datagram path has
\* been confirmed and leads to the peer, unless the policy pins the peer to
\* the relay; Nearly is what holds inside a handler, before openTunnel leaves
\* the relay for it.
Nearly(p) ==
  /\ p.ready => p.punched /\ p.codec /\ p.signals = BothSignals
  /\ p.ready /\ ~PinnedToRelay(p) => p.addr \in {"peer", "stale"}

Direct(p) == Nearly(p) /\ (p.ready /\ p.relay => RelayOnly(p))

\* What the settings on relaying forbid.
Settings(p) ==
  /\ ~p.relayEnabled => ~p.relay /\ p.addr # "server" /\ ~p.rotating
  /\ RelayOnly(p) => /\ p.opening = 0 /\ ~p.kcp /\ ~p.retry
                     /\ ~p.connected /\ ~p.rotating
                     /\ p.relay => p.addr = "server"

Held(p) == p.connected => p.opening > 0 \/ p.kcp

Sound(p) == Direct(p) /\ Settings(p) /\ Held(p)

\* A record before the bounds on goroutines are applied to it.
Unbounded ==
  [policy: Policies, relayEnabled: BOOLEAN, addr: Addrs, punched: BOOLEAN,
   punching: BOOLEAN, ready: BOOLEAN, relay: BOOLEAN, long: BOOLEAN,
   connected: BOOLEAN, signals: SUBSET BothSignals, codec: BOOLEAN,
   kcp: BOOLEAN, loops: Nat, opening: Nat, retry: BOOLEAN,
   rotating: BOOLEAN, failures: 0..RotateAfter, active: BOOLEAN]

-----------------------------------------------------------------------------
(* The types.                                                               *)

\* A peer record is an unbounded one, and the bounds of Within make an
\* unbounded one a peer record again.
LEMMA Bounded ==
  /\ PeerRecord \subseteq Unbounded
  /\ \A p \in Unbounded : Within(p) => p \in PeerRecord
<1>1. PeerRecord \subseteq Unbounded
  BY CountsAssumption DEF PeerRecord, Unbounded
<1>2. ASSUME NEW p \in Unbounded, Within(p) PROVE p \in PeerRecord
  BY <1>2, CountsAssumption DEF PeerRecord, Unbounded, Within
<1> QED BY <1>1, <1>2

-----------------------------------------------------------------------------
(* The pieces of the handlers.                                              *)

\* openTunnel makes a record sound that a handler has left nearly so: it
\* leaves the relay for a confirmed datagram path, and takes connected only
\* with a goroutine behind it.
LEMMA OpenTunnelSound ==
  ASSUME NEW p \in Unbounded, Nearly(p), Settings(p), Held(p), ~RelayOnly(p)
  PROVE  OpenTunnel(p) \in Unbounded /\ Sound(OpenTunnel(p))
<1>1. CASE CanUseDatagram(p)
  <2>1. OpenTunnel(p) = [p EXCEPT !.relay = FALSE]
    BY <1>1 DEF OpenTunnel
  <2> QED BY <2>1, <1>1 DEF Unbounded, Sound, Direct, Nearly, Settings, Held, RelayOnly,
                            PinnedToRelay, CanUseDatagram
<1>2. CASE ~CanUseDatagram(p)
  <2>1. ~p.ready
    BY <1>2 DEF CanUseDatagram, Nearly, PinnedToRelay
  <2>2. Sound(p)
    BY <2>1 DEF Sound, Direct
  <2>3. CASE p.connected
    BY <1>2, <2>2, <2>3 DEF OpenTunnel
  <2>4. CASE ~p.connected
    <3> DEFINE q == [p EXCEPT !.connected = TRUE, !.opening = @ + 1]
    <3>1. OpenTunnel(p) = q
      BY <1>2, <2>4 DEF OpenTunnel
    <3>2. q \in Unbounded
      <4>1. p.opening + 1 \in Nat
        BY DEF Unbounded
      <4>2. ASSUME NEW n \in Nat
            PROVE  [p EXCEPT !.connected = TRUE, !.opening = n] \in Unbounded
        BY DEF Unbounded
      <4> QED BY <4>1, <4>2
    <3>3. Direct(q)
      BY <2>1 DEF Unbounded, Direct, Nearly
    <3>4. Settings(q)
      BY DEF Unbounded, Settings, RelayOnly
    <3>5. Held(q)
      BY DEF Unbounded, Held
    <3> QED BY <3>1, <3>2, <3>3, <3>4, <3>5 DEF Sound
  <2> QED BY <2>3, <2>4
<1> QED BY <1>1, <1>2

\* startPunchLoop touches nothing that Sound speaks of.
LEMMA StartPunchLoopSound ==
  ASSUME NEW p \in Unbounded
  PROVE  /\ StartPunchLoop(p) \in Unbounded
         /\ Sound(p) => Sound(StartPunchLoop(p))
         /\ \A f \in {"connected", "punched", "relay", "policy"} : StartPunchLoop(p)[f] = p[f]
<1>1. CASE p.punching
  BY <1>1 DEF StartPunchLoop
<1>2. CASE ~p.punching
  <2> DEFINE q == [p EXCEPT !.punching = TRUE, !.loops = @ + 1]
  <2>1. StartPunchLoop(p) = q
    BY <1>2 DEF StartPunchLoop
  <2>2. q \in Unbounded
    <3>1. p.loops + 1 \in Nat
      BY DEF Unbounded
    <3>2. ASSUME NEW n \in Nat
          PROVE  [p EXCEPT !.punching = TRUE, !.loops = n] \in Unbounded
      BY DEF Unbounded
    <3> QED BY <3>1, <3>2
  <2>3. Sound(p) => Sound(q)
    BY DEF Unbounded, Sound, Direct, Nearly, Settings, Held, RelayOnly, PinnedToRelay
  <2>4. \A f \in {"connected", "punched", "relay", "policy"} : q[f] = p[f]
    BY DEF Unbounded
  <2> QED BY <2>1, <2>2, <2>3, <2>4
<1> QED BY <1>1, <1>2

-----------------------------------------------------------------------------
(* The control messages.                                                    *)

\* PeerInfo brings an address only where the peer is not pinned to the relay,
\* and opens a tunnel only for a punched peer outside the relay.
LEMMA PeerInfoSound ==
  ASSUME NEW p \in Unbounded, Sound(p)
  PROVE  OnPeerInfo(p, "peer") \in Unbounded /\ Sound(OnPeerInfo(p, "peer"))
<1> DEFINE l == LearnAddr([p EXCEPT !.codec = TRUE], "peer")
           q == StartPunchLoop(l)
<1>1. l \in Unbounded /\ Sound(l)
  <2>1. CASE PinnedToRelay(p)
    <3>1. l = [p EXCEPT !.codec = TRUE]
      BY <2>1 DEF LearnAddr, PinnedToRelay, RelayOnly, Unbounded
    <3> QED BY <3>1 DEF Unbounded, Sound, Direct, Nearly, Settings, Held, RelayOnly, PinnedToRelay
  <2>2. CASE ~PinnedToRelay(p)
    <3>1. l = [p EXCEPT !.codec = TRUE, !.addr = "peer"]
      BY <2>2 DEF LearnAddr, PinnedToRelay, RelayOnly, Unbounded
    <3>2. l \in Unbounded
      BY <3>1 DEF Unbounded, Addrs
    <3>3. Direct(l) /\ Held(l)
      BY <3>1, <3>2, <2>2 DEF Unbounded, Sound, Direct, Nearly, Held, RelayOnly, PinnedToRelay
    <3>4. Settings(l)
      BY <3>1, <3>2, <2>2 DEF Unbounded, Sound, Settings, RelayOnly, PinnedToRelay
    <3> QED BY <3>2, <3>3, <3>4 DEF Sound
  <2> QED BY <2>1, <2>2
<1>2. q \in Unbounded /\ Sound(q)
  BY <1>1, StartPunchLoopSound
<1>3. CASE ~p.relay /\ q.punched /\ ~q.connected
  <2>1. OnPeerInfo(p, "peer") = IF RelayOnly(q) THEN q ELSE OpenTunnel(q)
    BY <1>3 DEF OnPeerInfo, OpenTunnelUnlessDatagramReady
  <2> QED BY <2>1, <1>2, OpenTunnelSound DEF Sound, Direct
<1>4. CASE ~(~p.relay /\ q.punched /\ ~q.connected)
  BY <1>2, <1>4 DEF OnPeerInfo
<1> QED BY <1>3, <1>4

\* A Punch or PunchAck that completes the confirmation of a peer in relay mode
\* also leaves the relay, unless the policy pins the peer to it.
LEMMA PunchSound ==
  ASSUME NEW p \in Unbounded, Sound(p), NEW signal \in BothSignals,
         NEW a \in {"peer", "stale"}
  PROVE  OnPunch(p, signal, a) \in Unbounded /\ Sound(OnPunch(p, signal, a))
<1> DEFINE l == LearnAddr(p, a)
           s == [l EXCEPT !.signals = @ \cup {signal}]
           q == MarkPunchSignal(l, signal)
           r == [q EXCEPT !.punched = TRUE]
<1>1. /\ l \in Unbounded /\ Settings(l) /\ Held(l)
      /\ l.ready = p.ready /\ l.relay = p.relay /\ l.policy = p.policy
      /\ l.punched = p.punched /\ l.codec = p.codec /\ l.signals = p.signals
      /\ ~PinnedToRelay(p) => l.addr = a
  <2>1. CASE PinnedToRelay(p)
    BY <2>1 DEF LearnAddr, Sound
  <2>2. CASE ~PinnedToRelay(p)
    <3>1. l = [p EXCEPT !.addr = a]
      BY <2>2 DEF LearnAddr
    <3>2. l \in Unbounded
      BY <3>1 DEF Unbounded, Addrs
    <3> QED BY <3>1, <3>2, <2>2 DEF Unbounded, Addrs, Sound, Settings, Held, RelayOnly, PinnedToRelay
  <2> QED BY <2>1, <2>2
<1>2. /\ s \in Unbounded
      /\ s.ready = p.ready /\ s.relay = p.relay /\ s.policy = p.policy
      /\ s.punched = p.punched /\ s.codec = p.codec /\ s.addr = l.addr
      /\ s.signals = p.signals \cup {signal}
      /\ Settings(s) /\ Held(s)
  <2>1. s \in Unbounded
    BY <1>1 DEF Unbounded
  <2> QED BY <2>1, <1>1 DEF Unbounded, Settings, Held, RelayOnly
<1>3. q = [s EXCEPT !.ready = @ \/ Confirmed(s)]
  BY DEF MarkPunchSignal
<1>4. Confirmed(s) \in BOOLEAN
  BY <1>2 DEF Confirmed, Unbounded
<1>5. q \in Unbounded
  BY <1>2, <1>3, <1>4 DEF Unbounded
<1>6. /\ q.ready <=> p.ready \/ Confirmed(s)
      /\ q.relay = p.relay /\ q.policy = p.policy /\ q.punched = p.punched
      /\ q.codec = p.codec /\ q.addr = l.addr /\ q.signals = s.signals
  BY <1>2, <1>3, <1>4 DEF Unbounded
<1>7. Settings(q) /\ Held(q)
  BY <1>2, <1>3 DEF Unbounded, Settings, Held, RelayOnly
<1>8. /\ q.ready => q.codec /\ q.signals = BothSignals
      /\ q.ready /\ ~PinnedToRelay(q) => q.addr \in {"peer", "stale"}
  BY <1>1, <1>2, <1>6 DEF Confirmed, Sound, Direct, Nearly, PinnedToRelay, RelayOnly
<1>9. CASE ~p.punched \/ (q.relay /\ Confirmed(q) /\ ~RelayOnly(q))
  <2>1. OnPunch(p, signal, a) = IF RelayOnly(r) THEN r ELSE OpenTunnel(r)
    BY <1>9 DEF OnPunch, OpenTunnelUnlessDatagramReady
  <2>2. r \in Unbounded /\ Nearly(r) /\ Settings(r) /\ Held(r)
    BY <1>5, <1>7, <1>8 DEF Unbounded, Nearly, Settings, Held, RelayOnly, PinnedToRelay
  <2> QED BY <2>1, <2>2, OpenTunnelSound DEF Sound, Direct
<1>10. CASE ~(~p.punched \/ (q.relay /\ Confirmed(q) /\ ~RelayOnly(q)))
  <2>1. OnPunch(p, signal, a) = q
    BY <1>10 DEF OnPunch
  <2>2. Confirmed(s) <=> Confirmed(q)
    BY <1>2, <1>6 DEF Confirmed
  <2>3. q.ready /\ q.relay => RelayOnly(q)
    BY <1>10, <2>2, <1>6 DEF Sound, Direct, RelayOnly
  <2>4. Direct(q)
    BY <1>10, <1>6, <1>8, <2>3 DEF Direct, Nearly
  <2> QED BY <2>1, <2>4, <1>5, <1>7 DEF Sound
<1> QED BY <1>9, <1>10

-----------------------------------------------------------------------------
(* The punch loop, the session intents and the fallback to the relay.       *)

\* A turn of the punch loop drops flags and long punching, and sets none.
LEMMA PunchTickSound ==
  ASSUME NEW p \in Unbounded, Sound(p), p.loops > 0
  PROVE  PunchTick(p) \in Unbounded /\ Sound(PunchTick(p))
<1>1. p.loops - 1 \in Nat
  BY DEF Unbounded
<1>2. CASE p.punched
  <2>1. PunchTick(p) = [p EXCEPT !.loops = p.loops - 1]
    BY <1>2 DEF PunchTick, IdleLongPunch, PunchSends
  <2>2. ASSUME NEW n \in Nat PROVE [p EXCEPT !.loops = n] \in Unbounded
    BY DEF Unbounded
  <2>3. PunchTick(p) \in Unbounded
    BY <1>1, <2>1, <2>2
  <2> QED BY <2>1, <2>3 DEF Unbounded, Sound, Direct, Nearly, Settings, Held, RelayOnly, PinnedToRelay
<1>3. CASE ~p.punched /\ IdleLongPunch(p)
  <2>1. PunchTick(p) = [p EXCEPT !.long = FALSE, !.punching = FALSE, !.loops = p.loops - 1]
    BY <1>3 DEF PunchTick
  <2>2. ASSUME NEW n \in Nat
        PROVE  [p EXCEPT !.long = FALSE, !.punching = FALSE, !.loops = n] \in Unbounded
    BY DEF Unbounded
  <2>3. PunchTick(p) \in Unbounded
    BY <1>1, <2>1, <2>2
  <2> QED BY <2>1, <2>3 DEF Unbounded, Sound, Direct, Nearly, Settings, Held, RelayOnly, PinnedToRelay
<1>4. CASE ~p.punched /\ ~IdleLongPunch(p)
  BY <1>4 DEF PunchTick
<1> QED BY <1>2, <1>3, <1>4

\* New traffic restarts the search for a path and leaves a direct one alone.
LEMMA SessionIntentSound ==
  ASSUME NEW p \in Unbounded, Sound(p)
  PROVE  SessionIntent(p) \in Unbounded /\ Sound(SessionIntent(p))
<1> DEFINE q == [p EXCEPT !.active = TRUE]
           r == [q EXCEPT !.long = @ \/ ~p.relayEnabled, !.punched = FALSE]
<1>1. q \in Unbounded /\ Sound(q)
  BY DEF Unbounded, Sound, Direct, Nearly, Settings, Held, RelayOnly, PinnedToRelay
<1>2. CASE p.ready \/ p.connected \/ RelayOnly(p)
  BY <1>1, <1>2 DEF SessionIntent
<1>3. CASE ~(p.ready \/ p.connected \/ RelayOnly(p))
  <2>1. SessionIntent(p) = StartPunchLoop(r)
    BY <1>3 DEF SessionIntent
  <2>2. r \in Unbounded
    BY <1>1 DEF Unbounded
  <2>3. Sound(r)
    BY <1>1, <1>3 DEF Unbounded, Sound, Direct, Nearly, Settings, Held, RelayOnly, PinnedToRelay
  <2> QED BY <2>1, <2>2, <2>3, StartPunchLoopSound
<1> QED BY <1>2, <1>3

\* Where the server does not relay the timer only punches on; where it does,
\* it takes an unpunched peer, which therefore has no ready datagram path.
LEMMA RelayFallbackSound ==
  ASSUME NEW p \in Unbounded, Sound(p)
  PROVE  RelayFallback(p) \in Unbounded /\ Sound(RelayFallback(p))
<1>1. CASE ~p.relayEnabled
  <2> DEFINE r == [p EXCEPT !.long = TRUE, !.relay = FALSE, !.punched = FALSE, !.punching = FALSE]
  <2>1. RelayFallback(p) = IF p.ready \/ p.connected THEN p ELSE StartPunchLoop(r)
    BY <1>1 DEF RelayFallback, EnableLongPunching
  <2>2. r \in Unbounded
    BY DEF Unbounded
  <2>3. ~p.ready => Sound(r)
    BY <1>1 DEF Unbounded, Sound, Direct, Nearly, Settings, Held, RelayOnly, PinnedToRelay
  <2> QED BY <2>1, <2>2, <2>3, StartPunchLoopSound
<1>2. CASE p.relayEnabled /\ p.punched
  BY <1>2 DEF RelayFallback
<1>3. CASE p.relayEnabled /\ ~p.punched
  <2> DEFINE r == [p EXCEPT !.long = FALSE, !.addr = "server", !.relay = TRUE, !.punched = TRUE]
  <2>1. RelayFallback(p) = IF RelayOnly(r) THEN r ELSE OpenTunnel(r)
    BY <1>3 DEF RelayFallback, OpenTunnelUnlessDatagramReady
  <2>2. r \in Unbounded
    BY DEF Unbounded, Addrs
  <2>3. Sound(r)
    BY <1>3 DEF Unbounded, Sound, Direct, Nearly, Settings, Held, RelayOnly, PinnedToRelay
  <2> QED BY <2>1, <2>2, <2>3, OpenTunnelSound DEF Sound, Direct
<1> QED BY <1>1, <1>2, <1>3 DEF Unbounded

-----------------------------------------------------------------------------
(* The outcomes of an open, a broken session and the rotation.              *)

\* An open that succeeds turns into the session that holds connected.
LEMMA OpenSucceedsSound ==
  ASSUME NEW p \in Unbounded, Sound(p), p.opening > 0
  PROVE  OpenSucceeds(p) \in Unbounded /\ Sound(OpenSucceeds(p))
<1> DEFINE q(n) == [p EXCEPT !.opening = n, !.kcp = TRUE, !.failures = 0]
<1>1. p.opening - 1 \in Nat /\ ~RelayOnly(p)
  BY DEF Unbounded, Sound, Settings
<1>2. ASSUME NEW n \in Nat PROVE q(n) \in Unbounded /\ Sound(q(n))
  <2>1. q(n) \in Unbounded
    <3>1. 0 \in 0..RotateAfter
      BY CountsAssumption
    <3>2. ASSUME NEW k \in 0..RotateAfter
          PROVE  [p EXCEPT !.opening = n, !.kcp = TRUE, !.failures = k] \in Unbounded
      BY DEF Unbounded
    <3> QED BY <3>1, <3>2
  <2> QED BY <2>1, <1>1 DEF Unbounded, Sound, Direct, Nearly, Settings, Held, RelayOnly, PinnedToRelay
<1>3. OpenSucceeds(p) = q(p.opening - 1)
  BY DEF OpenSucceeds
<1> QED BY <1>1, <1>2, <1>3

\* A failed open gives connected back.  The record goes back to the relay, or
\* forgets the punches; it was not pinned, since a pinned peer is not opened.
LEMMA OpenFailsSound ==
  ASSUME NEW p \in Unbounded, Sound(p), p.opening > 0,
         NEW aged \in BOOLEAN, NEW others \in BOOLEAN
  PROVE  OpenFails(p, aged, others) \in Unbounded /\ Sound(OpenFails(p, aged, others))
<1> DEFINE q == [p EXCEPT !.opening = p.opening - 1, !.connected = FALSE]
<1>1. p.opening - 1 \in Nat /\ ~RelayOnly(p)
  BY DEF Unbounded, Sound, Settings
<1>2. q \in Unbounded
  <2>1. ASSUME NEW n \in Nat
        PROVE  [p EXCEPT !.opening = n, !.connected = FALSE] \in Unbounded
    BY DEF Unbounded
  <2> QED BY <1>1, <2>1
<1>3. /\ ~RelayOnly(q) /\ ~q.connected
      /\ q.relay = p.relay /\ q.relayEnabled = p.relayEnabled /\ q.ready = p.ready
      /\ q.addr = p.addr /\ q.rotating = p.rotating
  BY <1>1 DEF Unbounded, RelayOnly
<1>4. CASE p.relay
  <2> DEFINE r == [q EXCEPT !.addr = "server", !.punched = TRUE, !.punching = FALSE]
             f == IF r.failures < RotateAfter THEN r.failures + 1 ELSE RotateAfter
  <2>1. OpenFails(p, aged, others) = AfterRelayFailure(r, aged, others)
    BY <1>4 DEF OpenFails
  <2>2. r \in Unbounded
    BY <1>2 DEF Unbounded, Addrs
  <2>3. /\ ~RelayOnly(r) /\ ~r.connected /\ r.relay /\ r.relayEnabled /\ ~r.ready
    BY <1>1, <1>2, <1>3, <1>4 DEF Unbounded, RelayOnly, Sound, Direct, Settings
  <2>4. f \in 0..RotateAfter
    BY <2>2, CountsAssumption DEF Unbounded
  <2> HIDE DEF q, r, f
  <2>5. ASSUME NEW n \in 0..RotateAfter
        PROVE  /\ [r EXCEPT !.retry = TRUE] \in Unbounded
               /\ [r EXCEPT !.failures = n, !.rotating = TRUE] \in Unbounded
               /\ [r EXCEPT !.failures = n, !.retry = TRUE] \in Unbounded
    BY <2>2 DEF Unbounded
  <2>6. ASSUME NEW n \in 0..RotateAfter
        PROVE  /\ Sound([r EXCEPT !.retry = TRUE])
               /\ Sound([r EXCEPT !.failures = n, !.rotating = TRUE])
               /\ Sound([r EXCEPT !.failures = n, !.retry = TRUE])
    BY <2>2, <2>3 DEF Unbounded, Sound, Direct, Nearly, Settings, Held, RelayOnly, PinnedToRelay
  <2> USE DEF f
  <2>7. \/ AfterRelayFailure(r, aged, others) = [r EXCEPT !.retry = TRUE]
        \/ AfterRelayFailure(r, aged, others) = [r EXCEPT !.failures = f, !.rotating = TRUE]
        \/ AfterRelayFailure(r, aged, others) = [r EXCEPT !.failures = f, !.retry = TRUE]
    BY DEF AfterRelayFailure
  <2> HIDE DEF f
  <2> QED BY <2>1, <2>4, <2>5, <2>6, <2>7
<1>5. CASE ~p.relay
  <2> DEFINE r == [q EXCEPT !.punched = FALSE, !.punching = FALSE, !.ready = FALSE, !.signals = {}]
  <2>1. OpenFails(p, aged, others) = r
    BY <1>5 DEF OpenFails
  <2> HIDE DEF q
  <2>2. r \in Unbounded
    BY <1>2 DEF Unbounded
  <2>3. Sound(r)
    BY <1>2, <1>3, <1>5 DEF Unbounded, Sound, Direct, Nearly, Settings, Held, RelayOnly, PinnedToRelay
  <2> QED BY <2>1, <2>2, <2>3
<1> QED BY <1>4, <1>5

\* A delayed retry opens a tunnel only for a punched peer that is not connected.
LEMMA OpenRetrySound ==
  ASSUME NEW p \in Unbounded, Sound(p), p.retry
  PROVE  OpenRetry(p) \in Unbounded /\ Sound(OpenRetry(p))
<1> DEFINE q == [p EXCEPT !.retry = FALSE]
<1>1. q \in Unbounded /\ ~RelayOnly(q)
  BY DEF Unbounded, Sound, Settings, RelayOnly
<1>2. Sound(q)
  BY <1>1 DEF Unbounded, Sound, Direct, Nearly, Settings, Held, RelayOnly, PinnedToRelay
<1>3. OpenRetry(p) = IF q.connected \/ ~q.punched THEN q ELSE OpenTunnel(q)
  BY DEF OpenRetry
<1> QED BY <1>1, <1>2, <1>3, OpenTunnelSound DEF Sound, Direct

\* A broken session and a rotation forget the path together with the flags.
LEMMA ResetSound ==
  ASSUME NEW p \in Unbounded, Sound(p)
  PROVE  /\ p.kcp => TunnelBreaks(p) \in Unbounded /\ Sound(TunnelBreaks(p))
         /\ Rotate(p) \in Unbounded /\ Sound(Rotate(p))
<1>1. TunnelBreaks(p) \in Unbounded
  BY DEF Unbounded, TunnelBreaks
<1>2. p.kcp => Sound(TunnelBreaks(p))
  BY <1>1 DEF TunnelBreaks, Unbounded, Sound, Direct, Nearly, Settings, Held, RelayOnly, PinnedToRelay
<1>3. Rotate(p) \in Unbounded
  <2>1. 0 \in 0..RotateAfter /\ "none" \in Addrs
    BY CountsAssumption DEF Addrs
  <2> DEFINE q == TunnelBreaks(p)
  <2>2. Rotate(p) = [q EXCEPT !.long = FALSE, !.failures = 0, !.addr = "none", !.rotating = FALSE]
    BY DEF Rotate, TunnelBreaks, Unbounded
  <2>3. q \in Unbounded
    BY <1>1
  <2> HIDE DEF q
  <2>4. [q EXCEPT !.long = FALSE, !.failures = 0, !.addr = "none", !.rotating = FALSE] \in Unbounded
    BY <2>1, <2>3 DEF Unbounded
  <2> QED BY <2>2, <2>4
<1>4. Sound(Rotate(p))
  BY <1>3 DEF Rotate, Unbounded, Sound, Direct, Nearly, Settings, Held, RelayOnly, PinnedToRelay
<1> QED BY <1>1, <1>2, <1>3, <1>4

-----------------------------------------------------------------------------
(* The punch signals of a record.                                           *)

\* openTunnel and startPunchLoop leave the signals alone.
LEMMA PiecesKeepSignals ==
  ASSUME NEW p \in Unbounded
  PROVE  /\ OpenTunnel(p).signals = p.signals
         /\ OpenTunnelUnlessDatagramReady(p).signals = p.signals
         /\ StartPunchLoop(p).signals = p.signals
<1>1. OpenTunnel(p).signals = p.signals
  BY DEF OpenTunnel, Unbounded
<1>2. StartPunchLoop(p).signals = p.signals
  BY DEF StartPunchLoop, Unbounded
<1> QED BY <1>1, <1>2 DEF OpenTunnelUnlessDatagramReady

\* Only a Punch or a PunchAck adds a signal, and it adds its own.
LEMMA SignalsGrow ==
  ASSUME NEW p \in Unbounded, Sound(p), NEW signal \in BothSignals,
         NEW a \in {"peer", "stale"}
  PROVE  OnPunch(p, signal, a).signals = p.signals \cup {signal}
<1> DEFINE l == LearnAddr(p, a)
           q == MarkPunchSignal(l, signal)
           r == [q EXCEPT !.punched = TRUE]
<1>1. l \in Unbounded /\ l.signals = p.signals
  BY DEF LearnAddr, Unbounded, Addrs
<1>2. q \in Unbounded /\ q.signals = p.signals \cup {signal}
  <2> DEFINE s == [l EXCEPT !.signals = @ \cup {signal}]
  <2>1. s \in Unbounded /\ s.signals = p.signals \cup {signal}
    BY <1>1 DEF Unbounded
  <2>2. Confirmed(s) \in BOOLEAN
    BY <2>1 DEF Confirmed, Unbounded
  <2>3. q = [s EXCEPT !.ready = @ \/ Confirmed(s)]
    BY DEF MarkPunchSignal
  <2> HIDE DEF s, q
  <2> QED BY <2>1, <2>2, <2>3 DEF Unbounded
<1>3. \/ OnPunch(p, signal, a) = q
      \/ OnPunch(p, signal, a) = OpenTunnelUnlessDatagramReady(r)
  BY DEF OnPunch
<1> HIDE DEF q
<1>4. r \in Unbounded /\ r.signals = q.signals
  BY <1>2 DEF Unbounded
<1> QED BY <1>2, <1>3, <1>4, PiecesKeepSignals

\* No other handler adds one.
LEMMA SignalsShrink ==
  ASSUME NEW p \in Unbounded, NEW aged \in BOOLEAN, NEW others \in BOOLEAN
  PROVE  /\ OnPeerInfo(p, "peer").signals = p.signals
         /\ PunchTick(p).signals = p.signals
         /\ SessionIntent(p).signals = p.signals
         /\ RelayFallback(p).signals = p.signals
         /\ OpenSucceeds(p).signals = p.signals
         /\ OpenFails(p, aged, others).signals \subseteq p.signals
         /\ OpenRetry(p).signals = p.signals
         /\ TunnelBreaks(p).signals \subseteq p.signals
         /\ Rotate(p).signals \subseteq p.signals
<1>1. OnPeerInfo(p, "peer").signals = p.signals
  <2> DEFINE l == LearnAddr([p EXCEPT !.codec = TRUE], "peer")
             q == StartPunchLoop(l)
  <2>1. l \in Unbounded /\ l.signals = p.signals
    BY DEF LearnAddr, PinnedToRelay, RelayOnly, Unbounded, Addrs
  <2>2. q \in Unbounded /\ q.signals = p.signals
    BY <2>1, StartPunchLoopSound, PiecesKeepSignals
  <2>3. OnPeerInfo(p, "peer") = q \/ OnPeerInfo(p, "peer") = OpenTunnelUnlessDatagramReady(q)
    BY DEF OnPeerInfo
  <2> QED BY <2>2, <2>3, PiecesKeepSignals
<1>2. PunchTick(p).signals = p.signals
  BY DEF PunchTick, Unbounded
<1>3. RelayFallback(p).signals = p.signals
  <2> DEFINE r == [p EXCEPT !.long = TRUE, !.relay = FALSE, !.punched = FALSE, !.punching = FALSE]
             t == [p EXCEPT !.long = FALSE, !.addr = "server", !.relay = TRUE, !.punched = TRUE]
  <2>1. r \in Unbounded /\ t \in Unbounded /\ r.signals = p.signals /\ t.signals = p.signals
    BY DEF Unbounded, Addrs
  <2>2. RelayFallback(p) \in {p, StartPunchLoop(r), OpenTunnelUnlessDatagramReady(t)}
    BY DEF RelayFallback, EnableLongPunching
  <2> QED BY <2>1, <2>2, PiecesKeepSignals
<1>4. OpenSucceeds(p).signals = p.signals
  BY DEF OpenSucceeds, Unbounded
<1>5. OpenFails(p, aged, others).signals \subseteq p.signals
  BY DEF OpenFails, AfterRelayFailure, Unbounded
<1>6. OpenRetry(p).signals = p.signals
  <2> DEFINE q == [p EXCEPT !.retry = FALSE]
  <2>1. q \in Unbounded /\ q.signals = p.signals
    BY DEF Unbounded
  <2>2. OpenRetry(p) = q \/ OpenRetry(p) = OpenTunnel(q)
    BY DEF OpenRetry
  <2> QED BY <2>1, <2>2, PiecesKeepSignals
<1>7. TunnelBreaks(p).signals \subseteq p.signals /\ Rotate(p).signals \subseteq p.signals
  BY DEF TunnelBreaks, Rotate, Unbounded
<1>8. SessionIntent(p).signals = p.signals
  <2> DEFINE q == [p EXCEPT !.active = TRUE]
             r == [q EXCEPT !.long = @ \/ ~p.relayEnabled, !.punched = FALSE]
  <2>1. q \in Unbounded /\ r \in Unbounded /\ q.signals = p.signals /\ r.signals = p.signals
    BY DEF Unbounded
  <2>2. SessionIntent(p) = q \/ SessionIntent(p) = StartPunchLoop(r)
    BY DEF SessionIntent
  <2> HIDE DEF q, r
  <2> QED BY <2>1, <2>2, PiecesKeepSignals
<1> QED BY <1>1, <1>2, <1>3, <1>4, <1>5, <1>6, <1>7, <1>8

-----------------------------------------------------------------------------
(* LanPeer.                                                                 *)

SoundInv == TypeOK /\ \A d \in Device : Sound(peer[d])

\* Each action of a device leaves it a sound record, reached without a new
\* signal unless a punch or an acknowledgement arrived.
LEMMA ActionSound ==
  ASSUME SoundInv, NEW d \in Device,
         \/ PeerInfo(d) \/ Tick(d) \/ Intent(d) \/ Idle(d) \/ Fallback(d)
         \/ OpenEnds(d) \/ Retry(d) \/ Break(d) \/ RotateEnds(d)
  PROVE  \E p \in Unbounded : /\ Sound(p) /\ Becomes(d, p)
                              /\ p.signals \subseteq peer[d].signals
<1>1. peer[d] \in Unbounded /\ Sound(peer[d])
  BY Bounded DEF SoundInv, TypeOK
<1>2. CASE PeerInfo(d)
  <2>1. OnPeerInfo(peer[d], "peer") \in Unbounded /\ Sound(OnPeerInfo(peer[d], "peer"))
    BY <1>1, PeerInfoSound
  <2>2. OnPeerInfo(peer[d], "peer").signals = peer[d].signals
    BY <1>1, SignalsShrink
  <2> QED BY <1>2, <2>1, <2>2 DEF PeerInfo
<1>3. CASE Tick(d)
  BY <1>1, <1>3, PunchTickSound, SignalsShrink DEF Tick
<1>4. CASE Intent(d)
  <2>1. SessionIntent(peer[d]) \in Unbounded /\ Sound(SessionIntent(peer[d]))
    BY <1>1, SessionIntentSound
  <2>2. SessionIntent(peer[d]).signals = peer[d].signals
    BY <1>1, SignalsShrink
  <2> QED BY <1>4, <2>1, <2>2 DEF Intent
<1>5. CASE Idle(d)
  <2> DEFINE q == [peer[d] EXCEPT !.active = FALSE]
  <2>1. q \in Unbounded /\ q.signals = peer[d].signals
    BY <1>1 DEF Unbounded
  <2>2. Sound(q)
    BY <1>1 DEF Unbounded, Sound, Direct, Nearly, Settings, Held, RelayOnly, PinnedToRelay
  <2>3. Becomes(d, q)
    BY <1>5 DEF Idle
  <2> HIDE DEF q
  <2> QED BY <2>1, <2>2, <2>3
<1>6. CASE Fallback(d)
  BY <1>1, <1>6, RelayFallbackSound, SignalsShrink DEF Fallback
<1>7. CASE OpenOk(d)
  BY <1>1, <1>7, OpenSucceedsSound, SignalsShrink DEF OpenOk
<1>8. CASE OpenFail(d)
  <2>1. PICK aged \in BOOLEAN, others \in BOOLEAN : Becomes(d, OpenFails(peer[d], aged, others))
    BY <1>8 DEF OpenFail
  <2>2. /\ OpenFails(peer[d], aged, others) \in Unbounded
        /\ Sound(OpenFails(peer[d], aged, others))
    BY <1>1, <1>8, OpenFailsSound DEF OpenFail
  <2> QED BY <1>1, <2>1, <2>2, SignalsShrink
<1>9. CASE Retry(d)
  BY <1>1, <1>9, OpenRetrySound, SignalsShrink DEF Retry
<1>10. CASE Break(d)
  BY <1>1, <1>10, ResetSound, SignalsShrink DEF Break
<1>11. CASE RotateSocket(d)
  BY <1>1, <1>11, ResetSound, SignalsShrink DEF RotateSocket
<1>12. CASE RotateAborts(d)
  <2> DEFINE q == [peer[d] EXCEPT !.rotating = FALSE]
  <2>1. q \in Unbounded /\ q.signals = peer[d].signals
    BY <1>1 DEF Unbounded
  <2>2. Sound(q)
    BY <1>1 DEF Unbounded, Sound, Direct, Nearly, Settings, Held, RelayOnly, PinnedToRelay
  <2>3. Becomes(d, q)
    BY <1>12 DEF RotateAborts
  <2> HIDE DEF q
  <2> QED BY <2>1, <2>2, <2>3
<1> QED BY <1>2, <1>3, <1>4, <1>5, <1>6, <1>7, <1>8, <1>9, <1>10, <1>11, <1>12
        DEF OpenEnds, RotateEnds

\* So does a punch or an acknowledgement that arrives, recorded as its signal.
LEMMA SignalSound ==
  ASSUME SoundInv, NEW d \in Device, NEW src \in {"peer", "stale"},
         NEW signal \in BothSignals, Becomes(d, OnPunch(peer[d], signal, src))
  PROVE  \E p \in Unbounded : /\ Sound(p) /\ Becomes(d, p)
                              /\ p.signals = peer[d].signals \cup {signal}
<1>1. peer[d] \in Unbounded /\ Sound(peer[d])
  BY Bounded DEF SoundInv, TypeOK
<1> QED BY <1>1, PunchSound, SignalsGrow

\* A device that takes a sound record keeps the records sound.
LEMMA RecordStep ==
  ASSUME SoundInv, NEW d \in Device, NEW p \in Unbounded, Sound(p), Becomes(d, p)
  PROVE  SoundInv'
<1>1. p \in PeerRecord
  BY Bounded DEF Becomes
<1> QED BY <1>1 DEF SoundInv, TypeOK, Becomes

\* Every step of a device's handlers keeps the peer records sound.
LEMMA SoundStep == SoundInv /\ [Next]_peer => SoundInv'
<1> SUFFICES ASSUME SoundInv, [Next]_peer PROVE SoundInv'
  OBVIOUS
<1>1. ASSUME NEW d \in Device,
             \/ PeerInfo(d) \/ Tick(d) \/ Intent(d) \/ Idle(d) \/ Fallback(d)
             \/ OpenEnds(d) \/ Retry(d) \/ Break(d) \/ RotateEnds(d)
      PROVE  SoundInv'
  BY <1>1, ActionSound, RecordStep
<1>2. ASSUME NEW d \in Device, NEW src \in {"peer", "stale"}, Punch(d, src) \/ PunchAck(d, src)
      PROVE  SoundInv'
  BY <1>2, SignalSound, RecordStep DEF Punch, PunchAck, BothSignals
<1>3. CASE UNCHANGED peer
  BY <1>3 DEF SoundInv, TypeOK
<1> QED BY <1>1, <1>2, <1>3 DEF Next

\* A new record is sound, whatever the policy and the server's setting.
LEMMA NewSound ==
  ASSUME NEW policy \in Policies, NEW relayEnabled \in BOOLEAN
  PROVE  /\ NewPeer(policy, relayEnabled) \in PeerRecord
         /\ Sound(NewPeer(policy, relayEnabled))
         /\ NewPeer(policy, relayEnabled).signals = {}
<1>1. NewPeer(policy, relayEnabled) \in PeerRecord
  BY CountsAssumption DEF NewPeer, PeerRecord, Addrs
<1> QED BY <1>1 DEF NewPeer, Sound, Direct, Nearly, Settings, Held, RelayOnly, PinnedToRelay

\* The records are sound in every state of every behaviour.
LEMMA AlwaysSound == Spec => []SoundInv
<1>1. Init => SoundInv
  BY NewSound DEF Init, SoundInv, TypeOK
<1> QED BY <1>1, SoundStep, PTL DEF Spec

\* A datagram path that peerDataPath reports leads to the peer, however the
\* fallback timer and the confirming punches cross.
THEOREM DirectDatagrams == Spec => []DatagramGoesDirect
<1>1. SoundInv => DatagramGoesDirect
  BY DEF SoundInv, Sound, Direct, Nearly, DatagramGoesDirect, DataPath, TypeOK, PeerRecord, PinnedToRelay
<1> QED BY <1>1, AlwaysSound, PTL

\* connected is never left set with neither an open at work nor a session.
THEOREM ConnectedIsHeld == Spec => []NeverStranded
<1>1. SoundInv => NeverStranded
  BY DEF SoundInv, Sound, Held, NeverStranded
<1> QED BY <1>1, AlwaysSound, PTL

\* A disabled relay stays unused and relay_only stays on the relay.
THEOREM PolicyHolds == Spec => []PolicyRespected
<1>1. SoundInv => PolicyRespected
  BY DEF SoundInv, Sound, Settings, PolicyRespected, PinnedToRelay
<1> QED BY <1>1, AlwaysSound, PTL

-----------------------------------------------------------------------------
(* LanPair.                                                                 *)

Evidence ==
  /\ \A d \in Device : /\ Incoming \in peer[d].signals => Other(d) \in heard
                       /\ Ack \in peer[d].signals => d \in heard
  /\ \A m \in net : m.kind = Ack => m.to \in heard

PairInv == PairTypeOK /\ SoundInv /\ Evidence

\* A step of one device that leaves it a sound record and no new signal keeps
\* the invariant, if what it adds to the network is no acknowledgement.
LEMMA DeviceStep ==
  ASSUME PairInv, NEW d \in Device, NEW p \in Unbounded, Sound(p), Becomes(d, p),
         p.signals \subseteq peer[d].signals, UNCHANGED heard,
         net' \subseteq Datagram, ready' \in BOOLEAN,
         \A m \in net' : m \in net \/ m.kind = Incoming
  PROVE  PairInv'
<1>1. SoundInv'
  BY RecordStep DEF PairInv
<1>2. PairTypeOK'
  BY <1>1 DEF PairInv, PairTypeOK, SoundInv
<1>3. Evidence'
  <2>1. \A e \in Device : peer'[e].signals \subseteq peer[e].signals
    BY DEF PairInv, SoundInv, TypeOK, Becomes
  <2>2. \A m \in net' : m.kind = Ack => m \in net
    BY DEF Ack, Incoming
  <2> QED BY <2>1, <2>2 DEF PairInv, Evidence
<1> QED BY <1>1, <1>2, <1>3 DEF PairInv

\* A punch or an acknowledgement that arrives keeps the invariant if what its
\* signal proves is known, and what it adds to the network is backed too.
LEMMA SignalStep ==
  ASSUME PairInv, NEW d \in Device, NEW src \in {"peer", "stale"},
         NEW signal \in BothSignals, Becomes(d, OnPunch(peer[d], signal, src)),
         heard \subseteq heard', heard' \subseteq Device, UNCHANGED ready,
         signal = Incoming => Other(d) \in heard', signal = Ack => d \in heard',
         net' \subseteq Datagram, \A k \in net' : k \in net \/ k.to \in heard'
  PROVE  PairInv'
<1>1. PICK p \in Unbounded : /\ Sound(p) /\ Becomes(d, p)
                             /\ p.signals = peer[d].signals \cup {signal}
  BY SignalSound DEF PairInv
<1>2. SoundInv'
  BY <1>1, RecordStep DEF PairInv
<1>3. PairTypeOK'
  BY <1>2 DEF PairInv, PairTypeOK, SoundInv
<1>4. peer' = [peer EXCEPT ![d] = p]
  BY <1>1 DEF Becomes
<1>5. ASSUME NEW e \in Device
      PROVE  /\ Incoming \in peer'[e].signals => Other(e) \in heard'
             /\ Ack \in peer'[e].signals => e \in heard'
  BY <1>1, <1>4 DEF PairInv, SoundInv, TypeOK, Evidence, Incoming, Ack
<1>6. \A k \in net' : k.kind = Ack => k.to \in heard'
  BY DEF PairInv, Evidence
<1> QED BY <1>2, <1>3, <1>5, <1>6 DEF PairInv, Evidence

\* What a device sends is a datagram to the other one.
LEMMA SentTyped ==
  ASSUME NEW d \in Device, NEW a, NEW kind \in BothSignals
  PROVE  /\ Sent(d, a, kind) \subseteq Datagram
         /\ \A m \in Sent(d, a, kind) : m.kind = kind /\ m.to = Other(d)
BY DevicesAssumption DEF Sent, Datagram, Other

\* The network carries nothing but what was in flight or was sent.
LEMMA CarriesOnly ==
  ASSUME NEW n, NEW sent
  PROVE  Carries(n, sent) \subseteq n \cup sent
BY DEF Carries

\* A punch that arrives proves its sender heard, and the acknowledgement it
\* causes travels to that sender.
LEMMA PunchArrives ==
  ASSUME PairInv, NEW m \in net, RecvPunch(m)
  PROVE  PairInv'
<1>1. m.to \in Device /\ m.src \in {"peer", "stale"} /\ Other(m.to) \in Device
  BY DevicesAssumption DEF PairInv, PairTypeOK, Datagram, Other
<1>2. heard' = heard \cup {Other(m.to)}
  BY DEF RecvPunch
<1>3. /\ net' \subseteq Datagram
      /\ \A k \in net' : k \in net \/ k.to = Other(m.to)
  <2>1. net' \subseteq (net \ {m}) \cup Sent(m.to, m.src, Ack)
    BY CarriesOnly DEF RecvPunch
  <2> QED BY <2>1, <1>1, SentTyped DEF PairInv, PairTypeOK, BothSignals
<1>4. Becomes(m.to, OnPunch(peer[m.to], Incoming, m.src)) /\ UNCHANGED ready
  BY DEF RecvPunch, Punch
<1>5. Incoming # Ack /\ Incoming \in BothSignals
  BY DEF Incoming, Ack, BothSignals
<1>6. heard' \subseteq Device
  BY <1>1, <1>2 DEF PairInv, PairTypeOK
<1> QED BY <1>1, <1>2, <1>3, <1>4, <1>5, <1>6, SignalStep

\* An acknowledgement that arrives proves the device itself heard, as it did
\* while it travelled.
LEMMA AckArrives ==
  ASSUME PairInv, NEW m \in net, RecvPunchAck(m)
  PROVE  PairInv'
<1>1. m.to \in Device /\ m.src \in {"peer", "stale"} /\ m.kind = Ack
  BY DEF PairInv, PairTypeOK, Datagram, RecvPunchAck
<1>2. m.to \in heard
  BY <1>1 DEF PairInv, Evidence
<1>3. /\ Becomes(m.to, OnPunch(peer[m.to], Ack, m.src))
      /\ net' \subseteq net /\ heard' = heard /\ ready' = ready
  BY DEF RecvPunchAck, PunchAck
<1>4. Incoming # Ack /\ Ack \in BothSignals
  BY DEF Incoming, Ack, BothSignals
<1>5. net' \subseteq Datagram /\ heard' \subseteq Device /\ \A k \in net' : k \in net
  BY <1>3 DEF PairInv, PairTypeOK
<1> QED BY <1>1, <1>2, <1>3, <1>4, <1>5, SignalStep

\* A rotation forgets the signals of the device, turns the address the other
\* one sends to stale, and keeps of the datagrams only their own kind.
LEMMA RotationStep ==
  ASSUME PairInv, NEW d \in Device, SocketRotates(d)
  PROVE  PairInv'
<1> DEFINE o == Other(d)
           a == IF peer[o].addr = "peer" THEN "stale" ELSE peer[o].addr
           r == Rotate(peer[d])
           q == [peer[o] EXCEPT !.addr = a]
<1>1. /\ o \in Device /\ o # d /\ Device = {d, o}
      /\ peer[d] \in Unbounded /\ peer[o] \in PeerRecord /\ peer[o] \in Unbounded
      /\ Sound(peer[d]) /\ Sound(peer[o])
  BY Bounded, DevicesAssumption DEF PairInv, SoundInv, TypeOK, Other
<1>2. r \in Unbounded /\ Sound(r) /\ r.signals \subseteq peer[d].signals
  BY <1>1, ResetSound, SignalsShrink
<1>3. r \in PeerRecord
  <2>1. r.loops = peer[d].loops /\ r.opening = peer[d].opening
    BY <1>1 DEF Rotate, Unbounded
  <2>2. Within(peer[d])
    BY CountsAssumption DEF PairInv, SoundInv, TypeOK, PeerRecord, Within
  <2> QED BY <1>2, <2>1, <2>2, Bounded DEF Within
<1>4. q \in PeerRecord /\ Sound(q) /\ q.signals = peer[o].signals
  <2>1. q \in PeerRecord
    BY <1>1 DEF PeerRecord, Addrs
  <2> QED BY <1>1, <2>1 DEF PeerRecord, Sound, Direct, Nearly, Settings, Held, RelayOnly, PinnedToRelay
<1>5. peer' = [peer EXCEPT ![d] = r, ![o].addr = a]
  BY DEF SocketRotates
<1> HIDE DEF r
<1>6. peer' \in [Device -> PeerRecord] /\ peer'[d] = r /\ peer'[o] = q
  BY <1>1, <1>3, <1>4, <1>5 DEF PairInv, SoundInv, TypeOK
<1>7. \A k \in net' : k \in Datagram /\ \E m \in net : k.kind = m.kind /\ k.to = m.to
  BY DEF SocketRotates, PairInv, PairTypeOK, Datagram
<1>8. heard' = heard /\ ready' \in BOOLEAN
  BY DEF SocketRotates, PairInv, PairTypeOK
<1> HIDE DEF q
<1>9. PairTypeOK'
  BY <1>6, <1>7, <1>8 DEF TypeOK, PairTypeOK, PairInv
<1>10. \A e \in Device : Sound(peer'[e]) /\ peer'[e].signals \subseteq peer[e].signals
  BY <1>1, <1>2, <1>4, <1>6
<1>11. Evidence'
  BY <1>7, <1>8, <1>10 DEF PairInv, Evidence
<1> QED BY <1>9, <1>10, <1>11 DEF PairInv, PairTypeOK, SoundInv

\* The steps of one device, and the sessions that open.
LEMMA DeviceSteps ==
  ASSUME PairInv,
         \/ \E d \in Device : Local(d) \/ PunchRound(d) \/ OpenGivesUp(d)
         \/ ListenerOpens \/ DialerOpens
  PROVE  PairInv'
<1>1. SoundInv /\ net \subseteq Datagram /\ ready \in BOOLEAN
  BY DEF PairInv, PairTypeOK
<1>2. ASSUME NEW d \in Device,
             \/ PeerInfo(d) \/ Tick(d) \/ Fallback(d) \/ OpenEnds(d) \/ Retry(d)
             \/ Break(d) \/ RotateEnds(d),
             UNCHANGED heard, ready' \in BOOLEAN, net' \subseteq Datagram,
             \A m \in net' : m \in net \/ m.kind = Incoming
      PROVE  PairInv'
  <2>1. PICK p \in Unbounded : /\ Sound(p) /\ Becomes(d, p)
                               /\ p.signals \subseteq peer[d].signals
    BY <1>1, <1>2, ActionSound
  <2> QED BY <1>2, <2>1, DeviceStep
<1>3. ASSUME NEW d \in Device, Local(d) PROVE PairInv'
  BY <1>1, <1>2, <1>3 DEF Local, RotateEnds
<1>4. ASSUME NEW d \in Device, PunchRound(d) PROVE PairInv'
  <2>1. net' \subseteq net \cup Sent(d, peer[d].addr, Incoming)
    BY <1>4, CarriesOnly DEF PunchRound
  <2>2. net' \subseteq Datagram /\ \A m \in net' : m \in net \/ m.kind = Incoming
    BY <1>1, <2>1, SentTyped DEF BothSignals
  <2> QED BY <1>1, <1>2, <1>4, <2>2 DEF PunchRound
<1>5. ASSUME NEW d \in Device, OpenGivesUp(d) PROVE PairInv'
  BY <1>1, <1>2, <1>5 DEF OpenGivesUp, OpenEnds
<1>6. CASE ListenerOpens
  <2>1. Reaches(Listener) \in BOOLEAN
    BY DEF Reaches
  <2> QED BY <1>1, <1>2, <1>6, <2>1, DevicesAssumption DEF ListenerOpens, OpenEnds
<1>7. CASE DialerOpens
  BY <1>1, <1>2, <1>7, DevicesAssumption DEF DialerOpens, OpenEnds
<1> QED BY <1>3, <1>4, <1>5, <1>6, <1>7

\* Two new records over an empty network.
LEMMA PairStart == PairInit => PairInv
<1> SUFFICES ASSUME PairInit PROVE PairInv
  OBVIOUS
<1> DEFINE p == NewPeer("prefer_p2p", TRUE)
<1>1. p \in PeerRecord /\ p.signals = {} /\ Sound(p)
  BY NewSound DEF Policies
<1>2. peer = [d \in Device |-> p] /\ net = {} /\ ready = FALSE /\ heard = {}
  BY DEF PairInit
<1> HIDE DEF p
<1> QED BY <1>1, <1>2 DEF PairInv, PairTypeOK, SoundInv, TypeOK, Evidence

\* Every step of either device or of the network keeps the invariant.
LEMMA PairStep == PairInv /\ [PairNext]_pairVars => PairInv'
<1> SUFFICES ASSUME PairInv, [PairNext]_pairVars PROVE PairInv'
  OBVIOUS
<1>1. ASSUME NEW m \in net, RecvPunch(m) \/ RecvPunchAck(m) PROVE PairInv'
  BY <1>1, PunchArrives, AckArrives
<1>2. ASSUME NEW m \in net, Lose(m) PROVE PairInv'
  BY <1>2 DEF Lose, PairInv, PairTypeOK, SoundInv, TypeOK, Evidence
<1>3. CASE UNCHANGED pairVars
  BY <1>3 DEF pairVars, PairInv, PairTypeOK, SoundInv, TypeOK, Evidence
<1> QED BY <1>1, <1>2, <1>3, DeviceSteps, RotationStep DEF PairNext

\* A device reports the datagram path only if a punch of each of the two
\* devices has reached the other, whatever the network loses, delays or
\* reorders and however often the sockets are rotated.
THEOREM BothWaysBeforeReady == PairSpec => []ReadyBothWays
<1>1. PairInv => ReadyBothWays
  <2> SUFFICES ASSUME PairInv, NEW d \in Device, DataPath(peer[d]) = "p2p_datagram"
               PROVE  heard = Device
    BY DEF ReadyBothWays
  <2>1. peer[d].ready
    BY DEF DataPath, PairInv, SoundInv, TypeOK, PeerRecord
  <2>2. peer[d].signals = BothSignals
    BY <2>1 DEF PairInv, SoundInv, Sound, Direct, Nearly
  <2>3. d \in heard /\ Other(d) \in heard
    BY <2>2 DEF PairInv, Evidence, BothSignals
  <2> QED BY <2>3, DevicesAssumption DEF PairInv, PairTypeOK, Other
<1> QED BY <1>1, PairStart, PairStep, PTL DEF PairSpec
=============================================================================
