----------------------------- MODULE LanRelay -----------------------------
(***************************************************************************)
(* The way of a LAN packet that no direct path took, from the adapter of   *)
(* one device to the adapters of its peers: Router.RouteOutbound picks the *)
(* destination, sendPackets seals the frame, offers it to the UDP relay    *)
(* and posts it to the HTTP relay, lanPacketRelay keeps a short queue per  *)
(* device, and the peer's poller and its UDP read loop open what arrives   *)
(* with the peer's one receiving Codec and write it to the adapter.        *)
(*                                                                         *)
(* A frame carries the packet's id, and "by", the configuration it was     *)
(* routed with; the ids and the numbers of Enqueue are history.  A handler *)
(* of the server goes on when its client has given up.  Open is atomic     *)
(* here; SharedReceiver has its interleavings.  The pending queue's limits *)
(* and expiry, and the indexes it removes by, are LanSender's.             *)
(***************************************************************************)
EXTENDS Integers, Sequences, FiniteSets, SequencesExt

CONSTANTS
  Self,         \* the sending device
  Peers,        \* the receiving devices
  NoDevice,     \* no route: the empty device id
  Configs,      \* the router configurations the server may answer
  Packets,      \* the packets the adapter may yield
  Limit,        \* lanPacketRelay.limit
  PollMax,      \* lanPacketBatchSize
  WindowSize,   \* replayWindowSize
  MaxSeq,       \* bound: frames sealed per peer
  MaxPackets,   \* bound: packets routed
  MaxEvents     \* bound: changes of configuration or setting, requests lost, restarts

ASSUME LimitAssumption == Limit \in Nat \ {0} /\ PollMax \in Nat \ {0}

VARIABLES
  router,    \* the router's configuration
  sender,    \* sendPackets: pending, the batch it is posting, Codec.nextSeq
  udp,       \* frames on the UDP relay: delayed, lost, repeated
  post,      \* handlers of /packets/send: frames left to handle
  queue,     \* lanPacketRelay.byDevice
  poll,      \* per peer: its poll request, the frames of the last answer
  rx,        \* per peer: the replay window of its receiving Codec
  allowed,   \* currentLANAllowRelay
  events,    \* how many of these so far
  hist       \* history: accepted, lost and written frames

vars == <<router, sender, udp, post, queue, poll, rx, allowed, events, hist>>

Handlers == 1..2
Free == [pc |-> "free", left |-> <<>>]

\* The receiving Codecs: Fresh and Mark of their windows.
Codec == INSTANCE ReplayWindow WITH
  nextSeq <- sender, window <- rx, opened <- hist, outcome <- poll
-----------------------------------------------------------------------------
(* internal/packet/router.go                                               *)

MatchProtocol(rule, pkt) == rule.proto \in {"any", pkt.proto}

\* The end of matchACLRule: no range, or a range one end of which may be 0.
MatchPorts(rule, pkt) ==
  LET from == IF rule.from = 0 THEN rule.to ELSE rule.from
      to == IF rule.to = 0 THEN rule.from ELSE rule.to
  IN  from = 0 \/ (pkt.port > 0 /\ from <= pkt.port /\ pkt.port <= to)

MatchACLRule(rule, dst, pkt) ==
  /\ rule.src \in {NoDevice, Self}
  /\ rule.dst \in {NoDevice, dst}
  /\ MatchProtocol(rule, pkt)
  /\ MatchPorts(rule, pkt)

\* Mutant of AllowACL: the last rule that matches decides.
AllowACLLast(acl, dst, pkt) ==
  LET hits == SelectSeq(acl, LAMBDA r : r.enabled /\ MatchACLRule(r, dst, pkt))
  IN  hits = <<>> \/ Last(hits).action # "deny"

\* allowACL: the loop returns at the first rule that denies.
AllowACL(acl, dst, pkt) ==
  ~\E i \in DOMAIN acl :
     acl[i].enabled /\ MatchACLRule(acl[i], dst, pkt) /\ acl[i].action = "deny"

\* The device a packet goes to.  Routes and rules are read under one lock; a
\* packet that is dropped leaves nothing but a counter.
RouteOutbound(pkt) ==
  LET c == Configs[router]
      dst == c.routes[pkt.ip]
  IN  IF dst # NoDevice /\ AllowACL(c.acl, dst, pkt) THEN dst ELSE NoDevice

\* readWintunPackets
ReadPacket(pkt) ==
  LET dst == RouteOutbound(pkt) IN
  /\ sender.routed < MaxPackets
  /\ dst # NoDevice
  /\ sender' = [sender EXCEPT
       !.routed = @ + 1,
       !.pending = Append(@, [id |-> sender.routed + 1, dst |-> dst, pkt |-> pkt, by |-> router])]
  /\ UNCHANGED <<router, udp, post, queue, poll, rx, allowed, events, hist>>

\* Routes and rules are replaced together.
UpdateConfig(c) == router' = c

\* A turn of refreshLANPeers that is answered with another configuration.
RefreshLANPeers(c) ==
  /\ events < MaxEvents /\ c # router
  /\ UpdateConfig(c)
  /\ events' = events + 1
  /\ UNCHANGED <<sender, udp, post, queue, poll, rx, allowed, hist>>
-----------------------------------------------------------------------------
(* cmd/UDPTunnelLAN/packet_runtime.go: the relay part of flush             *)

\* SealRelayFrames: every attempt takes new numbers, per peer.
Seal(frames) ==
  [i \in DOMAIN frames |->
     frames[i] @@ [seq |-> sender.next[frames[i].dst]
                             + Cardinality({j \in 1..(i - 1) : frames[j].dst = frames[i].dst})]]

\* The frames of pending that are not at one of the positions in gone.
Without(gone) ==
  LET kept == SetToSortSeq(DOMAIN sender.pending \ gone, <)
  IN  [i \in DOMAIN kept |-> sender.pending[kept[i]]]

\* SendUDPRelayFrame takes the frames at the positions in took; unless these
\* are all of them, all of them are posted.
Flush(took) ==
  LET s == Seal(sender.pending)
      n == [d \in Peers |-> sender.next[d] + Cardinality({i \in DOMAIN s : s[i].dst = d})]
  IN
  /\ sender.handler = 0 /\ s # <<>> /\ took \subseteq DOMAIN s
  /\ \A d \in Peers : n[d] <= MaxSeq + 1
  /\ udp' = udp \cup {s[i] : i \in took}
  /\ IF took = DOMAIN s
       THEN /\ sender' = [sender EXCEPT !.pending = <<>>, !.next = n]
            /\ UNCHANGED post
       ELSE \E h \in Handlers :
              /\ post[h] = Free
              /\ post' = [post EXCEPT ![h] = [pc |-> "sent", left |-> s]]
              /\ sender' = [sender EXCEPT !.next = n, !.handler = h, !.took = took, !.count = Len(s)]
  /\ UNCHANGED <<router, queue, poll, rx, allowed, events, hist>>

\* The end of flush: the positions in gone leave pending.
EndFlush(gone) ==
  sender' = [sender EXCEPT !.pending = Without(gone), !.handler = 0, !.took = {}, !.count = 0]

\* Mutant of PostFails: a post that failed counts as sent.
PostFailsDelivered == EndFlush(1..sender.count)

\* postRelayFrames returns an error: only what the UDP relay took is removed.
PostFails == EndFlush(sender.took)

\* The server answers: relay_disabled, or the frames accepted, all of them as
\* flush posts none that the handler skips.
Answered(h) ==
  /\ sender.handler = h
  /\ \/ /\ post[h].pc = "sent" /\ ~allowed
        /\ PostFails
     \/ /\ post[h].pc = "begun" /\ post[h].left = <<>>
        /\ EndFlush(1..sender.count)
  /\ post' = [post EXCEPT ![h] = Free]
  /\ UNCHANGED <<router, udp, queue, poll, rx, allowed, events, hist>>

\* The request or the answer is lost, or too late for the client's timeout;
\* a request on its way may still reach the server.
PostLost ==
  /\ sender.handler # 0 /\ events < MaxEvents
  /\ PostFails
  /\ events' = events + 1
  /\ UNCHANGED <<router, udp, post, queue, poll, rx, allowed, hist>>

\* A handler whose client has gone ends, or its request never arrives.
Abandoned(h) ==
  /\ sender.handler # h
  /\ post[h].pc = "sent" \/ (post[h].pc = "begun" /\ post[h].left = <<>>)
  /\ post' = [post EXCEPT ![h] = Free]
  /\ UNCHANGED <<router, sender, udp, queue, poll, rx, allowed, events, hist>>
-----------------------------------------------------------------------------
(* internal/server/lan_packet_relay.go                                     *)

BeginSend(h) ==
  /\ post[h].pc = "sent" /\ allowed
  /\ post' = [post EXCEPT ![h].pc = "begun"]
  /\ UNCHANGED <<router, sender, udp, queue, poll, rx, allowed, events, hist>>

\* A queue longer than the limit loses its oldest frames.
Bounded(q) == IF Len(q) > Limit THEN SubSeq(q, Len(q) - Limit + 1, Len(q)) ELSE q

\* One turn of the handler's loop.
Enqueue(h) ==
  LET f == Head(post[h].left)
      d == f.dst
  IN
  /\ post[h].pc = "begun" /\ post[h].left # <<>>
  /\ queue' = [queue EXCEPT ![d] = Bounded(Append(@, f))]
  /\ post' = [post EXCEPT ![h].left = Tail(@)]
  /\ hist' = [hist EXCEPT !.accepted[d] = Append(@, f)]
  /\ UNCHANGED <<router, sender, udp, poll, rx, allowed, events>>

\* lanPacketRelay.Poll: the frames taken, at most PollMax of them.
Polled(d) == SubSeq(queue[d], 1, IF Len(queue[d]) < PollMax THEN Len(queue[d]) ELSE PollMax)
Rest(d) == SubSeq(queue[d], Len(Polled(d)) + 1, Len(queue[d]))

\* The handler looks at the queue, once more with every tick while it is empty,
\* and answers with what it took, or with nothing at its deadline.
Poll(d) ==
  /\ poll[d].pc = "asking"
  /\ queue' = [queue EXCEPT ![d] = Rest(d)]
  /\ poll' = [poll EXCEPT ![d].pc = IF Polled(d) = <<>> THEN "idle" ELSE "answered",
                          ![d].frames = Polled(d)]
  /\ UNCHANGED <<router, sender, udp, post, rx, allowed, events, hist>>

\* Mutant of PollLost: the poller ends with the first request that fails.
PollLostEnds(d) ==
  /\ poll[d].pc = "asking" /\ events < MaxEvents /\ ~poll[d].orphan
  /\ poll' = [poll EXCEPT ![d].pc = "ended", ![d].orphan = TRUE]
  /\ events' = events + 1
  /\ UNCHANGED <<router, sender, udp, post, queue, rx, allowed, hist>>

\* The client gives up; its handler may look at the queue once more.
PollLost(d) ==
  /\ poll[d].pc = "asking" /\ events < MaxEvents /\ ~poll[d].orphan
  /\ poll' = [poll EXCEPT ![d].pc = "idle", ![d].orphan = TRUE]
  /\ events' = events + 1
  /\ UNCHANGED <<router, sender, udp, post, queue, rx, allowed, hist>>

OrphanPolls(d) ==
  /\ poll[d].orphan
  /\ poll' = [poll EXCEPT ![d].orphan = FALSE]
  /\ \/ UNCHANGED <<queue, hist>>
     \/ /\ queue[d] # <<>>
        /\ queue' = [queue EXCEPT ![d] = Rest(d)]
        /\ hist' = [hist EXCEPT !.lost = @ \cup ToSet(Polled(d))]
  /\ UNCHANGED <<router, sender, udp, post, rx, allowed, events>>

\* The queues are in memory only; requests under way fail.
Restart ==
  /\ events < MaxEvents
  /\ events' = events + 1
  /\ hist' = [hist EXCEPT !.lost = @ \cup UNION {ToSet(queue[d]) : d \in Peers}]
  /\ queue' = [d \in Peers |-> <<>>]
  /\ post' = [h \in Handlers |-> Free]
  /\ poll' = [d \in Peers |-> [poll[d] EXCEPT
                !.pc = IF @ = "answered" THEN @ ELSE "idle", !.orphan = FALSE]]
  /\ IF sender.handler # 0 THEN PostFails ELSE UNCHANGED sender
  /\ UNCHANGED <<router, udp, rx, allowed>>

\* The administrator's setting.
SetAllowRelay ==
  /\ events < MaxEvents
  /\ allowed' = ~allowed
  /\ events' = events + 1
  /\ UNCHANGED <<router, sender, udp, post, queue, poll, rx, hist>>
-----------------------------------------------------------------------------
(* cmd/UDPTunnelLAN/packet_runtime.go: the receiving side                  *)

\* pollRelayPackets asks again; a request is refused while relay is disabled.
AskPoll(d) ==
  /\ poll[d].pc = "idle" /\ allowed
  /\ poll' = [poll EXCEPT ![d].pc = "asking"]
  /\ UNCHANGED <<router, sender, udp, post, queue, rx, allowed, events, hist>>

\* adapter.WritePacket
Write(f) == hist' = [hist EXCEPT !.written = @ \cup {f}, !.twice = @ \/ f \in hist.written]

\* Mutant of Open: the number is checked and not marked.
OpenUnmarked(f) ==
  IF Codec!Fresh(rx[f.dst], f.seq)
    THEN Write(f) /\ UNCHANGED rx
    ELSE UNCHANGED <<rx, hist>>

\* rx.Open, and adapter.WritePacket of what it returns.
Open(f) ==
  IF Codec!Fresh(rx[f.dst], f.seq)
    THEN /\ rx' = [rx EXCEPT ![f.dst] = Codec!Mark(@, f.seq)]
         /\ Write(f)
    ELSE UNCHANGED <<rx, hist>>

\* handleUDPRelayFrame
ReceiveUDP(f) ==
  /\ Open(f)
  /\ UNCHANGED <<router, sender, udp, post, queue, poll, allowed, events>>

\* The loop of pollRelayPackets over the frames of an answer.
ReceivePolled(d) ==
  /\ poll[d].pc = "answered"
  /\ Open(Head(poll[d].frames))
  /\ poll' = [poll EXCEPT ![d].frames = Tail(@),
                          ![d].pc = IF Len(poll[d].frames) = 1 THEN "idle" ELSE @]
  /\ UNCHANGED <<router, sender, udp, post, queue, allowed, events>>
-----------------------------------------------------------------------------
Init ==
  /\ router = 1
  /\ sender = [pending |-> <<>>, next |-> [d \in Peers |-> 1], routed |-> 0,
               handler |-> 0, took |-> {}, count |-> 0]
  /\ udp = {}
  /\ post = [h \in Handlers |-> Free]
  /\ queue = [d \in Peers |-> <<>>]
  /\ poll = [d \in Peers |-> [pc |-> "idle", frames |-> <<>>, orphan |-> FALSE]]
  /\ rx = [d \in Peers |-> Codec!EmptyWindow]
  /\ allowed \in BOOLEAN
  /\ events = 0
  /\ hist = [accepted |-> [d \in Peers |-> <<>>], lost |-> {}, written |-> {}, twice |-> FALSE]

Server(h) == BeginSend(h) \/ Enqueue(h)
Poller(d) == AskPoll(d) \/ Poll(d) \/ ReceivePolled(d)

Next ==
  \/ \E pkt \in Packets : ReadPacket(pkt)
  \/ \E c \in DOMAIN Configs : RefreshLANPeers(c)
  \/ \E took \in SUBSET DOMAIN sender.pending : Flush(took)
  \/ \E h \in Handlers : Server(h) \/ Answered(h) \/ Abandoned(h)
  \/ PostLost
  \/ \E d \in Peers : Poller(d) \/ PollLost(d) \/ OrphanPolls(d)
  \/ \E f \in udp : ReceiveUDP(f)
  \/ Restart
  \/ SetAllowRelay

\* The pollers of running peers go on, and a handler that began goes on.
Spec ==
  /\ Init /\ [][Next]_vars
  /\ \A d \in Peers : WF_vars(Poller(d))
  /\ \A h \in Handlers : WF_vars(Enqueue(h))
-----------------------------------------------------------------------------
\* A frame that reached both relays, was repeated by the network or overtaken
\* is written to the adapter once: the two receiving loops share the window,
\* and an attempt after a failed post takes new numbers.
WrittenOnce == ~hist.twice

\* The ports a rule is about: all, or a range given by one or by both ends.
PortsOf(rule) ==
  IF rule.from = 0 /\ rule.to = 0 THEN Nat
  ELSE {p \in Nat \ {0} : /\ p >= (IF rule.from = 0 THEN rule.to ELSE rule.from)
                          /\ p <= (IF rule.to = 0 THEN rule.from ELSE rule.to)}

\* An adapter gets only packets for its own address and that no rule denies,
\* wherever the rule stands among the others, in the configuration the sender
\* had when it read the packet.
WrittenAsAllowed ==
  \A f \in hist.written :
    LET c == Configs[f.by] IN
        /\ c.routes[f.pkt.ip] = f.dst
        /\ \A r \in ToSet(c.acl) :
             ~ /\ r.enabled /\ r.action = "deny"
               /\ r.src \in {NoDevice, Self} /\ r.dst \in {NoDevice, f.dst}
               /\ r.proto \in {"any", f.pkt.proto} /\ f.pkt.port \in PortsOf(r)

\* Limit frames for the same device were accepted after the one at n.
Overrun(d, n) == Len(hist.accepted[d]) - n >= Limit

\* Where a frame the HTTP relay accepted at position n may be.
Explained(d, n) ==
  LET f == hist.accepted[d][n] IN
  \/ f \in ToSet(queue[d]) \cup ToSet(poll[d].frames) \cup hist.written
  \/ f \in hist.lost
  \/ rx[d].max - f.seq >= WindowSize
  \/ Overrun(d, n)

\* A packet the sender no longer holds was given to the UDP relay, or the HTTP
\* relay accepted it and it waits, was written, or fell to one of four things:
\* a poll whose client had gone, a restart, an overrun of the queue by newer
\* frames, an age beyond the replay window.
PacketsAccounted ==
  \A id \in 1..sender.routed :
    \/ \E i \in DOMAIN sender.pending : sender.pending[i].id = id
    \/ \E f \in udp : f.id = id
    \/ \E d \in Peers : \E n \in DOMAIN hist.accepted[d] :
         hist.accepted[d][n].id = id /\ Explained(d, n)

\* Once relay stays allowed, every queue empties: a poller asks again whatever
\* happened to its last request.
QueueDrains == <>[]allowed => \A d \in Peers : <>[](queue[d] = <<>>)
=============================================================================
