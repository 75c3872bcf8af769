----------------------------- MODULE LanSender -----------------------------
(***************************************************************************)
(* cmd/UDPTunnelLAN/packet_runtime.go: the goroutine sendPackets.  It      *)
(* collects outbound frames into a batch, and on a timer or at once moves  *)
(* the batch into the pending queue and offers every pending frame to the  *)
(* paths in turn: P2P, then the UDP relay, then the HTTP relay.  What a    *)
(* path took is removed from the queue by index.                           *)
(*                                                                         *)
(* flush is split where it waits for the network, because time passes      *)
(* there (an HTTP post may take 10 s, a frame expires after 5 s) and the   *)
(* refresh goroutine may remove a peer.  Which sends succeed is up to the  *)
(* environment.                                                            *)
(***************************************************************************)
EXTENDS PendingQueue

CONSTANTS
  BatchMax,     \* lanThroughputBatchMax
  MaxInputs     \* bound: frames read from the adapter in a behaviour

ASSUME BatchAssumption == BatchMax \in Nat \ {0} /\ MaxInputs \in Nat

VARIABLES
  queue,       \* pending
  batch,       \* frames not yet in the queue
  timer,       \* "armed" or "stopped"
  pc,          \* where the goroutine is: select, or a stage of flush
  frames,      \* flush: the items behind the result of Frames()
  relay,       \* flush: relayIndexes, the indexes offered to the relays
  sealed,      \* flush: the items SealRelayFrames returned
  delivered,   \* flush: the indexes marked as delivered
  backoff,     \* relayBackoffUntil lies in the future
  serverHTTP,  \* whether an HTTP endpoint is configured
  sent,        \* history: ids of queued frames some path took
  lost         \* history: ids Remove took out though no path took them

flushVars == <<frames, relay, sealed, delivered>>
vars == <<queue, batch, timer, pc, flushVars, backoff, serverHTTP, sent, lost>>

Dsts == {k.dst : k \in FrameKinds}
Received == queue.nextID + Len(batch)
-----------------------------------------------------------------------------
Init ==
  /\ queue = EmptyQueue
  /\ batch = <<>>
  /\ timer = "stopped"
  /\ pc = "select"
  /\ frames = <<>> /\ relay = <<>> /\ sealed = <<>> /\ delivered = {}
  /\ backoff = FALSE
  /\ serverHTTP \in BOOLEAN
  /\ sent = {} /\ lost = {}

\* Mutant of Rearm: the timer is left stopped after a flush.
RearmNever(q) == timer' = "stopped"

\* After flush: armTimer when something is left.
Rearm(q) == timer' = IF q.frames = <<>> THEN "stopped" ELSE "armed"

\* The start of flush: the batch goes into the queue, Frames() is taken.
Flush(b) ==
  LET q == Prune(Add(queue, b)) IN
  /\ queue' = q
  /\ batch' = <<>>
  /\ frames' = [i \in DOMAIN Ordered(q) |->
                  [id |-> Ordered(q)[i].id, kind |-> Ordered(q)[i].kind]]
  /\ relay' = <<>> /\ sealed' = <<>> /\ delivered' = {}
  /\ IF q.frames = <<>>
       THEN pc' = "select" /\ Rearm(q)
       ELSE pc' = "p2p" /\ timer' = "stopped"
  /\ UNCHANGED <<backoff, serverHTTP, sent, lost>>

\* case frame := <-outbound
Receive(kind) ==
  /\ pc = "select"
  /\ Received < MaxInputs
  /\ LET b == Append(batch, kind) IN
     IF kind.prio <= 1 \/ Len(b) >= BatchMax
       THEN Flush(b)
       ELSE /\ batch' = b
            /\ timer' = IF Len(b) = 1 THEN "armed" ELSE timer
            /\ UNCHANGED <<queue, pc, flushVars, backoff, serverHTTP, sent, lost>>

\* case <-timer.C
TimerFires ==
  /\ pc = "select"
  /\ timer = "armed"
  /\ Flush(batch)

\* p2p.Send for every frame, CanRelay for those it refused.
SendP2P(took, relayable) ==
  LET left == {i \in DOMAIN frames \ took : frames[i].kind.dst \in relayable} IN
  /\ pc = "p2p"
  /\ took \subseteq DOMAIN frames
  /\ delivered' = took
  /\ sent' = sent \cup {frames[i].id : i \in took}
  /\ relay' = SetToSortSeq(left, <)
  /\ pc' = IF left = {} \/ backoff THEN "remove" ELSE "seal"
  /\ UNCHANGED <<queue, batch, timer, frames, sealed, backoff, serverHTTP, lost>>

\* SealRelayFrames fails.
SealFails ==
  /\ pc = "seal"
  /\ backoff' = TRUE
  /\ pc' = "remove"
  /\ UNCHANGED <<queue, batch, timer, flushVars, serverHTTP, sent, lost>>

\* SealRelayFrames skips the frames of peers that were removed meanwhile; the
\* UDP relay takes the sealed frames at the positions in took.  Position i of
\* the sealed list is booked under relayIndexes[i].
SendUDPRelay(gone, took) ==
  LET all == [i \in DOMAIN relay |-> frames[relay[i]]]
      s == SelectSeq(all, LAMBDA item : item.kind.dst \notin gone)
  IN
  /\ pc = "seal"
  /\ took \subseteq DOMAIN s
  /\ sealed' = s
  /\ delivered' = delivered \cup {relay[i] : i \in took}
  /\ sent' = sent \cup {s[i].id : i \in took}
  /\ pc' = IF took = DOMAIN s \/ ~serverHTTP THEN "remove" ELSE "post"
  /\ UNCHANGED <<queue, batch, timer, frames, relay, backoff, serverHTTP, lost>>

\* postRelayFrames succeeds: every relay index counts as delivered.
PostRelay ==
  /\ pc = "post"
  /\ delivered' = delivered \cup {relay[i] : i \in DOMAIN relay}
  /\ sent' = sent \cup Ids(sealed)
  /\ pc' = "remove"
  /\ UNCHANGED <<queue, batch, timer, frames, relay, sealed, backoff, serverHTTP, lost>>

PostFails ==
  /\ pc = "post"
  /\ backoff' = TRUE
  /\ pc' = "remove"
  /\ UNCHANGED <<queue, batch, timer, flushVars, serverHTTP, sent, lost>>

\* pending.Remove(delivered) and the end of flush.
FinishFlush ==
  /\ pc = "remove"
  /\ queue' = RemoveDelivered(queue, delivered)
  /\ lost' = lost \cup (Taken(queue, delivered) \ sent)
  /\ pc' = "select"
  /\ Rearm(queue')
  /\ frames' = <<>> /\ relay' = <<>> /\ sealed' = <<>> /\ delivered' = {}
  /\ sent' = sent \cap Ids(queue'.frames)
  /\ UNCHANGED <<batch, backoff, serverHTTP>>

\* Time passes: pending frames age.
Tick ==
  /\ queue.frames # <<>>
  /\ queue' = Older(queue)
  /\ UNCHANGED <<batch, timer, pc, flushVars, backoff, serverHTTP, sent, lost>>

BackoffEnds ==
  /\ backoff
  /\ backoff' = FALSE
  /\ UNCHANGED <<queue, batch, timer, pc, flushVars, serverHTTP, sent, lost>>

Transmit ==
  \/ \E took \in SUBSET DOMAIN frames, relayable \in SUBSET Dsts : SendP2P(took, relayable)
  \/ SealFails
  \/ \E gone \in SUBSET Dsts, took \in SUBSET DOMAIN relay : SendUDPRelay(gone, took)
  \/ PostRelay
  \/ PostFails

Next ==
  \/ \E kind \in FrameKinds : Receive(kind)
  \/ TimerFires
  \/ Transmit
  \/ FinishFlush
  \/ Tick
  \/ BackoffEnds

\* Weak fairness of TimerFires, with its enabling condition written out.
TimerFair == []<>~(pc = "select" /\ timer = "armed") \/ []<><<TimerFires>>_vars

\* The goroutine runs, its network calls return, timers fire, time passes.
Fairness ==
  /\ TimerFair
  /\ WF_vars(Transmit)
  /\ WF_vars(FinishFlush)
  /\ WF_vars(Tick)

Spec == Init /\ [][Next]_vars /\ Fairness
-----------------------------------------------------------------------------
Item == [id : 1..MaxInputs, kind : FrameKinds, age : 0..(TTL + 1)]
Snap == [id : 1..MaxInputs, kind : FrameKinds]

\* Type correctness of the goroutine's state.
TypeOK ==
  /\ DOMAIN queue = {"frames", "bytes", "nextID"}
  /\ queue.frames \in Seq(Item) /\ queue.nextID \in 0..MaxInputs
  /\ queue.bytes \in Nat
  /\ batch \in Seq(FrameKinds)
  /\ timer \in {"armed", "stopped"}
  /\ pc \in {"select", "p2p", "seal", "post", "remove"}
  /\ frames \in Seq(Snap) /\ sealed \in Seq(Snap)
  /\ relay \in Seq(DOMAIN frames) /\ delivered \subseteq DOMAIN frames
  /\ backoff \in BOOLEAN /\ serverHTTP \in BOOLEAN
  /\ sent \subseteq 1..MaxInputs /\ lost \subseteq 1..MaxInputs

\* lanPendingQueue's limits hold together whatever was added, expired and
\* removed in between: frames, bytes, frames per peer, frames per session.  The
\* running byte count that trim's loop tests stays the size of what is queued,
\* also with the next frame; were it larger, the loop would spin on an empty
\* queue.
WithinLimits ==
  /\ Len(queue.frames) <= MaxFrames
  /\ MaxBytes > 0 => queue.bytes <= MaxBytes
  /\ MaxPerPeer > 0 => \A d \in Dsts : Count(queue, {k \in FrameKinds : k.dst = d}) <= MaxPerPeer
  /\ MaxPerSession > 0 =>
       \A k \in FrameKinds :
         k.sess # "" => Count(queue, {x \in FrameKinds : x.sess = k.sess}) <= MaxPerSession
  /\ queue.bytes = Size(queue.frames)
  /\ \A kind \in FrameKinds :
       LET q == Enqueue(Prune(queue), kind) IN q.bytes = Size(q.frames)

\* Whatever frame arrives next, capacity costs a frame only when nothing less
\* urgent is left in the same session (or to the same peer, for a frame
\* without a session): critical frames outlive bulk.
TrimDropsWorst ==
  \A kind \in FrameKinds :
    LET q == Prune(queue)
        before == Append(q.frames, [id |-> q.nextID + 1, kind |-> kind, age |-> 0])
        after == Enqueue(q, kind).frames
        SameScope(a, b) == IF a.sess = "" THEN a.dst = b.dst ELSE a.sess = b.sess
    IN  \A d \in ToSet(before) \ ToSet(after), k \in ToSet(after) :
          SameScope(d.kind, k.kind) => k.kind.prio <= d.kind.prio

\* Remove works by index on a list sorted anew.  It takes out a frame that no
\* path took only if the list shrank during the flush, because a frame
\* expired, or if SealRelayFrames skipped the frame of a removed peer.
LossNeedsDisturbance ==
  [][lost' # lost =>
       \/ Len(Ordered(queue)) < Len(frames)
       \/ sealed # <<>> /\ Len(sealed) < Len(relay)]_vars

\* "SendPacketsHTTPRelayRemovesOnlyRelayedFrames": Remove takes out only
\* frames that some path took.
RemovesOnlyRelayedFrames == lost = {}

\* Every frame leaves the batch and the queue in the end: sent, dropped for
\* capacity or expired, even if no further packet arrives.
Waiting == batch # <<>> \/ queue.frames # <<>>
FramesLeave == Waiting ~> ~Waiting
=============================================================================
