--------------------------- MODULE PendingQueue ---------------------------
(***************************************************************************)
(* cmd/UDPTunnelLAN/packet_runtime.go: lanPendingQueue, the bounded buffer *)
(* of outbound LAN frames that no path has taken yet.  A queue is a record *)
(* of the item sequence, the running byte count and the last id.  A frame  *)
(* is abstracted to what the queue tells apart: destination peer, session  *)
(* key ("" when the frame has none), priority class and size.  Time is the *)
(* age of an item; an item older than TTL is expired.                      *)
(***************************************************************************)
EXTENDS Integers, SequencesExt

CONSTANTS
  FrameKinds,      \* the frames of the instance: [dst, sess, prio, size]
  MaxFrames,       \* lanPendingMaxFrames
  MaxBytes,        \* lanPendingMaxBytes (0: no limit)
  MaxPerPeer,      \* lanPendingMaxPerPeer (0: no limit)
  MaxPerSession,   \* lanPendingMaxPerSession (0: no limit)
  TTL              \* lanPendingTTL, in ticks

Priorities == 0..2   \* lanFramePriority: critical, interactive, throughput

ASSUME KindAssumption ==
  \A k \in FrameKinds : k.prio \in Priorities /\ k.size \in Nat \ {0}
ASSUME LimitAssumption ==
  /\ MaxFrames \in Nat \ {0}
  /\ {MaxBytes, MaxPerPeer, MaxPerSession, TTL} \subseteq Nat

EmptyQueue == [frames |-> <<>>, bytes |-> 0, nextID |-> 0]

Live(item) == item.age <= TTL
Ids(frames) == {frames[i].id : i \in DOMAIN frames}
Size(frames) == FoldLeft(LAMBDA n, item : n + item.kind.size, 0, frames)
Older(q) == [q EXCEPT !.frames = [i \in DOMAIN @ |->
               [@[i] EXCEPT !.age = IF @ > TTL THEN @ ELSE @ + 1]]]

\* prune: expired items go and the byte count is recomputed.
Prune(q) ==
  LET next == SelectSeq(q.frames, Live)
  IN  [q EXCEPT !.frames = next, !.bytes = Size(next)]

\* Mutant of DropAt: the byte count keeps the dropped frame.
DropAtKeepBytes(q, i) == [q EXCEPT !.frames = RemoveAt(@, i)]

DropAt(q, i) ==
  [q EXCEPT !.frames = RemoveAt(@, i), !.bytes = @ - q.frames[i].kind.size]

\* Mutant of Candidate: the first match goes, whatever its priority.
CandidateOldest(q, kinds) ==
  CHOOSE i \in DOMAIN q.frames :
    /\ q.frames[i].kind \in kinds
    /\ \A j \in DOMAIN q.frames : q.frames[j].kind \in kinds => i <= j

\* dropCandidateIndex and dropMatchingCandidateIndex: the first of the items
\* of these kinds that have the worst priority.
Candidate(q, kinds) ==
  CHOOSE i \in DOMAIN q.frames :
    /\ q.frames[i].kind \in kinds
    /\ \A j \in DOMAIN q.frames :
         q.frames[j].kind \in kinds =>
           \/ q.frames[j].kind.prio < q.frames[i].kind.prio
           \/ q.frames[j].kind.prio = q.frames[i].kind.prio /\ i <= j

\* countPeer and countSession.
Count(q, kinds) == Len(SelectSeq(q.frames, LAMBDA item : item.kind \in kinds))

Over(q) == Len(q.frames) > MaxFrames \/ (MaxBytes > 0 /\ q.bytes > MaxBytes)

\* trim: the loop ends, at the latest, when the queue is empty.
TrimAll(q) ==
  FoldLeft(LAMBDA acc, item : IF Over(acc) THEN DropAt(acc, Candidate(acc, FrameKinds))
                              ELSE acc,
           q, q.frames)

\* The loops of trimPeer and trimSession; a limit of 0 is no limit.
TrimTo(q, kinds, limit) ==
  FoldLeft(LAMBDA acc, item : IF limit > 0 /\ Count(acc, kinds) > limit
                                THEN DropAt(acc, Candidate(acc, kinds)) ELSE acc,
           q, q.frames)

TrimPeer(q, dst) == TrimTo(q, {k \in FrameKinds : k.dst = dst}, MaxPerPeer)

TrimSession(q, sess) ==
  IF sess = "" THEN q
  ELSE TrimTo(q, {k \in FrameKinds : k.sess = sess}, MaxPerSession)

\* One turn of Add's loop.
Enqueue(q, kind) ==
  LET id == q.nextID + 1
      more == [frames |-> Append(q.frames, [id |-> id, kind |-> kind, age |-> 0]),
               bytes |-> q.bytes + kind.size,
               nextID |-> id]
  IN  TrimSession(TrimPeer(TrimAll(more), kind.dst), kind.sess)

Add(q, batch) == FoldLeft(Enqueue, Prune(q), batch)

\* Frames and FrameIDs: a stable sort by priority of what is not expired.
Ordered(q) ==
  LET Of(p) == SelectSeq(Prune(q).frames, LAMBDA item : item.kind.prio = p)
  IN  Of(0) \o Of(1) \o Of(2)

\* Mutant of Taken: the indexes are read in insertion order.
TakenUnsorted(q, delivered) ==
  {Prune(q).frames[i].id : i \in delivered \cap DOMAIN Prune(q).frames}

\* The ids Remove finds at the delivered indexes of a newly sorted list.
Taken(q, delivered) ==
  {Ordered(q)[i].id : i \in delivered \cap DOMAIN Ordered(q)}

RemoveDelivered(q, delivered) ==
  LET Kept(item) == item.id \notin Taken(q, delivered)
      next == SelectSeq(Prune(q).frames, Kept)
  IN  [q EXCEPT !.frames = next, !.bytes = Size(next)]
=============================================================================
