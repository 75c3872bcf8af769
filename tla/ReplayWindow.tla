--------------------------- MODULE ReplayWindow ---------------------------
(***************************************************************************)
(* internal/packet/session.go: one direction of a LAN packet session.  The *)
(* sender's Codec numbers the frames it seals; the receiver's Codec checks *)
(* the header, consults its replay window, authenticates, and undoes the   *)
(* window update when authentication fails.                                *)
(*                                                                         *)
(* The 64-bit mask replayWindow.bits is the set of offsets b (bit b stands *)
(* for sequence number max - b).  The network may lose, repeat and reorder *)
(* frames, so the receiver may open any frame sealed so far, any number of *)
(* times; a damaged frame carries an arbitrary sequence number in its      *)
(* header and fails authentication.  Open is atomic here: SharedReceiver   *)
(* splits it into the steps that several goroutines interleave.            *)
(***************************************************************************)
EXTENDS Integers

CONSTANTS
  WindowSize,    \* replayWindowSize
  MaxSeq         \* bound on the sequence numbers of the instance

ASSUME WindowAssumption == WindowSize \in Nat \ {0}
ASSUME SeqAssumption == MaxSeq \in Nat

Seqs == 1..MaxSeq
Offsets == 0..(WindowSize - 1)
Windows == [max : 0..MaxSeq, bits : SUBSET Offsets]

\* The two error returns of Open and its success.
Results == {"none", "plain", "ErrReplay", "ErrFrame"}

VARIABLES
  nextSeq,   \* the sender's Codec.nextSeq
  window,    \* the receiver's Codec.replay
  opened,    \* history: how often Open returned the plaintext of a frame
  outcome    \* the last call of Open: frame and result

vars == <<nextSeq, window, opened, outcome>>

EmptyWindow == [max |-> 0, bits |-> {}]

\* The mask shifted left by n: the bits that leave the 64-bit word are lost.
Slide(bits, n) == {b \in Offsets : b - n \in bits}

\* The boolean result of replayWindow.Accept.
Fresh(w, seq) ==
  /\ seq # 0
  /\ \/ seq > w.max
     \/ w.max - seq < WindowSize /\ w.max - seq \notin w.bits

\* Mutant of Mark: every new maximum restarts the mask.
MarkRestart(w, seq) ==
  IF seq > w.max
    THEN [max |-> seq, bits |-> {0}]
    ELSE [w EXCEPT !.bits = @ \cup {w.max - seq}]

\* The window after replayWindow.Accept returned true.
Mark(w, seq) ==
  IF seq > w.max
    THEN [max |-> seq, bits |-> Slide(w.bits, seq - w.max) \cup {0}]
    ELSE [w EXCEPT !.bits = @ \cup {w.max - seq}]

\* Mutant of Rollback: a failed authentication leaves the bit set.
NoRollback(w, seq) == w

\* replayWindow.Rollback clears the bit; max keeps its new value.
Rollback(w, seq) == [w EXCEPT !.bits = @ \ {w.max - seq}]

-----------------------------------------------------------------------------
Init ==
  /\ nextSeq = 1
  /\ window = EmptyWindow
  /\ opened = [s \in Seqs |-> 0]
  /\ outcome = [seq |-> 0, kind |-> "damaged", result |-> "none"]

Seal ==
  /\ nextSeq <= MaxSeq
  /\ nextSeq' = nextSeq + 1
  /\ UNCHANGED <<window, opened, outcome>>

\* Open of a frame that is authentic: its header is the one Seal wrote.
OpenGenuine(s) ==
  /\ s < nextSeq
  /\ IF Fresh(window, s)
       THEN /\ window' = Mark(window, s)
            /\ opened' = [opened EXCEPT ![s] = @ + 1]
            /\ outcome' = [seq |-> s, kind |-> "genuine", result |-> "plain"]
       ELSE /\ outcome' = [seq |-> s, kind |-> "genuine", result |-> "ErrReplay"]
            /\ UNCHANGED <<window, opened>>
  /\ UNCHANGED nextSeq

\* Open of a frame damaged on the way: the window moves before the check.
OpenDamaged(s) ==
  /\ IF Fresh(window, s)
       THEN /\ window' = Rollback(Mark(window, s), s)
            /\ outcome' = [seq |-> s, kind |-> "damaged", result |-> "ErrFrame"]
       ELSE /\ outcome' = [seq |-> s, kind |-> "damaged", result |-> "ErrReplay"]
            /\ UNCHANGED window
  /\ UNCHANGED <<nextSeq, opened>>

Next ==
  \/ Seal
  \/ \E s \in Seqs : OpenGenuine(s)
  \/ \E s \in 0..MaxSeq : OpenDamaged(s)

Spec == Init /\ [][Next]_vars
-----------------------------------------------------------------------------
\* Type correctness of the codec pair's state.
TypeOK ==
  /\ nextSeq \in 1..(MaxSeq + 1)
  /\ window \in Windows
  /\ opened \in [Seqs -> Nat]
  /\ outcome \in [seq : 0..MaxSeq, kind : {"genuine", "damaged"}, result : Results]

\* "duplicate sequence is rejected": however frames are repeated, reordered
\* and damaged, Open returns the plaintext of a sequence number at most once.
OpenedAtMostOnce == \A s \in Seqs : opened[s] <= 1

\* Inside the window the mask is exact: a bit is set precisely for the
\* sequence numbers whose plaintext was returned, so neither the shift nor a
\* rolled back failure loses or invents one.
WindowExact ==
  \A s \in Seqs :
    window.max - s \in Offsets =>
      (window.max - s \in window.bits <=> opened[s] > 0)

\* No plaintext was ever returned above max.
NothingAboveMax == \A s \in Seqs : s > window.max => opened[s] = 0

\* "out-of-order packets inside the window are accepted once": Open refuses
\* an authentic frame as replayed only if it did return it before or if the
\* frame is older than the window; a damaged copy that arrived first does not
\* use up the sequence number.
RefusedOnlyIfSeenOrOld ==
  (outcome.kind = "genuine" /\ outcome.result = "ErrReplay") =>
    \/ opened[outcome.seq] > 0
    \/ window.max - outcome.seq >= WindowSize

\* The codec pair delivers at most once what was sealed.
Channel == INSTANCE AtMostOnce WITH
  Frame <- Seqs, sealed <- 1..(nextSeq - 1), handed <- opened

ImplementsAtMostOnce == Channel!Spec
=============================================================================
