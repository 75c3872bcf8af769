-------------------------- MODULE SharedReceiver --------------------------
(***************************************************************************)
(* cmd/UDPTunnelLAN/packet_runtime.go: the receiving Codec of a peer is    *)
(* one object, and no lock guards it.  The UDP read loop (datagrams and    *)
(* UDP relay frames), the HTTP relay poller and the KCP reader each call   *)
(* rx.Open from a goroutine of their own.  Open is split here into what    *)
(* these goroutines can interleave: Accept reads the window, Accept writes *)
(* it back, and the AEAD check ends the call.                              *)
(*                                                                         *)
(* Accept's write is unsynchronised.  A new maximum overwrites both fields *)
(* with values computed from what was read; inside the window a bit is     *)
(* or-ed into the word, either as it is in memory or as it was read.       *)
(***************************************************************************)
EXTENDS ReplayWindow

CONSTANT Readers   \* the goroutines that call rx.Open

VARIABLE reading   \* per goroutine: where it is in Open, and what it read

sharedVars == <<vars, reading>>

Kinds == {"genuine", "damaged"}

NotReading == [step |-> "idle", seq |-> 0, kind |-> "damaged", snap |-> EmptyWindow]

\* The values Accept may leave in memory after it found seq fresh in snap.
Written(snap, seq) ==
  IF seq > snap.max
    THEN {Mark(snap, seq)}
    ELSE {[window EXCEPT !.bits = @ \cup {snap.max - seq}],
          [window EXCEPT !.bits = snap.bits \cup {snap.max - seq}]}
-----------------------------------------------------------------------------
SharedInit == Init /\ reading = [g \in Readers |-> NotReading]

SealShared == Seal /\ UNCHANGED reading

\* A frame reaches goroutine g; Accept reads max and bits.
Load(g, s, kind) ==
  /\ reading[g].step = "idle"
  /\ kind = "genuine" => s \in 1..(nextSeq - 1)
  /\ reading' = [reading EXCEPT ![g] =
                   [step |-> "loaded", seq |-> s, kind |-> kind, snap |-> window]]
  /\ UNCHANGED vars

\* Accept found a replay in what it read: Open returns ErrReplay.
Refuse(g) ==
  LET r == reading[g] IN
  /\ r.step = "loaded"
  /\ ~Fresh(r.snap, r.seq)
  /\ outcome' = [seq |-> r.seq, kind |-> r.kind, result |-> "ErrReplay"]
  /\ reading' = [reading EXCEPT ![g] = NotReading]
  /\ UNCHANGED <<nextSeq, window, opened>>

\* Accept writes the window back.
Store(g) ==
  LET r == reading[g] IN
  /\ r.step = "loaded"
  /\ Fresh(r.snap, r.seq)
  /\ window' \in Written(r.snap, r.seq)
  /\ reading' = [reading EXCEPT ![g].step = "accepted"]
  /\ UNCHANGED <<nextSeq, opened, outcome>>

\* The AEAD check: the plaintext is returned, or the window is rolled back.
Finish(g) ==
  LET r == reading[g] IN
  /\ r.step = "accepted"
  /\ IF r.kind = "genuine"
       THEN /\ opened' = [opened EXCEPT ![r.seq] = @ + 1]
            /\ outcome' = [seq |-> r.seq, kind |-> r.kind, result |-> "plain"]
            /\ UNCHANGED window
       ELSE /\ window' = Rollback(window, r.seq)
            /\ outcome' = [seq |-> r.seq, kind |-> r.kind, result |-> "ErrFrame"]
            /\ UNCHANGED opened
  /\ reading' = [reading EXCEPT ![g] = NotReading]
  /\ UNCHANGED nextSeq

SharedNext ==
  \/ SealShared
  \/ \E g \in Readers :
       \/ \E s \in 0..MaxSeq, kind \in Kinds : Load(g, s, kind)
       \/ Refuse(g)
       \/ Store(g)
       \/ Finish(g)

SharedSpec == SharedInit /\ [][SharedNext]_sharedVars
=============================================================================
