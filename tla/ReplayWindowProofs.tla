------------------------ MODULE ReplayWindowProofs ------------------------
(***************************************************************************)
(* Proofs about ReplayWindow, for every window size and every bound on the *)
(* sequence numbers.  OpenedAtMostOnce alone is not inductive: whether a   *)
(* frame is accepted depends on the mask, so the induction carries the     *)
(* exact meaning of the mask (WindowExact) and the emptiness of the range  *)
(* above max (NothingAboveMax).                                            *)
(***************************************************************************)
EXTENDS ReplayWindow, TLAPS

\* The inductive invariant: types, the meaning of the mask, and the result.
IInv == TypeOK /\ WindowExact /\ NothingAboveMax /\ OpenedAtMostOnce

USE WindowAssumption, SeqAssumption

\* A window that accepts a sequence number (Accept) is again a window, and
\* its maximum is the larger of the two.
LEMMA MarkType ==
  ASSUME NEW w \in Windows, NEW s \in Seqs, Fresh(w, s)
  PROVE  /\ Mark(w, s) \in Windows
         /\ Mark(w, s).max = IF s > w.max THEN s ELSE w.max
  BY DEF Mark, Slide, Fresh, Windows, Offsets, Seqs

\* Accepting s sets the bit of s and keeps the bit of every other sequence
\* number that is still inside the window (the shift in Accept).
LEMMA MarkBits ==
  ASSUME NEW w \in Windows, NEW s \in Seqs, NEW t \in Seqs, Fresh(w, s),
         Mark(w, s).max - t \in Offsets
  PROVE  Mark(w, s).max - t \in Mark(w, s).bits
           <=> (t = s \/ (w.max - t \in Offsets /\ w.max - t \in w.bits))
  <1>1. CASE s > w.max
    BY <1>1 DEF Mark, Slide, Fresh, Windows, Offsets, Seqs
  <1>2. CASE ~(s > w.max)
    BY <1>2 DEF Mark, Fresh, Windows, Offsets, Seqs
  <1> QED BY <1>1, <1>2

\* Undoing an acceptance (Rollback after a failed authentication) clears the
\* bit of s and no other, and leaves the maximum where Accept put it.
LEMMA RollbackBits ==
  ASSUME NEW w \in Windows, NEW s \in Seqs, NEW t \in Seqs, Fresh(w, s),
         Mark(w, s).max - t \in Offsets
  PROVE  /\ Rollback(Mark(w, s), s) \in Windows
         /\ Rollback(Mark(w, s), s).max = Mark(w, s).max
         /\ Mark(w, s).max - t \in Rollback(Mark(w, s), s).bits
              <=> (t # s /\ w.max - t \in Offsets /\ w.max - t \in w.bits)
  <1> DEFINE m == Mark(w, s)
  <1>1. m \in Windows BY MarkType
  <1>2. m.max - t \in m.bits
          <=> (t = s \/ (w.max - t \in Offsets /\ w.max - t \in w.bits))
    BY MarkBits
  <1> HIDE DEF m
  <1>3. /\ Rollback(m, s) \in Windows
        /\ Rollback(m, s).max = m.max
        /\ Rollback(m, s).bits = m.bits \ {m.max - s}
    BY <1>1 DEF Rollback, Windows
  <1>4. m.max - t = m.max - s <=> t = s
    BY <1>1 DEF Windows, Seqs
  <1> QED BY <1>2, <1>3, <1>4 DEF m

\* The initial codecs satisfy the inductive invariant.
LEMMA InitIInv == Init => IInv
  BY DEF Init, IInv, TypeOK, WindowExact, NothingAboveMax, OpenedAtMostOnce,
         EmptyWindow, Windows, Offsets, Seqs, Results

\* A sequence number that Accept lets through was never returned before.
LEMMA FreshIsUnopened ==
  ASSUME TypeOK, WindowExact, NothingAboveMax,
         NEW s \in Seqs, Fresh(window, s)
  PROVE  opened[s] = 0
  <1>1. window.max \in 0..MaxSeq /\ s \in 1..MaxSeq /\ opened[s] \in Nat
    BY DEF TypeOK, Windows, Seqs
  <1>2. CASE s > window.max
    BY <1>2 DEF NothingAboveMax
  <1>3. CASE ~(s > window.max)
    <2>1. window.max - s \in Offsets /\ window.max - s \notin window.bits
      BY <1>1, <1>3, WindowAssumption, SeqAssumption DEF Fresh, Offsets
    <2>2. ~(opened[s] > 0)
      BY <2>1 DEF WindowExact
    <2> QED BY <1>1, <2>2
  <1> QED BY <1>2, <1>3

\* Every call of Seal and Open preserves the inductive invariant.
LEMMA NextIInv == IInv /\ [Next]_vars => IInv'
  <1> SUFFICES ASSUME TypeOK, WindowExact, NothingAboveMax, OpenedAtMostOnce,
                      [Next]_vars
               PROVE  IInv'
    BY DEF IInv
  <1> USE DEF IInv
  <1>1. CASE Seal
    BY <1>1 DEF Seal, TypeOK, WindowExact, NothingAboveMax, OpenedAtMostOnce
  <1>2. ASSUME NEW s \in Seqs, OpenGenuine(s) PROVE IInv'
    <2>1. CASE Fresh(window, s)
      <3> DEFINE m == Mark(window, s)
      <3>1. window \in Windows /\ window' = m /\ m \in Windows
            /\ m.max = IF s > window.max THEN s ELSE window.max
        BY <1>2, <2>1, MarkType DEF OpenGenuine, TypeOK
      <3>2. opened' = [opened EXCEPT ![s] = @ + 1]
        BY <1>2, <2>1 DEF OpenGenuine
      <3>3. opened[s] = 0
        BY <2>1, FreshIsUnopened
      <3>4. TypeOK'
        BY <1>2, <2>1, <3>1, <3>2 DEF OpenGenuine, TypeOK, Seqs, Results
      <3>5. OpenedAtMostOnce'
        BY <3>2, <3>3 DEF TypeOK, OpenedAtMostOnce
      <3>6. NothingAboveMax'
        BY <3>1, <3>2 DEF TypeOK, NothingAboveMax, Windows, Seqs
      <3>7. WindowExact'
        <4> SUFFICES ASSUME NEW t \in Seqs, m.max - t \in Offsets
                     PROVE  m.max - t \in m.bits <=> opened'[t] > 0
          BY <3>1 DEF WindowExact
        <4>1. m.max - t \in m.bits
                <=> (t = s \/ (window.max - t \in Offsets
                               /\ window.max - t \in window.bits))
          BY <3>1, <2>1, MarkBits
        <4>2. window.max - t \in Offsets
                => (window.max - t \in window.bits <=> opened[t] > 0)
          BY DEF WindowExact
        <4>3. window.max - t \notin Offsets => t = s \/ opened[t] = 0
          BY <3>1 DEF NothingAboveMax, Windows, Offsets, Seqs
        <4>4. opened'[t] > 0 <=> t = s \/ opened[t] > 0
          BY <3>2 DEF TypeOK
        <4> QED BY <4>1, <4>2, <4>3, <4>4 DEF TypeOK
      <3> QED BY <3>4, <3>5, <3>6, <3>7
    <2>2. CASE ~Fresh(window, s)
      BY <1>2, <2>2 DEF OpenGenuine, TypeOK, WindowExact, NothingAboveMax,
                        OpenedAtMostOnce, Seqs, Results
    <2> QED BY <2>1, <2>2
  <1>3. ASSUME NEW s \in 0..MaxSeq, OpenDamaged(s) PROVE IInv'
    <2>1. CASE Fresh(window, s)
      <3> DEFINE m == Mark(window, s)
      <3> DEFINE r == Rollback(m, s)
      <3>0. s \in Seqs
        BY <2>1 DEF Fresh, Seqs
      <3>1. window \in Windows /\ window' = r /\ m \in Windows
            /\ m.max = IF s > window.max THEN s ELSE window.max
        BY <1>3, <2>1, <3>0, MarkType DEF OpenDamaged, TypeOK
      <3>2. opened' = opened /\ r \in Windows /\ r.max = m.max
        <4> HIDE DEF m
        <4>1. r \in Windows /\ r.max = m.max
          BY <3>1 DEF Rollback, Windows
        <4> QED BY <1>3, <4>1 DEF OpenDamaged
      <3>3. opened[s] = 0
        BY <2>1, <3>0, FreshIsUnopened
      <3>4. TypeOK'
        BY <1>3, <2>1, <3>1, <3>2 DEF OpenDamaged, TypeOK, Seqs, Results
      <3>5. OpenedAtMostOnce'
        BY <3>2 DEF OpenedAtMostOnce
      <3>6. NothingAboveMax'
        BY <3>1, <3>2 DEF TypeOK, NothingAboveMax, Windows, Seqs
      <3>7. WindowExact'
        <4> SUFFICES ASSUME NEW t \in Seqs, m.max - t \in Offsets
                     PROVE  m.max - t \in r.bits <=> opened[t] > 0
          BY <3>1, <3>2 DEF WindowExact
        <4>1. m.max - t \in r.bits
                <=> (t # s /\ window.max - t \in Offsets
                           /\ window.max - t \in window.bits)
          BY <3>0, <3>1, <2>1, RollbackBits
        <4>2. window.max - t \in Offsets
                => (window.max - t \in window.bits <=> opened[t] > 0)
          BY DEF WindowExact
        <4>3. window.max - t \notin Offsets => t = s \/ opened[t] = 0
          BY <3>0, <3>1 DEF NothingAboveMax, Windows, Offsets, Seqs
        <4> QED BY <4>1, <4>2, <4>3, <3>3, <3>0 DEF TypeOK
      <3> QED BY <3>4, <3>5, <3>6, <3>7
    <2>2. CASE ~Fresh(window, s)
      BY <1>3, <2>2 DEF OpenDamaged, TypeOK, WindowExact, NothingAboveMax,
                        OpenedAtMostOnce, Seqs, Results
    <2> QED BY <2>1, <2>2
  <1>4. CASE UNCHANGED vars
    BY <1>4 DEF vars, TypeOK, WindowExact, NothingAboveMax, OpenedAtMostOnce
  <1> QED BY <1>1, <1>2, <1>3, <1>4 DEF Next

\* The inductive invariant holds of every behaviour of the codec pair.
THEOREM Invariant == Spec => []IInv
  BY InitIInv, NextIInv, PTL DEF Spec

\* The codec state stays inside its types: no bit of the mask outside the
\* window, no sequence number outside its range.
THEOREM TypeCorrect == Spec => []TypeOK
  <1>1. IInv => TypeOK BY DEF IInv
  <1> QED BY <1>1, Invariant, PTL

\* Open returns the plaintext of a sequence number at most once, for every
\* window size: "duplicate sequence is rejected".
THEOREM AtMostOnceOpened == Spec => []OpenedAtMostOnce
  <1>1. IInv => OpenedAtMostOnce BY DEF IInv
  <1> QED BY <1>1, Invariant, PTL

\* Inside the window the mask says exactly which frames were returned.
THEOREM MaskExact == Spec => []WindowExact
  <1>1. IInv => WindowExact BY DEF IInv
  <1> QED BY <1>1, Invariant, PTL

\* Open refuses an authentic frame only if it returned it before or if the
\* frame is older than the window; damaged frames do not use up sequence
\* numbers (the purpose of Rollback).
THEOREM RefusalsJustified == Spec => []RefusedOnlyIfSeenOrOld
  <1>1. Init => RefusedOnlyIfSeenOrOld
    BY DEF Init, RefusedOnlyIfSeenOrOld
  <1>2. IInv /\ RefusedOnlyIfSeenOrOld /\ [Next]_vars => RefusedOnlyIfSeenOrOld'
    <2> SUFFICES ASSUME TypeOK, WindowExact, RefusedOnlyIfSeenOrOld, [Next]_vars
                 PROVE  RefusedOnlyIfSeenOrOld'
      BY DEF IInv
    <2>1. CASE Seal
      BY <2>1 DEF Seal, RefusedOnlyIfSeenOrOld
    <2>2. ASSUME NEW s \in Seqs, OpenGenuine(s) PROVE RefusedOnlyIfSeenOrOld'
      <3>1. CASE Fresh(window, s)
        BY <2>2, <3>1 DEF OpenGenuine, RefusedOnlyIfSeenOrOld
      <3>2. CASE ~Fresh(window, s)
        <4>1. window.max - s \in window.bits \/ window.max - s >= WindowSize
          BY <3>2 DEF Fresh, TypeOK, Windows, Seqs
        <4>2. opened[s] > 0 \/ window.max - s >= WindowSize
          BY <4>1, <3>2 DEF WindowExact, Fresh, TypeOK, Windows, Offsets, Seqs
        <4> QED BY <2>2, <3>2, <4>2 DEF OpenGenuine, RefusedOnlyIfSeenOrOld
      <3> QED BY <3>1, <3>2
    <2>3. ASSUME NEW s \in 0..MaxSeq, OpenDamaged(s)
          PROVE  RefusedOnlyIfSeenOrOld'
      BY <2>3 DEF OpenDamaged, RefusedOnlyIfSeenOrOld
    <2>4. CASE UNCHANGED vars
      BY <2>4 DEF vars, RefusedOnlyIfSeenOrOld
    <2> QED BY <2>1, <2>2, <2>3, <2>4 DEF Next
  <1> QED BY <1>1, <1>2, Invariant, PTL DEF Spec

\* The codec pair implements at-most-once delivery: Seal is the abstract
\* Seal, an Open that returns the plaintext is HandOver, every other call
\* leaves the abstract state alone.
THEOREM Refinement == Spec => ImplementsAtMostOnce
  <1>1. Init => Channel!Init
    BY DEF Init, Channel!Init
  <1>2. IInv /\ [Next]_vars => [Channel!Next]_(Channel!vars)
    <2> SUFFICES ASSUME TypeOK, WindowExact, NothingAboveMax, OpenedAtMostOnce,
                        [Next]_vars
                 PROVE  [Channel!Next]_(Channel!vars)
      BY DEF IInv
    <2>1. CASE Seal
      <3>1. nextSeq \in Seqs /\ nextSeq \notin 1..(nextSeq - 1)
        BY <2>1 DEF Seal, TypeOK, Seqs
      <3>2. 1..(nextSeq' - 1) = 1..(nextSeq - 1) \cup {nextSeq}
        BY <2>1 DEF Seal, TypeOK
      <3>3. Channel!Seal(nextSeq)
        BY <2>1, <3>1, <3>2 DEF Seal, Channel!Seal
      <3> QED BY <3>1, <3>3 DEF Channel!Next
    <2>2. ASSUME NEW s \in Seqs, OpenGenuine(s)
          PROVE  [Channel!Next]_(Channel!vars)
      <3>1. CASE Fresh(window, s)
        <4>1. opened[s] = 0
          BY <3>1, FreshIsUnopened
        <4>2. s \in 1..(nextSeq - 1)
          BY <2>2 DEF OpenGenuine, TypeOK, Seqs
        <4>3. opened' = [opened EXCEPT ![s] = 1] /\ nextSeq' = nextSeq
          BY <2>2, <3>1, <4>1 DEF OpenGenuine
        <4>4. Channel!HandOver(s)
          BY <4>1, <4>2, <4>3 DEF Channel!HandOver
        <4> QED BY <4>4 DEF Channel!Next
      <3>2. CASE ~Fresh(window, s)
        BY <2>2, <3>2 DEF OpenGenuine, Channel!vars
      <3> QED BY <3>1, <3>2
    <2>3. ASSUME NEW s \in 0..MaxSeq, OpenDamaged(s)
          PROVE  [Channel!Next]_(Channel!vars)
      BY <2>3 DEF OpenDamaged, Channel!vars
    <2>4. CASE UNCHANGED vars
      BY <2>4 DEF vars, Channel!vars
    <2> QED BY <2>1, <2>2, <2>3, <2>4 DEF Next
  <1> QED BY <1>1, <1>2, Invariant, PTL
          DEF Spec, ImplementsAtMostOnce, Channel!Spec
=============================================================================
