-------------------------- MODULE RingBuffer_proofs --------------------------
(***************************************************************************)
(* For every set of values and every size: the ring buffer of the DCC is   *)
(* type correct and implements the sliding window of its last MaxSize      *)
(* insertions.                                                             *)
(***************************************************************************)
EXTENDS RingBuffer, SequenceTheorems, TLAPS

IInv == TypeOK /\ WrapsOnlyWhenFull

-----------------------------------------------------------------------------
LEMMA InitIInv == Init => IInv
  BY RingAssumption, EmptySeq DEF Init, IInv, TypeOK, WrapsOnlyWhenFull, END

LEMMA NextIInv == IInv /\ [Next]_vars => IInv'
<1> SUFFICES ASSUME IInv, [Next]_vars PROVE IInv'
  OBVIOUS
<1> USE RingAssumption DEF IInv, TypeOK, WrapsOnlyWhenFull, END
<1>1. ASSUME NEW o \in Value, Grow(o) PROVE IInv'
  BY <1>1, AppendProperties DEF Grow
<1>2. ASSUME NEW o \in Value, Overwrite(o) PROVE IInv'
  <2>1. Position \in 1..Len(entries) /\ Len(entries) = MaxSize
    BY <1>2 DEF Overwrite, Position
  <2>2. entries' \in Seq(Value) /\ Len(entries') = Len(entries)
    BY <1>2, <2>1, ExceptSeq DEF Overwrite
  <2>3. QED
    BY <1>2, <2>1, <2>2 DEF Overwrite
<1>3. CASE UNCHANGED vars
  BY <1>3 DEF vars
<1>4. QED
  BY <1>1, <1>2, <1>3 DEF Next, Insert

\* The iterator and the list stay well formed for every size: no insertion
\* runs past maxSize or leaves the iterator outside the list (RingBuffer.h).
THEOREM RingWellFormed == Spec => [](TypeOK /\ WrapsOnlyWhenFull)
<1>1. IInv => TypeOK /\ WrapsOnlyWhenFull
  BY DEF IInv
<1>2. QED
  BY InitIInv, NextIInv, <1>1, PTL DEF Spec

-----------------------------------------------------------------------------
\* The list e read from position n on, and the index in e of its i-th element.
Rotated(e, n) ==
  IF n = END THEN e ELSE SubSeq(e, n, Len(e)) \o SubSeq(e, 1, n - 1)

Slot(e, n, i) ==
  IF n = END THEN i
  ELSE IF i <= Len(e) - n + 1 THEN n + i - 1
  ELSE i - (Len(e) - n + 1)

LEMMA RotatedElements ==
  ASSUME NEW e \in Seq(Value), NEW n \in {END} \cup 2..Len(e)
  PROVE  /\ Rotated(e, n) \in Seq(Value)
         /\ Len(Rotated(e, n)) = Len(e)
         /\ \A i \in 1..Len(e) : Rotated(e, n)[i] = e[Slot(e, n, i)]
<1>1. CASE n = END
  BY <1>1 DEF Rotated, Slot
<1>2. CASE n # END
  <2> DEFINE L == Len(e)
             old == SubSeq(e, n, L)
             new == SubSeq(e, 1, n - 1)
  <2>0. L \in Nat /\ n \in 2..L /\ \A i \in 1..L : e[i] \in Value
    BY <1>2
  <2>1. /\ old \in Seq(Value) /\ Len(old) = L - n + 1
        /\ \A i \in 1..L - n + 1 : old[i] = e[n + i - 1]
    BY <2>0, SubSeqProperties
  <2>2. /\ new \in Seq(Value) /\ Len(new) = n - 1
        /\ \A i \in 1..n - 1 : new[i] = e[i]
    BY <2>0, SubSeqProperties
  <2>3. Rotated(e, n) = old \o new
    BY <1>2 DEF Rotated
  <2> HIDE DEF old, new
  <2>4. /\ old \o new \in Seq(Value)
        /\ Len(old \o new) = L
        /\ \A i \in 1..L : (old \o new)[i] =
              IF i <= Len(old) THEN old[i] ELSE new[i - Len(old)]
    BY <2>0, <2>1, <2>2, ConcatProperties
  <2>5. ASSUME NEW i \in 1..L PROVE (old \o new)[i] = e[Slot(e, n, i)]
    BY <1>2, <2>0, <2>1, <2>2, <2>4 DEF Slot
  <2>6. QED
    BY <2>3, <2>4, <2>5
<1>3. QED
  BY <1>1, <1>2

LEMMA InitWindow == Init => Window!Init
  BY DEF Init, Window!Init, OldestFirst, END

\* Appending to a buffer that is not full appends to the window.
LEMMA GrowRecords ==
  ASSUME IInv, NEW o \in Value, Grow(o)
  PROVE  Window!Record(o)
<1>1. OldestFirst = entries /\ OldestFirst' = entries'
  BY DEF Grow, OldestFirst
<1>2. QED
  BY <1>1 DEF Grow, Window!Record

\* Overwriting the oldest entry of a full buffer drops it from the window and
\* appends the new one.
LEMMA OverwriteRecords ==
  ASSUME IInv, NEW o \in Value, Overwrite(o)
  PROVE  Window!Record(o)
<1> DEFINE L == Len(entries)
           w == Rotated(entries, nextInsert)
           v == Rotated(entries', nextInsert')
           t == Append(Tail(w), o)
<1>1. /\ L = MaxSize /\ L \in Nat \ {0}
      /\ Position \in 1..L /\ nextInsert \in {END} \cup 2..L
      /\ entries \in Seq(Value)
  BY RingAssumption DEF Overwrite, IInv, TypeOK, WrapsOnlyWhenFull, Position, END
<1>2. /\ entries' \in Seq(Value) /\ Len(entries') = L
      /\ \A j \in 1..L : entries'[j] = IF j = Position THEN o ELSE entries[j]
      /\ nextInsert' = IF Position = L THEN END ELSE Position + 1
  BY <1>1, ExceptSeq DEF Overwrite
<1>3. /\ w \in Seq(Value) /\ Len(w) = L
      /\ \A i \in 1..L : w[i] = entries[Slot(entries, nextInsert, i)]
  BY <1>1, RotatedElements
<1>4. /\ v \in Seq(Value) /\ Len(v) = L
      /\ \A i \in 1..L : v[i] = entries'[Slot(entries', nextInsert', i)]
  <2>1. nextInsert' \in {END} \cup 2..Len(entries')
    BY <1>1, <1>2
  <2>2. QED
    BY <1>2, <2>1, RotatedElements
<1>5. w = OldestFirst /\ v = OldestFirst'
  BY DEF Rotated, OldestFirst
<1> HIDE DEF w, v
<1>6. /\ Tail(w) \in Seq(Value) /\ Len(Tail(w)) = L - 1
      /\ \A i \in 1..L - 1 : Tail(w)[i] = w[i + 1]
  BY <1>1, <1>3, HeadTailProperties
<1> HIDE DEF L
<1>7. /\ t \in Seq(Value) /\ Len(t) = L
      /\ \A i \in 1..L : t[i] = IF i < L THEN w[i + 1] ELSE o
  BY <1>1, <1>6, AppendProperties
<1> HIDE DEF t
<1>8. ASSUME NEW i \in 1..L PROVE v[i] = t[i]
  <2> DEFINE s == Slot(entries', nextInsert', i)
  <2>1. CASE i = L
    <3>1. s = Position
      BY <1>1, <1>2, <2>1 DEF Slot, Position, END
    <3>2. QED
      BY <1>1, <1>2, <1>4, <1>7, <2>1, <3>1
  <2>2. CASE i < L
    <3>1. s = Slot(entries, nextInsert, i + 1) /\ s \in 1..L /\ s # Position
      BY <1>1, <1>2, <2>2 DEF Slot, Position, END, L
    <3>2. i + 1 \in 1..L
      BY <1>1, <2>2
    <3>3. QED
      BY <1>2, <1>3, <1>4, <1>7, <2>2, <3>1, <3>2
  <2>3. i = L \/ i < L
    BY <1>1
  <2>4. QED
    BY <2>1, <2>2, <2>3
<1>9. v = t
  BY <1>4, <1>7, <1>8, SeqEqual
<1>10. QED
  BY <1>1, <1>3, <1>5, <1>9 DEF Window!Record, t

\* RingBuffer implements the sliding window: minimum and maximum that
\* DCC::updateState takes range over exactly the last MaxSize measurements.
THEOREM RingImplementsWindow == Spec => HoldsLastMeasurements
<1>1. IInv /\ [Next]_vars => [Window!Next]_OldestFirst
  <2> SUFFICES ASSUME IInv, [Next]_vars
               PROVE  [Window!Next]_OldestFirst
    OBVIOUS
  <2>1. CASE UNCHANGED vars
    BY <2>1 DEF vars, OldestFirst
  <2>2. ASSUME NEW o \in Value, Insert(o) PROVE Window!Next
    BY <2>2, GrowRecords, OverwriteRecords DEF Insert, Window!Next
  <2>3. QED
    BY <2>1, <2>2 DEF Next
<1>2. QED
  BY InitIInv, NextIInv, InitWindow, <1>1, PTL
  DEF Spec, HoldsLastMeasurements, Window!Spec

=============================================================================
