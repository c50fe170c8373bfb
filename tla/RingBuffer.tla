----------------------------- MODULE RingBuffer -----------------------------
(***************************************************************************)
(* RingBuffer<T> of dcc/src/RingBuffer.h: a std::list of at most MaxSize   *)
(* entries and an iterator to the entry the next insertion overwrites.     *)
(* The iterator entries.end() is the number END; it stays the end of the   *)
(* list when push_back makes the list longer.                              *)
(***************************************************************************)
EXTENDS Integers, Sequences, Functions

CONSTANTS Value,   \* T, the measurements
          MaxSize  \* maxSize

\* insert() asserts maxSize > 0.
ASSUME RingAssumption == MaxSize \in Nat \ {0}

VARIABLES entries, nextInsert

vars == <<entries, nextInsert>>

END == 0

TypeOK ==
  /\ entries \in Seq(Value)
  /\ nextInsert \in {END} \cup 1..MaxSize

-----------------------------------------------------------------------------
\* The constructor followed by reset(MaxSize).
Init ==
  /\ entries = << >>
  /\ nextInsert = END

\* Not yet full: the entry is appended and the iterator stays at the end.
Grow(o) ==
  /\ nextInsert = END
  /\ Len(entries) < MaxSize
  /\ entries' = Append(entries, o)
  /\ UNCHANGED nextInsert

\* The iterator, wrapped to the first entry when it is at the end.
Position == IF nextInsert = END THEN 1 ELSE nextInsert

\* Mutants of Overwrite: the iterator does not advance, or never wraps.
OverwriteInPlace(o) ==
  /\ nextInsert # END \/ Len(entries) >= MaxSize
  /\ entries' = [entries EXCEPT ![Position] = o]
  /\ nextInsert' = Position

OverwriteNoWrap(o) ==
  /\ nextInsert # END \/ Len(entries) >= MaxSize
  /\ entries' = [entries EXCEPT ![Position] = o]
  /\ nextInsert' = Position + 1

\* Full: the oldest entry is overwritten and the iterator advances.
Overwrite(o) ==
  /\ nextInsert # END \/ Len(entries) >= MaxSize
  /\ entries' = [entries EXCEPT ![Position] = o]
  /\ nextInsert' = IF Position = Len(entries) THEN END ELSE Position + 1

Insert(o) == Grow(o) \/ Overwrite(o)

Next == \E o \in Value : Insert(o)

Spec == Init /\ [][Next]_vars

-----------------------------------------------------------------------------
\* min() >= x and max() < x; the code's min() and max() are undefined on an
\* empty buffer.
AllAtLeast(x) == \A e \in Range(entries) : x <= e
AllBelow(x) == \A e \in Range(entries) : e < x

-----------------------------------------------------------------------------
\* The entries in the order of their insertion: from the iterator to the end,
\* then from the beginning to the iterator.
OldestFirst ==
  IF nextInsert = END
  THEN entries
  ELSE SubSeq(entries, nextInsert, Len(entries))
         \o SubSeq(entries, 1, nextInsert - 1)

\* The iterator leaves the end only in a full buffer, so an insertion never
\* overwrites an entry while there is room, and never writes past the list.
WrapsOnlyWhenFull ==
  /\ Len(entries) <= MaxSize
  /\ nextInsert # END => Len(entries) = MaxSize /\ nextInsert # 1

Window == INSTANCE SlidingWindow WITH window <- OldestFirst, Size <- MaxSize

\* The buffer always holds exactly the last MaxSize measurements: RingBuffer
\* implements the sliding window updateState relies on.
HoldsLastMeasurements == Window!Spec

=============================================================================
