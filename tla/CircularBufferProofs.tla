------------------------ MODULE CircularBufferProofs ------------------------
(***************************************************************************)
(* Proofs about circular_buffer.c, for every Size and every set of octets: *)
(* the indices stay in range, the full flag is truthful, and the ring      *)
(* implements the queue of module Fifo.                                    *)
(***************************************************************************)
EXTENDS CircularBuffer, SequenceTheorems, TLAPS

\* The inductive invariant: types, and the truth of the full flag.
IInv == TypeOK /\ FullOnlyWhenIndicesMeet

\* Moving an index on by one slot keeps it inside the ring (the modulo of
\* circular_buffer.c:24,37).
LEMMA AdvanceType == \A s \in Slots : Advance(s) \in Slots
BY SizeAssumption DEF Advance, Slots

\* A ring just initialised has its indices in range and its flag down
\* (circular_buffer.c:9-14).
LEMMA InitIInv == Init => IInv
<1>1. 0 \in Slots
  BY SizeAssumption DEF Slots
<1>. QED
  BY <1>1 DEF Init, IInv, TypeOK, FullOnlyWhenIndicesMeet

\* Writes and reads keep the indices in range and the flag truthful.
LEMMA NextIInv == IInv /\ [Next]_vars => IInv'
<1> SUFFICES ASSUME IInv, [Next]_vars PROVE IInv'
  OBVIOUS
<1> USE DEF IInv, TypeOK, FullOnlyWhenIndicesMeet
<1>1. CASE Read
  <2>1. tail' \in Slots
    BY <1>1, AdvanceType DEF Read
  <2>2. result' \in Octets
    BY <1>1 DEF Read
  <2>. QED
    BY <1>1, <2>1, <2>2 DEF Read
<1>2. ASSUME NEW d \in Octets, Write(d)
      PROVE  IInv'
  <2>1. head' \in Slots
    BY <1>2, AdvanceType DEF Write
  <2>2. data' \in [Slots -> Octets]
    BY <1>2 DEF Write
  <2>. QED
    BY <1>2, <2>1, <2>2 DEF Write
<1>3. CASE UNCHANGED vars
  BY <1>3 DEF vars
<1>. QED
  BY <1>1, <1>2, <1>3 DEF Next

\* The indices never leave the ring and every slot keeps an octet, whatever
\* the order of writes and reads, full and empty uses included.
THEOREM TypeCorrect == Spec => []TypeOK
<1>1. IInv => TypeOK
  BY DEF IInv
<1>. QED
  BY <1>1, InitIInv, NextIInv, PTL DEF Spec

\* The full flag is only up when head and tail meet
\* (circular_buffer.c:26,38), so Count never overstates the contents.
THEOREM FullFlagTruthful == Spec => []FullOnlyWhenIndicesMeet
<1>1. IInv => FullOnlyWhenIndicesMeet
  BY DEF IInv
<1>. QED
  BY <1>1, InitIInv, NextIInv, PTL DEF Spec

-----------------------------------------------------------------------------
(* The refinement: what each operation does to the contents.               *)

\* A function on 1..n is a sequence of length n.
LEMMA FunctionIsSequence ==
  ASSUME NEW S, NEW n \in Nat, NEW s \in [1..n -> S]
  PROVE  s \in Seq(S) /\ Len(s) = n
OBVIOUS

\* The contents are a sequence of octets, read from slots of the ring, and
\* their length is what nimbleServerCircularBufferCount returns.
ContentsOK ==
  /\ Count \in 0..Size
  /\ \A i \in 1..Count : SlotOf(i) \in Slots
  /\ Contents \in Seq(Octets)
  /\ Len(Contents) = Count
  /\ \A i \in 1..Count : Contents[i] = data[SlotOf(i)]

\* The contents are a sequence as long as nimbleServerCircularBufferCount
\* says (circular_buffer.c:53-64).
LEMMA ContentsType == IInv => ContentsOK
<1> SUFFICES ASSUME IInv PROVE ContentsOK
  OBVIOUS
<1>1. Count \in 0..Size /\ \A i \in 1..Count : SlotOf(i) \in Slots
  BY SizeAssumption
     DEF IInv, TypeOK, FullOnlyWhenIndicesMeet, Count, SlotOf, Slots
<1>2. Contents \in [1..Count -> Octets]
  BY <1>1 DEF Contents, IInv, TypeOK
<1>3. Count \in Nat
  BY <1>1, SizeAssumption
<1>4. Contents \in Seq(Octets) /\ Len(Contents) = Count
  BY <1>2, <1>3, FunctionIsSequence
<1>. QED
  BY <1>1, <1>4 DEF Contents, ContentsOK

\* A write with room appends; a write to a full ring leaves only its octet.
LEMMA WriteRefines ==
  ASSUME IInv, IInv', NEW d \in Octets, Write(d)
  PROVE  F!Write(d)
<1>0. ContentsOK
  BY ContentsType
<1>1. ContentsOK'
  BY ContentsType, PTL
<1> USE SizeAssumption
    DEF IInv, TypeOK, FullOnlyWhenIndicesMeet, Slots
<1>h. head' = Advance(head) /\ tail' = tail
  BY DEF Write
<1>f. isFull' <=> head' = tail
  BY Zenon DEF Write
<1>2. CASE isFull
  <2>1. Count = Size /\ Count' = 1 /\ SlotOf(1)' = head
    BY <1>h, <1>f, <1>2 DEF Count, SlotOf, Advance
  <2>2. Contents'[1] = d
    BY <1>1, <2>1 DEF Write, ContentsOK
  <2>3. <<d>> \in Seq(Octets) /\ Len(<<d>>) = 1 /\ <<d>>[1] = d
    OBVIOUS
  <2>4. Contents' = <<d>>
    BY <1>1, <2>1, <2>2, <2>3, SeqEqual DEF ContentsOK
  <2>. QED
    BY <1>0, <2>1, <2>4 DEF Write, F!Write, ContentsOK
<1>3. CASE ~isFull
  <2>1. Count < Size /\ Count' = Count + 1
    BY <1>h, <1>f, <1>3 DEF Count, Advance
  <2>2. \A i \in 1..Count' : i = Count + 1 => SlotOf(i)' = head
    BY <1>h, <1>3 DEF Count, SlotOf
  <2>3. \A i \in 1..Count : SlotOf(i)' = SlotOf(i) /\ SlotOf(i) # head
    BY <1>h, <1>3 DEF Count, SlotOf
  <2>4. /\ Append(Contents, d) \in Seq(Octets)
        /\ Len(Append(Contents, d)) = Count + 1
        /\ \A i \in 1..Count : Append(Contents, d)[i] = Contents[i]
        /\ Append(Contents, d)[Count + 1] = d
    BY <1>0, AppendProperties DEF ContentsOK
  <2>5. \A i \in 1..Count' : Contents'[i] = Append(Contents, d)[i]
    <3> SUFFICES ASSUME NEW i \in 1..Count'
                 PROVE  Contents'[i] = Append(Contents, d)[i]
      OBVIOUS
    <3>1. CASE i = Count + 1
      <4>1. SlotOf(i)' = head
        BY <2>2, <3>1
      <4>2. Contents'[i] = d
        BY <1>1, <4>1 DEF Write, ContentsOK
      <4>. QED
        BY <2>4, <3>1, <4>2
    <3>2. CASE i # Count + 1
      <4>1. i \in 1..Count
        BY <1>0, <2>1, <3>2 DEF ContentsOK
      <4>2. SlotOf(i)' = SlotOf(i) /\ SlotOf(i) # head /\ SlotOf(i) \in Slots
        BY <1>0, <2>3, <4>1 DEF ContentsOK
      <4>3. data'[SlotOf(i)'] = data[SlotOf(i)]
        BY <4>2 DEF Write
      <4>. QED
        BY <1>0, <1>1, <2>1, <2>4, <4>1, <4>3 DEF ContentsOK
    <3>. QED
      BY <3>1, <3>2
  <2>6. Contents' = Append(Contents, d)
    BY <1>1, <2>1, <2>4, <2>5, SeqEqual DEF ContentsOK
  <2>. QED
    BY <1>0, <2>1, <2>6 DEF Write, F!Write, ContentsOK
<1>. QED
  BY <1>2, <1>3

\* A read takes the oldest octet; on an empty ring it leaves Size - 1 stale
\* ones.
LEMMA ReadRefines ==
  ASSUME IInv, IInv', Read
  PROVE  F!Read
<1>0. ContentsOK
  BY ContentsType
<1>1. ContentsOK'
  BY ContentsType, PTL
<1> USE SizeAssumption
    DEF IInv, TypeOK, FullOnlyWhenIndicesMeet, Slots
<1>2. CASE Count = 0
  <2>1. Count' = Size - 1
    BY <1>2 DEF Read, Count, Advance
  <2>2. Contents' \in [1..(Size - 1) -> Octets]
    BY <1>1, <2>1 DEF ContentsOK
  <2>3. Contents = << >>
    BY <1>0, <1>2 DEF ContentsOK
  <2>. QED
    BY <2>2, <2>3 DEF F!Read
<1>3. CASE Count # 0
  <2>1. Count' = Count - 1 /\ SlotOf(1) = tail
    BY <1>3 DEF Read, Count, Advance, SlotOf
  <2>2. \A i \in 1..Count' : SlotOf(i)' = SlotOf(i + 1)
    BY <1>3, <2>1 DEF Read, Count, Advance, SlotOf
  <2>3. Contents # << >>
    BY <1>0, <1>3 DEF ContentsOK
  <2>4. /\ Tail(Contents) \in Seq(Octets) /\ Len(Tail(Contents)) = Count - 1
        /\ \A i \in 1..(Count - 1) : Tail(Contents)[i] = Contents[i + 1]
    BY <1>0, <2>3, HeadTailProperties DEF ContentsOK
  <2>5. \A i \in 1..Count' : Contents'[i] = Tail(Contents)[i]
    <3> SUFFICES ASSUME NEW i \in 1..Count'
                 PROVE  Contents'[i] = Tail(Contents)[i]
      OBVIOUS
    <3>1. i \in 1..(Count - 1) /\ i + 1 \in 1..Count
      BY <1>0, <2>1 DEF ContentsOK
    <3>2. data'[SlotOf(i)'] = data[SlotOf(i + 1)]
      BY <2>2 DEF Read
    <3>. QED
      BY <1>0, <1>1, <2>4, <3>1, <3>2 DEF ContentsOK
  <2>6. Contents' = Tail(Contents)
    BY <1>1, <2>1, <2>4, <2>5, SeqEqual DEF ContentsOK
  <2>7. result' = Head(Contents)
    BY <1>0, <1>3, <2>1, <2>3 DEF Read, ContentsOK
  <2>. QED
    BY <2>3, <2>6, <2>7 DEF F!Read
<1>. QED
  BY <1>2, <1>3

\* The ring of circular_buffer.c implements the queue of module Fifo, for
\* every size and through every wrap of its indices.
THEOREM RingIsFifo == Spec => ImplementsFifo
<1>1. Init => F!Init
  <2> SUFFICES ASSUME Init PROVE F!Init
    OBVIOUS
  <2>1. Count = 0
    BY DEF Init, Count
  <2>2. Contents = << >>
    BY <2>1, InitIInv, ContentsType DEF ContentsOK
  <2>. QED
    BY <2>2 DEF Init, F!Init
<1>2. IInv /\ IInv' /\ [Next]_vars => [F!Next]_(F!vars)
  <2> SUFFICES ASSUME IInv, IInv', [Next]_vars
               PROVE  F!Next \/ UNCHANGED F!vars
    OBVIOUS
  <2>1. CASE Read
    BY <2>1, ReadRefines DEF F!Next
  <2>2. ASSUME NEW d \in Octets, Write(d)
        PROVE  F!Next
    BY <2>2, WriteRefines DEF F!Next
  <2>3. CASE UNCHANGED vars
    <3>1. Contents' = Contents
      BY <2>3 DEF vars, Contents, Count, SlotOf
    <3>. QED
      BY <2>3, <3>1 DEF vars, F!vars
  <2>. QED
    BY <2>1, <2>2, <2>3 DEF Next
<1>. QED
  BY <1>1, <1>2, InitIInv, NextIInv, PTL DEF Spec, ImplementsFifo, F!Spec
=============================================================================
