-------------------------- MODULE ReadBufferProofs -------------------------
(***************************************************************************)
(* For every buffer size, every limit of the first read and every answer   *)
(* of OnRead, read_handler leaves room for the next read and shows OnRead  *)
(* a gapless suffix of the connection's bytes.                             *)
(***************************************************************************)
EXTENDS ReadBuffer, TLAPS

Inv == TypeOK /\ RoomToRead /\ Contiguous

LEMMA ClearedType == Cleared \in [Index -> Nat]
BY DEF Cleared

\* Transferring n bytes extends the kept bytes by the next n of the stream.
LEMMA FilledContiguous ==
    ASSUME Inv, NEW n \in 1 .. room
    PROVE  /\ Filled(n) \in [Index -> Nat]
           /\ offset + n \in 1 .. Size
           /\ \A i \in Index : i < offset + n => Filled(n)[i] = next - offset + i
<1> USE SizeAssumption DEF Inv, TypeOK, RoomToRead, Contiguous, Index
<1>1. offset + n \in 1 .. Size
  OBVIOUS
<1>2. ASSUME NEW i \in Index
      PROVE  /\ Filled(n)[i] = IF i \in offset .. offset + n - 1 THEN next + (i - offset)
                             ELSE buffer[i]
             /\ Filled(n)[i] \in Nat
  BY DEF Filled
<1>3. Filled(n) \in [Index -> Nat]
  BY <1>2 DEF Filled
<1>4. ASSUME NEW i \in Index, i < offset + n
      PROVE  Filled(n)[i] = next - offset + i
  BY <1>2, <1>4
<1> QED
  BY <1>1, <1>3, <1>4

\* Moving the rest to the front keeps its order.
LEMMA ShiftedContiguous ==
    ASSUME NEW b \in [Index -> Nat], NEW k \in Nat, NEW left \in Nat, k + left <= Size
    PROVE  /\ Shifted(b, k, left) \in [Index -> Nat]
           /\ \A i \in Index : i < left => Shifted(b, k, left)[i] = b[i + k]
BY SizeAssumption DEF Shifted, Index

LEMMA InitInv == Init => Inv
<1> SUFFICES ASSUME Init PROVE Inv
  OBVIOUS
<1>1. TypeOK
  BY SizeAssumption, ClearedType DEF Init, TypeOK
<1>2. RoomToRead
  BY SizeAssumption DEF Init, RoomToRead
<1>3. Contiguous
  BY DEF Init, Contiguous, Index
<1> QED
  BY <1>1, <1>2, <1>3 DEF Inv

\* The branches that empty the buffer.
LEMMA ClearStep ==
    ASSUME Inv, NEW n \in 1 .. Size,
           Reject(n) \/ ConsumeTransferred(n) \/ ClearFull(n)
    PROVE  Inv'
<1>1. /\ n \in 1 .. room /\ next' = next + n /\ first' = first
      /\ buffer' = Cleared /\ offset' = 0 /\ room' = Size
      /\ consumed' \in {consumed, consumed + n}
      /\ discarded' \in {discarded, discarded + offset + n, discarded + Size}
  BY SizeAssumption DEF Reject, ConsumeTransferred, ClearFull, Arrive, ReadOn
<1>2. n \in Nat \ {0} /\ first <= next /\ consumed' \in Nat /\ discarded' \in Nat
  BY <1>1, SizeAssumption DEF Inv, TypeOK, Contiguous
<1>3. TypeOK'
  BY <1>1, <1>2, SizeAssumption, ClearedType DEF Inv, TypeOK
<1>4. RoomToRead'
  BY <1>1, SizeAssumption DEF RoomToRead
<1>5. Contiguous'
  BY <1>1, <1>2 DEF Inv, TypeOK, Contiguous, Index
<1> QED
  BY <1>3, <1>4, <1>5 DEF Inv

\* The branch that keeps what OnRead did not consume.
LEMMA KeepStep ==
    ASSUME Inv, NEW n \in 1 .. Size, NEW k \in 0 .. Size, KeepRest(n, k)
    PROVE  Inv'
<1> DEFINE left == offset + n - k
<1>1. /\ n \in 1 .. room /\ next' = next + n /\ first' = first
      /\ k \in 0 .. offset + n /\ left < Size
      /\ offset' = left /\ room' = Size - left
      /\ consumed' = consumed + k /\ discarded' = discarded
      /\ buffer' = IF k > 0 THEN Shifted(Filled(n), k, left) ELSE Filled(n)
  BY DEF KeepRest, Arrive, ReadOn
<1>2. /\ Filled(n) \in [Index -> Nat] /\ offset + n \in 1 .. Size
      /\ \A i \in Index : i < offset + n => Filled(n)[i] = next - offset + i
  BY <1>1, FilledContiguous
<1>3. left \in Nat /\ k \in Nat /\ k + left <= Size /\ offset \in Nat /\ next \in Nat
  BY <1>1, <1>2, SizeAssumption DEF Inv, TypeOK
<1>4. /\ buffer' \in [Index -> Nat]
      /\ \A i \in Index : i < left => buffer'[i] = Filled(n)[i + k]
  <2>1. CASE k > 0
    <3> HIDE DEF left
    <3> QED
      BY <1>1, <1>2, <1>3, <2>1, ShiftedContiguous
  <2>2. CASE k = 0
    BY <1>1, <1>2, <2>2 DEF Index
  <2> QED
    BY <1>3, <2>1, <2>2
<1>5. ASSUME NEW i \in Index, i < left
      PROVE  buffer'[i] = next' - offset' + i
  <2>1. i + k \in Index /\ i + k < offset + n
    BY <1>2, <1>3, <1>5, SizeAssumption DEF Index
  <2>2. buffer'[i] = next - offset + (i + k)
    BY <1>2, <1>4, <1>5, <2>1
  <2> QED
    BY <1>1, <1>3, <2>2 DEF Index
<1>6. first' <= next' - offset'
  BY <1>1, <1>3 DEF Inv, TypeOK, Contiguous
<1>7. TypeOK' /\ RoomToRead'
  BY <1>1, <1>3, <1>4, SizeAssumption DEF Inv, TypeOK, RoomToRead
<1> QED
  BY <1>1, <1>5, <1>6, <1>7 DEF Inv, Contiguous

\* A new connection starts with nothing kept.
LEMMA BeginStep == Inv /\ BeginNewAsyncRead => Inv'
<1> SUFFICES ASSUME Inv, BeginNewAsyncRead PROVE Inv'
  OBVIOUS
<1>1. TypeOK'
  BY SizeAssumption DEF Inv, TypeOK, BeginNewAsyncRead
<1>2. RoomToRead'
  BY SizeAssumption DEF RoomToRead, BeginNewAsyncRead
<1>3. Contiguous'
  BY DEF Inv, TypeOK, Contiguous, BeginNewAsyncRead, Index
<1> QED
  BY <1>1, <1>2, <1>3 DEF Inv

LEMMA InvStep == Inv /\ [Next]_vars => Inv'
<1> SUFFICES ASSUME Inv, [Next]_vars PROVE Inv'
  OBVIOUS
<1>1. CASE UNCHANGED vars
  BY <1>1 DEF vars, Inv, TypeOK, RoomToRead, Contiguous
<1>2. CASE Next
  BY <1>2, ClearStep, KeepStep, BeginStep DEF Next
<1> QED
  BY <1>1, <1>2

\* The assertions of read_handler (there is room, no read past the end) and the
\* gapless view of OnRead hold in every behaviour, for every Size and FirstRead.
THEOREM BufferCorrect == Spec => [](TypeOK /\ RoomToRead /\ Contiguous)
<1>1. Init => Inv
  BY InitInv
<1>2. Inv /\ [Next]_vars => Inv'
  BY InvStep
<1>3. Inv => TypeOK /\ RoomToRead /\ Contiguous
  BY DEF Inv
<1> QED
  BY <1>1, <1>2, <1>3, PTL DEF Spec

\* Every variable of the buffer keeps its type, whatever OnRead answers.
THEOREM TypeCorrect == Spec => []TypeOK
BY BufferCorrect, PTL

\* The assertions of read_handler hold: the next read always has room and never
\* writes past the end of m_buffer.
THEOREM AlwaysRoom == Spec => []RoomToRead
BY BufferCorrect, PTL
=============================================================================
