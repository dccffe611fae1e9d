----------------------------- MODULE ReadBuffer ----------------------------
(***************************************************************************)
(* The receive buffer of BasicConnection (read_handler, BeginNewAsyncRead):*)
(* a read appends to the bytes left over from earlier reads, OnRead says   *)
(* how many of them it consumed, and the rest is moved to the front before *)
(* the next read.  A byte is its position in the stream of bytes received, *)
(* counted from 1 over all connections; 0 is a byte nobody received.       *)
(***************************************************************************)
EXTENDS Integers

CONSTANTS
    Size,       \* m_buffer.size(): the largest message, at least 1
    FirstRead,  \* the most the first read of a connection asks for (100)
    MaxBytes    \* bound: bytes received

ASSUME SizeAssumption == Size \in Nat \ {0} /\ FirstRead \in Nat \ {0}
ASSUME BytesAssumption == MaxBytes \in Nat

VARIABLES
    buffer,    \* m_buffer
    offset,    \* nOffset of the read outstanding: bytes kept from earlier reads
    room,      \* the most bytes that read may transfer
    next,      \* history: position of the next byte to arrive
    first,     \* history: position of the connection's first byte
    consumed,  \* history: bytes consumed by OnRead
    discarded  \* history: bytes discarded as the comments say: OnRead rejected
               \* them or left the buffer full, or their connection was lost

vars == <<buffer, offset, room, next, first, consumed, discarded>>

Index == 0 .. Size - 1

\* m_buffer.clear() and resize(GetMaxMessageSize()).
Cleared == [i \in Index |-> 0]

\* The buffer when n bytes have been transferred to offset.
Filled(n) ==
    [i \in Index |-> IF i \in offset .. offset + n - 1 THEN next + (i - offset) ELSE buffer[i]]

\* Mutant: the first `left` bytes stay where they are.
Shifted_NotMoved(b, k, left) == b

\* m_buffer.replace(0, left, m_buffer, k, left)
Shifted(b, k, left) == [i \in Index |-> IF i < left THEN b[i + k] ELSE b[i]]

\* Mutant: the last byte kept is read over.
ReadOn_OffByOne(b, kept) ==
    /\ buffer' = b
    /\ offset' = kept - 1
    /\ room' = Size - kept

\* async_read_some into what is free behind the first `kept` bytes of b.
ReadOn(b, kept) ==
    /\ buffer' = b
    /\ offset' = kept
    /\ room' = Size - kept

Init ==
    /\ buffer = Cleared
    /\ offset = 0
    /\ room = IF Size < FirstRead THEN Size ELSE FirstRead
    /\ next = 1 /\ first = 1
    /\ consumed = 0 /\ discarded = 0

-----------------------------------------------------------------------------
(* read_handler, when n bytes have arrived: one action per branch *)

Arrive(n) ==
    /\ n \in 1 .. room /\ next + n <= MaxBytes + 1
    /\ next' = next + n
    /\ UNCHANGED first

\* OnRead returned false, or claims more bytes than there are.
Reject(n) ==
    /\ Arrive(n)
    /\ ReadOn(Cleared, 0)
    /\ discarded' = discarded + offset + n
    /\ UNCHANGED consumed

\* As many bytes were consumed as this read transferred: nothing is kept.
ConsumeTransferred(n) ==
    /\ Arrive(n)
    /\ ReadOn(Cleared, 0)
    /\ consumed' = consumed + n
    /\ UNCHANGED discarded

\* Mutant: a full buffer is kept like any other remainder.
ClearFull_Kept(n) ==
    /\ Arrive(n) /\ offset + n = Size
    /\ ReadOn(Filled(n), Size)
    /\ UNCHANGED <<consumed, discarded>>

\* Nothing was consumed and the buffer is full: start over.
ClearFull(n) ==
    /\ Arrive(n) /\ offset + n = Size
    /\ ReadOn(Cleared, 0)
    /\ discarded' = discarded + Size
    /\ UNCHANGED consumed

\* k bytes were consumed, the others move to the front.
KeepRest(n, k) ==
    /\ Arrive(n)
    /\ k \in 0 .. offset + n /\ k # n /\ offset + n - k < Size
    /\ ReadOn(IF k > 0 THEN Shifted(Filled(n), k, offset + n - k) ELSE Filled(n), offset + n - k)
    /\ consumed' = consumed + k
    /\ UNCHANGED discarded

\* The connection is lost and made again: its first read starts at the front.
BeginNewAsyncRead ==
    /\ first' = next
    /\ discarded' = discarded + offset
    /\ offset' = 0
    /\ room' = IF Size < FirstRead THEN Size ELSE FirstRead
    /\ UNCHANGED <<buffer, next, consumed>>

Next ==
    \/ \E n \in 1 .. Size : Reject(n)
    \/ \E n \in 1 .. Size : ConsumeTransferred(n)
    \/ \E n \in 1 .. Size : ClearFull(n)
    \/ \E n \in 1 .. Size, k \in 0 .. Size : KeepRest(n, k)
    \/ BeginNewAsyncRead

Spec == Init /\ [][Next]_vars

-----------------------------------------------------------------------------
(* Properties *)

\* Every variable keeps its type.
TypeOK ==
    /\ buffer \in [Index -> Nat]
    /\ offset \in Nat /\ room \in Int
    /\ next \in Nat \ {0} /\ first \in Nat \ {0}
    /\ consumed \in Nat /\ discarded \in Nat

\* The next read always has room and never writes past the end: the assertions
\* of read_handler hold for every sequence of OnRead's answers.
RoomToRead == room > 0 /\ offset + room <= Size

\* What OnRead is shown is the most recent bytes of the connection, in order,
\* with none missing, none repeated and none of an earlier connection.
Contiguous ==
    /\ first <= next - offset
    /\ \A i \in Index : i < offset => buffer[i] = next - offset + i

\* BasicConnection.h:701 says of the branch that empties the buffer "All data
\* was consumed on the read": every byte received has been consumed, was
\* discarded for a stated reason, or is still kept.
AllAccounted == next = 1 + consumed + discarded + offset
=============================================================================
