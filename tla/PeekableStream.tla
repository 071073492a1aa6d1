--------------------------- MODULE PeekableStream ---------------------------
(***************************************************************************)
(* peekable_stream (thrift_serdes.hh, thrift_serdes.cc): a buffer before   *)
(* an input_stream that keeps what was peeked contiguous.  A peek that the *)
(* buffer cannot answer makes room (rewinding the buffer, or moving to a   *)
(* larger one) and then reads from the source, which hands out what it has *)
(* in pieces of any size.  One operation runs at a time.                   *)
(***************************************************************************)
EXTENDS Integers

CONSTANTS
    Length,       \* bytes in the source: 1, 2, ..., Length
    MaxPeek,      \* bound: the longest peek
    BufferSizes   \* sizes a buffer can have: powers of two

ASSUME LengthAssumption == Length \in Nat /\ MaxPeek \in Nat \ {0}

(* Every request there is has a power of two less than twice as large.     *)
ASSUME SizesAssumption ==
    /\ BufferSizes \subseteq Nat
    /\ \A n \in 1..(4 * MaxPeek) : \E p \in BufferSizes : n <= p /\ p < 2 * n

VARIABLES
    position,  \* bytes the source has handed out or skipped
    buffer,    \* the bytes in _buffer, 0 where nothing was written
    size,      \* _buffer.size()
    start,     \* _buffer_start
    end,       \* _buffer_end
    wanted,    \* the argument of the peek under way, 0 if there is none
    needed,    \* what read_exactly has still to read
    view,      \* the last peek's view into the buffer, while it is used
    moved      \* history: how often each byte was rewound

vars == <<position, buffer, size, start, end, wanted, needed, view, moved>>

Active   == end - start
Consumed == position - Active

NoView == [at |-> 0, len |-> 0]

Init ==
    /\ position = 0
    /\ buffer = [i \in {} |-> 0]
    /\ size = 0
    /\ start = 0
    /\ end = 0
    /\ wanted = 0
    /\ needed = 0
    /\ view = NoView
    /\ moved = [b \in 1..Length |-> 0]

-----------------------------------------------------------------------------
(* buffer's constructor rounds the size up to a power of two.              *)
NextPowerOf2(n) == CHOOSE p \in BufferSizes : n <= p /\ p < 2 * n

(* Fault: the buffer is rewound as soon as there is room.                  *)
CanRewindAlways(n) == size > n + Active

(* ensure_space: bytes are rewound only from the second half of the buffer.*)
CanRewind(n) == size > n + Active /\ start > size \div 2

HasSpace(n) == size - end >= n

(* Fault: the indices change and the bytes do not move.                    *)
MovedDownNot(i) == buffer[i]

(* The bytes not consumed move to the front.                               *)
MovedDown(i) == IF i < Active THEN buffer[start + i] ELSE buffer[i]

Rewind ==
    /\ buffer' = [i \in 0..(size - 1) |-> MovedDown(i)]
    /\ moved' = [b \in 1..Length |->
                    IF Consumed < b /\ b <= position THEN moved[b] + 1
                                                     ELSE moved[b]]
    /\ start' = 0
    /\ end' = Active
    /\ UNCHANGED size

(* Fault: room for what is needed, not for what is kept.                   *)
ReallocateNeeded(n) ==
    LET capacity == NextPowerOf2(n)
    IN  /\ size' = capacity
        /\ buffer' = [i \in 0..(capacity - 1) |->
                         IF i < Active /\ start + i < size
                         THEN buffer[start + i] ELSE 0]
        /\ start' = 0
        /\ end' = Active
        /\ UNCHANGED moved

(* Fault: a growth factor on top of the rounding.                          *)
ReallocateDouble(n) ==
    LET capacity == NextPowerOf2(2 * (end + n))
    IN  /\ size' = capacity
        /\ buffer' = [i \in 0..(capacity - 1) |->
                         IF i < Active THEN buffer[start + i] ELSE 0]
        /\ start' = 0
        /\ end' = Active
        /\ UNCHANGED moved

Reallocate(n) ==
    LET capacity == NextPowerOf2(end + n)
    IN  /\ size' = capacity
        /\ buffer' = [i \in 0..(capacity - 1) |->
                         IF i < Active THEN buffer[start + i] ELSE 0]
        /\ start' = 0
        /\ end' = Active
        /\ UNCHANGED moved

EnsureSpace(n) ==
    \/ HasSpace(n) /\ UNCHANGED <<buffer, size, start, end, moved>>
    \/ ~HasSpace(n) /\ CanRewind(n) /\ Rewind
    \/ ~HasSpace(n) /\ ~CanRewind(n) /\ Reallocate(n)

Idle == wanted = 0

Viewed(len) == [at |-> start, len |-> len]

(* peek(0) returns an empty view, wherever the buffer is.                  *)
PeekNothing ==
    /\ Idle
    /\ view' = NoView
    /\ UNCHANGED <<position, buffer, size, start, end, wanted, needed, moved>>

PeekBuffered(n) ==
    /\ Idle
    /\ n > 0
    /\ Active >= n
    /\ view' = Viewed(n)
    /\ UNCHANGED <<position, buffer, size, start, end, wanted, needed, moved>>

(* A view is of no use any more once the next peek begins.                 *)
BeginPeek(n) ==
    /\ Idle
    /\ Active < n
    /\ EnsureSpace(n - Active)
    /\ wanted' = n
    /\ needed' = n - Active
    /\ view' = NoView
    /\ UNCHANGED position

(* read_up_to(needed) came back with `count' bytes.                        *)
ReadSome(count) ==
    /\ needed > 0
    /\ count <= needed
    /\ count <= Length - position
    /\ buffer' = [i \in 0..(size - 1) |->
                     IF end <= i /\ i < end + count
                     THEN position + 1 + (i - end) ELSE buffer[i]]
    /\ end' = end + count
    /\ position' = position + count
    /\ needed' = needed - count
    /\ UNCHANGED <<size, start, wanted, view, moved>>

(* read_up_to came back with nothing: the source is at its end.            *)
ReadNothing ==
    /\ needed > 0
    /\ position = Length
    /\ needed' = 0
    /\ UNCHANGED <<position, buffer, size, start, end, wanted, view, moved>>

EndPeek ==
    /\ wanted > 0
    /\ needed = 0
    /\ view' = Viewed(Active)
    /\ wanted' = 0
    /\ UNCHANGED <<position, buffer, size, start, end, needed, moved>>

(* advance() of bytes the stream has; what the source does when it is made *)
(* to skip past its end is not in this code, and no caller does that.      *)
Advance(n) ==
    /\ Idle
    /\ n <= Length - Consumed
    /\ IF Active > n
       THEN start' = start + n /\ UNCHANGED <<position, end>>
       ELSE /\ position' = position + (n - Active)
            /\ start' = 0
            /\ end' = 0
    /\ UNCHANGED <<buffer, size, wanted, needed, view, moved>>

Next ==
    \/ PeekNothing
    \/ \E n \in 1..MaxPeek : PeekBuffered(n) \/ BeginPeek(n)
    \/ \E count \in 1..MaxPeek : ReadSome(count)
    \/ ReadNothing
    \/ EndPeek
    \/ \E n \in 0..Length : Advance(n)

Spec == Init /\ [][Next]_vars

-----------------------------------------------------------------------------
(* The buffered bytes and the view lie in the buffer.                      *)
TypeOK ==
    /\ position \in 0..Length
    /\ buffer \in [0..(size - 1) -> 0..Length]
    /\ size \in Nat /\ start \in 0..end /\ end \in 0..size
    /\ wanted \in 0..MaxPeek /\ needed \in 0..wanted
    /\ view \in [at : Nat, len : 0..MaxPeek] /\ view.at + view.len <= size
    /\ moved \in [1..Length -> Nat]

(* assert(_buffer.size() - _buffer_end >= n) in read_exactly.              *)
SpaceToRead == HasSpace(needed)

(* "any given byte is rewound at most once" (ensure_space).                *)
RewoundAtMostOnce == \A b \in 1..Length : moved[b] <= 1

(* The buffer does not grow with the stream, only with what is peeked.     *)
BufferBounded == size < 4 * MaxPeek

(* The view is read where it points to in the buffer, so that rewinding,   *)
(* moving or refilling the buffer under a view in use would show.          *)
Bytes ==
    INSTANCE ByteStream WITH
        consumed <- Consumed,
        view     <- [i \in 1..view.len |-> buffer[view.at + i - 1]]

(* The buffer implements the stream of bytes that IPeekableStream promises.*)
ImplementsByteStream == Bytes!Spec
=============================================================================
