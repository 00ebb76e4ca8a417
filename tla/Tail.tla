-------------------------------- MODULE Tail --------------------------------
(***************************************************************************)
(* guard/proxy.go, ring, sniffRC and extractUsage: the answer of the       *)
(* upstream streams through to the client while its last bytes are kept in *)
(* a ring, in which the usage object is looked for when the answer is over.*)
(*                                                                         *)
(* Abstractions: a byte is a member of Bytes; the text "usage" is the two  *)
(* bytes Marker, so that the window can cut it; json.Decoder accepts what  *)
(* lies between braces that balance.                                       *)
(***************************************************************************)
EXTENDS Naturals, Sequences, FiniteSets

CONSTANTS
    Size,       \* ringBufferSize
    Bytes,
    Marker,     \* the bytes of "usage" with its quotes
    Open, Close,\* the braces of an object
    Nul,        \* what make fills the ring with; no answer contains it
    MaxStream   \* bound: bytes of an answer

ASSUME SizeAssumption == Size \in Nat \ {0}
ASSUME MarkerAssumption == Marker \in Seq(Bytes) /\ Marker # <<>>
ASSUME BraceAssumption == Open # Close

VARIABLES
    buf,      \* ring.buf
    pos,      \* ring.pos
    full,     \* ring.full
    over,     \* the answer is over
    usage,    \* what extractUsage has returned
    stream    \* history: every byte the client was sent

tailVars == <<buf, pos, full, over, usage, stream>>

NoUsage == <<>>

TailTypeOK ==
    /\ buf \in [0..(Size - 1) -> Bytes \cup {Nul}]
    /\ pos \in 0..(Size - 1)
    /\ full \in BOOLEAN
    /\ over \in BOOLEAN
    /\ usage \in Seq(Bytes)
    /\ stream \in Seq(Bytes)

TailInit ==
    /\ buf = [i \in 0..(Size - 1) |-> Nul]
    /\ pos = 0 /\ full = FALSE
    /\ over = FALSE
    /\ usage = NoUsage
    /\ stream = <<>>

-----------------------------------------------------------------------------
\* Variant of Put: full is left as it was.
PutNotFull(b) ==
    /\ buf' = [buf EXCEPT ![pos] = b]
    /\ pos' = (pos + 1) % Size
    /\ UNCHANGED full

\* ring.Write of one byte
Put(b) ==
    /\ buf' = [buf EXCEPT ![pos] = b]
    /\ pos' = (pos + 1) % Size
    /\ full' = (full \/ pos + 1 >= Size)

\* sniffRC.Read hands every byte it has read to the ring.
Read(b) ==
    /\ ~over
    /\ Len(stream) < MaxStream
    /\ Put(b)
    /\ stream' = Append(stream, b)
    /\ UNCHANGED <<over, usage>>

\* ring.bytes: the oldest byte is the one to be overwritten next.
RingBytes ==
    IF full THEN [i \in 1..Size |-> buf[(pos + i - 1) % Size]]
            ELSE [i \in 1..pos |-> buf[i - 1]]

-----------------------------------------------------------------------------
\* Where a marker begins.
Markers(s) ==
    {i \in 1..(Len(s) - Len(Marker) + 1) :
        \A j \in DOMAIN Marker : s[i + j - 1] = Marker[j]}

Least(S) == CHOOSE i \in S : \A j \in S : i <= j
Greatest(S) == CHOOSE i \in S : \A j \in S : j <= i

\* json.Decoder at an Open: the object up to the Close that balances it.
Count(s, i, j, b) == Cardinality({k \in i..j : s[k] = b})
Decode(s, i) ==
    LET ends == {j \in i..Len(s) : Count(s, i, j, Open) = Count(s, i, j, Close)} IN
    IF ends = {} THEN NoUsage ELSE SubSeq(s, i, Least(ends))

\* Variant of ExtractUsage: strings.Index for strings.LastIndex.
ExtractFirstUsage(s) ==
    LET opens == {i \in Least(Markers(s))..Len(s) : s[i] = Open} IN
    IF Markers(s) = {} THEN NoUsage
    ELSE IF opens = {} THEN NoUsage
    ELSE Decode(s, Least(opens))

\* extractUsage: the first brace after the last marker, whatever is between.
ExtractUsage(s) ==
    LET opens == {i \in Greatest(Markers(s))..Len(s) : s[i] = Open} IN
    IF Markers(s) = {} THEN NoUsage
    ELSE IF opens = {} THEN NoUsage
    ELSE Decode(s, Least(opens))

\* The answer ends, and the handler looks for the usage.
Finish ==
    /\ ~over
    /\ over' = TRUE
    /\ usage' = ExtractUsage(RingBytes)
    /\ UNCHANGED <<buf, pos, full, stream>>

TailNext == Finish \/ \E b \in Bytes : Read(b)

TailSpec == TailInit /\ [][TailNext]_tailVars

-----------------------------------------------------------------------------
\* What the ring gives back is the end of the answer, as long as the answer
\* or the ring, byte by byte and in order.
LastBytes(s) ==
    LET n == IF Len(s) <= Size THEN Len(s) ELSE Size IN
    [i \in 1..n |-> s[Len(s) - n + i]]

RingHoldsTail == RingBytes = LastBytes(stream)

\* A usage object is billed only if it is the one the whole answer ends with,
\* and it is billed whenever the last marker is within the window; a marker
\* that the window has cut, or left behind, means that nothing is billed.
UsageOfAnswer ==
    over =>
        IF \E i \in Markers(stream) : i > Len(stream) - Size
          THEN usage = ExtractUsage(stream)
          ELSE usage = NoUsage
=============================================================================
