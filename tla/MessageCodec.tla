---------------------------- MODULE MessageCodec ----------------------------
(* MessageCodec (src/src/core/MessageCodec.cpp): frames of a big-endian size    *)
(* and a payload.  A byte is a digit below Base and the size has two of them    *)
(* instead of four, so that reads can still cut it; a payload is a JSON object  *)
(* when it begins with a Brace.                                                 *)
EXTENDS Naturals, Sequences, SequencesExt

CONSTANTS
    Base,           \* values of a byte
    MaxFrameSize    \* largest payload accepted

\* The size field holds every size that is accepted: 64 MiB is below 2^32.
ASSUME CodecAssumption ==
    /\ Base \in Nat \ {0, 1}
    /\ MaxFrameSize \in Nat \ {0} /\ MaxFrameSize < Base * Base

HeaderSize == 2
Brace == 1

Bytes == Seq(0 .. Base - 1)

PayloadSize(b) == b[1] * Base + b[2]

Encode(payload) == <<Len(payload) \div Base, Len(payload) % Base>> \o payload

IsObject(payload) == payload[1] = Brace

\* What a payload adds to the messages: one that is no object is skipped.
Emitted(payload) == IF IsObject(payload) THEN <<payload>> ELSE <<>>

\* What is left of a buffer and what was read from it.
Result(rest, messages, error) == [rest |-> rest, messages |-> messages, error |-> error]

\* append() on the buffer b.  An invalid size empties the buffer and drops what
\* the same call has read before it.
Parse[b \in Bytes] ==
    IF Len(b) < HeaderSize
    THEN Result(b, <<>>, FALSE)
    ELSE IF PayloadSize(b) = 0 \/ PayloadSize(b) > MaxFrameSize
    THEN Result(<<>>, <<>>, TRUE)
    ELSE IF Len(b) < HeaderSize + PayloadSize(b)
    THEN Result(b, <<>>, FALSE)
    ELSE LET frame   == HeaderSize + PayloadSize(b)
             payload == SubSeq(b, HeaderSize + 1, frame)
             later   == Parse[SubSeq(b, frame + 1, Len(b))]
         IN  IF later.error THEN later
             ELSE Result(later.rest, Emitted(payload) \o later.messages, FALSE)

-----------------------------------------------------------------------------
\* The bytes of a sequence of payloads, and the messages in it.
Stream(payloads) == FlattenSeq([i \in DOMAIN payloads |-> Encode(payloads[i])])
Objects(payloads) == FlattenSeq([i \in DOMAIN payloads |-> Emitted(payloads[i])])
=============================================================================
