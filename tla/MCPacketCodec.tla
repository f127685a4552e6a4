---------------------------- MODULE MCPacketCodec ----------------------------
(***************************************************************************)
(* Checks the codec of PacketCodec on one probe per initial state: a       *)
(* number for the varint helpers, a message for Marshal, or an arbitrary   *)
(* byte string for Unmarshal.                                              *)
(***************************************************************************)
EXTENDS PacketCodec, SequencesExt

CONSTANTS
    Alphabet,      \* bytes arbitrary inputs are made of
    MaxInput,      \* length bound on arbitrary inputs
    VarintProbes   \* numbers around the 7-bit group boundaries

\* Strings of messages: empty, one byte, and one long enough for a
\* two-byte length varint (and, nested, a two-byte message length).
Texts == {<< >>, << 97 >>, [k \in 1..130 |-> 97]}

Probes ==
    [kind : {"uint"}, n : VarintProbes]
    \cup [kind : {"msg"}, msg : Memos(Texts)]
    \cup [kind : {"bytes"}, bytes : BoundedSeq(Alphabet, MaxInput)]

Kinds == {"data", "wrapper", "memo"}

VARIABLE probe

Init == probe \in Probes
Next == UNCHANGED probe

\* encodeVarintPacket writes exactly the sovPacket(v) bytes it stepped
\* back over, and the decoder's varint loop reads v back from them.
VarintMatchesSov ==
    probe.kind = "uint" =>
        /\ Len(VarintBytes(probe.n)) = SovPacket(probe.n)
        /\ VarintFrom(VarintBytes(probe.n), 0, 0, 0) = Ok(probe.n, SovPacket(probe.n))

\* Marshal of a RegisterAccountMemo fills the buffer Size() allocated
\* exactly, and Unmarshal gives back the same message, nil pointers and
\* empty strings included.
MarshalRoundTrip ==
    probe.kind = "msg" =>
        LET e == EncodeMemo(probe.msg) IN
        /\ e.err = "ok"
        /\ Len(e.val) = SizeMemo(probe.msg)
        /\ UnmarshalMemo(e.val) = Ok(probe.msg, Len(e.val))

\* A registration memo cut short anywhere is rejected: Unmarshal never
\* accepts a proper prefix of an encoded RegisterAccountMemo as some other
\* registration (a shorter recipient or channel, a missing field).  Every
\* length and tag varint, read from the bytes, must be checked against the
\* end of the input at every nesting level.
TruncatedMemoRejected ==
    probe.kind = "msg" =>
        LET e == EncodeMemo(probe.msg).val IN
        \A k \in 1..(Len(e) - 1) : UnmarshalMemo(SubSeq(e, 1, k)).err # "ok"

\* Whatever an Unmarshal accepts, re-marshalled and decoded again, is the
\* same message: unknown fields dropped, repeated fields resolved (last
\* string wins, nested messages merge) the same way both times.
DecodedReencodes ==
    probe.kind = "bytes" =>
        \A kind \in Kinds :
            LET r == Unmarshal(kind, probe.bytes) IN
            r.err = "ok" =>
                LET e == Encode(kind, r.val) IN
                e.err = "ok" /\ Unmarshal(kind, e.val).val = r.val

=============================================================================
