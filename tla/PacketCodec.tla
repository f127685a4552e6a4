----------------------------- MODULE PacketCodec -----------------------------
(***************************************************************************)
(* The protobuf wire codec of the ICS-20 registration memo, generated in   *)
(* src/x/forwarding/types/packet.pb.go: RegisterAccountMemo{Noble} wraps   *)
(* RegisterAccountDataWrapper{Forwarding}, which wraps                      *)
(* RegisterAccountData{Recipient = 1, Channel = 2}.                        *)
(*                                                                         *)
(* A string is its byte sequence; a nil message pointer is Nil.  Encoding  *)
(* is modelled as the code does it: Size() fixes a buffer, and             *)
(* MarshalToSizedBuffer fills it from the end towards the start, so a Size *)
(* that disagrees with what is written shows as a write out of the buffer  *)
(* (a Go panic) or as stray bytes.  Decoding is the generated loop over    *)
(* tags, with its error returns, and skipPacket for unknown fields.        *)
(* Varints are 64-bit in the code; TLC's integers are 32-bit, so the       *)
(* inputs keep every varint within 4 bytes and the 64-bit overflow and     *)
(* negative-length branches are out of reach.                              *)
(***************************************************************************)
EXTENDS Naturals, Sequences

\* A nil pointer: a record with fields no message has, so that comparing
\* it with a message is well defined.
Nil == [isNil |-> TRUE]

\* A decoding result: an error, or a value and the index after it.
Ok(v, next) == [err |-> "ok", val |-> v, next |-> next]
Fail(e) == [err |-> e, val |-> Nil, next |-> 0]

EmptyData == [recipient |-> << >>, channel |-> << >>]

\* The three message types over a set T of strings.
Datas(T) == [recipient : T, channel : T]
Wrappers(T) == [forwarding : Datas(T) \cup {Nil}]
Memos(T) == [noble : Wrappers(T) \cup {Nil}]

-----------------------------------------------------------------------------
(* Varints.                                                                *)

\* math_bits.Len64: the number of bits needed to represent x.
RECURSIVE BitLen(_)
BitLen(x) == IF x = 0 THEN 0 ELSE 1 + BitLen(x \div 2)

\* Variant of sovPacket that drops the x|1, so that 0 takes no byte.
SovPacketNoOr(x) == (BitLen(x) + 6) \div 7

\* sovPacket: the bytes of the varint of x, (Len64(x|1) + 6) / 7.
SovPacket(x) == (BitLen(IF x % 2 = 0 THEN x + 1 ELSE x) + 6) \div 7

\* The loop of encodeVarintPacket: low 7-bit group first, the continuation
\* bit 0x80 on every byte but the last.
RECURSIVE VarintBytes(_)
VarintBytes(v) ==
    IF v >= 128 THEN << (v % 128) + 128 >> \o VarintBytes(v \div 128)
    ELSE << v >>

(***************************************************************************)
(* The buffer of MarshalToSizedBuffer: bytes buf, write index i, and ok,   *)
(* which turns FALSE when a write falls outside buf (an index-out-of-range *)
(* panic in Go).                                                           *)
(***************************************************************************)
Write(w, pos, bs) ==
    IF ~w.ok \/ pos < 0 \/ pos + Len(bs) > Len(w.buf)
    THEN [w EXCEPT !.ok = FALSE]
    ELSE [w EXCEPT !.buf = [k \in DOMAIN w.buf |->
                              IF k - pos \in 1..Len(bs) THEN bs[k - pos] ELSE w.buf[k]]]

\* i -= len(s); copy(dAtA[i:], s)
PutBytes(w, bs) == Write([w EXCEPT !.i = w.i - Len(bs)], w.i - Len(bs), bs)

\* i--; dAtA[i] = b
PutTag(w, b) == Write([w EXCEPT !.i = w.i - 1], w.i - 1, << b >>)

\* encodeVarintPacket(dAtA, i, v): step back sovPacket(v) bytes, write the
\* varint forwards from there, and return that base.
EncodeVarintPacket(w, v) ==
    LET base == w.i - SovPacket(v)
    IN Write([w EXCEPT !.i = base], base, VarintBytes(v))

-----------------------------------------------------------------------------
(* Size and Marshal.                                                       *)

\* Variant of RegisterAccountData.Size that leaves out the length varints.
SizeDataNoLength(m) ==
    (IF Len(m.recipient) > 0 THEN 1 + Len(m.recipient) ELSE 0)
    + (IF Len(m.channel) > 0 THEN 1 + Len(m.channel) ELSE 0)

\* RegisterAccountData.Size: tag, length varint and bytes of each
\* non-empty string.
SizeData(m) ==
    (IF Len(m.recipient) > 0
     THEN 1 + Len(m.recipient) + SovPacket(Len(m.recipient)) ELSE 0)
    + (IF Len(m.channel) > 0
       THEN 1 + Len(m.channel) + SovPacket(Len(m.channel)) ELSE 0)

\* Size of a message field that is set: tag, length varint, body.
SizeNested(l) == 1 + l + SovPacket(l)

SizeWrapper(m) ==
    IF m.forwarding # Nil THEN SizeNested(SizeData(m.forwarding)) ELSE 0

SizeMemo(m) == IF m.noble # Nil THEN SizeNested(SizeWrapper(m.noble)) ELSE 0

\* Variant of RegisterAccountData.MarshalToSizedBuffer that writes the
\* Recipient with the Channel's tag 0x12.
MarshalDataSwappedTag(w, m) ==
    LET w1 == IF Len(m.channel) > 0
              THEN PutTag(EncodeVarintPacket(PutBytes(w, m.channel), Len(m.channel)), 18)
              ELSE w
    IN IF Len(m.recipient) > 0
       THEN PutTag(EncodeVarintPacket(PutBytes(w1, m.recipient), Len(m.recipient)), 18)
       ELSE w1

\* RegisterAccountData.MarshalToSizedBuffer: Channel (tag 0x12) first, at
\* the end of the buffer, then Recipient (tag 0x0a) in front of it.
MarshalData(w, m) ==
    LET w1 == IF Len(m.channel) > 0
              THEN PutTag(EncodeVarintPacket(PutBytes(w, m.channel), Len(m.channel)), 18)
              ELSE w
    IN IF Len(m.recipient) > 0
       THEN PutTag(EncodeVarintPacket(PutBytes(w1, m.recipient), Len(m.recipient)), 10)
       ELSE w1

\* A set message field whose body has been written, moving the write index
\* from w.i to inner.i: its length varint, then the tag 0x0a.
MarshalNested(w, inner) == PutTag(EncodeVarintPacket(inner, w.i - inner.i), 10)

MarshalWrapper(w, m) ==
    IF m.forwarding # Nil THEN MarshalNested(w, MarshalData(w, m.forwarding)) ELSE w

MarshalMemo(w, m) ==
    IF m.noble # Nil THEN MarshalNested(w, MarshalWrapper(w, m.noble)) ELSE w

\* make([]byte, size): the buffer Marshal() allocates, write index at its end.
Buffer(size) == [buf |-> [k \in 1..size |-> 0], i |-> size, ok |-> TRUE]

\* The end of Marshal(): after MarshalToSizedBuffer filled the buffer of
\* Size() bytes into w, its first n = len(dAtA) - i bytes are returned.
Marshal(size, w) ==
    IF w.ok THEN Ok(SubSeq(w.buf, 1, size - w.i), 0) ELSE Fail("panic")

\* Marshal of each message type.
EncodeData(m) == Marshal(SizeData(m), MarshalData(Buffer(SizeData(m)), m))
EncodeWrapper(m) == Marshal(SizeWrapper(m), MarshalWrapper(Buffer(SizeWrapper(m)), m))
EncodeMemo(m) == Marshal(SizeMemo(m), MarshalMemo(Buffer(SizeMemo(m)), m))

-----------------------------------------------------------------------------
(* Unmarshal.                                                              *)

\* Variant of the varint loop that takes the end of the input as the end of
\* the varint instead of returning ErrUnexpectedEOF.
RECURSIVE VarintFromEndsAtEOF(_, _, _, _)
VarintFromEndsAtEOF(d, i, shift, acc) ==
    IF shift >= 64 THEN Fail("ErrIntOverflowPacket")
    ELSE IF i >= Len(d) THEN Ok(acc, i)
    ELSE LET b == d[i + 1] IN
         IF b < 128 THEN Ok(acc + b * 2^shift, i + 1)
         ELSE VarintFromEndsAtEOF(d, i + 1, shift + 7, acc + (b - 128) * 2^shift)

\* The varint loop of every Unmarshal and of skipPacket, reading from
\* index i (0-based as in Go): the overflow guard, the end-of-input guard,
\* then one byte; b & 0x7F is OR-ed in at shift.
RECURSIVE VarintFrom(_, _, _, _)
VarintFrom(d, i, shift, acc) ==
    IF shift >= 64 THEN Fail("ErrIntOverflowPacket")
    ELSE IF i >= Len(d) THEN Fail("ErrUnexpectedEOF")
    ELSE LET b == d[i + 1] IN
         IF b < 128 THEN Ok(acc + b * 2^shift, i + 1)
         ELSE VarintFrom(d, i + 1, shift + 7, acc + (b - 128) * 2^shift)

\* dAtA[lo:hi]
Slice(d, lo, hi) == SubSeq(d, lo + 1, hi)

(***************************************************************************)
(* skipPacket(dAtA): the length of the unknown field at the start of dAtA, *)
(* groups (wire types 3 and 4) counted by depth.  The index may run past   *)
(* the end after a fixed64, fixed32 or length-delimited field; the caller  *)
(* checks that.                                                            *)
(***************************************************************************)
RECURSIVE SkipLoop(_, _, _)
SkipLoop(d, i, depth) ==
    IF i >= Len(d) THEN Fail("ErrUnexpectedEOF")
    ELSE
    LET tag == VarintFrom(d, i, 0, 0)
        j == tag.next
        step == CASE tag.val % 8 = 0 -> LET v == VarintFrom(d, j, 0, 0)
                                        IN IF v.err # "ok" THEN v ELSE Ok(depth, v.next)
                  [] tag.val % 8 = 1 -> Ok(depth, j + 8)
                  [] tag.val % 8 = 2 -> LET n == VarintFrom(d, j, 0, 0)
                                        IN IF n.err # "ok" THEN n ELSE Ok(depth, n.next + n.val)
                  [] tag.val % 8 = 3 -> Ok(depth + 1, j)
                  [] tag.val % 8 = 4 -> IF depth = 0 THEN Fail("ErrUnexpectedEndOfGroupPacket")
                                        ELSE Ok(depth - 1, j)
                  [] tag.val % 8 = 5 -> Ok(depth, j + 4)
                  [] OTHER           -> Fail("IllegalWireType")
    IN CASE tag.err # "ok"  -> tag
         [] step.err # "ok" -> step
         [] step.val = 0    -> Ok(step.next, step.next)
         [] OTHER           -> SkipLoop(d, step.next, step.val)

SkipPacket(d) == SkipLoop(d, 0, 0)

\* The field numbers each message type knows.
KnownFields(kind) == IF kind = "data" THEN {1, 2} ELSE {1}

RECURSIVE UnmarshalLoop(_, _, _, _)
RECURSIVE DecodeField(_, _, _, _, _, _)

\* The body of a known field read into the existing value: the string
\* itself, or the nested message unmarshalled into it, created if nil.
NestedInto(kind, body, m) ==
    CASE kind = "wrapper" ->
           UnmarshalLoop("data", body, 0,
                         IF m.forwarding = Nil THEN EmptyData ELSE m.forwarding)
      [] kind = "memo" ->
           UnmarshalLoop("wrapper", body, 0,
                         IF m.noble = Nil THEN [forwarding |-> Nil] ELSE m.noble)
      [] OTHER -> Ok(body, 0)

\* Setting field f of m to the decoded value v.
SetField(kind, f, m, v) ==
    CASE kind = "data" /\ f = 1 -> [m EXCEPT !.recipient = v]
      [] kind = "data"          -> [m EXCEPT !.channel = v]
      [] kind = "wrapper"       -> [m EXCEPT !.forwarding = v]
      [] OTHER                  -> [m EXCEPT !.noble = v]

(***************************************************************************)
(* One known field f, its tag read, the index i after the tag: wire type 2 *)
(* required, the length varint, the bounds check, then the string set (a   *)
(* later occurrence replaces it) or the nested message unmarshalled into   *)
(* the existing one, created if nil (a later occurrence merges).           *)
(***************************************************************************)
DecodeField(kind, f, wireType, d, i, m) ==
    LET n == VarintFrom(d, i, 0, 0)
        post == n.next + n.val
        inner == NestedInto(kind, Slice(d, n.next, post), m)
    IN
    CASE wireType # 2       -> Fail("WrongWireType")
      [] n.err # "ok"       -> n
      [] post > Len(d)      -> Fail("ErrUnexpectedEOF")
      [] inner.err # "ok"   -> inner
      [] OTHER              -> Ok(SetField(kind, f, m, inner.val), post)

(***************************************************************************)
(* The loop of Unmarshal for a message of the given kind into m, from      *)
(* index i: read the tag, refuse wire type 4 and field number 0, decode a  *)
(* known field, skip an unknown one with skipPacket; at the end, iNdEx > l *)
(* is an error.                                                            *)
(***************************************************************************)
UnmarshalLoop(kind, d, i, m) ==
    IF i >= Len(d) THEN (IF i > Len(d) THEN Fail("ErrUnexpectedEOF") ELSE Ok(m, i))
    ELSE
    LET tag == VarintFrom(d, i, 0, 0)
        fieldNum == tag.val \div 8
        wireType == tag.val % 8
        field == DecodeField(kind, fieldNum, wireType, d, tag.next, m)
        skip == SkipPacket(Slice(d, i, Len(d)))
    IN
    CASE tag.err # "ok"                  -> tag
      [] wireType = 4                    -> Fail("EndGroupForNonGroup")
      [] fieldNum <= 0                   -> Fail("IllegalTag")
      [] fieldNum \in KnownFields(kind)  -> IF field.err # "ok" THEN field
                                            ELSE UnmarshalLoop(kind, d, field.next, field.val)
      [] skip.err # "ok"                 -> skip
      [] i + skip.val > Len(d)           -> Fail("ErrUnexpectedEOF")
      [] OTHER                           -> UnmarshalLoop(kind, d, i + skip.val, m)

\* The zero value each Unmarshal starts from.
Fresh(kind) == CASE kind = "data"    -> EmptyData
                 [] kind = "wrapper" -> [forwarding |-> Nil]
                 [] OTHER            -> [noble |-> Nil]

\* Unmarshal of a message of each type into a fresh one.
Unmarshal(kind, d) == UnmarshalLoop(kind, d, 0, Fresh(kind))

UnmarshalMemo(d) == Unmarshal("memo", d)

\* Marshal of a message of each type.
Encode(kind, m) == CASE kind = "data"    -> EncodeData(m)
                     [] kind = "wrapper" -> EncodeWrapper(m)
                     [] OTHER            -> EncodeMemo(m)

=============================================================================
