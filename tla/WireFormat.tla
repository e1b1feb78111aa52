------------------------------ MODULE WireFormat ------------------------------
(***************************************************************************)
(* The wire format of golang/protobuf below the level of messages: words,  *)
(* as varints or of fixed size, strings of bytes, keys, and the fields     *)
(* that are made of them, each with the size that is computed for it       *)
(* beforehand (src/lib/Godeps/.../protobuf/proto).                         *)
(*                                                                         *)
(* A word is a bit pattern, a number.  The widths are parameters, so that  *)
(* words of a few bits show what words of 64 do.                           *)
(***************************************************************************)
EXTENDS Integers, Sequences, SequencesExt, FiniteSetsExt

CONSTANTS
    Digit,      \* payload bits of a varint's byte (7)
    Bits32,     \* the narrow word (32)
    Bits64      \* the wide word (64)

ASSUME WidthAssumption ==
    /\ {Digit, Bits32, Bits64} \subseteq Nat \ {0}
    /\ Bits32 < Bits64 /\ Bits32 % (Digit + 1) = 0 /\ Bits64 % (Digit + 1) = 0

Varint == 0     Fixed64 == 1    Bytes == 2
StartGroup == 3 EndGroup == 4   Fixed32 == 5

Field(kind, w, label) == [kind |-> kind, wire |-> w, label |-> label]

MaxVarintBytes == (Bits64 + Digit - 1) \div Digit

(* A loop over a slice that adds up what its elements give.                *)
Total(ns) ==
    LET sum[k \in 0..Len(ns)] == IF k = 0 THEN 0 ELSE sum[k - 1] + ns[k]
    IN  sum[Len(ns)]

-----------------------------------------------------------------------------
(* Words.                                                                  *)

(* An int32 is sign-extended: uint64(int32(v)).                            *)
Word(kind, v) ==
    IF kind = "int32" /\ v >= 2^(Bits32 - 1) THEN v + 2^Bits64 - 2^Bits32 ELSE v

Narrow(kind, u) ==
    CASE kind = "bool" -> IF u = 0 THEN 0 ELSE 1
      [] kind \in {"int32", "uint32"} -> u % 2^Bits32
      [] OTHER -> u

ZigZag(bits, x) == LET v == x % 2^bits IN
    IF v < 2^(bits - 1) THEN 2 * v ELSE 2 * (2^bits - 1 - v) + 1
UnZigZag(bits, x) == LET u == x % 2^bits IN
    IF u % 2 = 0 THEN u \div 2 ELSE 2^bits - 1 - u \div 2

(* The digits of x, of so many bits each, lowest first, and the number     *)
(* that digits make.                                                       *)
Digits(w, x, n) == [k \in 1..n |-> (x \div 2^(w * (k - 1))) % 2^w]
Value(w, ds) == Total([k \in DOMAIN ds |-> ds[k] * 2^(w * (k - 1))])

(* Bytes are written until what is left fits in one; every other byte has  *)
(* its high bit set.                                                       *)
EncodeVarint(x) ==
    LET n == Min({k \in 1..MaxVarintBytes : x < 2^(Digit * k)})
        digits == Digits(Digit, x, n)
    IN  [k \in 1..n |-> IF k < n THEN 2^Digit + digits[k] ELSE digits[k]]

(* The size is computed on its own: shifts until nothing is left.          *)
SizeVarint(x) == Min({k \in 1..MaxVarintBytes : x \div 2^(Digit * k) = 0})

EncodeFixed(bits, x) == Digits(Digit + 1, x, bits \div (Digit + 1))

(* What a read from the buffer yields: a value, the bytes consumed and     *)
(* whether a message in it lacks a required field, a soft error.           *)
Fail == [ok |-> FALSE]
Read(v, at) == [ok |-> TRUE, v |-> v, at |-> at, soft |-> FALSE]

(* At most so many bytes as the word needs; bits past its end are dropped. *)
DecodeVarint(buf, i) ==
    LET last == {k \in 1..MaxVarintBytes : i + k <= Len(buf) /\ buf[i + k] < 2^Digit}
        digits == [k \in 1..Min(last) |-> buf[i + k] % 2^Digit]
    IN  IF last = {} THEN Fail
        ELSE Read(Value(Digit, digits) % 2^Bits64, i + Min(last))

DecodeFixed(bits, buf, i) ==
    LET n == bits \div (Digit + 1)
    IN  IF i + n > Len(buf) THEN Fail
        ELSE Read(Value(Digit + 1, [k \in 1..n |-> buf[i + k]]), i + n)

ValEnc(w, x) ==
    CASE w = "varint" -> EncodeVarint(x)
      [] w = "zigzag32" -> EncodeVarint(ZigZag(Bits32, x))
      [] w = "zigzag64" -> EncodeVarint(ZigZag(Bits64, x))
      [] w = "fixed32" -> EncodeFixed(Bits32, x)
      [] w = "fixed64" -> EncodeFixed(Bits64, x)

ValSize(w, x) ==
    CASE w = "varint" -> SizeVarint(x)
      [] w = "zigzag32" -> SizeVarint(ZigZag(Bits32, x))
      [] w = "zigzag64" -> SizeVarint(ZigZag(Bits64, x))
      [] w = "fixed32" -> Bits32 \div (Digit + 1)
      [] w = "fixed64" -> Bits64 \div (Digit + 1)

ValDec(w, buf, i) ==
    LET x == IF w = "fixed32" THEN DecodeFixed(Bits32, buf, i)
             ELSE IF w = "fixed64" THEN DecodeFixed(Bits64, buf, i)
             ELSE DecodeVarint(buf, i)
        bits == IF w = "zigzag32" THEN Bits32 ELSE Bits64
    IN  IF x.ok /\ w \in {"zigzag32", "zigzag64"} THEN Read(UnZigZag(bits, x.v), x.at)
        ELSE x

-----------------------------------------------------------------------------
(* Strings of bytes, after their length.                                   *)
RawBytes(b) == EncodeVarint(Len(b)) \o b

\* Mutant: as many bytes as there are, where more were announced.
DecodeRawBytesShort(buf, i) ==
    LET n == DecodeVarint(buf, i)
        end == Min({n.at + n.v, Len(buf)})
    IN  IF ~n.ok THEN Fail ELSE Read(SubSeq(buf, n.at + 1, end), end)

(* A length with the sign bit set is refused.                              *)
DecodeRawBytes(buf, i) ==
    LET n == DecodeVarint(buf, i)
    IN  IF ~n.ok THEN Fail
        ELSE IF n.v >= 2^(Bits64 - 1) \/ n.at + n.v > Len(buf) THEN Fail
        ELSE Read(SubSeq(buf, n.at + 1, n.at + n.v), n.at + n.v)

-----------------------------------------------------------------------------
(* Fields.                                                                 *)
Repeats(f) == f.label \in {"repeated", "packed"}

WireType(f) ==
    CASE f.wire = "fixed64" -> Fixed64
      [] f.wire = "fixed32" -> Fixed32
      [] f.wire \in {"bytes", "group"} -> Bytes
      [] OTHER -> Varint

Key(tag, w) == EncodeVarint(8 * tag + w)
TagCode(f, tag) == Key(tag, IF f.label = "packed" THEN Bytes ELSE WireType(f))

(* What a value that is no message is encoded as, and its size.            *)
Scalar(f, v) == IF f.kind = "bytes" THEN RawBytes(v) ELSE ValEnc(f.wire, Word(f.kind, v))

\* Mutant: the size of an int32 forgets that its sign is extended.
SizeScalarUnsigned(f, v) ==
    CASE f.kind = "bytes" -> SizeVarint(Len(v)) + Len(v)
      [] f.kind = "bool" -> 1
      [] OTHER -> ValSize(f.wire, v)

SizeScalar(f, v) ==
    CASE f.kind = "bytes" -> SizeVarint(Len(v)) + Len(v)
      [] f.kind = "bool" -> 1
      [] OTHER -> ValSize(f.wire, Word(f.kind, v))

(* Reading it, as a word that is cut to its Go type or as bytes.           *)
DecNumber(f, x) == IF x.ok THEN [x EXCEPT !.v = Narrow(f.kind, @)] ELSE Fail
DecScalar(f, buf, i) ==
    IF f.kind = "bytes" THEN DecodeRawBytes(buf, i) ELSE DecNumber(f, ValDec(f.wire, buf, i))

(* A value's body, a scalar's encoding or a message's fields, gets its key *)
(* and, if it is a message, its length or the key that ends it.            *)
EncValue(f, tag, body) ==
    IF f.kind # "message" THEN TagCode(f, tag) \o body
    ELSE IF f.wire = "bytes" THEN TagCode(f, tag) \o RawBytes(body)
    ELSE Key(tag, StartGroup) \o body \o Key(tag, EndGroup)

Packed(f, tag, bodies) == TagCode(f, tag) \o RawBytes(FlattenSeq(bodies))

EncField(f, tag, bodies) ==
    IF f.label = "packed" /\ bodies # <<>> THEN Packed(f, tag, bodies)
    ELSE FlattenSeq([k \in DOMAIN bodies |-> EncValue(f, tag, bodies[k])])

(* From the sizes of the bodies, sizes.                                    *)
SizeField(f, tag, sizes) ==
    LET code == Len(TagCode(f, tag))
        message(n) ==
            IF f.wire = "bytes" THEN code + n + SizeVarint(n)
            ELSE SizeVarint(8 * tag + StartGroup) + n + SizeVarint(8 * tag + EndGroup)
    IN  IF sizes = <<>> THEN 0
        ELSE IF f.kind = "message" THEN Total([k \in DOMAIN sizes |-> message(sizes[k])])
        ELSE IF f.label = "packed" THEN code + SizeVarint(Total(sizes)) + Total(sizes)
        ELSE code * Len(sizes) + Total(sizes)

(* The fields of a message in the order of their tags, then the bytes that *)
(* were not recognised.                                                    *)
EncFields(type, bodies, unknown) ==
    FlattenSeq([tag \in 1..Max(DOMAIN type) |->
        IF tag \in DOMAIN type THEN EncField(type[tag], tag, bodies[tag]) ELSE <<>>])
    \o unknown

SizeFields(type, sizes, unknown) ==
    Total([tag \in 1..Max(DOMAIN type) |->
        IF tag \in DOMAIN type THEN SizeField(type[tag], tag, sizes[tag]) ELSE 0])
    + Len(unknown)
=============================================================================
