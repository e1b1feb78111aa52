-------------------------------- MODULE Wire --------------------------------
(***************************************************************************)
(* The bytes a tweet travels as: the encoder, the decoder, the size and    *)
(* the merge of golang/protobuf (src/lib/Godeps/.../protobuf/proto), which *)
(* InitPublisher and InitReceiver call for every tweet, and a message that *)
(* is sent in pieces past readers built from older versions of its type.   *)
(*                                                                         *)
(* A message type is a function from tags to fields.  A field's Go type is *)
(* its "kind", its encoding its "wire"; a message maps every tag to the    *)
(* sequence of its values, none if it is unset, next to the bytes it did   *)
(* not recognise.  Numbers are bit patterns.  The widths are parameters,   *)
(* so that words of a few bits show what words of 64 do.                   *)
(***************************************************************************)
EXTENDS WireFormat

CONSTANTS
    Mask,       \* the tags a decoder can tick off (64)
    Type,       \* the newest message type
    Older,      \* the types that other readers were built from
    Samples,    \* the values a program gives to tags of Type
    MaxValues   \* bound on the values set in all

ASSUME TypeAssumption == Mask \in Nat \ {0} /\ \A t \in {Type} \cup Older : \A tag \in DOMAIN t :
    /\ tag \in Nat \ {0}
    /\ t[tag].kind \in {"bool", "int32", "uint32", "int64", "bytes", "message"}
    /\ t[tag].wire \in {"varint", "fixed32", "fixed64", "zigzag32", "zigzag64", "bytes", "group"}
    /\ t[tag].label \in {"optional", "required", "repeated", "packed"}

VARIABLES
    draft,      \* the message under construction
    values,     \* how many values were set so far
    wire,       \* the bytes under way
    sent,       \* what they should amount to
    warned      \* Marshal reported a missing required field

vars == <<draft, values, wire, sent, warned>>

Sub(type, w, label) == [kind |-> "message", wire |-> w, label |-> label, sub |-> type]

(* The tweet's type, with its parts.                                       *)
Name == Field("bytes", "bytes", "optional")
Number == Field("int64", "varint", "optional")
Double == Field("int64", "fixed64", "optional")

User == <<Number, Name>>
Image == <<Name, Name>>
Url == <<Name, Name>>
Coordinate == <<Double, Double>>

TweetType ==
    <<Number, Sub(User, "bytes", "optional"), Name, Sub(Coordinate, "bytes", "optional"),
      Field("bytes", "bytes", "repeated"), Sub(Image, "bytes", "repeated"),
      Sub(Url, "bytes", "repeated"), Sub(User, "bytes", "repeated")>>

Empty(type) == [field |-> [tag \in DOMAIN type |-> <<>>], unknown |-> <<>>]

-----------------------------------------------------------------------------
(* Encoding.                                                               *)
RECURSIVE EncStruct(_, _)
EncStruct(type, m) ==
    LET body(f, v) == IF f.kind = "message" THEN EncStruct(f.sub, v) ELSE Scalar(f, v)
        bodies == [tag \in DOMAIN type |->
                     [k \in DOMAIN m.field[tag] |-> body(type[tag], m.field[tag][k])]]
    IN  EncFields(type, bodies, m.unknown)

(* Missing required fields, at any depth, are reported next to the bytes.  *)
RECURSIVE Complete(_, _, _)
Complete(type, m, messages) == \A tag \in DOMAIN type :
    /\ type[tag].label = "required" => m.field[tag] # <<>>
    /\ type[tag].kind = "message" /\ type[tag].wire \in messages =>
        \A k \in DOMAIN m.field[tag] : Complete(type[tag].sub, m.field[tag][k], messages)

Marshal(type, m) ==
    [bytes |-> EncStruct(type, m), ok |-> Complete(type, m, {"bytes", "group"})]

(* The size is computed on its own, from the sizes of the parts.           *)
RECURSIVE SizeStruct(_, _)
SizeStruct(type, m) ==
    LET size(f, v) == IF f.kind = "message" THEN SizeStruct(f.sub, v) ELSE SizeScalar(f, v)
        sizes == [tag \in DOMAIN type |->
                    [k \in DOMAIN m.field[tag] |-> size(type[tag], m.field[tag][k])]]
    IN  SizeFields(type, sizes, m.unknown)

-----------------------------------------------------------------------------
(* Decoding.                                                               *)
RECURSIVE Skip(_, _, _)
SkipRest(buf, field) == IF field.ok THEN Skip(StartGroup, buf, field.at) ELSE Fail
SkipFields(buf, key) ==
    IF ~key.ok THEN Fail
    ELSE IF key.v % 8 = EndGroup THEN key
    ELSE SkipRest(buf, Skip(key.v % 8, buf, key.at))

Skip(w, buf, i) ==
    CASE w = Varint -> DecodeVarint(buf, i)
      [] w = Fixed64 -> DecodeFixed(Bits64, buf, i)
      [] w = Bytes -> DecodeRawBytes(buf, i)
      [] w = Fixed32 -> DecodeFixed(Bits32, buf, i)
      [] w = StartGroup -> SkipFields(buf, DecodeVarint(buf, i))
      [] OTHER -> Fail

(* The elements of a packed field: booleans are counted, other numbers are *)
(* read while the region lasts.                                            *)
RECURSIVE Unpack(_, _, _, _, _)
UnpackOne(f, buf, i, left, vs, x) ==
    LET used == IF f.kind = "bool" THEN 1 ELSE x.at - i
    IN  IF ~x.ok THEN Fail
        ELSE Unpack(f, buf, x.at, left - used, Append(vs, Narrow(f.kind, x.v)))

Unpack(f, buf, i, left, vs) ==
    IF left <= 0 THEN Read(vs, i)
    ELSE UnpackOne(f, buf, i, left, vs, ValDec(f.wire, buf, i))

DecPacked(f, buf, n, old) ==
    IF ~n.ok THEN Fail
    ELSE IF n.v >= 2^(Bits64 - 1) THEN IF f.kind = "bool" THEN Read(old, n.at) ELSE Fail
    ELSE Unpack(f, buf, n.at, n.v, old)

\* Mutant: a required field is counted each time it comes.
CountEach(f, tag, s) == IF f.label = "required" THEN [s EXCEPT !.missing = @ - 1] ELSE s

(* A required field is counted once if its bit fits the word of bits, each *)
(* time it comes if it does not.                                           *)
Count(f, tag, s) ==
    IF f.label # "required" THEN s
    ELSE IF tag \in s.seen THEN s
    ELSE [s EXCEPT !.missing = @ - 1,
                   !.seen = IF tag <= Mask THEN @ \cup {tag} ELSE @]

(* The decoders of a field: its new values, after those it had.            *)
RECURSIVE UnmarshalType(_, _, _, _, _)

Put(base, r) == IF r.ok THEN [r EXCEPT !.v = Append(base, @)] ELSE Fail
DecInner(raw, r) == IF r.ok THEN [r EXCEPT !.at = raw.at] ELSE Fail
DecMessage(f, raw, into) ==
    IF raw.ok THEN DecInner(raw, UnmarshalType(f.sub, FALSE, raw.v, 0, into)) ELSE Fail

DecField(f, w, buf, i, old) ==
    LET base == IF Repeats(f) THEN old ELSE <<>>
        into == IF Repeats(f) \/ old = <<>> THEN Empty(f.sub) ELSE old[1]
        number == f.kind \notin {"bytes", "message"}
    IN  IF w \notin {StartGroup, WireType(f)} THEN
            IF w = Bytes /\ number /\ Repeats(f)
              THEN DecPacked(f, buf, DecodeVarint(buf, i), old) ELSE Fail
        ELSE
        CASE f.wire = "group" -> Put(base, UnmarshalType(f.sub, TRUE, buf, i, into))
          [] f.kind = "message" /\ f.wire = "bytes" ->
                Put(base, DecMessage(f, DecodeRawBytes(buf, i), into))
          [] OTHER -> Put(base, DecScalar(f, buf, i))

(* The loop over the fields, in steps that each lead to the next or fail.  *)
(* A soft error lets decoding continue.                                    *)
RECURSIVE Loop(_, _, _, _, _)
Resume(type, group, buf, r, s) == IF r.ok THEN Loop(type, group, buf, r.at, s) ELSE Fail

LoopUnknown(type, group, buf, key, r, s) ==
    Resume(type, group, buf, r, [s EXCEPT !.m.unknown =
        @ \o EncodeVarint(key.v) \o SubSeq(buf, key.at + 1, r.at)])

LoopKnown(type, group, buf, tag, r, s) ==
    Resume(type, group, buf, r, Count(type[tag], tag,
        [s EXCEPT !.m.field[tag] = r.v, !.soft = @ \/ r.soft]))

LoopField(type, group, buf, key, s) ==
    LET w == key.v % 8
        tag == key.v \div 8
    IN  IF ~key.ok THEN Fail
        ELSE IF w = EndGroup THEN IF group THEN Read(s.m, key.at) ELSE Fail
        ELSE IF tag = 0 THEN Fail
        ELSE IF tag \in DOMAIN type
          THEN LoopKnown(type, group, buf, tag,
                         DecField(type[tag], w, buf, key.at, s.m.field[tag]), s)
          ELSE LoopUnknown(type, group, buf, key, Skip(w, buf, key.at), s)

Loop(type, group, buf, i, s) ==
    IF i < Len(buf) THEN LoopField(type, group, buf, DecodeVarint(buf, i), s)
    ELSE IF group THEN Fail
    ELSE [Read(s.m, i) EXCEPT !.soft = s.soft \/ s.missing > 0]

UnmarshalType(type, group, buf, i, m) ==
    Loop(type, group, buf, i,
         [m |-> m, seen |-> {}, soft |-> FALSE,
          missing |-> Cardinality({tag \in DOMAIN type : type[tag].label = "required"})])

Unmarshal(type, buf) == UnmarshalType(type, FALSE, buf, 0, Empty(type))

-----------------------------------------------------------------------------
\* Mutant: a message replaces the one before it.
MergeReplaces(type, dst, src) ==
    [field |-> [tag \in DOMAIN type |->
        IF Repeats(type[tag]) THEN dst.field[tag] \o src.field[tag]
        ELSE IF src.field[tag] = <<>> THEN dst.field[tag] ELSE src.field[tag]],
     unknown |-> dst.unknown]

(* Merging: what src sets replaces, what it repeats is appended; the bytes *)
(* it did not recognise, if any, replace those of dst.                     *)
RECURSIVE Merge(_, _, _)
Merge(type, dst, src) ==
    [field |-> [tag \in DOMAIN type |->
        LET f == type[tag]  d == dst.field[tag]  s == src.field[tag] IN
        IF Repeats(f) THEN d \o s
        ELSE IF s = <<>> THEN d
        ELSE IF f.kind = "message" /\ d # <<>> THEN <<Merge(f.sub, d[1], s[1])>>
        ELSE s],
     unknown |-> IF src.unknown = <<>> THEN dst.unknown ELSE src.unknown]

-----------------------------------------------------------------------------
(* A message is built field by field, sent in pieces that a receiver takes *)
(* as one, and relayed by programs that know an older type.                *)
Init ==
    /\ draft = Empty(Type) /\ values = 0
    /\ wire = <<>> /\ sent = Empty(Type) /\ warned = FALSE

Set(tag, v) ==
    /\ values < MaxValues /\ values' = values + 1
    /\ draft' = [draft EXCEPT !.field[tag] = IF Repeats(Type[tag]) THEN Append(@, v) ELSE <<v>>]
    /\ UNCHANGED <<wire, sent, warned>>

Send ==
    /\ draft # Empty(Type)
    /\ wire' = wire \o Marshal(Type, draft).bytes
    /\ warned' = (warned \/ ~Marshal(Type, draft).ok)
    /\ sent' = Merge(Type, sent, draft)
    /\ draft' = Empty(Type)
    /\ UNCHANGED values

Relay(type) ==
    LET m == Unmarshal(type, wire) IN
    /\ m.ok /\ wire' = Marshal(type, m.v).bytes
    /\ UNCHANGED <<draft, values, sent, warned>>

Next ==
    \/ \E tag \in DOMAIN Samples : \E v \in Samples[tag] : Set(tag, v)
    \/ Send
    \/ \E type \in Older : Relay(type)

Spec == Init /\ [][Next]_vars

-----------------------------------------------------------------------------
(* The receiver reads what was sent: pieces amount to their merge, whoever *)
(* relayed them in whatever version.                                       *)
Delivered == LET m == Unmarshal(Type, wire) IN m.ok /\ m.v = sent

(* A required field missing from the whole is told the receiver, unless it *)
(* is missing from a group or its tag is too large to be ticked off; the   *)
(* receiver is told nothing that Marshal did not tell the sender.          *)
MissingIsTold ==
    LET told == Unmarshal(Type, wire).soft IN
    (\A tag \in DOMAIN Type : Type[tag].label = "required" => tag <= Mask) =>
        /\ ~Complete(Type, sent, {"bytes"}) => told
        /\ told /\ sent # Empty(Type) => warned

TypeOK ==
    /\ values \in 0..MaxValues /\ warned \in BOOLEAN
    /\ wire \in Seq(0..2^(Digit + 1) - 1)

(* The bytes are bytes, and the size computed beforehand is their number,  *)
(* for the sender and for every reader that sends them on.                 *)
SizeExact == TypeOK /\ \A type \in {Type} \cup Older :
    LET m == Unmarshal(type, wire) IN
    m.ok /\ SizeStruct(type, m.v) = Len(Marshal(type, m.v).bytes)

(* Cut anywhere, the bytes are refused or read as the fields before the    *)
(* cut, which the rest completes: no value is made up from half of one.    *)
CutsAreHonest == \A k \in 0..Len(wire) :
    LET front == Unmarshal(Type, SubSeq(wire, 1, k))
        back == Unmarshal(Type, SubSeq(wire, k + 1, Len(wire)))
    IN  front.ok => back.ok /\ Merge(Type, front.v, back.v) = sent
=============================================================================
