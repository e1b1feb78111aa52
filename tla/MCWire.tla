-------------------------------- MODULE MCWire --------------------------------
(* The instance of Wire for TLC: words of 4 and 8 bits, bytes of 4.  The   *)
(* newest type is the tweet's with fields of the kinds it does not have.   *)
EXTENDS Wire

MCDigit == 3
MCBits32 == 4
MCBits64 == 8
MCMask == 16

Entry == <<Number, Field("bytes", "bytes", "required")>>

MCType ==
    TweetType \o
    <<Field("int32", "varint", "packed"), Field("int64", "fixed64", "required"),
      Sub(Entry, "group", "repeated"), Field("int32", "zigzag32", "repeated"),
      Sub(Entry, "bytes", "optional"), Field("bool", "varint", "required")>>

(* One knows users and entries by number only and has the packing of the   *)
(* numbers the other way round; the other knows the first field only.      *)
MCOlder == {
    1 :> Number @@ 2 :> Sub(<<Number>>, "bytes", "optional") @@
    9 :> Field("int32", "varint", "repeated") @@
    11 :> Sub(<<Number>>, "group", "repeated") @@
    12 :> Field("int32", "zigzag32", "packed"),
    1 :> Number}

Pair(a, b) == [field |-> <<a, b>>, unknown |-> <<>>]
MCSamples ==
    1 :> {0, 255} @@
    2 :> {Pair(<<>>, <<>>), Pair(<<255>>, <<<<12>>>>)} @@
    4 :> {Pair(<<200>>, <<9>>)} @@
    5 :> {<<>>, <<12, 4, 3, 9, 1, 2, 8, 11>>} @@
    9 :> {7, 15} @@
    10 :> {130} @@
    11 :> {Pair(<<>>, <<>>), Pair(<<8>>, <<<<4, 12>>>>)} @@
    12 :> {1, 8} @@
    13 :> {Pair(<<1>>, <<>>), Pair(<<>>, <<<<3>>>>)} @@
    14 :> {1}
MCMaxValues == 3
=============================================================================
