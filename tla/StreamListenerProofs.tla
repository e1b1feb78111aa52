------------------------- MODULE StreamListenerProofs -------------------------
(***************************************************************************)
(* Proofs about StreamListener, for any number of tweets and faults.       *)
(*                                                                         *)
(* The stream in use is a run of tweets up to the latest, so that Coming,  *)
(* the next tweet it can yield, is known from its length, and is later     *)
(* than all that was read.  Missed tweets show as a start of a new run in  *)
(* read: Anew says whether the next read will be one, Untold whether the   *)
(* error of the failure is on its way, and GapInv relates both to the runs *)
(* there are.                                                              *)
(***************************************************************************)
EXTENDS StreamListener, FiniteSetTheorems, TLAPS

Coming == latest + 1 - Len(stream)

StreamInv == \A j \in 1..Len(stream) : stream[j] = latest - Len(stream) + j

ReadInv == IsFiniteSet(read) /\ \A n \in read : n < Coming

HandInv == at = "offering" => hand \in read /\ \A k \in 1..Len(got) : got[k] < hand

Starts == {n \in read : n - 1 \notin read}
Anew == IF at \in Reading /\ Coming - 1 \in read THEN 0 ELSE 1
Untold == IF at \in {"failed", "broken"} THEN 1 ELSE 0

GapInv == Cardinality(Starts) + Anew <= errors + 1 + Untold

OrderInv == StreamInv /\ ReadInv /\ HandInv /\ InOrder

IInv == TypeOK /\ OrderInv /\ EverythingTold /\ GapInv

-----------------------------------------------------------------------------
LEMMA InitIInv == Init => IInv
<1> SUFFICES ASSUME Init PROVE IInv
    OBVIOUS
<1> USE BoundsAssumption DEF Init
<1>1. TypeOK
    <2>1. \A S : <<>> \in Seq(S)
        OBVIOUS
    <2>2. stream \in Seq(1..latest) /\ got \in Seq(read)
        BY <2>1
    <2>3. read \subseteq 1..latest /\ hand \in 0..latest /\ faults \in 0..MaxFaults
        OBVIOUS
    <2> QED BY <2>2, <2>3 DEF TypeOK
<1>2. IsFiniteSet({}) /\ Cardinality({}) = 0
    BY FS_EmptySet
<1>3. OrderInv
    BY <1>2 DEF OrderInv, StreamInv, ReadInv, HandInv, InOrder
<1>4. EverythingTold
    BY <1>2 DEF EverythingTold, Erring
<1>5. GapInv
    <2>1. Starts = {}
        BY DEF Starts
    <2>2. Anew = 1 /\ Untold = 0
        BY DEF Anew, Untold, Reading
    <2> QED BY <1>2, <2>1, <2>2 DEF GapInv
<1> QED BY <1>1, <1>3, <1>4, <1>5 DEF IInv

(* Sequences over more.                                                    *)
LEMMA MoreSeq ==
    ASSUME NEW S, NEW T, S \subseteq T, NEW s \in Seq(S) PROVE s \in Seq(T)
OBVIOUS

LEMMA LongerSeq ==
    ASSUME NEW T, NEW s, NEW x, s \in Seq(T), x \in T
    PROVE  /\ Append(s, x) \in Seq(T) /\ Len(Append(s, x)) = Len(s) + 1
           /\ Append(s, x)[Len(s) + 1] = x
           /\ \A j \in 1..Len(s) : Append(s, x)[j] = s[j]
OBVIOUS

(* What a step that leaves stream and read alone keeps.                    *)
LEMMA Frozen ==
    ASSUME UNCHANGED <<stream, latest, read>>
    PROVE  /\ Coming' = Coming /\ Starts' = Starts
           /\ (StreamInv' <=> StreamInv) /\ (ReadInv' <=> ReadInv)
BY DEF Coming, Starts, StreamInv, ReadInv

(* The numbers of tweets and errors.                                       *)
LEMMA Numbers ==
    ASSUME IInv
    PROVE  /\ latest \in Nat /\ Len(stream) \in Nat /\ Coming \in Int
           /\ Len(got) \in Nat /\ got \in Seq(Int) /\ read \subseteq Nat
           /\ refused \in Nat /\ malformed \in Nat /\ errors \in Nat /\ faults \in Nat
           /\ IsFiniteSet(Starts) /\ Cardinality(Starts) \in Nat
           /\ Cardinality(read) \in Nat
<1> USE BoundsAssumption DEF IInv, TypeOK
<1>1. latest \in Nat /\ Len(stream) \in Nat /\ Coming \in Int
    BY DEF Coming
<1>2. read \subseteq Nat /\ Len(got) \in Nat /\ faults \in Nat
    BY <1>1
<1>3. got \in Seq(Int)
    <2>1. got \in Seq(read) /\ read \subseteq Int
        BY <1>2
    <2> QED BY <2>1, MoreSeq
<1>4. IsFiniteSet(read) /\ Starts \subseteq read
    BY DEF OrderInv, ReadInv, Starts
<1>5. IsFiniteSet(Starts)
    BY <1>4, FS_Subset
<1>6. Cardinality(Starts) \in Nat /\ Cardinality(read) \in Nat
    BY <1>4, <1>5, FS_CardinalityType
<1> QED BY <1>1, <1>2, <1>3, <1>5, <1>6

-----------------------------------------------------------------------------
(* A tweet that is read is the one that was coming, and none read so far.  *)
LEMMA ReadNext ==
    ASSUME IInv, NextTweet
    PROVE  /\ hand' = Coming /\ hand' \in Nat /\ hand' # 0 /\ hand' <= latest /\ Coming \notin read
           /\ read' = read \cup {Coming} /\ Coming' = Coming + 1
           /\ latest' = latest /\ StreamInv' /\ stream' \in Seq(1..latest)
<1> USE DEF NextTweet
<1>1. /\ latest \in Nat /\ Len(stream) \in Nat /\ stream \in Seq(1..latest)
      /\ Coming = latest + 1 - Len(stream)
    BY Numbers DEF IInv, TypeOK, Coming
<1>2. Len(stream) # 0 /\ Head(stream) = stream[1] /\ stream[1] \in 1..latest
    BY <1>1
<1>3. stream[1] = latest - Len(stream) + 1
    BY <1>1, <1>2 DEF IInv, OrderInv, StreamInv
<1>4. hand' = Coming /\ hand' \in Nat /\ hand' # 0 /\ hand' <= latest
    BY <1>1, <1>2, <1>3
<1>5. /\ stream' \in Seq(1..latest) /\ Len(stream') = Len(stream) - 1
      /\ \A j \in 1..Len(stream) - 1 : stream'[j] = stream[j + 1]
    BY <1>1, <1>2
<1>6. Coming' = Coming + 1
    BY <1>1, <1>5 DEF Coming
<1>7. Coming \notin read
    BY <1>1 DEF IInv, OrderInv, ReadInv
<1>8. StreamInv'
    <2>1. latest' = latest
        OBVIOUS
    <2> DEFINE l == Len(stream)  t == stream
    <2>2. \A j \in 1..l : t[j] = latest - l + j
        BY DEF IInv, OrderInv, StreamInv
    <2>3. l \in Nat /\ latest \in Nat
        BY <1>1
    <2>4. \A j \in 1..l - 1 : stream'[j] = t[j + 1]
        BY <1>5
    <2> HIDE DEF l, t
    <2>5. ASSUME NEW j \in 1..l - 1 PROVE stream'[j] = latest - (l - 1) + j
        <3>1. j + 1 \in 1..l /\ j \in Int
            BY <2>3
        <3>2. stream'[j] = t[j + 1] /\ t[j + 1] = latest - l + (j + 1)
            BY <2>2, <2>4, <3>1
        <3>3. latest - l + (j + 1) = latest - (l - 1) + j
            BY <2>3, <3>1
        <3> QED BY <3>2, <3>3, Zenon
    <2> QED BY <1>5, <2>1, <2>5 DEF StreamInv, l
<1> QED BY <1>2, <1>3, <1>4, <1>5, <1>6, <1>7, <1>8

(* A tweet that is made upstream comes last, or to nobody.                 *)
LEMMA Upstream ==
    ASSUME IInv, Tweeted
    PROVE  /\ latest' = latest + 1 /\ stream' \in Seq(1..latest') /\ StreamInv'
           /\ Coming <= Coming' /\ Coming' \in Int /\ (at \in Reading => Coming' = Coming)
           /\ (at \notin Reading => stream' = <<>>)
<1> USE DEF Tweeted
<1>1. /\ latest \in Nat /\ Len(stream) \in Nat /\ stream \in Seq(1..latest)
      /\ Coming = latest + 1 - Len(stream)
    BY Numbers DEF IInv, TypeOK, Coming
<1>2. latest' = latest + 1
    OBVIOUS
<1>3. stream \in Seq(1..latest')
    <2>1. 1..latest \subseteq 1..latest'
        BY <1>1, <1>2
    <2> QED BY <1>1, <2>1, MoreSeq
<1> HIDE DEF Tweeted
<1>4. CASE at \in Reading
    <2>1. stream' = Append(stream, latest') /\ latest' \in 1..latest'
        BY <1>1, <1>2, <1>4 DEF Tweeted
    <2>2. stream' \in Seq(1..latest')
        BY <1>3, <2>1, LongerSeq
    <2>3. /\ Len(stream') = Len(stream) + 1 /\ stream'[Len(stream) + 1] = latest'
          /\ \A j \in 1..Len(stream) : stream'[j] = stream[j]
        BY <1>3, <2>1, LongerSeq
    <2>4. Coming' = Coming
        <3> DEFINE l == Len(stream)  m == Len(stream')
        <3>1. Coming = latest + 1 - l /\ Coming' = latest' + 1 - m
            BY DEF Coming
        <3>2. m = l + 1 /\ l \in Nat /\ latest \in Nat
            BY <1>1, <2>3
        <3> HIDE DEF l, m
        <3> QED BY <1>2, <3>1, <3>2
    <2>5. StreamInv'
        <3> DEFINE l == Len(stream)
        <3>1. \A j \in 1..l : stream[j] = latest - l + j
            BY DEF IInv, OrderInv, StreamInv
        <3>2. l \in Nat /\ latest \in Nat /\ latest' = latest + 1 /\ Len(stream') = l + 1
            BY <1>1, <1>2, <2>3
        <3>3. stream'[l + 1] = latest' /\ \A j \in 1..l : stream'[j] = stream[j]
            BY <2>3
        <3> HIDE DEF l
        <3>4. \A j \in 1..l + 1 : stream'[j] = latest' - (l + 1) + j
            <4> SUFFICES ASSUME NEW j \in 1..l + 1 PROVE stream'[j] = latest' - (l + 1) + j
                OBVIOUS
            <4>1. CASE j = l + 1
                BY <3>2, <3>3, <4>1
            <4>2. CASE j # l + 1
                <5>1. j \in 1..l
                    BY <3>2, <4>2
                <5>2. stream'[j] = latest - l + j
                    BY <3>1, <3>3, <5>1
                <5> QED BY <3>2, <5>1, <5>2
            <4> QED BY <4>1, <4>2
        <3> QED BY <3>2, <3>4 DEF StreamInv
    <2> QED BY <1>1, <1>2, <1>4, <2>2, <2>4, <2>5
<1>5. CASE at \notin Reading
    <2>1. stream = <<>> /\ stream' = <<>>
        BY <1>5 DEF IInv, TypeOK, Tweeted
    <2>2. Coming' = Coming + 1
        BY <1>1, <1>2, <2>1 DEF Coming
    <2> QED BY <1>1, <1>2, <1>3, <1>5, <2>1, <2>2 DEF StreamInv
<1> QED BY <1>4, <1>5

(* A stream that broke: what comes next is made later.                     *)
LEMMA Broken ==
    ASSUME IInv, stream' = <<>>, latest' = latest
    PROVE  StreamInv' /\ Coming <= Coming' /\ Coming' \in Int
BY Numbers DEF Coming, StreamInv

LEMMA Later ==
    ASSUME IInv, Coming <= Coming', Coming' \in Int, read' = read
    PROVE  ReadInv'
<1>1. Coming \in Int /\ read \subseteq Nat /\ IsFiniteSet(read) /\ \A n \in read : n < Coming
    BY Numbers DEF IInv, OrderInv, ReadInv
<1>2. \A n \in read : n < Coming'
    BY <1>1
<1> QED BY <1>1, <1>2 DEF ReadInv

-----------------------------------------------------------------------------
LEMMA TypeStep == IInv /\ [Next]_vars => TypeOK'
<1> SUFFICES ASSUME IInv, [Next]_vars PROVE TypeOK'
    OBVIOUS
<1>0. TypeOK
    BY DEF IInv
<1> USE <1>0, BoundsAssumption DEF TypeOK, Goto, Fault, history, ownerVars
<1>1. CASE Tweeted
    <2>1. latest' = latest + 1 /\ stream' \in Seq(1..latest')
        /\ (at \notin Reading => stream' = <<>>)
        BY <1>1, Upstream
    <2>2. UNCHANGED <<at, hand, faults, read, refused, malformed, got, errors, oneTweet, owner, done>>
        BY <1>1 DEF Tweeted
    <2>3. hand \in 0..latest' /\ read \subseteq 1..latest' /\ latest' \in Nat
        BY <2>1
    <2> QED BY <2>1, <2>2, <2>3
<1>2. CASE CloseDone
    BY <1>2 DEF CloseDone
<1>3. CASE Connect
    <2>1. <<>> \in Seq(1..latest)
        OBVIOUS
    <2> QED BY <1>3, <2>1 DEF Connect, Reading
<1>4. CASE ConnectFails \/ Sleep
    <2>1. /\ at \in {"connect", "sleep"} /\ at' \in {"failed", "connect"}
          /\ UNCHANGED <<stream, latest, hand, read, refused, malformed, got, errors,
                         oneTweet, owner, done>>
        BY <1>4 DEF ConnectFails, Sleep
    <2>2. faults' \in 0..MaxFaults
        BY <1>4 DEF ConnectFails, Sleep
    <2>3. stream = <<>>
        BY <2>1 DEF Reading
    <2> QED BY <2>1, <2>2, <2>3 DEF Erring
<1>5. CASE NextTweet
    <2>1. /\ hand' \in Nat /\ hand' # 0 /\ hand' <= latest /\ latest' = latest
          /\ stream' \in Seq(1..latest) /\ read' = read \cup {hand'}
        BY <1>5, ReadNext
    <2>2. hand' \in 0..latest /\ read' \subseteq 1..latest
        BY <2>1
    <2>3. got' \in Seq(read')
        <3>1. got' = got /\ read \subseteq read'
            BY <1>5, <2>1 DEF NextTweet
        <3> QED BY <3>1, MoreSeq
    <2>4. UNCHANGED <<errors, faults, oneTweet, owner, done>>
        BY <1>5 DEF NextTweet
    <2>5. /\ at' \in Reading /\ refused' \in Nat /\ malformed' \in Nat
        BY <1>5 DEF NextTweet, Handle, Reading
    <2> QED BY <2>1, <2>2, <2>3, <2>4, <2>5
<1>6. CASE NextFails
    <2>1. <<>> \in Seq(1..latest)
        OBVIOUS
    <2> QED BY <1>6, <2>1 DEF NextFails, Erring
<1>7. CASE TakeTweet
    <2>1. hand \in read /\ at = "offering" /\ at' = "next" /\ got' = Append(got, hand)
        BY <1>7 DEF TakeTweet, IInv, OrderInv, HandInv
    <2>2. got' \in Seq(read)
        BY <2>1
    <2>3. owner' \in {"draining", "gone"} /\ done' \in BOOLEAN
        BY <1>7 DEF TakeTweet
    <2>4. UNCHANGED <<stream, latest, hand, read, refused, malformed, errors, faults, oneTweet>>
        BY <1>7 DEF TakeTweet
    <2> QED BY <2>1, <2>2, <2>3, <2>4 DEF Reading
<1>8. CASE TakeError
    <2>1. UNCHANGED <<stream, latest, hand, read, refused, malformed, got, faults,
                      oneTweet, owner, done>> /\ errors' = errors + 1
        BY <1>8 DEF TakeError
    <2>2. at \in Erring /\ at' = AfterError
        BY <1>8 DEF TakeError
    <2>3. at = "malformed" \/ at \notin Reading
        BY <2>2 DEF Erring, Reading
    <2>4. at' \in {"connect", "sleep"} \cup Reading /\ (at' \notin Reading => at \notin Reading)
        BY <2>2, <2>3 DEF AfterError, Erring, Reading
    <2> QED BY <2>1, <2>4
<1>9. CASE UNCHANGED vars
    BY <1>9 DEF vars
<1> QED BY <1>1, <1>2, <1>3, <1>4, <1>5, <1>6, <1>7, <1>8, <1>9 DEF Next, ListenerStep

-----------------------------------------------------------------------------
(* The order.                                                              *)
LEMMA OrderStep == IInv /\ [Next]_vars => OrderInv'
<1> SUFFICES ASSUME IInv, [Next]_vars PROVE OrderInv'
    OBVIOUS
<1>0. StreamInv /\ ReadInv /\ HandInv /\ InOrder
    BY DEF IInv, OrderInv
<1> USE <1>0 DEF history, ownerVars
<1>1. CASE Tweeted
    <2>1. UNCHANGED <<at, hand, read, got>>
        BY <1>1 DEF Tweeted
    <2>2. StreamInv' /\ Coming <= Coming' /\ Coming' \in Int
        BY <1>1, Upstream
    <2>3. ReadInv'
        BY <2>1, <2>2, Later
    <2> QED BY <2>1, <2>2, <2>3 DEF OrderInv, HandInv, InOrder
<1>2. CASE CloseDone \/ ConnectFails \/ Sleep \/ TakeError
    <2>1. UNCHANGED <<stream, latest, read, hand, got>>
        BY <1>2 DEF CloseDone, ConnectFails, Sleep, TakeError
    <2>2. at' = "offering" => at = "offering"
        BY <1>2 DEF CloseDone, ConnectFails, Sleep, TakeError, AfterError, Goto
    <2>3. StreamInv' /\ ReadInv'
        BY <2>1, Frozen
    <2> QED BY <2>1, <2>2, <2>3 DEF OrderInv, HandInv, InOrder
<1>3. CASE Connect \/ NextFails
    <2>1. stream' = <<>> /\ UNCHANGED <<latest, read, hand, got>> /\ at' # "offering"
        BY <1>3 DEF Connect, NextFails, Goto
    <2>2. StreamInv' /\ Coming <= Coming' /\ Coming' \in Int
        BY <2>1, Broken
    <2>3. ReadInv'
        BY <2>1, <2>2, Later
    <2> QED BY <2>1, <2>2, <2>3 DEF OrderInv, HandInv, InOrder
<1>4. CASE NextTweet
    <2>1. /\ hand' = Coming /\ read' = read \cup {Coming} /\ Coming' = Coming + 1 /\ StreamInv'
        BY <1>4, ReadNext
    <2>2. got' = got
        BY <1>4 DEF NextTweet
    <2>3. Coming \in Int /\ read \subseteq Nat
        BY Numbers
    <2>4. IsFiniteSet(read')
        BY <2>1, FS_AddElement DEF ReadInv
    <2>5. ReadInv'
        BY <2>1, <2>3, <2>4 DEF ReadInv
    <2>6. \A k \in 1..Len(got) : got[k] \in read
        BY DEF IInv, TypeOK
    <2>7. HandInv'
        BY <2>1, <2>2, <2>6 DEF ReadInv, HandInv
    <2> QED BY <2>1, <2>2, <2>5, <2>7 DEF OrderInv, InOrder
<1>5. CASE TakeTweet
    <2>1. UNCHANGED <<stream, latest, read>> /\ at' = "next" /\ at = "offering"
        BY <1>5 DEF TakeTweet, Goto
    <2>2. StreamInv' /\ ReadInv' /\ HandInv'
        BY <2>1, Frozen DEF HandInv
    <2>3. got' = Append(got, hand) /\ \A k \in 1..Len(got) : got[k] < hand
        BY <1>5, <2>1 DEF TakeTweet, HandInv
    <2>4. /\ Len(got') = Len(got) + 1 /\ got'[Len(got) + 1] = hand /\ Len(got) \in Nat
          /\ \A k \in 1..Len(got) : got'[k] = got[k]
        BY <2>3 DEF IInv, TypeOK
    <2>5. InOrder'
        <3> SUFFICES ASSUME NEW j \in 1..Len(got'), NEW k \in 1..Len(got'), j < k
                     PROVE  got'[j] < got'[k]
            BY DEF InOrder
        <3>1. j \in 1..Len(got) /\ (k = Len(got) + 1 \/ k \in 1..Len(got))
            BY <2>4
        <3>2. CASE k = Len(got) + 1
            BY <2>3, <2>4, <3>1, <3>2
        <3>3. CASE k \in 1..Len(got)
            BY <2>4, <3>1, <3>3 DEF InOrder
        <3> QED BY <3>1, <3>2, <3>3
    <2> QED BY <2>2, <2>5 DEF OrderInv
<1>6. CASE UNCHANGED vars
    <2>1. UNCHANGED <<at, stream, latest, read, hand, got>>
        BY <1>6 DEF vars
    <2>2. StreamInv' /\ ReadInv'
        BY <2>1, Frozen
    <2> QED BY <2>1, <2>2 DEF OrderInv, HandInv, InOrder
<1> QED BY <1>1, <1>2, <1>3, <1>4, <1>5, <1>6 DEF Next, ListenerStep
-----------------------------------------------------------------------------
(* What is told.                                                           *)
LEMMA ToldStep == IInv /\ [Next]_vars => EverythingTold'
<1> SUFFICES ASSUME IInv, [Next]_vars PROVE EverythingTold'
    OBVIOUS
<1> DEFINE offered == IF at = "offering" THEN 1 ELSE 0
           owed == IF at \in Erring THEN 1 ELSE 0
<1>0. /\ Cardinality(read) = Len(got) + refused + malformed + offered
      /\ faults + malformed = errors + owed
    BY DEF IInv, EverythingTold
<1>n. /\ Len(got) \in Nat /\ refused \in Nat /\ malformed \in Nat
      /\ errors \in Nat /\ faults \in Nat /\ Cardinality(read) \in Nat
    BY Numbers
<1> SUFFICES /\ Cardinality(read') = Len(got') + refused' + malformed' + offered'
             /\ faults' + malformed' = errors' + owed'
    BY DEF EverythingTold
<1>1. CASE Tweeted \/ CloseDone \/ Connect \/ Sleep \/ UNCHANGED vars
    <2>1. UNCHANGED <<read, refused, malformed, got, errors, faults>>
        BY <1>1 DEF Tweeted, CloseDone, Connect, Sleep, vars, history
    <2>2. offered' = offered /\ owed' = owed
        BY <1>1 DEF Tweeted, CloseDone, Connect, Sleep, vars, Goto, Erring
    <2> QED BY <1>0, <2>1, <2>2
<1>2. CASE ConnectFails \/ NextFails
    <2>1. UNCHANGED <<read, refused, malformed, got, errors>> /\ faults' = faults + 1
        BY <1>2 DEF ConnectFails, NextFails, history, Fault
    <2>2. offered' = offered /\ owed = 0 /\ owed' = 1
        BY <1>2 DEF ConnectFails, NextFails, Goto, Erring
    <2> HIDE DEF offered, owed
    <2> QED BY <1>0, <1>n, <2>1, <2>2
<1>3. CASE NextTweet
    <2>1. read' = read \cup {Coming} /\ Coming \notin read
        BY <1>3, ReadNext
    <2>2. Cardinality(read') = Cardinality(read) + 1
        BY <2>1, FS_AddElement DEF IInv, OrderInv, ReadInv
    <2>3. at = "next" /\ Handle /\ UNCHANGED <<got, errors, faults>>
        BY <1>3 DEF NextTweet
    <2>4. offered = 0 /\ owed = 0
        BY <2>3 DEF Erring
    <2>5. \/ refused' = refused + 1 /\ malformed' = malformed /\ offered' = 0 /\ owed' = 0
          \/ refused' = refused /\ malformed' = malformed + 1 /\ offered' = 0 /\ owed' = 1
          \/ refused' = refused /\ malformed' = malformed /\ offered' = 1 /\ owed' = 0
        BY <2>3 DEF Handle, Erring
    <2>6. Len(got') = Len(got)
        BY <2>3
    <2> HIDE DEF offered, owed
    <2> QED BY <1>0, <1>n, <2>2, <2>3, <2>4, <2>5, <2>6
<1>4. CASE TakeTweet
    <2>1. at = "offering" /\ at' = "next" /\ got' = Append(got, hand)
        BY <1>4 DEF TakeTweet, Goto
    <2>2. offered = 1 /\ offered' = 0 /\ owed = 0 /\ owed' = 0
        BY <2>1 DEF Erring
    <2>3. Len(got') = Len(got) + 1
        BY <2>1 DEF IInv, TypeOK
    <2>4. UNCHANGED <<read, refused, malformed, errors, faults>>
        BY <1>4 DEF TakeTweet
    <2> HIDE DEF offered, owed
    <2> QED BY <1>0, <1>n, <2>2, <2>3, <2>4
<1>5. CASE TakeError
    <2>1. at \in Erring /\ at' = AfterError /\ errors' = errors + 1
        BY <1>5 DEF TakeError
    <2>2. offered = 0 /\ owed = 1
        BY <2>1 DEF Erring
    <2>3. offered' = 0 /\ owed' = 0
        BY <2>1 DEF AfterError, Erring
    <2>4. UNCHANGED <<read, refused, malformed, got, faults>>
        BY <1>5 DEF TakeError
    <2> HIDE DEF offered, owed
    <2> QED BY <1>0, <1>n, <2>1, <2>2, <2>3, <2>4
<1> QED BY <1>1, <1>2, <1>3, <1>4, <1>5 DEF Next, ListenerStep

-----------------------------------------------------------------------------
(* The gaps.                                                               *)
LEMMA GapStep == IInv /\ [Next]_vars => GapInv'
<1> SUFFICES ASSUME IInv, [Next]_vars PROVE GapInv'
    OBVIOUS
<1> DEFINE c == Cardinality(Starts)
<1>0. c + Anew <= errors + 1 + Untold
    BY DEF IInv, GapInv
<1>n. c \in Nat /\ errors \in Nat /\ IsFiniteSet(Starts)
    BY Numbers
<1>b. Anew \in {0, 1} /\ Untold \in {0, 1} /\ Anew' \in {0, 1} /\ Untold' \in {0, 1}
    BY DEF Anew, Untold
<1> SUFFICES c' + Anew' <= errors' + 1 + Untold'
    BY DEF GapInv
<1>1. CASE Tweeted
    <2>1. UNCHANGED <<at, read, errors>>
        BY <1>1 DEF Tweeted, history
    <2>2. Starts' = Starts /\ Untold' = Untold
        BY <2>1 DEF Starts, Untold
    <2>3. Anew' = Anew
        <3>1. CASE at \in Reading
            <4>1. Coming' = Coming
                BY <1>1, <3>1, Upstream
            <4> QED BY <2>1, <4>1 DEF Anew
        <3>2. CASE at \notin Reading
            BY <2>1, <3>2 DEF Anew
        <3> QED BY <3>1, <3>2
    <2> QED BY <1>0, <2>1, <2>2, <2>3
<1>2. CASE CloseDone \/ Sleep \/ TakeTweet \/ UNCHANGED vars
    <2>1. UNCHANGED <<stream, latest, read, errors>>
        BY <1>2 DEF CloseDone, Sleep, TakeTweet, vars, history
    <2>2. Starts' = Starts /\ Coming' = Coming
        BY <2>1, Frozen
    <2>3. (at' \in Reading <=> at \in Reading) /\ Untold' = Untold
        BY <1>2 DEF CloseDone, Sleep, TakeTweet, vars, Goto, Reading, Untold
    <2>4. Anew' = Anew
        BY <2>1, <2>2, <2>3 DEF Anew
    <2> QED BY <1>0, <2>1, <2>2, <2>3, <2>4
<1>3. CASE Connect \/ ConnectFails
    <2>1. UNCHANGED <<read, errors>> /\ at = "connect"
        BY <1>3 DEF Connect, ConnectFails, history, Goto
    <2>2. Starts' = Starts /\ Anew = 1 /\ Untold = 0
        BY <2>1 DEF Starts, Anew, Untold, Reading
    <2>3. c' = c /\ errors' = errors
        BY <2>1, <2>2
    <2>4. c + 1 <= errors + 1
        BY <1>0, <1>n, <2>2
    <2>5. \A a \in {0, 1}, u \in {0, 1} : c + a <= errors + 1 + u
        <3> HIDE DEF c
        <3> QED BY <1>n, <2>4
    <2>6. c + Anew' <= errors + 1 + Untold'
        BY <1>b, <2>5
    <2> QED BY <2>3, <2>6
<1>4. CASE NextFails
    <2>1. UNCHANGED <<read, errors>> /\ at = "next" /\ at' = "broken"
        BY <1>4 DEF NextFails, history, Goto
    <2>2. Starts' = Starts /\ Untold = 0 /\ Untold' = 1
        BY <2>1 DEF Starts, Untold
    <2>3. c' = c /\ errors' = errors
        BY <2>1, <2>2
    <2>4. \A a \in {0, 1}, b \in {0, 1} : c + a <= errors + 1 => c + b <= errors + 1 + 1
        <3> HIDE DEF c
        <3> QED BY <1>n
    <2>5. c + Anew <= errors + 1
        BY <1>0, <1>n, <2>2
    <2>6. c + Anew' <= errors + 1 + 1
        BY <1>b, <2>4, <2>5
    <2> QED BY <2>2, <2>3, <2>6
<1>5. CASE NextTweet
    <2>1. read' = read \cup {Coming} /\ Coming \notin read /\ Coming' = Coming + 1
        BY <1>5, ReadNext
    <2>2. at = "next" /\ at' \in Reading /\ at' \notin {"failed", "broken"} /\ errors' = errors
        BY <1>5 DEF NextTweet, Handle, Reading
    <2>3. Coming \in Int /\ read \subseteq Nat /\ \A n \in read : n < Coming
        BY Numbers DEF IInv, OrderInv, ReadInv
    <2>4. Anew' = 0 /\ Untold' = 0 /\ Untold = 0
        <3>1. Coming' - 1 = Coming
            BY <2>1, <2>3
        <3> QED BY <2>1, <2>2, <3>1 DEF Anew, Untold
    <2>5. \A n \in read : n - 1 \in read' <=> n - 1 \in read
        BY <2>1, <2>3
    <2>6. Coming - 1 \in read' <=> Coming - 1 \in read
        BY <2>1, <2>3
    <2>7. CASE Coming - 1 \in read
        <3>1. Starts' = Starts
            BY <2>1, <2>5, <2>6, <2>7 DEF Starts
        <3>2. c' = c
            BY <3>1
        <3> HIDE DEF c
        <3> QED BY <1>0, <1>n, <1>b, <2>2, <2>4, <3>2
    <2>8. CASE Coming - 1 \notin read
        <3>1. Starts' = Starts \cup {Coming} /\ Coming \notin Starts
            BY <2>1, <2>5, <2>6, <2>8 DEF Starts
        <3>2. c' = c + 1
            BY <1>n, <3>1, FS_AddElement
        <3>3. Anew = 1
            BY <2>8 DEF Anew
        <3> HIDE DEF c
        <3> QED BY <1>0, <1>n, <2>2, <2>4, <3>2, <3>3
    <2> QED BY <2>7, <2>8
<1>6. CASE TakeError
    <2>1. UNCHANGED <<stream, latest, read>> /\ errors' = errors + 1
        BY <1>6 DEF TakeError
    <2>2. Starts' = Starts /\ Coming' = Coming
        BY <2>1, Frozen
    <2>3. at \in Erring /\ at' = AfterError
        BY <1>6 DEF TakeError
    <2>4. CASE at = "malformed"
        <3>1. Untold = 0 /\ Untold' = 0 /\ Anew' = Anew
            BY <2>1, <2>2, <2>3, <2>4 DEF AfterError, Reading, Anew, Untold
        <3>2. c' = c
            BY <2>2
        <3> HIDE DEF c
        <3> QED BY <1>0, <1>n, <1>b, <2>1, <3>1, <3>2
    <2>5. CASE at # "malformed"
        <3>1. Untold = 1 /\ Untold' = 0 /\ Anew' = 1 /\ Anew = 1
            BY <2>3, <2>5 DEF AfterError, Erring, Reading, Anew, Untold
        <3>2. c' = c
            BY <2>2
        <3> HIDE DEF c
        <3> QED BY <1>0, <1>n, <2>1, <3>1, <3>2
    <2> QED BY <2>4, <2>5
<1> QED BY <1>1, <1>2, <1>3, <1>4, <1>5, <1>6 DEF Next, ListenerStep

-----------------------------------------------------------------------------
(* The invariant that the results rest on holds of every run.              *)
THEOREM Inductive == Spec => []IInv
<1>1. IInv /\ [Next]_vars => IInv'
    BY TypeStep, OrderStep, ToldStep, GapStep DEF IInv
<1> QED BY InitIInv, <1>1, PTL DEF Spec

(* However the requests and reads of ListenToTwitter fail, the owner has   *)
(* the tweets in order and none twice, and every tweet read and every      *)
(* failure is refused, given or told before the goroutine goes on.         *)
THEOREM OwnerServed == Spec => []ListenerInv
<1>1. IInv => ListenerInv
    BY DEF IInv, ListenerInv, OrderInv
<1> QED BY Inductive, <1>1, PTL

(* Whenever tweets were missed between two that stream.Next returned, an   *)
(* error the owner took tells of it.                                       *)
THEOREM GapsTold == Spec => []GapsAreTold
<1>1. IInv => GapsAreTold
    <2> SUFFICES ASSUME IInv PROVE Cardinality(Starts) <= errors + 1
        BY DEF GapsAreTold, Starts
    <2>1. Cardinality(Starts) + Anew <= errors + 1 + Untold
        BY DEF IInv, GapInv
    <2>2. Cardinality(Starts) \in Nat /\ errors \in Nat
        BY Numbers
    <2>3. CASE at \in {"failed", "broken"}
        <3>1. Anew = 1 /\ Untold = 1
            BY <2>3 DEF Anew, Untold, Reading
        <3> QED BY <2>1, <2>2, <3>1
    <2>4. CASE at \notin {"failed", "broken"}
        <3>1. Anew \in {0, 1} /\ Untold = 0
            BY <2>4 DEF Anew, Untold
        <3> QED BY <2>1, <2>2, <3>1
    <2> QED BY <2>3, <2>4
<1> QED BY Inductive, <1>1, PTL

(* Once its owner has left, the goroutine is stuck for good at the first   *)
(* tweet or error it offers on its unbuffered channels.                    *)
THEOREM StuckForGood == Spec => LeftForGood
<1>1. [Next]_vars => [LeftBehind => LeftBehind' /\ UNCHANGED <<read, errors, got>>]_vars
    <2> SUFFICES ASSUME Next, LeftBehind
                 PROVE  LeftBehind' /\ UNCHANGED <<read, errors, got>>
        OBVIOUS
    <2>1. owner = "gone" /\ at \in {"failed", "broken", "malformed", "offering"}
        BY DEF LeftBehind, Erring
    <2>2. CASE Tweeted \/ CloseDone
        BY <2>2 DEF Tweeted, CloseDone, history, ownerVars, LeftBehind, Erring
    <2>3. ~ListenerStep
        BY <2>1 DEF ListenerStep, Connect, ConnectFails, Sleep, NextTweet, NextFails,
                    TakeTweet, TakeError, Goto
    <2> QED BY <2>2, <2>3 DEF Next
<1> QED BY <1>1, PTL DEF Spec, LeftForGood
=============================================================================
