-------------------------- MODULE FeedListenerProofs --------------------------
(***************************************************************************)
(* Proofs about FeedListener, for any number of sockets, tweets and        *)
(* faults.                                                                 *)
(*                                                                         *)
(* Nothing in the code counts frames; the proofs do.  Consumed is how many *)
(* frames of the socket in use have been taken from it: what is left is    *)
(* known from it and from what arrived (FramesInv), tweets not yet taken   *)
(* are later than those the hub got (AheadInv), and as long as at most one *)
(* call has failed, or no bytes make no tweet, it is known from where the  *)
(* goroutine is and from how much the hub got (PhaseInv).                  *)
(***************************************************************************)
EXTENDS FeedListener, TLAPS

Consumed == 2 * Len(seen) - Len(queue)

(* The tweets that arrived rise; each came as a "TWEET" and a body.        *)
SeenInv ==
    /\ \A j \in 1..Len(seen) : seen[j] # Topic /\ seen[j] <= latest
    /\ \A j, k \in 1..Len(seen) : j < k => seen[j] < seen[k]

FramesInv ==
    /\ Consumed \in Nat
    /\ \A j \in 1..Len(seen) :
          /\ 2 * j > Consumed => queue[2 * j - Consumed] = seen[j]
          /\ 2 * j - 1 > Consumed => queue[2 * j - 1 - Consumed] = Topic

(* A socket that is not connected, or was never made, yields nothing.      *)
DeafInv ==
    subscriber # "live" =>
        /\ queue = <<>> /\ seen = <<>> /\ got = <<>>
        /\ at = "offering" => hand = Nothing

(* What was taken comes before what was not.                               *)
InHand == at = "offering" /\ hand # Nothing

AheadInv ==
    /\ InOrder
    /\ \A k \in 1..Len(got) : got[k] <= latest
    /\ \A k \in 1..Len(got), j \in 1..Len(seen) : 2 * j > Consumed => got[k] < seen[j]
    /\ InHand =>
          /\ hand <= latest
          /\ \A k \in 1..Len(got) : got[k] < hand
          /\ \A j \in 1..Len(seen) : 2 * j > Consumed => hand < seen[j]

(* Frames are in phase, or one call too many or too few is between them.   *)
Taken == 2 * Len(got)

Certain == subscriber = "live" /\ at # "open" /\ (faults <= 1 \/ ~emptyIsTweet)

Phase ==
    /\ at = "topic" =>
          Consumed = Taken \/ (emptyIsTweet /\ faults = 1 /\ Consumed = Taken + 1)
    /\ at = "body" =>
          \/ Consumed = Taken + 1
          \/ faults # 0 /\ Consumed = Taken
          \/ emptyIsTweet /\ faults = 1 /\ Consumed = Taken + 2
    /\ at = "offering" =>
          \/ /\ hand # Nothing /\ Consumed = Taken + 2
             /\ Len(got) + 1 \in 1..Len(seen) /\ hand = seen[Len(got) + 1]
          \/ emptyIsTweet /\ faults = 1 /\ hand = Nothing /\ Consumed = Taken + 1

PhaseInv == NothingSkipped /\ (Certain => Phase)

SocketInv == TypeOK /\ SeenInv /\ FramesInv /\ DeafInv

IInv == SocketInv /\ AheadInv /\ PhaseInv

-----------------------------------------------------------------------------
LEMMA InitIInv == Init => IInv
<1> SUFFICES ASSUME Init PROVE IInv
    OBVIOUS
<1> USE SocketsAssumption DEF Init
<1>1. TypeOK
    BY DEF TypeOK, Nothing, Topic
<1>2. SeenInv /\ FramesInv /\ DeafInv
    BY DEF SeenInv, FramesInv, DeafInv, Consumed
<1>3. AheadInv
    BY DEF AheadInv, InOrder, InHand
<1>4. PhaseInv
    BY DEF PhaseInv, NothingSkipped, Certain
<1> QED BY <1>1, <1>2, <1>3, <1>4 DEF IInv, SocketInv

-----------------------------------------------------------------------------
(* The types.                                                              *)
LEMMA NextTypeOK == TypeOK /\ [Next]_vars => TypeOK'
<1> SUFFICES ASSUME TypeOK, [Next]_vars PROVE TypeOK'
    OBVIOUS
<1> USE SocketsAssumption, BoundsAssumption DEF TypeOK, Goto, Fault, Failing, socket
<1>1. ASSUME NEW n \in 1..MaxTweet, Arrive(n) PROVE TypeOK'
    <2>1. n \in Nat /\ Topic \in Nat
        BY DEF Topic
    <2>2. queue \o <<Topic, n>> \in Seq(Nat) /\ Append(seen, n) \in Seq(Nat)
        BY <2>1
    <2> QED BY <1>1, <2>1, <2>2 DEF Arrive
<1>2. CASE Open \/ OpenFails
    <2>1. <<>> \in Seq(Nat)
        OBVIOUS
    <2>2. queue' = <<>> /\ seen' = <<>> /\ got' = <<>> /\ at' = "topic"
        BY <1>2 DEF Open, OpenFails, Fresh
    <2>3. opened' \in 0..MaxSockets /\ faults' \in Nat
        BY <1>2 DEF Open, OpenFails
    <2>4. subscriber' \in {"live", "deaf", "dead"} /\ UNCHANGED <<emptyIsTweet, latest, hand, empty>>
        BY <1>2 DEF Open, OpenFails
    <2> QED BY <2>1, <2>2, <2>3, <2>4
<1>3. CASE RecvTopic
    <2>1. queue # <<>> /\ Tail(queue) \in Seq(Nat)
        BY <1>3 DEF RecvTopic
    <2> QED BY <1>3, <2>1 DEF RecvTopic
<1>4. CASE RecvBody
    <2>1. queue # <<>> /\ Head(queue) \in Nat /\ Tail(queue) \in Seq(Nat)
        BY <1>4 DEF RecvBody
    <2> QED BY <1>4, <2>1 DEF RecvBody
<1>5. CASE RecvTopicFails
    BY <1>5 DEF RecvTopicFails
<1>6. CASE RecvBodyFails
    BY <1>6 DEF RecvBodyFails, Nothing, Topic
<1>7. CASE Offer
    <2>1. hand # Nothing => hand \in Nat
        OBVIOUS
    <2>2. hand # Nothing => Append(got, hand) \in Seq(Nat)
        BY <2>1
    <2>3. got' \in Seq(Nat) /\ empty' \in Nat
        <3>1. CASE hand = Nothing
            <4>1. got' = got /\ empty' = empty + 1
                BY <1>7, <3>1 DEF Offer
            <4> QED BY <4>1
        <3>2. CASE hand # Nothing
            <4>1. got' = Append(got, hand) /\ empty' = empty
                BY <1>7, <3>2 DEF Offer
            <4> QED BY <2>2, <3>2, <4>1
        <3> QED BY <3>1, <3>2
    <2>4. UNCHANGED <<socket, queue, latest, hand, faults, seen>> /\ at' = "topic"
        BY <1>7 DEF Offer
    <2>5. (hand \in Nat \/ hand = Nothing) /\ Topic = 0 /\ Nothing = -1
        BY DEF Topic, Nothing
    <2> QED BY <2>3, <2>4, <2>5
<1>8. CASE UNCHANGED vars
    BY <1>8 DEF vars
<1> QED BY <1>1, <1>2, <1>3, <1>4, <1>5, <1>6, <1>7, <1>8 DEF Next, ListenerStep

-----------------------------------------------------------------------------
(* The socket: three things happen to its frames.                          *)

(* A new socket has none.                                                  *)
LEMMA FreshFrames == ASSUME Fresh PROVE SeenInv' /\ FramesInv' /\ Consumed' = 0
BY DEF Fresh, SeenInv, FramesInv, Consumed

(* A tweet that arrives adds a "TWEET" and a body.                         *)
LEMMA ArrivedFrames ==
    ASSUME TypeOK, SeenInv, FramesInv, NEW n \in 1..MaxTweet, latest < n, latest' = n,
           queue' = queue \o <<Topic, n>>, seen' = Append(seen, n)
    PROVE  /\ SeenInv' /\ FramesInv' /\ Consumed' = Consumed
           /\ Len(seen') = Len(seen) + 1 /\ seen'[Len(seen) + 1] = n
           /\ \A j \in 1..Len(seen) : seen'[j] = seen[j]
<1> DEFINE l == Len(seen)  q == Len(queue)  c == Consumed
<1>1. /\ seen \in Seq(Nat) /\ queue \in Seq(Nat) /\ n \in Nat /\ n # 0 /\ Topic \in Nat
      /\ l \in Nat /\ q \in Nat /\ latest \in Nat
    BY BoundsAssumption DEF TypeOK, Topic
<1>2. c = 2 * l - q /\ c \in Nat
    BY DEF FramesInv, Consumed
<1>3. /\ Len(seen') = l + 1 /\ seen'[l + 1] = n
      /\ \A j \in 1..l : seen'[j] = seen[j]
    BY <1>1
<1>4. /\ Len(queue') = q + 2 /\ queue'[q + 1] = Topic /\ queue'[q + 2] = n
      /\ \A k \in 1..q : queue'[k] = queue[k]
    <2>1. <<Topic, n>> \in Seq(Nat) /\ Len(<<Topic, n>>) = 2
        BY <1>1
    <2>2. <<Topic, n>>[1] = Topic /\ <<Topic, n>>[2] = n
        OBVIOUS
    <2> QED BY <1>1, <2>1, <2>2
<1>5. \A j \in 1..l : /\ seen[j] \in Nat /\ seen[j] # Topic /\ seen[j] <= latest
                      /\ 2 * j > c => queue[2 * j - c] = seen[j]
                      /\ 2 * j - 1 > c => queue[2 * j - 1 - c] = Topic
    BY <1>1 DEF SeenInv, FramesInv
<1>6. \A j, k \in 1..l : j < k => seen[j] < seen[k]
    BY DEF SeenInv
<1>7. Consumed' = 2 * Len(seen') - Len(queue')
    BY DEF Consumed
<1> HIDE DEF l, q, c
<1>8. Consumed' = c
    BY <1>1, <1>2, <1>3, <1>4, <1>7
<1>9. SeenInv'
    <2>1. \A j \in 1..l + 1 : seen'[j] # Topic /\ seen'[j] <= n
        <3> SUFFICES ASSUME NEW j \in 1..l + 1 PROVE seen'[j] # Topic /\ seen'[j] <= n
            OBVIOUS
        <3>1. CASE j = l + 1
            BY <1>1, <1>3, <3>1 DEF Topic
        <3>2. CASE j # l + 1
            <4>1. j \in 1..l
                BY <1>1, <3>2
            <4> QED BY <1>1, <1>3, <1>5, <4>1
        <3> QED BY <3>1, <3>2
    <2>2. \A j, k \in 1..l + 1 : j < k => seen'[j] < seen'[k]
        <3> SUFFICES ASSUME NEW j \in 1..l + 1, NEW k \in 1..l + 1, j < k
                     PROVE  seen'[j] < seen'[k]
            OBVIOUS
        <3>1. j \in 1..l
            BY <1>1
        <3>2. CASE k = l + 1
            BY <1>1, <1>3, <1>5, <3>1, <3>2
        <3>3. CASE k # l + 1
            <4>1. k \in 1..l
                BY <1>1, <3>3
            <4> QED BY <1>3, <1>6, <3>1, <4>1
        <3> QED BY <3>2, <3>3
    <2> QED BY <1>3, <2>1, <2>2 DEF SeenInv
<1>10. FramesInv'
    <2>1. ASSUME NEW j \in 1..l + 1
          PROVE  /\ 2 * j > c => queue'[2 * j - c] = seen'[j]
                 /\ 2 * j - 1 > c => queue'[2 * j - 1 - c] = Topic
        <3>1. CASE j = l + 1
            <4>1. 2 * j - c = q + 2 /\ 2 * j - 1 - c = q + 1
                BY <1>1, <1>2, <3>1
            <4> QED BY <1>3, <1>4, <3>1, <4>1
        <3>2. CASE j # l + 1
            <4>1. j \in 1..l
                BY <1>1, <3>2
            <4>2. 2 * j > c => 2 * j - c \in 1..q
                BY <1>1, <1>2, <4>1
            <4>3. 2 * j - 1 > c => 2 * j - 1 - c \in 1..q
                BY <1>1, <1>2, <4>1
            <4> QED BY <1>3, <1>4, <1>5, <4>1, <4>2, <4>3
        <3> QED BY <3>1, <3>2
    <2> QED BY <1>2, <1>3, <1>8, <2>1 DEF FramesInv
<1> QED BY <1>3, <1>8, <1>9, <1>10 DEF l, c

(* A call takes the first frame that is left.                              *)
LEMMA TakenFrames ==
    ASSUME TypeOK, SeenInv, FramesInv, queue # <<>>,
           queue' = Tail(queue), seen' = seen, latest' = latest
    PROVE  /\ SeenInv' /\ FramesInv' /\ Consumed' = Consumed + 1
           /\ \E j \in 1..Len(seen) :
                 \/ Consumed + 1 = 2 * j - 1 /\ Head(queue) = Topic
                 \/ Consumed + 1 = 2 * j /\ Head(queue) = seen[j] /\ Head(queue) # Topic
<1> DEFINE l == Len(seen)  q == Len(queue)  c == Consumed
<1>1. /\ queue \in Seq(Nat) /\ l \in Nat /\ q \in Nat /\ q # 0
    BY DEF TypeOK
<1>2. c = 2 * l - q /\ c \in Nat
    BY DEF FramesInv, Consumed
<1>3. Len(queue') = q - 1 /\ \A k \in 1..q - 1 : queue'[k] = queue[k + 1]
    BY <1>1
<1>4. Head(queue) = queue[1]
    BY <1>1
<1>5. \A j \in 1..l : /\ 2 * j > c => queue[2 * j - c] = seen[j]
                      /\ 2 * j - 1 > c => queue[2 * j - 1 - c] = Topic
                      /\ seen[j] # Topic
    BY DEF FramesInv, SeenInv
<1>6. SeenInv'
    BY DEF SeenInv
<1>7. Consumed' = 2 * l - Len(queue')
    BY DEF Consumed
<1> HIDE DEF l, q, c
<1>8. Consumed' = c + 1
    BY <1>1, <1>2, <1>3, <1>7
<1>9. ASSUME NEW j \in 1..l
      PROVE  /\ 2 * j > c + 1 => queue'[2 * j - (c + 1)] = seen[j]
             /\ 2 * j - 1 > c + 1 => queue'[2 * j - 1 - (c + 1)] = Topic
    <2>1. 2 * j > c + 1 => /\ 2 * j - (c + 1) \in 1..q - 1
                           /\ (2 * j - (c + 1)) + 1 = 2 * j - c
        BY <1>1, <1>2
    <2>2. 2 * j - 1 > c + 1 => /\ 2 * j - 1 - (c + 1) \in 1..q - 1
                               /\ (2 * j - 1 - (c + 1)) + 1 = 2 * j - 1 - c
        BY <1>1, <1>2
    <2>3. 2 * j > c + 1 => queue'[2 * j - (c + 1)] = seen[j]
        <3> SUFFICES ASSUME 2 * j > c + 1 PROVE queue'[2 * j - (c + 1)] = seen[j]
            OBVIOUS
        <3>1. 2 * j > c
            BY <1>2
        <3> QED BY <1>3, <1>5, <2>1, <3>1
    <2>4. 2 * j - 1 > c + 1 => queue'[2 * j - 1 - (c + 1)] = Topic
        <3> SUFFICES ASSUME 2 * j - 1 > c + 1 PROVE queue'[2 * j - 1 - (c + 1)] = Topic
            OBVIOUS
        <3>1. 2 * j - 1 > c
            BY <1>2
        <3> QED BY <1>3, <1>5, <2>2, <3>1
    <2> QED BY <2>3, <2>4
<1>10. FramesInv'
    <2>1. c + 1 \in Nat
        BY <1>2
    <2> QED BY <1>8, <1>9, <2>1 DEF FramesInv, l
<1>11. PICK j \in 1..l : c + 1 = 2 * j - 1 \/ c + 1 = 2 * j
    <2>1. c + 1 \in 1..2 * l
        BY <1>1, <1>2
    <2>2. PICK i \in Nat : c + 1 = 2 * i \/ c + 1 = 2 * i - 1
        <3>1. (c + 2) \div 2 \in Nat
            BY <1>2
        <3>2. c + 1 = 2 * ((c + 2) \div 2) \/ c + 1 = 2 * ((c + 2) \div 2) - 1
            BY <1>2
        <3> QED BY <3>1, <3>2
    <2>3. i \in 1..l
        BY <1>1, <2>1, <2>2
    <2> QED BY <2>2, <2>3
<1>12. CASE c + 1 = 2 * j - 1
    <2>1. 2 * j - 1 > c /\ 2 * j - 1 - c = 1
        BY <1>2, <1>12
    <2> QED BY <1>4, <1>5, <1>6, <1>8, <1>10, <1>12, <2>1 DEF l, c
<1>13. CASE c + 1 = 2 * j
    <2>1. 2 * j > c /\ 2 * j - c = 1
        BY <1>2, <1>13
    <2> QED BY <1>4, <1>5, <1>6, <1>8, <1>10, <1>13, <2>1 DEF l, c
<1> QED BY <1>11, <1>12, <1>13

(* A step that leaves the frames alone.                                    *)
LEMMA SameFrames ==
    ASSUME SeenInv, FramesInv, UNCHANGED <<queue, seen, latest>>
    PROVE  SeenInv' /\ FramesInv' /\ Consumed' = Consumed
BY DEF SeenInv, FramesInv, Consumed

(* One that publishes a tweet which does not arrive.                       *)
LEMMA MissedFrames ==
    ASSUME TypeOK, SeenInv, FramesInv, NEW n \in Nat, latest < n, latest' = n,
           UNCHANGED <<queue, seen>>
    PROVE  SeenInv' /\ FramesInv' /\ Consumed' = Consumed
<1>1. FramesInv' /\ Consumed' = Consumed
    BY DEF FramesInv, Consumed
<1>2. \A j \in 1..Len(seen) : seen[j] \in Nat /\ seen[j] # Topic /\ seen[j] <= latest
    BY DEF TypeOK, SeenInv
<1>3. latest \in Nat
    BY DEF TypeOK
<1>4. \A j \in 1..Len(seen) : seen[j] # Topic /\ seen[j] <= n
    BY <1>2, <1>3
<1>5. SeenInv'
    BY <1>4 DEF SeenInv
<1> QED BY <1>1, <1>5

LEMMA SocketStep == SocketInv /\ [Next]_vars => SocketInv'
<1> SUFFICES ASSUME SocketInv, [Next]_vars PROVE SocketInv'
    OBVIOUS
<1> USE DEF SocketInv
<1>1. TypeOK'
    BY NextTypeOK
<1>2. ASSUME NEW n \in 1..MaxTweet, Arrive(n) PROVE SeenInv' /\ FramesInv' /\ DeafInv'
    <2>1. n \in Nat /\ latest < n /\ latest' = n
        BY <1>2, BoundsAssumption DEF Arrive
    <2>2. CASE /\ subscriber = "live" /\ queue' = queue \o <<Topic, n>>
               /\ seen' = Append(seen, n)
        <3>1. SeenInv' /\ FramesInv'
            BY <2>1, <2>2, ArrivedFrames
        <3>2. DeafInv'
            BY <1>2, <2>2 DEF DeafInv, Arrive, socket
        <3> QED BY <3>1, <3>2
    <2>3. CASE UNCHANGED <<queue, seen>>
        <3>1. SeenInv' /\ FramesInv'
            BY <2>1, <2>3, MissedFrames
        <3>2. DeafInv'
            BY <1>2, <2>3 DEF DeafInv, Arrive, socket
        <3> QED BY <3>1, <3>2
    <2> QED BY <1>2, <2>2, <2>3 DEF Arrive
<1>3. CASE Open \/ OpenFails
    <2>1. SeenInv' /\ FramesInv'
        BY <1>3, FreshFrames DEF Open, OpenFails
    <2>2. DeafInv'
        BY <1>3 DEF Open, OpenFails, Fresh, Goto, DeafInv
    <2> QED BY <1>1, <2>1, <2>2
<1>4. CASE RecvTopic \/ RecvBody
    <2>1. queue # <<>> /\ queue' = Tail(queue) /\ UNCHANGED <<subscriber, seen, latest>>
        BY <1>4 DEF RecvTopic, RecvBody, socket
    <2>2. SeenInv' /\ FramesInv'
        BY <2>1, TakenFrames
    <2>3. DeafInv'
        BY <2>1 DEF DeafInv
    <2> QED BY <1>1, <2>2, <2>3
<1>5. CASE RecvTopicFails
    <2>1. SeenInv' /\ FramesInv'
        BY <1>5, SameFrames DEF RecvTopicFails
    <2>2. DeafInv'
        BY <1>5 DEF RecvTopicFails, Goto, DeafInv, socket
    <2> QED BY <1>1, <2>1, <2>2
<1>6. CASE RecvBodyFails
    <2>1. SeenInv' /\ FramesInv'
        BY <1>6, SameFrames DEF RecvBodyFails
    <2>2. DeafInv'
        BY <1>6 DEF RecvBodyFails, Goto, DeafInv, socket
    <2> QED BY <1>1, <2>1, <2>2
<1>7. CASE Offer
    <2>1. SeenInv' /\ FramesInv'
        BY <1>7, SameFrames DEF Offer
    <2>2. subscriber' = subscriber /\ queue' = queue /\ seen' = seen /\ at = "offering"
        BY <1>7 DEF Offer, Goto, socket
    <2>3. at' = "topic" /\ (hand = Nothing => got' = got)
        BY <1>7 DEF Offer, Goto
    <2>4. DeafInv'
        BY <2>2, <2>3 DEF DeafInv
    <2> QED BY <1>1, <2>1, <2>4
<1>8. CASE UNCHANGED vars
    <2>1. SeenInv' /\ FramesInv'
        BY <1>8, SameFrames DEF vars
    <2>2. DeafInv'
        BY <1>8 DEF vars, socket, DeafInv
    <2> QED BY <1>1, <2>1, <2>2
<1> QED BY <1>1, <1>2, <1>3, <1>4, <1>5, <1>6, <1>7, <1>8 DEF Next, ListenerStep

-----------------------------------------------------------------------------
(* The order.                                                              *)
LEMMA AheadStep == SocketInv /\ AheadInv /\ [Next]_vars => AheadInv'
<1> SUFFICES ASSUME SocketInv, AheadInv, [Next]_vars PROVE AheadInv'
    OBVIOUS
<1> USE DEF SocketInv
<1>0. /\ Consumed \in Nat /\ latest \in Nat
      /\ got \in Seq(Nat) /\ seen \in Seq(Nat) /\ Len(got) \in Nat /\ Len(seen) \in Nat
      /\ \A k \in 1..Len(got) : got[k] \in Nat
      /\ \A j \in 1..Len(seen) : seen[j] \in Nat
    BY DEF FramesInv, TypeOK
<1>1. ASSUME NEW n \in 1..MaxTweet, Arrive(n) PROVE AheadInv'
    <2>1. n \in Nat /\ latest < n /\ latest' = n
        BY <1>1, BoundsAssumption DEF Arrive
    <2>2. UNCHANGED <<at, hand, got>>
        BY <1>1 DEF Arrive
    <2>3. InHand => hand \in Nat
        BY DEF InHand, TypeOK
    <2>4. (InHand' <=> InHand) /\ (InOrder' <=> InOrder)
        BY <2>2 DEF InHand, InOrder
    <2>5. \A k \in 1..Len(got) : got[k] <= n /\ got[k] < n
        BY <1>0, <2>1 DEF AheadInv
    <2>6. InHand => hand <= n /\ hand < n
        BY <1>0, <2>1, <2>3 DEF AheadInv
    <2>7. CASE /\ subscriber = "live" /\ queue' = queue \o <<Topic, n>>
               /\ seen' = Append(seen, n)
        <3>1. /\ Consumed' = Consumed /\ Len(seen') = Len(seen) + 1
              /\ seen'[Len(seen) + 1] = n
              /\ \A j \in 1..Len(seen) : seen'[j] = seen[j]
            BY <2>1, <2>7, ArrivedFrames
        <3>2. \A j \in 1..Len(seen') : j = Len(seen) + 1 \/ j \in 1..Len(seen)
            BY <1>0, <3>1
        <3>3. \A k \in 1..Len(got), j \in 1..Len(seen') :
                    2 * j > Consumed => got[k] < seen'[j]
            BY <2>5, <3>1, <3>2 DEF AheadInv
        <3>4. InHand => \A j \in 1..Len(seen') : 2 * j > Consumed => hand < seen'[j]
            BY <2>6, <3>1, <3>2 DEF AheadInv
        <3> QED BY <2>1, <2>2, <2>4, <2>5, <2>6, <3>1, <3>3, <3>4 DEF AheadInv
    <2>8. CASE UNCHANGED <<queue, seen>>
        <3>1. Consumed' = Consumed
            BY <2>8 DEF Consumed
        <3> QED BY <2>1, <2>2, <2>4, <2>5, <2>6, <2>8, <3>1 DEF AheadInv
    <2> QED BY <1>1, <2>7, <2>8 DEF Arrive
<1>2. CASE Open \/ OpenFails
    <2>1. got' = <<>> /\ at' = "topic"
        BY <1>2 DEF Open, OpenFails, Fresh, Goto
    <2> QED BY <2>1 DEF AheadInv, InOrder, InHand
<1>3. CASE RecvTopic
    <2>1. queue # <<>> /\ queue' = Tail(queue) /\ UNCHANGED <<seen, latest, got>> /\ at' = "body"
        BY <1>3 DEF RecvTopic, Goto
    <2>2. Consumed' = Consumed + 1
        BY <2>1, TakenFrames
    <2>3. \A j \in 1..Len(seen) : 2 * j > Consumed + 1 => 2 * j > Consumed
        BY <1>0
    <2> QED BY <2>1, <2>2, <2>3 DEF AheadInv, InOrder, InHand
<1>4. CASE RecvBody
    <2>1. queue # <<>> /\ queue' = Tail(queue) /\ UNCHANGED <<seen, latest, got>>
        BY <1>4 DEF RecvBody
    <2>2. Consumed' = Consumed + 1
        BY <2>1, TakenFrames
    <2>3. \A j \in 1..Len(seen) : 2 * j > Consumed + 1 => 2 * j > Consumed
        BY <1>0
    <2>4. /\ InOrder' /\ \A k \in 1..Len(got') : got'[k] <= latest'
          /\ \A k \in 1..Len(got'), j \in 1..Len(seen') : 2 * j > Consumed' => got'[k] < seen'[j]
        BY <2>1, <2>2, <2>3 DEF AheadInv, InOrder
    <2>5. CASE Head(queue) = Topic
        BY <1>4, <2>4, <2>5 DEF RecvBody, Goto, InHand, AheadInv
    <2>6. CASE Head(queue) # Topic
        <3>1. PICK i \in 1..Len(seen) : Consumed + 1 = 2 * i /\ Head(queue) = seen[i]
            BY <2>1, <2>6, TakenFrames
        <3>2. hand' = seen[i]
            BY <1>4, <2>6, <3>1 DEF RecvBody
        <3>3. seen[i] <= latest /\ \A j \in 1..Len(seen) : i < j => seen[i] < seen[j]
            BY DEF SeenInv
        <3>4. 2 * i > Consumed /\ \A j \in 1..Len(seen) : 2 * j > Consumed + 1 => i < j
            BY <1>0, <3>1
        <3>5. \A k \in 1..Len(got) : got[k] < seen[i]
            BY <3>4 DEF AheadInv
        <3>6. /\ hand' <= latest' /\ \A k \in 1..Len(got') : got'[k] < hand'
              /\ \A j \in 1..Len(seen') : 2 * j > Consumed' => hand' < seen'[j]
            BY <2>1, <2>2, <3>2, <3>3, <3>4, <3>5
        <3> QED BY <2>4, <3>6 DEF AheadInv
    <2> QED BY <2>5, <2>6
<1>5. CASE RecvTopicFails \/ RecvBodyFails
    <2>1. UNCHANGED <<queue, seen, latest, got>>
        BY <1>5 DEF RecvTopicFails, RecvBodyFails
    <2>2. ~InHand'
        BY <1>5 DEF RecvTopicFails, RecvBodyFails, Goto, InHand
    <2>3. Consumed' = Consumed
        BY <2>1 DEF Consumed
    <2> QED BY <2>1, <2>2, <2>3 DEF AheadInv, InOrder
<1>6. CASE Offer
    <2>1. UNCHANGED <<queue, seen, latest>> /\ at = "offering" /\ at' = "topic"
        BY <1>6 DEF Offer, Goto
    <2>2. Consumed' = Consumed /\ ~InHand'
        BY <2>1 DEF Consumed, InHand
    <2>3. CASE hand = Nothing
        <3>1. got' = got
            BY <1>6, <2>3 DEF Offer
        <3> QED BY <2>1, <2>2, <3>1 DEF AheadInv, InOrder
    <2>4. CASE hand # Nothing
        <3>1. got' = Append(got, hand) /\ InHand /\ hand \in Nat
            BY <1>6, <2>1, <2>4 DEF Offer, InHand, TypeOK
        <3>2. /\ Len(got') = Len(got) + 1 /\ got'[Len(got) + 1] = hand
              /\ \A k \in 1..Len(got) : got'[k] = got[k]
            BY <1>0, <3>1
        <3>3. \A k \in 1..Len(got') : k = Len(got) + 1 \/ k \in 1..Len(got)
            BY <1>0, <3>2
        <3>4. InOrder'
            <4> SUFFICES ASSUME NEW j \in 1..Len(got'), NEW k \in 1..Len(got'), j < k
                         PROVE  got'[j] < got'[k]
                BY DEF InOrder
            <4>1. j \in 1..Len(got)
                BY <1>0, <3>2
            <4>2. CASE k = Len(got) + 1
                BY <3>1, <3>2, <4>1, <4>2 DEF AheadInv
            <4>3. CASE k \in 1..Len(got)
                BY <3>2, <4>1, <4>3 DEF AheadInv, InOrder
            <4> QED BY <3>3, <4>2, <4>3
        <3>5. \A k \in 1..Len(got') : got'[k] <= latest'
            BY <2>1, <3>1, <3>2, <3>3 DEF AheadInv
        <3>6. \A k \in 1..Len(got'), j \in 1..Len(seen') : 2 * j > Consumed' => got'[k] < seen'[j]
            BY <2>1, <2>2, <3>1, <3>2, <3>3 DEF AheadInv
        <3> QED BY <2>2, <3>4, <3>5, <3>6 DEF AheadInv
    <2> QED BY <2>3, <2>4
<1>7. CASE UNCHANGED vars
    <2>1. UNCHANGED <<at, queue, seen, latest, got, hand>>
        BY <1>7 DEF vars
    <2>2. Consumed' = Consumed
        BY <2>1 DEF Consumed
    <2> QED BY <2>1, <2>2 DEF AheadInv, InOrder, InHand
<1> QED BY <1>1, <1>2, <1>3, <1>4, <1>5, <1>6, <1>7 DEF Next, ListenerStep

-----------------------------------------------------------------------------
(* The phase.                                                              *)
LEMMA PhaseStep == SocketInv /\ PhaseInv /\ [Next]_vars => PhaseInv'
<1> SUFFICES ASSUME SocketInv, PhaseInv, [Next]_vars PROVE PhaseInv'
    OBVIOUS
<1> USE DEF SocketInv
<1>0. /\ Consumed \in Nat /\ Taken \in Nat /\ faults \in Nat
      /\ got \in Seq(Nat) /\ seen \in Seq(Nat) /\ Len(got) \in Nat /\ Len(seen) \in Nat
      /\ Taken = 2 * Len(got)
    BY DEF FramesInv, TypeOK, Taken
<1>1. ASSUME NEW n \in 1..MaxTweet, Arrive(n) PROVE PhaseInv'
    <2>1. n \in Nat /\ latest < n /\ latest' = n
        BY <1>1, BoundsAssumption DEF Arrive
    <2>2. UNCHANGED <<at, emptyIsTweet, subscriber, hand, faults, got>>
        BY <1>1 DEF Arrive, socket
    <2>3. Consumed' = Consumed /\ Len(seen) <= Len(seen')
          /\ \A j \in 1..Len(seen) : seen'[j] = seen[j]
        <3>1. CASE queue' = queue \o <<Topic, n>> /\ seen' = Append(seen, n)
            <4>1. /\ Consumed' = Consumed /\ Len(seen') = Len(seen) + 1
                  /\ \A j \in 1..Len(seen) : seen'[j] = seen[j]
                BY <2>1, <3>1, ArrivedFrames
            <4> QED BY <1>0, <4>1
        <3>2. CASE UNCHANGED <<queue, seen>>
            BY <1>0, <3>2 DEF Consumed
        <3> QED BY <1>1, <3>1, <3>2 DEF Arrive
    <2>4. Taken' = Taken /\ (Certain' <=> Certain)
        BY <2>2 DEF Taken, Certain
    <2>5. \A j \in 1..Len(seen) : j \in 1..Len(seen')
        <3> DEFINE l == Len(seen)  m == Len(seen')
        <3>1. m \in Nat
            BY NextTypeOK DEF TypeOK
        <3>2. l \in Nat /\ l <= m
            BY <1>0, <2>3
        <3> HIDE DEF l, m
        <3>3. \A j \in 1..l : j \in 1..m
            BY <3>1, <3>2
        <3> QED BY <3>3 DEF l, m
    <2>6. NothingSkipped'
        <3> SUFFICES ASSUME faults <= 1 \/ ~emptyIsTweet
                     PROVE  /\ Len(got) <= Len(seen')
                            /\ \A k \in 1..Len(got) : got[k] = seen'[k]
            BY <2>2 DEF NothingSkipped
        <3>1. Len(got) <= Len(seen) /\ \A k \in 1..Len(got) : got[k] = seen[k]
            BY DEF PhaseInv, NothingSkipped
        <3>2. \A k \in 1..Len(got) : k \in 1..Len(seen)
            BY <1>0, <3>1
        <3>3. Len(seen') \in Nat
            BY NextTypeOK DEF TypeOK
        <3>4. Len(got) <= Len(seen')
            BY <1>0, <2>3, <3>1, <3>3
        <3> QED BY <2>3, <3>1, <3>2, <3>4
    <2>7. Certain => Phase'
        BY <2>2, <2>3, <2>4, <2>5 DEF PhaseInv, Phase
    <2> QED BY <2>4, <2>6, <2>7 DEF PhaseInv
<1>2. CASE Open \/ OpenFails
    <2>1. got' = <<>> /\ seen' = <<>> /\ at' = "topic" /\ Consumed' = 0
        BY <1>2, FreshFrames DEF Open, OpenFails, Fresh, Goto
    <2>2. Taken' = 0
        BY <2>1 DEF Taken
    <2> QED BY <2>1, <2>2 DEF PhaseInv, NothingSkipped, Phase
<1>3. CASE RecvTopic
    <2>1. queue # <<>> /\ queue' = Tail(queue) /\ at = "topic" /\ at' = "body"
          /\ UNCHANGED <<emptyIsTweet, subscriber, faults, seen, latest, got>>
        BY <1>3 DEF RecvTopic, Goto, socket
    <2>2. Consumed' = Consumed + 1 /\ Taken' = Taken
        BY <2>1, TakenFrames DEF Taken
    <2>3. NothingSkipped' /\ (Certain' => Certain)
        BY <2>1 DEF PhaseInv, NothingSkipped, Certain
    <2>4. Certain => Consumed = Taken \/ (emptyIsTweet /\ faults = 1 /\ Consumed = Taken + 1)
        BY <2>1 DEF PhaseInv, Phase
    <2>5. Certain => Phase'
        BY <1>0, <2>1, <2>2, <2>4 DEF Phase
    <2> QED BY <2>3, <2>5 DEF PhaseInv
<1>4. CASE RecvTopicFails
    <2>1. at = "topic" /\ at' = "body" /\ UNCHANGED <<emptyIsTweet, subscriber, seen, queue, got>>
        BY <1>4 DEF RecvTopicFails, Goto, socket
    <2>2. Consumed' = Consumed /\ Taken' = Taken
        BY <2>1 DEF Consumed, Taken
    <2>3. subscriber = "live" => faults' = faults + 1
        BY <1>4 DEF RecvTopicFails, Failing, Fault
    <2>4. faults' = faults \/ faults' = faults + 1
        BY <1>4 DEF RecvTopicFails, Failing, Fault
    <2>5. faults' <= 1 => faults <= 1
        BY <1>0, <2>4
    <2>6. NothingSkipped' /\ (Certain' => Certain)
        BY <2>1, <2>5 DEF PhaseInv, NothingSkipped, Certain
    <2>7. ASSUME Certain' PROVE Phase'
        <3>1. Consumed = Taken \/ (emptyIsTweet /\ faults = 1 /\ Consumed = Taken + 1)
            BY <2>1, <2>6, <2>7 DEF PhaseInv, Phase
        <3>2. faults' = faults + 1 /\ (emptyIsTweet => faults' <= 1)
            BY <2>1, <2>3, <2>7 DEF Certain
        <3>3. Consumed' = Taken' /\ faults' # 0
            BY <1>0, <2>2, <3>1, <3>2
        <3> QED BY <2>1, <3>3 DEF Phase
    <2> QED BY <2>6, <2>7 DEF PhaseInv
<1>5. CASE RecvBody
    <2>1. queue # <<>> /\ queue' = Tail(queue) /\ at = "body"
          /\ UNCHANGED <<emptyIsTweet, subscriber, faults, seen, latest, got>>
        BY <1>5 DEF RecvBody, Goto, socket
    <2>2. Consumed' = Consumed + 1 /\ Taken' = Taken
        BY <2>1, TakenFrames DEF Taken
    <2>3. NothingSkipped' /\ (Certain' => Certain)
        BY <2>1 DEF PhaseInv, NothingSkipped, Certain
    <2>4. CASE Head(queue) = Topic
        <3>1. ~Certain'
            BY <1>5, <2>4 DEF RecvBody, Goto, Certain
        <3> QED BY <2>3, <3>1 DEF PhaseInv
    <2>5. CASE Head(queue) # Topic
        <3>1. PICK i \in 1..Len(seen) : Consumed + 1 = 2 * i /\ Head(queue) = seen[i]
            BY <2>1, <2>5, TakenFrames
        <3>2. hand' = seen[i] /\ at' = "offering" /\ hand' # Nothing
            <4>1. hand' = seen[i] /\ at' = "offering"
                BY <1>5, <2>5, <3>1 DEF RecvBody, Goto
            <4>2. seen[i] \in Nat
                BY <1>0, <3>1
            <4> QED BY <4>1, <4>2 DEF Nothing
        <3>3. ASSUME Certain' PROVE Phase'
            <4>1. \/ Consumed = Taken + 1 \/ Consumed = Taken \/ Consumed = Taken + 2
                BY <2>1, <2>3, <3>3 DEF PhaseInv, Phase
            <4>2. i = Len(got) + 1 /\ Consumed = Taken + 1
                <5> DEFINE g == Len(got)
                <5>1. g \in Nat /\ Taken = 2 * g /\ i \in Nat
                    BY <1>0, <3>1
                <5> HIDE DEF g
                <5>2. i = g + 1
                    BY <3>1, <4>1, <5>1
                <5>3. Consumed = Taken + 1
                    BY <3>1, <5>1, <5>2, <1>0
                <5> QED BY <5>2, <5>3 DEF g
            <4>3. Consumed' = Taken' + 2
                BY <1>0, <2>2, <4>2
            <4>4. Len(got') + 1 \in 1..Len(seen') /\ hand' = seen'[Len(got') + 1]
                BY <2>1, <3>1, <3>2, <4>2
            <4> QED BY <3>2, <4>3, <4>4 DEF Phase
        <3> QED BY <2>3, <3>3 DEF PhaseInv
    <2> QED BY <2>4, <2>5
<1>6. CASE RecvBodyFails
    <2>1. at = "body" /\ UNCHANGED <<emptyIsTweet, subscriber, seen, queue, got>>
        BY <1>6 DEF RecvBodyFails, Goto, socket
    <2>2. Consumed' = Consumed /\ Taken' = Taken
        BY <2>1 DEF Consumed, Taken
    <2>3. subscriber = "live" => faults' = faults + 1
        BY <1>6 DEF RecvBodyFails, Failing, Fault
    <2>4. faults' = faults \/ faults' = faults + 1
        BY <1>6 DEF RecvBodyFails, Failing, Fault
    <2>5. faults' <= 1 => faults <= 1
        BY <1>0, <2>4
    <2>6. NothingSkipped' /\ (Certain' => Certain)
        BY <2>1, <2>5 DEF PhaseInv, NothingSkipped, Certain
    <2>7. ASSUME Certain', emptyIsTweet PROVE Phase'
        <3>1. at' = "offering" /\ hand' = Nothing
            BY <1>6, <2>7 DEF RecvBodyFails, Goto
        <3>2. faults = 0 /\ faults' = 1
            BY <1>0, <2>1, <2>3, <2>7 DEF Certain
        <3>3. Consumed = Taken + 1
            BY <2>1, <2>6, <2>7, <3>2 DEF PhaseInv, Phase
        <3> QED BY <2>1, <2>2, <2>7, <3>1, <3>2, <3>3 DEF Phase
    <2>8. ~emptyIsTweet => ~Certain'
        BY <1>6 DEF RecvBodyFails, Goto, Certain
    <2> QED BY <2>6, <2>7, <2>8 DEF PhaseInv
<1>7. CASE Offer
    <2>1. UNCHANGED <<emptyIsTweet, subscriber, faults, seen, queue>>
          /\ at = "offering" /\ at' = "topic"
        BY <1>7 DEF Offer, Goto, socket
    <2>2. Consumed' = Consumed /\ (Certain' <=> Certain)
        BY <2>1 DEF Consumed, Certain
    <2>3. CASE hand = Nothing
        <3>1. got' = got /\ Taken' = Taken
            BY <1>7, <2>3 DEF Offer, Taken
        <3>2. NothingSkipped'
            BY <2>1, <3>1 DEF PhaseInv, NothingSkipped
        <3>3. Certain => Phase'
            BY <2>1, <2>2, <2>3, <3>1 DEF PhaseInv, Phase
        <3> QED BY <2>2, <3>2, <3>3 DEF PhaseInv
    <2>4. CASE hand # Nothing
        <3>1. got' = Append(got, hand) /\ hand \in Nat
            BY <1>7, <2>4 DEF Offer, TypeOK
        <3>2. /\ Len(got') = Len(got) + 1 /\ got'[Len(got) + 1] = hand
              /\ \A k \in 1..Len(got) : got'[k] = got[k]
            BY <1>0, <3>1
        <3>3. \A k \in 1..Len(got') : k = Len(got) + 1 \/ k \in 1..Len(got)
            BY <1>0, <3>2
        <3>4. Taken' = Taken + 2
            <4> DEFINE g == Len(got)
            <4>1. g \in Nat /\ Taken = 2 * g /\ Taken' = 2 * Len(got') /\ Len(got') = g + 1
                BY <1>0, <3>2 DEF Taken
            <4> HIDE DEF g
            <4> QED BY <4>1
        <3>5. subscriber = "live"
            BY <2>1, <2>4 DEF DeafInv
        <3>6. ASSUME Certain
              PROVE  /\ Consumed = Taken + 2
                     /\ Len(got) + 1 \in 1..Len(seen) /\ hand = seen[Len(got) + 1]
            BY <2>1, <2>4, <3>6 DEF PhaseInv, Phase
        <3>7. faults <= 1 \/ ~emptyIsTweet => Certain
            BY <2>1, <3>5 DEF Certain
        <3>8. NothingSkipped'
            <4> SUFFICES ASSUME faults <= 1 \/ ~emptyIsTweet
                         PROVE  /\ Len(got') <= Len(seen)
                                /\ \A k \in 1..Len(got') : got'[k] = seen[k]
                BY <2>1 DEF NothingSkipped
            <4>1. \A k \in 1..Len(got) : got[k] = seen[k]
                BY DEF PhaseInv, NothingSkipped
            <4>2. Len(got) + 1 <= Len(seen) /\ hand = seen[Len(got) + 1]
                BY <1>0, <3>6, <3>7
            <4> QED BY <3>2, <3>3, <4>1, <4>2
        <3>9. Certain => Phase'
            BY <2>1, <2>2, <3>4, <3>6 DEF Phase
        <3> QED BY <2>2, <3>8, <3>9 DEF PhaseInv
    <2> QED BY <2>3, <2>4
<1>8. CASE UNCHANGED vars
    <2>1. UNCHANGED <<emptyIsTweet, subscriber, at, queue, seen, got, hand, faults>>
        BY <1>8 DEF vars, socket
    <2>2. Consumed' = Consumed /\ Taken' = Taken
        BY <2>1 DEF Consumed, Taken
    <2> QED BY <2>1, <2>2 DEF PhaseInv, NothingSkipped, Certain, Phase
<1> QED BY <1>1, <1>2, <1>3, <1>4, <1>5, <1>6, <1>7, <1>8 DEF Next, ListenerStep

-----------------------------------------------------------------------------
LEMMA Inductive == Spec => []IInv
<1>1. IInv /\ [Next]_vars => IInv'
    BY SocketStep, AheadStep, PhaseStep DEF IInv
<1> QED BY InitIInv, <1>1, PTL DEF Spec

(* What the hub of the feed gets from listenForTweets rises, and while at  *)
(* most one call failed, or no bytes make no tweet, it is all that came.   *)
THEOREM HubGetsWhatCame == Spec => []ListenerInv
<1>1. IInv => ListenerInv
    BY DEF IInv, SocketInv, AheadInv, PhaseInv, ListenerInv
<1> QED BY Inductive, <1>1, PTL

(* listenForTweets closes no socket, so one that has run out of them, or   *)
(* is fed by one never made, gives the hub nothing ever again.             *)
THEOREM OutOfSockets == Spec => LostForGood
<1>1. IInv /\ Next /\ Lost => Lost' /\ Len(got') <= Len(got)
    <2> SUFFICES ASSUME IInv, Next, Lost PROVE Lost' /\ Len(got') <= Len(got)
        OBVIOUS
    <2>1. TypeOK /\ DeafInv /\ Len(got) \in Nat
        BY DEF IInv, SocketInv, TypeOK
    <2>2. opened <= MaxSockets /\ (queue # <<>> => subscriber = "live")
        BY <2>1, SocketsAssumption DEF TypeOK, DeafInv
    <2>3. ASSUME NEW n \in 1..MaxTweet, Arrive(n) PROVE Lost' /\ got' = got
        BY <2>3 DEF Arrive, Lost, socket
    <2>4. ~Open
        BY SocketsAssumption DEF Open, Goto, Lost
    <2>5. CASE OpenFails
        <3>1. Lost'
            BY <2>5 DEF OpenFails, Goto, Lost
        <3>2. Len(got') = 0
            BY <2>5 DEF OpenFails, Fresh
        <3> QED BY <2>1, <3>1, <3>2
    <2>6. ~RecvTopic /\ ~RecvBody
        BY <2>2 DEF RecvTopic, RecvBody, Goto, Lost
    <2>7. CASE RecvTopicFails
        BY <2>1, <2>7 DEF RecvTopicFails, Goto, Lost, socket
    <2>8. CASE RecvBodyFails
        BY <2>1, <2>8 DEF RecvBodyFails, Goto, Lost, socket
    <2>9. CASE Offer
        <3>1. subscriber = "dead" /\ at = "offering" /\ at' = "topic"
            BY <2>9 DEF Offer, Goto, Lost
        <3>2. got' = got /\ UNCHANGED socket
            BY <2>1, <2>9, <3>1 DEF Offer, DeafInv
        <3> QED BY <2>1, <3>1, <3>2 DEF Lost, socket
    <2> QED BY <2>1, <2>3, <2>4, <2>5, <2>6, <2>7, <2>8, <2>9 DEF Next, ListenerStep
<1>2. IInv /\ [Next]_vars => [Lost => Lost' /\ Len(got') <= Len(got)]_vars
    BY <1>1
<1> QED BY Inductive, <1>2, PTL DEF Spec, LostForGood
=============================================================================
