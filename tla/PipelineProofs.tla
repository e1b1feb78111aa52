---------------------------- MODULE PipelineProofs ----------------------------
(***************************************************************************)
(* Proofs about the pipeline: first of the publisher alone, then of the    *)
(* receiver alone, then of both with the network between them, and last of *)
(* the bytes that Marshal hands to Unmarshal across it.                    *)
(***************************************************************************)
EXTENDS Pipeline, WireFormat, FiniteSetTheorems, FunctionTheorems, WellFoundedInduction,
        TLAPS

-----------------------------------------------------------------------------
(***************************************************************************)
(* TweetPublisher, for any batch and any number of errors: every loss is   *)
(* reported once, and the messages on the wire show exactly the losses     *)
(* between them.  The second is inductive only with OpenInv, which says    *)
(* what the message under way has gathered at each place.                  *)
(***************************************************************************)

(* The last tweet on the wire.                                             *)
LastSent == IF Len(wire) = 0 THEN 0 ELSE wire[Len(wire)].tweet

(* While the publisher lives, the "TWEET" frames under way are those of    *)
(* the tweets taken since the last message, less the one not begun yet.    *)
OpenInv ==
    /\ pubPc \in {"setup", "setupFailed"} => accepted = 0 /\ open = 0 /\ wire = <<>>
    /\ pubPc \in {"range", "body", "reporting"} => open = accepted - LastSent
    /\ pubPc \in {"marshal", "topic"} => open = accepted - 1 - LastSent
    /\ pubPc = "body" => open >= 1

CounterInv == ownerPc \in {"select", "offering"} => i < Limit

IInv == TypeOK /\ EveryLossReported /\ LossesLeaveFrames /\ OpenInv /\ CounterInv

-----------------------------------------------------------------------------
(* The initial state satisfies the invariant.                              *)
LEMMA InitIInv == Init => IInv
<1> SUFFICES ASSUME Init PROVE IInv
    OBVIOUS
<1> USE LimitAssumption DEF Init
<1>1. TypeOK /\ CounterInv
    BY DEF TypeOK, CounterInv
<1>2. EveryLossReported /\ LossesLeaveFrames /\ OpenInv
    BY DEF EveryLossReported, InHand, Busy, LossesLeaveFrames, OpenInv, LastSent
<1> QED BY <1>1, <1>2 DEF IInv

(* The tally of what was sent is a number.                                 *)
LEMMA LastSentType == TypeOK => LastSent \in Nat
<1> SUFFICES ASSUME TypeOK PROVE LastSent \in Nat
    OBVIOUS
<1>1. Len(wire) \in Nat
    BY DEF TypeOK
<1>2. CASE Len(wire) = 0
    BY <1>2 DEF LastSent
<1>3. CASE Len(wire) # 0
    <2>1. Len(wire) \in 1..Len(wire)
        BY <1>1, <1>3
    <2>2. wire[Len(wire)] \in Message
        BY <2>1 DEF TypeOK
    <2> QED BY <1>3, <2>2 DEF LastSent, Message
<1> QED BY <1>2, <1>3

(* A message that is sent: it carries what was gathered, so the tallies of *)
(* the wire go on.                                                         *)
LEMMA SendBodyStep == IInv /\ SendBody => IInv'
<1> SUFFICES ASSUME IInv, SendBody PROVE IInv'
    OBVIOUS
<1> USE DEF IInv, SendBody, Goto, owner
<1> DEFINE m == [topics |-> open, tweet |-> accepted]
<1>1. wire \in Seq(Message) /\ m \in Message /\ Len(wire) \in Nat
    BY DEF TypeOK, Message
<1>2. /\ Len(wire') = Len(wire) + 1 /\ wire'[Len(wire) + 1] = m
      /\ \A k \in 1..Len(wire) : wire'[k] = wire[k]
      /\ wire' \in Seq(Message)
    BY <1>1
<1>3. TypeOK' /\ CounterInv'
    BY <1>2 DEF TypeOK, CounterInv, Busy, Reporting
<1>4. EveryLossReported'
    BY <1>1, <1>2 DEF EveryLossReported, InHand, Busy, TypeOK
<1>5. LossesLeaveFrames'
    <2> SUFFICES ASSUME NEW k \in 1..Len(wire')
                 PROVE  /\ wire'[k].topics >= 1
                        /\ wire'[k].tweet = Previous(k)' + wire'[k].topics
        BY DEF LossesLeaveFrames
    <2>1. CASE k \in 1..Len(wire)
        <3>1. Previous(k)' = Previous(k)
            BY <2>1, <1>1, <1>2 DEF Previous
        <3> QED BY <2>1, <3>1, <1>2 DEF LossesLeaveFrames
    <2>2. CASE k = Len(wire) + 1
        <3>1. Previous(k)' = LastSent
            BY <2>2, <1>1, <1>2 DEF Previous, LastSent
        <3>2. LastSent \in Nat
            BY LastSentType
        <3>3. open = accepted - LastSent /\ open >= 1
            BY DEF OpenInv
        <3>4. wire'[k].topics = open /\ wire'[k].tweet = accepted
            BY <2>2, <1>2
        <3>5. open \in Nat /\ accepted \in Nat
            BY DEF TypeOK
        <3> QED BY <3>1, <3>2, <3>3, <3>4, <3>5
    <2> QED BY <2>1, <2>2, <1>1, <1>2
<1>6. OpenInv'
    BY <1>1, <1>2 DEF OpenInv, LastSent, TypeOK
<1> QED BY <1>3, <1>4, <1>5, <1>6

(* The steps that send no message.                                         *)
LEMMA OtherStep ==
    IInv /\ (\/ OwnerStep \/ Setup \/ Marshal \/ BreakOff \/ SendTopic
             \/ SendBodyFails \/ RangeEnds \/ Return \/ UNCHANGED vars) => IInv'
<1> SUFFICES ASSUME IInv,
                    \/ OwnerStep \/ Setup \/ Marshal \/ BreakOff \/ SendTopic
                    \/ SendBodyFails \/ RangeEnds \/ Return \/ UNCHANGED vars
             PROVE  IInv'
    OBVIOUS
<1> USE LimitAssumption DEF IInv, Goto, owner
<1>a. wire' = wire
    BY DEF OwnerStep, Offer, TakeError, TakeNilError, Accept, Setup, Marshal, BreakOff,
           SendTopic, SendBodyFails, RangeEnds, Return, vars
<1>1. LastSent' = LastSent /\ LastSent \in Nat /\ Len(wire) \in Nat
    BY <1>a, LastSentType DEF LastSent, TypeOK
<1>b. LossesLeaveFrames'
    BY <1>a DEF LossesLeaveFrames, Previous
<1>2. TypeOK' /\ CounterInv'
    <2> USE <1>a DEF TypeOK, CounterInv, Busy, Reporting
    <2>1. CASE Offer \/ TakeNilError
        BY <2>1 DEF Offer, TakeNilError
    <2>2. CASE TakeError
        <3>1. i' = Restart /\ ownerPc' = ownerPc /\ ownerPc = "select"
            BY <2>2 DEF TakeError
        <3>2. reported' \in Nat /\ pubPc' \in {"range", "returning"}
            BY <2>2 DEF TakeError
        <3>3. UNCHANGED <<accepted, open, raised>>
            BY <2>2 DEF TakeError
        <3> QED BY <3>1, <3>2, <3>3
    <2>3. CASE Accept
        BY <2>3 DEF Accept
    <2>4. CASE Setup \/ Marshal \/ RangeEnds \/ Return
        BY <2>4 DEF Setup, Marshal, RangeEnds, Return
    <2>5. CASE BreakOff \/ SendBodyFails
        BY <2>5 DEF BreakOff, SendBodyFails, Raise
    <2>6. CASE SendTopic
        BY <2>6 DEF SendTopic
    <2>7. CASE UNCHANGED vars
        BY <2>7 DEF vars
    <2> QED BY <2>1, <2>2, <2>3, <2>4, <2>5, <2>6, <2>7 DEF OwnerStep
<1>3. EveryLossReported' /\ OpenInv'
    <2> USE <1>a, <1>1 DEF TypeOK, EveryLossReported, InHand, Busy, Reporting, OpenInv
    <2>1. CASE Offer \/ TakeNilError \/ RangeEnds \/ Return
        BY <2>1 DEF Offer, TakeNilError, RangeEnds, Return
    <2>2. CASE TakeError
        <3>1. CASE pubPc = "setupFailed"
            BY <2>2, <3>1 DEF TakeError
        <3>2. CASE pubPc = "failing"
            BY <2>2, <3>2 DEF TakeError
        <3>3. CASE pubPc = "reporting"
            BY <2>2, <3>3 DEF TakeError
        <3> QED BY <2>2, <3>1, <3>2, <3>3 DEF TakeError
    <2>3. CASE Accept
        BY <2>3 DEF Accept
    <2>4. CASE Setup
        <3>1. accepted = 0 /\ open = 0 /\ LastSent = 0
            BY <2>4 DEF Setup, LastSent
        <3>2. CASE pubPc' = "range"
            BY <2>4, <3>1, <3>2 DEF Setup
        <3>3. CASE pubPc' = "setupFailed"
            BY <2>4, <3>1, <3>3 DEF Setup
        <3> QED BY <2>4, <3>2, <3>3 DEF Setup
    <2>5. CASE Marshal
        BY <2>5 DEF Marshal
    <2>6. CASE SendTopic
        BY <2>6 DEF SendTopic
    <2>7. CASE BreakOff
        <3>1. pubPc' = "failing" /\ pubPc \in Busy /\ raised' = raised + 1
            BY <2>7 DEF BreakOff, Raise
        <3>2. UNCHANGED <<accepted, wire, reported>>
            BY <2>7 DEF BreakOff
        <3>3. EveryLossReported'
            BY <3>1, <3>2
        <3>4. OpenInv'
            BY <3>1
        <3> QED BY <3>3, <3>4
    <2>8. CASE SendBodyFails
        BY <2>8 DEF SendBodyFails, Raise
    <2>9. CASE UNCHANGED vars
        BY <2>9 DEF vars
    <2> QED BY <2>1, <2>2, <2>3, <2>4, <2>5, <2>6, <2>7, <2>8, <2>9 DEF OwnerStep
<1> QED BY <1>b, <1>2, <1>3

(* The invariant of the publisher and its owner.                           *)
THEOREM Invariance == Spec => []IInv
<1>1. IInv /\ [Next]_vars => IInv'
    BY SendBodyStep, OtherStep DEF Next, PublisherStep
<1> QED BY <1>1, InitIInv, PTL DEF Spec

-----------------------------------------------------------------------------
(* No tweet is lost without an error, whatever fails and however often.    *)
THEOREM Accounting == Spec => [](TypeOK /\ EveryLossReported)
<1>1. IInv => TypeOK /\ EveryLossReported
    BY DEF IInv
<1> QED BY <1>1, Invariance, PTL

(* A message carries one "TWEET" frame more for each tweet lost since the  *)
(* message before it.                                                      *)
THEOREM FramesTellLosses == Spec => []LossesLeaveFrames
<1>1. IInv => LossesLeaveFrames
    BY DEF IInv
<1> QED BY <1>1, Invariance, PTL

(* An owner and a publisher that wait for each other do so for good.       *)
THEOREM StuckForGood == Spec => StuckIsForever
<1>1. ASSUME [Next]_vars, Stuck
      PROVE  Stuck' /\ UNCHANGED <<owner, wire, reported>>
    BY <1>1 DEF Stuck, Reporting, Next, OwnerStep, PublisherStep, Offer, TakeError,
        TakeNilError, Accept, Setup, Marshal, BreakOff, SendTopic, SendBody,
        SendBodyFails, RangeEnds, Return, Goto, owner, vars
<1> QED BY <1>1, PTL DEF Spec, StuckIsForever

-----------------------------------------------------------------------------
(***************************************************************************)
(* TweetReceiver, for any number of tweets and faults: order, no silent    *)
(* loss, and the lasting effect of one fault.                              *)
(*                                                                         *)
(* All three rest on the shape of what is in the socket: every body ends a *)
(* message, so a "TWEET" or nothing follows it (Shape), and bodies come in *)
(* the order of publication (Rising).  Credit says that the goroutine      *)
(* throws a body away only after an error that nothing has been thrown     *)
(* away for yet, and Phase which frame comes next when all messages have   *)
(* two frames.                                                             *)
(***************************************************************************)

Shape ==
    /\ \A k \in 1..Len(pipe) - 1 : pipe[k] # Topic => pipe[k + 1] = Topic
    /\ Len(pipe) > 0 => pipe[Len(pipe)] # Topic

Rising ==
    /\ \A k \in 1..Len(pipe) : pipe[k] <= latest
    /\ \A j, k \in 1..Len(pipe) :
           j < k /\ pipe[j] # Topic /\ pipe[k] # Topic => pipe[j] < pipe[k]
    /\ \A j \in 1..Len(got) : got[j] <= latest
    /\ \A j \in 1..Len(got), k \in 1..Len(pipe) : pipe[k] # Topic => got[j] < pipe[k]
    /\ at = "offering" =>
           /\ hand <= latest
           /\ \A j \in 1..Len(got) : got[j] < hand
           /\ \A k \in 1..Len(pipe) : pipe[k] # Topic => hand < pipe[k]

TopicNext == Len(pipe) > 0 => pipe[1] = Topic
BodyNext == Len(pipe) > 0 /\ pipe[1] # Topic

Credit ==
    /\ swallowed <= errors
    /\ at \in {"topic", "reporting"} /\ BodyNext => swallowed < errors
    /\ at = "offering" => TopicNext

Alternating == \A k \in 1..Len(pipe) - 1 : pipe[k] = Topic => pipe[k + 1] # Topic

Phase ==
    /\ at \in {"setup", "setupFailed"} => pipe = <<>> /\ faults = 0
    /\ damaged = 0 => Alternating
    /\ damaged = 0 /\ faults = 0 =>
           /\ at \in {"topic", "offering"} => TopicNext
           /\ at = "body" => BodyNext
           /\ at # "reporting"
    /\ damaged = 0 /\ faults = 1 =>
           /\ at \in {"topic", "reporting"} => BodyNext
           /\ at = "body" => TopicNext
           /\ at # "offering"

RInv == RTypeOK /\ Shape /\ InOrder /\ Rising /\ Credit /\ Phase

-----------------------------------------------------------------------------
(* What is left when a frame is taken.                                     *)
LEMMA TailFacts ==
    ASSUME NEW s \in Seq(Nat), s # <<>>
    PROVE  /\ Tail(s) \in Seq(Nat) /\ Len(s) \in Nat /\ Len(s) > 0
           /\ Len(Tail(s)) = Len(s) - 1 /\ Head(s) = s[1] /\ s[1] \in Nat
           /\ \A k \in 1..Len(s) - 1 : Tail(s)[k] = s[k + 1]
OBVIOUS

(* Where a frame is once topics + 1 more follow the l that were there.     *)
LEMMA Positions ==
    ASSUME NEW l \in Nat, NEW topics \in Nat, NEW k \in 1..l + topics + 1
    PROVE  \/ k \in 1..l
           \/ k \in l + 1..l + topics
           \/ k = l + topics + 1
OBVIOUS

(* What is there when a message has arrived.                               *)
Joined(s, n, topics) == s \o Frames(n, topics)

LEMMA JoinedFacts ==
    ASSUME NEW s \in Seq(Nat), NEW n \in Nat, NEW topics \in Nat
    PROVE  /\ Joined(s, n, topics) \in Seq(Nat)
           /\ Len(Joined(s, n, topics)) = Len(s) + topics + 1
           /\ \A k \in 1..Len(s) : Joined(s, n, topics)[k] = s[k]
           /\ \A k \in Len(s) + 1..Len(s) + topics : Joined(s, n, topics)[k] = Topic
           /\ Joined(s, n, topics)[Len(s) + topics + 1] = n
<1> DEFINE f == Frames(n, topics)
<1>1. f \in Seq(Nat) /\ Len(f) = topics + 1
    BY DEF Frames, Topic
<1>2. /\ \A k \in 1..topics : f[k] = Topic
      /\ f[topics + 1] = n
    BY DEF Frames
<1> HIDE DEF f
<1>3. /\ s \o f \in Seq(Nat) /\ Len(s) \in Nat
      /\ Len(s \o f) = Len(s) + topics + 1
      /\ \A k \in 1..Len(s) : (s \o f)[k] = s[k]
      /\ \A k \in Len(s) + 1..Len(s) + topics : (s \o f)[k] = f[k - Len(s)]
      /\ (s \o f)[Len(s) + topics + 1] = f[topics + 1]
    BY <1>1
<1>4. \A k \in Len(s) + 1..Len(s) + topics : k - Len(s) \in 1..topics
    BY <1>3
<1>5. \A k \in Len(s) + 1..Len(s) + topics : (s \o f)[k] = Topic
    BY <1>2, <1>3, <1>4
<1> QED BY <1>2, <1>3, <1>5 DEF f, Joined

(* The initial state satisfies the invariant.                              *)
LEMMA InitRInv == RInit => RInv
<1> SUFFICES ASSUME RInit PROVE RInv
    OBVIOUS
<1>1. RTypeOK
    <2>1. consumer \in {"select", "panicked"} /\ doneClosed \in BOOLEAN
        BY DEF RInit
    <2>2. /\ pipe \in Seq(Nat) /\ got \in Seq(Nat) /\ latest \in Nat /\ damaged \in Nat
          /\ hand \in Nat /\ errors \in Nat /\ swallowed \in Nat /\ faults \in Nat
          /\ at = "setup"
        BY DEF RInit
    <2> QED BY <2>1, <2>2 DEF RTypeOK
<1>2. Len(pipe) = 0 /\ Len(got) = 0
    BY DEF RInit
<1>3. Shape /\ InOrder /\ Rising
    BY <1>2 DEF RInit, Shape, InOrder, Rising
<1>4. Credit /\ Phase
    BY <1>2 DEF RInit, Credit, Phase, Alternating, TopicNext, BodyNext
<1> QED BY <1>1, <1>3, <1>4 DEF RInv

(* A message arrives at the end of the pipe.                               *)
LEMMA ArriveStep ==
    ASSUME RInv, NEW n \in Nat, n # 0, NEW topics \in Nat, topics # 0, Arrive(n, topics)
    PROVE  RInv'
<1>1. n \in Nat /\ n # 0 /\ topics \in Nat /\ topics # 0
    OBVIOUS
<1>2. RTypeOK /\ Shape /\ InOrder /\ Rising /\ Credit /\ Phase
    BY DEF RInv
<1>3. /\ latest' = n /\ latest < n
      /\ damaged' = damaged + (IF topics > 1 THEN 1 ELSE 0)
      /\ at \notin {"setup", "setupFailed", "gone"}
      /\ UNCHANGED <<goroutine, consumer, doneClosed, got>>
    BY DEF Arrive, HandOver
<1>a. pipe \in Seq(Nat) /\ Len(pipe) \in Nat /\ latest \in Nat /\ damaged \in Nat
    BY <1>2 DEF RTypeOK
<1>b. pipe' = Joined(pipe, n, topics)
    BY DEF Arrive, HandOver, Joined
<1>4. /\ pipe' \in Seq(Nat)
      /\ Len(pipe') = Len(pipe) + topics + 1
      /\ \A k \in 1..Len(pipe) : pipe'[k] = pipe[k]
      /\ \A k \in Len(pipe) + 1..Len(pipe) + topics : pipe'[k] = Topic
      /\ pipe'[Len(pipe) + topics + 1] = n
    <2> DEFINE q == Joined(pipe, n, topics)
    <2>a. q \in Seq(Nat)
        BY <1>a, <1>1, JoinedFacts
    <2>b. Len(q) = Len(pipe) + topics + 1
        BY <1>a, <1>1, JoinedFacts
    <2>c. \A k \in 1..Len(pipe) : q[k] = pipe[k]
        BY <1>a, <1>1, JoinedFacts
    <2>d. \A k \in Len(pipe) + 1..Len(pipe) + topics : q[k] = Topic
        BY <1>a, <1>1, JoinedFacts
    <2>e. q[Len(pipe) + topics + 1] = n
        BY <1>a, <1>1, JoinedFacts
    <2> HIDE DEF q
    <2>2. pipe' = q
        BY <1>b DEF q
    <2>3. pipe' \in Seq(Nat)
        BY <1>a, <2>a, <2>2
    <2>4. Len(pipe') = Len(pipe) + topics + 1
        BY <1>a, <2>b, <2>2
    <2>5. \A k \in 1..Len(pipe) : pipe'[k] = pipe[k]
        BY <1>a, <2>c, <2>2
    <2>6. \A k \in Len(pipe) + 1..Len(pipe) + topics : pipe'[k] = Topic
        BY <1>a, <2>d, <2>2
    <2>7. pipe'[Len(pipe) + topics + 1] = n
        BY <1>a, <2>e, <2>2
    <2> QED BY <2>3, <2>4, <2>5, <2>6, <2>7
<1>5. \A k \in 1..Len(pipe') : \/ k \in 1..Len(pipe)
                                \/ k \in Len(pipe) + 1..Len(pipe) + topics
                                \/ k = Len(pipe) + topics + 1
    BY <1>a, <1>1, <1>4, Positions
<1>6. ASSUME NEW k \in 1..Len(pipe')
      PROVE  \/ k \in 1..Len(pipe) /\ pipe'[k] = pipe[k]
             \/ pipe'[k] = Topic
             \/ k = Len(pipe') /\ pipe'[k] = n
    <2>1. CASE k \in 1..Len(pipe)
        BY <2>1, <1>4
    <2>2. CASE k \in Len(pipe) + 1..Len(pipe) + topics
        BY <2>2, <1>4
    <2>3. CASE k = Len(pipe) + topics + 1
        BY <2>3, <1>4
    <2> QED BY <2>1, <2>2, <2>3, <1>5
<1>7. RTypeOK'
    BY <1>1, <1>2, <1>3, <1>4 DEF RTypeOK, goroutine
<1>8. Shape'
    <2>1. Len(pipe') > 0 /\ pipe'[Len(pipe')] # Topic
        BY <1>1, <1>2, <1>4 DEF Topic
    <2>2. ASSUME NEW k \in 1..Len(pipe') - 1, pipe'[k] # Topic
          PROVE  pipe'[k + 1] = Topic
        <3>1. k \in 1..Len(pipe)
            BY <2>2, <1>1, <1>2, <1>4, <1>5
        <3>2. CASE k = Len(pipe)
            BY <3>2, <1>1, <1>2, <1>4
        <3>3. CASE k \in 1..Len(pipe) - 1
            <4>1. k \in 1..Len(pipe) /\ k + 1 \in 1..Len(pipe)
                BY <3>3, <1>a
            <4>2. pipe'[k] = pipe[k] /\ pipe'[k + 1] = pipe[k + 1]
                BY <4>1, <1>4
            <4>3. pipe[k] # Topic => pipe[k + 1] = Topic
                BY <3>3, <1>2 DEF Shape
            <4> QED BY <4>2, <4>3, <2>2
        <3> QED BY <3>1, <3>2, <3>3, <1>2
    <2> QED BY <2>1, <2>2 DEF Shape
<1>9. InOrder'
    BY <1>2, <1>3 DEF InOrder
<1>10. Rising'
    <2>1. /\ \A k \in 1..Len(pipe) : pipe[k] \in Nat /\ pipe[k] < n
          /\ \A j \in 1..Len(got) : got[j] \in Nat /\ got[j] < n
        BY <1>1, <1>2, <1>3 DEF RTypeOK, Rising
    <2>2. \A k \in 1..Len(pipe') : pipe'[k] <= latest'
        BY <1>1, <1>3, <1>6, <2>1 DEF Topic
    <2>3. ASSUME NEW j \in 1..Len(pipe'), NEW k \in 1..Len(pipe'),
                 j < k, pipe'[j] # Topic, pipe'[k] # Topic
          PROVE  pipe'[j] < pipe'[k]
        <3>1. j \in 1..Len(pipe) /\ pipe'[j] = pipe[j]
            BY <2>3, <1>2, <1>4, <1>6
        <3>2. CASE k \in 1..Len(pipe)
            BY <2>3, <3>1, <3>2, <1>2, <1>4 DEF Rising
        <3>3. CASE pipe'[k] = n
            BY <3>1, <3>3, <2>1
        <3> QED BY <2>3, <3>2, <3>3, <1>6
    <2>4. \A j \in 1..Len(got), k \in 1..Len(pipe') :
             pipe'[k] # Topic => got[j] < pipe'[k]
        BY <1>2, <1>6, <2>1 DEF Rising
    <2>5. at = "offering" => /\ hand <= latest'
                             /\ \A k \in 1..Len(pipe') : pipe'[k] # Topic => hand < pipe'[k]
        <3> SUFFICES ASSUME at = "offering"
                     PROVE  /\ hand <= latest'
                            /\ \A k \in 1..Len(pipe') : pipe'[k] # Topic => hand < pipe'[k]
            OBVIOUS
        <3>1. hand \in Nat /\ hand <= latest
            BY <1>2 DEF Rising, RTypeOK
        <3>2. hand < n /\ hand <= latest'
            BY <3>1, <1>1, <1>3, <1>a
        <3>3. \A k \in 1..Len(pipe) : pipe[k] # Topic => hand < pipe[k]
            BY <1>2 DEF Rising
        <3> QED BY <3>2, <3>3, <1>6
    <2>6. at = "offering" => \A j \in 1..Len(got) : got[j] < hand
        BY <1>2 DEF Rising
    <2> QED BY <2>1, <2>2, <2>3, <2>4, <2>5, <2>6, <1>1, <1>3 DEF Rising, goroutine
<1>11. /\ TopicNext => TopicNext'
       /\ BodyNext => BodyNext'
       /\ BodyNext' => BodyNext
    <2>1. CASE Len(pipe) > 0
        <3>1. Len(pipe') > 0 /\ 1 \in 1..Len(pipe)
            BY <2>1, <1>a, <1>1, <1>4
        <3>2. pipe'[1] = pipe[1]
            BY <3>1, <1>4
        <3> QED BY <2>1, <3>1, <3>2 DEF TopicNext, BodyNext
    <2>2. CASE Len(pipe) = 0
        <3>1. 1 \in Len(pipe) + 1..Len(pipe) + topics
            BY <2>2, <1>1
        <3>2. pipe'[1] = Topic
            BY <3>1, <1>4
        <3> QED BY <2>2, <3>2 DEF TopicNext, BodyNext
    <2> QED BY <2>1, <2>2, <1>2
<1>12. Credit'
    BY <1>2, <1>3, <1>11 DEF Credit, goroutine
<1>13. Phase'
    <2>1. damaged' = 0 => topics = 1 /\ damaged = 0
        BY <1>a, <1>1, <1>3
    <2>2. ASSUME damaged' = 0 PROVE Alternating'
        <3> SUFFICES ASSUME NEW k \in 1..Len(pipe') - 1, pipe'[k] = Topic
                     PROVE  pipe'[k + 1] # Topic
            BY DEF Alternating
        <3>1. CASE k \in 1..Len(pipe) - 1
            <4>1. k \in 1..Len(pipe) /\ k + 1 \in 1..Len(pipe)
                BY <3>1, <1>a
            <4>2. pipe'[k] = pipe[k] /\ pipe'[k + 1] = pipe[k + 1]
                BY <4>1, <1>4
            <4>3. pipe[k] = Topic => pipe[k + 1] # Topic
                BY <3>1, <2>1, <2>2, <1>2 DEF Phase, Alternating
            <4> QED BY <4>2, <4>3
        <3>2. CASE k = Len(pipe)
            BY <3>2, <1>2, <1>a, <1>1, <1>4 DEF Shape
        <3>3. CASE k = Len(pipe) + 1
            BY <3>3, <2>1, <2>2, <1>1, <1>4 DEF Topic
        <3> QED BY <3>1, <3>2, <3>3, <2>1, <2>2, <1>2, <1>4
    <2> QED BY <1>2, <1>3, <1>11, <2>1, <2>2 DEF Phase, goroutine
<1> QED BY <1>7, <1>8, <1>9, <1>10, <1>12, <1>13 DEF RInv

(* Taking a frame keeps the shape of what is left, and tells what is next. *)
LEMMA TakeFrame ==
    ASSUME RInv, pipe # <<>>, pipe' = Tail(pipe), latest' = latest, got' = got,
           damaged' = damaged
    PROVE  /\ pipe' \in Seq(Nat) /\ Head(pipe) = pipe[1] /\ pipe[1] \in Nat
           /\ Shape' /\ InOrder'
           /\ damaged = 0 => Alternating'
           /\ pipe[1] # Topic => TopicNext'
           /\ pipe[1] = Topic /\ damaged = 0 => BodyNext'
           /\ pipe[1] <= latest
           /\ \A j \in 1..Len(got) : pipe[1] # Topic => got[j] < pipe[1]
           /\ \A k \in 1..Len(pipe') : pipe'[k] <= latest
           /\ \A j, k \in 1..Len(pipe') :
                  j < k /\ pipe'[j] # Topic /\ pipe'[k] # Topic => pipe'[j] < pipe'[k]
           /\ \A j \in 1..Len(got), k \in 1..Len(pipe') :
                  pipe'[k] # Topic => got[j] < pipe'[k]
           /\ pipe[1] # Topic =>
                  \A k \in 1..Len(pipe') : pipe'[k] # Topic => pipe[1] < pipe'[k]
<1> USE DEF RInv
<1>1. /\ pipe' \in Seq(Nat) /\ Len(pipe) \in Nat /\ Len(pipe) > 0
      /\ Len(pipe') = Len(pipe) - 1 /\ Head(pipe) = pipe[1] /\ pipe[1] \in Nat
      /\ \A k \in 1..Len(pipe) - 1 : pipe'[k] = pipe[k + 1]
    BY TailFacts DEF RTypeOK
<1>2. Shape' /\ InOrder'
    BY <1>1 DEF Shape, InOrder
<1>3. damaged = 0 => Alternating'
    BY <1>1 DEF Phase, Alternating
<1>4. pipe[1] # Topic => TopicNext'
    BY <1>1 DEF Shape, TopicNext
<1>5. pipe[1] = Topic /\ damaged = 0 => BodyNext'
    BY <1>1 DEF Shape, Phase, Alternating, BodyNext
<1>6. /\ pipe[1] <= latest
      /\ \A j \in 1..Len(got) : pipe[1] # Topic => got[j] < pipe[1]
    BY <1>1 DEF Rising
<1>7. /\ \A k \in 1..Len(pipe') : pipe'[k] <= latest
      /\ \A j \in 1..Len(got), k \in 1..Len(pipe') : pipe'[k] # Topic => got[j] < pipe'[k]
    BY <1>1 DEF Rising
<1>8. \A j, k \in 1..Len(pipe') :
          j < k /\ pipe'[j] # Topic /\ pipe'[k] # Topic => pipe'[j] < pipe'[k]
    BY <1>1 DEF Rising
<1>9. pipe[1] # Topic => \A k \in 1..Len(pipe') : pipe'[k] # Topic => pipe[1] < pipe'[k]
    BY <1>1 DEF Rising
<1> QED BY <1>1, <1>2, <1>3, <1>4, <1>5, <1>6, <1>7, <1>8, <1>9

(* Recv takes a frame and forgets it.                                      *)
LEMMA RecvTopicStep == RInv /\ RecvTopic => RInv'
<1> SUFFICES ASSUME RInv, RecvTopic PROVE RInv'
    OBVIOUS
<1> USE TakeFrame DEF RecvTopic, Move
<1>1. RTypeOK' /\ Shape' /\ InOrder'
    BY DEF RInv, RTypeOK
<1>2. Rising'
    BY DEF RInv, Rising
<1>3. Credit'
    BY DEF RInv, Credit, RTypeOK, BodyNext, TopicNext
<1>4. Phase'
    BY DEF RInv, Phase, BodyNext, TopicNext
<1> QED BY <1>1, <1>2, <1>3, <1>4 DEF RInv

(* RecvBytes takes a frame and offers it or reports it.                    *)
LEMMA RecvBodyStep == RInv /\ RecvBody => RInv'
<1> SUFFICES ASSUME RInv, RecvBody PROVE RInv'
    OBVIOUS
<1> USE TakeFrame DEF RecvBody, Move
<1>1. RTypeOK' /\ Shape' /\ InOrder'
    BY DEF RInv, RTypeOK
<1>2. Rising'
    BY DEF RInv, Rising
<1>3. Credit'
    BY DEF RInv, Credit, RTypeOK, BodyNext, TopicNext
<1>4. Phase'
    BY DEF RInv, Phase, BodyNext, TopicNext
<1> QED BY <1>1, <1>2, <1>3, <1>4 DEF RInv

(* The consumer takes the tweet in hand.                                   *)
LEMMA TakeTweetStep == RInv /\ TakeTweet => RInv'
<1> SUFFICES ASSUME RInv, TakeTweet PROVE RInv'
    OBVIOUS
<1> USE DEF RInv, TakeTweet, Move, socket
<1>1. got \in Seq(Nat) /\ hand \in Nat /\ Len(got) \in Nat
    BY DEF RTypeOK
<1>2. /\ got' \in Seq(Nat) /\ Len(got') = Len(got) + 1 /\ got'[Len(got) + 1] = hand
      /\ \A j \in 1..Len(got) : got'[j] = got[j]
    BY <1>1
<1>3. RTypeOK' /\ Shape'
    BY <1>2 DEF RTypeOK, Shape
<1>4. InOrder'
    BY <1>1, <1>2 DEF InOrder, Rising
<1>5. Rising'
    BY <1>1, <1>2 DEF Rising
<1>6. Credit' /\ Phase'
    BY DEF Credit, Phase, TopicNext, BodyNext, Alternating
<1> QED BY <1>3, <1>4, <1>5, <1>6

(* The steps that move neither a frame nor a tweet.                        *)
LEMMA QuietStep ==
    RInv /\ (\/ SetupSub \/ RecvTopicFails \/ RecvBodyFails \/ ReadError \/ TakeNil
             \/ UNCHANGED rVars) => RInv'
<1> SUFFICES ASSUME RInv, \/ SetupSub \/ RecvTopicFails \/ RecvBodyFails \/ ReadError
                          \/ TakeNil \/ UNCHANGED rVars
             PROVE  RInv'
    OBVIOUS
<1> USE DEF RInv, Move, socket, goroutine
<1>1. UNCHANGED <<pipe, latest, damaged, hand, got, swallowed>>
    BY DEF SetupSub, RecvTopicFails, RecvBodyFails, ReadError, TakeNil, rVars
<1>2. Shape' /\ InOrder'
    BY <1>1 DEF Shape, InOrder
<1>3. TopicNext' = TopicNext /\ BodyNext' = BodyNext /\ Alternating' = Alternating
    BY <1>1 DEF TopicNext, BodyNext, Alternating
<1>4. at' = "offering" => at = "offering"
    BY DEF SetupSub, RecvTopicFails, RecvBodyFails, ReadError, TakeNil, rVars
<1>5. Rising'
    BY <1>1, <1>4 DEF Rising
<1> DEFINE Rest == RTypeOK /\ Credit /\ Phase
<1> USE <1>1, <1>3 DEF RTypeOK, Credit, Phase
<1>6. CASE SetupSub
    <2>1. TopicNext /\ ~BodyNext
        BY <1>6 DEF SetupSub, TopicNext, BodyNext
    <2> QED BY <1>2, <1>5, <1>6, <2>1 DEF SetupSub
<1>7. CASE RecvTopicFails
    <2>1. RTypeOK' /\ Credit'
        BY <1>7 DEF RecvTopicFails, Interrupted
    <2>2. Phase'
        BY <1>7 DEF RecvTopicFails, Interrupted
    <2> QED BY <1>2, <1>5, <2>1, <2>2
<1>8. CASE RecvBodyFails
    <2>1. RTypeOK' /\ Credit'
        BY <1>8 DEF RecvBodyFails, Interrupted
    <2>2. Phase'
        BY <1>8 DEF RecvBodyFails, Interrupted
    <2> QED BY <1>2, <1>5, <2>1, <2>2
<1>9. CASE ReadError
    <2>1. RTypeOK'
        BY <1>9 DEF ReadError, CloseDone
    <2>2. Credit' /\ Phase'
        BY <1>9 DEF ReadError
    <2> QED BY <1>2, <1>5, <2>1, <2>2
<1>10. CASE TakeNil
    <2>1. RTypeOK'
        BY <1>10 DEF TakeNil
    <2>2. Credit' /\ Phase'
        BY <1>10 DEF TakeNil
    <2> QED BY <1>2, <1>5, <2>1, <2>2
<1>11. CASE UNCHANGED rVars
    BY <1>2, <1>5, <1>11 DEF rVars
<1> QED BY <1>6, <1>7, <1>8, <1>9, <1>10, <1>11

(* The invariant of the receiver.                                          *)
THEOREM ReceiverInvariance == RSpec => []RInv
<1>1. ASSUME RInv, NEW n \in 1..MaxTweet, NEW topics \in 1..n, Arrive(n, topics)
      PROVE  RInv'
    <2>1. n \in Nat /\ n # 0 /\ topics \in Nat /\ topics # 0
        BY BoundsAssumption
    <2> QED BY <1>1, <2>1, ArriveStep
<1>2. RInv /\ [RNext]_rVars => RInv'
    BY <1>1, RecvTopicStep, RecvBodyStep, TakeTweetStep, QuietStep
    DEF RNext, GoroutineStep, ConsumerStep
<1> QED BY <1>2, InitRInv, PTL DEF RSpec

-----------------------------------------------------------------------------
(* Tweets are received in the order of publication, none of them twice.    *)
THEOREM Ordered == RSpec => [](RTypeOK /\ InOrder)
<1>1. RInv => RTypeOK /\ InOrder
    BY DEF RInv
<1> QED BY <1>1, ReceiverInvariance, PTL

(* No tweet that arrived is thrown away without an error.                  *)
THEOREM LossIsReported == RSpec => []NoSilentLoss
<1>1. RInv => NoSilentLoss
    BY DEF RInv, Credit, NoSilentLoss
<1> QED BY <1>1, ReceiverInvariance, PTL

(* After one interrupted call, and with nothing else wrong, the receiver   *)
(* delivers nothing more, however many tweets arrive.                      *)
THEOREM OneFaultIsEnough == RSpec => OneFaultSilences
<1>1. RInv /\ [RNext]_rVars => [faults = 1 /\ damaged = 0 => got' = got]_rVars
    BY DEF RInv, Phase, RNext, GoroutineStep, ConsumerStep, Arrive, HandOver, SetupSub, RecvTopic,
           RecvTopicFails, RecvBody, RecvBodyFails, TakeTweet, ReadError, TakeNil,
           Move, rVars
<1> QED BY <1>1, ReceiverInvariance, PTL DEF RSpec, OneFaultSilences

-----------------------------------------------------------------------------
(***************************************************************************)
(* Pipeline.  What TweetReceiver assumes of the arrivals is what the       *)
(* publisher and the network do, so the pipeline implements both ends'     *)
(* modules, and what is proved of each end alone holds of it.              *)
(***************************************************************************)

(* Nothing arrives ahead of the message the network is at.                 *)
CarryInv ==
    /\ carried \in Nat /\ carried <= Len(wire)
    /\ latest \in Nat /\ latest <= Previous(carried + 1)

-----------------------------------------------------------------------------
(* The publisher does not see the rest of the pipeline.                    *)
LEMMA PublisherSteps == [PNext]_pVars => [Next]_vars
BY DEF PNext, Sending, Carry, Receiving, Next, pVars

THEOREM ImplementsPublisher == PSpec => Spec
<1>1. PInit => Init
    BY DEF PInit
<1> QED BY <1>1, PublisherSteps, PTL DEF PSpec, Spec

(* The wire only grows: a message on it stays where it is.                 *)
LEMMA WireGrows ==
    ASSUME IInv, IInv', [Next]_vars
    PROVE  /\ Len(wire) <= Len(wire')
           /\ \A k \in 1..Len(wire) : wire'[k] = wire[k]
<1>1. wire \in Seq(Message) /\ Len(wire) \in Nat
    BY DEF IInv, TypeOK
<1>2. CASE SendBody
    <2> DEFINE m == [topics |-> open, tweet |-> accepted]
    <2>1. m \in Message
        BY DEF IInv, TypeOK, Message
    <2>2. wire' = Append(wire, m)
        BY <1>2 DEF SendBody
    <2> QED BY <1>1, <2>1, <2>2
<1>3. CASE UNCHANGED wire
    BY <1>1, <1>3
<1>4. SendBody \/ UNCHANGED wire
    BY DEF Next, OwnerStep, PublisherStep, Offer, TakeError, TakeNilError, Accept, Setup,
           Marshal, BreakOff, SendTopic, SendBodyFails, RangeEnds, Return, vars
<1> QED BY <1>2, <1>3, <1>4

(* The next message: it is the publisher's, and the receiver may have it.  *)
LEMMA NextMessage ==
    ASSUME IInv, CarryInv, carried < Len(wire)
    PROVE  LET m == wire[carried + 1]
           IN  /\ m.tweet \in Nat /\ m.topics \in Nat /\ m.topics >= 1
               /\ latest < m.tweet /\ m.topics <= m.tweet - latest
<1> DEFINE k == carried + 1
<1>1. k \in 1..Len(wire)
    BY DEF CarryInv, IInv, TypeOK
<1>2. wire[k] \in Message
    BY <1>1 DEF IInv, TypeOK
<1>3. wire[k].topics >= 1 /\ wire[k].tweet = Previous(k) + wire[k].topics
    BY <1>1 DEF IInv, LossesLeaveFrames
<1>4. Previous(k) \in Nat
    <2>1. CASE k = 1
        BY <2>1 DEF Previous
    <2>2. CASE k # 1
        <3>1. k - 1 \in 1..Len(wire)
            BY <1>1, <2>2
        <3>2. wire[k - 1] \in Message
            BY <3>1 DEF IInv, TypeOK
        <3> QED BY <2>2, <3>2 DEF Previous, Message
    <2> QED BY <2>1, <2>2
<1>5. latest \in Nat /\ latest <= Previous(k)
    BY DEF CarryInv
<1> QED BY <1>2, <1>3, <1>4, <1>5 DEF Message

LEMMA InitCarryInv == PInit => CarryInv
<1> SUFFICES ASSUME PInit PROVE CarryInv
    OBVIOUS
<1> QED BY DEF PInit, Init, RInit, CarryInv, Previous

LEMMA NextCarryInv == IInv /\ IInv' /\ CarryInv /\ [PNext]_pVars => CarryInv'
<1> SUFFICES ASSUME IInv, IInv', CarryInv, [PNext]_pVars PROVE CarryInv'
    OBVIOUS
<1>1. Len(wire) \in Nat /\ Len(wire') \in Nat
    BY DEF IInv, TypeOK
<1>2. Len(wire) <= Len(wire') /\ \A k \in 1..Len(wire) : wire'[k] = wire[k]
    BY WireGrows, PublisherSteps
<1>3. CASE UNCHANGED <<latest, network>>
    <2>1. carried' = carried /\ latest' = latest
        BY <1>3 DEF network
    <2>2. Previous(carried + 1)' = Previous(carried + 1)
        <3>1. CASE carried = 0
            BY <2>1, <3>1 DEF Previous
        <3>2. CASE carried # 0
            <4>1. carried \in 1..Len(wire) /\ carried + 1 # 1 /\ (carried + 1) - 1 = carried
                BY <3>2, <1>1 DEF CarryInv
            <4> QED BY <2>1, <4>1, <1>2 DEF Previous
        <3> QED BY <3>1, <3>2
    <2> QED BY <1>1, <1>2, <2>1, <2>2 DEF CarryInv
<1>4. CASE Carry
    <2> DEFINE m == wire[carried + 1]
    <2>1. carried < Len(wire) /\ carried' = carried + 1 /\ wire' = wire
        BY <1>4 DEF Carry, vars
    <2>2. m.tweet \in Nat /\ latest < m.tweet
        BY <2>1, NextMessage
    <2>3. latest' = latest \/ latest' = m.tweet
        BY <1>4 DEF Carry, HandOver, rVars, socket
    <2>4. Previous(carried + 1)' = m.tweet
        <3>1. carried \in Nat
            BY DEF CarryInv
        <3>2. carried' + 1 # 1 /\ (carried' + 1) - 1 = carried + 1
            BY <3>1, <2>1
        <3> QED BY <2>1, <3>2 DEF Previous
    <2> QED BY <1>1, <2>1, <2>2, <2>3, <2>4 DEF CarryInv
<1>5. CASE Receiving
    BY <1>3, <1>5 DEF Receiving, GoroutineStep, ConsumerStep, SetupSub, RecvTopic,
        RecvTopicFails, RecvBody, RecvBodyFails, TakeTweet, ReadError, TakeNil, socket
<1>6. CASE Sending
    BY <1>3, <1>6 DEF Sending, rVars, socket
<1>7. CASE UNCHANGED pVars
    BY <1>3, <1>7 DEF pVars, rVars, socket
<1> QED BY <1>4, <1>5, <1>6, <1>7 DEF PNext

(* A step of the pipeline is a step of the receiver's module or none.      *)
LEMMA ReceiverSteps == IInv /\ CarryInv /\ [PNext]_pVars => [RNext]_rVars
<1> SUFFICES ASSUME IInv, CarryInv, PNext PROVE [RNext]_rVars
    BY DEF pVars
<1>1. CASE Sending
    BY <1>1 DEF Sending
<1>2. CASE Receiving
    BY <1>2 DEF Receiving, RNext
<1>3. CASE Carry
    <2> DEFINE m == wire[carried + 1]
    <2>1. CASE UNCHANGED rVars
        BY <2>1
    <2>2. CASE m.tweet <= MaxTweet /\ HandOver(m.tweet, m.topics)
        <3>1. carried < Len(wire)
            BY <1>3 DEF Carry
        <3>2. /\ m.tweet \in Nat /\ m.topics \in Nat /\ m.topics >= 1
              /\ latest < m.tweet /\ m.topics <= m.tweet - latest /\ latest \in Nat
            BY <3>1, NextMessage DEF CarryInv
        <3>3. m.tweet \in 1..MaxTweet /\ m.topics \in 1..m.tweet
            BY <2>2, <3>2, BoundsAssumption
        <3>4. Arrive(m.tweet, m.topics)
            BY <2>2, <3>2 DEF Arrive
        <3> QED BY <3>3, <3>4 DEF RNext
    <2> QED BY <1>3, <2>1, <2>2 DEF Carry
<1> QED BY <1>1, <1>2, <1>3 DEF PNext

-----------------------------------------------------------------------------
(* The pipeline implements the receiver's module: its arrivals are what    *)
(* the module assumes, whatever the publisher's errors and the losses of   *)
(* the network.                                                            *)
THEOREM Refinement == PSpec => ImplementsReceiver
<1>1. PInit => RInit
    BY DEF PInit
<1>2. PSpec => []IInv
    BY ImplementsPublisher, Invariance, PTL
<1>3. PSpec => []CarryInv
    BY <1>2, InitCarryInv, NextCarryInv, PTL DEF PSpec
<1> QED BY <1>1, <1>2, <1>3, ReceiverSteps, PTL DEF PSpec, RSpec, ImplementsReceiver

-----------------------------------------------------------------------------
(* Counting the bodies in the pipe.                                        *)
At(frames) == {k \in 1..Len(frames) : frames[k] # Topic}

LEMMA BodiesFinite ==
    ASSUME NEW s \in Seq(Nat)
    PROVE  IsFiniteSet(At(s)) /\ BodiesIn(s) \in Nat
<1>1. Len(s) \in Int /\ At(s) \in SUBSET (1..Len(s))
    BY DEF At
<1>2. IsFiniteSet(1..Len(s))
    BY <1>1, FS_Interval
<1>3. IsFiniteSet(At(s))
    BY <1>1, <1>2, FS_Subset
<1>4. Cardinality(At(s)) \in Nat
    BY <1>3, FS_CardinalityType
<1> QED BY <1>3, <1>4 DEF BodiesIn, At

(* The first frame taken, one body less if it was one.                     *)
LEMMA BodiesTail ==
    ASSUME NEW s \in Seq(Nat), s # <<>>
    PROVE  BodiesIn(s) = BodiesIn(Tail(s)) + (IF s[1] # Topic THEN 1 ELSE 0)
<1> DEFINE t == Tail(s)
           rest == At(s) \ {1}
           f == [k \in At(t) |-> k + 1]
<1>1. /\ t \in Seq(Nat) /\ Len(s) \in Nat /\ Len(s) > 0 /\ Len(t) = Len(s) - 1
      /\ \A k \in 1..Len(s) - 1 : t[k] = s[k + 1]
    BY TailFacts
<1> HIDE DEF t
<1>2. IsFiniteSet(At(s)) /\ IsFiniteSet(At(t))
    BY <1>1, BodiesFinite
<1>3. \A k \in At(t) : k \in Nat /\ k + 1 \in rest
    BY <1>1 DEF At
<1>4. \A k \in rest : k - 1 \in At(t) /\ k = (k - 1) + 1
    BY <1>1 DEF At
<1>5. f \in Bijection(At(t), rest)
    <2>1. f \in [At(t) -> rest]
        BY <1>3
    <2>2. \A j, k \in At(t) : f[j] = f[k] => j = k
        BY <1>3
    <2>3. \A k \in rest : \E j \in At(t) : f[j] = k
        BY <1>4
    <2> HIDE DEF f, rest
    <2> QED BY <2>1, <2>2, <2>3, Fun_IsBij
<1>6. ExistsBijection(At(t), rest)
    BY <1>5, Fun_ExistsBij
<1>7. Cardinality(rest) = Cardinality(At(t))
    BY <1>2, <1>6, FS_Bijection
<1>8. Cardinality(rest) = IF 1 \in At(s) THEN Cardinality(At(s)) - 1 ELSE Cardinality(At(s))
    BY <1>2, FS_RemoveElement
<1>9. Cardinality(At(s)) = BodiesIn(s) /\ Cardinality(At(t)) = BodiesIn(t)
    BY DEF BodiesIn, At
<1>10. 1 \in At(s) <=> s[1] # Topic
    BY <1>1 DEF At
<1>11. BodiesIn(s) \in Nat /\ BodiesIn(t) \in Nat
    BY <1>1, BodiesFinite
<1> HIDE DEF rest, f
<1>12. BodiesIn(s) = BodiesIn(t) + (IF s[1] # Topic THEN 1 ELSE 0)
    <2> DEFINE b == BodiesIn(s)
               c == BodiesIn(t)
    <2>1. b \in Nat /\ c \in Nat
        BY <1>11
    <2>2. CASE s[1] # Topic
        <3>1. c = b - 1
            BY <2>2, <1>7, <1>8, <1>9, <1>10
        <3> HIDE DEF b, c
        <3> QED BY <2>1, <2>2, <3>1 DEF b, c
    <2>3. CASE s[1] = Topic
        <3>1. c = b
            BY <2>3, <1>7, <1>8, <1>9, <1>10
        <3> HIDE DEF b, c
        <3> QED BY <2>1, <2>3, <3>1 DEF b, c
    <2> QED BY <2>2, <2>3
<1> QED BY <1>12 DEF t

LEMMA JoinedLength ==
    ASSUME NEW s \in Seq(Nat), NEW n \in Nat, NEW topics \in Nat
    PROVE  Len(Joined(s, n, topics)) = Len(s) + topics + 1
<1> DEFINE f == Frames(n, topics)
<1>1. f \in Seq(Nat) /\ Len(f) = topics + 1
    BY DEF Frames, Topic
<1> HIDE DEF f
<1>2. Len(s \o f) = Len(s) + topics + 1
    <2>1. Len(s \o f) = Len(s) + Len(f)
        BY <1>1
    <2> QED BY <1>1, <2>1
<1> QED BY <1>2 DEF f, Joined

(* A message joined, one body more.                                        *)
LEMMA BodiesJoined ==
    ASSUME NEW s \in Seq(Nat), NEW n \in Nat, n # Topic, NEW topics \in Nat
    PROVE  BodiesIn(Joined(s, n, topics)) = BodiesIn(s) + 1
<1> DEFINE q == Joined(s, n, topics)
           l == Len(s) + topics + 1
<1>0. s \in Seq(Nat) /\ Len(s) \in Nat /\ n \in Nat /\ topics \in Nat
    OBVIOUS
<1>1. /\ q \in Seq(Nat) /\ Len(q) = l
      /\ \A k \in 1..Len(s) : q[k] = s[k]
      /\ \A k \in Len(s) + 1..Len(s) + topics : q[k] = Topic
      /\ q[l] = n
    <2>1. q \in Seq(Nat)
        BY <1>0, JoinedFacts
    <2>2. Len(q) = l
        BY <1>0, JoinedLength
    <2>3. \A k \in 1..Len(s) : q[k] = s[k]
        BY <1>0, JoinedFacts
    <2>4. \A k \in Len(s) + 1..Len(s) + topics : q[k] = Topic
        BY <1>0, JoinedFacts
    <2>5. q[l] = n
        BY <1>0, JoinedFacts
    <2> QED BY <2>1, <2>2, <2>3, <2>4, <2>5
<1> HIDE DEF q
<1>2. \A k \in 1..l : k \in 1..Len(s) \/ k \in Len(s) + 1..Len(s) + topics \/ k = l
    BY Positions
<1>3. At(q) = At(s) \cup {l}
    <2>1. ASSUME NEW k \in At(q) PROVE k \in At(s) \cup {l}
        BY <1>1, <1>2 DEF At
    <2>2. ASSUME NEW k \in At(s) PROVE k \in At(q)
        BY <1>1 DEF At
    <2>3. l \in At(q)
        BY <1>1 DEF At
    <2> QED BY <2>1, <2>2, <2>3
<1>4. l \notin At(s)
    BY DEF At
<1>5. IsFiniteSet(At(s))
    BY BodiesFinite
<1> HIDE DEF l
<1>6. Cardinality(At(q)) = Cardinality(At(s)) + 1
    BY <1>3, <1>4, <1>5, FS_AddElement
<1> QED BY <1>6 DEF BodiesIn, At, q

(* The messages the network has dealt with.                                *)
CountInv == lost \in Nat /\ carried = Kept

LEMMA InitCountInv == PInit => CountInv
<1> SUFFICES ASSUME PInit PROVE CountInv
    OBVIOUS
<1>1. pipe = <<>> /\ Len(got) = 0 /\ swallowed = 0 /\ at = "setup" /\ lost = 0 /\ carried = 0
    BY DEF PInit, RInit
<1>2. At(pipe) = {}
    BY <1>1 DEF At
<1>3. BodiesIn(pipe) = 0
    BY <1>2, FS_EmptySet DEF BodiesIn, At
<1> QED BY <1>1, <1>3 DEF CountInv, Kept, Offered

LEMMA NextCountInv ==
    IInv /\ CarryInv /\ RInv /\ RInv' /\ CountInv /\ [PNext]_pVars => CountInv'
<1> SUFFICES ASSUME IInv, CarryInv, RInv, RInv', CountInv, [PNext]_pVars PROVE CountInv'
    OBVIOUS
<1>1. /\ pipe \in Seq(Nat) /\ pipe' \in Seq(Nat) /\ swallowed \in Nat
      /\ got \in Seq(Nat) /\ Len(got) \in Nat /\ hand \in Nat
    BY DEF RInv, RTypeOK
<1>2. BodiesIn(pipe) \in Nat /\ BodiesIn(pipe') \in Nat
    BY <1>1, BodiesFinite
<1>3. lost \in Nat /\ carried = lost + BodiesIn(pipe) + Offered + swallowed + Len(got)
    BY DEF CountInv, Kept
<1>4. /\ lost' \in Nat
      /\ carried' = lost' + BodiesIn(pipe') + Offered' + swallowed' + Len(got')
      => CountInv'
    BY DEF CountInv, Kept, Offered
<1>a. swallowed \in Nat /\ Len(got) \in Nat /\ Offered \in Nat
    BY <1>1 DEF Offered
<1>5. ASSUME UNCHANGED <<pipe, swallowed, got, network>>, Offered' = Offered
      PROVE  CountInv'
    BY <1>3, <1>4, <1>5 DEF network
<1>6. CASE Carry
    <2> DEFINE m == wire[carried + 1]
    <2>1. carried \in Nat /\ carried < Len(wire) /\ carried' = carried + 1
        BY <1>6 DEF Carry, CarryInv
    <2>2. m.tweet \in Nat /\ m.tweet # Topic /\ m.topics \in Nat
        BY <2>1, NextMessage DEF CarryInv, Topic
    <2>3. CASE HandOver(m.tweet, m.topics) /\ lost' = lost
        <3>1. pipe' = Joined(pipe, m.tweet, m.topics)
            BY <2>3 DEF HandOver, Joined
        <3>2. BodiesIn(pipe') = BodiesIn(pipe) + 1
            BY <3>1, <2>2, <1>1, BodiesJoined
        <3>3. swallowed' = swallowed /\ got' = got /\ Offered' = Offered
            BY <2>3 DEF HandOver, goroutine, Offered
        <3>4. carried' = lost + (BodiesIn(pipe) + 1) + Offered + swallowed + Len(got)
            BY <1>2, <1>3, <1>a, <2>1
        <3> QED BY <1>3, <1>4, <2>3, <3>2, <3>3, <3>4, Zenon
    <2>4. CASE UNCHANGED rVars /\ lost' = lost + 1
        <3>1. pipe' = pipe /\ swallowed' = swallowed /\ got' = got /\ Offered' = Offered
            BY <2>4 DEF rVars, socket, goroutine, Offered
        <3>2. carried' = (lost + 1) + BodiesIn(pipe) + Offered + swallowed + Len(got)
            <4>1. carried = lost + BodiesIn(pipe) + Offered + swallowed + Len(got)
                BY <1>3
            <4>2. lost \in Nat /\ BodiesIn(pipe) \in Nat
                BY <1>2, <1>3
            <4> QED BY <1>a, <2>1, <4>1, <4>2
        <3>3. lost' \in Nat
            BY <1>3, <2>4
        <3> QED BY <1>4, <2>4, <3>1, <3>2, <3>3, Zenon
    <2> QED BY <1>6, <2>3, <2>4 DEF Carry
<1>7. CASE RecvTopic /\ UNCHANGED network
    <2>1. pipe # <<>> /\ pipe' = Tail(pipe) /\ Head(pipe) = pipe[1] /\ got' = got
        BY <1>7, <1>1, TailFacts DEF RecvTopic
    <2>2. BodiesIn(pipe) = BodiesIn(pipe') + (IF pipe[1] # Topic THEN 1 ELSE 0)
        BY <2>1, <1>1, BodiesTail
    <2>3. swallowed' = swallowed + (IF pipe[1] # Topic THEN 1 ELSE 0)
        BY <1>7, <2>1 DEF RecvTopic
    <2>4. Offered = 0 /\ Offered' = 0
        BY <1>7 DEF RecvTopic, Move, Offered
    <2>5. lost' = lost /\ carried' = carried
        BY <1>7 DEF network
    <2>6. BodiesIn(pipe) + swallowed = BodiesIn(pipe') + swallowed'
        BY <1>1, <1>2, <2>2, <2>3
    <2>7. carried' = lost' + BodiesIn(pipe') + Offered' + swallowed' + Len(got')
        <3>1. swallowed' \in Nat
            BY <1>a, <2>3
        <3> QED BY <1>2, <1>3, <1>a, <2>1, <2>4, <2>5, <2>6, <3>1
    <2> QED BY <1>3, <1>4, <2>5, <2>7
<1>8. CASE RecvBody /\ UNCHANGED network
    <2>1. pipe # <<>> /\ pipe' = Tail(pipe) /\ Head(pipe) = pipe[1] /\ got' = got
        BY <1>8, <1>1, TailFacts DEF RecvBody
    <2>2. BodiesIn(pipe) = BodiesIn(pipe') + (IF pipe[1] # Topic THEN 1 ELSE 0)
        BY <2>1, <1>1, BodiesTail
    <2>3. Offered = 0 /\ Offered' = IF pipe[1] # Topic THEN 1 ELSE 0
        BY <1>8, <2>1 DEF RecvBody, Move, Offered
    <2>4. lost' = lost /\ carried' = carried /\ swallowed' = swallowed
        BY <1>8 DEF RecvBody, network
    <2>5. BodiesIn(pipe) + Offered = BodiesIn(pipe') + Offered'
        BY <1>2, <2>2, <2>3
    <2>6. carried' = lost' + BodiesIn(pipe') + Offered' + swallowed' + Len(got')
        BY <1>1, <1>2, <1>3, <2>1, <2>3, <2>4, <2>5
    <2> QED BY <1>3, <1>4, <2>4, <2>6
<1>9. CASE TakeTweet /\ UNCHANGED network
    <2>1. Len(got') = Len(got) + 1 /\ pipe' = pipe /\ swallowed' = swallowed
        BY <1>9, <1>1 DEF TakeTweet, socket
    <2>2. Offered = 1 /\ Offered' = 0
        BY <1>9 DEF TakeTweet, Move, Offered
    <2>3. lost' = lost /\ carried' = carried
        BY <1>9 DEF network
    <2>4. carried' = lost' + BodiesIn(pipe') + Offered' + swallowed' + Len(got')
        BY <1>1, <1>2, <1>3, <2>1, <2>2, <2>3
    <2> QED BY <1>3, <1>4, <2>3, <2>4
<1>10. CASE /\ SetupSub \/ RecvTopicFails \/ RecvBodyFails \/ ReadError \/ TakeNil
            /\ UNCHANGED network
    <2>1. UNCHANGED <<pipe, swallowed, got>>
        BY <1>10 DEF SetupSub, RecvTopicFails, RecvBodyFails, ReadError, TakeNil,
            socket, goroutine
    <2>2. Offered' = Offered
        BY <1>10 DEF SetupSub, RecvTopicFails, RecvBodyFails, ReadError, TakeNil,
            Move, Offered, goroutine
    <2> QED BY <1>5, <1>10, <2>1, <2>2
<1>11. CASE Sending
    BY <1>5, <1>11 DEF Sending, rVars, socket, goroutine, Offered
<1>12. CASE UNCHANGED pVars
    BY <1>5, <1>12 DEF pVars, rVars, socket, goroutine, Offered
<1> QED BY <1>6, <1>7, <1>8, <1>9, <1>10, <1>11, <1>12
        DEF PNext, Receiving, GoroutineStep, ConsumerStep

(* Every tweet handed over is received, on its way, or lost where it is    *)
(* counted: at the publisher and at the receiver with an error each, in    *)
(* the network without.                                                    *)
THEOREM NothingUncounted == PSpec => []AllAccountedFor
<1>1. PSpec => [](IInv /\ EveryLossReported)
    BY ImplementsPublisher, Invariance, Accounting, PTL
<1>2. PSpec => []CarryInv
    BY <1>1, InitCarryInv, NextCarryInv, PTL DEF PSpec
<1>3. PSpec => [](RInv /\ NoSilentLoss)
    BY Refinement, ReceiverInvariance, LossIsReported, PTL DEF ImplementsReceiver
<1>4. PSpec => []CountInv
    BY <1>1, <1>2, <1>3, InitCountInv, NextCountInv, PTL DEF PSpec
<1>5. IInv /\ EveryLossReported /\ CarryInv /\ NoSilentLoss /\ CountInv => AllAccountedFor
    <2> SUFFICES ASSUME IInv, EveryLossReported, CarryInv, NoSilentLoss, CountInv
                 PROVE  AllAccountedFor
        OBVIOUS
    <2>1. Len(wire) \in Nat /\ raised \in Nat /\ InHand \in Nat
        BY DEF IInv, TypeOK, InHand
    <2>2. carried \in Nat /\ carried = Kept
        BY DEF CarryInv, CountInv
    <2>3. accepted = Len(wire) + InHand + raised
        BY DEF EveryLossReported
    <2>4. accepted = InHand + raised + (Len(wire) - carried) + Kept
        BY <2>1, <2>2, <2>3
    <2> QED BY <2>4 DEF AllAccountedFor, NoSilentLoss
<1> QED BY <1>1, <1>2, <1>3, <1>4, <1>5, PTL

(* End to end: what the publisher accepts is received in order and once,   *)
(* and each end reports its own losses.                                    *)
THEOREM EndToEnd ==
    PSpec => [](EveryLossReported /\ LossesLeaveFrames /\ InOrder /\ NoSilentLoss)
BY ImplementsPublisher, Accounting, FramesTellLosses, Refinement, Ordered, LossIsReported, PTL
   DEF ImplementsReceiver

-----------------------------------------------------------------------------
(***************************************************************************)
(* The bytes of a message.  The publisher's Marshal and the receiver's     *)
(* Unmarshal agree on them: what EncodeVarint, EncodeFixed and their       *)
(* callers write is read as it was written, whatever the widths of bytes   *)
(* and words and whatever precedes or follows, and it has the size that    *)
(* was computed for it.  Natural numbers are induced on with a set, for a  *)
(* property cannot be a parameter.                                         *)
(***************************************************************************)

(* Induction over the natural numbers, with a set in place of a formula.   *)
LEMMA NatWellFounded == IsWellFoundedOn({ss \in Nat \X Nat : ss[1] < ss[2]}, Nat)
BY NatLessThanWellFounded DEF OpToRel

LEMMA Least ==
    ASSUME NEW T, T \subseteq Nat, T # {}
    PROVE  \E x \in T : \A y \in T : x <= y
<1> DEFINE R == {ss \in Nat \X Nat : ss[1] < ss[2]}
<1>1. PICK x \in T : \A y \in T : ~(<<y, x>> \in R)
    <2>1. IsWellFoundedOn(R, Nat)
        BY NatWellFounded
    <2> HIDE DEF R
    <2> QED BY <2>1, WFMin
<1>2. ASSUME NEW y \in T PROVE x <= y
    <2>1. ~(<<y, x>> \in R) /\ x \in Nat /\ y \in Nat
        BY <1>1
    <2>2. ~(y < x)
        BY <2>1
    <2> QED BY <2>1, <2>2
<1> QED BY <1>1, <1>2

LEMMA Induction ==
    ASSUME NEW T, 0 \in T, \A n \in Nat : n \in T => n + 1 \in T
    PROVE  Nat \subseteq T
<1> SUFFICES ASSUME Nat \ T # {} PROVE FALSE
    OBVIOUS
<1>1. PICK x \in Nat \ T : \A y \in Nat \ T : x <= y
    <2> DEFINE U == Nat \ T
    <2>1. U \subseteq Nat /\ U # {}
        OBVIOUS
    <2> HIDE DEF U
    <2>2. \E x \in U : \A y \in U : x <= y
        BY <2>1, Least
    <2> QED BY <2>2 DEF U
<1>2. x # 0
    BY <1>1
<1>3. x - 1 \in Nat /\ x - 1 \notin Nat \ T
    BY <1>1, <1>2
<1>4. x - 1 + 1 \in T
    BY <1>3
<1> QED BY <1>1, <1>4

(* Reading a text.                                                         *)

(* Products, quotients and remainders.                                     *)
LEMMA Growth ==
    ASSUME NEW a \in Int, NEW b \in Int, NEW t \in Nat, a <= b PROVE t * a <= t * b
OBVIOUS

LEMMA Division ==
    ASSUME NEW a \in Int, NEW t \in Nat, t > 0
    PROVE  /\ a \div t \in Int /\ t * (a \div t) <= a /\ a < t * (a \div t) + t
           /\ a % t \in 0..t-1 /\ a = (t * (a \div t)) + (a % t)
OBVIOUS

LEMMA Divided ==
    ASSUME NEW a \in Int, NEW q \in Int, NEW r \in Int, NEW t \in Nat, t > 0,
           a = (t * q) + r, 0 <= r, r < t
    PROVE  a \div t = q /\ a % t = r
<1> DEFINE p == a \div t  m == a % t
<1>1. p \in Int /\ m \in 0..t-1 /\ a = (t * p) + m
    BY Division
<1> HIDE DEF p, m
<1>2. ~(p + 1 <= q)
    <2> SUFFICES ASSUME p + 1 <= q PROVE FALSE
        OBVIOUS
    <2>1. t * (p + 1) <= t * q
        BY <1>1, Growth
    <2>2. t * (p + 1) = (t * p) + t
        BY <1>1
    <2> QED BY <1>1, <2>1, <2>2
<1>3. ~(q + 1 <= p)
    <2> SUFFICES ASSUME q + 1 <= p PROVE FALSE
        OBVIOUS
    <2>1. t * (q + 1) <= t * p
        BY <1>1, Growth
    <2>2. t * (q + 1) = (t * q) + t
        BY <1>1
    <2> QED BY <1>1, <2>1, <2>2
<1>4. p = q
    BY <1>1, <1>2, <1>3
<1> QED BY <1>1, <1>4 DEF p, m

(* Powers of two: what is known of them is how many subsets a set has.     *)
LEMMA PowerStep ==
    ASSUME NEW n \in Nat
    PROVE  2^n \in Nat /\ 2^(n + 1) = 2^n + 2^n
<1> DEFINE S == 1..n  x == n + 1  A == SUBSET S  B == {T \cup {x} : T \in A}
<1>1. IsFiniteSet(S) /\ Cardinality(S) = n
    BY FS_Interval
<1>2. IsFiniteSet(1..x) /\ Cardinality(1..x) = n + 1
    BY FS_Interval
<1>3. IsFiniteSet(A) /\ Cardinality(A) = 2^n
    BY <1>1, FS_SUBSET
<1>4. Cardinality(SUBSET (1..x)) = 2^(n + 1)
    BY <1>2, FS_SUBSET
<1>5. x \notin S /\ 1..x = S \cup {x}
    OBVIOUS
<1>6. SUBSET (1..x) = A \cup B
    <2>1. ASSUME NEW T \in SUBSET (1..x) PROVE T \in A \cup B
        <3>1. CASE x \in T
            <4>1. T \ {x} \in A /\ T = (T \ {x}) \cup {x}
                BY <1>5, <3>1
            <4> QED BY <4>1
        <3>2. CASE x \notin T
            BY <1>5, <3>2
        <3> QED BY <3>1, <3>2
    <2>2. A \cup B \subseteq SUBSET (1..x)
        BY <1>5
    <2> QED BY <2>1, <2>2
<1>7. ExistsBijection(A, B)
    <2> DEFINE f == [T \in A |-> T \cup {x}]
    <2>1. f \in [A -> B]
        OBVIOUS
    <2>2. ASSUME NEW T \in A, NEW U \in A, f[T] = f[U] PROVE T = U
        <3>1. T \cup {x} = U \cup {x} /\ x \notin T /\ x \notin U
            BY <1>5, <2>2
        <3> QED BY <3>1
    <2>3. \A b \in B : \E T \in A : f[T] = b
        OBVIOUS
    <2>4. f \in Bijection(A, B)
        BY <2>1, <2>2, <2>3 DEF Bijection, Injection, Surjection, IsInjective
    <2> QED BY <2>4 DEF ExistsBijection
<1>8. A \cap B = {}
    BY <1>5
<1> HIDE DEF A, B, S
<1>9. IsFiniteSet(B) /\ Cardinality(B) = Cardinality(A)
    BY <1>3, <1>7, FS_Bijection
<1>10. Cardinality(A \cup B) = Cardinality(A) + Cardinality(B) - Cardinality(A \cap B)
    BY <1>3, <1>9, FS_Union
<1>11. Cardinality(A \cap B) = 0 /\ Cardinality(A) \in Nat
    BY <1>3, <1>8, FS_EmptySet, FS_CardinalityType
<1>12. Cardinality(A \cup B) = 2^(n + 1)
    BY <1>4, <1>6, Zenon
<1> QED BY <1>3, <1>9, <1>10, <1>11, <1>12

LEMMA PowerZero == 2^0 = 1
OBVIOUS

LEMMA PowerPositive ==
    ASSUME NEW n \in Nat
    PROVE  2^n \in Nat /\ 2^n > 0
<1> DEFINE T == {k \in Nat : 2^k > 0}
<1>1. 0 \in T
    BY PowerZero
<1>2. \A k \in Nat : k \in T => k + 1 \in T
    BY PowerStep
<1> HIDE DEF T
<1>3. n \in T
    BY <1>1, <1>2, Induction
<1> QED BY <1>3, PowerStep DEF T

LEMMA PowerSum ==
    ASSUME NEW m \in Nat, NEW n \in Nat
    PROVE  2^(m + n) = 2^m * 2^n
<1> DEFINE T == {k \in Nat : 2^(m + k) = 2^m * 2^k}
<1>1. 0 \in T
    <2>1. 2^m \in Nat /\ m + 0 = m
        BY PowerStep
    <2>2. 2^m * 1 = 2^m
        BY <2>1
    <2> QED BY <2>1, <2>2, PowerZero
<1>2. ASSUME NEW k \in Nat, k \in T PROVE k + 1 \in T
    <2>1. 2^(m + k) = 2^m * 2^k
        BY <1>2
    <2>2. m + k \in Nat /\ m + (k + 1) = (m + k) + 1
        OBVIOUS
    <2>3. 2^m \in Nat /\ 2^k \in Nat /\ 2^(k + 1) = 2^k + 2^k
        BY PowerStep
    <2>4. 2^((m + k) + 1) = 2^(m + k) + 2^(m + k)
        BY <2>2, PowerStep
    <2> DEFINE a == 2^m  b == 2^k
    <2>5. a \in Nat /\ b \in Nat
        BY <2>3
    <2> HIDE DEF a, b
    <2>6. a * (b + b) = (a * b) + (a * b)
        BY <2>5
    <2>7. 2^(m + (k + 1)) = 2^m * 2^(k + 1)
        BY <2>1, <2>2, <2>3, <2>4, <2>6 DEF a, b
    <2> QED BY <2>7
<1> HIDE DEF T
<1>3. n \in T
    BY <1>1, <1>2, Induction
<1> QED BY <1>3 DEF T

LEMMA PowerMonotonic ==
    ASSUME NEW m \in Nat, NEW n \in Nat, m <= n
    PROVE  2^m <= 2^n
<1> DEFINE a == 2^m  b == 2^(n - m)
<1>1. n - m \in Nat /\ m + (n - m) = n
    OBVIOUS
<1>2. a \in Nat /\ a > 0 /\ b \in Nat /\ b > 0
    BY <1>1, PowerPositive
<1>3. 2^n = a * b
    BY <1>1, PowerSum
<1> HIDE DEF a, b
<1>4. a <= a * b
    <2>1. a * 1 <= a * b
        BY <1>2, Growth
    <2> QED BY <1>2, <2>1
<1> QED BY <1>3, <1>4 DEF a

(* A loop that adds up: any function of the partial sums gives the total.  *)
LEMMA TotalIs ==
    ASSUME NEW n \in Nat, NEW ns \in [1..n -> Nat], NEW s \in [0..n -> Nat],
           s[0] = 0, \A k \in 1..n : s[k] = s[k - 1] + ns[k]
    PROVE  Total(ns) = s[n]
<1> DEFINE Sums(f) == f = [k \in 0..n |-> IF k = 0 THEN 0 ELSE f[k - 1] + ns[k]]
           t == CHOOSE f : Sums(f)
<1>1. Len(ns) = n
    OBVIOUS
<1>2. Sums(s)
    <2>1. \A k \in 0..n : s[k] = IF k = 0 THEN 0 ELSE s[k - 1] + ns[k]
        OBVIOUS
    <2> QED BY <2>1
<1>3. Sums(t)
    <2> HIDE DEF Sums
    <2> QED BY <1>2
<1>4. t = [k \in 0..n |-> IF k = 0 THEN 0 ELSE t[k - 1] + ns[k]]
    BY <1>3
<1>5. Total(ns) = t[n]
    BY <1>1 DEF Total
<1> HIDE DEF t
<1> DEFINE T == {k \in Nat : k <= n => t[k] = s[k]}
<1>6. 0 \in T
    BY <1>4
<1>7. ASSUME NEW k \in Nat, k \in T PROVE k + 1 \in T
    <2> SUFFICES ASSUME k + 1 <= n PROVE t[k + 1] = s[k + 1]
        OBVIOUS
    <2>1. k + 1 \in 0..n /\ k + 1 \in 1..n /\ k + 1 # 0 /\ (k + 1) - 1 = k
        OBVIOUS
    <2>2. t[k] = s[k]
        BY <1>7
    <2>3. t[k + 1] = t[k] + ns[k + 1]
        BY <1>4, <2>1
    <2>4. s[k + 1] = s[k] + ns[k + 1]
        BY <2>1
    <2> QED BY <2>2, <2>3, <2>4
<1> HIDE DEF T
<1>8. n \in T
    BY <1>6, <1>7, Induction
<1> QED BY <1>5, <1>8 DEF T

(* The digits of a word make the word again, cut to so many digits.        *)
LEMMA NextDigit ==
    ASSUME NEW x \in Nat, NEW a \in Nat, NEW b \in Nat, a > 0, b > 0
    PROVE  x % (a * b) = (x % a) + (((x \div a) % b) * a)
<1> DEFINE q == x \div a  r == x % a  c == q \div b  d == q % b
<1>1. q \in Int /\ r \in 0..a-1 /\ x = (a * q) + r
    BY Division
<1>2. c \in Int /\ d \in 0..b-1 /\ q = (b * c) + d
    BY <1>1, Division
<1> HIDE DEF q, r
<1>3. c \in Int /\ d \in Int /\ r \in Int
    BY <1>1, <1>2
<1> HIDE DEF c, d
<1>4. a * q = (a * (b * c)) + (a * d)
    BY <1>2, <1>3
<1>5. a * (b * c) = (a * b) * c
    BY <1>3
<1>6. x = ((a * b) * c) + ((a * d) + r)
    BY <1>1, <1>3, <1>4, <1>5
<1>7. 0 <= (a * d) + r /\ (a * d) + r < a * b
    <2>1. a * 0 <= a * d /\ a * d <= a * (b - 1)
        BY <1>2, Growth
    <2>2. a * (b - 1) = (a * b) - a
        OBVIOUS
    <2> QED BY <1>1, <1>3, <2>1, <2>2
<1>8. a * b \in Nat /\ a * b > 0
    <2>1. a * 1 <= a * b
        BY Growth
    <2> QED BY <2>1
<1>9. x % (a * b) = (a * d) + r
    <2> DEFINE t == a * b  e == (a * d) + r
    <2>1. t \in Nat /\ t > 0 /\ e \in Int /\ x = (t * c) + e /\ 0 <= e /\ e < t
        BY <1>3, <1>6, <1>7, <1>8
    <2> HIDE DEF t, e
    <2>2. x % t = e
        BY <1>3, <2>1, Divided
    <2> QED BY <2>2 DEF t, e
<1> QED BY <1>3, <1>9 DEF q, r, d

LEMMA DigitRange ==
    ASSUME NEW w \in Nat, NEW x \in Nat, NEW n \in Nat, NEW k \in 1..n
    PROVE  /\ Digits(w, x, n)[k] = (x \div 2^(w * (k - 1))) % 2^w
           /\ Digits(w, x, n)[k] \in 0..2^w - 1
<1> DEFINE p == w * (k - 1)  a == 2^p  b == 2^w
<1>1. p \in Nat
    <2>1. w * 0 <= w * (k - 1)
        BY Growth
    <2> QED BY <2>1
<1>2. a \in Nat /\ a > 0 /\ b \in Nat /\ b > 0
    BY <1>1, PowerPositive
<1>3. Digits(w, x, n)[k] = (x \div a) % b
    BY DEF Digits
<1> HIDE DEF a, b, p
<1>4. x \div a \in Int
    BY <1>2, Division
<1>5. (x \div a) % b \in 0..b - 1
    BY <1>2, <1>4, Division
<1> QED BY <1>3, <1>5 DEF a, b, p

LEMMA DigitsValue ==
    ASSUME NEW w \in Nat, NEW x \in Nat, NEW n \in Nat
    PROVE  Value(w, Digits(w, x, n)) = x % 2^(w * n)
<1> DEFINE ds == Digits(w, x, n)
           ns == [k \in DOMAIN ds |-> ds[k] * 2^(w * (k - 1))]
           s == [k \in 0..n |-> x % 2^(w * k)]
<1>1. DOMAIN ds = 1..n
    BY DEF Digits
<1>2. \A k \in 0..n : w * k \in Nat
    <2>1. ASSUME NEW k \in 0..n PROVE w * k \in Nat
        <3>1. w * 0 <= w * k
            BY Growth
        <3> QED BY <3>1
    <2> QED BY <2>1
<1>3. s \in [0..n -> Nat]
    <2>1. ASSUME NEW k \in 0..n PROVE x % 2^(w * k) \in Nat
        <3> DEFINE a == 2^(w * k)
        <3>1. a \in Nat /\ a > 0
            BY <1>2, PowerPositive
        <3> HIDE DEF a
        <3>2. x % a \in Nat
            BY <3>1, Division
        <3> QED BY <3>2 DEF a
    <2> QED BY <2>1
<1>4. ASSUME NEW k \in 1..n
      PROVE  ns[k] \in Nat /\ s[k] = s[k - 1] + ns[k]
    <2> DEFINE a == 2^(w * (k - 1))  b == 2^w
    <2>1. k - 1 \in 0..n /\ k \in 0..n /\ w * (k - 1) \in Nat /\ w * k = (w * (k - 1)) + w
        BY <1>2
    <2>2. a \in Nat /\ a > 0 /\ b \in Nat /\ b > 0
        BY <2>1, PowerPositive
    <2>3. 2^(w * k) = a * b
        BY <2>1, PowerSum
    <2>4. ds[k] = (x \div a) % b /\ ds[k] \in 0..b - 1
        BY DigitRange
    <2>5. ns[k] = ds[k] * a
        BY <1>1
    <2>6. s[k] = x % (a * b) /\ s[k - 1] = x % a
        BY <2>1, <2>3
    <2> HIDE DEF a, b, s, ns, ds
    <2>7. x % (a * b) = (x % a) + (((x \div a) % b) * a)
        BY <2>2, NextDigit
    <2>8. ds[k] * a \in Nat
        BY <2>2, <2>4
    <2> QED BY <2>4, <2>5, <2>6, <2>7, <2>8
<1>5. ns \in [1..n -> Nat]
    BY <1>1, <1>4
<1>6. s[0] = 0
    <2>1. w * 0 = 0 /\ 0 \in 0..n
        OBVIOUS
    <2>2. s[0] = x % 1
        BY <2>1, PowerZero
    <2> QED BY <2>2
<1>7. Value(w, ds) = Total(ns)
    BY DEF Value
<1>8. s[n] = x % 2^(w * n)
    OBVIOUS
<1> HIDE DEF s, ns
<1>9. Total(ns) = s[n]
    BY <1>3, <1>4, <1>5, <1>6, TotalIs
<1> QED BY <1>7, <1>8, <1>9 DEF ds

-----------------------------------------------------------------------------
(* Words, as varints or of fixed size.                                     *)

Byte == 0..2^(Digit + 1) - 1

(* Of s, what the buffer holds after its first pos bytes is right: all   *)
(* of s, or if the buffer was cut there, its first bytes.                  *)
Holds(buf, pos, s) == \A k \in 1..Len(s) : pos + k <= Len(buf) => buf[pos + k] = s[k]

LEMMA Widths ==
    /\ Digit \in Nat /\ Digit > 0 /\ Bits32 \in Nat /\ Bits32 > 0
    /\ Bits64 \in Nat /\ Bits64 > 0 /\ Bits32 < Bits64
BY WidthAssumption

LEMMA MinIs ==
    ASSUME NEW S, S \subseteq Nat, S # {}
    PROVE  Min(S) \in S /\ \A k \in S : Min(S) <= k
<1>1. \E x \in S : \A y \in S : x <= y
    BY Least
<1> QED BY <1>1 DEF Min

(* As many bytes as a word may need are enough for any.                    *)
LEMMA EnoughBytes ==
    /\ MaxVarintBytes \in Nat /\ MaxVarintBytes > 0
    /\ Bits64 <= Digit * MaxVarintBytes /\ Digit * (MaxVarintBytes - 1) < Bits64
<1> USE Widths
<1> DEFINE m == MaxVarintBytes
<1>1. m \in Int /\ Digit * m <= Bits64 + Digit - 1 /\ Bits64 + Digit - 1 < (Digit * m) + Digit
    BY Division DEF MaxVarintBytes
<1> HIDE DEF m
<1>2. Digit * (m - 1) = (Digit * m) - Digit
    BY <1>1
<1>3. m > 0
    <2> SUFFICES ASSUME m <= 0 PROVE FALSE
        BY <1>1
    <2>1. Digit * m <= Digit * 0
        BY <1>1, Growth
    <2> QED BY <1>1, <2>1
<1>4. m \in Nat /\ m > 0 /\ Bits64 <= Digit * m /\ Digit * (m - 1) < Bits64
    BY <1>1, <1>2, <1>3
<1> QED BY <1>4 DEF m

LEMMA Shift ==
    ASSUME NEW k \in Nat
    PROVE  Digit * k \in Nat /\ 2^(Digit * k) \in Nat /\ 2^(Digit * k) > 0
<1>1. Digit * 0 <= Digit * k
    BY Widths, Growth
<1>2. Digit * k \in Nat
    BY Widths, <1>1
<1> QED BY <1>2, PowerPositive

(* The size of a varint is the number of digits of the word.               *)
LEMMA SizeVarintIs ==
    ASSUME NEW x \in 0..2^Bits64 - 1
    PROVE  /\ SizeVarint(x) \in 1..MaxVarintBytes
           /\ x < 2^(Digit * SizeVarint(x))
           /\ \A k \in 1..SizeVarint(x) - 1 : 2^(Digit * k) <= x
           /\ SizeVarint(x) = Min({k \in 1..MaxVarintBytes : x < 2^(Digit * k)})
<1> USE Widths, EnoughBytes
<1> DEFINE S == {k \in 1..MaxVarintBytes : x \div 2^(Digit * k) = 0}
           U == {k \in 1..MaxVarintBytes : x < 2^(Digit * k)}
<1>0. 2^Bits64 \in Nat /\ x \in Nat
    BY PowerPositive
<1>1. ASSUME NEW k \in 1..MaxVarintBytes
      PROVE  x \div 2^(Digit * k) = 0 <=> x < 2^(Digit * k)
    <2> DEFINE t == 2^(Digit * k)
    <2>1. t \in Nat /\ t > 0
        BY Shift
    <2> HIDE DEF t
    <2>2. x \div t = 0 => x < t
        <3>1. x < (t * (x \div t)) + t
            BY <1>0, <2>1, Division
        <3>2. t * 0 = 0
            BY <2>1
        <3> QED BY <2>1, <3>1, <3>2
    <2>3. x < t => x \div t = 0
        <3> SUFFICES ASSUME x < t PROVE x \div t = 0
            OBVIOUS
        <3>1. x = (t * 0) + x
            BY <1>0, <2>1
        <3> QED BY <1>0, <2>1, <3>1, Divided
    <2> QED BY <2>2, <2>3 DEF t
<1>2. S = U
    BY <1>1
<1>3. MaxVarintBytes \in U
    <2>1. 2^Bits64 <= 2^(Digit * MaxVarintBytes)
        BY Shift, PowerMonotonic
    <2>2. 2^(Digit * MaxVarintBytes) \in Nat
        BY Shift
    <2> QED BY <1>0, <2>1, <2>2
<1>4. U \subseteq Nat /\ U # {}
    <2>1. U \subseteq 1..MaxVarintBytes
        OBVIOUS
    <2> HIDE DEF U
    <2> QED BY <1>3, <2>1
<1>5. SizeVarint(x) = Min(U)
    BY <1>2 DEF SizeVarint
<1> HIDE DEF S
<1>6. Min(U) \in U /\ \A k \in U : Min(U) <= k
    <2> HIDE DEF U
    <2> QED BY <1>4, MinIs
<1> DEFINE n == Min(U)
<1>7. n \in 1..MaxVarintBytes /\ x < 2^(Digit * n)
    BY <1>6
<1>8. ASSUME NEW k \in 1..n - 1 PROVE 2^(Digit * k) <= x
    <2>1. k \in 1..MaxVarintBytes /\ ~(n <= k)
        BY <1>7
    <2>2. k \notin U
        BY <1>6, <2>1
    <2>3. ~(x < 2^(Digit * k))
        BY <2>1, <2>2
    <2>4. 2^(Digit * k) \in Nat
        BY <2>1, Shift
    <2> QED BY <1>0, <2>3, <2>4
<1> HIDE DEF n
<1> QED BY <1>5, <1>7, <1>8 DEF n

(* What EncodeVarint writes: the digits, all but the last marked.          *)
LEMMA EncodeVarintIs ==
    ASSUME NEW x \in 0..2^Bits64 - 1
    PROVE  /\ EncodeVarint(x) \in Seq(Byte)
           /\ Len(EncodeVarint(x)) = SizeVarint(x)
           /\ \A k \in 1..SizeVarint(x) :
                /\ EncodeVarint(x)[k] % 2^Digit = Digits(Digit, x, SizeVarint(x))[k]
                /\ EncodeVarint(x)[k] < 2^Digit <=> k = SizeVarint(x)
<1> DEFINE n == SizeVarint(x)  ds == Digits(Digit, x, n)  b == 2^Digit
           e == [k \in 1..n |-> IF k < n THEN b + ds[k] ELSE ds[k]]
<1>1. n \in Nat /\ n > 0
    <2>1. n \in 1..MaxVarintBytes
        BY SizeVarintIs
    <2> HIDE DEF n
    <2> QED BY <2>1, EnoughBytes
<1>2. EncodeVarint(x) = e
    <2>1. n = Min({k \in 1..MaxVarintBytes : x < 2^(Digit * k)})
        BY SizeVarintIs
    <2> QED BY <2>1 DEF EncodeVarint
<1>3. b \in Nat /\ b > 0 /\ x \in Nat
    BY Widths, PowerPositive
<1>4. 2^(Digit + 1) = b + b
    BY Widths, PowerStep
<1>5. ASSUME NEW k \in 1..n PROVE ds[k] \in 0..b - 1
    <2>1. n \in Nat /\ x \in Nat /\ Digit \in Nat
        BY <1>1, <1>3, Widths
    <2> QED BY <2>1, DigitRange
<1> HIDE DEF n, ds, b
<1>6. ASSUME NEW k \in 1..n
      PROVE  e[k] \in Byte /\ e[k] % b = ds[k] /\ (e[k] < b <=> k = n)
    <2>1. CASE k < n
        <3>1. e[k] = b + ds[k] /\ ds[k] \in 0..b - 1
            BY <1>5, <2>1
        <3>2. e[k] = (b * 1) + ds[k]
            BY <1>3, <3>1
        <3>3. e[k] % b = ds[k]
            <4> DEFINE y == e[k]  d == ds[k]
            <4>1. y \in Int /\ d \in Int /\ 0 <= d /\ d < b /\ y = (b * 1) + d
                BY <1>3, <3>1, <3>2
            <4> HIDE DEF y, d
            <4>2. y % b = d
                BY <1>3, <4>1, Divided
            <4> QED BY <4>2 DEF y, d
        <3>4. e[k] \in Byte /\ ~(e[k] < b)
            BY <1>3, <1>4, <3>1 DEF Byte
        <3> QED BY <1>1, <2>1, <3>3, <3>4
    <2>2. CASE k = n
        <3>1. e[k] = ds[k] /\ ds[k] \in 0..b - 1
            BY <1>1, <1>5, <2>2
        <3>2. ds[k] % b = ds[k]
            <4> DEFINE d == ds[k]
            <4>1. d \in Int /\ 0 <= d /\ d < b /\ d = (b * 0) + d
                BY <1>3, <3>1
            <4> HIDE DEF d
            <4>2. d % b = d
                BY <1>3, <4>1, Divided
            <4> QED BY <4>2 DEF d
        <3>3. e[k] \in Byte /\ e[k] < b
            BY <1>3, <1>4, <3>1 DEF Byte
        <3> QED BY <2>2, <3>1, <3>2, <3>3
    <2> QED BY <1>1, <2>1, <2>2
<1>7. e \in Seq(Byte) /\ Len(e) = n
    BY <1>1, <1>6
<1>8. \A k \in 1..n : e[k] % b = ds[k] /\ (e[k] < b <=> k = n)
    BY <1>6
<1> HIDE DEF e
<1> QED BY <1>2, <1>7, <1>8 DEF n, ds, b

(* DecodeVarint gives back the word that EncodeVarint wrote, wherever it   *)
(* stands and whatever comes after it; a varint cut short is refused.      *)
THEOREM VarintRead ==
    ASSUME NEW x \in 0..2^Bits64 - 1, NEW buf \in Seq(Byte), NEW pos \in 0..Len(buf),
           Holds(buf, pos, EncodeVarint(x))
    PROVE  DecodeVarint(buf, pos) =
             IF pos + SizeVarint(x) <= Len(buf) THEN Read(x, pos + SizeVarint(x)) ELSE Fail
<1> DEFINE n == SizeVarint(x)  e == EncodeVarint(x)  ds == Digits(Digit, x, n)
           last == {k \in 1..MaxVarintBytes : pos + k <= Len(buf) /\ buf[pos + k] < 2^Digit}
           taken == [k \in 1..Min(last) |-> buf[pos + k] % 2^Digit]
<1>1. n \in 1..MaxVarintBytes /\ MaxVarintBytes \in Nat /\ x < 2^(Digit * n)
    BY SizeVarintIs, EnoughBytes
<1>2. Len(e) = n /\ \A k \in 1..n : /\ e[k] % 2^Digit = ds[k]
                                    /\ e[k] < 2^Digit <=> k = n
    BY EncodeVarintIs
<1>3. \A k \in 1..n : pos + k <= Len(buf) => buf[pos + k] = e[k]
    BY <1>2 DEF Holds
<1>4. DecodeVarint(buf, pos) =
        IF last = {} THEN Fail ELSE Read(Value(Digit, taken) % 2^Bits64, pos + Min(last))
    BY DEF DecodeVarint
<1>5. Len(buf) \in Nat /\ pos \in Nat
    OBVIOUS
<1> HIDE DEF n, e, ds
<1>6. ASSUME NEW k \in last PROVE n <= k
    <2>1. k \in 1..MaxVarintBytes /\ pos + k <= Len(buf) /\ buf[pos + k] < 2^Digit
        OBVIOUS
    <2> SUFFICES ASSUME k < n PROVE FALSE
        BY <1>1, <2>1
    <2>2. k \in 1..n
        BY <1>1, <2>1
    <2>3. e[k] < 2^Digit
        BY <1>3, <2>1, <2>2
    <2>4. k = n
        BY <1>2, <2>2, <2>3
    <2> QED BY <1>1, <2>4
<1>7. CASE pos + n <= Len(buf)
    <2>1. n \in last
        <3>1. n \in 1..n /\ buf[pos + n] = e[n]
            BY <1>1, <1>3, <1>7
        <3>2. e[n] < 2^Digit
            BY <1>2, <3>1
        <3> QED BY <1>1, <1>7, <3>1, <3>2
    <2>2. last \subseteq Nat
        BY <1>1
    <2>3. Min(last) = n
        <3> HIDE DEF last
        <3>1. Min(last) \in last /\ Min(last) <= n
            BY <2>1, <2>2, MinIs
        <3>2. n <= Min(last) /\ Min(last) \in Nat
            BY <1>6, <2>2, <3>1
        <3> QED BY <1>1, <3>1, <3>2
    <2>4. taken = ds
        <3>1. ds = [k \in 1..n |-> ds[k]]
            BY DEF ds, Digits
        <3>2. \A k \in 1..n : buf[pos + k] % 2^Digit = ds[k]
            <4>1. ASSUME NEW k \in 1..n PROVE buf[pos + k] % 2^Digit = ds[k]
                <5>1. pos + k <= Len(buf)
                    BY <1>1, <1>7
                <5>2. buf[pos + k] = e[k]
                    BY <1>3, <5>1
                <5> QED BY <1>2, <5>2
            <4> QED BY <4>1
        <3>3. taken = [k \in 1..n |-> buf[pos + k] % 2^Digit]
            BY <2>3
        <3> HIDE DEF taken
        <3> QED BY <3>1, <3>2, <3>3
    <2>5. Value(Digit, ds) = x % 2^(Digit * n)
        <3>1. Digit \in Nat /\ x \in Nat /\ n \in Nat
            BY <1>1, Widths
        <3> QED BY <3>1, DigitsValue DEF ds
    <2>6. x % 2^(Digit * n) = x
        <3> DEFINE t == 2^(Digit * n)
        <3>1. t \in Nat /\ t > 0
            BY <1>1, Shift
        <3>2. x < t /\ x \in Nat
            BY <1>1
        <3> HIDE DEF t
        <3>3. x = (t * 0) + x
            BY <3>1, <3>2
        <3>4. x % t = x
            BY <3>1, <3>2, <3>3, Divided
        <3> QED BY <3>4 DEF t
    <2>7. x % 2^Bits64 = x
        <3> DEFINE t == 2^Bits64
        <3>1. t \in Nat /\ t > 0
            BY Widths, PowerPositive
        <3>2. x < t /\ x \in Nat
            BY <3>1
        <3> HIDE DEF t
        <3>3. x = (t * 0) + x
            BY <3>1, <3>2
        <3>4. x % t = x
            BY <3>1, <3>2, <3>3, Divided
        <3> QED BY <3>4 DEF t
    <2>8. last # {}
        BY <2>1
    <2> HIDE DEF last, taken
    <2>9. DecodeVarint(buf, pos) = Read(x, pos + n)
        BY <1>4, <2>3, <2>4, <2>5, <2>6, <2>7, <2>8
    <2> QED BY <1>7, <2>9 DEF n
<1>8. CASE ~(pos + n <= Len(buf))
    <2>1. last = {}
        <3> SUFFICES ASSUME NEW k \in last PROVE FALSE
            OBVIOUS
        <3>1. n <= k /\ k \in Nat /\ pos + k <= Len(buf)
            BY <1>1, <1>6
        <3> QED BY <1>1, <1>5, <1>8, <3>1
    <2> QED BY <1>4, <1>8, <2>1 DEF n
<1> QED BY <1>7, <1>8

LEMMA Bytewise ==
    ASSUME NEW bits \in {Bits32, Bits64}
    PROVE  /\ bits \in Nat /\ bits > 0
           /\ bits \div (Digit + 1) \in Nat /\ (Digit + 1) * (bits \div (Digit + 1)) = bits
<1> DEFINE t == Digit + 1  n == bits \div t
<1>1. bits \in Nat /\ bits > 0 /\ bits % t = 0
    BY WidthAssumption, Widths
<1>2. t \in Nat /\ t > 0
    BY Widths
<1> HIDE DEF t
<1>3. n \in Int /\ bits = (t * n) + (bits % t)
    BY <1>1, <1>2, Division
<1> HIDE DEF n
<1>4. t * n = bits
    BY <1>1, <1>2, <1>3
<1>5. n >= 0
    <2> SUFFICES ASSUME n <= 0 - 1 PROVE FALSE
        BY <1>3
    <2>1. t * n <= t * (0 - 1)
        BY <1>2, <1>3, Growth
    <2>2. t * (0 - 1) = 0 - t
        BY <1>2
    <2> QED BY <1>1, <1>2, <1>4, <2>1, <2>2
<1> QED BY <1>1, <1>3, <1>4, <1>5 DEF t, n

LEMMA Remains ==
    ASSUME NEW x \in Nat, NEW t \in Nat, x < t
    PROVE  x % t = x
<1>1. x = (t * 0) + x
    OBVIOUS
<1> QED BY <1>1, Divided

(* DecodeFixed32 and DecodeFixed64 give back the low bits of the word that *)
(* was written, likewise.                                                  *)
THEOREM FixedRead ==
    ASSUME NEW bits \in {Bits32, Bits64}, NEW x \in Nat, NEW buf \in Seq(Byte),
           NEW pos \in 0..Len(buf), Holds(buf, pos, EncodeFixed(bits, x))
    PROVE  /\ EncodeFixed(bits, x) \in Seq(Byte)
           /\ Len(EncodeFixed(bits, x)) = bits \div (Digit + 1)
           /\ DecodeFixed(bits, buf, pos) =
                IF pos + bits \div (Digit + 1) <= Len(buf)
                  THEN Read(x % 2^bits, pos + bits \div (Digit + 1)) ELSE Fail
<1> DEFINE t == Digit + 1  n == bits \div t  e == EncodeFixed(bits, x)  ds == Digits(t, x, n)
           taken == [k \in 1..n |-> buf[pos + k]]
<1>1. t \in Nat /\ n \in Nat /\ t * n = bits
    BY Widths, Bytewise
<1>2. e = ds
    BY DEF EncodeFixed
<1>3. DecodeFixed(bits, buf, pos) =
        IF pos + n > Len(buf) THEN Fail ELSE Read(Value(t, taken), pos + n)
    BY DEF DecodeFixed
<1>4. pos \in Nat /\ Len(buf) \in Nat
    OBVIOUS
<1> HIDE DEF t, n
<1>5. ds = [k \in 1..n |-> ds[k]] /\ \A k \in 1..n : ds[k] \in Byte
    <2>1. ds = [k \in 1..n |-> ds[k]]
        BY DEF Digits
    <2>2. ASSUME NEW k \in 1..n PROVE ds[k] \in Byte
        <3>1. ds[k] \in 0..2^t - 1
            BY <1>1, DigitRange
        <3> QED BY <3>1 DEF Byte, t
    <2> QED BY <2>1, <2>2
<1> HIDE DEF ds
<1>6. ds \in Seq(Byte) /\ Len(ds) = n
    BY <1>1, <1>5
<1>7. ASSUME pos + n <= Len(buf) PROVE DecodeFixed(bits, buf, pos) = Read(x % 2^bits, pos + n)
    <2>1. taken = ds
        <3>1. ASSUME NEW k \in 1..n PROVE buf[pos + k] = ds[k]
            <4>1. k \in 1..Len(e) /\ pos + k <= Len(buf)
                BY <1>1, <1>2, <1>4, <1>6, <1>7
            <4> QED BY <1>2, <4>1 DEF Holds
        <3> QED BY <1>5, <3>1
    <2>2. Value(t, ds) = x % 2^bits
        BY <1>1, DigitsValue DEF ds
    <2> HIDE DEF taken
    <2> QED BY <1>1, <1>3, <1>4, <1>7, <2>1, <2>2
<1>8. ASSUME ~(pos + n <= Len(buf)) PROVE DecodeFixed(bits, buf, pos) = Fail
    BY <1>1, <1>3, <1>4, <1>8
<1>9. DecodeFixed(bits, buf, pos) = IF pos + n <= Len(buf)
                                      THEN Read(x % 2^bits, pos + n) ELSE Fail
    BY <1>7, <1>8
<1>10. e \in Seq(Byte) /\ Len(e) = n
    BY <1>2, <1>6
<1> HIDE DEF e
<1> QED BY <1>9, <1>10 DEF n, t, e

(* Zigzag.                                                                 *)
LEMMA Half ==
    ASSUME NEW bits \in Nat, bits > 0
    PROVE  2^(bits - 1) \in Nat /\ 2^(bits - 1) > 0 /\ 2^bits = 2^(bits - 1) + 2^(bits - 1)
<1>1. bits - 1 \in Nat /\ (bits - 1) + 1 = bits
    OBVIOUS
<1> QED BY <1>1, PowerStep, PowerPositive

(* EncodeZigzag32 and 64 and their decoders: every word has one zigzag form*)
(* and every form is of one word.                                          *)
THEOREM ZigZagRound ==
    ASSUME NEW bits \in Nat, bits > 0, NEW x \in Nat
    PROVE  /\ ZigZag(bits, x) \in 0..2^bits - 1
           /\ UnZigZag(bits, x) \in 0..2^bits - 1
           /\ UnZigZag(bits, ZigZag(bits, x)) = x % 2^bits
           /\ ZigZag(bits, UnZigZag(bits, x)) = x % 2^bits
<1> DEFINE h == 2^(bits - 1)  p == 2^bits  v == x % p
<1>1. h \in Nat /\ h > 0 /\ p = h + h
    BY Half
<1>2. v \in 0..p - 1
    BY <1>1, Division
<1> DEFINE z(y) == IF y < h THEN 2 * y ELSE 2 * (p - 1 - y) + 1
           u(y) == IF y % 2 = 0 THEN y \div 2 ELSE p - 1 - y \div 2
<1>3. \A y \in Nat : ZigZag(bits, y) = z(y % p) /\ UnZigZag(bits, y) = u(y % p)
    BY DEF ZigZag, UnZigZag
<1> HIDE DEF h, p
<1>4. ASSUME NEW y \in 0..p - 1 PROVE z(y) \in 0..p - 1 /\ u(z(y)) = y
    BY <1>1
<1>5. ASSUME NEW y \in 0..p - 1 PROVE u(y) \in 0..p - 1 /\ z(u(y)) = y
    BY <1>1
<1>6. \A y \in 0..p - 1 : y \in Nat /\ y % p = y
    BY <1>1, Remains
<1> HIDE DEF z, u, v
<1>7. ZigZag(bits, x) = z(v) /\ UnZigZag(bits, x) = u(v)
    BY <1>3 DEF v
<1>8. UnZigZag(bits, z(v)) = u(z(v)) /\ ZigZag(bits, u(v)) = z(u(v))
    BY <1>2, <1>3, <1>4, <1>5, <1>6
<1> QED BY <1>2, <1>4, <1>5, <1>7, <1>8 DEF v, p

-----------------------------------------------------------------------------
(* Strings of bytes, and what is no message.                               *)

LEMMA Bytes0 == 2^(Digit + 1) \in Nat /\ 2^(Digit + 1) > 0 /\ Byte \subseteq Nat
<1>1. 2^(Digit + 1) \in Nat /\ 2^(Digit + 1) > 0
    BY Widths, PowerPositive
<1> QED BY <1>1 DEF Byte

LEMMA HoldsBoth ==
    ASSUME NEW buf \in Seq(Byte), NEW pos \in Nat, NEW s \in Seq(Byte), NEW t \in Seq(Byte),
           Holds(buf, pos, s \o t)
    PROVE  /\ s \o t \in Seq(Byte) /\ Len(s \o t) = Len(s) + Len(t)
           /\ Holds(buf, pos, s) /\ Holds(buf, pos + Len(s), t)
<1> DEFINE st == s \o t
<1>1. st \in Seq(Byte) /\ Len(st) = Len(s) + Len(t) /\ Len(s) \in Nat /\ Len(t) \in Nat
    OBVIOUS
<1>2. /\ \A k \in 1..Len(s) : st[k] = s[k]
      /\ \A k \in 1..Len(t) : st[Len(s) + k] = t[k]
    OBVIOUS
<1>3. \A k \in 1..Len(st) : pos + k <= Len(buf) => buf[pos + k] = st[k]
    BY DEF Holds
<1> HIDE DEF st
<1>4. Holds(buf, pos, s)
    <2>1. ASSUME NEW k \in 1..Len(s), pos + k <= Len(buf) PROVE buf[pos + k] = s[k]
        <3>1. k \in 1..Len(st)
            BY <1>1
        <3> QED BY <1>2, <1>3, <2>1, <3>1
    <2> QED BY <2>1 DEF Holds
<1>5. Holds(buf, pos + Len(s), t)
    <2>1. ASSUME NEW k \in 1..Len(t), (pos + Len(s)) + k <= Len(buf)
          PROVE  buf[(pos + Len(s)) + k] = t[k]
        <3>1. Len(s) + k \in 1..Len(st) /\ (pos + Len(s)) + k = pos + (Len(s) + k)
            BY <1>1
        <3> QED BY <1>2, <1>3, <2>1, <3>1
    <2> QED BY <2>1 DEF Holds
<1> QED BY <1>1, <1>4, <1>5 DEF st

(* DecodeRawBytes gives back the bytes that EncodeRawBytes wrote after     *)
(* their length, and refuses them if one is missing.                       *)
THEOREM RawRead ==
    ASSUME NEW b \in Seq(Byte), Len(b) < 2^(Bits64 - 1), NEW buf \in Seq(Byte),
           NEW pos \in 0..Len(buf), Holds(buf, pos, RawBytes(b))
    PROVE  /\ RawBytes(b) \in Seq(Byte)
           /\ Len(RawBytes(b)) = SizeVarint(Len(b)) + Len(b)
           /\ DecodeRawBytes(buf, pos) =
                IF pos + Len(RawBytes(b)) <= Len(buf)
                  THEN Read(b, pos + Len(RawBytes(b))) ELSE Fail
<1> DEFINE x == Len(b)  n == SizeVarint(x)  e == EncodeVarint(x)  r == RawBytes(b)
           d == DecodeVarint(buf, pos)
<1>1. x \in Nat /\ x \in 0..2^Bits64 - 1
    BY Widths, Half
<1>2. e \in Seq(Byte) /\ Len(e) = n
    BY <1>1, EncodeVarintIs
<1>3. n \in Nat /\ n > 0
    <2>1. n \in 1..MaxVarintBytes
        BY <1>1, SizeVarintIs
    <2> HIDE DEF n
    <2> QED BY <2>1
<1>4. pos \in Nat /\ Len(buf) \in Nat /\ pos <= Len(buf)
    OBVIOUS
<1>5. /\ r \in Seq(Byte) /\ Len(r) = n + x
      /\ Holds(buf, pos, e) /\ Holds(buf, pos + n, b)
    <2>1. Holds(buf, pos, e \o b) /\ r = e \o b
        BY DEF RawBytes
    <2> HIDE DEF e, n, r
    <2>2. /\ e \o b \in Seq(Byte) /\ Len(e \o b) = Len(e) + Len(b)
          /\ Holds(buf, pos, e) /\ Holds(buf, pos + Len(e), b)
        BY <1>2, <1>4, <2>1, HoldsBoth
    <2> QED BY <1>2, <2>1, <2>2
<1>6. d = IF pos + n <= Len(buf) THEN Read(x, pos + n) ELSE Fail
    BY <1>1, <1>5, VarintRead
<1>7. DecodeRawBytes(buf, pos) =
        IF ~d.ok THEN Fail
        ELSE IF d.v >= 2^(Bits64 - 1) \/ d.at + d.v > Len(buf) THEN Fail
        ELSE Read(SubSeq(buf, d.at + 1, d.at + d.v), d.at + d.v)
    BY DEF DecodeRawBytes
<1>8. \A v, to : Read(v, to).ok /\ Read(v, to).v = v /\ Read(v, to).at = to
    BY DEF Read
<1>9. ~Fail.ok
    BY DEF Fail
<1> HIDE DEF d, e, r, n
<1>10. ASSUME ~(pos + n <= Len(buf)) PROVE DecodeRawBytes(buf, pos) = Fail
    BY <1>6, <1>7, <1>9, <1>10
<1>11. ASSUME pos + n <= Len(buf)
       PROVE  DecodeRawBytes(buf, pos) = IF pos + (n + x) <= Len(buf)
                                           THEN Read(b, pos + (n + x)) ELSE Fail
    <2>1. d.ok /\ d.v = x /\ d.at = pos + n
        BY <1>6, <1>8, <1>11
    <2>2. 2^(Bits64 - 1) \in Nat
        BY Widths, Half
    <2>3. ~(x >= 2^(Bits64 - 1))
        BY <1>1, <2>2
    <2>4. DecodeRawBytes(buf, pos) = IF (pos + n) + x > Len(buf) THEN Fail
                                   ELSE Read(SubSeq(buf, (pos + n) + 1,
                                                (pos + n) + x), (pos + n) + x)
        BY <1>7, <2>1, <2>3
    <2>5. (pos + n) + x = pos + (n + x)
        BY <1>1, <1>3, <1>4
    <2>6. ASSUME (pos + n) + x <= Len(buf) PROVE SubSeq(buf, (pos + n) + 1, (pos + n) + x) = b
        <3> DEFINE j == pos + n  c == SubSeq(buf, j + 1, j + x)
        <3>1. j \in Nat /\ j + x <= Len(buf)
            BY <1>3, <1>4, <2>6
        <3>2. \A k \in 1..x : j + k <= Len(buf) => buf[j + k] = b[k]
            BY <1>5 DEF Holds
        <3> HIDE DEF j
        <3>3. c = [k \in 1..x |-> buf[j + k]]
            BY <1>1, <1>4, <3>1
        <3>4. b = [k \in 1..x |-> b[k]]
            OBVIOUS
        <3>5. \A k \in 1..x : buf[j + k] = b[k]
            BY <1>1, <1>4, <3>1, <3>2
        <3> HIDE DEF c, x
        <3>6. c = b
            BY <3>3, <3>4, <3>5
        <3> QED BY <3>6 DEF c, j
    <2> HIDE DEF x
    <2>7. CASE (pos + n) + x > Len(buf)
        <3>1. DecodeRawBytes(buf, pos) = Fail /\ ~(pos + (n + x) <= Len(buf))
            BY <1>1, <1>3, <1>4, <2>4, <2>7
        <3> QED BY <3>1
    <2>8. CASE ~((pos + n) + x > Len(buf))
        <3>1. (pos + n) + x <= Len(buf) /\ pos + (n + x) <= Len(buf)
            BY <1>1, <1>3, <1>4, <2>8
        <3>2. DecodeRawBytes(buf, pos) = Read(b, pos + (n + x))
            BY <2>4, <2>5, <2>6, <2>8, <3>1
        <3> QED BY <3>1, <3>2
    <2> QED BY <2>7, <2>8
<1>12. DecodeRawBytes(buf, pos) = IF pos + Len(r) <= Len(buf)
                                    THEN Read(b, pos + Len(r)) ELSE Fail
    BY <1>1, <1>3, <1>4, <1>5, <1>10, <1>11
<1> QED BY <1>5, <1>12 DEF r, n

(* The values a Go type has, and the encodings its fields may have.        *)
ValuesOf(kind) ==
    CASE kind = "bool" -> 0..1
      [] kind \in {"int32", "uint32"} -> 0..2^Bits32 - 1
      [] kind = "int64" -> 0..2^Bits64 - 1
      [] kind = "bytes" -> {b \in Seq(Byte) : Len(b) < 2^(Bits64 - 1)}

WiresOf(kind) ==
    CASE kind = "bool" -> {"varint"}
      [] kind = "int32" -> {"varint", "zigzag32", "fixed32"}
      [] kind = "uint32" -> {"varint", "fixed32"}
      [] kind = "int64" -> {"varint", "zigzag64", "fixed64"}
      [] kind = "bytes" -> {"bytes"}

Number32 == {"int32", "uint32"}
Numbers == {"bool", "int32", "uint32", "int64"}

(* A word is narrowed to the value that it was widened from, even if all   *)
(* that is left of it are the low bits.                                    *)
LEMMA WordIs ==
    ASSUME NEW kind \in Numbers, NEW v \in ValuesOf(kind)
    PROVE  /\ v \in Nat /\ Word(kind, v) \in 0..2^Bits64 - 1
           /\ Narrow(kind, Word(kind, v)) = v
           /\ kind \in Number32 => Narrow(kind, Word(kind, v) % 2^Bits32) = v
<1> DEFINE p == 2^Bits32  q == 2^Bits64  h == 2^(Bits32 - 1)  g == 2^(Bits64 - Bits32)
           x == Word(kind, v)
<1>1. p \in Nat /\ q \in Nat /\ h \in Nat /\ h > 0 /\ p = h + h
    BY Widths, PowerPositive, Half
<1>2. g \in Nat /\ g > 0 /\ q = p * g
    <2>1. Bits64 - Bits32 \in Nat /\ Bits32 + (Bits64 - Bits32) = Bits64
        BY Widths
    <2> QED BY Widths, <2>1, PowerPositive, PowerSum
<1>3. x = IF kind = "int32" /\ v >= h THEN v + q - p ELSE v
    BY DEF Word
<1>4. p <= q
    BY Widths, PowerMonotonic
<1> HIDE DEF p, q, h, g, x
<1>5. CASE kind \in Number32
    <2>1. v \in 0..p - 1
        BY <1>5 DEF ValuesOf, Number32, p
    <2>2. x \in 0..q - 1
        BY <1>1, <1>3, <1>4, <2>1
    <2>3. x % p = v
        <3>1. CASE x = v
            BY <1>1, <2>1, <3>1, Remains
        <3>2. CASE x = v + q - p
            <4>1. p * (g - 1) = (p * g) - p
                BY <1>1, <1>2
            <4>2. x = (p * (g - 1)) + v
                BY <1>1, <1>2, <2>1, <3>2, <4>1
            <4>3. p > 0 /\ x \in Int /\ g - 1 \in Int /\ v \in Int /\ 0 <= v /\ v < p
                BY <1>1, <1>2, <2>1, <2>2
            <4> QED BY <1>1, <4>2, <4>3, Divided
        <3> QED BY <1>3, <3>1, <3>2
    <2>4. \A y : Narrow(kind, y) = y % p
        BY <1>5 DEF Narrow, Number32, p
    <2>5. (x % p) % p = v
        BY <1>1, <2>1, <2>3, Remains
    <2>6. v \in Nat /\ x \in 0..q - 1 /\ Narrow(kind, x) = v /\ Narrow(kind, x % p) = v
        BY <2>1, <2>2, <2>3, <2>4, <2>5
    <2> QED BY <2>6 DEF p, q, x
<1>6. CASE kind = "bool"
    <2>1. v \in 0..1
        BY <1>6 DEF ValuesOf
    <2>2. x = v /\ q > 1
        BY <1>1, <1>3, <1>4, <1>6
    <2>3. x \in 0..q - 1 /\ Narrow(kind, x) = v
        BY <1>1, <1>6, <2>1, <2>2 DEF Narrow
    <2> QED BY <1>6, <2>1, <2>3 DEF Number32, q, x
<1>7. CASE kind = "int64"
    <2>1. v \in 0..q - 1
        BY <1>7 DEF ValuesOf, q
    <2>2. x = v
        BY <1>3, <1>7
    <2>3. x \in 0..q - 1 /\ Narrow(kind, x) = v
        BY <1>1, <1>7, <2>1, <2>2 DEF Narrow
    <2> QED BY <1>1, <1>7, <2>1, <2>3 DEF Number32, q, x
<1> QED BY <1>5, <1>6, <1>7 DEF Numbers, Number32

LEMMA OneByte ==
    ASSUME NEW x \in 0..1
    PROVE  SizeVarint(x) = 1
<1> DEFINE n == SizeVarint(x)
<1>1. x \in 0..2^Bits64 - 1 /\ 2^(Digit * 1) >= 2 /\ 2^(Digit * 1) \in Nat
    <2>1. ASSUME NEW k \in Nat, k > 0 PROVE 2^k \in Nat /\ 2^k >= 2
        <3>1. k - 1 \in Nat /\ (k - 1) + 1 = k
            BY <2>1
        <3>2. 2^(k - 1) \in Nat /\ 2^(k - 1) > 0 /\ 2^k = 2^(k - 1) + 2^(k - 1)
            BY <3>1, PowerPositive, PowerStep
        <3> QED BY <3>2
    <2>2. Digit * 1 \in Nat /\ Digit * 1 > 0
        BY Widths
    <2> QED BY <2>1, <2>2, Widths
<1>2. n \in 1..MaxVarintBytes /\ \A k \in 1..n - 1 : 2^(Digit * k) <= x
    BY <1>1, SizeVarintIs
<1> HIDE DEF n
<1>3. n \in Nat /\ n >= 1
    BY <1>2, EnoughBytes
<1>4. ~(n >= 2)
    BY <1>1, <1>2, <1>3
<1> QED BY <1>3, <1>4 DEF n

LEMMA DecNumberRead ==
    ASSUME NEW f, NEW x, NEW to
    PROVE  DecNumber(f, Read(x, to)) = Read(Narrow(f.kind, x), to) /\ DecNumber(f, Fail) = Fail
BY DEF DecNumber, Read, Fail

(* Every scalar of every Go type and encoding is read (dec_int32 and so on)*)
(* as it was written (enc_int32 ...), is as long as size_int32 ... say, and*)
(* cut short it is refused.                                                *)
THEOREM ScalarRead ==
    ASSUME NEW f, NEW v, f.kind \in Numbers \cup {"bytes"}, f.wire \in WiresOf(f.kind),
           v \in ValuesOf(f.kind), NEW buf \in Seq(Byte), NEW pos \in 0..Len(buf),
           Holds(buf, pos, Scalar(f, v))
    PROVE  /\ Scalar(f, v) \in Seq(Byte) /\ Len(Scalar(f, v)) = SizeScalar(f, v)
           /\ DecScalar(f, buf, pos) =
                IF pos + SizeScalar(f, v) <= Len(buf)
                  THEN Read(v, pos + SizeScalar(f, v)) ELSE Fail
<1> DEFINE s == Scalar(f, v)  kind == f.kind  w == f.wire  x == Word(kind, v)
<1>1. CASE kind = "bytes"
    <2>1. v \in Seq(Byte) /\ Len(v) < 2^(Bits64 - 1)
        BY <1>1 DEF ValuesOf
    <2>2. s = RawBytes(v) /\ SizeScalar(f, v) = SizeVarint(Len(v)) + Len(v)
          /\ DecScalar(f, buf, pos) = DecodeRawBytes(buf, pos)
        BY <1>1 DEF Scalar, SizeScalar, DecScalar
    <2>3. Holds(buf, pos, RawBytes(v))
        BY <2>2
    <2> HIDE DEF s
    <2>4. /\ RawBytes(v) \in Seq(Byte)
          /\ Len(RawBytes(v)) = SizeVarint(Len(v)) + Len(v)
          /\ DecodeRawBytes(buf, pos) =
                IF pos + Len(RawBytes(v)) <= Len(buf)
                  THEN Read(v, pos + Len(RawBytes(v))) ELSE Fail
        BY <2>1, <2>3, RawRead
    <2>5. s \in Seq(Byte) /\ Len(s) = SizeScalar(f, v)
        BY <2>2, <2>4
    <2>6. DecScalar(f, buf, pos) =
            IF pos + SizeScalar(f, v) <= Len(buf) THEN Read(v, pos + SizeScalar(f, v)) ELSE Fail
        BY <2>2, <2>4
    <2> QED BY <2>5, <2>6 DEF s
<1>2. CASE kind \in Numbers
    <2>1. /\ v \in Nat /\ x \in 0..2^Bits64 - 1 /\ x \in Nat
          /\ Narrow(kind, x) = v
          /\ kind \in Number32 => Narrow(kind, x % 2^Bits32) = v
        BY <1>2, WordIs
    <2>2. s = ValEnc(w, x) /\ DecScalar(f, buf, pos) = DecNumber(f, ValDec(w, buf, pos))
        BY <1>2 DEF Scalar, DecScalar, Numbers
    <2>3. kind # "bool" => SizeScalar(f, v) = ValSize(w, x)
        BY <1>2 DEF SizeScalar, Numbers
    <2>4. Holds(buf, pos, ValEnc(w, x))
        BY <2>2
    <2> HIDE DEF s, x
    <2> DEFINE Right(n, y) ==
            /\ ValEnc(w, x) \in Seq(Byte) /\ Len(ValEnc(w, x)) = n
            /\ ValDec(w, buf, pos) = IF pos + n <= Len(buf) THEN Read(y, pos + n) ELSE Fail
    <2>5. ASSUME NEW n, NEW y, Right(n, y), Narrow(kind, y) = v, SizeScalar(f, v) = n
          PROVE  /\ Scalar(f, v) \in Seq(Byte) /\ Len(Scalar(f, v)) = SizeScalar(f, v)
                 /\ DecScalar(f, buf, pos) =
                      IF pos + SizeScalar(f, v) <= Len(buf)
                        THEN Read(v, pos + SizeScalar(f, v)) ELSE Fail
        <3>1. DecNumber(f, Read(y, pos + n)) = Read(v, pos + n) /\ DecNumber(f, Fail) = Fail
            BY <2>5, DecNumberRead
        <3> QED BY <2>2, <2>5, <3>1 DEF s
    <2>6. ASSUME w = "varint" PROVE Right(SizeVarint(x), x) /\ ValSize(w, x) = SizeVarint(x)
        <3>1. ValEnc(w, x) = EncodeVarint(x) /\ ValSize(w, x) = SizeVarint(x)
            BY <2>6 DEF ValEnc, ValSize
        <3>3. Holds(buf, pos, EncodeVarint(x))
            BY <2>4, <3>1
        <3>4. DecodeVarint(buf, pos) =
                IF pos + SizeVarint(x) <= Len(buf) THEN Read(x, pos + SizeVarint(x)) ELSE Fail
            BY <2>1, <3>3, VarintRead
        <3>5. EncodeVarint(x) \in Seq(Byte) /\ Len(EncodeVarint(x)) = SizeVarint(x)
            BY <2>1, EncodeVarintIs
        <3>6. ValDec(w, buf, pos) = DecodeVarint(buf, pos)
            BY <2>6 DEF ValDec
        <3> QED BY <3>1, <3>4, <3>5, <3>6
    <2>7. ASSUME NEW bits \in {Bits32, Bits64},
                 w = (IF bits = Bits32 THEN "fixed32" ELSE "fixed64")
          PROVE  Right(bits \div (Digit + 1), x % 2^bits) /\ ValSize(w, x) = bits \div (Digit + 1)
        <3>0. Bits32 # Bits64
            BY Widths
        <3>1. ValEnc(w, x) = EncodeFixed(bits, x) /\ ValSize(w, x) = bits \div (Digit + 1)
            BY <2>7, <3>0 DEF ValEnc, ValSize
        <3>3. Holds(buf, pos, EncodeFixed(bits, x))
            BY <2>4, <3>1
        <3>4. /\ EncodeFixed(bits, x) \in Seq(Byte)
              /\ Len(EncodeFixed(bits, x)) = bits \div (Digit + 1)
              /\ DecodeFixed(bits, buf, pos) =
                  IF pos + bits \div (Digit + 1) <= Len(buf)
                    THEN Read(x % 2^bits, pos + bits \div (Digit + 1)) ELSE Fail
            BY <2>1, <3>3, FixedRead
        <3>5. ValDec(w, buf, pos) = DecodeFixed(bits, buf, pos)
            BY <2>7, <3>0 DEF ValDec
        <3> QED BY <3>1, <3>4, <3>5
    <2>8. ASSUME NEW bits \in {Bits32, Bits64},
                 w = (IF bits = Bits32 THEN "zigzag32" ELSE "zigzag64")
          PROVE  /\ Right(SizeVarint(ZigZag(bits, x)), x % 2^bits)
                 /\ ValSize(w, x) = SizeVarint(ZigZag(bits, x))
        <3> DEFINE z == ZigZag(bits, x)  d == DecodeVarint(buf, pos)
        <3>0. Bits32 # Bits64
            BY Widths
        <3>1. ValEnc(w, x) = EncodeVarint(z) /\ ValSize(w, x) = SizeVarint(z)
            BY <2>8, <3>0 DEF ValEnc, ValSize
        <3>2. ValDec(w, buf, pos) = IF d.ok THEN Read(UnZigZag(bits, d.v), d.at) ELSE d
            BY <2>8, <3>0 DEF ValDec
        <3>3. z \in 0..2^bits - 1 /\ UnZigZag(bits, z) = x % 2^bits
            BY <2>1, Widths, ZigZagRound
        <3>4. z \in 0..2^Bits64 - 1
            <4>1. 2^bits <= 2^Bits64 /\ 2^bits \in Nat /\ 2^Bits64 \in Nat
                BY Widths, PowerMonotonic, PowerPositive
            <4> QED BY <3>3, <4>1
        <3>5. Holds(buf, pos, EncodeVarint(z))
            BY <2>4, <3>1
        <3> HIDE DEF z
        <3>6. d = IF pos + SizeVarint(z) <= Len(buf) THEN Read(z, pos + SizeVarint(z)) ELSE Fail
            BY <3>4, <3>5, VarintRead
        <3>7. EncodeVarint(z) \in Seq(Byte) /\ Len(EncodeVarint(z)) = SizeVarint(z)
            BY <3>4, EncodeVarintIs
        <3> HIDE DEF d
        <3>8. ValDec(w, buf, pos) =
                IF pos + SizeVarint(z) <= Len(buf)
                  THEN Read(UnZigZag(bits, z), pos + SizeVarint(z)) ELSE Fail
            BY <3>2, <3>6 DEF Read, Fail
        <3> QED BY <3>1, <3>3, <3>7, <3>8 DEF z
    <2> HIDE DEF Right
    <2>9. CASE kind = "bool"
        <3>1. w = "varint" /\ SizeScalar(f, v) = 1
            BY <2>9 DEF WiresOf, SizeScalar
        <3>2. SizeVarint(x) = 1
            <4>1. x \in 0..1
                BY <2>9 DEF x, Word, ValuesOf
            <4> QED BY <4>1, OneByte
        <3> QED BY <2>1, <2>5, <2>6, <3>1, <3>2
    <2>10. CASE kind \in Number32
        <3>1. w \in {"varint", "zigzag32", "fixed32"} /\ kind # "bool"
            BY <2>10 DEF WiresOf, Number32
        <3>2. CASE w = "varint"
            BY <2>1, <2>3, <2>5, <2>6, <3>1, <3>2
        <3>3. CASE w = "zigzag32"
            BY <2>1, <2>3, <2>5, <2>8, <2>10, <3>1, <3>3
        <3>4. CASE w = "fixed32"
            BY <2>1, <2>3, <2>5, <2>7, <2>10, <3>1, <3>4
        <3> QED BY <3>1, <3>2, <3>3, <3>4
    <2>11. CASE kind = "int64"
        <3>1. w \in {"varint", "zigzag64", "fixed64"} /\ kind # "bool"
            BY <2>11 DEF WiresOf
        <3>2. x % 2^Bits64 = x /\ Bits32 # Bits64
            BY <2>1, Widths, PowerPositive, Remains
        <3>3. CASE w = "varint"
            BY <2>1, <2>3, <2>5, <2>6, <3>1, <3>3
        <3>4. CASE w = "zigzag64"
            BY <2>1, <2>3, <2>5, <2>8, <3>1, <3>2, <3>4
        <3>5. CASE w = "fixed64"
            BY <2>1, <2>3, <2>5, <2>7, <3>1, <3>2, <3>5
        <3> QED BY <3>1, <3>3, <3>4, <3>5
    <2> QED BY <1>2, <2>9, <2>10, <2>11 DEF Numbers, Number32
<1> QED BY <1>1, <1>2

-----------------------------------------------------------------------------
(* Keys, sums of sizes and what concatenations hold.                       *)

(* A key gives back the tag and how what follows is encoded.               *)
THEOREM KeyRead ==
    ASSUME NEW tag \in Nat, NEW w \in 0..7, 8 * tag + w < 2^Bits64, NEW buf \in Seq(Byte),
           NEW pos \in 0..Len(buf), Holds(buf, pos, Key(tag, w)), pos + Len(Key(tag,
           w)) <= Len(buf)
    PROVE  /\ DecodeVarint(buf, pos) = Read(8 * tag + w, pos + Len(Key(tag, w)))
           /\ (8 * tag + w) \div 8 = tag /\ (8 * tag + w) % 8 = w
<1> DEFINE x == 8 * tag + w
<1>1. x \in 0..2^Bits64 - 1
    BY Widths, PowerPositive
<1>2. Key(tag, w) = EncodeVarint(x)
    BY DEF Key
<1> HIDE DEF x
<1>3. Len(EncodeVarint(x)) = SizeVarint(x)
    BY <1>1, EncodeVarintIs
<1>4. DecodeVarint(buf, pos) =
        IF pos + SizeVarint(x) <= Len(buf) THEN Read(x, pos + SizeVarint(x)) ELSE Fail
    BY <1>1, <1>2, VarintRead
<1>5. DecodeVarint(buf, pos) = Read(x, pos + Len(Key(tag, w)))
    BY <1>2, <1>3, <1>4
<1>6. x \div 8 = tag /\ x % 8 = w
    BY DEF x
<1> QED BY <1>5, <1>6 DEF x

(* Sums.                                                                   *)
IsSum(s, ns, n) == s[0] = 0 /\ \A k \in 1..n : s[k] = s[k - 1] + ns[k]

LEMMA SumExists ==
    ASSUME NEW n \in Nat, NEW ns \in [1..n -> Nat]
    PROVE  \E s \in [0..n -> Nat] : IsSum(s, ns, n)
<1> DEFINE T == {m \in Nat : m <= n => \E s \in [0..m -> Nat] : IsSum(s, ns, m)}
<1>1. 0 \in T
    <2> DEFINE s == [k \in 0..0 |-> 0]
    <2>1. s \in [0..0 -> Nat] /\ IsSum(s, ns, 0)
        BY DEF IsSum
    <2> QED BY <2>1
<1>2. ASSUME NEW m \in Nat, m \in T PROVE m + 1 \in T
    <2> SUFFICES ASSUME m + 1 <= n PROVE \E s \in [0..m + 1 -> Nat] : IsSum(s, ns, m + 1)
        OBVIOUS
    <2>1. PICK s \in [0..m -> Nat] : IsSum(s, ns, m)
        BY <1>2
    <2> DEFINE t == [k \in 0..m + 1 |-> IF k <= m THEN s[k] ELSE s[m] + ns[m + 1]]
    <2>2. m + 1 \in 1..n /\ ns[m + 1] \in Nat /\ s[m] \in Nat
        OBVIOUS
    <2>3. t \in [0..m + 1 -> Nat]
        BY <2>2
    <2>4. t[0] = 0
        BY <2>1 DEF IsSum
    <2>5. ASSUME NEW k \in 1..m + 1 PROVE t[k] = t[k - 1] + ns[k]
        <3>1. CASE k <= m
            <4>1. k \in 1..m /\ t[k] = s[k] /\ t[k - 1] = s[k - 1]
                BY <3>1
            <4> QED BY <2>1, <4>1 DEF IsSum
        <3>2. CASE k = m + 1
            <4>1. t[k] = s[m] + ns[m + 1] /\ t[k - 1] = s[m]
                BY <3>2
            <4> QED BY <3>2, <4>1
        <3> QED BY <3>1, <3>2
    <2> HIDE DEF t
    <2>6. IsSum(t, ns, m + 1)
        BY <2>4, <2>5 DEF IsSum
    <2> QED BY <2>3, <2>6
<1> HIDE DEF T
<1>3. n \in T
    BY <1>1, <1>2, Induction
<1> QED BY <1>3 DEF T

LEMMA SumTotal ==
    ASSUME NEW n \in Nat, NEW ns \in [1..n -> Nat]
    PROVE  Total(ns) \in Nat /\ \E s \in [0..n -> Nat] : IsSum(s, ns, n) /\ Total(ns) = s[n]
<1>1. PICK s \in [0..n -> Nat] : IsSum(s, ns, n)
    BY SumExists
<1>2. Total(ns) = s[n]
    BY <1>1, TotalIs DEF IsSum
<1> QED BY <1>1, <1>2

LEMMA TotalShifted ==
    ASSUME NEW n \in Nat, NEW ns \in [1..n -> Nat], NEW c \in Nat
    PROVE  Total([k \in 1..n |-> c + ns[k]]) = c * n + Total(ns)
<1>1. PICK s \in [0..n -> Nat] : IsSum(s, ns, n) /\ Total(ns) = s[n]
    BY SumTotal
<1> DEFINE t == [k \in 0..n |-> c * k + s[k]]  ms == [k \in 1..n |-> c + ns[k]]
<1>2. ms \in [1..n -> Nat]
    OBVIOUS
<1>3. t \in [0..n -> Nat]
    <2>1. ASSUME NEW k \in 0..n PROVE c * k + s[k] \in Nat
        <3>1. c * 0 <= c * k
            BY Growth
        <3> QED BY <3>1
    <2> QED BY <2>1
<1>4. t[0] = 0
    <2>1. s[0] = 0 /\ c * 0 = 0
        BY <1>1 DEF IsSum
    <2> QED BY <2>1
<1>5. ASSUME NEW k \in 1..n PROVE t[k] = t[k - 1] + ms[k]
    <2>1. s[k] = s[k - 1] + ns[k] /\ s[k - 1] \in Nat /\ ns[k] \in Nat
        BY <1>1 DEF IsSum
    <2>2. t[k] = c * k + s[k] /\ t[k - 1] = c * (k - 1) + s[k - 1] /\ ms[k] = c + ns[k]
        OBVIOUS
    <2>3. c * k = c * (k - 1) + c
        OBVIOUS
    <2>4. c * (k - 1) \in Int
        OBVIOUS
    <2> HIDE DEF t, ms
    <2> QED BY <2>1, <2>2, <2>3, <2>4
<1> HIDE DEF t, ms
<1>6. Total(ms) = t[n]
    BY <1>2, <1>3, <1>4, <1>5, TotalIs
<1>7. t[n] = c * n + s[n]
    BY DEF t
<1> QED BY <1>1, <1>6, <1>7 DEF ms

(* Concatenating makes bytes of bytes, as many as there are in all.        *)
IsCat(f, ss, n) == f = [k \in 1..n |-> IF k = 1 THEN ss[k] ELSE f[k - 1] \o ss[k]]

LEMMA CatStep ==
    ASSUME NEW f, NEW ss, NEW j \in Nat, j > 0, IsCat(f, ss, j)
    PROVE  \E g : IsCat(g, ss, j + 1)
<1> DEFINE g == [k \in 1..j + 1 |-> IF k <= j THEN f[k] ELSE f[j] \o ss[k]]
<1>1. ASSUME NEW k \in 1..j + 1
      PROVE  g[k] = IF k = 1 THEN ss[k] ELSE g[k - 1] \o ss[k]
    <2>1. CASE k <= j
        <3>1. g[k] = f[k] /\ k \in 1..j
            BY <2>1
        <3>2. f[k] = IF k = 1 THEN ss[k] ELSE f[k - 1] \o ss[k]
            BY <3>1 DEF IsCat
        <3>3. k # 1 => g[k - 1] = f[k - 1]
            BY <2>1
        <3> QED BY <3>1, <3>2, <3>3
    <2>2. CASE k = j + 1
        <3>0. ~(k <= j)
            BY <2>2
        <3>1. g[k] = f[j] \o ss[k]
            BY <3>0, Zenon
        <3>2. k - 1 = j /\ j \in 1..j + 1 /\ j <= j /\ k # 1
            BY <2>2
        <3>3. g[k - 1] = f[j]
            BY <3>2
        <3> QED BY <3>1, <3>2, <3>3
    <2> QED BY <2>1, <2>2
<1>2. g = [k \in 1..j + 1 |-> g[k]]
    OBVIOUS
<1> HIDE DEF g
<1>3. IsCat(g, ss, j + 1)
    BY <1>1, <1>2 DEF IsCat
<1> QED BY <1>3

LEMMA CatExists ==
    ASSUME NEW n \in Nat, n > 0, NEW ss
    PROVE  \E f : IsCat(f, ss, n)
<1> DEFINE T == {m \in Nat : \E f : IsCat(f, ss, m + 1)}
<1>1. 0 \in T
    <2> DEFINE f == [k \in 1..1 |-> ss[k]]
    <2>1. \A k \in 1..1 : f[k] = IF k = 1 THEN ss[k] ELSE f[k - 1] \o ss[k]
        OBVIOUS
    <2>2. f = [k \in 1..0 + 1 |-> IF k = 1 THEN ss[k] ELSE f[k - 1] \o ss[k]]
        BY <2>1
    <2>3. IsCat(f, ss, 0 + 1)
        BY <2>2 DEF IsCat
    <2> HIDE DEF f
    <2> QED BY <2>3
<1>2. ASSUME NEW m \in Nat, m \in T PROVE m + 1 \in T
    <2> DEFINE j == m + 1
    <2>1. \E f : IsCat(f, ss, j)
        BY <1>2
    <2>2. j \in Nat /\ j > 0
        OBVIOUS
    <2> HIDE DEF j
    <2>3. \E g : IsCat(g, ss, j + 1)
        BY <2>1, <2>2, CatStep
    <2> QED BY <2>2, <2>3 DEF j
<1> HIDE DEF T
<1>3. n - 1 \in T
    <2>1. Nat \subseteq T
        BY <1>1, <1>2, Induction
    <2> QED BY <2>1
<1>4. (n - 1) + 1 = n
    OBVIOUS
<1>5. \E f : IsCat(f, ss, (n - 1) + 1)
    BY <1>3 DEF T
<1> QED BY <1>4, <1>5

LEMMA Appended ==
    ASSUME NEW s \in Seq(Byte), NEW t \in Seq(Byte)
    PROVE  s \o t \in Seq(Byte) /\ Len(s \o t) = Len(s) + Len(t)
OBVIOUS

(* t holds what has been joined of ss, piece by piece, and s how much.     *)
IsJoined(t, ss, s, n) == \A k \in 1..n :
    /\ t[k] \in Seq(Byte) /\ Len(t[k]) = s[k]
    /\ t[k] = IF k = 1 THEN ss[k] ELSE t[k - 1] \o ss[k]

LEMMA Flattened ==
    ASSUME NEW n \in Nat, n > 0, NEW ss \in [1..n -> Seq(Byte)], NEW s \in [0..n -> Nat],
           IsSum(s, [k \in 1..n |-> Len(ss[k])], n)
    PROVE  \E t : IsJoined(t, ss, s, n) /\ FlattenSeq(ss) = t[n]
<1> DEFINE ns == [k \in 1..n |-> Len(ss[k])]
           t == CHOOSE f : IsCat(f, ss, n)
<1>1. IsCat(t, ss, n)
    BY CatExists, Zenon
<1>2. FlattenSeq(ss) = t[n]
    <2>1. Len(ss) = n /\ n # 0
        OBVIOUS
    <2> QED BY <2>1, Zenon DEF FlattenSeq, IsCat
<1>3. \A k \in 1..n : t[k] = IF k = 1 THEN ss[k] ELSE t[k - 1] \o ss[k]
    BY <1>1 DEF IsCat
<1> HIDE DEF t
<1> DEFINE T == {m \in Nat : m + 1 <= n => t[m + 1] \in Seq(Byte) /\ Len(t[m + 1]) = s[m + 1]}
<1>4. 0 \in T
    <2>1. 1 \in 1..n /\ t[1] = ss[1] /\ ss[1] \in Seq(Byte)
        BY <1>3
    <2>2. s[1] = s[1 - 1] + ns[1] /\ s[1 - 1] = 0
        BY <2>1 DEF IsSum
    <2>3. ns[1] = Len(ss[1]) /\ Len(ss[1]) \in Nat
        BY <2>1
    <2> QED BY <2>1, <2>2, <2>3
<1>5. ASSUME NEW m \in Nat, m \in T PROVE m + 1 \in T
    <2> SUFFICES ASSUME (m + 1) + 1 <= n
                 PROVE  t[(m + 1) + 1] \in Seq(Byte) /\ Len(t[(m + 1) + 1]) = s[(m + 1) + 1]
        OBVIOUS
    <2> DEFINE j == m + 1
    <2>1. t[j] \in Seq(Byte) /\ Len(t[j]) = s[j]
        BY <1>5
    <2>2. j + 1 \in 1..n /\ (j + 1) - 1 = j /\ j + 1 # 1
        OBVIOUS
    <2> HIDE DEF j
    <2>3. t[j + 1] = t[j] \o ss[j + 1] /\ ss[j + 1] \in Seq(Byte)
        BY <1>3, <2>2
    <2>4. s[j + 1] = s[j] + ns[j + 1] /\ ns[j + 1] = Len(ss[j + 1])
        BY <2>2 DEF IsSum
    <2>5. t[j + 1] \in Seq(Byte) /\ Len(t[j + 1]) = Len(t[j]) + Len(ss[j + 1])
        BY <2>1, <2>3, Appended
    <2> QED BY <2>1, <2>4, <2>5 DEF j
<1> HIDE DEF T
<1>6. ASSUME NEW k \in 1..n PROVE t[k] \in Seq(Byte) /\ Len(t[k]) = s[k]
    <2>1. Nat \subseteq T
        BY <1>4, <1>5, Induction
    <2>2. k - 1 \in T /\ (k - 1) + 1 = k /\ k <= n
        BY <2>1
    <2> QED BY <2>2 DEF T
<1>7. IsJoined(t, ss, s, n)
    BY <1>3, <1>6 DEF IsJoined
<1> QED BY <1>2, <1>7

LEMMA FlattenLen ==
    ASSUME NEW n \in Nat, NEW ss \in [1..n -> Seq(Byte)]
    PROVE  /\ FlattenSeq(ss) \in Seq(Byte)
           /\ Len(FlattenSeq(ss)) = Total([k \in 1..n |-> Len(ss[k])])
<1> DEFINE ns == [k \in 1..n |-> Len(ss[k])]
<1>0. ns \in [1..n -> Nat]
    OBVIOUS
<1>1. PICK s \in [0..n -> Nat] : IsSum(s, ns, n) /\ Total(ns) = s[n]
    BY <1>0, SumTotal
<1>2. CASE n = 0
    <2>1. FlattenSeq(ss) = ss /\ ss = <<>>
        BY <1>2 DEF FlattenSeq
    <2>2. Total(ns) = 0
        BY <1>1, <1>2 DEF IsSum
    <2> QED BY <2>1, <2>2
<1>3. CASE n > 0
    <2>1. PICK t : IsJoined(t, ss, s, n) /\ FlattenSeq(ss) = t[n]
        BY <1>1, <1>3, Flattened
    <2>2. t[n] \in Seq(Byte) /\ Len(t[n]) = s[n]
        BY <1>3, <2>1 DEF IsJoined
    <2> QED BY <1>1, <2>1, <2>2
<1> QED BY <1>2, <1>3

(* A buffer that holds pieces joined holds each where those before it end. *)
LEMMA HoldsEach ==
    ASSUME NEW n \in Nat, NEW ss \in [1..n -> Seq(Byte)], NEW s \in [0..n -> Nat],
           IsSum(s, [k \in 1..n |-> Len(ss[k])], n), NEW buf \in Seq(Byte), NEW pos \in Nat,
           Holds(buf, pos, FlattenSeq(ss))
    PROVE  \A k \in 1..n : Holds(buf, pos + s[k - 1], ss[k])
<1> SUFFICES ASSUME n > 0 PROVE \A k \in 1..n : Holds(buf, pos + s[k - 1], ss[k])
    OBVIOUS
<1>1. PICK t : IsJoined(t, ss, s, n) /\ FlattenSeq(ss) = t[n]
    BY Flattened
<1>2. ASSUME NEW k \in 1..n, Holds(buf, pos, t[k])
      PROVE  /\ k # 1 => Holds(buf, pos, t[k - 1])
             /\ Holds(buf, pos + s[k - 1], ss[k])
    <2>1. CASE k = 1
        <3>1. t[k] = ss[k]
            BY <1>1, <2>1 DEF IsJoined
        <3>2. s[0] = 0 /\ k - 1 = 0
            BY <2>1 DEF IsSum
        <3>3. pos + s[k - 1] = pos
            BY <3>2
        <3> QED BY <1>2, <2>1, <3>1, <3>3
    <2>2. CASE k # 1
        <3> DEFINE j == k - 1
        <3>1. j \in 1..n
            BY <2>2
        <3>2. t[k] = t[j] \o ss[k]
            BY <1>1, <2>2 DEF IsJoined
        <3>3. t[j] \in Seq(Byte) /\ Len(t[j]) = s[j]
            BY <1>1, <3>1 DEF IsJoined
        <3>4. Holds(buf, pos, t[j] \o ss[k]) /\ ss[k] \in Seq(Byte)
            BY <1>2, <3>2
        <3> HIDE DEF j
        <3>5. Holds(buf, pos, t[j]) /\ Holds(buf, pos + Len(t[j]), ss[k])
            BY <3>3, <3>4, HoldsBoth
        <3> QED BY <2>2, <3>3, <3>5 DEF j
    <2> QED BY <2>1, <2>2
<1> DEFINE T == {m \in Nat : m < n => Holds(buf, pos, t[n - m])}
<1>3. 0 \in T
    <2>1. n - 0 = n
        OBVIOUS
    <2> QED BY <1>1, <2>1
<1>4. ASSUME NEW m \in Nat, m \in T PROVE m + 1 \in T
    <2> SUFFICES ASSUME m + 1 < n PROVE Holds(buf, pos, t[n - (m + 1)])
        OBVIOUS
    <2> DEFINE k == n - m
    <2>1. k \in 1..n /\ k # 1 /\ n - (m + 1) = k - 1
        OBVIOUS
    <2>2. Holds(buf, pos, t[k])
        BY <1>4
    <2> HIDE DEF k
    <2>3. Holds(buf, pos, t[k - 1])
        BY <1>2, <2>1, <2>2
    <2> QED BY <2>1, <2>3
<1> HIDE DEF T
<1>5. ASSUME NEW k \in 1..n PROVE Holds(buf, pos, t[k])
    <2>1. Nat \subseteq T
        BY <1>3, <1>4, Induction
    <2>2. n - k \in T /\ n - k < n /\ n - (n - k) = k
        BY <2>1
    <2> QED BY <2>2 DEF T
<1> QED BY <1>2, <1>5

-----------------------------------------------------------------------------
(* The sizes of fields and of messages.                                    *)

(* A field of a message type whose code fits a word.                       *)
FieldOK(f) ==
    \/ f.kind \in Numbers \cup {"bytes"} /\ f.wire \in WiresOf(f.kind)
    \/ f.kind = "message" /\ f.wire \in {"bytes", "group"} /\ f.label # "packed"
TagOK(tag) == tag \in Nat /\ 8 * tag + 7 < 2^Bits64

LEMMA KeyLen ==
    ASSUME NEW tag, TagOK(tag), NEW w \in 0..7
    PROVE  Key(tag, w) \in Seq(Byte) /\ Len(Key(tag, w)) = SizeVarint(8 * tag + w)
<1> DEFINE x == 8 * tag + w
<1>1. x \in 0..2^Bits64 - 1
    BY Widths, PowerPositive DEF TagOK
<1>2. Key(tag, w) = EncodeVarint(x)
    BY DEF Key
<1> HIDE DEF x
<1> QED BY <1>1, <1>2, EncodeVarintIs DEF x

LEMMA TagCodeLen ==
    ASSUME NEW tag, TagOK(tag), NEW f
    PROVE  TagCode(f, tag) \in Seq(Byte)
<1> DEFINE w == IF f.label = "packed" THEN Bytes ELSE WireType(f)
<1>1. w \in 0..7
    BY DEF WireType, Bytes, Fixed64, Fixed32, Varint
<1>2. TagCode(f, tag) = Key(tag, w)
    BY DEF TagCode
<1> HIDE DEF w
<1> QED BY <1>1, <1>2, KeyLen

LEMMA RawLen ==
    ASSUME NEW b \in Seq(Byte), Len(b) < 2^Bits64
    PROVE  RawBytes(b) \in Seq(Byte) /\ Len(RawBytes(b)) = SizeVarint(Len(b)) + Len(b)
<1> DEFINE x == Len(b)  e == EncodeVarint(x)
<1>1. x \in 0..2^Bits64 - 1
    BY Widths, PowerPositive
<1>2. e \in Seq(Byte) /\ Len(e) = SizeVarint(x)
    BY <1>1, EncodeVarintIs
<1>3. RawBytes(b) = e \o b
    BY DEF RawBytes
<1> HIDE DEF e, x
<1>4. e \o b \in Seq(Byte) /\ Len(e \o b) = Len(e) + Len(b)
    BY <1>2, Appended
<1> QED BY <1>2, <1>3, <1>4 DEF x

LEMMA SizeVarintType ==
    ASSUME NEW x \in Nat, x < 2^Bits64
    PROVE  SizeVarint(x) \in Nat
<1>1. x \in 0..2^Bits64 - 1
    BY Widths, PowerPositive
<1>2. SizeVarint(x) \in 1..MaxVarintBytes
    BY <1>1, SizeVarintIs
<1> QED BY <1>2

(* What SizeField adds for a message of n bytes.                           *)
MessageSize(f, tag, n) ==
    IF f.wire = "bytes" THEN Len(TagCode(f, tag)) + n + SizeVarint(n)
    ELSE SizeVarint(8 * tag + StartGroup) + n + SizeVarint(8 * tag + EndGroup)

LEMMA ValueLen ==
    ASSUME NEW f, NEW tag, FieldOK(f), TagOK(tag), NEW body \in Seq(Byte), Len(body) < 2^Bits64
    PROVE  /\ EncValue(f, tag, body) \in Seq(Byte)
           /\ Len(EncValue(f, tag, body)) =
                IF f.kind = "message" THEN MessageSize(f, tag, Len(body))
                ELSE Len(TagCode(f, tag)) + Len(body)
<1> DEFINE code == TagCode(f, tag)  raw == RawBytes(body)
           start == Key(tag, StartGroup)  end == Key(tag, EndGroup)
<1>1. code \in Seq(Byte)
    BY TagCodeLen
<1>2. raw \in Seq(Byte) /\ Len(raw) = SizeVarint(Len(body)) + Len(body)
    BY RawLen
<1>3. /\ start \in Seq(Byte) /\ Len(start) = SizeVarint(8 * tag + StartGroup)
      /\ end \in Seq(Byte) /\ Len(end) = SizeVarint(8 * tag + EndGroup)
    BY KeyLen DEF StartGroup, EndGroup
<1>4. Len(body) \in Nat /\ SizeVarint(Len(body)) \in Nat
    BY SizeVarintType
<1> HIDE DEF code, raw, start, end
<1>5. CASE f.kind # "message"
    <2>1. EncValue(f, tag, body) = code \o body
        BY <1>5 DEF EncValue, code
    <2>2. code \o body \in Seq(Byte) /\ Len(code \o body) = Len(code) + Len(body)
        BY <1>1, Appended
    <2> QED BY <1>5, <2>1, <2>2 DEF code
<1>6. CASE f.kind = "message" /\ f.wire = "bytes"
    <2>1. EncValue(f, tag, body) = code \o raw
        BY <1>6 DEF EncValue, code, raw
    <2>2. code \o raw \in Seq(Byte) /\ Len(code \o raw) = Len(code) + Len(raw)
        BY <1>1, <1>2, Appended
    <2>3. Len(code) \in Nat
        BY <1>1
    <2>4. MessageSize(f, tag, Len(body)) = Len(code) + Len(body) + SizeVarint(Len(body))
        BY <1>6 DEF MessageSize, code
    <2>5. Len(code) + Len(raw) = Len(code) + Len(body) + SizeVarint(Len(body))
        BY <1>2, <1>4, <2>3
    <2> QED BY <1>6, <2>1, <2>2, <2>4, <2>5
<1>7. CASE f.kind = "message" /\ f.wire = "group"
    <2>1. EncValue(f, tag, body) = (start \o body) \o end
        BY <1>7 DEF EncValue, start, end
    <2>2. start \o body \in Seq(Byte) /\ Len(start \o body) = Len(start) + Len(body)
        BY <1>3, Appended
    <2>3. /\ (start \o body) \o end \in Seq(Byte)
          /\ Len((start \o body) \o end) = Len(start \o body) + Len(end)
        BY <1>3, <2>2, Appended
    <2>4. MessageSize(f, tag, Len(body)) = Len(start) + Len(body) + Len(end)
        BY <1>3, <1>7 DEF MessageSize
    <2> QED BY <1>7, <2>1, <2>2, <2>3, <2>4
<1> QED BY <1>5, <1>6, <1>7 DEF FieldOK, Numbers

(* What is written in front of its length, or has to be, fits in memory.   *)
Fits(f, bodies) ==
    /\ \A k \in DOMAIN bodies : Len(bodies[k]) < 2^Bits64
    /\ f.label = "packed" => Len(FlattenSeq(bodies)) < 2^Bits64

(* The sizes are those of the bodies.                                      *)
Measured(f, bodies, sizes) == \E n \in Nat :
    /\ bodies \in [1..n -> Seq(Byte)] /\ Fits(f, bodies)
    /\ sizes = [k \in 1..n |-> Len(bodies[k])]

(* What the size functions of a field (size_slice_packed_int32 ...) return *)
(* is the length of what its encoders write, whatever its values are.      *)
THEOREM FieldSize ==
    ASSUME NEW f, NEW tag, FieldOK(f), TagOK(tag), NEW bodies, NEW sizes,
           Measured(f, bodies, sizes)
    PROVE  /\ EncField(f, tag, bodies) \in Seq(Byte)
           /\ Len(EncField(f, tag, bodies)) = SizeField(f, tag, sizes)
<1>0. PICK n \in Nat :
        /\ bodies \in [1..n -> Seq(Byte)] /\ Fits(f, bodies)
        /\ sizes = [k \in 1..n |-> Len(bodies[k])]
    BY DEF Measured
<1>a. \A k \in 1..n : Len(bodies[k]) < 2^Bits64
    BY <1>0 DEF Fits
<1>b. f.label = "packed" => Len(FlattenSeq(bodies)) < 2^Bits64
    BY <1>0 DEF Fits
<1> DEFINE vs == [k \in 1..n |-> EncValue(f, tag, bodies[k])]
           lens == [k \in 1..n |-> Len(vs[k])]
           code == TagCode(f, tag)
<1>1. sizes \in [1..n -> Nat] /\ DOMAIN bodies = 1..n /\ DOMAIN sizes = 1..n
    BY <1>0
<1>2. code \in Seq(Byte) /\ Len(code) \in Nat
    BY TagCodeLen
<1>3. \A k \in 1..n :
        /\ vs[k] \in Seq(Byte)
        /\ Len(vs[k]) = IF f.kind = "message" THEN MessageSize(f, tag, sizes[k])
                        ELSE Len(code) + sizes[k]
    BY <1>0, <1>a, <1>1, ValueLen
<1>4. vs \in [1..n -> Seq(Byte)]
    BY <1>3
<1>5. FlattenSeq(vs) \in Seq(Byte) /\ Len(FlattenSeq(vs)) = Total(lens)
    BY <1>4, FlattenLen
<1>6. FlattenSeq(bodies) \in Seq(Byte) /\ Len(FlattenSeq(bodies)) = Total(sizes)
    BY <1>0, FlattenLen
<1>7. (bodies = <<>> <=> n = 0) /\ (sizes = <<>> <=> n = 0)
    <2>1. bodies = [k \in 1..n |-> bodies[k]] /\ sizes = [k \in 1..n |-> sizes[k]]
        BY <1>0
    <2>2. \A s : s = [k \in 1..n |-> s[k]] => (s = <<>> <=> n = 0)
        OBVIOUS
    <2> QED BY <2>1, <2>2
<1>8. EncField(f, tag, bodies) =
        IF f.label = "packed" /\ bodies # <<>> THEN code \o RawBytes(FlattenSeq(bodies))
        ELSE FlattenSeq(vs)
    BY <1>1 DEF EncField, Packed
<1>9. SizeField(f, tag, sizes) =
        IF sizes = <<>> THEN 0
        ELSE IF f.kind = "message" THEN Total([k \in 1..n |-> MessageSize(f, tag, sizes[k])])
        ELSE IF f.label = "packed" THEN Len(code) + SizeVarint(Total(sizes)) + Total(sizes)
        ELSE Len(code) * Len(sizes) + Total(sizes)
    BY <1>1 DEF SizeField, MessageSize
<1>10. Len(sizes) = n
    BY <1>0
<1>11. lens = [k \in 1..n |-> IF f.kind = "message" THEN MessageSize(f, tag, sizes[k])
                              ELSE Len(code) + sizes[k]]
    BY <1>3
<1>12. lens \in [1..n -> Nat]
    BY <1>4
<1>13. Total(sizes) \in Nat
    BY <1>1, SumTotal
<1> HIDE DEF vs, lens, code
<1>14. CASE n = 0
    <2>1. PICK s \in [0..n -> Nat] : IsSum(s, lens, n) /\ Total(lens) = s[n]
        BY <1>12, SumTotal
    <2>2. Total(lens) = 0
        BY <1>14, <2>1 DEF IsSum
    <2> QED BY <1>5, <1>7, <1>8, <1>9, <1>14, <2>2
<1>15. CASE n > 0 /\ f.kind = "message"
    <2>1. f.label # "packed"
        BY <1>15 DEF FieldOK, Numbers
    <2>2. lens = [k \in 1..n |-> MessageSize(f, tag, sizes[k])]
        BY <1>11, <1>15
    <2>3. EncField(f, tag, bodies) = FlattenSeq(vs)
        BY <1>8, <2>1
    <2>4. SizeField(f, tag, sizes) = Total(lens)
        BY <1>7, <1>9, <1>15, <2>2
    <2> QED BY <1>5, <2>3, <2>4
<1>16. CASE n > 0 /\ f.kind # "message" /\ f.label = "packed"
    <2> DEFINE b == FlattenSeq(bodies)
    <2>1. b \in Seq(Byte) /\ Len(b) < 2^Bits64 /\ Len(b) = Total(sizes)
        BY <1>b, <1>6, <1>16
    <2> HIDE DEF b
    <2>2. RawBytes(b) \in Seq(Byte) /\ Len(RawBytes(b)) = SizeVarint(Len(b)) + Len(b)
        BY <2>1, RawLen
    <2> DEFINE r == RawBytes(b)
    <2> HIDE DEF r
    <2>3. code \o r \in Seq(Byte) /\ Len(code \o r) = Len(code) + Len(r)
        BY <1>2, <2>2, Appended DEF r
    <2>4. EncField(f, tag, bodies) = code \o r
        BY <1>7, <1>8, <1>16 DEF b, r
    <2>5. SizeVarint(Total(sizes)) \in Nat
        BY <1>13, <2>1, SizeVarintType
    <2>6. SizeField(f, tag, sizes) = Len(code) + SizeVarint(Total(sizes)) + Total(sizes)
        BY <1>7, <1>9, <1>16
    <2>7. Len(r) = SizeVarint(Total(sizes)) + Total(sizes)
        BY <2>1, <2>2 DEF r
    <2>8. Len(code) + Len(r) = Len(code) + SizeVarint(Total(sizes)) + Total(sizes)
        BY <1>2, <1>13, <2>5, <2>7
    <2> QED BY <2>3, <2>4, <2>6, <2>8
<1>17. CASE n > 0 /\ f.kind # "message" /\ f.label # "packed"
    <2>1. lens = [k \in 1..n |-> Len(code) + sizes[k]]
        BY <1>11, <1>17
    <2>2. Total(lens) = Len(code) * n + Total(sizes)
        BY <1>1, <1>2, <2>1, TotalShifted
    <2>3. SizeField(f, tag, sizes) = Len(code) * n + Total(sizes)
        BY <1>7, <1>9, <1>10, <1>17
    <2>4. EncField(f, tag, bodies) = FlattenSeq(vs)
        BY <1>8, <1>17
    <2> QED BY <1>5, <2>2, <2>3, <2>4
<1> QED BY <1>14, <1>15, <1>16, <1>17

(* A message type: its fields, the last of which has the greatest tag.     *)
TypeIs(type) ==
    /\ DOMAIN type \subseteq Nat \ {0}
    /\ \E top \in DOMAIN type : \A tag \in DOMAIN type : tag <= top
    /\ \A tag \in DOMAIN type : FieldOK(type[tag]) /\ TagOK(tag)

(* All fields have bodies of the sizes.                                    *)
AllMeasured(type, bodies, sizes) ==
    \A tag \in DOMAIN type : Measured(type[tag], bodies[tag], sizes[tag])

LEMMA MaxIs ==
    ASSUME NEW S, S \subseteq Nat, NEW top \in S, \A k \in S : k <= top
    PROVE  Max(S) = top
<1>1. \A y \in S : top >= y
    OBVIOUS
<1>2. \A z \in S : (\A y \in S : z >= y) => z = top
    BY <1>1
<1> QED BY <1>1, <1>2 DEF Max

(* The size of a message is that of its encoding, if that is so of the     *)
(* messages in it: the sizes of the bodies are their lengths.              *)
LEMMA FieldsSize ==
    ASSUME NEW type, TypeIs(type), NEW bodies, NEW sizes, NEW unknown \in Seq(Byte),
           AllMeasured(type, bodies, sizes)
    PROVE  /\ EncFields(type, bodies, unknown) \in Seq(Byte)
           /\ Len(EncFields(type, bodies, unknown)) = SizeFields(type, sizes, unknown)
<1>1. PICK top \in DOMAIN type : \A tag \in DOMAIN type : tag <= top
    BY DEF TypeIs
<1>2. DOMAIN type \subseteq Nat /\ top \in Nat /\ Max(DOMAIN type) = top
    BY <1>1, MaxIs DEF TypeIs
<1> DEFINE fs == [tag \in 1..top |->
                   IF tag \in DOMAIN type THEN EncField(type[tag], tag, bodies[tag]) ELSE <<>>]
           ns == [tag \in 1..top |->
                   IF tag \in DOMAIN type THEN SizeField(type[tag], tag, sizes[tag]) ELSE 0]
<1>3. ASSUME NEW tag \in 1..top
      PROVE  fs[tag] \in Seq(Byte) /\ Len(fs[tag]) = ns[tag]
    <2>1. CASE tag \in DOMAIN type
        <3>1. FieldOK(type[tag]) /\ TagOK(tag) /\ Measured(type[tag], bodies[tag], sizes[tag])
            BY <2>1 DEF TypeIs, AllMeasured
        <3>2. fs[tag] = EncField(type[tag], tag, bodies[tag])
              /\ ns[tag] = SizeField(type[tag], tag, sizes[tag])
            BY <2>1
        <3> HIDE DEF fs, ns
        <3> QED BY <3>1, <3>2, FieldSize
    <2>2. CASE tag \notin DOMAIN type
        <3>1. fs[tag] = <<>> /\ ns[tag] = 0
            BY <2>2
        <3> HIDE DEF fs, ns
        <3> QED BY <3>1
    <2> QED BY <2>1, <2>2
<1>4. EncFields(type, bodies, unknown) = FlattenSeq(fs) \o unknown
    BY <1>2 DEF EncFields
<1>5. SizeFields(type, sizes, unknown) = Total(ns) + Len(unknown)
    BY <1>2 DEF SizeFields
<1>6. fs \in [1..top -> Seq(Byte)]
    BY <1>3
<1>7. ns = [tag \in 1..top |-> Len(fs[tag])]
    BY <1>3
<1> HIDE DEF fs, ns
<1>8. FlattenSeq(fs) \in Seq(Byte) /\ Len(FlattenSeq(fs)) = Total(ns)
    BY <1>2, <1>6, <1>7, FlattenLen
<1> DEFINE e == FlattenSeq(fs)
<1> HIDE DEF e
<1>9. e \o unknown \in Seq(Byte) /\ Len(e \o unknown) = Len(e) + Len(unknown)
    BY <1>8, Appended DEF e
<1> QED BY <1>4, <1>5, <1>8, <1>9 DEF e

(* A scalar's size alone.                                                  *)
LEMMA ScalarSize ==
    ASSUME NEW f, NEW v, f.kind \in Numbers \cup {"bytes"}, f.wire \in WiresOf(f.kind),
           v \in ValuesOf(f.kind)
    PROVE  Scalar(f, v) \in Seq(Byte) /\ Len(Scalar(f, v)) = SizeScalar(f, v)
<1> DEFINE buf == <<>>
<1>1. buf \in Seq(Byte) /\ 0 \in 0..Len(buf) /\ Len(buf) = 0
    OBVIOUS
<1>2. Holds(buf, 0, Scalar(f, v))
    BY <1>1 DEF Holds
<1> HIDE DEF buf
<1> QED BY <1>1, <1>2, ScalarRead

(* Messages in messages.  M is a set of messages p, each its type p[1] and *)
(* what it maps the tags to, p[2], that has the messages in its messages;  *)
(* depth counts how far down these go.                                     *)
InMessages(M, depth, p) ==
    /\ TypeIs(p[1]) /\ p[2].unknown \in Seq(Byte)
    /\ \A tag \in DOMAIN p[1] :
        /\ \E n \in Nat : DOMAIN p[2].field[tag] = 1..n
        /\ \A k \in DOMAIN p[2].field[tag] :
            LET f == p[1][tag]  v == p[2].field[tag][k] IN
            IF f.kind = "message" THEN <<f.sub, v>> \in M /\ depth[<<f.sub, v>>] < depth[p]
            ELSE v \in ValuesOf(f.kind)

BodyOf(enc, f, v) == IF f.kind = "message" THEN enc[<<f.sub, v>>] ELSE Scalar(f, v)
SizeOf(size, f, v) == IF f.kind = "message" THEN size[<<f.sub, v>>] ELSE SizeScalar(f, v)
BodiesOf(enc, p) ==
    [tag \in DOMAIN p[1] |->
        [k \in DOMAIN p[2].field[tag] |-> BodyOf(enc, p[1][tag], p[2].field[tag][k])]]
SizesOf(size, p) ==
    [tag \in DOMAIN p[1] |->
        [k \in DOMAIN p[2].field[tag] |-> SizeOf(size, p[1][tag], p[2].field[tag][k])]]

(* enc and size are defined by the equations of EncStruct and SizeStruct,  *)
(* and no length overflows a word.                                         *)
Encodes(enc, M) == enc = [p \in M |-> EncFields(p[1], BodiesOf(enc, p), p[2].unknown)]
Measures(size, M) == size = [p \in M |-> SizeFields(p[1], SizesOf(size, p), p[2].unknown)]
AllFit(enc, M) == \A p \in M : \A tag \in DOMAIN p[1] : Fits(p[1][tag], BodiesOf(enc, p)[tag])
AllIn(M, depth) == \A p \in M : InMessages(M, depth, p)

(* However deep its messages go, a message has the size that is computed   *)
(* for it: so for any functions that are defined as EncStruct and          *)
(* SizeStruct are, one from the encodings, one from the sizes of the parts.*)
THEOREM SizesExact ==
    ASSUME NEW M, NEW depth \in [M -> Nat], NEW enc, NEW size,
           AllIn(M, depth), Encodes(enc, M), Measures(size, M), AllFit(enc, M)
    PROVE  \A p \in M : enc[p] \in Seq(Byte) /\ size[p] = Len(enc[p])
<1> DEFINE Good(p) == enc[p] \in Seq(Byte) /\ size[p] = Len(enc[p])
           T == {d \in Nat : \A p \in M : depth[p] < d => Good(p)}
<1>1. 0 \in T
    OBVIOUS
<1>2. ASSUME NEW d \in Nat, d \in T PROVE d + 1 \in T
    <2> SUFFICES ASSUME NEW p \in M, depth[p] < d + 1 PROVE Good(p)
        OBVIOUS
    <2>1. InMessages(M, depth, p)
        BY DEF AllIn
    <2>2. \A q \in M : depth[q] < depth[p] => Good(q)
        BY <1>2
    <2> DEFINE type == p[1]  bodies == BodiesOf(enc, p)  sizes == SizesOf(size, p)
               unknown == p[2].unknown
    <2>3. TypeIs(type) /\ unknown \in Seq(Byte)
        BY <2>1 DEF InMessages
    <2>4. enc[p] = EncFields(type, bodies, unknown)
          /\ size[p] = SizeFields(type, sizes, unknown)
        BY DEF Encodes, Measures
    <2>5. ASSUME NEW tag \in DOMAIN type
          PROVE  Measured(type[tag], bodies[tag], sizes[tag])
        <3> DEFINE f == type[tag]  vs == p[2].field[tag]
        <3>1. PICK n \in Nat : DOMAIN vs = 1..n
            BY <2>1 DEF InMessages
        <3>2. bodies[tag] = [k \in 1..n |-> BodyOf(enc, f, vs[k])]
            BY <3>1 DEF BodiesOf
        <3>3. sizes[tag] = [k \in 1..n |-> SizeOf(size, f, vs[k])]
            BY <3>1 DEF SizesOf
        <3>4. ASSUME NEW k \in 1..n
              PROVE  /\ BodyOf(enc, f, vs[k]) \in Seq(Byte)
                     /\ SizeOf(size, f, vs[k]) = Len(BodyOf(enc, f, vs[k]))
            <4>1. IF f.kind = "message"
                    THEN <<f.sub, vs[k]>> \in M /\ depth[<<f.sub, vs[k]>>] < depth[p]
                    ELSE vs[k] \in ValuesOf(f.kind)
                BY <2>1, <3>1 DEF InMessages
            <4>2. FieldOK(f)
                BY <2>3 DEF TypeIs
            <4>3. CASE f.kind = "message"
                <5>1. Good(<<f.sub, vs[k]>>)
                    BY <2>2, <4>1, <4>3
                <5> QED BY <4>3, <5>1 DEF BodyOf, SizeOf
            <4>4. CASE f.kind # "message"
                <5>1. f.kind \in Numbers \cup {"bytes"} /\ f.wire \in WiresOf(f.kind)
                    BY <4>2, <4>4 DEF FieldOK
                <5>2. vs[k] \in ValuesOf(f.kind)
                    BY <4>1, <4>4
                <5> HIDE DEF f, vs
                <5>3. Scalar(f, vs[k]) \in Seq(Byte)
                      /\ Len(Scalar(f, vs[k])) = SizeScalar(f, vs[k])
                    BY <5>1, <5>2, ScalarSize
                <5> QED BY <4>4, <5>3 DEF BodyOf, SizeOf
            <4> QED BY <4>3, <4>4
        <3>5. Fits(f, bodies[tag])
            BY DEF AllFit
        <3> HIDE DEF bodies, sizes, f, vs
        <3>6. bodies[tag] \in [1..n -> Seq(Byte)]
            BY <3>2, <3>4
        <3>7. sizes[tag] = [k \in 1..n |-> Len(bodies[tag][k])]
            BY <3>2, <3>3, <3>4
        <3> QED BY <3>5, <3>6, <3>7 DEF f, Measured
    <2> HIDE DEF type, bodies, sizes, unknown
    <2>6. /\ EncFields(type, bodies, unknown) \in Seq(Byte)
          /\ Len(EncFields(type, bodies, unknown)) = SizeFields(type, sizes, unknown)
        <3>1. AllMeasured(type, bodies, sizes)
            BY <2>5 DEF AllMeasured
        <3> QED BY <2>3, <3>1, FieldsSize
    <2> QED BY <2>4, <2>6
<1> HIDE DEF T
<1>3. Nat \subseteq T
    BY <1>1, <1>2, Induction
<1>4. ASSUME NEW p \in M PROVE Good(p)
    <2>1. depth[p] + 1 \in T /\ depth[p] < depth[p] + 1
        BY <1>3
    <2> QED BY <2>1 DEF T
<1> QED BY <1>4

-----------------------------------------------------------------------------
(* Reading bytes that may be anything.                                     *)

(* Digits make a number of as many digits.                                 *)
LEMMA ValueRange ==
    ASSUME NEW w \in Nat, NEW n \in Nat, NEW ds \in [1..n -> 0..2^w - 1]
    PROVE  Value(w, ds) \in 0..2^(w * n) - 1
<1> DEFINE b == 2^w  ns == [k \in 1..n |-> ds[k] * 2^(w * (k - 1))]
<1>1. b \in Nat /\ b > 0 /\ \A k \in 1..n : ds[k] \in 0..b - 1
    BY PowerPositive
<1>2. \A k \in Nat : w * k \in Nat
    <2>1. ASSUME NEW k \in Nat PROVE w * k \in Nat
        <3>1. w * 0 <= w * k
            BY Growth
        <3> QED BY <3>1
    <2> QED BY <2>1
<1>3. Value(w, ds) = Total(ns)
    BY DEF Value
<1>4. ns \in [1..n -> Nat]
    <2>1. ASSUME NEW k \in 1..n PROVE ds[k] * 2^(w * (k - 1)) \in Nat
        <3> DEFINE a == 2^(w * (k - 1))  d == ds[k]
        <3>1. a \in Nat /\ d \in Nat
            BY <1>1, <1>2, PowerPositive
        <3> HIDE DEF a, d
        <3>2. a * 0 <= a * d
            BY <3>1, Growth
        <3>3. d * a \in Nat
            BY <3>1, <3>2
        <3> QED BY <3>3 DEF a, d
    <2> QED BY <2>1
<1>5. PICK s \in [0..n -> Nat] : IsSum(s, ns, n) /\ Total(ns) = s[n]
    BY <1>4, SumTotal
<1> DEFINE T == {m \in Nat : m <= n => s[m] < 2^(w * m)}
<1>6. 0 \in T
    <2>1. w * 0 = 0 /\ s[0] = 0
        BY <1>5 DEF IsSum
    <2>2. 2^(w * 0) = 1
        BY <2>1, PowerZero
    <2>3. s[0] < 2^(w * 0)
        BY <2>1, <2>2
    <2> QED BY <2>3
<1>7. ASSUME NEW m \in Nat, m \in T PROVE m + 1 \in T
    <2> SUFFICES ASSUME m + 1 <= n PROVE s[m + 1] < 2^(w * (m + 1))
        OBVIOUS
    <2> DEFINE a == 2^(w * m)  d == ds[m + 1]
    <2>1. a \in Nat /\ a > 0 /\ d \in 0..b - 1
        BY <1>1, <1>2, PowerPositive
    <2>2. s[m] < a /\ s[m] \in Nat
        BY <1>7
    <2>3. m + 1 \in 1..n /\ (m + 1) - 1 = m
        OBVIOUS
    <2>4. s[m + 1] = s[m] + ns[m + 1] /\ ns[m + 1] = d * a
        BY <1>5, <2>3 DEF IsSum
    <2>5. 2^(w * (m + 1)) = a * b
        <3>1. w * (m + 1) = (w * m) + w /\ w * m \in Nat
            BY <1>2
        <3> QED BY <3>1, PowerSum
    <2> HIDE DEF a, d, b, ns
    <2>6. a * d <= a * (b - 1) /\ a * (b - 1) = (a * b) - a
        BY <1>1, <2>1, Growth
    <2>7. d * a = a * d
        BY <2>1
    <2>8. s[m] + (a * d) < a * b
        <3> DEFINE x == a * d  y == a * b  z == a * (b - 1)
        <3>1. x \in Nat /\ y \in Int /\ x <= z /\ z = y - a
            <4>1. a * 0 <= a * d
                BY <2>1, <1>1, Growth
            <4> QED BY <1>1, <2>1, <2>6, <4>1
        <3> HIDE DEF x, y, z
        <3>2. s[m] + x < y
            BY <2>1, <2>2, <3>1
        <3> QED BY <3>2 DEF x, y
    <2> QED BY <2>4, <2>5, <2>7, <2>8
<1> HIDE DEF T, ns
<1>8. n \in T
    BY <1>6, <1>7, Induction
<1>9. s[n] < 2^(w * n) /\ 2^(w * n) \in Nat /\ s[n] \in Nat
    BY <1>2, <1>8, PowerPositive DEF T
<1> QED BY <1>3, <1>5, <1>9

(* Whatever the bytes are: a read that succeeds.                           *)
Extends(longer, buf) ==
    /\ longer \in Seq(Byte) /\ Len(buf) <= Len(longer)
    /\ \A k \in 1..Len(buf) : longer[k] = buf[k]

LEMMA VarintAny ==
    ASSUME NEW buf \in Seq(Byte), NEW pos \in 0..Len(buf), DecodeVarint(buf, pos).ok
    PROVE  /\ \E to \in pos + 1..Len(buf), x \in 0..2^Bits64 - 1 :
                  DecodeVarint(buf, pos) = Read(x, to)
           /\ \A longer : Extends(longer, buf) =>
                  DecodeVarint(longer, pos) = DecodeVarint(buf, pos)
<1> DEFINE last(b) == {k \in 1..MaxVarintBytes : pos + k <= Len(b) /\ b[pos + k] < 2^Digit}
           digits(b) == [k \in 1..Min(last(b)) |-> b[pos + k] % 2^Digit]
<1>0. ~Fail.ok
    BY DEF Fail
<1>1. \A b : DecodeVarint(b, pos) =
          IF last(b) = {} THEN Fail
          ELSE Read(Value(Digit, digits(b)) % 2^Bits64, pos + Min(last(b)))
    BY DEF DecodeVarint
<1>2. last(buf) # {}
    BY <1>0, <1>1
<1>3. \A b : last(b) \subseteq 1..MaxVarintBytes
    OBVIOUS
<1>4. MaxVarintBytes \in Nat /\ pos \in Nat /\ Len(buf) \in Nat
    BY EnoughBytes
<1> DEFINE n == Min(last(buf))
<1>5. n \in last(buf) /\ \A k \in last(buf) : n <= k
    <2> HIDE DEF last
    <2>1. last(buf) \subseteq Nat
        BY <1>3, <1>4
    <2> QED BY <1>2, <2>1, MinIs
<1>6. n \in 1..MaxVarintBytes /\ pos + n <= Len(buf) /\ buf[pos + n] < 2^Digit
    BY <1>5
<1> DEFINE ds == digits(buf)  x == Value(Digit, ds) % 2^Bits64
<1>7. ds \in [1..n -> 0..2^Digit - 1]
    <2>1. ASSUME NEW k \in 1..n PROVE buf[pos + k] % 2^Digit \in 0..2^Digit - 1
        <3> DEFINE t == 2^Digit
        <3>1. t \in Nat /\ t > 0
            BY Widths, PowerPositive
        <3>2. pos + k \in 1..Len(buf)
            <4> HIDE DEF n
            <4> QED BY <1>4, <1>6
        <3>3. buf[pos + k] \in Nat
            <4>1. buf[pos + k] \in Byte
                BY <3>2
            <4> QED BY <4>1, Bytes0
        <3> HIDE DEF t
        <3>4. buf[pos + k] % t \in 0..t - 1
            BY <3>1, <3>3, Division
        <3> QED BY <3>4 DEF t
    <2> QED BY <2>1
<1> HIDE DEF n, ds
<1>8. x \in 0..2^Bits64 - 1
    <2> DEFINE t == 2^Bits64  v == Value(Digit, ds)
    <2>1. t \in Nat /\ t > 0
        BY Widths, PowerPositive
    <2>2. v \in 0..2^(Digit * n) - 1
        <3>1. n \in Nat /\ Digit \in Nat
            BY <1>4, <1>6, Widths
        <3> QED BY <1>7, <3>1, ValueRange
    <2>3. v \in Nat
        BY <2>2
    <2> HIDE DEF t, v
    <2>4. v % t \in 0..t - 1
        BY <2>1, <2>3, Division
    <2> QED BY <2>4 DEF t, v
<1>9. DecodeVarint(buf, pos) = Read(x, pos + n)
    BY <1>1, <1>2 DEF n, ds
<1>10. pos + n \in pos + 1..Len(buf)
    BY <1>4, <1>6
<1>11. ASSUME NEW longer, Extends(longer, buf)
       PROVE  DecodeVarint(longer, pos) = DecodeVarint(buf, pos)
    <2>1. longer \in Seq(Byte) /\ Len(buf) <= Len(longer) /\ Len(longer) \in Nat
          /\ \A k \in 1..Len(buf) : longer[k] = buf[k]
        BY <1>11 DEF Extends
    <2>2. \A k \in 1..n : longer[pos + k] = buf[pos + k]
        BY <1>4, <1>6, <2>1
    <2>3. n \in last(longer)
        BY <1>4, <1>6, <2>1, <2>2
    <2>4. ASSUME NEW k \in last(longer) PROVE n <= k
        <3>1. k \in 1..MaxVarintBytes /\ longer[pos + k] < 2^Digit
            OBVIOUS
        <3> SUFFICES ASSUME k < n PROVE FALSE
            BY <1>4, <1>6, <3>1
        <3>2. k \in 1..n /\ pos + k <= Len(buf)
            BY <1>4, <1>6, <3>1
        <3>3. k \in last(buf)
            BY <2>2, <3>1, <3>2
        <3>4. n <= k
            BY <1>5, <3>3 DEF n
        <3> QED BY <1>4, <1>6, <3>1, <3>4
    <2>5. Min(last(longer)) = n
        <3> DEFINE L == last(longer)
        <3>1. L \subseteq 1..MaxVarintBytes
            OBVIOUS
        <3>2. n \in L /\ \A k \in L : n <= k
            BY <2>3, <2>4
        <3> HIDE DEF L
        <3>3. L \subseteq Nat /\ L # {} /\ n \in Nat
            BY <1>4, <1>6, <3>1, <3>2
        <3>4. Min(L) \in L /\ \A k \in L : Min(L) <= k
            BY <3>3, MinIs
        <3>5. Min(L) \in Nat /\ Min(L) <= n /\ n <= Min(L)
            BY <3>2, <3>3, <3>4
        <3> DEFINE m == Min(L)
        <3> HIDE DEF m
        <3>6. m \in Nat /\ m <= n /\ n <= m
            BY <3>5 DEF m
        <3>7. m = n
            BY <3>3, <3>6
        <3> QED BY <3>7 DEF L, m
    <2>6. digits(longer) = ds
        <3>1. digits(longer) = [k \in 1..n |-> longer[pos + k] % 2^Digit]
            BY <2>5
        <3>2. ds = [k \in 1..n |-> buf[pos + k] % 2^Digit]
            BY DEF ds, n
        <3> QED BY <2>2, <3>1, <3>2
    <2>7. last(longer) # {}
        BY <2>3
    <2> HIDE DEF last, digits
    <2> QED BY <1>1, <1>9, <2>5, <2>6, <2>7
<1> QED BY <1>8, <1>9, <1>10, <1>11

LEMMA FixedAny ==
    ASSUME NEW bits \in {Bits32, Bits64}, NEW buf \in Seq(Byte), NEW pos \in 0..Len(buf),
           DecodeFixed(bits, buf, pos).ok
    PROVE  /\ \E to \in pos + 1..Len(buf), x \in 0..2^bits - 1 :
                  DecodeFixed(bits, buf, pos) = Read(x, to)
           /\ \A longer : Extends(longer, buf) =>
                  DecodeFixed(bits, longer, pos) = DecodeFixed(bits, buf, pos)
<1> DEFINE t == Digit + 1  n == bits \div t
           taken(b) == [k \in 1..n |-> b[pos + k]]
<1>0. ~Fail.ok
    BY DEF Fail
<1>1. t \in Nat /\ n \in Nat /\ t * n = bits /\ bits > 0
    BY Widths, Bytewise
<1>2. \A b : DecodeFixed(bits, b, pos) =
               IF pos + n > Len(b) THEN Fail ELSE Read(Value(t, taken(b)), pos + n)
    BY DEF DecodeFixed
<1>3. pos \in Nat /\ Len(buf) \in Nat
    OBVIOUS
<1> HIDE DEF n
<1>4. n > 0
    <2> SUFFICES ASSUME n = 0 PROVE FALSE
        BY <1>1
    <2> QED BY <1>1
<1>5. ~(pos + n > Len(buf))
    BY <1>0, <1>2
<1>6. pos + n \in pos + 1..Len(buf)
    BY <1>1, <1>3, <1>4, <1>5
<1>7. taken(buf) \in [1..n -> 0..2^t - 1]
    <2>1. ASSUME NEW k \in 1..n PROVE buf[pos + k] \in 0..2^t - 1
        <3>1. pos + k \in 1..Len(buf)
            BY <1>1, <1>3, <1>6
        <3>2. buf[pos + k] \in Byte
            BY <3>1
        <3> QED BY <3>2 DEF Byte
    <2> QED BY <2>1
<1> DEFINE v == Value(t, taken(buf))
<1>8. v \in 0..2^bits - 1
    <2> DEFINE ds == taken(buf)
    <2> HIDE DEF ds, t
    <2>1. Value(t, ds) \in 0..2^(t * n) - 1
        BY <1>1, <1>7, ValueRange DEF ds
    <2> QED BY <1>1, <2>1 DEF ds
<1>9. DecodeFixed(bits, buf, pos) = Read(v, pos + n)
    BY <1>2, <1>5
<1>10. ASSUME NEW longer, Extends(longer, buf)
       PROVE  DecodeFixed(bits, longer, pos) = DecodeFixed(bits, buf, pos)
    <2>1. longer \in Seq(Byte) /\ Len(buf) <= Len(longer) /\ Len(longer) \in Nat
          /\ \A k \in 1..Len(buf) : longer[k] = buf[k]
        BY <1>10 DEF Extends
    <2>2. \A k \in 1..n : longer[pos + k] = buf[pos + k]
        BY <1>1, <1>3, <1>6, <2>1
    <2>3. taken(longer) = taken(buf)
        BY <2>2
    <2>4. ~(pos + n > Len(longer))
        BY <1>1, <1>3, <1>6, <2>1
    <2> HIDE DEF taken
    <2> QED BY <1>2, <1>9, <2>3, <2>4
<1> QED BY <1>6, <1>8, <1>9, <1>10

(* A read of one kind or another that succeeded on buf.                    *)
Sound(r, pos, buf, S) == \E to \in pos + 1..Len(buf), v \in S : r = Read(v, to)

LEMMA ReadIs ==
    ASSUME NEW v, NEW to
    PROVE  Read(v, to).ok /\ Read(v, to).v = v /\ Read(v, to).at = to /\ ~Fail.ok
BY DEF Read, Fail

LEMMA RawAny ==
    ASSUME NEW buf \in Seq(Byte), NEW pos \in 0..Len(buf), DecodeRawBytes(buf, pos).ok
    PROVE  /\ Sound(DecodeRawBytes(buf, pos), pos, buf, ValuesOf("bytes"))
           /\ \A longer : Extends(longer, buf) =>
                  DecodeRawBytes(longer, pos) = DecodeRawBytes(buf, pos)
<1> DEFINE h == 2^(Bits64 - 1)
           raw(b, n) == IF ~n.ok THEN Fail
                        ELSE IF n.v >= h \/ n.at + n.v > Len(b) THEN Fail
                        ELSE Read(SubSeq(b, n.at + 1, n.at + n.v), n.at + n.v)
<1>1. \A b : DecodeRawBytes(b, pos) = raw(b, DecodeVarint(b, pos))
    BY DEF DecodeRawBytes
<1>2. DecodeVarint(buf, pos).ok
    BY <1>1, ReadIs
<1>3. PICK to \in pos + 1..Len(buf), x \in 0..2^Bits64 - 1 :
          DecodeVarint(buf, pos) = Read(x, to)
    BY <1>2, VarintAny
<1>4. pos \in Nat /\ Len(buf) \in Nat /\ to \in Nat /\ x \in Nat /\ pos < to /\ to <= Len(buf)
    OBVIOUS
<1>5. h \in Nat
    BY Widths, Half
<1> HIDE DEF h
<1>6. \A b : DecodeVarint(b, pos) = Read(x, to) =>
        DecodeRawBytes(b, pos) = IF x >= h \/ to + x > Len(b) THEN Fail
                               ELSE Read(SubSeq(b, to + 1, to + x), to + x)
    BY <1>1, ReadIs
<1>7. ~(x >= h \/ to + x > Len(buf))
    BY <1>3, <1>6, ReadIs DEF Fail
<1>8. DecodeRawBytes(buf, pos) = Read(SubSeq(buf, to + 1, to + x), to + x)
    BY <1>3, <1>6, <1>7
<1>9. to + x \in pos + 1..Len(buf) /\ x < h
    BY <1>4, <1>5, <1>7
<1> DEFINE s == SubSeq(buf, to + 1, to + x)
<1>10. s \in Seq(Byte) /\ Len(s) = x
    BY <1>4, <1>9
<1>11. s \in ValuesOf("bytes")
    <2> HIDE DEF s
    <2> QED BY <1>9, <1>10 DEF ValuesOf, h
<1>12. ASSUME NEW longer, Extends(longer, buf)
       PROVE  DecodeRawBytes(longer, pos) = DecodeRawBytes(buf, pos)
    <2>1. longer \in Seq(Byte) /\ Len(buf) <= Len(longer) /\ Len(longer) \in Nat
          /\ \A k \in 1..Len(buf) : longer[k] = buf[k]
        BY <1>12 DEF Extends
    <2>2. DecodeVarint(longer, pos) = Read(x, to)
        BY <1>2, <1>3, <1>12, VarintAny
    <2>3. ~(x >= h \/ to + x > Len(longer))
        BY <1>4, <1>7, <2>1
    <2>4. DecodeRawBytes(longer, pos) = Read(SubSeq(longer, to + 1, to + x), to + x)
        BY <1>6, <2>2, <2>3
    <2>5. SubSeq(longer, to + 1, to + x) = SubSeq(buf, to + 1, to + x)
        <3>1. SubSeq(longer, to + 1, to + x) = [k \in 1..x |-> longer[to + k]]
            BY <1>4, <1>9, <2>1
        <3>2. SubSeq(buf, to + 1, to + x) = [k \in 1..x |-> buf[to + k]]
            BY <1>4, <1>9
        <3>3. \A k \in 1..x : longer[to + k] = buf[to + k]
            BY <1>4, <1>9, <2>1
        <3> QED BY <3>1, <3>2, <3>3
    <2> QED BY <1>8, <2>4, <2>5
<1>13. Sound(DecodeRawBytes(buf, pos), pos, buf, ValuesOf("bytes"))
    <2> HIDE DEF s
    <2> QED BY <1>8, <1>9, <1>11 DEF Sound, s
<1> QED BY <1>12, <1>13

LEMMA NarrowType ==
    ASSUME NEW kind \in Numbers, NEW u \in 0..2^Bits64 - 1
    PROVE  Narrow(kind, u) \in ValuesOf(kind)
<1> DEFINE p == 2^Bits32
<1>1. p \in Nat /\ p > 0
    BY Widths, PowerPositive
<1>2. u \in Nat
    BY Widths, PowerPositive
<1> HIDE DEF p
<1>3. u % p \in 0..p - 1
    BY <1>1, <1>2, Division
<1>4. CASE kind \in Number32
    BY <1>3, <1>4 DEF Number32, Narrow, ValuesOf, p
<1>5. CASE kind = "bool"
    BY <1>5 DEF Narrow, ValuesOf
<1>6. CASE kind = "int64"
    BY <1>6 DEF Narrow, ValuesOf
<1> QED BY <1>4, <1>5, <1>6 DEF Numbers, Number32

LEMMA ValAny ==
    ASSUME NEW w, NEW buf \in Seq(Byte), NEW pos \in 0..Len(buf), ValDec(w, buf, pos).ok
    PROVE  /\ Sound(ValDec(w, buf, pos), pos, buf, 0..2^Bits64 - 1)
           /\ \A longer : Extends(longer, buf) => ValDec(w, longer, pos) = ValDec(w, buf, pos)
<1> DEFINE q == 0..2^Bits64 - 1
<1>1. ASSUME NEW bits \in {Bits32, Bits64} PROVE 0..2^bits - 1 \subseteq q
    <2>1. 2^bits <= 2^Bits64 /\ 2^bits \in Nat /\ 2^Bits64 \in Nat
        BY Widths, PowerMonotonic, PowerPositive
    <2> QED BY <2>1
<1> HIDE DEF q
<1>2. ASSUME NEW bits \in {Bits32, Bits64}, w = (IF bits = Bits32 THEN "fixed32" ELSE "fixed64")
      PROVE  /\ Sound(ValDec(w, buf, pos), pos, buf, q)
             /\ \A longer : Extends(longer, buf) => ValDec(w, longer, pos) = ValDec(w, buf, pos)
    <2>1. Bits32 # Bits64
        BY Widths
    <2>2. \A b : ValDec(w, b, pos) = DecodeFixed(bits, b, pos)
        BY <1>2, <2>1 DEF ValDec
    <2>3. DecodeFixed(bits, buf, pos).ok
        BY <2>2
    <2>4. /\ \E to \in pos + 1..Len(buf), x \in 0..2^bits - 1 :
                 DecodeFixed(bits, buf, pos) = Read(x, to)
          /\ \A longer : Extends(longer, buf) =>
                 DecodeFixed(bits, longer, pos) = DecodeFixed(bits, buf, pos)
        BY <2>3, FixedAny
    <2> QED BY <1>1, <2>2, <2>4 DEF Sound
<1>3. ASSUME w \notin {"fixed32", "fixed64"}
      PROVE  /\ Sound(ValDec(w, buf, pos), pos, buf, q)
             /\ \A longer : Extends(longer, buf) => ValDec(w, longer, pos) = ValDec(w, buf, pos)
    <2> DEFINE bits == IF w = "zigzag32" THEN Bits32 ELSE Bits64
               val(x) == IF x.ok /\ w \in {"zigzag32", "zigzag64"}
                           THEN Read(UnZigZag(bits, x.v), x.at) ELSE x
    <2>1. \A b : ValDec(w, b, pos) = val(DecodeVarint(b, pos))
        BY <1>3 DEF ValDec
    <2>2. DecodeVarint(buf, pos).ok
        <3>1. \A x : val(x).ok => x.ok
            OBVIOUS
        <3> HIDE DEF val
        <3> QED BY <2>1, <3>1
    <2>3. PICK to \in pos + 1..Len(buf), x \in 0..2^Bits64 - 1 :
              DecodeVarint(buf, pos) = Read(x, to)
        BY <2>2, VarintAny
    <2>4. \A longer : Extends(longer, buf) => DecodeVarint(longer, pos) = DecodeVarint(buf, pos)
        BY <2>2, VarintAny
    <2>5. \E y \in q : val(Read(x, to)) = Read(y, to)
        <3>1. x \in Nat /\ bits \in {Bits32, Bits64} /\ bits \in Nat /\ bits > 0
            BY Widths, PowerPositive
        <3> HIDE DEF bits
        <3>2. UnZigZag(bits, x) \in 0..2^bits - 1
            BY <3>1, ZigZagRound
        <3>3. UnZigZag(bits, x) \in q /\ x \in q
            BY <1>1, <3>1, <3>2 DEF q
        <3>4. val(Read(x, to)) = IF w \in {"zigzag32", "zigzag64"}
                                   THEN Read(UnZigZag(bits, x), to) ELSE Read(x, to)
            BY ReadIs
        <3> HIDE DEF val
        <3> QED BY <3>3, <3>4
    <2> HIDE DEF val
    <2>6. Sound(ValDec(w, buf, pos), pos, buf, q)
        BY <2>1, <2>3, <2>5 DEF Sound
    <2> QED BY <2>1, <2>4, <2>6
<1>4. CASE w = "fixed32"
    BY <1>2, <1>4 DEF q
<1>5. CASE w = "fixed64"
    BY <1>2, <1>5, Widths DEF q
<1> QED BY <1>3, <1>4, <1>5 DEF q

(* Whatever the bytes are, a scalar that is read ends inside them, is a    *)
(* value of its Go type and was decided by the bytes it consumed: no value *)
(* is made up from half of one, cut as the bytes may be.                   *)
THEOREM ScalarHonest ==
    ASSUME NEW f, f.kind \in Numbers \cup {"bytes"},
           NEW buf \in Seq(Byte), NEW pos \in 0..Len(buf), DecScalar(f, buf, pos).ok
    PROVE  /\ Sound(DecScalar(f, buf, pos), pos, buf, ValuesOf(f.kind))
           /\ \A longer : Extends(longer, buf) =>
                  DecScalar(f, longer, pos) = DecScalar(f, buf, pos)
<1>1. CASE f.kind = "bytes"
    <2>1. \A b : DecScalar(f, b, pos) = DecodeRawBytes(b, pos)
        BY <1>1 DEF DecScalar
    <2>2. DecodeRawBytes(buf, pos).ok
        BY <2>1
    <2>3. /\ Sound(DecodeRawBytes(buf, pos), pos, buf, ValuesOf("bytes"))
          /\ \A longer : Extends(longer, buf) =>
                 DecodeRawBytes(longer, pos) = DecodeRawBytes(buf, pos)
        BY <2>2, RawAny
    <2> QED BY <1>1, <2>1, <2>3
<1>2. CASE f.kind \in Numbers
    <2>1. \A b : DecScalar(f, b, pos) = DecNumber(f, ValDec(f.wire, b, pos))
        BY <1>2 DEF DecScalar, Numbers
    <2>2. ValDec(f.wire, buf, pos).ok
        <3>1. \A x : DecNumber(f, x).ok => x.ok
            BY ReadIs DEF DecNumber
        <3> QED BY <2>1, <3>1
    <2>3. /\ Sound(ValDec(f.wire, buf, pos), pos, buf, 0..2^Bits64 - 1)
          /\ \A longer : Extends(longer, buf) =>
                 ValDec(f.wire, longer, pos) = ValDec(f.wire, buf, pos)
        BY <2>2, ValAny
    <2>4. PICK to \in pos + 1..Len(buf), x \in 0..2^Bits64 - 1 :
              ValDec(f.wire, buf, pos) = Read(x, to)
        BY <2>3 DEF Sound
    <2>5. DecScalar(f, buf, pos) = Read(Narrow(f.kind, x), to)
        BY <2>1, <2>4, DecNumberRead
    <2>6. Narrow(f.kind, x) \in ValuesOf(f.kind)
        BY <1>2, NarrowType
    <2>7. Sound(DecScalar(f, buf, pos), pos, buf, ValuesOf(f.kind))
        BY <2>5, <2>6 DEF Sound
    <2> QED BY <2>1, <2>3, <2>7
<1> QED BY <1>1, <1>2

-----------------------------------------------------------------------------
(* Fields and messages, read as they were written.                         *)

LEMMA SumRises ==
    ASSUME NEW n \in Nat, NEW ns \in [1..n -> Nat], NEW s \in [0..n -> Nat], IsSum(s, ns, n),
           NEW k \in 0..n
    PROVE  s[k] <= s[n]
<1> DEFINE T == {m \in Nat : m <= n => s[n - m] <= s[n]}
<1>1. 0 \in T
    <2>1. n - 0 = n /\ s[n] \in Nat
        OBVIOUS
    <2> QED BY <2>1
<1>2. ASSUME NEW m \in Nat, m \in T PROVE m + 1 \in T
    <2> SUFFICES ASSUME m + 1 <= n PROVE s[n - (m + 1)] <= s[n]
        OBVIOUS
    <2> DEFINE j == n - m
    <2>1. j \in 1..n /\ n - (m + 1) = j - 1 /\ s[j] <= s[n]
        BY <1>2
    <2> HIDE DEF j
    <2>2. s[j] = s[j - 1] + ns[j] /\ ns[j] \in Nat /\ s[j - 1] \in Nat /\ s[n] \in Nat
        BY <2>1 DEF IsSum
    <2>3. s[j - 1] <= s[n]
        BY <2>1, <2>2
    <2> QED BY <2>1, <2>3
<1> HIDE DEF T
<1>3. Nat \subseteq T
    BY <1>1, <1>2, Induction
<1>4. n - k \in T /\ n - k <= n /\ n - (n - k) = k
    BY <1>3
<1> QED BY <1>4 DEF T

(* The wire type in a field's code.                                        *)
CodeWire(f) == IF f.label = "packed" THEN Bytes ELSE WireType(f)

(* The code of a field that is no group is its tag and a wire type.        *)
LEMMA TagCodeRead ==
    ASSUME NEW f, NEW tag, TagOK(tag), NEW rest \in Seq(Byte), NEW buf \in Seq(Byte),
           NEW pos \in 0..Len(buf), Holds(buf, pos, TagCode(f, tag) \o rest),
           pos + Len(TagCode(f, tag) \o rest) <= Len(buf)
    PROVE  \E to \in 0..Len(buf) :
             /\ DecodeVarint(buf, pos) =
                  Read(8 * tag + CodeWire(f), to)
             /\ Holds(buf, to, rest) /\ to + Len(rest) <= Len(buf)
             /\ to + Len(rest) = pos + Len(TagCode(f, tag) \o rest)
<1> DEFINE w == CodeWire(f)  code == TagCode(f, tag)
<1>1. w \in 0..7
    BY DEF CodeWire, WireType, Bytes, Fixed64, Fixed32, Varint
<1>2. code = Key(tag, w)
    BY DEF TagCode, CodeWire
<1>3. tag \in Nat /\ 8 * tag + w < 2^Bits64
    BY <1>1, Widths, PowerPositive DEF TagOK
<1>4. code \in Seq(Byte)
    BY TagCodeLen
<1> HIDE DEF w, code
<1>5. /\ Holds(buf, pos, code \o rest) /\ pos + Len(code \o rest) <= Len(buf)
      /\ pos \in Nat /\ Len(buf) \in Nat
    BY DEF code
<1>6. /\ Len(code \o rest) = Len(code) + Len(rest)
      /\ Holds(buf, pos, code) /\ Holds(buf, pos + Len(code), rest)
    BY <1>4, <1>5, HoldsBoth
<1>7. Len(code) \in Nat /\ Len(rest) \in Nat
    BY <1>4
<1>8. pos + Len(code) \in 0..Len(buf) /\ (pos + Len(code)) + Len(rest) = pos + Len(code \o rest)
    BY <1>5, <1>6, <1>7
<1>9. pos + Len(Key(tag, w)) <= Len(buf)
    BY <1>2, <1>8
<1>10. DecodeVarint(buf, pos) = Read(8 * tag + w, pos + Len(code))
    BY <1>1, <1>2, <1>3, <1>6, <1>9, KeyRead
<1> QED BY <1>5, <1>6, <1>8, <1>10 DEF w, code

(* A turn of the decoder's loop that reads v for the field of this tag,    *)
(* from pos to j.  A message is read as its bytes, which a group's         *)
(* keys enclose.                                                           *)
ValueTurn(buf, pos, f, tag, v, j) == \E to \in 0..Len(buf) :
    IF f.wire = "group"
      THEN /\ DecodeVarint(buf, pos) = Read(8 * tag + StartGroup, to)
           /\ \A k \in 1..Len(v) : buf[to + k] = v[k]
           /\ DecodeVarint(buf, to + Len(v)) = Read(8 * tag + EndGroup, j)
      ELSE /\ DecodeVarint(buf, pos) = Read(8 * tag + WireType(f), to)
           /\ (IF f.kind = "message" THEN DecodeRawBytes(buf, to) ELSE DecScalar(f, buf, to)) =
                Read(v, j)

(* What may be set in a field, a message as its bytes.                     *)
ValueOK(f, v) == v \in ValuesOf(IF f.kind = "message" THEN "bytes" ELSE f.kind)
Written(f, v) == IF f.kind = "message" THEN v ELSE Scalar(f, v)

LEMMA PlainRead ==
    ASSUME NEW f, NEW tag, FieldOK(f), TagOK(tag), f.label # "packed", f.wire # "group",
           NEW v, ValueOK(f, v), NEW body, body = Written(f, v),
           NEW buf \in Seq(Byte), NEW pos \in 0..Len(buf),
           Holds(buf, pos, EncValue(f, tag, body)),
           pos + Len(EncValue(f, tag, body)) <= Len(buf)
    PROVE  ValueTurn(buf, pos, f, tag, v, pos + Len(EncValue(f, tag, body)))
<1> SUFFICES \E to \in 0..Len(buf) :
             /\ DecodeVarint(buf, pos) = Read(8 * tag + WireType(f), to)
             /\ (IF f.kind = "message"
                   THEN DecodeRawBytes(buf, to) ELSE DecScalar(f, buf, to)) =
                  Read(v, pos + Len(EncValue(f, tag, body)))
    BY DEF ValueTurn
<1>0. \/ /\ f.kind \in Numbers \cup {"bytes"} /\ f.wire \in WiresOf(f.kind)
         /\ v \in ValuesOf(f.kind)
      \/ f.kind = "message" /\ f.wire = "bytes" /\ v \in ValuesOf("bytes")
    BY DEF FieldOK, ValueOK, Numbers
<1>b. body = (IF f.kind = "message" THEN v ELSE Scalar(f, v))
    BY DEF Written
<1>1. CASE f.kind # "message"
    <2>1. f.kind \in Numbers \cup {"bytes"} /\ f.wire \in WiresOf(f.kind)
          /\ v \in ValuesOf(f.kind)
        BY <1>0, <1>1
    <2>2. EncValue(f, tag, body) = TagCode(f, tag) \o Scalar(f, v)
        BY <1>b, <1>1 DEF EncValue
    <2>3. Scalar(f, v) \in Seq(Byte)
        BY <2>1, ScalarSize
    <2> DEFINE s == Scalar(f, v)
    <2> HIDE DEF s
    <2>4. PICK to \in 0..Len(buf) :
             /\ DecodeVarint(buf, pos) =
                  Read(8 * tag + CodeWire(f), to)
             /\ Holds(buf, to, s) /\ to + Len(s) <= Len(buf)
             /\ to + Len(s) = pos + Len(TagCode(f, tag) \o s)
        <3>1. /\ s \in Seq(Byte) /\ Holds(buf, pos, TagCode(f, tag) \o s)
              /\ pos + Len(TagCode(f, tag) \o s) <= Len(buf)
            BY <2>2, <2>3 DEF s
        <3> QED BY <3>1, TagCodeRead
    <2>5. Holds(buf, to, Scalar(f, v)) /\ to + Len(Scalar(f, v)) <= Len(buf)
        BY <2>4 DEF s
    <2>6. /\ Len(Scalar(f, v)) = SizeScalar(f, v)
          /\ DecScalar(f, buf, to) =
               IF to + SizeScalar(f, v) <= Len(buf)
                 THEN Read(v, to + SizeScalar(f, v)) ELSE Fail
        BY <2>1, <2>5, ScalarRead
    <2>7. DecScalar(f, buf, to) = Read(v, to + Len(s))
        BY <2>5, <2>6 DEF s
    <2>8. CodeWire(f) = WireType(f)
        BY DEF CodeWire
    <2> QED BY <1>1, <2>2, <2>4, <2>7, <2>8 DEF s
<1>2. CASE f.kind = "message"
    <2>1. f.wire = "bytes" /\ v \in Seq(Byte) /\ Len(v) < 2^(Bits64 - 1) /\ body = v
        <3>1. "message" \notin Numbers \cup {"bytes"}
            BY DEF Numbers
        <3>2. f.wire = "bytes" /\ v \in ValuesOf("bytes")
            BY <1>0, <1>2, <3>1
        <3> QED BY <1>b, <1>2, <3>2 DEF ValuesOf
    <2> DEFINE s == RawBytes(v)
    <2>2. EncValue(f, tag, body) = TagCode(f, tag) \o s
        BY <1>2, <2>1 DEF EncValue
    <2>3. s \in Seq(Byte)
        <3>1. 2^(Bits64 - 1) <= 2^Bits64 /\ 2^(Bits64 - 1) \in Nat /\ 2^Bits64 \in Nat
            BY Widths, Half
        <3>2. Len(v) < 2^Bits64
            BY <2>1, <3>1
        <3> QED BY <2>1, <3>2, RawLen
    <2> HIDE DEF s
    <2>4. PICK to \in 0..Len(buf) :
             /\ DecodeVarint(buf, pos) =
                  Read(8 * tag + CodeWire(f), to)
             /\ Holds(buf, to, s) /\ to + Len(s) <= Len(buf)
             /\ to + Len(s) = pos + Len(TagCode(f, tag) \o s)
        <3>1. /\ s \in Seq(Byte) /\ Holds(buf, pos, TagCode(f, tag) \o s)
              /\ pos + Len(TagCode(f, tag) \o s) <= Len(buf)
            BY <2>2, <2>3
        <3> QED BY <3>1, TagCodeRead
    <2>5. Holds(buf, to, RawBytes(v)) /\ to + Len(RawBytes(v)) <= Len(buf)
        BY <2>4 DEF s
    <2>6. DecodeRawBytes(buf, to) =
            IF to + Len(RawBytes(v)) <= Len(buf) THEN Read(v, to + Len(RawBytes(v))) ELSE Fail
        BY <2>1, <2>5, RawRead
    <2>7. DecodeRawBytes(buf, to) = Read(v, to + Len(s))
        BY <2>5, <2>6 DEF s
    <2>8. CodeWire(f) = WireType(f)
        BY DEF CodeWire
    <2> QED BY <1>2, <2>2, <2>4, <2>7, <2>8
<1> QED BY <1>1, <1>2

LEMMA GroupRead ==
    ASSUME NEW f, NEW tag, TagOK(tag), f.kind = "message", f.wire = "group",
           NEW v \in Seq(Byte), NEW buf \in Seq(Byte), NEW pos \in 0..Len(buf),
           Holds(buf, pos, EncValue(f, tag, v)),
           pos + Len(EncValue(f, tag, v)) <= Len(buf)
    PROVE  ValueTurn(buf, pos, f, tag, v, pos + Len(EncValue(f, tag, v)))
<1> DEFINE start == Key(tag, StartGroup)  end == Key(tag, EndGroup)  e == EncValue(f, tag, v)
<1>1. e = (start \o v) \o end
    BY DEF EncValue
<1>2. start \in Seq(Byte) /\ end \in Seq(Byte)
    BY KeyLen DEF StartGroup, EndGroup
<1>3. pos \in Nat /\ Len(buf) \in Nat /\ Len(v) \in Nat /\ Len(start) \in Nat
      /\ Len(end) \in Nat
    BY <1>2
<1>4. Holds(buf, pos, e) /\ pos + Len(e) <= Len(buf)
    OBVIOUS
<1>5. /\ tag \in Nat /\ 8 * tag + StartGroup < 2^Bits64 /\ 8 * tag + EndGroup < 2^Bits64
      /\ StartGroup \in 0..7 /\ EndGroup \in 0..7
    BY Widths, PowerPositive DEF TagOK, StartGroup, EndGroup
<1> HIDE DEF start, end, e
<1> DEFINE sv == start \o v
<1>6. sv \in Seq(Byte) /\ Len(sv) = Len(start) + Len(v)
    BY <1>2, Appended
<1>7. Len(e) = Len(sv) + Len(end) /\ Holds(buf, pos, sv) /\ Holds(buf, pos + Len(sv), end)
    <2> HIDE DEF sv
    <2>1. Holds(buf, pos, sv \o end)
        BY <1>1, <1>4 DEF sv
    <2>2. /\ Len(sv \o end) = Len(sv) + Len(end) /\ Holds(buf, pos, sv)
          /\ Holds(buf, pos + Len(sv), end)
        <3>1. sv \in Seq(Byte) /\ end \in Seq(Byte) /\ pos \in Nat /\ buf \in Seq(Byte)
            BY <1>2, <1>3, <1>6
        <3>2. pos + Len(sv \o end) <= Len(buf)
            BY <1>1, <1>4 DEF sv
        <3> QED BY <3>1, <3>2, <2>1, HoldsBoth
    <2> QED BY <1>1, <2>2 DEF sv
<1>8. Holds(buf, pos, start) /\ Holds(buf, pos + Len(start), v)
    BY <1>2, <1>3, <1>7, HoldsBoth
<1> DEFINE to == pos + Len(start)
<1>9. /\ to \in 0..Len(buf) /\ to + Len(v) \in 0..Len(buf) /\ to + Len(v) = pos + Len(sv)
      /\ to + Len(v) <= Len(buf) /\ (to + Len(v)) + Len(end) = pos + Len(e)
      /\ (to + Len(v)) + Len(end) <= Len(buf)
    <2> HIDE DEF sv
    <2> QED BY <1>3, <1>4, <1>6, <1>7
<1> HIDE DEF sv
<1>10. DecodeVarint(buf, pos) = Read(8 * tag + StartGroup, to)
    <2>1. pos + Len(Key(tag, StartGroup)) <= Len(buf) /\ Holds(buf, pos, Key(tag, StartGroup))
        BY <1>8, <1>9 DEF start
    <2> QED BY <1>5, <2>1, KeyRead DEF start
<1>11. \A k \in 1..Len(v) : buf[to + k] = v[k]
    <2>1. ASSUME NEW k \in 1..Len(v) PROVE buf[to + k] = v[k]
        <3>1. to + k <= Len(buf)
            BY <1>3, <1>9
        <3> QED BY <1>8, <3>1 DEF Holds
    <2> QED BY <2>1
<1> HIDE DEF to
<1>12. DecodeVarint(buf, to + Len(v)) = Read(8 * tag + EndGroup, pos + Len(e))
    <2> DEFINE j == to + Len(v)
    <2>1. /\ j \in 0..Len(buf) /\ j + Len(Key(tag, EndGroup)) <= Len(buf)
          /\ Holds(buf, j, Key(tag, EndGroup)) /\ j + Len(Key(tag, EndGroup)) = pos + Len(e)
        BY <1>7, <1>9 DEF end
    <2> HIDE DEF j
    <2>2. DecodeVarint(buf, j) = Read(8 * tag + EndGroup, j + Len(Key(tag, EndGroup)))
        BY <1>5, <2>1, KeyRead
    <2> QED BY <2>1, <2>2 DEF j
<1> QED BY <1>9, <1>10, <1>11, <1>12 DEF ValueTurn, e

(* One turn of the decoder's loop reads what the encoder wrote for one     *)
(* value: its tag and wire type, then the value, up to what follows it.    *)
THEOREM ValueRead ==
    ASSUME NEW f, NEW tag, FieldOK(f), TagOK(tag), f.label # "packed", NEW v, ValueOK(f, v),
           NEW buf \in Seq(Byte), NEW pos \in 0..Len(buf),
           Holds(buf, pos, EncValue(f, tag, Written(f, v))),
           pos + Len(EncValue(f, tag, Written(f, v))) <= Len(buf)
    PROVE  ValueTurn(buf, pos, f, tag, v, pos + Len(EncValue(f, tag, Written(f, v))))
<1> DEFINE body == Written(f, v)
<1>1. body = (IF f.kind = "message" THEN v ELSE Scalar(f, v))
    BY DEF Written
<1>2. /\ Holds(buf, pos, EncValue(f, tag, body))
      /\ pos + Len(EncValue(f, tag, body)) <= Len(buf)
    OBVIOUS
<1> HIDE DEF body
<1>3. CASE f.wire = "group"
    <2>1. f.kind = "message"
        BY <1>3 DEF FieldOK, WiresOf, Numbers
    <2>2. v \in Seq(Byte) /\ body = v
        BY <1>1, <2>1 DEF ValueOK, ValuesOf
    <2> QED BY <1>2, <1>3, <2>1, <2>2, GroupRead DEF body
<1>4. CASE f.wire # "group"
    <2>1. body = Written(f, v)
        BY DEF body
    <2>2. ValueTurn(buf, pos, f, tag, v, pos + Len(EncValue(f, tag, body)))
        BY <1>2, <1>4, <2>1, PlainRead
    <2> QED BY <2>2 DEF body
<1> QED BY <1>3, <1>4

(* A packed field is read element by element, each where the one before it *)
(* ended, until the length in front of them is used up to the byte.        *)
PackedTurn(buf, pos, f, tag, vs, n, j) ==
    \E key \in 0..Len(buf), to \in 0..Len(buf), s \in [0..n -> Nat] :
        /\ DecodeVarint(buf, pos) = Read(8 * tag + Bytes, key)
        /\ DecodeVarint(buf, key) = Read(s[n], to)
        /\ s[0] = 0 /\ to + s[n] = j
        /\ \A k \in 1..n : /\ DecScalar(f, buf, to + s[k - 1]) = Read(vs[k], to + s[k])
                           /\ f.kind = "bool" => s[k] = s[k - 1] + 1

THEOREM PackedRead ==
    ASSUME NEW f, NEW tag, TagOK(tag), f.label = "packed",
           f.kind \in Numbers, f.wire \in WiresOf(f.kind),
           NEW n \in Nat, NEW vs \in [1..n -> ValuesOf(f.kind)],
           NEW bodies, bodies = [k \in 1..n |-> Scalar(f, vs[k])],
           Len(FlattenSeq(bodies)) < 2^(Bits64 - 1), NEW buf \in Seq(Byte),
           NEW pos \in 0..Len(buf),
           Holds(buf, pos, Packed(f, tag, bodies)),
           pos + Len(Packed(f, tag, bodies)) <= Len(buf)
    PROVE  PackedTurn(buf, pos, f, tag, vs, n, pos + Len(Packed(f, tag, bodies)))
<1> DEFINE b == FlattenSeq(bodies)  raw == RawBytes(b)  ns == [k \in 1..n |-> Len(bodies[k])]
<1>1. ASSUME NEW k \in 1..n
      PROVE  bodies[k] \in Seq(Byte) /\ Len(bodies[k]) = SizeScalar(f, vs[k])
    <2>1. vs[k] \in ValuesOf(f.kind) /\ bodies[k] = Scalar(f, vs[k])
        OBVIOUS
    <2> QED BY <2>1, ScalarSize
<1>2. bodies \in [1..n -> Seq(Byte)]
    BY <1>1
<1>3. b \in Seq(Byte) /\ Len(b) = Total(ns) /\ Len(b) < 2^(Bits64 - 1)
    BY <1>2, FlattenLen
<1>4. ns \in [1..n -> Nat]
    BY <1>2
<1>5. PICK s \in [0..n -> Nat] : IsSum(s, ns, n) /\ Total(ns) = s[n]
    BY <1>4, SumTotal
<1> HIDE DEF b, raw
<1>6. Packed(f, tag, bodies) = TagCode(f, tag) \o raw
    BY DEF Packed, raw, b
<1>7. Len(b) \in 0..2^Bits64 - 1 /\ Len(b) < 2^Bits64
    BY <1>3, Widths, Half
<1>8. raw \in Seq(Byte) /\ Len(raw) = SizeVarint(Len(b)) + Len(b)
    BY <1>3, <1>7, RawLen DEF raw
<1>9. PICK key \in 0..Len(buf) :
        /\ DecodeVarint(buf, pos) =
             Read(8 * tag + CodeWire(f), key)
        /\ Holds(buf, key, raw) /\ key + Len(raw) <= Len(buf)
        /\ key + Len(raw) = pos + Len(TagCode(f, tag) \o raw)
    <2>1. Holds(buf, pos, TagCode(f, tag) \o raw)
          /\ pos + Len(TagCode(f, tag) \o raw) <= Len(buf)
        BY <1>6
    <2>2. raw \in Seq(Byte)
        BY <1>8
    <2> HIDE DEF ns
    <2> QED BY <2>1, <2>2, TagCodeRead
<1> DEFINE e == EncodeVarint(Len(b))  to == key + SizeVarint(Len(b))
<1>10. e \in Seq(Byte) /\ Len(e) = SizeVarint(Len(b)) /\ raw = e \o b
    BY <1>7, EncodeVarintIs DEF raw, RawBytes
<1>11. SizeVarint(Len(b)) \in Nat /\ Len(b) \in Nat /\ key \in Nat /\ Len(buf) \in Nat
    <2>1. Len(b) \in Nat
        BY <1>3
    <2>2. SizeVarint(Len(b)) \in Nat
        BY <1>7, <2>1, SizeVarintType
    <2> QED BY <2>1, <2>2
<1> HIDE DEF e
<1>12. Holds(buf, key, e) /\ Holds(buf, to, b)
    BY <1>3, <1>9, <1>10, <1>11, HoldsBoth
<1>13. to \in 0..Len(buf) /\ to + Len(b) = key + Len(raw) /\ to + Len(b) <= Len(buf)
    <2> DEFINE x == SizeVarint(Len(b))  y == Len(b)  z == Len(raw)  l == Len(buf)
    <2>1. x \in Nat /\ y \in Nat /\ key \in Nat /\ l \in Nat /\ z = x + y /\ key + z <= l
        BY <1>8, <1>9, <1>11
    <2> HIDE DEF x, y, z, l, raw, b, ns
    <2>2. key + x \in 0..l /\ (key + x) + y = key + z /\ (key + x) + y <= l
        BY <2>1
    <2> QED BY <2>2 DEF x, y, z, l
<1>14. DecodeVarint(buf, key) = Read(s[n], to)
    <2>1. DecodeVarint(buf, key) =
            IF key + SizeVarint(Len(b)) <= Len(buf)
              THEN Read(Len(b), key + SizeVarint(Len(b))) ELSE Fail
        BY <1>7, <1>12, VarintRead DEF e
    <2> QED BY <1>3, <1>5, <1>13, <2>1
<1> HIDE DEF to
<1>15. \A k \in 1..n : Holds(buf, to + s[k - 1], bodies[k])
    <2>1. Holds(buf, to, FlattenSeq(bodies)) /\ to \in Nat
        BY <1>11, <1>12, <1>13 DEF b
    <2>2. IsSum(s, [k \in 1..n |-> Len(bodies[k])], n)
        BY <1>5
    <2> QED BY <1>2, <2>1, <2>2, HoldsEach
<1>16. ASSUME NEW k \in 1..n
       PROVE  /\ DecScalar(f, buf, to + s[k - 1]) = Read(vs[k], to + s[k])
              /\ f.kind = "bool" => s[k] = s[k - 1] + 1
    <2> DEFINE j == to + s[k - 1]  v == vs[k]
    <2>1. s[k] = s[k - 1] + SizeScalar(f, v) /\ s[k - 1] \in Nat /\ s[k] \in Nat
          /\ SizeScalar(f, v) \in Nat
        <3>1. s[k] = s[k - 1] + ns[k] /\ ns[k] = SizeScalar(f, v) /\ ns[k] \in Nat
            BY <1>1, <1>4, <1>5 DEF IsSum
        <3> QED BY <3>1
    <2>2. s[k] <= s[n]
        <3>1. k \in 0..n
            OBVIOUS
        <3> HIDE DEF ns, j, v
        <3> QED BY <1>4, <1>5, <3>1, SumRises
    <2>3. j \in 0..Len(buf) /\ j + SizeScalar(f, v) = to + s[k] /\ to + s[k] <= Len(buf)
        <3> DEFINE x == s[k - 1]  y == s[k]  z == SizeScalar(f, v)
        <3>1. s[n] = Len(b) /\ to \in Nat /\ s[n] \in Nat
            BY <1>3, <1>5, <1>13
        <3>2. to + s[n] <= Len(buf) /\ Len(buf) \in Nat
            BY <1>11, <1>13, <3>1
        <3>3. y = x + z /\ x \in Nat /\ y \in Nat /\ z \in Nat /\ y <= s[n] /\ j = to + x
            BY <2>1, <2>2
        <3> HIDE DEF x, y, z, j
        <3>4. j \in 0..Len(buf) /\ j + z = to + y /\ to + y <= Len(buf)
            BY <3>1, <3>2, <3>3
        <3> QED BY <3>4 DEF y, z
    <2>4. Holds(buf, j, Scalar(f, v)) /\ v \in ValuesOf(f.kind)
        BY <1>15
    <2> HIDE DEF j, v
    <2>5. DecScalar(f, buf, j) =
            IF j + SizeScalar(f, v) <= Len(buf) THEN Read(v, j + SizeScalar(f, v)) ELSE Fail
        BY <2>3, <2>4, ScalarRead
    <2>6. DecScalar(f, buf, j) = Read(v, to + s[k])
        BY <2>3, <2>5
    <2>7. f.kind = "bool" => SizeScalar(f, v) = 1
        BY DEF SizeScalar
    <2> QED BY <2>1, <2>6, <2>7 DEF j, v
<1>17. s[0] = 0
    BY <1>5 DEF IsSum
<1>18. to + s[n] = pos + Len(Packed(f, tag, bodies))
    BY <1>3, <1>5, <1>6, <1>9, <1>13
<1>19. CodeWire(f) = Bytes
    BY DEF CodeWire
<1> QED BY <1>9, <1>13, <1>14, <1>16, <1>17, <1>18, <1>19 DEF PackedTurn

(* Where the parts of a sequence lie that a buffer holds: end to end.      *)
Laid(buf, pos, ss, n, s) ==
    /\ s[0] = 0 /\ s[n] = Len(FlattenSeq(ss))
    /\ \A k \in 1..n :
        /\ pos + s[k - 1] \in 0..Len(buf) /\ Holds(buf, pos + s[k - 1], ss[k])
        /\ (pos + s[k - 1]) + Len(ss[k]) = pos + s[k] /\ pos + s[k] <= Len(buf)

LEMMA Parts ==
    ASSUME NEW n \in Nat, NEW ss \in [1..n -> Seq(Byte)], NEW buf \in Seq(Byte),
           NEW pos \in 0..Len(buf), Holds(buf, pos, FlattenSeq(ss)),
           pos + Len(FlattenSeq(ss)) <= Len(buf)
    PROVE  /\ FlattenSeq(ss) \in Seq(Byte)
           /\ \E s \in [0..n -> Nat] : Laid(buf, pos, ss, n, s)
<1> DEFINE ns == [k \in 1..n |-> Len(ss[k])]  e == FlattenSeq(ss)
<1>1. e \in Seq(Byte) /\ Len(e) = Total(ns)
    BY FlattenLen
<1>2. ns \in [1..n -> Nat]
    OBVIOUS
<1>3. PICK s \in [0..n -> Nat] : IsSum(s, ns, n) /\ Total(ns) = s[n]
    BY <1>2, SumTotal
<1>4. pos \in Nat /\ Len(buf) \in Nat /\ Len(e) \in Nat /\ pos + Len(e) <= Len(buf)
    BY <1>1
<1>5. \A k \in 1..n : Holds(buf, pos + s[k - 1], ss[k])
    BY <1>3, <1>4, HoldsEach
<1> HIDE DEF e
<1>6. ASSUME NEW k \in 1..n
      PROVE  /\ pos + s[k - 1] \in 0..Len(buf)
             /\ (pos + s[k - 1]) + Len(ss[k]) = pos + s[k] /\ pos + s[k] <= Len(buf)
    <2> DEFINE x == s[k - 1]  y == s[k]  z == Len(ss[k])  l == Len(buf)  t == s[n]
    <2>1. y = x + z /\ x \in Nat /\ y \in Nat /\ z \in Nat
        <3>1. s[k] = s[k - 1] + ns[k] /\ ns[k] = z /\ ns[k] \in Nat
            BY <1>2, <1>3 DEF IsSum
        <3> QED BY <3>1
    <2>2. y <= t /\ t \in Nat
        <3>1. k \in 0..n
            OBVIOUS
        <3>2. s[n] \in Nat
            OBVIOUS
        <3> HIDE DEF ns, x, y, z, l, t
        <3>3. s[k] <= s[n]
            BY <1>2, <1>3, <3>1, SumRises
        <3> QED BY <3>2, <3>3 DEF y, t
    <2>3. pos \in Nat /\ l \in Nat /\ pos + t <= l
        BY <1>1, <1>3, <1>4
    <2> HIDE DEF x, y, z, l, t
    <2>4. pos + x \in 0..l /\ (pos + x) + z = pos + y /\ pos + y <= l
        BY <2>1, <2>2, <2>3
    <2> QED BY <2>4 DEF x, y, z, l
<1>7. s[0] = 0
    BY <1>3 DEF IsSum
<1>8. s[n] = Len(FlattenSeq(ss))
    BY <1>1, <1>3 DEF e
<1>9. Laid(buf, pos, ss, n, s)
    BY <1>5, <1>6, <1>7, <1>8 DEF Laid
<1> QED BY <1>1, <1>9 DEF e

LEMMA ValueBytes ==
    ASSUME NEW f, NEW tag, FieldOK(f), TagOK(tag), NEW v, ValueOK(f, v)
    PROVE  Written(f, v) \in Seq(Byte) /\ EncValue(f, tag, Written(f, v)) \in Seq(Byte)
<1>1. CASE f.kind # "message"
    <2>1. f.kind \in Numbers \cup {"bytes"} /\ f.wire \in WiresOf(f.kind)
          /\ v \in ValuesOf(f.kind)
        BY <1>1 DEF FieldOK, ValueOK
    <2> DEFINE s == Scalar(f, v)  code == TagCode(f, tag)
    <2>2. s \in Seq(Byte) /\ code \in Seq(Byte)
        BY <2>1, ScalarSize, TagCodeLen
    <2>3. Written(f, v) = s /\ EncValue(f, tag, s) = code \o s
        BY <1>1 DEF Written, EncValue
    <2> HIDE DEF s, code
    <2> QED BY <2>2, <2>3, Appended
<1>2. CASE f.kind = "message"
    <2>1. v \in Seq(Byte) /\ Len(v) < 2^(Bits64 - 1) /\ Written(f, v) = v
        BY <1>2 DEF ValueOK, ValuesOf, Written
    <2>2. Len(v) < 2^Bits64
        <3>1. 2^(Bits64 - 1) <= 2^Bits64 /\ 2^(Bits64 - 1) \in Nat /\ 2^Bits64 \in Nat
            BY Widths, Half
        <3> QED BY <2>1, <3>1
    <2> QED BY <2>1, <2>2, ValueLen
<1> QED BY <1>1, <1>2

(* What may be set in a field, as a sequence of values, and their bodies.  *)
Bodies(f, vs) == [k \in DOMAIN vs |-> Written(f, vs[k])]
FieldValues(f, vs) ==
    /\ \E n \in Nat : vs = [k \in 1..n |-> vs[k]]
    /\ \A k \in DOMAIN vs : ValueOK(f, vs[k])
    /\ f.label = "packed" =>
        /\ f.kind \in Numbers
        /\ Len(FlattenSeq(Bodies(f, vs))) < 2^(Bits64 - 1)

(* The turns that read values one by one, each from where the one before   *)
(* ended, s bytes after pos.                                               *)
ValueTurns(buf, pos, f, tag, vs, n, s, j) ==
    /\ s[0] = 0 /\ pos + s[n] = j
    /\ \A k \in 1..n : ValueTurn(buf, pos + s[k - 1], f, tag, vs[k], pos + s[k])

(* The turns that read a field's values, from pos to j: one for all        *)
(* of them if they are packed, or else one each, where the one before      *)
(* ended.                                                                  *)
FieldTurns(buf, pos, f, tag, vs, j) == \E n \in Nat :
    /\ DOMAIN vs = 1..n
    /\ IF f.label = "packed" /\ n > 0 THEN PackedTurn(buf, pos, f, tag, vs, n, j)
       ELSE \E s \in [0..n -> Nat] : ValueTurns(buf, pos, f, tag, vs, n, s, j)

LEMMA ValuesRead ==
    ASSUME NEW f, NEW tag, FieldOK(f), TagOK(tag), NEW n \in Nat, NEW vs,
           \A k \in 1..n : ValueOK(f, vs[k]), n > 0 => f.label # "packed",
           NEW es, \A k \in 1..n : es[k] = EncValue(f, tag, Written(f, vs[k])),
           es = [k \in 1..n |-> es[k]], NEW buf \in Seq(Byte), NEW pos \in 0..Len(buf),
           Holds(buf, pos, FlattenSeq(es)), pos + Len(FlattenSeq(es)) <= Len(buf)
    PROVE  \E s \in [0..n -> Nat] :
             ValueTurns(buf, pos, f, tag, vs, n, s, pos + Len(FlattenSeq(es)))
<1>1. ASSUME NEW k \in 1..n
      PROVE  es[k] \in Seq(Byte)
    <2>1. es[k] = EncValue(f, tag, Written(f, vs[k])) /\ ValueOK(f, vs[k])
        OBVIOUS
    <2> QED BY <2>1, ValueBytes
<1>2. es \in [1..n -> Seq(Byte)]
    BY <1>1
<1>3. PICK s \in [0..n -> Nat] : Laid(buf, pos, es, n, s)
    BY <1>2, Parts
<1>4. ASSUME NEW k \in 1..n
      PROVE  ValueTurn(buf, pos + s[k - 1], f, tag, vs[k], pos + s[k])
    <2> DEFINE j == pos + s[k - 1]  v == vs[k]  e == EncValue(f, tag, Written(f, v))
    <2>1. /\ e = es[k] /\ ValueOK(f, v) /\ f.label # "packed"
          /\ j \in 0..Len(buf) /\ Holds(buf, j, es[k])
          /\ j + Len(es[k]) = pos + s[k] /\ pos + s[k] <= Len(buf)
        BY <1>3 DEF Laid
    <2> HIDE DEF j, v
    <2>2. /\ Holds(buf, j, EncValue(f, tag, Written(f, v)))
          /\ j + Len(EncValue(f, tag, Written(f, v))) = pos + s[k] /\ pos + s[k] <= Len(buf)
        BY <2>1
    <2>3. ValueTurn(buf, j, f, tag, v, j + Len(EncValue(f, tag, Written(f, v))))
        BY <2>1, <2>2, ValueRead
    <2>4. ValueTurn(buf, j, f, tag, v, pos + s[k])
        BY <2>2, <2>3
    <2> QED BY <2>4 DEF j, v
<1>5. s[0] = 0 /\ pos + s[n] = pos + Len(FlattenSeq(es))
    BY <1>3 DEF Laid
<1>6. ValueTurns(buf, pos, f, tag, vs, n, s, pos + Len(FlattenSeq(es)))
    BY <1>4, <1>5 DEF ValueTurns
<1> QED BY <1>6

LEMMA FieldBytes ==
    ASSUME NEW f, NEW tag, FieldOK(f), TagOK(tag), NEW vs, FieldValues(f, vs)
    PROVE  EncField(f, tag, Bodies(f, vs)) \in Seq(Byte)
<1>1. PICK n \in Nat : vs = [k \in 1..n |-> vs[k]]
    BY DEF FieldValues
<1> DEFINE bodies == Bodies(f, vs)  es == [k \in 1..n |-> EncValue(f, tag, bodies[k])]
<1>2. bodies = [k \in 1..n |-> Written(f, vs[k])] /\ \A k \in 1..n : ValueOK(f, vs[k])
    BY <1>1 DEF Bodies, FieldValues
<1>3. \A k \in 1..n : bodies[k] \in Seq(Byte) /\ es[k] \in Seq(Byte)
    BY <1>2, ValueBytes
<1>4. bodies \in [1..n -> Seq(Byte)] /\ es \in [1..n -> Seq(Byte)]
    BY <1>2, <1>3
<1>5. FlattenSeq(bodies) \in Seq(Byte) /\ FlattenSeq(es) \in Seq(Byte)
    BY <1>4, FlattenLen
<1>6. CASE f.label = "packed" /\ bodies # <<>>
    <2> DEFINE b == FlattenSeq(bodies)  r == RawBytes(b)  code == TagCode(f, tag)
    <2>1. Len(b) < 2^(Bits64 - 1)
        BY <1>6 DEF FieldValues, Bodies
    <2>2. Len(b) < 2^Bits64 /\ b \in Seq(Byte)
        <3>1. 2^(Bits64 - 1) <= 2^Bits64 /\ 2^(Bits64 - 1) \in Nat /\ 2^Bits64 \in Nat
            BY Widths, Half
        <3>2. b \in Seq(Byte)
            BY <1>5
        <3> HIDE DEF b
        <3> QED BY <2>1, <3>1, <3>2
    <2>3. r \in Seq(Byte) /\ code \in Seq(Byte)
        BY <2>2, RawLen, TagCodeLen
    <2>4. EncField(f, tag, bodies) = code \o r
        BY <1>6 DEF EncField, Packed
    <2> HIDE DEF r, code, bodies
    <2>5. code \o r \in Seq(Byte)
        BY <2>3, Appended
    <2> QED BY <2>4, <2>5 DEF bodies
<1>7. CASE ~(f.label = "packed" /\ bodies # <<>>)
    <2>1. EncField(f, tag, bodies) = FlattenSeq(es)
        BY <1>4, <1>7 DEF EncField
    <2> QED BY <1>5, <2>1
<1> QED BY <1>6, <1>7

(* A field that was encoded is read turn by turn: its values in their      *)
(* order, up to the byte that follows it.                                  *)
LEMMA FieldRead ==
    ASSUME NEW f, NEW tag, FieldOK(f), TagOK(tag), NEW vs, FieldValues(f, vs),
           NEW e, e = EncField(f, tag, Bodies(f, vs)),
           NEW buf \in Seq(Byte), NEW pos \in 0..Len(buf), Holds(buf, pos, e),
           pos + Len(e) <= Len(buf)
    PROVE  FieldTurns(buf, pos, f, tag, vs, pos + Len(e))
<1>1. PICK n \in Nat : vs = [k \in 1..n |-> vs[k]]
    BY DEF FieldValues
<1> DEFINE bodies == Bodies(f, vs)  es == [k \in 1..n |-> EncValue(f, tag, Written(f, vs[k]))]
<1>2. /\ bodies = [k \in 1..n |-> Written(f, vs[k])] /\ \A k \in 1..n : ValueOK(f, vs[k])
      /\ DOMAIN vs = 1..n
    BY <1>1 DEF Bodies, FieldValues
<1>3. es = [k \in DOMAIN bodies |-> EncValue(f, tag, bodies[k])]
    BY <1>2
<1>4. bodies = <<>> <=> n = 0
    <2>1. \A s : s = [k \in 1..n |-> s[k]] => (s = <<>> <=> n = 0)
        OBVIOUS
    <2>2. bodies = [k \in 1..n |-> bodies[k]]
        BY <1>2
    <2> HIDE DEF bodies
    <2> QED BY <2>1, <2>2
<1>5. CASE f.label = "packed" /\ n > 0
    <2>1. /\ f.kind \in Numbers /\ f.wire \in WiresOf(f.kind)
          /\ Len(FlattenSeq(bodies)) < 2^(Bits64 - 1)
        <3>1. f.kind \in Numbers /\ Len(FlattenSeq(bodies)) < 2^(Bits64 - 1)
            BY <1>5 DEF FieldValues, Bodies
        <3>2. f.kind # "message"
            BY <3>1 DEF Numbers
        <3> QED BY <3>1, <3>2 DEF FieldOK
    <2>2. \A k \in 1..n : vs[k] \in ValuesOf(f.kind) /\ Written(f, vs[k]) = Scalar(f, vs[k])
        BY <1>2, <2>1 DEF ValueOK, Written, Numbers
    <2>3. vs \in [1..n -> ValuesOf(f.kind)] /\ bodies = [k \in 1..n |-> Scalar(f, vs[k])]
        BY <1>1, <1>2, <2>2
    <2>4. e = Packed(f, tag, bodies)
        BY <1>4, <1>5 DEF EncField
    <2>5. f.label = "packed" /\ Holds(buf, pos, Packed(f, tag, bodies))
          /\ pos + Len(Packed(f, tag, bodies)) <= Len(buf)
        BY <1>5, <2>4
    <2> HIDE DEF bodies, es
    <2>6. PackedTurn(buf, pos, f, tag, vs, n, pos + Len(Packed(f, tag, bodies)))
        BY <2>1, <2>3, <2>5, PackedRead
    <2>7. PackedTurn(buf, pos, f, tag, vs, n, pos + Len(e))
        BY <2>4, <2>6
    <2> QED BY <1>2, <1>5, <2>7 DEF FieldTurns
<1>6. CASE ~(f.label = "packed" /\ n > 0)
    <2>1. e = FlattenSeq(es)
        BY <1>3, <1>4, <1>6 DEF EncField
    <2>2. /\ Holds(buf, pos, FlattenSeq(es)) /\ pos + Len(FlattenSeq(es)) <= Len(buf)
          /\ n > 0 => f.label # "packed"
        BY <1>6, <2>1
    <2>3. /\ \A k \in 1..n : ValueOK(f, vs[k]) /\ es[k] = EncValue(f, tag, Written(f, vs[k]))
          /\ es = [k \in 1..n |-> es[k]]
        BY <1>2
    <2> HIDE DEF es, bodies
    <2>4. \E s \in [0..n -> Nat] :
            ValueTurns(buf, pos, f, tag, vs, n, s, pos + Len(FlattenSeq(es)))
        BY <2>2, <2>3, ValuesRead
    <2>5. \E s \in [0..n -> Nat] : ValueTurns(buf, pos, f, tag, vs, n, s, pos + Len(e))
        BY <2>1, <2>4
    <2> QED BY <1>2, <1>6, <2>5 DEF FieldTurns
<1> QED BY <1>5, <1>6

(* A message's values are read as they were written: the fields in the     *)
(* order of their tags, each from where the one before ended, and the      *)
(* bytes that were not recognised follow the last of them.                 *)
MessageTurns(buf, pos, type, field, j) ==
    \E top \in DOMAIN type : \E s \in [0..top -> Nat] :
        /\ \A tag \in DOMAIN type : tag <= top
        /\ s[0] = 0 /\ pos + s[top] = j
        /\ \A tag \in 1..top :
            IF tag \in DOMAIN type
              THEN FieldTurns(buf, pos + s[tag - 1], type[tag], tag, field[tag], pos + s[tag])
              ELSE s[tag] = s[tag - 1]

THEOREM MessageRead ==
    ASSUME NEW type, TypeIs(type), NEW field, NEW unknown \in Seq(Byte),
           \A tag \in DOMAIN type : FieldValues(type[tag], field[tag]),
           NEW bodies, bodies = [tag \in DOMAIN type |-> Bodies(type[tag], field[tag])],
           NEW e, e = EncFields(type, bodies, unknown),
           NEW buf \in Seq(Byte), NEW pos \in 0..Len(buf), Holds(buf, pos, e),
           pos + Len(e) <= Len(buf)
    PROVE  \E j \in pos..(pos + Len(e)) :
             /\ MessageTurns(buf, pos, type, field, j)
             /\ Holds(buf, j, unknown) /\ j + Len(unknown) = pos + Len(e)
<1>1. PICK top \in DOMAIN type : \A tag \in DOMAIN type : tag <= top
    BY DEF TypeIs
<1>2. DOMAIN type \subseteq Nat /\ top \in Nat /\ Max(DOMAIN type) = top
    BY <1>1, MaxIs DEF TypeIs
<1> DEFINE fs == [tag \in 1..top |->
                   IF tag \in DOMAIN type THEN EncField(type[tag], tag, bodies[tag]) ELSE <<>>]
           all == FlattenSeq(fs)
<1>3. ASSUME NEW tag \in 1..top
      PROVE  /\ fs[tag] \in Seq(Byte)
             /\ tag \in DOMAIN type =>
                  fs[tag] = EncField(type[tag], tag, Bodies(type[tag], field[tag]))
             /\ tag \notin DOMAIN type => fs[tag] = <<>>
    <2>1. CASE tag \in DOMAIN type
        <3>1. /\ FieldOK(type[tag]) /\ TagOK(tag) /\ FieldValues(type[tag], field[tag])
              /\ fs[tag] = EncField(type[tag], tag, Bodies(type[tag], field[tag]))
            BY <2>1 DEF TypeIs
        <3> HIDE DEF fs
        <3> QED BY <2>1, <3>1, FieldBytes
    <2>2. CASE tag \notin DOMAIN type
        <3>1. fs[tag] = <<>>
            BY <2>2
        <3> HIDE DEF fs
        <3> QED BY <2>2, <3>1
    <2> QED BY <2>1, <2>2
<1>4. fs \in [1..top -> Seq(Byte)]
    BY <1>3
<1>5. e = all \o unknown
    BY <1>2 DEF EncFields
<1> HIDE DEF fs
<1>6. all \in Seq(Byte)
    BY <1>2, <1>4, FlattenLen
<1> HIDE DEF all
<1>7. /\ Holds(buf, pos, all \o unknown) /\ pos \in Nat /\ Len(buf) \in Nat
      /\ pos + Len(e) <= Len(buf)
    <2>1. Holds(buf, pos, e) /\ pos + Len(e) <= Len(buf) /\ pos \in Nat /\ Len(buf) \in Nat
        OBVIOUS
    <2> QED BY <1>5, <2>1
<1>8. /\ Len(e) = Len(all) + Len(unknown) /\ Len(all) \in Nat /\ Len(unknown) \in Nat
      /\ Holds(buf, pos, all) /\ Holds(buf, pos + Len(all), unknown)
    <2>1. /\ Len(all \o unknown) = Len(all) + Len(unknown)
          /\ Holds(buf, pos, all) /\ Holds(buf, pos + Len(all), unknown)
        BY <1>6, <1>7, HoldsBoth
    <2>2. Len(all) \in Nat /\ Len(unknown) \in Nat
        BY <1>6
    <2> QED BY <1>5, <2>1, <2>2
<1> DEFINE j == pos + Len(all)
<1>9. j \in pos..(pos + Len(e)) /\ j + Len(unknown) = pos + Len(e) /\ j <= Len(buf)
    <2> DEFINE x == Len(all)  y == Len(unknown)  z == Len(e)  l == Len(buf)
    <2>1. /\ x \in Nat /\ y \in Nat /\ pos \in Nat /\ l \in Nat /\ z = x + y
          /\ pos + z <= l /\ j = pos + x
        BY <1>7, <1>8
    <2> HIDE DEF x, y, z, l, j
    <2>2. j \in pos..(pos + z) /\ j + y = pos + z /\ j <= l
        BY <2>1
    <2> QED BY <2>2 DEF y, z, l
<1>10. PICK s \in [0..top -> Nat] : Laid(buf, pos, fs, top, s)
    <2>1. Holds(buf, pos, FlattenSeq(fs)) /\ pos + Len(FlattenSeq(fs)) <= Len(buf)
        BY <1>8, <1>9 DEF all
    <2> QED BY <1>2, <1>4, <2>1, Parts
<1>11. ASSUME NEW tag \in 1..top
       PROVE  IF tag \in DOMAIN type
                THEN FieldTurns(buf, pos + s[tag - 1], type[tag], tag, field[tag], pos + s[tag])
                ELSE s[tag] = s[tag - 1]
    <2> DEFINE from == pos + s[tag - 1]  z == Len(fs[tag])
    <2>1. /\ from \in 0..Len(buf) /\ Holds(buf, from, fs[tag])
          /\ from + z = pos + s[tag] /\ pos + s[tag] <= Len(buf)
        BY <1>10 DEF Laid
    <2>2. CASE tag \in DOMAIN type
        <3>1. /\ FieldOK(type[tag]) /\ TagOK(tag) /\ FieldValues(type[tag], field[tag])
              /\ fs[tag] = EncField(type[tag], tag, Bodies(type[tag], field[tag]))
            BY <1>3, <2>2 DEF TypeIs
        <3>2. from + Len(fs[tag]) = pos + s[tag] /\ from + Len(fs[tag]) <= Len(buf)
            BY <2>1
        <3> HIDE DEF from, z
        <3>3. FieldTurns(buf, from, type[tag], tag, field[tag], from + Len(fs[tag]))
            BY <2>1, <3>1, <3>2, FieldRead
        <3>4. FieldTurns(buf, from, type[tag], tag, field[tag], pos + s[tag])
            BY <3>2, <3>3
        <3> QED BY <2>2, <3>4 DEF from
    <2>3. CASE tag \notin DOMAIN type
        <3>1. fs[tag] = <<>>
            BY <1>3, <2>3
        <3>2. z = 0
            BY <3>1
        <3>3. s[tag] \in Nat /\ s[tag - 1] \in Nat
            <4> HIDE DEF z, from, j
            <4>1. tag \in 0..top /\ tag - 1 \in 0..top
                BY <1>2
            <4> QED BY <4>1
        <3> HIDE DEF z
        <3> QED BY <1>7, <2>1, <2>3, <3>2, <3>3
    <2> QED BY <2>2, <2>3
<1>12. s[0] = 0 /\ pos + s[top] = j
    BY <1>10 DEF Laid, all
<1> HIDE DEF j
<1>13. MessageTurns(buf, pos, type, field, j)
    BY <1>1, <1>11, <1>12 DEF MessageTurns
<1>14. Holds(buf, j, unknown)
    BY <1>8 DEF j
<1> QED BY <1>9, <1>13, <1>14
=============================================================================
