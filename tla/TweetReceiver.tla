---------------------------- MODULE TweetReceiver ----------------------------
(***************************************************************************)
(* The receiving end of the tweet transport: the goroutine of InitReceiver *)
(* (src/lib/network.go) and a program that reads its two channels          *)
(* (src/lib/example/receiver.go).                                          *)
(*                                                                         *)
(* A SUB socket hands over whole messages, in order, and may lose some; a  *)
(* message is one or more "TWEET" frames and the body of a tweet, as       *)
(* TweetPublisher sends it.  The goroutine takes two frames at a time,     *)
(* whatever the message they belong to: one for Recv, which is thrown away *)
(* with its error, and one for RecvBytes, which should be a body.          *)
(***************************************************************************)
EXTENDS Integers, Sequences

CONSTANTS
    ClosesDone, \* the consumer closes doneChan at each error (the example)
    MaxTweet,   \* bound on the tweets published
    MaxFaults   \* bound on the interrupted calls

ASSUME ConsumerAssumption == ClosesDone \in BOOLEAN
ASSUME BoundsAssumption == MaxTweet \in Nat /\ MaxFaults \in Nat

VARIABLES
    pipe,       \* the frames in the socket: Topic, or the number of a tweet
    latest,     \* the last tweet that arrived
    damaged,    \* how many messages of three or more frames arrived
    at,         \* where the goroutine is
    hand,       \* the tweet it offers on tweetChan
    errors,     \* the errors it reported
    swallowed,  \* the bodies that Recv threw away
    faults,     \* the calls on the socket that were interrupted
    consumer,   \* "select", or "panicked"
    doneClosed, \* doneChan is closed
    got         \* the tweets the consumer received

socket == <<pipe, latest, damaged>>
goroutine == <<at, hand, errors, swallowed, faults>>
rVars == <<socket, goroutine, consumer, doneClosed, got>>

Topic == 0

RTypeOK ==
    /\ pipe \in Seq(Nat) /\ latest \in Nat /\ damaged \in Nat
    /\ at \in {"setup", "setupFailed", "topic", "body", "offering", "reporting", "gone"}
    /\ hand \in Nat /\ errors \in Nat /\ swallowed \in Nat /\ faults \in Nat
    /\ consumer \in {"select", "panicked"} /\ doneClosed \in BOOLEAN
    /\ got \in Seq(Nat)
    /\ at = "offering" => hand # Topic

RInit ==
    /\ pipe = <<>> /\ latest = 0 /\ damaged = 0
    /\ at = "setup" /\ hand = 0 /\ errors = 0 /\ swallowed = 0 /\ faults = 0
    /\ consumer = "select" /\ doneClosed = FALSE /\ got = <<>>

(* A panic ends the process, the goroutine with it.                        *)
Move(from, to) == consumer = "select" /\ at = from /\ at' = to

-----------------------------------------------------------------------------
(* The socket: tweet n arrives, behind as many "TWEET" frames as the       *)
(* tweets lost just before it left.  The tweets skipped were lost on the   *)
(* way or before it was sent.                                              *)
Frames(n, topics) == [j \in 1..topics + 1 |-> IF j <= topics THEN Topic ELSE n]

HandOver(n, topics) ==
    /\ at \notin {"setup", "setupFailed", "gone"}
    /\ pipe' = pipe \o Frames(n, topics)
    /\ latest' = n /\ damaged' = damaged + (IF topics > 1 THEN 1 ELSE 0)
    /\ UNCHANGED <<goroutine, consumer, doneClosed, got>>

(* What is assumed of the publisher and the network: no tweet twice, none  *)
(* after a later one, and no more "TWEET" frames than tweets were lost.    *)
Arrive(n, topics) == latest < n /\ topics <= n - latest /\ HandOver(n, topics)

-----------------------------------------------------------------------------
(* The goroutine.                                                          *)

SetupSub ==
    /\ (Move("setup", "topic") \/ Move("setup", "setupFailed"))
    /\ UNCHANGED <<socket, hand, errors, swallowed, faults, consumer, doneClosed, got>>

(* sub.Recv(0), whatever the frame is.                                     *)
RecvTopic ==
    /\ pipe # <<>> /\ Move("topic", "body")
    /\ pipe' = Tail(pipe)
    /\ swallowed' = swallowed + (IF Head(pipe) = Topic THEN 0 ELSE 1)
    /\ UNCHANGED <<latest, damaged, hand, errors, faults, consumer, doneClosed, got>>

Interrupted == faults < MaxFaults /\ faults' = faults + 1

\* Mutant: an interrupted Recv starts over.
RecvTopicRetries ==
    /\ Interrupted /\ Move("topic", "topic")
    /\ UNCHANGED <<socket, hand, errors, swallowed, consumer, doneClosed, got>>

(* The error of Recv is not looked at: the next call takes the "TWEET".    *)
RecvTopicFails ==
    /\ Interrupted /\ Move("topic", "body")
    /\ UNCHANGED <<socket, hand, errors, swallowed, consumer, doneClosed, got>>

\* Mutant: a body is offered again after an error.
RecvBodyRepeats ==
    /\ pipe # <<>> /\ pipe' = Tail(pipe)
    /\ \/ Head(pipe) # Topic /\ Move("body", "offering")
          /\ hand' = Head(pipe) /\ errors' = errors
       \/ Head(pipe) = Topic /\ Move("body", IF hand = 0 THEN "reporting" ELSE "offering")
          /\ hand' = hand /\ errors' = errors + 1
    /\ UNCHANGED <<latest, damaged, swallowed, faults, consumer, doneClosed, got>>

\* Mutant: what does not unmarshal is passed over in silence.
RecvBodySilent ==
    /\ pipe # <<>> /\ pipe' = Tail(pipe)
    /\ \/ Head(pipe) # Topic /\ Move("body", "offering") /\ hand' = Head(pipe)
       \/ Head(pipe) = Topic /\ Move("body", "topic") /\ hand' = hand
    /\ UNCHANGED <<latest, damaged, errors, swallowed, faults, consumer, doneClosed, got>>

(* sub.RecvBytes(0) and Unmarshal, which the bytes of "TWEET" fail.        *)
RecvBody ==
    /\ pipe # <<>> /\ pipe' = Tail(pipe)
    /\ \/ Head(pipe) # Topic /\ Move("body", "offering")
          /\ hand' = Head(pipe) /\ errors' = errors
       \/ Head(pipe) = Topic /\ Move("body", "reporting")
          /\ hand' = hand /\ errors' = errors + 1
    /\ UNCHANGED <<latest, damaged, swallowed, faults, consumer, doneClosed, got>>

RecvBodyFails ==
    /\ Interrupted /\ Move("body", "reporting") /\ errors' = errors + 1
    /\ UNCHANGED <<socket, hand, swallowed, consumer, doneClosed, got>>

-----------------------------------------------------------------------------
(* The consumer's select.                                                  *)

TakeTweet ==
    /\ Move("offering", "topic")
    /\ got' = Append(got, hand)
    /\ UNCHANGED <<socket, hand, errors, swallowed, faults, consumer, doneClosed>>

(* The example closes doneChan; closing it again panics.                   *)
CloseDone ==
    /\ doneClosed' = IF ClosesDone THEN TRUE ELSE doneClosed
    /\ consumer' = IF ClosesDone /\ doneClosed THEN "panicked" ELSE consumer

(* An error of the set-up is followed by the deferred closes and a return. *)
ReadError ==
    /\ (Move("reporting", "topic") \/ Move("setupFailed", "gone"))
    /\ CloseDone
    /\ UNCHANGED <<socket, hand, errors, swallowed, faults, got>>

(* Both channels are closed: a nil tweet or a nil error, which panics.     *)
TakeNil ==
    /\ Move("gone", "gone") /\ consumer' = "panicked"
    /\ doneClosed' \in {doneClosed, doneClosed \/ ClosesDone}
    /\ UNCHANGED <<socket, goroutine, got>>

GoroutineStep == SetupSub \/ RecvTopic \/ RecvTopicFails \/ RecvBody \/ RecvBodyFails
ConsumerStep == TakeTweet \/ ReadError \/ TakeNil

RNext ==
    \/ \E n \in 1..MaxTweet : \E topics \in 1..n : Arrive(n, topics)
    \/ GoroutineStep \/ ConsumerStep

RSpec == RInit /\ [][RNext]_rVars

-----------------------------------------------------------------------------
(* The consumer receives tweets in the order they were published, none     *)
(* twice, whatever is lost, damaged or interrupted.                        *)
InOrder == \A j, k \in 1..Len(got) : j < k => got[j] < got[k]

(* Each tweet that arrived and was thrown away came with an error of its   *)
(* own: the consumer is never left to think that all is well.              *)
NoSilentLoss == swallowed <= errors

(* One interrupted call is enough: with every message intact and no other  *)
(* fault, the receiver is off by one frame and never delivers again.       *)
OneFaultSilences == [][faults = 1 /\ damaged = 0 => got' = got]_rVars
=============================================================================
