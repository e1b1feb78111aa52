---------------------------- MODULE TweetPublisher ----------------------------
(***************************************************************************)
(* The sending end of the tweet transport: the goroutine of InitPublisher  *)
(* (src/lib/network.go) and the program that owns its two channels         *)
(* (src/lib/example/publisher.go).  Both channels are unbuffered.          *)
(*                                                                         *)
(* Tweets are numbered as the publisher accepts them.  On the wire a tweet *)
(* is a message of two frames, "TWEET" and the body, but a socket keeps    *)
(* the frames of a message under way: after a body that could not be sent  *)
(* the next "TWEET" joins the message that was never ended.                *)
(***************************************************************************)
EXTENDS Integers, Sequences

CONSTANTS
    Limit,      \* how many tweets the owner means to send (1000)
    Restart,    \* what its counter is set to after an error (10)
    MaxErrors   \* bound on the errors of one run

ASSUME LimitAssumption == Limit \in Nat /\ Restart \in 0..Limit - 1
ASSUME ErrorsAssumption == MaxErrors \in Nat

VARIABLES
    ownerPc,    \* the owner: at its select, on tweetChan <-, past close(tweetChan)
    i,          \* its counter
    pubPc,      \* where the publisher's goroutine is
    accepted,   \* how many tweets it took from tweetChan
    open,       \* the "TWEET" frames of the message under way
    wire,       \* the messages sent: how many "TWEET" frames, which tweet
    raised,     \* the errors it raised after the set-up
    reported    \* those the owner read

owner == <<ownerPc, i>>
vars == <<ownerPc, i, pubPc, accepted, open, wire, raised, reported>>

(* "setupFailed" and "failing" are blocked on errorChan <- err before a    *)
(* return, "reporting" before the next tweet.  When the deferred calls     *)
(* have run, errorChan is closed and the goroutine is gone.                *)
Reporting == {"setupFailed", "failing", "reporting"}
Busy == {"marshal", "topic", "body"}

Message == [topics : Nat, tweet : Nat]

TypeOK ==
    /\ ownerPc \in {"select", "offering", "closed", "panicked"}
    /\ i \in 0..Limit
    /\ pubPc \in {"setup", "range", "returning", "gone"} \cup Busy \cup Reporting
    /\ accepted \in Nat /\ open \in Nat /\ raised \in Nat /\ reported \in Nat
    /\ wire \in Seq(Message)

Init ==
    /\ ownerPc = "select" /\ i = 0
    /\ pubPc = "setup" /\ accepted = 0 /\ open = 0 /\ wire = <<>>
    /\ raised = 0 /\ reported = 0

Goto(from, to) == pubPc = from /\ pubPc' = to

-----------------------------------------------------------------------------
(* The owner's loop.                                                       *)

(* 250 ms passed with nothing on errorChan, which is always ready once it  *)
(* is closed or the publisher is blocked on it.                            *)
Offer ==
    /\ ownerPc = "select" /\ pubPc \notin Reporting \cup {"gone"}
    /\ ownerPc' = "offering"
    /\ UNCHANGED <<i, pubPc, accepted, open, wire, raised, reported>>

\* Mutant: an error does not interrupt a send that is waiting.
TakeErrorAnytime ==
    /\ pubPc \in Reporting /\ ownerPc \in {"select", "offering"}
    /\ pubPc' = IF pubPc = "reporting" THEN "range" ELSE "returning"
    /\ i' = Restart
    /\ reported' = reported + (IF pubPc = "setupFailed" THEN 0 ELSE 1)
    /\ UNCHANGED <<ownerPc, accepted, open, wire, raised>>

(* case err := <-errorChan, with the publisher's send.                     *)
TakeError ==
    /\ pubPc \in Reporting /\ ownerPc = "select"
    /\ pubPc' = IF pubPc = "reporting" THEN "range" ELSE "returning"
    /\ i' = Restart
    /\ reported' = reported + (IF pubPc = "setupFailed" THEN 0 ELSE 1)
    /\ UNCHANGED <<ownerPc, accepted, open, wire, raised>>

(* A closed errorChan yields nil, and err.Error() panics.                  *)
TakeNilError ==
    /\ pubPc = "gone" /\ ownerPc = "select"
    /\ ownerPc' = "panicked"
    /\ UNCHANGED <<i, pubPc, accepted, open, wire, raised, reported>>

(* tweetChan <- protoTweet with the publisher's range; i++ and, at the     *)
(* limit, close(tweetChan).                                                *)
Accept ==
    /\ ownerPc = "offering" /\ Goto("range", "marshal")
    /\ i' = i + 1 /\ ownerPc' = IF i + 1 < Limit THEN "select" ELSE "closed"
    /\ accepted' = accepted + 1
    /\ UNCHANGED <<open, wire, raised, reported>>

-----------------------------------------------------------------------------
(* The publisher's goroutine.                                              *)

Setup ==
    /\ (Goto("setup", "range") \/ Goto("setup", "setupFailed"))
    /\ UNCHANGED <<owner, accepted, open, wire, raised, reported>>

Marshal ==
    /\ Goto("marshal", "topic")
    /\ UNCHANGED <<owner, accepted, open, wire, raised, reported>>

Raise == raised < MaxErrors /\ raised' = raised + 1

(* proto.Marshal or the Send of "TWEET" failed: report it and break.       *)
BreakOff ==
    /\ Raise /\ (Goto("marshal", "failing") \/ Goto("topic", "failing"))
    /\ UNCHANGED <<owner, accepted, open, wire, reported>>

SendTopic ==
    /\ Goto("topic", "body") /\ open' = open + 1
    /\ UNCHANGED <<owner, accepted, wire, raised, reported>>

SendBody ==
    /\ Goto("body", "range")
    /\ wire' = Append(wire, [topics |-> open, tweet |-> accepted])
    /\ open' = 0
    /\ UNCHANGED <<owner, accepted, raised, reported>>

\* Mutant: a failed body abandons the message under way.
SendBodyFailsResets ==
    /\ Raise /\ Goto("body", "reporting") /\ open' = 0
    /\ UNCHANGED <<owner, accepted, wire, reported>>

\* Mutant: the tweet is sent again, topic and body.
SendBodyFailsRetries ==
    /\ Raise /\ Goto("body", "topic")
    /\ UNCHANGED <<owner, accepted, open, wire, reported>>

(* SendBytes failed: report it and go on, the message stays open.          *)
SendBodyFails ==
    /\ Raise /\ Goto("body", "reporting")
    /\ UNCHANGED <<owner, accepted, open, wire, reported>>

(* tweetChan is closed and empty: the range ends.                          *)
RangeEnds ==
    /\ ownerPc = "closed" /\ Goto("range", "returning")
    /\ UNCHANGED <<owner, accepted, open, wire, raised, reported>>

(* The deferred pub.Close() and close(errorChan).                          *)
Return ==
    /\ Goto("returning", "gone")
    /\ UNCHANGED <<owner, accepted, open, wire, raised, reported>>

OwnerStep == Offer \/ TakeError \/ TakeNilError \/ Accept
PublisherStep ==
    \/ Setup \/ Marshal \/ BreakOff \/ SendTopic \/ SendBody \/ SendBodyFails
    \/ RangeEnds \/ Return

Next == OwnerStep \/ PublisherStep

Spec == Init /\ [][Next]_vars

-----------------------------------------------------------------------------
(* The tweet in hand, if any, is not on the wire yet.                      *)
InHand == IF pubPc \in Busy THEN 1 ELSE 0

(* Every tweet the publisher took is on the wire, in hand, or lost to one  *)
(* error each that the owner has read or is about to be offered: no tweet  *)
(* is lost without an error, and no error is raised for a tweet that was   *)
(* sent.                                                                   *)
EveryLossReported ==
    /\ accepted = Len(wire) + InHand + raised
    /\ raised = reported + (IF pubPc \in {"failing", "reporting"} THEN 1 ELSE 0)

(* The frames tell the losses: a message carries one "TWEET" for its own   *)
(* tweet and one for each tweet lost since the message before it.  So a    *)
(* receiver that reads two frames at a time is thrown off by every loss.   *)
Previous(k) == IF k = 1 THEN 0 ELSE wire[k - 1].tweet

LossesLeaveFrames ==
    \A k \in 1..Len(wire) :
        wire[k].topics >= 1 /\ wire[k].tweet = Previous(k) + wire[k].topics

(* The owner is on tweetChan <- and the publisher on errorChan <-, or gone *)
(* or going: neither can move the other on.                                *)
Stuck ==
    /\ ownerPc = "offering"
    /\ pubPc \in Reporting \cup {"returning", "gone"}

(* Once stuck, always stuck: nothing is sent or reported ever again.       *)
StuckIsForever == [][Stuck => Stuck' /\ UNCHANGED <<owner, wire, reported>>]_vars
=============================================================================
