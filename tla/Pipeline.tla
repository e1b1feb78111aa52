------------------------------- MODULE Pipeline -------------------------------
(***************************************************************************)
(* The tweet transport from end to end: the publisher's program and the    *)
(* receiver's, with the network between the PUB and the SUB socket.  The   *)
(* messages that arrive are the publisher's own, frames left behind by a   *)
(* failed body included, in the order it sent them; each may be lost on    *)
(* the way, for a PUB socket drops what a subscriber has no room for, or   *)
(* what it sends before the subscriber is there.                           *)
(***************************************************************************)
EXTENDS TweetPublisher, TweetReceiver, FiniteSets

VARIABLES
    carried,    \* how many messages of the wire the network has dealt with
    lost        \* how many of these it lost

network == <<carried, lost>>
pVars == <<vars, rVars, network>>

PInit == Init /\ RInit /\ carried = 0 /\ lost = 0

(* The next message arrives or is lost.                                    *)
Carry ==
    /\ carried < Len(wire) /\ carried' = carried + 1
    /\ LET m == wire[carried + 1]
       IN  \/ m.tweet <= MaxTweet /\ HandOver(m.tweet, m.topics) /\ lost' = lost
           \/ UNCHANGED rVars /\ lost' = lost + 1
    /\ UNCHANGED vars

Sending == (OwnerStep \/ PublisherStep) /\ UNCHANGED <<rVars, network>>
Receiving == (GoroutineStep \/ ConsumerStep) /\ UNCHANGED <<vars, network>>

PNext == Sending \/ Carry \/ Receiving

PSpec == PInit /\ [][PNext]_pVars

-----------------------------------------------------------------------------
PTypeOK == TypeOK /\ RTypeOK /\ carried \in 0..Len(wire) /\ lost \in 0..carried

(* What the receiver was assumed to get is what the publisher sends: the   *)
(* tweets rise, and a message has no more "TWEET" frames than tweets were  *)
(* lost before it, so the transport implements the receiver's module, its  *)
(* open-ended arrivals replaced by the real ones.                          *)
ImplementsReceiver == RSpec

BodiesIn(frames) == Cardinality({k \in 1..Len(frames) : frames[k] # Topic})
Offered == IF at = "offering" THEN 1 ELSE 0

(* A message the network has dealt with is lost, or its tweet is in the    *)
(* pipe, in the receiver's hand, thrown away or with the consumer.         *)
Kept == lost + BodiesIn(pipe) + Offered + swallowed + Len(got)

(* A tweet the owner handed over is with the consumer or on its way, or it *)
(* was lost in one of three places: at the publisher, with an error to the *)
(* owner; at the receiver, with an error to the consumer; in the network,  *)
(* where nobody is told.                                                   *)
AllAccountedFor ==
    /\ EveryLossReported
    /\ accepted = InHand + raised + (Len(wire) - carried) + Kept
    /\ swallowed <= errors
=============================================================================
