----------------------------- MODULE FeedListener -----------------------------
(***************************************************************************)
(* The goroutine of the feed that listens for tweets: listenForTweets in   *)
(* src/feed/main.go.  It reads a message as two frames, looks at neither   *)
(* call's error, and gives a tweet to the hub.  What does not unmarshal    *)
(* makes it leave the inner loop and make a new socket; the old one is     *)
(* closed by a defer of a function that never returns.                     *)
(***************************************************************************)
EXTENDS Integers, Sequences

CONSTANTS
    MaxSockets,     \* the sockets a ZMQ context has (1023)
    MaxTweet,       \* bound on the tweets published upstream
    MaxFaults,      \* bound on the calls on a socket that fail
    MaxEmpty        \* bound on the empty tweets offered

ASSUME SocketsAssumption == MaxSockets \in Nat \ {0}
ASSUME BoundsAssumption == MaxTweet \in Nat /\ MaxFaults \in Nat /\ MaxEmpty \in Nat

VARIABLES
    emptyIsTweet, \* no bytes unmarshal to an empty GeoTweet
    at,         \* where the goroutine is
    subscriber, \* the socket in use: "live", "deaf" (not connected or
                \* not subscribed) or "dead" (NewSocket failed)
    opened,     \* how many sockets NewSocket has made
    queue,      \* the frames in the socket in use
    latest,     \* the last tweet sent by the publisher
    hand,       \* the tweet offered to the hub
    faults,     \* the calls that failed
    empty,      \* the empty tweets the hub took
    seen,       \* the tweets that arrived at the socket in use
    got         \* those of them the hub took

socket == <<emptyIsTweet, subscriber, opened>>
vars == <<at, socket, queue, latest, hand, faults, empty, seen, got>>

Topic == 0
Nothing == -1   \* the tweet of an empty body

TypeOK ==
    /\ emptyIsTweet \in BOOLEAN
    /\ at \in {"open", "topic", "body", "offering"}
    /\ subscriber \in {"live", "deaf", "dead"}
    /\ opened \in 0..MaxSockets
    /\ queue \in Seq(Nat) /\ seen \in Seq(Nat) /\ got \in Seq(Nat)
    /\ latest \in Nat /\ faults \in Nat /\ empty \in Nat
    /\ hand \in Nat \cup {Nothing}
    /\ at = "offering" => hand # Topic

(* GeoTweet comes from a package that is not in the repository: whether no *)
(* bytes are one depends on its fields, and both cases are modelled.       *)
Init ==
    /\ emptyIsTweet \in BOOLEAN
    /\ at = "open" /\ subscriber = "dead" /\ opened = 0
    /\ queue = <<>> /\ latest = 0 /\ hand = 0 /\ faults = 0 /\ empty = 0
    /\ seen = <<>> /\ got = <<>>

Goto(from, to) == at = from /\ at' = to
Fault == faults < MaxFaults /\ faults' = faults + 1

-----------------------------------------------------------------------------
(* The next tweet is published; it arrives if there is a socket to get it  *)
(* and the network does not lose it.                                       *)
Arrive(n) ==
    /\ latest < n /\ latest' = n
    /\ \/ /\ subscriber = "live" /\ at # "open"
          /\ queue' = queue \o <<Topic, n>> /\ seen' = Append(seen, n)
       \/ UNCHANGED <<queue, seen>>
    /\ UNCHANGED <<at, socket, hand, faults, empty, got>>

-----------------------------------------------------------------------------
(* The outer loop: NewSocket, Connect, SetSubscribe, no error looked at.   *)

Fresh == queue' = <<>> /\ seen' = <<>> /\ got' = <<>>

\* Mutant: with no slot left, the socket left behind is closed first.
OpenReclaims ==
    /\ Goto("open", "topic") /\ Fresh /\ subscriber' = "live"
    /\ opened' = IF opened < MaxSockets THEN opened + 1 ELSE opened
    /\ UNCHANGED <<emptyIsTweet, latest, hand, faults, empty>>

Open ==
    /\ opened < MaxSockets /\ Goto("open", "topic") /\ Fresh
    /\ opened' = opened + 1
    /\ \/ subscriber' = "live" /\ UNCHANGED faults
       \/ subscriber' = "deaf" /\ Fault
    /\ UNCHANGED <<emptyIsTweet, latest, hand, empty>>

OpenFails ==
    /\ Goto("open", "topic") /\ Fresh /\ subscriber' = "dead"
    /\ IF opened = MaxSockets THEN UNCHANGED faults ELSE Fault
    /\ UNCHANGED <<emptyIsTweet, opened, latest, hand, empty>>

-----------------------------------------------------------------------------
(* The inner loop.                                                         *)

(* subscriber.Recv(0), whatever the frame is.                              *)
RecvTopic ==
    /\ queue # <<>> /\ Goto("topic", "body") /\ queue' = Tail(queue)
    /\ UNCHANGED <<socket, latest, hand, faults, empty, seen, got>>

(* A call fails at will, and each time on a socket that was never made.    *)
Failing == IF subscriber = "dead" THEN UNCHANGED faults ELSE Fault

RecvTopicFails ==
    /\ Failing /\ Goto("topic", "body")
    /\ UNCHANGED <<socket, queue, latest, hand, empty, seen, got>>

\* Mutant: a frame that is not a body is skipped, the loop goes on.
RecvBodySkips ==
    /\ queue # <<>> /\ queue' = Tail(queue)
    /\ \/ Head(queue) # Topic /\ Goto("body", "offering") /\ hand' = Head(queue)
       \/ Head(queue) = Topic /\ Goto("body", "topic") /\ hand' = hand
    /\ UNCHANGED <<socket, latest, faults, empty, seen, got>>

\* Mutant: what does not unmarshal makes it read another body.
RecvBodyRetries ==
    /\ queue # <<>> /\ queue' = Tail(queue)
    /\ \/ Head(queue) # Topic /\ Goto("body", "offering") /\ hand' = Head(queue)
       \/ Head(queue) = Topic /\ Goto("body", "body") /\ hand' = hand
    /\ UNCHANGED <<socket, latest, faults, empty, seen, got>>

(* subscriber.RecvBytes(0) and Unmarshal, which the bytes of "TWEET" fail. *)
RecvBody ==
    /\ queue # <<>> /\ queue' = Tail(queue)
    /\ \/ Head(queue) # Topic /\ Goto("body", "offering") /\ hand' = Head(queue)
       \/ Head(queue) = Topic /\ Goto("body", "open") /\ hand' = hand
    /\ UNCHANGED <<socket, latest, faults, empty, seen, got>>

(* A failed RecvBytes leaves no bytes to unmarshal.                        *)
RecvBodyFails ==
    /\ Failing
    /\ IF emptyIsTweet
         THEN Goto("body", "offering") /\ hand' = Nothing
         ELSE Goto("body", "open") /\ hand' = hand
    /\ UNCHANGED <<socket, queue, latest, empty, seen, got>>

(* c <- string(jsonData), with the hub's receive.                          *)
Offer ==
    /\ Goto("offering", "topic")
    /\ IF hand = Nothing
         THEN empty < MaxEmpty /\ empty' = empty + 1 /\ got' = got
         ELSE got' = Append(got, hand) /\ empty' = empty
    /\ UNCHANGED <<socket, queue, latest, hand, faults, seen>>

ListenerStep ==
    \/ Open \/ OpenFails \/ RecvTopic \/ RecvTopicFails
    \/ RecvBody \/ RecvBodyFails \/ Offer

Next == (\E n \in 1..MaxTweet : Arrive(n)) \/ ListenerStep

Spec == Init /\ [][Next]_vars

(* The goroutine runs when it can, and the hub, unless it is wedged, takes *)
(* what is offered.  Nothing is assumed of arrivals and faults.            *)
FairSpec ==
    Spec /\ WF_vars(Open \/ OpenFails) /\ WF_vars(RecvTopic) /\ WF_vars(RecvBody)
         /\ WF_vars(Offer)

-----------------------------------------------------------------------------
(* The hub gets the tweets of a socket in order, none of them twice.       *)
InOrder == \A j, k \in 1..Len(got) : j < k => got[j] < got[k]

(* On one socket nothing is skipped: the hub gets what arrived, from the   *)
(* first tweet, until the socket is left.  One failed call never makes the *)
(* listener miss a tweet and carry on; when no bytes make a tweet, it      *)
(* takes two to do so, one that shifts the frames and one that shifts them *)
(* back, and otherwise no number of them does.                             *)
NothingSkipped ==
    faults <= 1 \/ ~emptyIsTweet =>
        /\ Len(got) <= Len(seen)
        /\ \A k \in 1..Len(got) : got[k] = seen[k]

(* What a hub that reads the channel can rely on.                          *)
ListenerInv == TypeOK /\ InOrder /\ NothingSkipped

(* Sockets are never given back.  Once the context has none left and the   *)
(* listener has lost its last one, or it reads from a socket that was      *)
(* never made and takes each failure for an empty tweet, the hub gets no   *)
(* tweet ever again.                                                       *)
Lost ==
    \/ opened = MaxSockets /\ (at = "open" \/ subscriber = "dead")
    \/ emptyIsTweet /\ subscriber = "dead" /\ at # "open"

LostForGood == [][Lost => Lost' /\ Len(got') <= Len(got)]_vars

(* When no bytes make no tweet, a tweet that arrived reaches the hub or is *)
(* lost with its socket.  Otherwise a socket that was never made can feed  *)
(* the hub empty tweets for ever, and a shifted listener wait for ever.    *)
ArrivedIsPublished ==
    \A n \in 1..MaxTweet :
        (~emptyIsTweet /\ \E k \in 1..Len(seen) : seen[k] = n) ~>
            \/ \E k \in 1..Len(got) : got[k] = n
            \/ \A k \in 1..Len(seen) : seen[k] # n
=============================================================================
