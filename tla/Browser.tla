------------------------------- MODULE Browser -------------------------------
(***************************************************************************)
(* The page of one browser (src/website/www/src/js): Feed keeps a          *)
(* websocket to the feed, ViewModel a list of the latest tweets with a     *)
(* marker each on the TweetMap, and an alert that follows the last tweet.  *)
(*                                                                         *)
(* A browser runs one callback at a time.  A timer is the time it has left *)
(* and is run at zero or later; timers set with one delay run in the order *)
(* they were set.  Messages that add nothing to the page, the feed's "No   *)
(* Data" and those makeTweet throws on, leave no trace and are left out.   *)
(***************************************************************************)
EXTENDS Integers, Sequences

CONSTANTS
    Tweet,          \* the tweets: one name is one message at a time
    Lifetime,       \* how long a tweet is shown (300000 ms), in ticks
    ReconnectDelay, \* the wait before a new websocket (2500 ms), in ticks
    None            \* undefined: no tweet

ASSUME DelayAssumption == Lifetime \in Nat \ {0} /\ ReconnectDelay \in Nat
ASSUME NoneAssumption == None \notin Tweet

VARIABLES
    connecting,     \* how many websockets are connecting
    open,           \* how many are open
    reconnects,     \* the timers of onClose
    latestTweets,   \* the list, newest first
    markers,        \* the tweets with a marker on the map
    removals,       \* the timers of addTweet, each with the tweet that set it
    lastTweet,      \* the tweet the alert shows
    notify          \* a rate-limited update of the alert is due

network == <<connecting, open, reconnects>>
page == <<latestTweets, markers, removals>>
vars == <<network, page, lastTweet, notify>>

Timer == [tweet : Tweet, left : 0..Lifetime]

TypeOK ==
    /\ connecting \in 0..1 /\ open \in 0..1
    /\ reconnects \in Seq(0..ReconnectDelay) /\ Len(reconnects) <= 1
    /\ latestTweets \in Seq(Tweet) /\ markers \subseteq Tweet
    /\ removals \in Seq(Timer)
    /\ lastTweet \in Tweet \cup {None} /\ notify \in BOOLEAN

(* The page is loaded: the list is empty and Feed has called listen.       *)
Init ==
    /\ connecting = 1 /\ open = 0 /\ reconnects = <<>>
    /\ latestTweets = <<>> /\ markers = {} /\ removals = <<>>
    /\ lastTweet = None /\ notify = FALSE

First(list) == IF list = <<>> THEN None ELSE Head(list)

(* A change of the list's first tweet is told to the alert later on.       *)
Changed == notify' = (notify \/ First(latestTweets') # First(latestTweets))

-----------------------------------------------------------------------------
(* Feed: one websocket after another.                                      *)

OnOpen ==
    /\ connecting > 0
    /\ connecting' = connecting - 1 /\ open' = open + 1
    /\ UNCHANGED <<reconnects, page, lastTweet, notify>>

\* Mutant: a websocket that fails to open is retried by onerror as well.
OnCloseTwice ==
    /\ \/ connecting > 0 /\ connecting' = connecting - 1 /\ open' = open
          /\ reconnects' = reconnects \o <<ReconnectDelay, ReconnectDelay>>
       \/ open > 0 /\ open' = open - 1 /\ connecting' = connecting
          /\ reconnects' = Append(reconnects, ReconnectDelay)
    /\ UNCHANGED <<page, lastTweet, notify>>

(* An error or the feed closed it, before or after it was open.            *)
OnClose ==
    /\ \/ connecting > 0 /\ connecting' = connecting - 1 /\ open' = open
       \/ open > 0 /\ open' = open - 1 /\ connecting' = connecting
    /\ reconnects' = Append(reconnects, ReconnectDelay)
    /\ UNCHANGED <<page, lastTweet, notify>>

Reconnect ==
    /\ reconnects # <<>> /\ Head(reconnects) = 0
    /\ reconnects' = Tail(reconnects) /\ connecting' = connecting + 1
    /\ UNCHANGED <<open, page, lastTweet, notify>>

-----------------------------------------------------------------------------
(* ViewModel: a tweet comes and, later, a tweet goes.                      *)

Listed(list) == {list[k] : k \in 1..Len(list)}

\* Mutant: the tweet is put at the end of the list.
OnMessageAtEnd(t) ==
    /\ open > 0 /\ t \notin markers \cup Listed(latestTweets)
    /\ markers' = markers \cup {t} /\ latestTweets' = Append(latestTweets, t)
    /\ removals' = Append(removals, [tweet |-> t, left |-> Lifetime])
    /\ Changed /\ UNCHANGED <<network, lastTweet>>

\* Mutant: no timer is set while the list is longer than one screen.
OnMessageSomeTimers(t) ==
    /\ open > 0 /\ t \notin markers \cup Listed(latestTweets)
    /\ markers' = markers \cup {t} /\ latestTweets' = <<t>> \o latestTweets
    /\ removals' = IF Len(latestTweets) > 1 THEN removals
                   ELSE Append(removals, [tweet |-> t, left |-> Lifetime])
    /\ Changed /\ UNCHANGED <<network, lastTweet>>

(* onMessage, makeTweet and addTweet.                                      *)
OnMessage(t) ==
    /\ open > 0 /\ t \notin markers \cup Listed(latestTweets)
    /\ markers' = markers \cup {t} /\ latestTweets' = <<t>> \o latestTweets
    /\ removals' = Append(removals, [tweet |-> t, left |-> Lifetime])
    /\ Changed /\ UNCHANGED <<network, lastTweet>>

Due == removals # <<>> /\ Head(removals).left = 0
Last(list) == list[Len(list)]
ButLast(list) == SubSeq(list, 1, Len(list) - 1)

(* The timer pops whatever is last in the list, and removes its marker.    *)
(* From an empty list it would pop undefined and throw.                    *)
RemoveTweet ==
    /\ Due
    /\ removals' = Tail(removals)
    /\ IF latestTweets = <<>>
         THEN UNCHANGED <<latestTweets, markers>>
         ELSE markers' = markers \ {Last(latestTweets)}
              /\ latestTweets' = ButLast(latestTweets)
    /\ Changed /\ UNCHANGED <<network, lastTweet>>

(* The rate limit of lastTweet has passed: it is computed anew.            *)
Notify ==
    /\ notify /\ notify' = FALSE
    /\ lastTweet' = First(latestTweets)
    /\ UNCHANGED <<network, page>>

-----------------------------------------------------------------------------
(* Time passes for every timer, those that are due and not yet run too.    *)
Earlier(n) == IF n > 0 THEN n - 1 ELSE 0

Tick ==
    /\ reconnects' = [k \in DOMAIN reconnects |-> Earlier(reconnects[k])]
    /\ removals' = [k \in DOMAIN removals |->
                       [removals[k] EXCEPT !.left = Earlier(@)]]
    /\ UNCHANGED <<connecting, open, latestTweets, markers, lastTweet, notify>>

Next ==
    \/ OnOpen \/ OnClose \/ Reconnect \/ RemoveTweet \/ Notify \/ Tick
    \/ \E t \in Tweet : OnMessage(t)

Spec == Init /\ [][Next]_vars

(* Time passes and timers that are due run.                                *)
FairSpec ==
    Spec /\ WF_vars(Tick) /\ WF_vars(Reconnect) /\ WF_vars(RemoveTweet) /\ WF_vars(Notify)

-----------------------------------------------------------------------------
(* Each tweet on the list has one timer, its own, and the list and the     *)
(* timers are in opposite orders: the tweet popped is always the tweet     *)
(* whose timer ran, and the list is never popped when it is empty.         *)
ListMatchesTimers ==
    /\ Len(latestTweets) = Len(removals)
    /\ \A k \in 1..Len(removals) :
          removals[k].tweet = latestTweets[Len(latestTweets) + 1 - k]

(* The map shows the tweets of the list and no other.                      *)
MarkersAreListed == markers = Listed(latestTweets)

(* An update of the alert is never forgotten: when it shows another tweet  *)
(* than the last one, a notification is on its way.                        *)
AlertWillFollow == lastTweet # First(latestTweets) => notify

(* List, markers, timers and alert agree between any two callbacks.        *)
PageInv == TypeOK /\ ListMatchesTimers /\ MarkersAreListed /\ AlertWillFollow

(* The page has one websocket, or the timer that will make one, and never  *)
(* two of them: with two, every tweet would be listed twice.               *)
OneConnection == connecting + open + Len(reconnects) = 1

(* Every tweet leaves the map in the end, however long the page is open.   *)
TweetsLeave == \A t \in Tweet : t \in markers ~> t \notin markers
=============================================================================
