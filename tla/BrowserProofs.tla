----------------------------- MODULE BrowserProofs -----------------------------
(***************************************************************************)
(* Proofs about Browser, for any set of tweets and any delays.             *)
(*                                                                         *)
(* That the markers are those of the list is not inductive alone: popping  *)
(* a tweet removes its marker, which is right only if the list does not    *)
(* show the tweet twice (NoneTwice).  The bounds of TypeOK on websockets   *)
(* and timers follow from OneConnection, which is inductive by itself.     *)
(***************************************************************************)
EXTENDS Browser, TLAPS

NetInv ==
    /\ connecting \in Nat /\ open \in Nat
    /\ reconnects \in Seq(0..ReconnectDelay)
    /\ OneConnection

NoneTwice ==
    \A j, k \in 1..Len(latestTweets) : latestTweets[j] = latestTweets[k] => j = k

ListTypes ==
    /\ latestTweets \in Seq(Tweet) /\ markers \subseteq Tweet
    /\ removals \in Seq(Timer)

ListInv == ListTypes /\ ListMatchesTimers /\ MarkersAreListed /\ NoneTwice

AlertInv == notify \in BOOLEAN /\ lastTweet \in Tweet \cup {None} /\ AlertWillFollow

-----------------------------------------------------------------------------
(* What time does to a sequence of timers.                                 *)
LEMMA EarlierType == ASSUME NEW d \in Nat, NEW n \in 0..d PROVE Earlier(n) \in 0..d
BY DEF Earlier

LEMMA TickReconnects ==
    ASSUME NEW d \in Nat, NEW s \in Seq(0..d)
    PROVE  /\ [k \in DOMAIN s |-> Earlier(s[k])] \in Seq(0..d)
           /\ Len([k \in DOMAIN s |-> Earlier(s[k])]) = Len(s)
<1> DEFINE t == [k \in DOMAIN s |-> Earlier(s[k])]
<1>1. DOMAIN s = 1..Len(s) /\ Len(s) \in Nat
    OBVIOUS
<1>2. \A k \in 1..Len(s) : s[k] \in 0..d
    OBVIOUS
<1>3. t \in [1..Len(s) -> 0..d]
    BY <1>1, <1>2, EarlierType
<1>4. t \in Seq(0..d) /\ Len(t) = Len(s)
    BY <1>1, <1>3
<1> QED BY <1>4

(* A list with a tweet in front, and a list without its last tweet.        *)
LEMMA InFront ==
    ASSUME NEW list \in Seq(Tweet), NEW t \in Tweet
    PROVE  /\ <<t>> \o list \in Seq(Tweet)
           /\ Len(<<t>> \o list) = Len(list) + 1
           /\ (<<t>> \o list)[1] = t
           /\ \A k \in 1..Len(list) : (<<t>> \o list)[k + 1] = list[k]
OBVIOUS

LEMMA WithoutLast ==
    ASSUME NEW list \in Seq(Tweet), list # <<>>
    PROVE  /\ ButLast(list) \in Seq(Tweet)
           /\ Len(list) \in Nat \ {0}
           /\ Len(ButLast(list)) = Len(list) - 1
           /\ \A k \in 1..Len(list) - 1 : ButLast(list)[k] = list[k]
           /\ Last(list) \in Tweet
<1>1. Len(list) \in Nat /\ Len(list) # 0
    OBVIOUS
<1>2. Len(list) \in 1..Len(list) /\ Len(list) - 1 \in 0..Len(list)
    BY <1>1
<1>3. Last(list) \in Tweet
    BY <1>2 DEF Last
<1> DEFINE n == Len(list) - 1
<1>4. n \in Nat /\ n = Len(list) - 1 /\ n <= Len(list)
    BY <1>1
<1> HIDE DEF n
<1>5. /\ Len(SubSeq(list, 1, n)) = n
      /\ \A k \in 1..n : SubSeq(list, 1, n)[k] = list[k]
    BY <1>4
<1>6. \A k \in 1..n : list[k] \in Tweet
    BY <1>1, <1>4
<1>7. SubSeq(list, 1, n) = [k \in 1..n |-> list[k]]
    BY <1>4
<1>8. SubSeq(list, 1, n) \in Seq(Tweet)
    BY <1>4, <1>6, <1>7
<1> QED BY <1>1, <1>3, <1>4, <1>5, <1>8 DEF ButLast, n

-----------------------------------------------------------------------------
(* The connection: a websocket that closes leaves a timer, the timer makes *)
(* a websocket, and nothing else makes either.                             *)
LEMMA InitNetInv == Init => NetInv
BY DelayAssumption DEF Init, NetInv, OneConnection

LEMMA NextNetInv == NetInv /\ [Next]_vars => NetInv'
<1> SUFFICES ASSUME NetInv, [Next]_vars PROVE NetInv'
    OBVIOUS
<1> USE DelayAssumption DEF NetInv, OneConnection
<1>1. CASE OnOpen
    BY <1>1 DEF OnOpen
<1>2. CASE OnClose
    <2>1. reconnects' = Append(reconnects, ReconnectDelay) /\ ReconnectDelay \in 0..ReconnectDelay
        BY <1>2 DEF OnClose
    <2>2. reconnects' \in Seq(0..ReconnectDelay) /\ Len(reconnects') = Len(reconnects) + 1
        BY <2>1
    <2>3. Len(reconnects) \in Nat
        OBVIOUS
    <2> QED BY <1>2, <2>2, <2>3 DEF OnClose
<1>3. CASE Reconnect
    <2>1. reconnects # <<>> /\ reconnects' = Tail(reconnects)
        BY <1>3 DEF Reconnect
    <2>2. reconnects' \in Seq(0..ReconnectDelay) /\ Len(reconnects') = Len(reconnects) - 1
        BY <2>1
    <2>3. Len(reconnects) \in Nat /\ Len(reconnects) > 0
        BY <2>1
    <2> QED BY <1>3, <2>2, <2>3 DEF Reconnect
<1>4. CASE Tick
    BY <1>4, TickReconnects DEF Tick
<1>5. CASE RemoveTweet \/ Notify \/ UNCHANGED vars \/ \E t \in Tweet : OnMessage(t)
    BY <1>5 DEF RemoveTweet, Notify, OnMessage, vars, network
<1> QED BY <1>1, <1>2, <1>3, <1>4, <1>5 DEF Next

-----------------------------------------------------------------------------
(* The list, its markers and its timers.                                   *)
LEMMA InitListInv == Init => ListInv
BY DEF Init, ListInv, ListTypes, ListMatchesTimers, MarkersAreListed, NoneTwice, Listed

(* A tweet comes: it is first on the list, and its timer is the last.      *)
LEMMA MessageListInv ==
    ASSUME ListInv, NEW t \in Tweet, OnMessage(t) PROVE ListInv'
<1> DEFINE n == Len(latestTweets)
           timer == [tweet |-> t, left |-> Lifetime]
<1>1. /\ latestTweets \in Seq(Tweet) /\ removals \in Seq(Timer) /\ markers \subseteq Tweet
      /\ n \in Nat /\ Len(removals) = n /\ timer \in Timer
    BY DelayAssumption DEF ListInv, ListTypes, ListMatchesTimers, Timer
<1>2. /\ latestTweets' = <<t>> \o latestTweets
      /\ removals' = Append(removals, timer) /\ markers' = markers \cup {t}
    BY DEF OnMessage
<1>3. /\ latestTweets' \in Seq(Tweet) /\ Len(latestTweets') = n + 1
      /\ latestTweets'[1] = t
      /\ \A k \in 1..n : latestTweets'[k + 1] = latestTweets[k]
    BY <1>1, <1>2, InFront
<1>4. /\ removals' \in Seq(Timer) /\ Len(removals') = n + 1
      /\ removals'[n + 1] = timer
      /\ \A k \in 1..n : removals'[k] = removals[k]
    BY <1>1, <1>2
<1> HIDE DEF n
<1>5. ListTypes'
    BY <1>1, <1>2, <1>3, <1>4 DEF ListTypes
<1>6. ListMatchesTimers'
    <2>1. ASSUME NEW k \in 1..n + 1
          PROVE  removals'[k].tweet = latestTweets'[n + 2 - k]
        <3>1. CASE k = n + 1
            BY <1>1, <1>3, <1>4, <3>1
        <3>2. CASE k # n + 1
            <4>1. k \in 1..n /\ n + 1 - k \in 1..n /\ (n + 1 - k) + 1 = n + 2 - k
                BY <1>1, <3>2
            <4>2. removals[k].tweet = latestTweets[n + 1 - k]
                BY <1>1, <4>1 DEF ListInv, ListMatchesTimers, n
            <4>3. latestTweets'[(n + 1 - k) + 1] = latestTweets[n + 1 - k]
                BY <1>3, <4>1
            <4> QED BY <1>4, <4>1, <4>2, <4>3
        <3> QED BY <3>1, <3>2
    <2>2. \A k \in 1..n + 1 : (n + 1) + 1 - k = n + 2 - k
        BY <1>1
    <2>3. \A k \in 1..n + 1 : removals'[k].tweet = latestTweets'[(n + 1) + 1 - k]
        BY <2>1, <2>2
    <2> QED BY <1>3, <1>4, <2>3 DEF ListMatchesTimers
<1>7. MarkersAreListed'
    <2>1. Listed(latestTweets') = Listed(latestTweets) \cup {t}
        <3>1. ASSUME NEW x, x \in Listed(latestTweets') PROVE x \in Listed(latestTweets) \cup {t}
            <4>1. PICK k \in 1..n + 1 : x = latestTweets'[k]
                BY <1>3, <3>1 DEF Listed
            <4>2. CASE k = 1
                BY <1>3, <4>1, <4>2
            <4>3. CASE k # 1
                <5>1. k - 1 \in 1..n /\ (k - 1) + 1 = k
                    BY <1>1, <4>3
                <5>2. x = latestTweets[k - 1]
                    BY <1>3, <4>1, <5>1
                <5> QED BY <5>1, <5>2 DEF Listed, n
            <4> QED BY <4>2, <4>3
        <3>2. ASSUME NEW k \in 1..n PROVE latestTweets[k] \in Listed(latestTweets')
            <4>1. k + 1 \in 1..n + 1 /\ latestTweets'[k + 1] = latestTweets[k]
                BY <1>1, <1>3
            <4> QED BY <1>3, <4>1 DEF Listed
        <3>3. t \in Listed(latestTweets')
            <4>1. 1 \in 1..n + 1
                BY <1>1
            <4> QED BY <1>3, <4>1 DEF Listed
        <3> QED BY <3>1, <3>2, <3>3 DEF Listed, n
    <2> QED BY <1>2, <2>1 DEF ListInv, MarkersAreListed
<1>8. NoneTwice'
    <2>1. \A k \in 1..n : latestTweets[k] # t
        BY DEF OnMessage, Listed, n
    <2>2. \A j, k \in 1..n : latestTweets[j] = latestTweets[k] => j = k
        BY DEF ListInv, NoneTwice, n
    <2>3. ASSUME NEW j \in 1..n + 1, NEW k \in 1..n + 1, latestTweets'[j] = latestTweets'[k]
          PROVE  j = k
        <3>1. ASSUME NEW i \in 1..n + 1, i # 1
              PROVE  i - 1 \in 1..n /\ latestTweets'[i] = latestTweets[i - 1]
            <4>1. i - 1 \in 1..n /\ (i - 1) + 1 = i
                BY <1>1, <3>1
            <4> QED BY <1>3, <4>1
        <3>2. CASE j = 1 \/ k = 1
            BY <1>3, <2>1, <2>3, <3>1, <3>2
        <3>3. CASE j # 1 /\ k # 1
            <4>1. j - 1 = k - 1
                BY <2>2, <2>3, <3>1, <3>3
            <4> QED BY <1>1, <4>1
        <3> QED BY <3>2, <3>3
    <2> QED BY <1>3, <2>3 DEF NoneTwice
<1> QED BY <1>5, <1>6, <1>7, <1>8 DEF ListInv

(* A tweet goes: the last on the list, whose timer is the first.           *)
LEMMA RemoveListInv == ASSUME ListInv, RemoveTweet PROVE ListInv'
<1> DEFINE n == Len(latestTweets)
<1>1. /\ latestTweets \in Seq(Tweet) /\ removals \in Seq(Timer) /\ markers \subseteq Tweet
      /\ n \in Nat /\ Len(removals) = n /\ removals # <<>>
    BY DEF ListInv, ListTypes, ListMatchesTimers, RemoveTweet, Due
<1>2. latestTweets # <<>> /\ n # 0
    BY <1>1
<1>3. /\ removals' = Tail(removals) /\ latestTweets' = ButLast(latestTweets)
      /\ markers' = markers \ {Last(latestTweets)}
    BY <1>2 DEF RemoveTweet
<1>4. /\ latestTweets' \in Seq(Tweet) /\ Len(latestTweets') = n - 1
      /\ \A k \in 1..n - 1 : latestTweets'[k] = latestTweets[k]
    BY <1>1, <1>2, <1>3, WithoutLast
<1>5. /\ removals' \in Seq(Timer) /\ Len(removals') = n - 1
      /\ \A k \in 1..n - 1 : removals'[k] = removals[k + 1]
    BY <1>1, <1>3
<1>6. Last(latestTweets) = latestTweets[n]
    BY DEF Last
<1> HIDE DEF n
<1>7. ListTypes'
    BY <1>1, <1>3, <1>4, <1>5 DEF ListTypes
<1>8. ListMatchesTimers'
    <2>1. ASSUME NEW k \in 1..n - 1
          PROVE  removals'[k].tweet = latestTweets'[n - k]
        <3>1. k + 1 \in 1..n /\ n - k \in 1..n - 1 /\ n + 1 - (k + 1) = n - k
            BY <1>1
        <3>2. removals[k + 1].tweet = latestTweets[n + 1 - (k + 1)]
            BY <1>1, <3>1 DEF ListInv, ListMatchesTimers, n
        <3> QED BY <1>4, <1>5, <3>1, <3>2
    <2>2. \A k \in 1..n - 1 : (n - 1) + 1 - k = n - k
        BY <1>1
    <2>3. \A k \in 1..Len(removals') :
              removals'[k].tweet = latestTweets'[Len(latestTweets') + 1 - k]
        BY <1>4, <1>5, <2>1, <2>2
    <2> QED BY <1>4, <1>5, <2>3 DEF ListMatchesTimers
<1>9. \A j, k \in 1..n : latestTweets[j] = latestTweets[k] => j = k
    BY DEF ListInv, NoneTwice, n
<1>10. MarkersAreListed'
    <2>1. ASSUME NEW x, x \in Listed(latestTweets')
          PROVE  x \in Listed(latestTweets) /\ x # latestTweets[n]
        <3>1. PICK k \in 1..n - 1 : x = latestTweets'[k]
            BY <1>4, <2>1 DEF Listed
        <3>2. k \in 1..n /\ n \in 1..n /\ k # n
            BY <1>1, <1>2
        <3>3. x = latestTweets[k]
            BY <1>4, <3>1
        <3> QED BY <1>9, <3>2, <3>3 DEF Listed, n
    <2>2. ASSUME NEW x, x \in Listed(latestTweets), x # latestTweets[n]
          PROVE  x \in Listed(latestTweets')
        <3>1. PICK k \in 1..n : x = latestTweets[k]
            BY <2>2 DEF Listed, n
        <3>2. k # n
            BY <2>2, <3>1
        <3>3. k \in 1..n - 1
            BY <1>1, <3>2
        <3> QED BY <1>4, <3>1, <3>3 DEF Listed
    <2>3. Listed(latestTweets') = Listed(latestTweets) \ {latestTweets[n]}
        BY <2>1, <2>2
    <2> QED BY <1>3, <1>6, <2>3 DEF ListInv, MarkersAreListed
<1>11. NoneTwice'
    <2>1. \A k \in 1..n - 1 : k \in 1..n
        BY <1>1
    <2> QED BY <1>4, <1>9, <2>1 DEF NoneTwice
<1> QED BY <1>7, <1>8, <1>10, <1>11 DEF ListInv

(* Time passes for the timers, and changes none of their tweets.           *)
LEMMA TickListInv == ASSUME ListInv, Tick PROVE ListInv'
<1> DEFINE later == [k \in DOMAIN removals |-> [removals[k] EXCEPT !.left = Earlier(@)]]
<1>1. /\ removals \in Seq(Timer) /\ Len(removals) \in Nat
      /\ DOMAIN removals = 1..Len(removals)
    BY DEF ListInv, ListTypes
<1>2. ASSUME NEW k \in 1..Len(removals)
      PROVE  later[k] \in Timer /\ later[k].tweet = removals[k].tweet
    <2>1. removals[k] \in Timer
        BY <1>1
    <2>2. removals[k].left \in 0..Lifetime /\ removals[k].tweet \in Tweet
        BY <2>1 DEF Timer
    <2>3. Earlier(removals[k].left) \in 0..Lifetime
        BY <2>2, EarlierType, DelayAssumption
    <2>4. later[k] = [removals[k] EXCEPT !.left = Earlier(removals[k].left)]
        BY <1>1
    <2> QED BY <2>1, <2>2, <2>3, <2>4 DEF Timer
<1>3. later \in Seq(Timer) /\ Len(later) = Len(removals)
    <2>1. later \in [1..Len(removals) -> Timer]
        BY <1>1, <1>2
    <2> QED BY <1>1, <2>1
<1>4. removals' = later /\ UNCHANGED <<latestTweets, markers>>
    BY DEF Tick
<1> HIDE DEF later
<1>5. ListTypes' /\ MarkersAreListed' /\ NoneTwice'
    BY <1>3, <1>4 DEF ListInv, ListTypes, MarkersAreListed, NoneTwice
<1>6. ListMatchesTimers'
    BY <1>2, <1>3, <1>4 DEF ListInv, ListMatchesTimers
<1> QED BY <1>5, <1>6 DEF ListInv

LEMMA NextListInv == ListInv /\ [Next]_vars => ListInv'
<1> SUFFICES ASSUME ListInv, [Next]_vars PROVE ListInv'
    OBVIOUS
<1>1. ASSUME NEW t \in Tweet, OnMessage(t) PROVE ListInv'
    BY <1>1, MessageListInv
<1>2. CASE RemoveTweet
    BY <1>2, RemoveListInv
<1>3. CASE Tick
    BY <1>3, TickListInv
<1>4. CASE OnOpen \/ OnClose \/ Reconnect \/ Notify \/ UNCHANGED vars
    <2>1. UNCHANGED page
        BY <1>4 DEF OnOpen, OnClose, Reconnect, Notify, vars
    <2> QED BY <2>1 DEF ListInv, ListTypes, ListMatchesTimers, MarkersAreListed, NoneTwice, page
<1> QED BY <1>1, <1>2, <1>3, <1>4 DEF Next

-----------------------------------------------------------------------------
(* The alert.                                                              *)
LEMMA FirstType == ASSUME NEW list \in Seq(Tweet) PROVE First(list) \in Tweet \cup {None}
BY DEF First

LEMMA InitAlertInv == Init => AlertInv
BY DEF Init, AlertInv, AlertWillFollow, First

LEMMA NextAlertInv == AlertInv /\ ListInv /\ [Next]_vars => AlertInv'
<1> SUFFICES ASSUME AlertInv, ListInv, [Next]_vars PROVE AlertInv'
    OBVIOUS
<1>1. ASSUME lastTweet' = lastTweet, Changed PROVE AlertInv'
    <2>1. notify' = (notify \/ First(latestTweets') # First(latestTweets))
        BY <1>1 DEF Changed
    <2> QED BY <1>1, <2>1 DEF AlertInv, AlertWillFollow
<1>2. CASE RemoveTweet \/ \E t \in Tweet : OnMessage(t)
    BY <1>1, <1>2 DEF RemoveTweet, OnMessage
<1>3. CASE Notify
    <2>1. First(latestTweets) \in Tweet \cup {None}
        BY FirstType DEF ListInv, ListTypes
    <2> QED BY <1>3, <2>1 DEF Notify, AlertInv, AlertWillFollow, page
<1>4. CASE OnOpen \/ OnClose \/ Reconnect \/ Tick \/ UNCHANGED vars
    <2>1. UNCHANGED <<latestTweets, lastTweet, notify>>
        BY <1>4 DEF OnOpen, OnClose, Reconnect, Tick, vars, page
    <2> QED BY <2>1 DEF AlertInv, AlertWillFollow
<1> QED BY <1>2, <1>3, <1>4 DEF Next

-----------------------------------------------------------------------------
(* One websocket: Feed.onClose of any websocket, opened or not, leaves one *)
(* timer, so that no tweet is ever listed by two of them.                  *)
THEOREM OneWebsocket == Spec => []OneConnection
<1>1. Spec => []NetInv
    BY InitNetInv, NextNetInv, PTL DEF Spec
<1>2. NetInv => OneConnection
    BY DEF NetInv
<1> QED BY <1>1, <1>2, PTL

(* The page agrees with itself between any two callbacks of ViewModel and  *)
(* TweetMap: each timer pops its own tweet, the map shows the list, and an *)
(* alert that is behind will be told.                                      *)
THEOREM PageAgrees == Spec => []PageInv
<1>1. Spec => [](NetInv /\ ListInv /\ AlertInv)
    <2>1. Init => NetInv /\ ListInv /\ AlertInv
        BY InitNetInv, InitListInv, InitAlertInv
    <2>2. NetInv /\ ListInv /\ AlertInv /\ [Next]_vars => (NetInv /\ ListInv /\ AlertInv)'
        BY NextNetInv, NextListInv, NextAlertInv
    <2> QED BY <2>1, <2>2, PTL DEF Spec
<1>2. NetInv => connecting \in 0..1 /\ open \in 0..1 /\ Len(reconnects) <= 1
    <2> SUFFICES ASSUME NetInv PROVE connecting \in 0..1 /\ open \in 0..1 /\ Len(reconnects) <= 1
        OBVIOUS
    <2>1. Len(reconnects) \in Nat
        BY DEF NetInv
    <2> QED BY <2>1 DEF NetInv, OneConnection
<1>3. NetInv /\ ListInv /\ AlertInv => PageInv
    BY <1>2 DEF NetInv, ListInv, ListTypes, AlertInv, PageInv, TypeOK
<1> QED BY <1>1, <1>3, PTL
=============================================================================
