----------------------------- MODULE DatabaseProofs -----------------------------
(***************************************************************************)
(* Proofs about TweetStore and TweetStats, for any sessions, hashtags,     *)
(* wards and bounds.                                                       *)
(*                                                                         *)
(* Ids are given out once and each row has one (Keyed), so a call that     *)
(* committed is one row of the relation, tied to one hashtag (CallsInv).   *)
(* That racing sessions leave no more rows than there are sessions needs   *)
(* the sessions that looked in vain and are about to insert (RaceInv).     *)
(* What may still change in a bar of the chart is what the calls begun in  *)
(* its hour and not yet committed can add (HourStep).                      *)
(***************************************************************************)
EXTENDS TweetStats, FiniteSetTheorems, TLAPS

(* A table has as many rows as ids were given out, each to one row.        *)
Keyed(table) ==
    /\ IsFiniteSet(table)
    /\ \A r \in table : r.id \in 1..Cardinality(table)
    /\ \A r, q \in table : r.id = q.id => r = q

(* Each call that committed is one row of the relation.                    *)
CallsInv ==
    /\ IsFiniteSet(calls)
    /\ calls \subseteq [id : Nat, tag : Tag, tweet : TweetId, added : Nat]
    /\ \A k, l \in calls : k.id = l.id => k = l
    /\ \A k \in calls : \E r \in rel, h \in hashtags :
          /\ r.id = k.id /\ r.tweet = k.tweet /\ r.added = k.added
          /\ h.id = r.hashtag /\ h.tag = k.tag
    /\ \A r \in rel : \E k \in calls : k.id = r.id

(* What a call found is there still.                                       *)
FoundInv ==
    \A s \in Session : call[s] # None /\ call[s].htid # None =>
        \E h \in hashtags : h.id = call[s].htid /\ h.tag = call[s].tag

(* The sessions about to insert a hashtag that they did not find.          *)
RowsOf(t) == {h \in hashtags : h.tag = t}
Missed(t) == {s \in Session : call[s] # None /\ call[s].tag = t /\ call[s].htid = None}
RaceInv == \A t \in Tag : Cardinality(RowsOf(t)) + Cardinality(Missed(t)) <= Cardinality(Session)

IInv ==
    /\ TypeOK /\ Keyed(tweets) /\ Keyed(hashtags) /\ Keyed(rel)
    /\ NoOrphans /\ CallsInv /\ FoundInv /\ RaceInv

-----------------------------------------------------------------------------
(* A row added under a new id.                                             *)
LEMMA NewRow ==
    ASSUME NEW table, NEW row, Keyed(table), row.id = NewId(table)
    PROVE  /\ Keyed(table \cup {row}) /\ row \notin table
           /\ Cardinality(table) \in Nat /\ NewId(table) \in Nat
           /\ \A r \in table : r.id # NewId(table)
           /\ Cardinality(table \cup {row}) = Cardinality(table) + 1
<1>1. IsFiniteSet(table) /\ Cardinality(table) \in Nat
    BY FS_CardinalityType DEF Keyed
<1>2. \A r \in table : r.id \in 1..Cardinality(table) /\ r.id # NewId(table)
    BY <1>1 DEF Keyed, NewId
<1>3. row \notin table
    BY <1>2
<1>4. IsFiniteSet(table \cup {row}) /\ Cardinality(table \cup {row}) = Cardinality(table) + 1
    BY <1>1, <1>3, FS_AddElement
<1>5. \A r \in table \cup {row} : r.id \in 1..Cardinality(table \cup {row})
    <2> DEFINE c == Cardinality(table)  d == Cardinality(table \cup {row})
    <2>1. c \in Nat /\ d = c + 1 /\ row.id = c + 1 /\ \A r \in table : r.id \in 1..c
        BY <1>1, <1>2, <1>4 DEF NewId
    <2> HIDE DEF c, d
    <2> SUFFICES ASSUME NEW r \in table \cup {row} PROVE r.id \in 1..d
        BY DEF d
    <2>2. CASE r \in table
        <3>1. r.id \in 1..c
            BY <2>1, <2>2
        <3> QED BY <2>1, <3>1
    <2>3. CASE r = row
        BY <2>1, <2>3
    <2> QED BY <2>2, <2>3
<1>6. \A r, q \in table \cup {row} : r.id = q.id => r = q
    BY <1>2 DEF Keyed
<1>7. Keyed(table \cup {row})
    BY <1>4, <1>5, <1>6 DEF Keyed
<1>8. NewId(table) \in Nat
    BY <1>1 DEF NewId
<1> QED BY <1>1, <1>2, <1>3, <1>4, <1>7, <1>8

LEMMA InitIInv == Init => IInv
<1> SUFFICES ASSUME Init PROVE IInv
    OBVIOUS
<1> USE DEF Init
<1>1. IsFiniteSet({}) /\ Cardinality({}) = 0
    BY FS_EmptySet
<1>2. TypeOK
    BY DEF TypeOK
<1>3. Keyed(tweets) /\ Keyed(hashtags) /\ Keyed(rel)
    BY <1>1 DEF Keyed
<1>4. NoOrphans /\ CallsInv /\ FoundInv
    BY <1>1 DEF NoOrphans, CallsInv, FoundInv
<1>5. RaceInv
    <2>1. \A t : RowsOf(t) = {} /\ Missed(t) = {}
        BY DEF RowsOf, Missed
    <2>2. Cardinality(Session) \in Nat
        BY SessionAssumption, FS_CardinalityType
    <2> HIDE DEF Init
    <2>3. \A t \in Tag : Cardinality(RowsOf(t)) + Cardinality(Missed(t)) = 0
        BY <1>1, <2>1
    <2>4. 0 <= Cardinality(Session)
        BY <2>2
    <2> QED BY <2>3, <2>4 DEF RaceInv
<1> QED BY <1>2, <1>3, <1>4, <1>5 DEF IInv

-----------------------------------------------------------------------------
(* Time passes, or a call is undone.                                       *)
LEMMA TickStep == ASSUME IInv, Tick PROVE IInv'
<1> USE DEF IInv, Tick
<1>1. now \in Nat /\ now' = now + 1
    BY DEF TypeOK
<1>2. TypeOK'
    <2>1. 0..now \subseteq 0..now'
        BY <1>1
    <2>2. tweets' \subseteq [id : Nat, ward : WardId, added : 0..now']
        BY <2>1 DEF TypeOK
    <2>3. rel' \subseteq [id : Nat, tweet : Nat, hashtag : Nat, added : 0..now']
        BY <2>1 DEF TypeOK
    <2>4. \A s \in Session : call'[s] # None => call'[s].start <= now'
        <3> SUFFICES ASSUME NEW s \in Session, call[s] # None PROVE call[s].start <= now'
            OBVIOUS
        <3>1. call[s].start <= now /\ call[s].start \in Nat
            BY DEF TypeOK, Call
        <3> QED BY <1>1, <3>1
    <2>5. \A s \in Session : adding'[s] # None => adding'[s].start <= now'
        <3> SUFFICES ASSUME NEW s \in Session, adding[s] # None PROVE adding[s].start <= now'
            OBVIOUS
        <3>1. adding[s].start <= now /\ adding[s].start \in Nat
            BY DEF TypeOK, TweetCall
        <3> QED BY <1>1, <3>1
    <2> QED BY <1>1, <2>2, <2>3, <2>4, <2>5 DEF TypeOK
<1>3. UNCHANGED <<tweets, hashtags, rel, adding, call, calls>>
    OBVIOUS
<1>4. Keyed(tweets)' /\ Keyed(hashtags)' /\ Keyed(rel)'
    BY DEF Keyed
<1>5. NoOrphans' /\ CallsInv' /\ FoundInv'
    BY DEF NoOrphans, CallsInv, FoundInv
<1>6. RaceInv'
    BY DEF RaceInv, RowsOf, Missed
<1> QED BY <1>2, <1>4, <1>5, <1>6

LEMMA SameTables ==
    ASSUME IInv, UNCHANGED <<now, tweets, hashtags, rel, calls>>
    PROVE  Keyed(tweets)' /\ Keyed(hashtags)' /\ Keyed(rel)' /\ NoOrphans' /\ CallsInv'
BY DEF IInv, Keyed, NoOrphans, CallsInv

(* Fewer sessions that missed a hashtag, no more rows: no harm.            *)
LEMMA FewerMissed ==
    ASSUME IInv, NEW t \in Tag, RowsOf(t)' = RowsOf(t), Missed(t)' \subseteq Missed(t)
    PROVE  Cardinality(RowsOf(t)') + Cardinality(Missed(t)') <= Cardinality(Session)
<1>1. IsFiniteSet(Missed(t)) /\ IsFiniteSet(RowsOf(t))
    BY SessionAssumption, FS_Subset DEF IInv, Keyed, Missed, RowsOf
<1>2. Cardinality(Missed(t)') <= Cardinality(Missed(t)) /\ IsFiniteSet(Missed(t)')
    BY <1>1, FS_Subset
<1>3. /\ Cardinality(Missed(t)) \in Nat /\ Cardinality(Missed(t)') \in Nat
      /\ Cardinality(RowsOf(t)) \in Nat /\ Cardinality(Session) \in Nat
    BY <1>1, <1>2, SessionAssumption, FS_CardinalityType
<1>4. Cardinality(RowsOf(t)) + Cardinality(Missed(t)) <= Cardinality(Session)
    BY DEF IInv, RaceInv
<1> DEFINE a == Cardinality(Missed(t))  b == Cardinality(Missed(t)')
           c == Cardinality(RowsOf(t))  d == Cardinality(Session)
<1> HIDE DEF a, b, c, d
<1>5. c + b <= d
    BY <1>2, <1>3, <1>4 DEF a, b, c, d
<1> QED BY <1>1, <1>5 DEF b, c, d

LEMMA AbortStep == ASSUME IInv, NEW s \in Session, Abort(s) PROVE IInv'
<1>1. /\ adding' = [adding EXCEPT ![s] = None] /\ call' = [call EXCEPT ![s] = None]
      /\ UNCHANGED <<now, tweets, hashtags, rel, calls>>
    BY DEF Abort
<1>2. /\ adding \in [Session -> TweetCall \cup {None}] /\ adding'[s] = None
      /\ call \in [Session -> Call \cup {None}] /\ call'[s] = None
    BY <1>1 DEF IInv, TypeOK
<1>3. \A z \in Session : /\ adding'[z] # None => adding'[z] = adding[z]
                         /\ call'[z] # None => call'[z] = call[z]
    BY <1>1, <1>2
<1>4. TypeOK'
    <2>1. /\ adding' \in [Session -> TweetCall \cup {None}]
          /\ call' \in [Session -> Call \cup {None}]
        BY <1>1, <1>2
    <2> QED BY <1>1, <1>3, <2>1 DEF IInv, TypeOK
<1>5. FoundInv'
    BY <1>1, <1>3 DEF IInv, FoundInv
<1>6. \A t : Missed(t)' \subseteq Missed(t)
    BY <1>3 DEF Missed
<1>7. RaceInv'
    BY <1>1, <1>6, FewerMissed DEF RaceInv, RowsOf
<1> QED BY <1>1, <1>4, <1>5, <1>7, SameTables DEF IInv

-----------------------------------------------------------------------------
(* A call of insertTweet starts, and commits.                              *)
LEMMA StartTweetStep ==
    ASSUME IInv, NEW s \in Session, NEW places \in SUBSET Ward, StartTweet(s, places) PROVE IInv'
<1>1. PICK w \in WardId : adding' = [adding EXCEPT ![s] = [ward |-> w, start |-> now]]
    BY DEF StartTweet, WardId
<1>2. UNCHANGED <<now, tweets, hashtags, rel, call, calls>>
    BY DEF StartTweet
<1> DEFINE new == [ward |-> w, start |-> now]
<1>3. now \in Nat /\ new \in TweetCall /\ adding \in [Session -> TweetCall \cup {None}]
    BY DEF IInv, TypeOK, TweetCall
<1>4. adding'[s] = new /\ \A z \in Session : z # s => adding'[z] = adding[z]
    BY <1>1, <1>3
<1>5. TypeOK'
    <2>1. adding' \in [Session -> TweetCall \cup {None}]
        BY <1>1, <1>3
    <2>2. \A z \in Session : adding'[z] # None => adding'[z].start <= now
        BY <1>3, <1>4 DEF IInv, TypeOK
    <2> QED BY <1>2, <2>1, <2>2 DEF IInv, TypeOK
<1>6. FoundInv' /\ RaceInv'
    BY <1>2 DEF IInv, FoundInv, RaceInv, RowsOf, Missed
<1> QED BY <1>2, <1>5, <1>6, SameTables DEF IInv

LEMMA CommitTweetStep == ASSUME IInv, NEW s \in Session, CommitTweet(s) PROVE IInv'
<1> DEFINE c == adding[s]
           row == [id |-> NewId(tweets), ward |-> c.ward, added |-> c.start]
<1>1. /\ c # None /\ adding' = [adding EXCEPT ![s] = None] /\ tweets' = tweets \cup {row}
      /\ UNCHANGED <<now, hashtags, rel, call, calls>>
    BY DEF CommitTweet
<1>2. /\ c \in TweetCall /\ c.ward \in WardId /\ c.start \in Nat /\ c.start <= now
      /\ now \in Nat /\ adding \in [Session -> TweetCall \cup {None}]
    BY <1>1 DEF IInv, TypeOK, TweetCall
<1>3. Keyed(tweets') /\ NewId(tweets) \in Nat
    <2>1. row.id = NewId(tweets) /\ Keyed(tweets)
        BY DEF IInv
    <2> QED BY <1>1, <2>1, NewRow
<1>4. row \in [id : Nat, ward : WardId, added : 0..now]
    BY <1>2, <1>3
<1> HIDE DEF row
<1>5. TypeOK'
    <2>1. /\ adding' \in [Session -> TweetCall \cup {None}]
          /\ \A z \in Session : adding'[z] # None => adding'[z] = adding[z]
        BY <1>1, <1>2
    <2>2. \A z \in Session : adding'[z] # None => adding'[z].start <= now
        BY <2>1 DEF IInv, TypeOK
    <2>3. tweets' \subseteq [id : Nat, ward : WardId, added : 0..now]
        BY <1>1, <1>4 DEF IInv, TypeOK
    <2> QED BY <1>1, <2>1, <2>2, <2>3 DEF IInv, TypeOK
<1>6. Keyed(hashtags)' /\ Keyed(rel)' /\ CallsInv' /\ FoundInv' /\ RaceInv'
    BY <1>1 DEF IInv, Keyed, CallsInv, FoundInv, RaceInv, RowsOf, Missed
<1>7. NoOrphans'
    BY <1>1 DEF IInv, NoOrphans
<1> QED BY <1>3, <1>5, <1>6, <1>7 DEF IInv, Keyed

LEMMA LookStep ==
    ASSUME IInv, NEW s \in Session, NEW t \in Tag, NEW tid \in TweetId, Look(s, t, tid)
    PROVE  IInv'
<1>1. PICK htid \in IF RowsOf(t) = {} THEN {None} ELSE {r.id : r \in RowsOf(t)} :
          call' = [call EXCEPT ![s] = [tag |-> t, tweet |-> tid, htid |-> htid, start |-> now]]
    BY DEF Look, RowsOf
<1>2. call[s] = None /\ UNCHANGED <<now, tweets, hashtags, rel, adding, calls>>
    BY DEF Look, Idle
<1> DEFINE new == [tag |-> t, tweet |-> tid, htid |-> htid, start |-> now]
<1>3. now \in Nat /\ call \in [Session -> Call \cup {None}]
    BY DEF IInv, TypeOK
<1>4. \/ RowsOf(t) = {} /\ htid = None
      \/ \E h \in hashtags : h.id = htid /\ h.tag = t
    BY <1>1 DEF RowsOf
<1>5. htid \in Nat \cup {None}
    BY <1>4 DEF IInv, TypeOK
<1>6. new \in Call
    BY <1>3, <1>5 DEF Call
<1>7. call'[s] = new /\ \A z \in Session : z # s => call'[z] = call[z]
    BY <1>1, <1>3
<1>8. TypeOK'
    <2>1. call' \in [Session -> Call \cup {None}]
        BY <1>1, <1>3, <1>6
    <2>2. \A z \in Session : call'[z] # None => call'[z].start <= now
        BY <1>3, <1>7 DEF IInv, TypeOK
    <2> QED BY <1>2, <2>1, <2>2 DEF IInv, TypeOK
<1>9. FoundInv'
    BY <1>2, <1>4, <1>7 DEF IInv, FoundInv
<1>10. RaceInv'
    <2> SUFFICES ASSUME NEW u \in Tag
                 PROVE  Cardinality(RowsOf(u)') + Cardinality(Missed(u)') <= Cardinality(Session)
        BY DEF RaceInv
    <2>1. CASE u = t /\ RowsOf(t) = {}
        <3>1. RowsOf(u)' = {} /\ Missed(u)' \subseteq Session
            BY <1>2, <2>1 DEF RowsOf, Missed
        <3>2. Cardinality(Missed(u)') <= Cardinality(Session) /\ IsFiniteSet(Missed(u)')
            BY <3>1, SessionAssumption, FS_Subset
        <3>3. Cardinality({}) = 0 /\ Cardinality(Missed(u)') \in Nat
            BY <3>2, FS_EmptySet, FS_CardinalityType
        <3> QED BY <3>1, <3>2, <3>3
    <2>2. CASE ~(u = t /\ RowsOf(t) = {})
        <3>1. u # t \/ htid # None
            BY <1>4, <2>2, NoneAssumption DEF IInv, TypeOK
        <3>2. Missed(u)' \subseteq Missed(u)
            BY <1>7, <3>1 DEF Missed
        <3>3. RowsOf(u)' = RowsOf(u)
            BY <1>2 DEF RowsOf
        <3> QED BY <3>2, <3>3, FewerMissed
    <2> QED BY <2>1, <2>2
<1> QED BY <1>2, <1>8, <1>9, <1>10, SameTables DEF IInv

-----------------------------------------------------------------------------
(* A commit adds a row to the relation, and one for a tag not found.       *)
LEMMA CommitStep == ASSUME IInv, NEW s \in Session, Commit(s) PROVE IInv'
<1> DEFINE c == call[s]
           rows == IF c.htid = None THEN {NewTag(s)} ELSE {}
           htid == IF c.htid = None THEN NewTag(s).id ELSE c.htid
           row == [id |-> NewId(rel), tweet |-> c.tweet, hashtag |-> htid, added |-> c.start]
           k == [id |-> NewId(rel), tag |-> c.tag, tweet |-> c.tweet, added |-> c.start]
<1>1. Committing(s) /\ Insert(s, htid, rows)
    BY DEF Commit
<1>2. /\ c # None /\ c \in Call /\ c.tag \in Tag /\ c.tweet \in TweetId
      /\ c.start \in Nat /\ c.start <= now /\ now \in Nat
      /\ \E w \in tweets : w.id = c.tweet
    BY <1>1 DEF Committing, IInv, TypeOK, Call
<1>3. /\ hashtags' = hashtags \cup rows /\ rel' = rel \cup {row} /\ calls' = calls \cup {k}
      /\ call' = [call EXCEPT ![s] = None] /\ UNCHANGED <<now, tweets, adding>>
    BY <1>1 DEF Insert
<1>4. call'[s] = None /\ \A z \in Session : z # s => call'[z] = call[z]
    BY <1>3 DEF IInv, TypeOK
<1>5. /\ Keyed(hashtags') /\ hashtags' \subseteq [id : Nat, tag : Tag]
      /\ \E h \in hashtags' : h.id = htid /\ h.tag = c.tag
    <2>1. Keyed(hashtags) /\ hashtags \subseteq [id : Nat, tag : Tag]
        BY DEF IInv, TypeOK
    <2>2. CASE c.htid = None
        <3> DEFINE new == NewTag(s)
        <3>1. new = [id |-> NewId(hashtags), tag |-> c.tag] /\ hashtags' = hashtags \cup {new}
            BY <1>3, <2>2 DEF NewTag
        <3>2. new.id = NewId(hashtags) /\ new.tag = c.tag /\ htid = new.id
            BY <2>2, <3>1
        <3> HIDE DEF new, htid
        <3>3. Keyed(hashtags') /\ NewId(hashtags) \in Nat
            BY <2>1, <3>1, <3>2, NewRow
        <3> QED BY <1>2, <2>1, <3>1, <3>2, <3>3
    <2>3. CASE c.htid # None
        <3>1. \E h \in hashtags : h.id = c.htid /\ h.tag = c.tag
            BY <1>2, <2>3 DEF IInv, FoundInv
        <3>2. hashtags' = hashtags /\ htid = c.htid
            BY <1>3, <2>3
        <3> QED BY <2>1, <3>1, <3>2
    <2> QED BY <2>2, <2>3
<1>6. \A h \in hashtags' : h \in hashtags \/ h.id = htid
    BY <1>3
<1>7. Keyed(rel') /\ NewId(rel) \in Nat /\ \A r \in rel : r.id # NewId(rel)
    <2>1. row.id = NewId(rel) /\ Keyed(rel)
        BY DEF IInv
    <2> QED BY <1>3, <2>1, NewRow
<1>8. htid \in Nat
    BY <1>5
<1>9. row \in rel' /\ row.id = NewId(rel) /\ row.tweet = c.tweet /\ row.hashtag = htid
      /\ row.added = c.start
    BY <1>3
<1>10. k \in calls' /\ k.id = NewId(rel) /\ k.tag = c.tag /\ k.tweet = c.tweet /\ k.added = c.start
    BY <1>3
<1>11. k \in [id : Nat, tag : Tag, tweet : TweetId, added : Nat]
    BY <1>2, <1>7
<1>12. rel' \subseteq [id : Nat, tweet : Nat, hashtag : Nat, added : 0..now]
    <2>1. c.tweet \in Nat /\ c.start \in 0..now
        BY <1>2, BoundsAssumption DEF TweetId
    <2>2. row \in [id : Nat, tweet : Nat, hashtag : Nat, added : 0..now]
        BY <1>7, <1>8, <2>1
    <2> QED BY <1>3, <2>2 DEF IInv, TypeOK
<1> HIDE DEF row, k, htid
<1>13. TypeOK'
    <2>1. call' \in [Session -> Call \cup {None}]
        BY <1>3 DEF IInv, TypeOK
    <2>2. \A z \in Session : call'[z] # None => call'[z].start <= now
        BY <1>4 DEF IInv, TypeOK
    <2> QED BY <1>3, <1>5, <1>12, <2>1, <2>2 DEF IInv, TypeOK
<1>14. NoOrphans'
    <2>1. \A h \in hashtags' : \E r \in rel' : r.hashtag = h.id
        BY <1>3, <1>6, <1>9 DEF IInv, NoOrphans
    <2>2. \A r \in rel' : \E h \in hashtags' : h.id = r.hashtag
        BY <1>3, <1>5, <1>9 DEF IInv, NoOrphans
    <2>3. \A r \in rel' : \E w \in tweets' : w.id = r.tweet
        BY <1>2, <1>3, <1>9 DEF IInv, NoOrphans
    <2> QED BY <2>1, <2>2, <2>3 DEF NoOrphans
<1>15. CallsInv'
    <2>1. CallsInv
        BY DEF IInv
    <2>2. IsFiniteSet(calls')
        BY <1>3, <2>1, FS_AddElement DEF CallsInv
    <2>3. \A l \in calls : l.id # NewId(rel)
        BY <1>7, <2>1 DEF CallsInv
    <2>4. \A l, m \in calls' : l.id = m.id => l = m
        BY <1>3, <1>10, <2>1, <2>3 DEF CallsInv
    <2>5. ASSUME NEW l \in calls'
          PROVE  \E r \in rel', h \in hashtags' :
                    /\ r.id = l.id /\ r.tweet = l.tweet /\ r.added = l.added
                    /\ h.id = r.hashtag /\ h.tag = l.tag
        <3>1. CASE l \in calls
            BY <1>3, <2>1, <3>1 DEF CallsInv
        <3>2. CASE l = k
            BY <1>5, <1>9, <1>10, <3>2
        <3> QED BY <1>3, <3>1, <3>2
    <2>6. \A r \in rel' : \E l \in calls' : l.id = r.id
        BY <1>3, <1>9, <1>10, <2>1 DEF CallsInv
    <2>7. calls' \subseteq [id : Nat, tag : Tag, tweet : TweetId, added : Nat]
        BY <1>3, <1>11, <2>1 DEF CallsInv
    <2> QED BY <2>2, <2>4, <2>5, <2>6, <2>7 DEF CallsInv
<1>16. FoundInv'
    BY <1>3, <1>4 DEF IInv, FoundInv
<1>17. RaceInv'
    <2> SUFFICES ASSUME NEW u \in Tag
                 PROVE  Cardinality(RowsOf(u)') + Cardinality(Missed(u)') <= Cardinality(Session)
        BY DEF RaceInv
    <2>1. Missed(u)' = Missed(u) \ {s}
        BY <1>4 DEF Missed
    <2>2. CASE u = c.tag /\ c.htid = None
        <3>1. /\ NewTag(s).id = NewId(hashtags) /\ NewTag(s).tag = u
              /\ hashtags' = hashtags \cup {NewTag(s)}
            BY <1>3, <2>2 DEF NewTag
        <3>2. NewTag(s) \notin hashtags
            BY <3>1, NewRow DEF IInv
        <3>3. RowsOf(u)' = RowsOf(u) \cup {NewTag(s)} /\ NewTag(s) \notin RowsOf(u)
            BY <3>1, <3>2 DEF RowsOf
        <3>4. s \in Missed(u)
            BY <1>2, <2>2 DEF Missed
        <3>5. IsFiniteSet(Missed(u)) /\ IsFiniteSet(RowsOf(u))
            BY SessionAssumption, FS_Subset DEF IInv, Keyed, Missed, RowsOf
        <3>6. /\ Cardinality(RowsOf(u)') = Cardinality(RowsOf(u)) + 1
              /\ Cardinality(Missed(u)') = Cardinality(Missed(u)) - 1
            BY <2>1, <3>3, <3>4, <3>5, FS_AddElement, FS_RemoveElement
        <3>7. /\ Cardinality(RowsOf(u)) \in Nat /\ Cardinality(Missed(u)) \in Nat
              /\ Cardinality(RowsOf(u)) + Cardinality(Missed(u)) <= Cardinality(Session)
            BY <3>5, FS_CardinalityType DEF IInv, RaceInv
        <3> DEFINE a == Cardinality(RowsOf(u))  b == Cardinality(Missed(u))
        <3>8. (a + 1) + (b - 1) = a + b
            <4> HIDE DEF a, b
            <4> SUFFICES a \in Nat /\ b \in Nat
                OBVIOUS
            <4> QED BY <3>7 DEF a, b
        <3> QED BY <3>6, <3>7, <3>8
    <2>3. CASE ~(u = c.tag /\ c.htid = None)
        <3>1. RowsOf(u)' = RowsOf(u)
            BY <1>3, <2>3 DEF RowsOf, NewTag
        <3>2. Missed(u)' \subseteq Missed(u)
            BY <2>1
        <3> QED BY <3>1, <3>2, FewerMissed
    <2> QED BY <2>2, <2>3
<1>18. Keyed(tweets)'
    BY <1>3 DEF IInv, Keyed
<1>19. Keyed(hashtags)' /\ Keyed(rel)'
    BY <1>5, <1>7 DEF Keyed
<1> QED BY <1>13, <1>14, <1>15, <1>16, <1>17, <1>18, <1>19 DEF IInv

LEMMA Step == IInv /\ [Next]_vars => IInv'
<1> SUFFICES ASSUME IInv, [Next]_vars PROVE IInv'
    OBVIOUS
<1>1. CASE UNCHANGED vars
    <2>1. UNCHANGED <<now, tweets, hashtags, rel, adding, call, calls>>
        BY <1>1 DEF vars
    <2>2. TypeOK' /\ FoundInv' /\ RaceInv'
        BY <2>1 DEF IInv, TypeOK, FoundInv, RaceInv, RowsOf, Missed
    <2> QED BY <2>1, <2>2, SameTables DEF IInv
<1> QED BY <1>1, TickStep, StartTweetStep, CommitTweetStep, LookStep, CommitStep, AbortStep
        DEF Next, Tweeting

THEOREM Invariance == Spec => []IInv
BY InitIInv, Step, PTL DEF Spec

(* However calls of insertHashtag race, each is done as a whole or not at  *)
(* all, and leaves no more rows of a hashtag than there are sessions.      *)
THEOREM StoreSound == Spec => []StoreInv
<1>1. IInv => StoreInv
    <2> SUFFICES ASSUME IInv, NEW t \in Tag
                 PROVE  Cardinality({h \in hashtags : h.tag = t}) <= Cardinality(Session)
        BY DEF IInv, StoreInv, RowPerSession
    <2>1. IsFiniteSet(Missed(t)) /\ IsFiniteSet(RowsOf(t))
        BY SessionAssumption, FS_Subset DEF IInv, Keyed, Missed, RowsOf
    <2>2. /\ Cardinality(Missed(t)) \in Nat /\ Cardinality(RowsOf(t)) \in Nat
          /\ Cardinality(Session) \in Nat
        BY <2>1, SessionAssumption, FS_CardinalityType
    <2>3. Cardinality(RowsOf(t)) + Cardinality(Missed(t)) <= Cardinality(Session)
        BY DEF IInv, RaceInv
    <2>4. Cardinality(RowsOf(t)) <= Cardinality(Session)
        BY <2>2, <2>3
    <2> QED BY <2>4 DEF RowsOf
<1> QED BY Invariance, <1>1, PTL

-----------------------------------------------------------------------------
(* What the queries find.  A row of the relation is one call's.            *)
LEMMA RowOfCall ==
    ASSUME IInv, NEW r \in rel, NEW h \in hashtags, h.id = r.hashtag
    PROVE  \E k \in calls : k.id = r.id /\ k.tweet = r.tweet /\ k.added = r.added /\ k.tag = h.tag
<1>1. PICK k \in calls : k.id = r.id
    BY DEF IInv, CallsInv
<1>2. PICK q \in rel, g \in hashtags :
          /\ q.id = k.id /\ q.tweet = k.tweet /\ q.added = k.added
          /\ g.id = q.hashtag /\ g.tag = k.tag
    BY DEF IInv, CallsInv
<1>3. q = r
    BY <1>1, <1>2 DEF IInv, Keyed
<1>4. g = h
    BY <1>2, <1>3 DEF IInv, Keyed
<1> QED BY <1>1, <1>2, <1>3, <1>4

LEMMA CallOfRow ==
    ASSUME IInv, NEW k \in calls
    PROVE  \E r \in rel, h \in hashtags :
              /\ r.id = k.id /\ r.tweet = k.tweet /\ r.added = k.added
              /\ h.id = r.hashtag /\ h.tag = k.tag
BY DEF IInv, CallsInv

(* A call of the past day is one pair of rows of the join.                 *)
LEMMA TrendExact ==
    ASSUME IInv, NEW low
    PROVE  Trend(low) = Cardinality({k \in calls : Recent(k) /\ Lower[k.tag] = low})
<1> DEFINE P == {p \in rel \X hashtags :
                    Recent(p[1]) /\ p[2].id = p[1].hashtag /\ Lower[p[2].tag] = low}
           K == {k \in calls : Recent(k) /\ Lower[k.tag] = low}
           Of(k, p) == p[1].id = k.id
           f == [k \in K |-> CHOOSE p \in P : Of(k, p)]
<1>1. \A k \in K : \E p \in P : Of(k, p)
    <2> SUFFICES ASSUME NEW k \in K PROVE \E p \in P : Of(k, p)
        OBVIOUS
    <2>1. PICK r \in rel, h \in hashtags :
              /\ r.id = k.id /\ r.tweet = k.tweet /\ r.added = k.added
              /\ h.id = r.hashtag /\ h.tag = k.tag
        BY CallOfRow
    <2>2. <<r, h>> \in P /\ Of(k, <<r, h>>)
        BY <2>1 DEF Recent
    <2> QED BY <2>2
<1>2. \A k \in K : f[k] \in P /\ Of(k, f[k])
    BY <1>1
<1>3. \A k, l \in K : f[k] = f[l] => k = l
    <2> SUFFICES ASSUME NEW k \in K, NEW l \in K, f[k] = f[l] PROVE k = l
        OBVIOUS
    <2>1. k.id = l.id
        BY <1>2
    <2> QED BY <2>1 DEF IInv, CallsInv
<1>4. \A p \in P : \E k \in K : f[k] = p
    <2> SUFFICES ASSUME NEW p \in P PROVE \E k \in K : f[k] = p
        OBVIOUS
    <2>1. PICK k \in calls : k.id = p[1].id /\ k.added = p[1].added /\ k.tag = p[2].tag
        BY RowOfCall
    <2>2. k \in K
        BY <2>1 DEF Recent
    <2> DEFINE q == f[k]
    <2>3. q \in P /\ q[1].id = p[1].id
        BY <1>2, <2>1, <2>2
    <2>4. q \in rel \X hashtags /\ q[2].id = q[1].hashtag
        BY <2>3
    <2> HIDE DEF q
    <2>5. q[1] = p[1]
        BY <2>3, <2>4 DEF IInv, Keyed
    <2>6. q[2] = p[2]
        BY <2>4, <2>5 DEF IInv, Keyed
    <2>7. q = p
        BY <2>4, <2>5, <2>6
    <2> QED BY <2>2, <2>7 DEF q
<1> HIDE DEF P, K, f, Of
<1>5. f \in Bijection(K, P)
    <2>1. f \in [K -> P]
        BY <1>2 DEF f
    <2> QED BY <1>3, <1>4, <2>1 DEF Bijection, Injection, Surjection, IsInjective
<1>6. IsFiniteSet(K)
    BY FS_Subset DEF IInv, CallsInv, K
<1>7. Cardinality(P) = Cardinality(K)
    BY <1>5, <1>6, FS_Bijection DEF ExistsBijection
<1> QED BY <1>7 DEF Trend, P, K

LEMMA GeomExact ==
    ASSUME IInv, NEW t
    PROVE  HashtagGeomPastDay(t) = {k.tweet : k \in {k \in calls : Recent(k) /\ k.tag = t}}
<1> DEFINE G == HashtagGeomPastDay(t)
           C == {k.tweet : k \in {k \in calls : Recent(k) /\ k.tag = t}}
<1>1. ASSUME NEW x \in G PROVE x \in C
    <2>1. PICK w \in tweets, r \in rel, h \in hashtags :
              x = w.id /\ r.tweet = w.id /\ h.id = r.hashtag /\ h.tag = t /\ Recent(r)
        BY DEF HashtagGeomPastDay
    <2>2. PICK k \in calls : k.tweet = r.tweet /\ k.added = r.added /\ k.tag = h.tag
        BY <2>1, RowOfCall
    <2> QED BY <2>1, <2>2 DEF Recent
<1>2. ASSUME NEW x \in C PROVE x \in G
    <2>1. PICK k \in calls : x = k.tweet /\ Recent(k) /\ k.tag = t
        OBVIOUS
    <2>2. PICK r \in rel, h \in hashtags :
              r.tweet = k.tweet /\ r.added = k.added /\ h.id = r.hashtag /\ h.tag = k.tag
        BY CallOfRow
    <2>3. PICK w \in tweets : w.id = r.tweet
        BY DEF IInv, NoOrphans
    <2> QED BY <2>1, <2>2, <2>3 DEF HashtagGeomPastDay, Recent
<1> QED BY <1>1, <1>2

(* Whatever rows racing sessions made, the trends count each call of the   *)
(* past day once and the map of a hashtag shows its tweets.                *)
THEOREM TagQueries == Spec => []TagQueriesExact
<1>1. IInv => TagQueriesExact
    BY TrendExact, GeomExact DEF TagQueriesExact
<1> QED BY Invariance, <1>1, PTL

(* The lists by ward show each hashtag of each tweet of the past day under *)
(* the tweet's ward, and nothing else.                                     *)
THEOREM WardLists == Spec => []WardListsComplete
<1>1. IInv => WardListsComplete
    <2> SUFFICES ASSUME IInv, NEW ward
                 PROVE  PastDaysHashtagsByWard(ward) =
                          {<<k.tweet, k.tag>> : k \in {k \in calls : \E w \in tweets :
                              w.id = k.tweet /\ w.ward = ward /\ Recent(w)}}
        BY DEF WardListsComplete
    <2> DEFINE L == PastDaysHashtagsByWard(ward)
               C == {<<k.tweet, k.tag>> : k \in {k \in calls : \E w \in tweets :
                        w.id = k.tweet /\ w.ward = ward /\ Recent(w)}}
    <2>1. ASSUME NEW x \in L PROVE x \in C
        <3>1. PICK w \in tweets, h \in hashtags, r \in rel :
                  /\ x = <<w.id, h.tag>> /\ Recent(w) /\ w.ward = ward
                  /\ r.tweet = w.id /\ r.hashtag = h.id
            BY DEF PastDaysHashtagsByWard
        <3>2. PICK k \in calls : k.tweet = r.tweet /\ k.tag = h.tag
            BY <3>1, RowOfCall
        <3> QED BY <3>1, <3>2
    <2>2. ASSUME NEW x \in C PROVE x \in L
        <3>1. PICK k \in calls, w \in tweets :
                  x = <<k.tweet, k.tag>> /\ w.id = k.tweet /\ w.ward = ward /\ Recent(w)
            OBVIOUS
        <3>2. PICK r \in rel, h \in hashtags :
                  r.tweet = k.tweet /\ h.id = r.hashtag /\ h.tag = k.tag
            BY CallOfRow
        <3>3. <<w, h>> \in tweets \X hashtags /\ x = <<w.id, h.tag>>
            BY <3>1, <3>2
        <3> QED BY <3>1, <3>2, <3>3 DEF PastDaysHashtagsByWard
    <2> QED BY <2>1, <2>2
<1> QED BY Invariance, <1>1, PTL

-----------------------------------------------------------------------------
(***************************************************************************)
(* TweetStats.  Quotients and remainders first.                            *)
(***************************************************************************)
LEMMA Monotonic ==
    ASSUME NEW a \in Int, NEW b \in Int, NEW t \in Nat, a <= b PROVE t * a <= t * b
OBVIOUS

LEMMA Division ==
    ASSUME NEW a \in Int, NEW t \in Nat, t > 0
    PROVE  /\ a \div t \in Int /\ t * (a \div t) <= a /\ a < t * (a \div t) + t
           /\ a % t \in 0..t-1 /\ a = (t * (a \div t)) + (a % t)
OBVIOUS

LEMMA Quotient ==
    ASSUME NEW a \in Int, NEW q \in Int, NEW t \in Nat, t > 0, t * q <= a
    PROVE  q <= a \div t
<1> DEFINE p == a \div t
<1>1. p \in Int /\ a < (t * p) + t
    BY Division
<1> HIDE DEF p
<1> SUFFICES ASSUME p + 1 <= q PROVE FALSE
    BY <1>1 DEF p
<1>2. t * (p + 1) <= t * q
    BY <1>1, Monotonic
<1>3. t * (p + 1) = (t * p) + t
    BY <1>1
<1> QED BY <1>1, <1>2, <1>3

LEMMA Shifted ==
    ASSUME NEW a \in Int, NEW h \in Int, NEW t \in Nat, t > 0
    PROVE  (a - (t * h)) \div t = (a \div t) - h
<1> DEFINE p == a \div t  b == a - (t * h)  q == b \div t
<1>1. p \in Int /\ t * p <= a /\ a < (t * p) + t
    BY Division
<1>2. b \in Int
    OBVIOUS
<1>3. q \in Int /\ t * q <= b /\ b < (t * q) + t
    BY Division, <1>2
<1>4. t * (p - h) = (t * p) - (t * h) /\ t * (q + h) = (t * q) + (t * h)
    BY <1>1, <1>3
<1>5. t * (p - h) <= b /\ t * (q + h) <= a
    BY <1>1, <1>3, <1>4
<1>6. p - h <= q /\ q + h <= p
    BY <1>1, <1>2, <1>3, <1>5, Quotient
<1> HIDE DEF p, q
<1>7. q = p - h
    BY <1>1, <1>3, <1>6
<1> QED BY <1>7 DEF p, q

LEMMA SameRemainder ==
    ASSUME NEW a \in Int, NEW b \in Int, NEW t \in Nat, t > 0, a % t = b % t, a <= b, b < a + t
    PROVE  a = b
<1> DEFINE q == a \div t  p == b \div t  m == a % t
<1>1. q \in Int /\ p \in Int /\ m \in Int /\ a = (t * q) + m /\ b = (t * p) + m
    BY Division
<1> HIDE DEF q, p, m
<1>2. p <= q
    <2> SUFFICES ASSUME p >= q + 1 PROVE FALSE
        BY <1>1
    <2>1. t * (q + 1) <= t * p
        BY <1>1, Monotonic
    <2>2. t * (q + 1) = (t * q) + t
        BY <1>1
    <2> QED BY <1>1, <2>1, <2>2
<1>3. t * p <= t * q
    BY <1>1, <1>2, Monotonic
<1> QED BY <1>1, <1>3

-----------------------------------------------------------------------------
(* Hours.                                                                  *)
LEMMA Times ==
    /\ TicksPerHour \in Nat /\ TicksPerHour > 0 /\ HoursPerDay \in Nat /\ HoursPerDay > 0
    /\ Day \in Nat /\ Day > 0
BY TimeAssumption DEF Day

LEMMA HourStarts ==
    ASSUME NEW a \in Int, NEW h \in Int
    PROVE  /\ Hour(a) \in Int /\ HourStart(h) \in Int
           /\ HourStart(Hour(a)) <= a /\ a < HourStart(Hour(a)) + TicksPerHour
           /\ HourStart(h) <= a <=> h <= Hour(a)
<1> DEFINE t == TicksPerHour  p == a \div t
<1>1. t \in Nat /\ t > 0
    BY Times
<1> HIDE DEF t
<1>2. p \in Int /\ t * p <= a /\ a < (t * p) + t
    BY <1>1, Division
<1>3. t * h <= a => h <= p
    BY <1>1, Quotient
<1>4. h <= p => t * h <= t * p
    BY <1>1, <1>2, Monotonic
<1> HIDE DEF p
<1>5. t * h <= a <=> h <= p
    BY <1>1, <1>2, <1>3, <1>4
<1>6. /\ p \in Int /\ h * t \in Int /\ p * t <= a /\ a < (p * t) + t
      /\ h * t <= a <=> h <= p
    BY <1>1, <1>2, <1>5
<1> QED BY <1>6 DEF Hour, HourStart, p, t

LEMMA DayAgo == ASSUME NEW a \in Int PROVE Hour(a - Day) = Hour(a) - HoursPerDay
BY Times, Shifted DEF Hour, Day

LEMMA Earlier ==
    ASSUME NEW a \in Int, NEW b \in Int, a <= b
    PROVE  Hour(a) <= Hour(b) /\ HourStart(Hour(a)) <= HourStart(Hour(b))
<1>1. Hour(a) \in Int /\ Hour(b) \in Int /\ HourStart(Hour(a)) <= a /\ HourStart(Hour(a)) \in Int
    BY HourStarts
<1>2. Hour(a) <= Hour(b)
    BY <1>1, HourStarts
<1>3. TicksPerHour * Hour(a) <= TicksPerHour * Hour(b)
    BY <1>1, <1>2, Times, Monotonic
<1>4. HourStart(Hour(a)) <= HourStart(Hour(b))
    BY <1>1, <1>3, Times DEF HourStart
<1> QED BY <1>2, <1>4

(* The hours of the period of a day: as many as the day has.               *)
LEMMA DayHours ==
    ASSUME now \in Nat, NEW w \in FullHours(Day), w.added \in Int
    PROVE  /\ Hour(w.added) \in Int /\ Hour(now) \in Int
           /\ Hour(now) - HoursPerDay <= Hour(w.added) /\ Hour(w.added) < Hour(now)
<1>1. now - Day \in Int /\ now \in Int
    BY Times
<1>2. HourStart(Hour(now - Day)) < w.added /\ w.added < HourStart(Hour(now))
    BY DEF FullHours, Between
<1>3. Hour(now) \in Int /\ Hour(now - Day) \in Int /\ Hour(w.added) \in Int
      /\ HourStart(Hour(now - Day)) \in Int /\ HourStart(Hour(now)) \in Int
    BY <1>1, HourStarts
<1>4. Hour(now - Day) <= Hour(w.added)
    BY <1>2, <1>3, HourStarts
<1>5. ~(Hour(now) <= Hour(w.added))
    <2>1. ~(HourStart(Hour(now)) <= w.added)
        BY <1>2, <1>3
    <2> QED BY <1>3, <2>1, HourStarts
<1> QED BY <1>1, <1>3, <1>4, <1>5, DayAgo

LEMMA Added == ASSUME IInv PROVE now \in Nat /\ \A w \in tweets : w.added \in Nat /\ w.added <= now
BY DEF IInv, TypeOK

LEMMA StatsInvariance == StatsSpec => []IInv
<1>1. [StatsNext]_vars => [Next]_vars
    BY DEF StatsNext, Next
<1> QED BY InitIInv, Step, <1>1, PTL DEF StatsSpec

-----------------------------------------------------------------------------
(* The bars.  The average that belongs to an hour d of the day:            *)
RowsAt(d) == {w \in PastWeek : Hour(w.added) % HoursPerDay = d}
AverageAt(d) == Rounded(Cardinality(RowsAt(d)), Cardinality({Hour(w.added) : w \in RowsAt(d)}))

(* What counts in the past day counts in the past week.                    *)
LEMMA DayInWeek == ASSUME IInv PROVE FullHours(Day) \subseteq PastWeek
<1>1. now \in Nat /\ \A w \in tweets : w.added \in Nat
    BY Added
<1> DEFINE a == now - DaysPerWeek * Day  b == now - Day
<1>2. a \in Int /\ b \in Int /\ a <= b
    <2> DEFINE d == Day  k == DaysPerWeek
    <2>1. d \in Nat /\ k \in Nat /\ 1 <= k
        BY Times, WeekAssumption
    <2> HIDE DEF d, k
    <2>2. d * 1 <= d * k
        BY <2>1, Monotonic
    <2>3. d * 1 = d /\ d * k = k * d /\ k * d \in Nat
        BY <2>1
    <2>4. now - k * d \in Int /\ now - d \in Int /\ now - k * d <= now - d
        BY <1>1, <2>1, <2>2, <2>3
    <2> QED BY <2>4 DEF d, k
<1>3. HourStart(Hour(a)) <= HourStart(Hour(b)) /\ HourStart(Hour(a)) \in Int
      /\ HourStart(Hour(b)) \in Int
    BY <1>2, Earlier, HourStarts
<1> HIDE DEF a, b
<1>4. \A w \in tweets : HourStart(Hour(b)) < w.added => HourStart(Hour(a)) < w.added
    BY <1>1, <1>3
<1> QED BY <1>4 DEF FullHours, PastWeek, Between, a, b

(* An average over at least one hour is at least one tweet.                *)
LEMMA AverageType ==
    ASSUME IInv, NEW d, RowsAt(d) # {} PROVE AverageAt(d) \in Nat /\ AverageAt(d) >= 1
<1> DEFINE R == RowsAt(d)  H == {Hour(w.added) : w \in R}
           f == [w \in R |-> Hour(w.added)]
<1>1. IsFiniteSet(R)
    BY FS_Subset DEF IInv, Keyed, RowsAt, PastWeek, FullHours, Between
<1>2. f \in Surjection(R, H)
    BY DEF Surjection
<1>3. IsFiniteSet(H) /\ Cardinality(H) <= Cardinality(R)
    BY <1>1, <1>2, FS_Surjection
<1>4. H # {}
    OBVIOUS
<1> DEFINE n == Cardinality(H)  m == Cardinality(R)
<1>5. n \in Nat /\ m \in Nat /\ n # 0 /\ n <= m
    BY <1>1, <1>3, <1>4, FS_CardinalityType, FS_EmptySet
<1> HIDE DEF n, m
<1>6. 2 * m + n \in Int /\ 2 * n \in Nat /\ 2 * n > 0 /\ (2 * n) * 1 <= 2 * m + n
    BY <1>5
<1>7. 1 <= (2 * m + n) \div (2 * n) /\ (2 * m + n) \div (2 * n) \in Int
    BY <1>6, Quotient, Division
<1> QED BY <1>7 DEF AverageAt, Rounded, n, m

(* What a bar shows.                                                       *)
LEMMA Bar ==
    ASSUME IInv, NEW r \in TweetsPast24Hrs
    PROVE  \E w \in FullHours(Day) :
              /\ r = [hour |-> Hour(w.added), count |-> CountIn(FullHours(Day), Hour(w.added)),
                      average |-> AverageAt(Hour(w.added) % HoursPerDay)]
              /\ RowsAt(Hour(w.added) % HoursPerDay) # {}
<1> DEFINE Average(h) == {a \in AvgTweetsPastWeek : a.hour = h % HoursPerDay}
           Averages(h) == IF Average(h) = {} THEN {None} ELSE {a.round : a \in Average(h)}
<1>0. PICK h \in {Hour(w.added) : w \in FullHours(Day)} : \E v \in Averages(h) :
          r = [hour |-> h, count |-> CountIn(FullHours(Day), h), average |-> v]
    BY DEF TweetsPast24Hrs
<1>1. PICK v \in Averages(h) :
          r = [hour |-> h, count |-> CountIn(FullHours(Day), h), average |-> v]
    BY <1>0
<1>2. PICK w \in FullHours(Day) : h = Hour(w.added)
    BY <1>0
<1> DEFINE d == h % HoursPerDay
<1>3. w \in RowsAt(d)
    BY <1>2, DayInWeek DEF RowsAt
<1>4. AvgTweetsPastWeek = {[hour |-> e, round |-> AverageAt(e)] :
                              e \in {Hour(x.added) % HoursPerDay : x \in PastWeek}}
    BY DEF AvgTweetsPastWeek, AverageAt, RowsAt
<1>5. d \in {Hour(x.added) % HoursPerDay : x \in PastWeek}
    BY <1>2, <1>3 DEF RowsAt
<1> HIDE DEF d
<1>6. {a \in AvgTweetsPastWeek : a.hour = d} = {[hour |-> d, round |-> AverageAt(d)]}
    BY <1>4, <1>5
<1>7. v = AverageAt(d)
    <2> DEFINE rec == [hour |-> d, round |-> AverageAt(d)]
    <2>1. Average(h) = {rec} /\ rec.round = AverageAt(d)
        BY <1>6 DEF d
    <2> HIDE DEF rec, Average
    <2>2. Averages(h) = {rec.round}
        BY <2>1
    <2> QED BY <1>1, <2>1, <2>2
<1> QED BY <1>1, <1>2, <1>3, <1>7 DEF d

(* There is one bar for an hour, with the average beside it, and no two    *)
(* bars are of the same hour of the day.                                   *)
THEOREM OneBar == StatsSpec => []OneBarPerHour
<1>1. ASSUME IInv PROVE OneBarPerHour
    <2> USE <1>1
    <2>1. ASSUME NEW r \in TweetsPast24Hrs PROVE r.average # None /\ r.average >= 1
        <3>1. PICK w \in FullHours(Day) :
                  /\ r.average = AverageAt(Hour(w.added) % HoursPerDay)
                  /\ RowsAt(Hour(w.added) % HoursPerDay) # {}
            BY Bar
        <3>2. r.average \in Nat /\ r.average >= 1
            BY <3>1, AverageType
        <3> QED BY <3>2, NoneAssumption
    <2>2. ASSUME NEW r \in TweetsPast24Hrs, NEW q \in TweetsPast24Hrs,
                 r.hour % HoursPerDay = q.hour % HoursPerDay
          PROVE  r = q
        <3>1. PICK w \in FullHours(Day) :
                  r = [hour |-> Hour(w.added), count |-> CountIn(FullHours(Day), Hour(w.added)),
                       average |-> AverageAt(Hour(w.added) % HoursPerDay)]
            BY Bar
        <3>2. PICK x \in FullHours(Day) :
                  q = [hour |-> Hour(x.added), count |-> CountIn(FullHours(Day), Hour(x.added)),
                       average |-> AverageAt(Hour(x.added) % HoursPerDay)]
            BY Bar
        <3> DEFINE a == Hour(w.added)  b == Hour(x.added)  n == Hour(now)  k == HoursPerDay
        <3>3. now \in Nat /\ w.added \in Int /\ x.added \in Int
            BY Added DEF FullHours, Between
        <3>4. /\ a \in Int /\ b \in Int /\ n \in Int /\ k \in Nat /\ k > 0
              /\ n - k <= a /\ a < n /\ n - k <= b /\ b < n
            BY <3>3, DayHours, Times
        <3>5. a % k = b % k
            BY <2>2, <3>1, <3>2
        <3> HIDE DEF a, b, n, k
        <3>6. (a <= b /\ b < a + k) \/ (b <= a /\ a < b + k)
            BY <3>4
        <3>7. a = b
            BY <3>4, <3>5, <3>6, SameRemainder
        <3> QED BY <3>1, <3>2, <3>7 DEF a, b
    <2> QED BY <2>1, <2>2 DEF OneBarPerHour
<1> QED BY StatsInvariance, <1>1, PTL

-----------------------------------------------------------------------------
(* What counts in the hours of the day is what was added in them.          *)
TweetsIn(h) == {w \in tweets : Hour(w.added) = h}
Whole(h) == h < Hour(now) /\ Settled(h)

LEMMA InDay ==
    ASSUME IInv, NEW h \in Int, Whole(h), NEW w \in TweetsIn(h)
    PROVE  w \in FullHours(Day)
<1> DEFINE a == w.added  b == now - Day  n == Hour(now)  d == Hour(b)
<1>1. a \in Int /\ b \in Int /\ now \in Int /\ w \in tweets
    BY Added, Times DEF TweetsIn
<1>2. n \in Int /\ d \in Int /\ HourStart(n) \in Int /\ HourStart(d) \in Int
      /\ HourStart(n) <= now /\ HourStart(d) <= b
    BY <1>1, HourStarts
<1>3. Hour(a) = h /\ h < n /\ d < h
    BY DEF Whole, Settled, TweetsIn
<1>4. ~(HourStart(n) <= a)
    BY <1>1, <1>2, <1>3, HourStarts
<1>5. ~(a <= HourStart(d))
    <2>1. a <= HourStart(d) => Hour(a) <= Hour(HourStart(d))
        BY <1>1, <1>2, Earlier
    <2>2. Hour(HourStart(d)) <= d
        BY <1>1, <1>2, Earlier
    <2>3. Hour(HourStart(d)) \in Int
        BY <1>2, HourStarts
    <2> QED BY <1>2, <1>3, <2>1, <2>2, <2>3
<1>6. HourStart(d) < a /\ a < HourStart(n)
    BY <1>1, <1>2, <1>4, <1>5
<1> QED BY <1>1, <1>6 DEF FullHours, Between

LEMMA BarOf ==
    ASSUME NEW w \in FullHours(Day) PROVE \E r \in TweetsPast24Hrs : r.hour = Hour(w.added)
<1> DEFINE h == Hour(w.added)  Average == {a \in AvgTweetsPastWeek : a.hour = h % HoursPerDay}
           Averages == IF Average = {} THEN {None} ELSE {a.round : a \in Average}
<1>1. PICK v : v \in Averages
    OBVIOUS
<1> DEFINE r == [hour |-> h, count |-> CountIn(FullHours(Day), h), average |-> v]
           bars == {[hour |-> h, count |-> CountIn(FullHours(Day), h), average |-> x] :
                       x \in Averages}
<1>2. r \in bars /\ r.hour = h
    BY <1>1
<1>3. bars \subseteq TweetsPast24Hrs
    BY DEF TweetsPast24Hrs
<1> QED BY <1>2, <1>3

(* A bar is of an hour that is over, and if it is not the oldest it counts *)
(* every tweet of this hour.  An hour without a bar has none.              *)
DrawnWhole ==
    \A h \in Int : /\ Drawn(h) > 0 => h < Hour(now)
                   /\ Whole(h) => Drawn(h) = Cardinality(TweetsIn(h))

LEMMA AllDrawn == IInv => DrawnWhole
<1> SUFFICES ASSUME IInv, NEW h \in Int
             PROVE  /\ Drawn(h) > 0 => h < Hour(now)
                    /\ Whole(h) => Drawn(h) = Cardinality(TweetsIn(h))
    BY DEF DrawnWhole
<1> DEFINE bar == {r \in TweetsPast24Hrs : r.hour = h}
<1>1. CASE bar = {}
    <2>1. Drawn(h) = 0
        BY <1>1 DEF Drawn
    <2>2. Whole(h) => TweetsIn(h) = {}
        BY <1>1, InDay, BarOf DEF TweetsIn
    <2> QED BY <2>1, <2>2, FS_EmptySet
<1>2. CASE bar # {}
    <2> DEFINE r == CHOOSE r \in bar : TRUE
    <2>1. r \in bar /\ Drawn(h) = r.count
        BY <1>2 DEF Drawn
    <2> HIDE DEF r
    <2>2. PICK x \in FullHours(Day) :
              r.hour = Hour(x.added) /\ r.count = CountIn(FullHours(Day), Hour(x.added))
        BY <2>1, Bar
    <2>3. h < Hour(now)
        <3>1. now \in Nat /\ x.added \in Int
            BY Added DEF FullHours, Between
        <3> QED BY <2>1, <2>2, <3>1, DayHours
    <2>4. Whole(h) => {w \in FullHours(Day) : Hour(w.added) = h} = TweetsIn(h)
        BY InDay DEF TweetsIn, FullHours, Between
    <2> QED BY <2>1, <2>2, <2>3, <2>4 DEF CountIn
<1> QED BY <1>1, <1>2

LEMMA Back ==
    ASSUME NEW a \in Nat, NEW b \in Nat, a <= b
    PROVE  a - Day \in Int /\ b - Day \in Int /\ a - Day <= b - Day
<1> DEFINE d == Day
<1>1. d \in Nat
    BY Times
<1> HIDE DEF d
<1>2. a - d \in Int /\ b - d \in Int /\ a - d <= b - d
    BY <1>1
<1> QED BY <1>2 DEF d

(* The calls that began in an hour and are still under way.                *)
LateIn(h) == {s \in Session : adding[s] # None /\ Hour(adding[s].start) = h}

LEMMA FiniteBars ==
    ASSUME IInv, NEW h
    PROVE  /\ IsFiniteSet(TweetsIn(h)) /\ Cardinality(TweetsIn(h)) \in Nat
           /\ IsFiniteSet(LateIn(h)) /\ Cardinality(LateIn(h)) \in Nat
BY SessionAssumption, FS_Subset, FS_CardinalityType DEF IInv, Keyed, TweetsIn, LateIn

(* Of an hour that is over, a step either leaves the tweets alone, with no *)
(* more calls under way, or ends one of these, whose tweet it adds.        *)
NoneAdded(h) == TweetsIn(h)' = TweetsIn(h) /\ LateIn(h)' \subseteq LateIn(h)
OneAdded(h) ==
    \E s \in LateIn(h), row \in tweets' :
        /\ row \notin TweetsIn(h)
        /\ TweetsIn(h)' = TweetsIn(h) \cup {row}
        /\ LateIn(h)' = LateIn(h) \ {s}

LEMMA HourStep ==
    ASSUME IInv, StatsNext, NEW h \in Int, h < Hour(now)
    PROVE  NoneAdded(h) \/ OneAdded(h)
<1>1. CASE Tick
    BY <1>1 DEF Tick, NoneAdded, TweetsIn, LateIn, Hour
<1>2. ASSUME NEW s \in Session, NEW places \in SUBSET Ward, StartTweet(s, places)
      PROVE  NoneAdded(h)
    <2>1. PICK w : adding' = [adding EXCEPT ![s] = [ward |-> w, start |-> now]]
        BY <1>2 DEF StartTweet
    <2>2. adding'[s].start = now /\ \A z \in Session : z # s => adding'[z] = adding[z]
        BY <2>1 DEF IInv, TypeOK
    <2>3. Hour(now) # h
        <3>1. Hour(now) \in Int
            BY Added, HourStarts
        <3> QED BY <3>1
    <2>4. tweets' = tweets
        BY <1>2 DEF StartTweet
    <2> QED BY <2>2, <2>3, <2>4 DEF NoneAdded, TweetsIn, LateIn, Hour
<1>3. ASSUME NEW s \in Session, Abort(s) PROVE NoneAdded(h)
    <2>1. \A z \in Session : adding'[z] # None => adding'[z] = adding[z]
        BY <1>3 DEF Abort, IInv, TypeOK
    <2> QED BY <1>3, <2>1 DEF Abort, NoneAdded, TweetsIn, LateIn, Hour
<1>4. ASSUME NEW s \in Session, CommitTweet(s) PROVE NoneAdded(h) \/ OneAdded(h)
    <2> DEFINE row == [id |-> NewId(tweets), ward |-> adding[s].ward, added |-> adding[s].start]
    <2>1. adding[s] # None /\ tweets' = tweets \cup {row} /\ row.added = adding[s].start
        BY <1>4 DEF CommitTweet
    <2>2. adding'[s] = None /\ \A z \in Session : z # s => adding'[z] = adding[z]
        BY <1>4 DEF CommitTweet, IInv, TypeOK
    <2>3. row \notin tweets
        <3>1. row.id = NewId(tweets) /\ Keyed(tweets)
            BY DEF IInv
        <3> QED BY <3>1, NewRow
    <2> HIDE DEF row
    <2>4. LateIn(h)' = LateIn(h) \ {s}
        BY <2>2 DEF LateIn, Hour
    <2>5. CASE Hour(adding[s].start) = h
        <3>1. s \in LateIn(h)
            BY <2>1, <2>5 DEF LateIn
        <3>2. TweetsIn(h)' = TweetsIn(h) \cup {row} /\ row \notin TweetsIn(h)
            BY <2>1, <2>3, <2>5 DEF TweetsIn, Hour
        <3>3. row \in tweets'
            BY <2>1
        <3> QED BY <2>4, <3>1, <3>2, <3>3 DEF OneAdded
    <2>6. CASE Hour(adding[s].start) # h
        BY <2>1, <2>4, <2>6 DEF NoneAdded, TweetsIn, Hour
    <2> QED BY <2>5, <2>6
<1> QED BY <1>1, <1>2, <1>3, <1>4 DEF StatsNext, Tweeting

LEMMA HourCounts ==
    ASSUME IInv, NEW h, NoneAdded(h) \/ OneAdded(h)
    PROVE  /\ Cardinality(TweetsIn(h)) <= Cardinality(TweetsIn(h)')
           /\ Cardinality(TweetsIn(h)') + Cardinality(LateIn(h)')
                <= Cardinality(TweetsIn(h)) + Cardinality(LateIn(h))
<1> DEFINE a == Cardinality(TweetsIn(h))  b == Cardinality(TweetsIn(h)')
           c == Cardinality(LateIn(h))  d == Cardinality(LateIn(h)')
<1>1. a \in Nat /\ c \in Nat /\ IsFiniteSet(TweetsIn(h)) /\ IsFiniteSet(LateIn(h))
    BY FiniteBars
<1>2. CASE NoneAdded(h)
    <2>1. b = a /\ d \in Nat /\ d <= c
        BY <1>1, <1>2, FS_Subset, FS_CardinalityType DEF NoneAdded
    <2> HIDE DEF a, b, c, d
    <2>2. a <= b /\ b + d <= a + c
        BY <1>1, <2>1
    <2> QED BY <2>2 DEF a, b, c, d
<1>3. CASE OneAdded(h)
    <2>1. PICK s \in LateIn(h), row \in tweets' :
              /\ row \notin TweetsIn(h)
              /\ TweetsIn(h)' = TweetsIn(h) \cup {row}
              /\ LateIn(h)' = LateIn(h) \ {s}
        BY <1>3 DEF OneAdded
    <2>2. b = a + 1
        BY <1>1, <2>1, FS_AddElement
    <2>3. d = c - 1
        BY <1>1, <2>1, FS_RemoveElement
    <2> HIDE DEF a, b, c, d
    <2>4. a <= b /\ b + d <= a + c
        BY <1>1, <2>2, <2>3
    <2> QED BY <2>4 DEF a, b, c, d
<1> QED BY <1>2, <1>3

(* A bar never shrinks, grows by no more than the calls begun in its hour  *)
(* that were still under way, and is final once there are none.            *)
THEOREM SettledBars == StatsSpec => BarsSettle
<1>1. IInv' => DrawnWhole'
    BY AllDrawn, PTL
<1>2. ASSUME IInv, IInv', StatsNext, NEW h \in 0..Hour(now), Begun(h), Settled(h)'
      PROVE  /\ Drawn(h) <= Drawn(h)'
             /\ Drawn(h)' + Late(h)' <= Drawn(h) + Late(h)
    <2>1. now \in Nat /\ now' \in Nat /\ now <= now'
        <3>1. now' = now \/ now' = now + 1
            BY <1>2 DEF StatsNext, Tweeting, Tick, StartTweet, CommitTweet, Abort
        <3> QED BY <1>2, <3>1, Added
    <2>2. h \in Int /\ Hour(now) \in Int /\ Hour(now') \in Int /\ Hour(now) <= Hour(now')
        BY <2>1, HourStarts, Earlier
    <2>3. h < Hour(now)
        BY <1>2, <2>2, AllDrawn DEF Begun, DrawnWhole
    <2>4. Whole(h)
        <3>1. now - Day \in Int /\ now' - Day \in Int /\ now - Day <= now' - Day
            BY <2>1, Back
        <3>2. /\ Hour(now - Day) <= Hour(now' - Day)
              /\ Hour(now - Day) \in Int /\ Hour(now' - Day) \in Int
            BY <3>1, Earlier, HourStarts
        <3>3. h > Hour(now' - Day)
            BY <1>2 DEF Settled, Hour, Day
        <3> QED BY <2>2, <2>3, <3>2, <3>3 DEF Whole, Settled
    <2>5. Whole(h)'
        <3>1. h < Hour(now')
            BY <2>2, <2>3
        <3> QED BY <1>2, <3>1 DEF Whole, Hour
    <2>6. Drawn(h) = Cardinality(TweetsIn(h)) /\ Drawn(h)' = Cardinality(TweetsIn(h)')
        BY <1>1, <1>2, <2>2, <2>4, <2>5, AllDrawn DEF DrawnWhole
    <2>7. Late(h) = Cardinality(LateIn(h)) /\ Late(h)' = Cardinality(LateIn(h)')
        BY DEF Late, LateIn
    <2>8. NoneAdded(h) \/ OneAdded(h)
        BY <1>2, <2>2, <2>3, HourStep
    <2> QED BY <1>2, <2>6, <2>7, <2>8, HourCounts
<1>3. IInv /\ IInv' /\ [StatsNext]_vars =>
          [\A h \in 0..Hour(now) : Begun(h) /\ Settled(h)' =>
              /\ Drawn(h) <= Drawn(h)'
              /\ Drawn(h)' + Late(h)' <= Drawn(h) + Late(h)]_vars
    BY <1>2
<1> QED BY StatsInvariance, <1>3, PTL DEF StatsSpec, BarsSettle

-----------------------------------------------------------------------------
(* The table of wards.  A sum over rows is any function that adds them up  *)
(* one by one, by a least set of rows for which the two would differ.      *)
LEMMA Sum ==
    ASSUME NEW rows, IsFiniteSet(rows), NEW g,
           g = [s \in SUBSET rows |->
                   IF s = {} THEN 0
                   ELSE LET r == CHOOSE r \in s : TRUE IN r.past24Hrs + g[s \ {r}]]
    PROVE  MapThenSumSet(LAMBDA r : r.past24Hrs, rows) = g[rows]
<1> DEFINE OneByOne(f) == [s \in SUBSET rows |->
                   IF s = {} THEN 0
                   ELSE LET r == CHOOSE r \in s : TRUE IN r.past24Hrs + f[s \ {r}]]
           f == CHOOSE f : f = OneByOne(f)
<1>1. MapThenSumSet(LAMBDA r : r.past24Hrs, rows) = f[rows]
    BY DEF MapThenSumSet, MapThenFoldSet
<1>2. f = OneByOne(f)
    OBVIOUS
<1> HIDE DEF f
<1>3. SUFFICES ASSUME NEW s \in SUBSET rows, f[s] # g[s] PROVE FALSE
    BY <1>1
<1> DEFINE Wrong == {t \in SUBSET rows : f[t] # g[t]}  R == StrictSubsetOrdering(rows)
<1>4. Wrong \subseteq FiniteSubsetsOf(rows) /\ Wrong # {}
    BY <1>3, FS_Subset DEF FiniteSubsetsOf
<1>5. PICK t \in Wrong : \A u \in Wrong : <<u, t>> \notin R
    BY <1>4, WFMin, FS_StrictSubsetOrderingWellFounded
<1>6. t # {}
    BY <1>2
<1> DEFINE c == CHOOSE r \in t : TRUE
<1>7. c \in t
    BY <1>6
<1> HIDE DEF c
<1>8. t \ {c} \in SUBSET rows /\ t \ {c} \notin Wrong
    <2> DEFINE u == t \ {c}
    <2>1. u \in SUBSET rows /\ t \in SUBSET rows /\ u \subseteq t /\ u # t
        BY <1>7
    <2> HIDE DEF u
    <2>2. <<u, t>> \in R
        BY <2>1 DEF StrictSubsetOrdering
    <2> QED BY <1>5, <2>1, <2>2 DEF u
<1>9. f[t \ {c}] = g[t \ {c}]
    BY <1>8
<1>10. f[t] = c.past24Hrs + f[t \ {c}] /\ g[t] = c.past24Hrs + g[t \ {c}]
    BY <1>2, <1>6 DEF c
<1> QED BY <1>9, <1>10

LEMMA FinitePart ==
    ASSUME IInv, NEW rows \in SUBSET tweets
    PROVE  IsFiniteSet(rows) /\ Cardinality(rows) \in Nat
BY FS_Subset, FS_CardinalityType DEF IInv, Keyed

(* The row of a ward, of which there is one for each ward of the past day. *)
WardRow(v) ==
    [wardId |-> v, past24Hrs |-> InWard(Past24Hrs, v),
     dayChange |-> InWard(Past24Hrs, v) - InWard(OneDayAgo, v)]
WardsOfDay == {w.ward : w \in Past24Hrs}

LEMMA WardRows == ASSUME IInv PROVE TweetsByWardDailyChange = {WardRow(v) : v \in WardsOfDay}
<1> DEFINE N(v) == InWard(Past24Hrs, v)  O(v) == InWard(OneDayAgo, v)
<1>1. WardsOfDay \subseteq Ward \cup {0}
    BY DEF IInv, TypeOK, WardId, WardsOfDay, Past24Hrs
<1>2. TweetsByWardPast24Hrs = {[wardId |-> v, count |-> N(v)] : v \in WardsOfDay}
    BY DEF TweetsByWardPast24Hrs, WardsOfDay
<1>3. TweetsByWard1DayAgo = {[wardId |-> v, count |-> O(v)] : v \in Ward \cup {0}}
    BY DEF TweetsByWard1DayAgo
<1> HIDE DEF N, O
<1>4. ASSUME NEW r \in TweetsByWardDailyChange
      PROVE  \E v \in WardsOfDay : r = [wardId |-> v, past24Hrs |-> N(v), dayChange |-> N(v) - O(v)]
    <2>1. PICK p \in TweetsByWardPast24Hrs \X TweetsByWard1DayAgo :
              /\ p[1].wardId = p[2].wardId
              /\ r = [wardId |-> p[1].wardId, past24Hrs |-> p[1].count,
                      dayChange |-> p[1].count - p[2].count]
        BY <1>4 DEF TweetsByWardDailyChange
    <2>2. PICK v \in WardsOfDay : p[1] = [wardId |-> v, count |-> N(v)]
        BY <1>2, <2>1
    <2>3. p[2] = [wardId |-> v, count |-> O(v)]
        BY <1>3, <2>1, <2>2
    <2> QED BY <2>1, <2>2, <2>3
<1>5. ASSUME NEW v \in WardsOfDay
      PROVE  [wardId |-> v, past24Hrs |-> N(v), dayChange |-> N(v) - O(v)] \in TweetsByWardDailyChange
    <2> DEFINE p == <<[wardId |-> v, count |-> N(v)], [wardId |-> v, count |-> O(v)]>>
    <2>1. p \in TweetsByWardPast24Hrs \X TweetsByWard1DayAgo
        BY <1>1, <1>2, <1>3
    <2>2. /\ p[1].wardId = v /\ p[2].wardId = v /\ p[1].count = N(v) /\ p[2].count = O(v)
        OBVIOUS
    <2> HIDE DEF p
    <2> QED BY <2>1, <2>2 DEF TweetsByWardDailyChange
<1>6. \A v : WardRow(v) = [wardId |-> v, past24Hrs |-> N(v), dayChange |-> N(v) - O(v)]
    BY DEF WardRow, N, O
<1> QED BY <1>4, <1>5, <1>6

(* The tweets of the wards of some rows.                                   *)
TweetsOf(s) == {w \in Past24Hrs : \E r \in s : r.wardId = w.ward}

LEMMA OneRow == ASSUME IInv PROVE OneRowPerWard
<1> DEFINE rows == TweetsByWardDailyChange  wards == WardsOfDay
<1>1. Past24Hrs \in SUBSET tweets
    BY DEF Past24Hrs
<1>2. rows = {WardRow(v) : v \in wards} /\ \A v : WardRow(v).wardId = v
    BY WardRows DEF WardRow
<1>3. {r.wardId : r \in rows} = wards
    BY <1>2
<1>4. IsFiniteSet(wards)
    <2> DEFINE f == [w \in Past24Hrs |-> w.ward]
    <2>1. f \in Surjection(Past24Hrs, wards)
        BY DEF Surjection, WardsOfDay
    <2> QED BY <1>1, <2>1, FinitePart, FS_Surjection
<1>5. IsFiniteSet(rows) /\ Cardinality(rows) = Cardinality(wards)
    <2> DEFINE f == [v \in wards |-> WardRow(v)]
    <2>1. f \in Bijection(wards, rows)
        <3>1. f \in [wards -> rows] /\ \A v \in wards : f[v] = WardRow(v)
            BY <1>2
        <3>2. \A v, w \in wards : f[v] = f[w] => v = w
            BY <1>2, <3>1
        <3>3. \A q \in rows : \E v \in wards : f[v] = q
            BY <1>2, <3>1
        <3> HIDE DEF f
        <3> QED BY <3>1, <3>2, <3>3 DEF Bijection, Injection, Surjection, IsInjective
    <2> QED BY <1>4, <2>1, FS_Bijection DEF ExistsBijection
<1> DEFINE g == [s \in SUBSET rows |-> Cardinality(TweetsOf(s))]
<1>6. g = [s \in SUBSET rows |->
              IF s = {} THEN 0
              ELSE LET r == CHOOSE r \in s : TRUE IN r.past24Hrs + g[s \ {r}]]
    <2>1. TweetsOf({}) = {} /\ Cardinality({}) = 0
        BY FS_EmptySet DEF TweetsOf
    <2>2. ASSUME NEW s \in SUBSET rows, NEW r \in s
          PROVE  Cardinality(TweetsOf(s)) = r.past24Hrs + Cardinality(TweetsOf(s \ {r}))
        <3> DEFINE these == {w \in Past24Hrs : w.ward = r.wardId}  rest == TweetsOf(s \ {r})
        <3>1. TweetsOf(s) = these \cup rest
            BY DEF TweetsOf
        <3>2. these \cap rest = {}
            BY <1>2 DEF TweetsOf
        <3>3. these \in SUBSET tweets /\ rest \in SUBSET tweets
            BY <1>1 DEF TweetsOf
        <3>4. r.past24Hrs = Cardinality(these)
            <4>1. PICK v \in wards : r = WardRow(v)
                BY <1>2
            <4>2. r.wardId = v /\ r.past24Hrs = InWard(Past24Hrs, v)
                BY <4>1 DEF WardRow
            <4> QED BY <4>2 DEF InWard
        <3> HIDE DEF these, rest
        <3>5. /\ IsFiniteSet(these) /\ IsFiniteSet(rest)
              /\ Cardinality(these) \in Nat /\ Cardinality(rest) \in Nat
            BY <3>3, FinitePart
        <3>6. Cardinality(these \cup rest) = Cardinality(these) + Cardinality(rest) - Cardinality({})
            BY <3>2, <3>5, FS_Union
        <3> QED BY <2>1, <3>1, <3>4, <3>5, <3>6 DEF rest
    <2>3. ASSUME NEW s \in SUBSET rows
          PROVE  g[s] = IF s = {} THEN 0
                        ELSE LET r == CHOOSE r \in s : TRUE IN r.past24Hrs + g[s \ {r}]
        <3>1. CASE s = {}
            BY <2>1, <3>1
        <3>2. CASE s # {}
            <4> DEFINE r == CHOOSE r \in s : TRUE
            <4>1. r \in s
                BY <3>2
            <4> HIDE DEF r
            <4>2. g[s] = Cardinality(TweetsOf(s)) /\ g[s \ {r}] = Cardinality(TweetsOf(s \ {r}))
                OBVIOUS
            <4>3. g[s] = r.past24Hrs + g[s \ {r}]
                BY <2>2, <4>1, <4>2
            <4> QED BY <3>2, <4>3 DEF r
        <3> QED BY <3>1, <3>2
    <2> HIDE DEF g
    <2>4. g = [s \in SUBSET rows |-> g[s]]
        BY DEF g
    <2> QED BY <2>3, <2>4
<1>7. g[rows] = Cardinality(Past24Hrs)
    <2>1. TweetsOf(rows) = Past24Hrs
        BY <1>3 DEF TweetsOf, WardsOfDay
    <2> QED BY <2>1
<1> HIDE DEF g, rows
<1>8. MapThenSumSet(LAMBDA r : r.past24Hrs, rows) = Cardinality(Past24Hrs)
    BY <1>5, <1>6, <1>7, Sum
<1> QED BY <1>3, <1>5, <1>8 DEF OneRowPerWard, WardsOfDay, rows

LEMMA TwoDays == ASSUME IInv PROVE TwoDaysAddUp
<1> SUFFICES ASSUME NEW v \in WardsOfDay
             PROVE  2 * InWard(Past24Hrs, v) - (InWard(Past24Hrs, v) - InWard(OneDayAgo, v)) =
                        Cardinality({w \in tweets : w.ward = v /\ w.added >= now - 2 * Day})
    BY WardRows DEF TwoDaysAddUp, WardRow
<1> DEFINE p == {w \in Past24Hrs : w.ward = v}  o == {w \in OneDayAgo : w.ward = v}
           both == {w \in tweets : w.ward = v /\ w.added >= now - 2 * Day}  d == Day
<1>1. d \in Nat /\ d > 0
    BY Times
<1>2. now \in Nat /\ \A w \in tweets : w.added \in Nat /\ w.added <= now
    BY Added
<1>3. p \in SUBSET tweets /\ o \in SUBSET tweets
    BY DEF Past24Hrs, OneDayAgo
<1>4. /\ p = {w \in tweets : w.ward = v /\ w.added > now - d}
      /\ o = {w \in tweets : w.ward = v /\ now - 2 * d <= w.added /\ w.added <= now - d}
      /\ both = {w \in tweets : w.ward = v /\ w.added >= now - 2 * d}
    BY DEF Past24Hrs, OneDayAgo
<1> HIDE DEF d, p, o, both
<1>5. p \cap o = {}
    BY <1>1, <1>2, <1>4
<1>6. p \cup o = both
    <2>1. \A w \in tweets : w.added > now - d => w.added >= now - 2 * d
        BY <1>1, <1>2
    <2>2. \A w \in tweets : w.added > now - d \/ w.added <= now - d
        BY <1>1, <1>2
    <2>3. \A w \in tweets : now - 2 * d <= w.added <=> w.added >= now - 2 * d
        BY <1>1, <1>2
    <2> QED BY <1>4, <2>1, <2>2, <2>3
<1>7. IsFiniteSet(p) /\ IsFiniteSet(o) /\ Cardinality(p) \in Nat /\ Cardinality(o) \in Nat
    BY <1>3, FinitePart
<1>8. Cardinality(both) = Cardinality(p) + Cardinality(o) - Cardinality({}) /\ Cardinality({}) = 0
    <2>1. Cardinality(p \cup o) = Cardinality(p) + Cardinality(o) - Cardinality(p \cap o)
        BY <1>7, FS_Union
    <2> QED BY <1>5, <1>6, <2>1, FS_EmptySet
<1>9. 2 * Cardinality(p) - (Cardinality(p) - Cardinality(o)) = Cardinality(both)
    BY <1>7, <1>8
<1> QED BY <1>9 DEF p, o, both, InWard

(* Each ward with a tweet in the past day has one row, its two days make   *)
(* up the tweets of two days, and the rows add up to those of the day.     *)
THEOREM WardTable == StatsSpec => []WardRowsAddUp
<1>1. IInv => WardRowsAddUp
    BY OneRow, TwoDays DEF WardRowsAddUp
<1> QED BY StatsInvariance, <1>1, PTL
=============================================================================
