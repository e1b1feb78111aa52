------------------------------ MODULE TweetStore ------------------------------
(***************************************************************************)
(* The tables and functions of the database (src/database/schema.sql) that *)
(* keep tweets and their hashtags, called by several sessions at once.     *)
(* Each call is a transaction, read committed: a statement sees the rows   *)
(* committed when it starts, now() is the time the transaction began, and  *)
(* what it inserts is seen by others once it commits, or never.            *)
(***************************************************************************)
EXTENDS Integers, FiniteSets

CONSTANTS
    Session,        \* the sessions that call insertTweet, insertHashtag
    Tag,            \* the spellings of hashtags
    Lower,          \* lower(): a spelling to its lower case
    Ward,           \* the ids of the wards
    TicksPerHour,   \* the grain of time
    HoursPerDay,    \* 24 in the code
    MaxNow,         \* bound on the time
    MaxTweets,      \* bound on the tweets inserted
    MaxRels,        \* bound on the calls of insertHashtag that commit
    None            \* no row

ASSUME SessionAssumption == IsFiniteSet(Session)
ASSUME TagAssumption == Lower \in [Tag -> Tag] /\ \A t \in Tag : Lower[Lower[t]] = Lower[t]
ASSUME WardAssumption == Ward \subseteq Nat \ {0}
ASSUME TimeAssumption == TicksPerHour \in Nat \ {0} /\ HoursPerDay \in Nat \ {0}
ASSUME BoundsAssumption == MaxNow \in Nat /\ MaxTweets \in Nat /\ MaxRels \in Nat
ASSUME NoneAssumption == None \notin Nat /\ None \notin Tag

VARIABLES
    now,        \* the time
    tweets,     \* table tweets: id, wardId, dateAdded
    hashtags,   \* table hashtags: id, hashtag
    rel,        \* table tweetHashtags_rel: id, tweetId, hashtagId, dateAdded
    adding,     \* each session's insertTweet under way, or None
    call,       \* each session's insertHashtag under way, or None
    calls       \* the calls that committed: the row each added, its tag

vars == <<now, tweets, hashtags, rel, adding, call, calls>>

Day == TicksPerHour * HoursPerDay
TweetId == 1..MaxTweets
WardId == Ward \cup {0}
TweetCall == [ward : WardId, start : Nat]
Call == [tag : Tag, tweet : TweetId, htid : Nat \cup {None}, start : Nat]

TypeOK ==
    /\ now \in Nat
    /\ tweets \subseteq [id : Nat, ward : WardId, added : 0..now]
    /\ hashtags \subseteq [id : Nat, tag : Tag]
    /\ rel \subseteq [id : Nat, tweet : Nat, hashtag : Nat, added : 0..now]
    /\ adding \in [Session -> TweetCall \cup {None}]
    /\ \A s \in Session : adding[s] # None => adding[s].start <= now
    /\ call \in [Session -> Call \cup {None}]
    /\ \A s \in Session : call[s] # None => call[s].start <= now

Init ==
    /\ now = 0 /\ tweets = {} /\ hashtags = {} /\ rel = {} /\ calls = {}
    /\ adding = [s \in Session |-> None] /\ call = [s \in Session |-> None]

(* nextval of a table's sequence: an id no row has had.  Ids go by commits *)
(* here, by inserts in the code: no query relies on their order.           *)
NewId(table) == Cardinality(table) + 1

Tick ==
    /\ now < MaxNow /\ now' = now + 1
    /\ UNCHANGED <<tweets, hashtags, rel, adding, call, calls>>

(* A session makes one call at a time.                                     *)
Idle(s) == adding[s] = None /\ call[s] = None

-----------------------------------------------------------------------------
(* insertTweet, with the wards its point is in: 0 for a point outside of   *)
(* all of them.  In more than one the subquery fails and so does the call. *)
StartTweet(s, places) ==
    /\ Idle(s) /\ Cardinality(tweets) < MaxTweets /\ Cardinality(places) <= 1
    /\ \E w \in IF places = {} THEN {0} ELSE places :
          adding' = [adding EXCEPT ![s] = [ward |-> w, start |-> now]]
    /\ UNCHANGED <<now, tweets, hashtags, rel, call, calls>>

(* The row is seen from the commit on; its dateAdded is the call's now().  *)
CommitTweet(s) ==
    /\ adding[s] # None /\ Cardinality(tweets) < MaxTweets
    /\ adding' = [adding EXCEPT ![s] = None]
    /\ tweets' = tweets \cup {[id |-> NewId(tweets), ward |-> adding[s].ward,
                               added |-> adding[s].start]}
    /\ UNCHANGED <<now, hashtags, rel, call, calls>>

-----------------------------------------------------------------------------
(* insertHashtag: the row of the hashtag is looked up, then inserted if    *)
(* none was found, with the row that ties it to the tweet.                 *)

(* SELECT ... LIMIT 1: any one of the rows of this spelling.               *)
Look(s, t, tid) ==
    /\ Idle(s) /\ Cardinality(rel) < MaxRels
    /\ LET rows == {r \in hashtags : r.tag = t}
       IN  \E htid \in IF rows = {} THEN {None} ELSE {r.id : r \in rows} :
              call' = [call EXCEPT ![s] =
                          [tag |-> t, tweet |-> tid, htid |-> htid, start |-> now]]
    /\ UNCHANGED <<now, tweets, hashtags, rel, adding, calls>>

Insert(s, htid, rows) ==
    /\ call' = [call EXCEPT ![s] = None]
    /\ hashtags' = hashtags \cup rows
    /\ rel' = rel \cup {[id |-> NewId(rel), tweet |-> call[s].tweet,
                         hashtag |-> htid, added |-> call[s].start]}
    /\ calls' = calls \cup {[id |-> NewId(rel), tag |-> call[s].tag,
                             tweet |-> call[s].tweet, added |-> call[s].start]}
    /\ UNCHANGED <<now, tweets, adding>>

NewTag(s) == [id |-> NewId(hashtags), tag |-> call[s].tag]

(* The foreign key of the relation wants the tweet.                        *)
Committing(s) ==
    /\ call[s] # None /\ Cardinality(rel) < MaxRels
    /\ \E w \in tweets : w.id = call[s].tweet

\* Mutant: whether a row was found is not looked at.
CommitNewTag(s) == Committing(s) /\ Insert(s, NewTag(s).id, {NewTag(s)})

(* The inserts and the commit.                                             *)
Commit(s) ==
    /\ Committing(s)
    /\ IF call[s].htid = None
         THEN Insert(s, NewTag(s).id, {NewTag(s)})
         ELSE Insert(s, call[s].htid, {})

(* The session is lost, or the foreign key refuses the tweet: the whole    *)
(* call is undone.                                                         *)
Abort(s) ==
    /\ ~Idle(s)
    /\ adding' = [adding EXCEPT ![s] = None] /\ call' = [call EXCEPT ![s] = None]
    /\ UNCHANGED <<now, tweets, hashtags, rel, calls>>

(* What a session does to insert tweets.                                   *)
Tweeting(s) ==
    (\E places \in SUBSET Ward : StartTweet(s, places)) \/ CommitTweet(s) \/ Abort(s)

Next ==
    \/ Tick
    \/ \E s \in Session :
          \/ Tweeting(s)
          \/ \E t \in Tag, tid \in TweetId : Look(s, t, tid)
          \/ Commit(s)

Spec == Init /\ [][Next]_vars

-----------------------------------------------------------------------------
(* The queries on hashtags, at the time now.                               *)

Recent(row) == row.added > now - Day

\* Mutant: the tables are joined on the text of the hashtag.
TrendByText(low) ==
    Cardinality({p \in rel \X hashtags :
                    /\ Recent(p[1]) /\ Lower[p[2].tag] = low
                    /\ \E g \in hashtags : g.id = p[1].hashtag /\ g.tag = p[2].tag})

(* The count that V_top25HashtagsPast24Hours has for a lower case hashtag. *)
Trend(low) ==
    Cardinality({p \in rel \X hashtags :
                    Recent(p[1]) /\ p[2].id = p[1].hashtag /\ Lower[p[2].tag] = low})

(* The tweets that hashtagGeomPastDay collects for a spelling.             *)
HashtagGeomPastDay(t) ==
    {w.id : w \in {w \in tweets : \E r \in rel, h \in hashtags :
        r.tweet = w.id /\ h.id = r.hashtag /\ h.tag = t /\ Recent(r)}}

\* Mutant: the day is that of the hashtag's row, as in the other queries.
WardTagsByRel(ward) ==
    {<<p[1].id, p[2].tag>> : p \in {p \in tweets \X hashtags :
        /\ p[1].ward = ward
        /\ \E r \in rel : r.tweet = p[1].id /\ r.hashtag = p[2].id /\ Recent(r)}}

(* The tweets and hashtags that pastDaysHashtagsByWard lists.              *)
PastDaysHashtagsByWard(ward) ==
    {<<p[1].id, p[2].tag>> : p \in {p \in tweets \X hashtags :
        /\ Recent(p[1]) /\ p[1].ward = ward
        /\ \E r \in rel : r.tweet = p[1].id /\ r.hashtag = p[2].id}}

-----------------------------------------------------------------------------
(* Sessions that race may give a hashtag several rows, for there is no     *)
(* unique key on it; one that looks after a commit finds the row.  So      *)
(* there are never more rows than sessions, however many calls are made.   *)
RowPerSession ==
    \A t \in Tag : Cardinality({h \in hashtags : h.tag = t}) <= Cardinality(Session)

(* A call is done as a whole or not at all: no hashtag without a tweet,    *)
(* and every row of the relation has both its ends.                        *)
NoOrphans ==
    /\ \A h \in hashtags : \E r \in rel : r.hashtag = h.id
    /\ \A r \in rel : /\ \E h \in hashtags : h.id = r.hashtag
                      /\ \E w \in tweets : w.id = r.tweet

(* What every reader of the tables can rely on.                            *)
StoreInv == TypeOK /\ NoOrphans /\ RowPerSession

(* Whatever the rows a hashtag came to have, the trends count each call of *)
(* the past day once, under its lower case, and the map of a hashtag shows *)
(* the tweets it was called for, in this very spelling.                    *)
TagQueriesExact ==
    /\ \A low \in Tag :
          Trend(low) = Cardinality({k \in calls : Recent(k) /\ Lower[k.tag] = low})
    /\ \A t \in Tag :
          HashtagGeomPastDay(t) = {k.tweet : k \in {k \in calls : Recent(k) /\ k.tag = t}}

(* Over all wards, the lists by ward show each hashtag of each tweet of    *)
(* the past day, under the ward of the tweet, and nothing else.            *)
WardListsComplete ==
    \A ward \in WardId :
        PastDaysHashtagsByWard(ward) =
            {<<k.tweet, k.tag>> : k \in {k \in calls : \E w \in tweets :
                w.id = k.tweet /\ w.ward = ward /\ Recent(w)}}
=============================================================================
