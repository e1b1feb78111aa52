---------------------------- MODULE StreamListener ----------------------------
(***************************************************************************)
(* ListenToTwitter (src/lib/feed.go): a goroutine that asks Twitter for a  *)
(* stream, reads tweets from it, and gives the owner those the filter      *)
(* accepts on one unbuffered channel and every error on another.  The      *)
(* owner is the one of src/lib/example/feed.go, which drains both channels *)
(* and closes the done channel on a timer, or the one of                   *)
(* src/lib/feed_test.go, which leaves with the first tweet.                *)
(***************************************************************************)
EXTENDS Integers, Sequences, FiniteSets

CONSTANTS
    MaxTweet,       \* bound on the tweets made upstream
    MaxFaults       \* bound on the requests and reads that fail

ASSUME BoundsAssumption == MaxTweet \in Nat /\ MaxFaults \in Nat

VARIABLES
    at,         \* where the goroutine is
    stream,     \* the tweets in the stream in use
    latest,     \* the last tweet made upstream
    hand,       \* the tweet in hand
    read,       \* the tweets stream.Next has returned
    refused,    \* how many of them the filter refused
    malformed,  \* how many ToProtoTweet could not transform
    got,        \* the tweets the owner took
    errors,     \* how many errors the owner took
    faults,     \* the requests and reads that failed
    oneTweet,   \* the owner is the test's: it leaves with one tweet
    owner,      \* "draining" or "gone"
    done        \* the done channel is closed

history == <<read, refused, malformed, got, errors>>
ownerVars == <<oneTweet, owner, done>>
vars == <<at, stream, latest, hand, faults, history, ownerVars>>

(* Where an error is offered, and the places with a stream to read.        *)
Erring == {"failed", "broken", "malformed"}
Reading == {"next", "offering", "malformed"}

TypeOK ==
    /\ at \in {"connect", "sleep"} \cup Erring \cup Reading
    /\ stream \in Seq(1..latest) /\ latest \in Nat
    /\ at \notin Reading => stream = <<>>
    /\ hand \in 0..latest /\ read \subseteq 1..latest
    /\ refused \in Nat /\ malformed \in Nat /\ errors \in Nat
    /\ got \in Seq(read)
    /\ faults \in 0..MaxFaults
    /\ owner \in {"draining", "gone"}
    /\ oneTweet \in BOOLEAN /\ done \in BOOLEAN

Init ==
    /\ at = "connect" /\ stream = <<>> /\ latest = 0 /\ hand = 0
    /\ read = {} /\ refused = 0 /\ malformed = 0 /\ got = <<>> /\ errors = 0
    /\ faults = 0 /\ oneTweet \in BOOLEAN /\ owner = "draining" /\ done = FALSE

Goto(from, to) == at = from /\ at' = to
Fault == faults < MaxFaults /\ faults' = faults + 1

-----------------------------------------------------------------------------
(* Twitter: a tweet goes to the stream there is, and to no later one.      *)
Tweeted ==
    /\ latest < MaxTweet /\ latest' = latest + 1
    /\ stream' = IF at \in Reading THEN Append(stream, latest') ELSE stream
    /\ UNCHANGED <<at, hand, faults, history, ownerVars>>

(* The owner of the example closes the done channel after ten seconds.     *)
CloseDone ==
    /\ ~oneTweet /\ ~done /\ done' = TRUE
    /\ UNCHANGED <<at, stream, latest, hand, faults, history, oneTweet, owner>>

-----------------------------------------------------------------------------
(* The outer loop: client.Locations.                                       *)
Connect ==
    /\ Goto("connect", "next") /\ stream' = <<>>
    /\ UNCHANGED <<latest, hand, faults, history, ownerVars>>

ConnectFails ==
    /\ Fault /\ Goto("connect", "failed")
    /\ UNCHANGED <<stream, latest, hand, history, ownerVars>>

(* Thirty seconds.                                                         *)
Sleep ==
    /\ Goto("sleep", "connect")
    /\ UNCHANGED <<stream, latest, hand, faults, history, ownerVars>>

-----------------------------------------------------------------------------
(* The inner loop: stream.Next, the filter, ToProtoTweet.                  *)

\* Mutant: the tweet that does not transform is logged, its error dropped.
HandleSilently ==
    \/ at' = "next" /\ refused' = refused + 1 /\ UNCHANGED malformed
    \/ at' = "next" /\ malformed' = malformed + 1 /\ UNCHANGED refused
    \/ at' = "offering" /\ UNCHANGED <<refused, malformed>>

(* A tweet with no coordinates, as a deleted or a limit notice has none,   *)
(* makes ToProtoTweet dereference nil, recover and return an error.        *)
Handle ==
    \/ at' = "next" /\ refused' = refused + 1 /\ UNCHANGED malformed
    \/ at' = "malformed" /\ malformed' = malformed + 1 /\ UNCHANGED refused
    \/ at' = "offering" /\ UNCHANGED <<refused, malformed>>

NextTweet ==
    /\ at = "next" /\ stream # <<>>
    /\ hand' = Head(stream) /\ stream' = Tail(stream)
    /\ read' = read \cup {Head(stream)}
    /\ Handle
    /\ UNCHANGED <<latest, got, errors, faults, ownerVars>>

\* Mutant: a broken stream is replaced at once, no error is sent.
NextFailsSilently ==
    /\ Fault /\ Goto("next", "connect") /\ stream' = <<>>
    /\ UNCHANGED <<latest, hand, history, ownerVars>>

(* The stream breaks, or nothing comes for two hours; what was in it is    *)
(* lost.  It is not closed.                                                *)
NextFails ==
    /\ Fault /\ Goto("next", "broken") /\ stream' = <<>>
    /\ UNCHANGED <<latest, hand, history, ownerVars>>

-----------------------------------------------------------------------------
(* The owner takes a tweet or an error.                                    *)

\* Mutant: a tweet waits for its receiver in a buffer, the loop goes on.
TakeTweetBuffered ==
    /\ Goto("offering", "next")
    /\ got' = IF owner = "draining" THEN Append(got, hand) ELSE got
    /\ owner' = IF oneTweet THEN "gone" ELSE owner
    /\ done' = (oneTweet \/ done)
    /\ UNCHANGED <<stream, latest, hand, read, refused, malformed, errors, faults, oneTweet>>

TakeTweet ==
    /\ owner = "draining" /\ Goto("offering", "next")
    /\ got' = Append(got, hand)
    /\ owner' = IF oneTweet THEN "gone" ELSE owner
    /\ done' = (oneTweet \/ done)
    /\ UNCHANGED <<stream, latest, hand, read, refused, malformed, errors, faults, oneTweet>>

(* What the goroutine does once its error is taken.                        *)
AfterError ==
    CASE at = "failed" -> "sleep" [] at = "broken" -> "connect" [] OTHER -> "next"

TakeError ==
    /\ owner = "draining" /\ at \in Erring /\ at' = AfterError
    /\ errors' = errors + 1
    /\ UNCHANGED <<stream, latest, hand, read, refused, malformed, got, faults, ownerVars>>

ListenerStep ==
    \/ Connect \/ ConnectFails \/ Sleep
    \/ NextTweet \/ NextFails \/ TakeTweet \/ TakeError

Next == Tweeted \/ CloseDone \/ ListenerStep

Spec == Init /\ [][Next]_vars

-----------------------------------------------------------------------------
(* The owner gets tweets in the order of the stream, none of them twice.   *)
InOrder == \A j, k \in 1..Len(got) : j < k => got[j] < got[k]

(* Every tweet read is refused, given to the owner or told as an error     *)
(* before the next one is read, and so is every failure before the next    *)
(* request: what is not yet told is in the hand of the goroutine.          *)
EverythingTold ==
    /\ Cardinality(read) = Len(got) + refused + malformed + (IF at = "offering" THEN 1 ELSE 0)
    /\ faults + malformed = errors + (IF at \in Erring THEN 1 ELSE 0)

(* What an owner can rely on.                                              *)
ListenerInv == TypeOK /\ InOrder /\ EverythingTold

(* Where the tweets read start anew after some that were missed, the       *)
(* owner has been told: but for the start, no more gaps than errors.       *)
GapsAreTold ==
    Cardinality({n \in read : n - 1 \notin read}) <= errors + 1

(* An owner that leaves is owed one thing at most: once the goroutine      *)
(* offers it, nothing is read or requested ever again, and the goroutine   *)
(* and its stream stay.                                                    *)
LeftBehind == owner = "gone" /\ at \in Erring \cup {"offering"}
LeftForGood == [][LeftBehind => LeftBehind' /\ UNCHANGED <<read, errors, got>>]_vars
=============================================================================
