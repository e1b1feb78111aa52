----------------------------- MODULE MCTweetStore -----------------------------
(* The instance of TweetStore for TLC: two sessions, two spellings of one  *)
(* hashtag, a day of one tick, one ward, two tweets.                       *)
EXTENDS TweetStore, TLC

CONSTANTS s1, s2, lower, upper

MCTag == {lower, upper}
MCLower == [t \in MCTag |-> lower]
MCWard == {1}
MCMaxNow == 2
MCSymmetry == Permutations({s1, s2})
=============================================================================
