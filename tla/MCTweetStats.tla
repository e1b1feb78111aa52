----------------------------- MODULE MCTweetStats -----------------------------
(* The instance of TweetStats for TLC: hours of two ticks, days of two     *)
(* hours, weeks of two days, one ward, three tweets by two sessions.       *)
EXTENDS TweetStats, TLC

CONSTANTS s1, s2, tag

MCLower == [t \in {tag} |-> t]
MCWard == {1}
MCMaxNow == 10
MCSymmetry == Permutations({s1, s2})
=============================================================================
