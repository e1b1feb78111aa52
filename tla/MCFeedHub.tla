------------------------------ MODULE MCFeedHub ------------------------------
(* Instances of FeedHub for TLC: two connections, one of which may break.  *)
EXTENDS FeedHub

CONSTANTS h1, h2, t1, t2

MCHandlers == {h1, h2}
MCFlaky == {h2}
MCTweets == {t1, t2}
MCOneTweet == {t1}
=============================================================================
