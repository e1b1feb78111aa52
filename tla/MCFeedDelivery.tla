---------------------------- MODULE MCFeedDelivery ----------------------------
(* Instances of FeedDelivery for TLC.                                      *)
EXTENDS FeedDelivery, TLC

CONSTANTS h1, h2, t1, t2

MCHandlers == {h1, h2}
MCFlaky == {h2}
MCTweets == {t1, t2}
=============================================================================
