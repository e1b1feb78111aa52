---------------------------- MODULE MCFeedListener ----------------------------
(* The instance of FeedListener for TLC: three sockets, four faults.       *)
EXTENDS FeedListener

MCMaxSockets == 3
MCMaxTweet == 5
MCMaxFaults == 4
MCMaxEmpty == 4
=============================================================================
