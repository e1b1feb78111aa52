------------------------------ MODULE MCBrowser ------------------------------
(* The instance of Browser for TLC: four tweets.                           *)
EXTENDS Browser

CONSTANTS t1, t2, t3, t4

MCTweets == {t1, t2, t3, t4}
=============================================================================
