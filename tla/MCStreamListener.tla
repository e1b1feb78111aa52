--------------------------- MODULE MCStreamListener ---------------------------
(* The instance of StreamListener for TLC: five tweets, three faults.      *)
EXTENDS StreamListener

MCMaxTweet == 5
MCMaxFaults == 3
=============================================================================
