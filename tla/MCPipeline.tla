------------------------------ MODULE MCPipeline ------------------------------
(* The instance of Pipeline for TLC: a batch of four tweets, two errors    *)
(* of the publisher, each of which makes it start again from one, two      *)
(* interrupted calls of the receiver.                                      *)
EXTENDS Pipeline

MCLimit == 4
MCRestart == 1
MCMaxErrors == 2
MCMaxTweet == 12
MCMaxFaults == 2
=============================================================================
