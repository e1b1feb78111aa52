---------------------------- MODULE FeedDelivery ----------------------------
(***************************************************************************)
(* FeedHub with history variables: what was broadcast, what each handler   *)
(* received on its channel and what it wrote to its websocket.  They are   *)
(* never read by an action, and MaxLog bounds them.  With them the feed is *)
(* shown to implement Broadcast.                                           *)
(***************************************************************************)
EXTENDS FeedHub, Sequences

CONSTANT MaxLog     \* bound on the number of broadcasts

ASSUME LogAssumption == MaxLog \in Nat

VARIABLES
    log,        \* the tweets broadcast, in order
    start,      \* the length of the log when a handler was registered
    inbox,      \* the tweets a handler received
    sent        \* the tweets it wrote to its websocket

history == <<log, start, inbox, sent>>
dVars == <<vars, history>>

DInit ==
    /\ Init
    /\ log = <<>>
    /\ start = [h \in Handler |-> 0]
    /\ inbox = [h \in Handler |-> <<>>]
    /\ sent = [h \in Handler |-> <<>>]

Publishing ==
    /\ Publish /\ Len(log) < MaxLog
    /\ log' = Append(log, outbox)
    /\ UNCHANGED <<start, inbox, sent>>

Joining(h) ==
    /\ AddClient(h)
    /\ start' = [start EXCEPT ![h] = Len(log)]
    /\ UNCHANGED <<log, inbox, sent>>

Receiving(h) ==
    /\ Deliver(h)
    /\ inbox' = [inbox EXCEPT ![h] = Append(@, msg)]
    /\ UNCHANGED <<log, start, sent>>

Writing(h) ==
    /\ WriteOk(h)
    /\ sent' = [sent EXCEPT ![h] = Append(@, inbox[h][Len(inbox[h])])]
    /\ UNCHANGED <<log, start, inbox>>

Silent(h) ==
    /\ \/ Connect(h) \/ Disconnect(h) \/ RemoveClient(h) \/ PickClient(h)
       \/ WriteFail(h) \/ Timeout(h) \/ PingOk(h) \/ PingFail(h)
    /\ UNCHANGED history

DNext ==
    \/ \E h \in Handler : Joining(h) \/ Receiving(h) \/ Writing(h) \/ Silent(h)
    \/ Publishing
    \/ ((\E t \in Tweet : Receive(t)) \/ EndBroadcast \/ Info) /\ UNCHANGED history

DSpec == DInit /\ [][DNext]_dVars

-----------------------------------------------------------------------------
DTypeOK ==
    /\ log \in Seq(Tweet)
    /\ start \in [Handler -> Nat]
    /\ inbox \in [Handler -> Seq(Tweet)]
    /\ sent \in [Handler -> Seq(Tweet)]

(* The broadcast under way has yet to reach h.                             *)
Pending(h) == h \in rest \/ (hubPc = "send" /\ target = h)

(* A registered client has received the whole log since it joined, except  *)
(* the tweet of a broadcast that has yet to reach it.                      *)
UpToDate ==
    \A h \in clients :
        start[h] + Len(inbox[h]) = Len(log) - (IF Pending(h) THEN 1 ELSE 0)

(* What a browser was sent is a contiguous run of the log that begins with *)
(* the first tweet broadcast after it was registered: no gap, no repeat,   *)
(* no reordering, however its handler, its timeouts and its errors         *)
(* interleave with the hub.                                                *)
GapFree ==
    \A h \in Handler :
        /\ start[h] + Len(sent[h]) <= Len(log)
        /\ \A k \in 1..Len(sent[h]) : sent[h][k] = log[start[h] + k]

(* A slow browser holds back the whole feed: nobody is ever more than two  *)
(* tweets ahead of it, the one it is being written and the one the hub is  *)
(* waiting to hand over.                                                   *)
LagBound == \A h \in clients : Len(log) - (start[h] + Len(sent[h])) <= 2

-----------------------------------------------------------------------------
(* The feed implements the abstract broadcast, its clients as the members. *)
B == INSTANCE Broadcast WITH Subscriber <- Handler, Message <- Tweet,
                             members <- clients
ImplementsBroadcast == B!BSpec
=============================================================================
