-------------------------- MODULE FeedDeliveryProofs --------------------------
(***************************************************************************)
(* Proofs about the feed, for any connections, tweets and bounds: first of *)
(* FeedHub, its registry and its wedges, then of FeedDelivery, what a      *)
(* browser is sent, and that the feed implements Broadcast.                *)
(***************************************************************************)
EXTENDS FeedDelivery, FiniteSetTheorems, TLAPS

-----------------------------------------------------------------------------
(***************************************************************************)
(* FeedHub.                                                                *)
(*                                                                         *)
(* RegistryInv is not inductive alone: a RemoveClient may not disturb the  *)
(* range over the map (RangeInv), and what a wedged hub waits for depends  *)
(* on why its client is leaving (LoopInv).  Together with the types they   *)
(* are inductive, and every safety property of the runs follows.           *)
(***************************************************************************)

(* A handler that still loops has ticks left, only a broken connection     *)
(* makes it leave, and only a flaky one breaks.                            *)
LoopInv ==
    \A h \in Handler :
        /\ pc[h] # "done" => ticks[h] < MaxTicks
        /\ pc[h] \in Leaving => peer[h] = "down"
        /\ peer[h] = "down" => h \in Flaky

IInv == TypeOK /\ RegistryInv /\ RangeInv /\ LoopInv

-----------------------------------------------------------------------------
(* The map of clients is no larger than the set of connections, so what    *)
(* infoHandler reports is a count of connections.                          *)
LEMMA ClientCount ==
    ASSUME clients \subseteq Handler
    PROVE  Cardinality(clients) \in 0..Cardinality(Handler)
BY FS_Subset, FS_CardinalityType, HandlerAssumption

(* The initial state satisfies the inductive invariant.                    *)
LEMMA InitIInv == Init => IInv
<1> SUFFICES ASSUME Init PROVE IInv
    OBVIOUS
<1>1. Cardinality(Handler) \in Nat
    BY FS_CardinalityType, HandlerAssumption
<1>2. TypeOK
    BY <1>1, TicksAssumption DEF Init, TypeOK, Place
<1>3. RegistryInv /\ RangeInv /\ LoopInv
    BY NoneAssumption, TicksAssumption
    DEF Init, RegistryInv, RangeInv, LoopInv, Serving, Leaving
<1> QED BY <1>2, <1>3 DEF IInv

(* Every step keeps the types.                                             *)
LEMMA NextTypeOK == TypeOK /\ LoopInv /\ [Next]_vars => TypeOK'
<1> SUFFICES ASSUME TypeOK, LoopInv, [Next]_vars PROVE TypeOK'
    OBVIOUS
<1> USE TicksAssumption DEF TypeOK, Place, Serving, Leaving, Goto, Step,
        hubVars, handlerVars
<1>1. ASSUME NEW h \in Handler, Connect(h) PROVE TypeOK'
    BY <1>1 DEF Connect
<1>2. ASSUME NEW h \in Handler, Disconnect(h) PROVE TypeOK'
    BY <1>2 DEF Disconnect
<1>3. ASSUME NEW h \in Handler, AddClient(h) PROVE TypeOK'
    BY <1>3 DEF AddClient
<1>4. ASSUME NEW h \in Handler, RemoveClient(h) PROVE TypeOK'
    BY <1>4 DEF RemoveClient, ExitTicks
<1>5. ASSUME NEW h \in Handler, PickClient(h) PROVE TypeOK'
    BY <1>5 DEF PickClient
<1>6. ASSUME NEW h \in Handler, Deliver(h) PROVE TypeOK'
    BY <1>6 DEF Deliver
<1>7. ASSUME NEW h \in Handler, WriteOk(h) \/ WriteFail(h) PROVE TypeOK'
    BY <1>7 DEF WriteOk, WriteFail
<1>8. ASSUME NEW h \in Handler, Timeout(h) \/ PingFail(h) PROVE TypeOK'
    BY <1>8 DEF Timeout, PingFail
<1>9. ASSUME NEW h \in Handler, PingOk(h) PROVE TypeOK'
    <2>1. ticks[h] + 1 \in 0..MaxTicks + 1
        BY <1>9 DEF PingOk, LoopInv
    <2> QED BY <1>9, <2>1 DEF PingOk
<1>10. ASSUME NEW t \in Tweet, Receive(t) PROVE TypeOK'
    BY <1>10 DEF Receive
<1>11. CASE Publish \/ EndBroadcast
    BY <1>11 DEF Publish, EndBroadcast
<1>12. CASE Info
    BY <1>12, ClientCount DEF Info
<1>13. CASE UNCHANGED vars
    BY <1>13 DEF vars
<1> QED
    BY <1>1, <1>2, <1>3, <1>4, <1>5, <1>6, <1>7, <1>8, <1>9, <1>10, <1>11,
       <1>12, <1>13 DEF Next, HubStep, HandlerStep

(* Registrations: the map changes only with the handler it is about.       *)
LEMMA NextRegistryInv == TypeOK /\ RegistryInv /\ LoopInv /\ [Next]_vars => RegistryInv'
<1> SUFFICES ASSUME TypeOK, RegistryInv, LoopInv, [Next]_vars PROVE RegistryInv'
    OBVIOUS
<1> USE TicksAssumption DEF TypeOK, RegistryInv, Place, Serving, Leaving, Goto, Step,
        hubVars, handlerVars
<1>1. ASSUME NEW h \in Handler, Connect(h) \/ Disconnect(h) PROVE RegistryInv'
    BY <1>1 DEF Connect, Disconnect
<1>2. ASSUME NEW h \in Handler, AddClient(h) PROVE RegistryInv'
    BY <1>2 DEF AddClient
<1>3. ASSUME NEW h \in Handler, RemoveClient(h) PROVE RegistryInv'
    BY <1>3 DEF RemoveClient
<1>4. ASSUME NEW h \in Handler, PickClient(h) \/ Deliver(h) PROVE RegistryInv'
    BY <1>4 DEF PickClient, Deliver
<1>5. ASSUME NEW h \in Handler, WriteOk(h) \/ WriteFail(h) PROVE RegistryInv'
    BY <1>5 DEF WriteOk, WriteFail
<1>6. ASSUME NEW h \in Handler, Timeout(h) \/ PingFail(h) PROVE RegistryInv'
    BY <1>6 DEF Timeout, PingFail
<1>7. ASSUME NEW h \in Handler, PingOk(h) PROVE RegistryInv'
    BY <1>7 DEF PingOk, LoopInv
<1>8. CASE \E t \in Tweet : Receive(t)
    BY <1>8 DEF Receive
<1>9. CASE Publish \/ EndBroadcast \/ Info \/ UNCHANGED vars
    BY <1>9 DEF Publish, EndBroadcast, Info, vars
<1> QED
    BY <1>1, <1>2, <1>3, <1>4, <1>5, <1>6, <1>7, <1>8, <1>9
    DEF Next, HubStep, HandlerStep

(* The range: only the hub touches the map, and not while it is ranging.   *)
LEMMA NextRangeInv == TypeOK /\ RangeInv /\ [Next]_vars => RangeInv'
<1> SUFFICES ASSUME TypeOK, RangeInv, [Next]_vars PROVE RangeInv'
    OBVIOUS
<1> USE NoneAssumption DEF TypeOK, RangeInv, hubVars, handlerVars
<1>1. ASSUME NEW h \in Handler, Connect(h) \/ Disconnect(h) PROVE RangeInv'
    BY <1>1 DEF Connect, Disconnect
<1>2. ASSUME NEW h \in Handler, AddClient(h) PROVE RangeInv'
    BY <1>2 DEF AddClient
<1>3. ASSUME NEW h \in Handler, RemoveClient(h) PROVE RangeInv'
    BY <1>3 DEF RemoveClient
<1>4. ASSUME NEW h \in Handler, PickClient(h) PROVE RangeInv'
    BY <1>4 DEF PickClient
<1>5. ASSUME NEW h \in Handler, Deliver(h) PROVE RangeInv'
    BY <1>5 DEF Deliver
<1>6. ASSUME NEW h \in Handler, HandlerStep(h) PROVE RangeInv'
    BY <1>6 DEF HandlerStep, WriteOk, WriteFail, Timeout, PingOk, PingFail
<1>7. CASE \E t \in Tweet : Receive(t)
    BY <1>7 DEF Receive
<1>8. CASE Publish
    BY <1>8 DEF Publish
<1>9. CASE EndBroadcast \/ Info \/ UNCHANGED vars
    BY <1>9 DEF EndBroadcast, Info, vars
<1> QED
    BY <1>1, <1>2, <1>3, <1>4, <1>5, <1>6, <1>7, <1>8, <1>9 DEF Next, HubStep

(* The handlers: a loop that reaches its bound or fails does not go on.    *)
LEMMA NextLoopInv == TypeOK /\ LoopInv /\ [Next]_vars => LoopInv'
<1> SUFFICES ASSUME TypeOK, LoopInv, [Next]_vars PROVE LoopInv'
    OBVIOUS
<1> USE TicksAssumption DEF TypeOK, LoopInv, Place, Serving, Leaving, Goto, Step,
        hubVars, handlerVars
<1>1. ASSUME NEW h \in Handler, Connect(h) \/ Disconnect(h) PROVE LoopInv'
    BY <1>1 DEF Connect, Disconnect
<1>2. ASSUME NEW h \in Handler, AddClient(h) \/ RemoveClient(h) PROVE LoopInv'
    BY <1>2 DEF AddClient, RemoveClient
<1>3. ASSUME NEW h \in Handler, PickClient(h) \/ Deliver(h) PROVE LoopInv'
    BY <1>3 DEF PickClient, Deliver
<1>4. ASSUME NEW h \in Handler, WriteOk(h) \/ WriteFail(h) PROVE LoopInv'
    BY <1>4 DEF WriteOk, WriteFail
<1>5. ASSUME NEW h \in Handler, Timeout(h) \/ PingFail(h) PROVE LoopInv'
    BY <1>5 DEF Timeout, PingFail
<1>6. ASSUME NEW h \in Handler, PingOk(h) PROVE LoopInv'
    BY <1>6 DEF PingOk
<1>7. CASE \E t \in Tweet : Receive(t)
    BY <1>7 DEF Receive
<1>8. CASE Publish \/ EndBroadcast \/ Info \/ UNCHANGED vars
    BY <1>8 DEF Publish, EndBroadcast, Info, vars
<1> QED
    BY <1>1, <1>2, <1>3, <1>4, <1>5, <1>6, <1>7, <1>8
    DEF Next, HubStep, HandlerStep

(* The invariant of the feed service.                                      *)
THEOREM Invariance == Spec => []IInv
<1>1. IInv /\ [Next]_vars => IInv'
    BY NextTypeOK, NextRegistryInv, NextRangeInv, NextLoopInv DEF IInv
<1> QED BY <1>1, InitIInv, PTL DEF Spec

-----------------------------------------------------------------------------
(* The map of clients, the goroutines and the range agree in every state   *)
(* of the feed service, for any number of connections.                     *)
THEOREM Registry == Spec => []HubInv
<1>1. IInv => HubInv
    BY DEF IInv, HubInv
<1> QED BY <1>1, Invariance, PTL

(* The hub never wedges on a connection that neither broke nor expired:    *)
(* where no connection breaks, only the end of the loop wedges it.         *)
THEOREM Wedging == Spec => []WedgeCause
<1>1. IInv => WedgeCause
    BY DEF IInv, TypeOK, RegistryInv, RangeInv, LoopInv, WedgeCause, Wedged
<1> QED BY <1>1, Invariance, PTL

(* A wedged hub is wedged for good, whatever the handlers do.              *)
THEOREM WedgedForever == Spec => WedgeIsForever
<1>1. ASSUME IInv, [Next]_vars, Wedged
      PROVE  Wedged' /\ UNCHANGED <<clients, target, rest>>
    <2> USE <1>1 DEF IInv, TypeOK, RangeInv, Wedged, Leaving, Goto, Step,
            hubVars, handlerVars
    <2>1. target \in Handler
        OBVIOUS
    <2>2. ASSUME NEW h \in Handler, HubStep(h)
          PROVE  FALSE
        BY <2>2 DEF HubStep, AddClient, RemoveClient, PickClient, Deliver
    <2>3. ASSUME NEW h \in Handler, Connect(h) \/ Disconnect(h)
          PROVE  Wedged' /\ UNCHANGED <<clients, target, rest>>
        BY <2>3, <2>1 DEF Connect, Disconnect
    <2>4. ASSUME NEW h \in Handler, HandlerStep(h)
          PROVE  Wedged' /\ UNCHANGED <<clients, target, rest>>
        BY <2>4, <2>1 DEF HandlerStep, WriteOk, WriteFail, Timeout, PingOk, PingFail
    <2>5. CASE (\E t \in Tweet : Receive(t)) \/ Info \/ UNCHANGED vars
        BY <2>5 DEF Receive, Info, vars
    <2>6. CASE Publish \/ EndBroadcast
        BY <2>6 DEF Publish, EndBroadcast
    <2> QED BY <1>1, <2>2, <2>3, <2>4, <2>5, <2>6 DEF Next
<1>2. IInv /\ [Next]_vars
        => [Wedged => Wedged' /\ UNCHANGED <<clients, target, rest>>]_vars
    BY <1>1
<1> QED BY <1>2, Invariance, PTL DEF Spec, WedgeIsForever

-----------------------------------------------------------------------------
(***************************************************************************)
(* FeedDelivery.                                                           *)
(*                                                                         *)
(* What a browser is written is a contiguous run of the log, nobody is     *)
(* more than two tweets behind, and the feed implements Broadcast.  The    *)
(* invariant follows a tweet from the log to the inbox to the socket: the  *)
(* message of a broadcast is the last of the log (HubLog), an inbox is a   *)
(* run of the log (ReceivedRun) that lacks at most the broadcast under way *)
(* (UpToDate), and a socket was written all of the inbox but the tweet its *)
(* handler holds (WrittenRun).                                             *)
(***************************************************************************)
HubLog == hubPc # "select" => Len(log) > 0 /\ msg = log[Len(log)]

ReceivedRun ==
    \A h \in Handler :
        /\ start[h] + Len(inbox[h]) <= Len(log)
        /\ \A k \in 1..Len(inbox[h]) : inbox[h][k] = log[start[h] + k]

Holding(h) == pc[h] \in {"writing", "leavingMsg"}

WrittenRun ==
    \A h \in Handler :
        /\ pc[h] \in {"new", "adding"} => inbox[h] = <<>>
        /\ Holding(h) => Len(sent[h]) + 1 = Len(inbox[h])
        /\ ~Holding(h) /\ pc[h] # "done" => Len(sent[h]) = Len(inbox[h])
        /\ Len(sent[h]) <= Len(inbox[h]) /\ Len(inbox[h]) <= Len(sent[h]) + 1
        /\ \A k \in 1..Len(sent[h]) : sent[h][k] = inbox[h][k]

DInv == IInv /\ DTypeOK /\ HubLog /\ ReceivedRun /\ UpToDate /\ WrittenRun

-----------------------------------------------------------------------------
(* Every step of the feed with its history is a step of the feed.          *)
LEMMA StepsAreFeedSteps == [DNext]_dVars => [Next]_vars
BY DEF DNext, dVars, Joining, Receiving, Writing, Silent, Publishing, Next,
       HubStep, HandlerStep

(* The initial state satisfies the invariant.                              *)
LEMMA InitDInv == DInit => DInv
<1> SUFFICES ASSUME DInit PROVE DInv
    OBVIOUS
<1>1. IInv
    BY InitIInv DEF DInit
<1>2. DTypeOK /\ HubLog /\ ReceivedRun /\ UpToDate /\ WrittenRun
    BY DEF DInit, Init, DTypeOK, HubLog, ReceivedRun, UpToDate, WrittenRun,
           Holding
<1> QED BY <1>1, <1>2 DEF DInv

(* The steps that leave the history and the hub alone: they only move      *)
(* handlers, and none of them takes up or puts down a tweet.               *)
LEMMA QuietStep ==
    ASSUME DInv, UNCHANGED history, hubPc' = hubPc, msg' = msg, clients' \subseteq clients,
           \A h \in clients' : Pending(h)' = Pending(h),
           \A h \in Handler :
               /\ pc'[h] \in {"new", "adding"} => pc[h] \in {"new", "adding"}
               /\ pc'[h] # "done" => Holding(h)' = Holding(h) /\ pc[h] # "done"
    PROVE  (DTypeOK /\ HubLog /\ ReceivedRun /\ UpToDate /\ WrittenRun)'
<1> USE DEF DInv, history
<1>1. DTypeOK' /\ HubLog' /\ ReceivedRun'
    BY DEF DTypeOK, HubLog, ReceivedRun
<1>2. UpToDate'
    BY DEF UpToDate
<1>3. WrittenRun'
    BY DEF WrittenRun, Holding
<1> QED BY <1>1, <1>2, <1>3

(* A registration: the newcomer has received nothing since the log it      *)
(* starts from, and no broadcast is under way.                             *)
LEMMA JoiningStep ==
    ASSUME DInv, NEW h \in Handler, Joining(h)
    PROVE  (DTypeOK /\ HubLog /\ ReceivedRun /\ UpToDate /\ WrittenRun)'
<1> USE DEF DInv, IInv, TypeOK, Joining, AddClient, Step, Goto
<1>1. inbox[h] = <<>> /\ sent[h] = <<>>
    BY DEF WrittenRun, DTypeOK
<1>2. DTypeOK' /\ HubLog'
    BY DEF DTypeOK, HubLog
<1>3. ReceivedRun'
    BY <1>1 DEF DTypeOK, ReceivedRun
<1>4. UpToDate'
    BY <1>1 DEF DTypeOK, UpToDate, Pending, RangeInv
<1>5. WrittenRun'
    BY DEF DTypeOK, WrittenRun, Holding
<1> QED BY <1>2, <1>3, <1>4, <1>5

(* A broadcast begins: the log grows, and every client is yet to be told.  *)
LEMMA PublishingStep ==
    ASSUME DInv, Publishing
    PROVE  (DTypeOK /\ HubLog /\ ReceivedRun /\ UpToDate /\ WrittenRun)'
<1> USE DEF DInv, IInv, TypeOK, Publishing, Publish, handlerVars
<1>1. log \in Seq(Tweet) /\ outbox \in Tweet
    BY DEF DTypeOK
<1>2. /\ Len(log') = Len(log) + 1 /\ log'[Len(log')] = outbox
      /\ \A k \in 1..Len(log) : log'[k] = log[k]
    BY <1>1
<1>3. DTypeOK' /\ HubLog'
    BY <1>1, <1>2 DEF DTypeOK, HubLog
<1>4. ReceivedRun'
    <2> SUFFICES ASSUME NEW h \in Handler
                 PROVE  /\ start[h] + Len(inbox[h]) <= Len(log')
                        /\ \A k \in 1..Len(inbox[h]) :
                                inbox[h][k] = log'[start[h] + k]
        BY DEF ReceivedRun
    <2>1. start[h] \in Nat /\ Len(inbox[h]) \in Nat /\ Len(log) \in Nat
        BY DEF DTypeOK
    <2>2. \A k \in 1..Len(inbox[h]) : start[h] + k \in 1..Len(log)
        BY <2>1 DEF ReceivedRun
    <2> QED BY <2>1, <2>2, <1>2 DEF ReceivedRun
<1>5. UpToDate'
    BY <1>2 DEF DTypeOK, UpToDate, Pending, RangeInv
<1>6. WrittenRun'
    BY DEF WrittenRun, Holding
<1> QED BY <1>3, <1>4, <1>5, <1>6

(* A delivery: the client takes the last tweet of the log, the only one it *)
(* lacked.                                                                 *)
LEMMA ReceivingStep ==
    ASSUME DInv, NEW h \in Handler, Receiving(h)
    PROVE  (DTypeOK /\ HubLog /\ ReceivedRun /\ UpToDate /\ WrittenRun)'
<1> USE DEF DInv, IInv, TypeOK, Receiving, Deliver, Step, Goto
<1>1. h \in clients /\ Pending(h) /\ msg \in Tweet /\ msg = log[Len(log)]
    BY DEF RangeInv, Pending, HubLog
<1>2. /\ inbox[h] \in Seq(Tweet) /\ log \in Seq(Tweet) /\ start[h] \in Nat
      /\ start[h] + Len(inbox[h]) = Len(log) - 1
    BY <1>1 DEF DTypeOK, UpToDate
<1>3. /\ inbox' = [inbox EXCEPT ![h] = Append(@, msg)]
      /\ Len(inbox'[h]) = Len(inbox[h]) + 1
      /\ inbox'[h][Len(inbox[h]) + 1] = msg
      /\ \A k \in 1..Len(inbox[h]) : inbox'[h][k] = inbox[h][k]
    BY <1>1, <1>2 DEF DTypeOK
<1>4. DTypeOK' /\ HubLog'
    BY <1>1 DEF DTypeOK, HubLog
<1>5. ReceivedRun'
    <2> SUFFICES ASSUME NEW g \in Handler
                 PROVE  /\ start[g] + Len(inbox'[g]) <= Len(log)
                        /\ \A k \in 1..Len(inbox'[g]) :
                                inbox'[g][k] = log[start[g] + k]
        BY DEF ReceivedRun
    <2>1. CASE g # h
        BY <2>1 DEF DTypeOK, ReceivedRun
    <2>2. CASE g = h
        <3>1. Len(inbox[h]) \in Nat /\ Len(log) \in Nat
            BY <1>2
        <3>2. start[h] + (Len(inbox[h]) + 1) = Len(log)
            BY <1>2, <3>1
        <3>3. ASSUME NEW k \in 1..Len(inbox'[h])
              PROVE  inbox'[h][k] = log[start[h] + k]
            <4>1. CASE k \in 1..Len(inbox[h])
                BY <4>1, <1>3 DEF ReceivedRun
            <4>2. CASE k = Len(inbox[h]) + 1
                BY <4>2, <1>1, <1>3, <3>2
            <4> QED BY <4>1, <4>2, <1>3, <3>1
        <3> QED BY <2>2, <3>1, <3>2, <3>3, <1>3
    <2> QED BY <2>1, <2>2
<1>6. UpToDate'
    <2> SUFFICES ASSUME NEW g \in clients
                 PROVE  start[g] + Len(inbox'[g])
                            = Len(log) - (IF Pending(g)' THEN 1 ELSE 0)
        BY DEF UpToDate
    <2>1. CASE g # h
        BY <2>1, <1>1 DEF DTypeOK, UpToDate, Pending
    <2>2. CASE g = h
        <3>1. ~Pending(h)'
            BY DEF Pending, RangeInv
        <3>2. Len(inbox[h]) \in Nat /\ Len(log) \in Nat
            BY <1>2
        <3> QED BY <2>2, <3>1, <3>2, <1>2, <1>3
    <2> QED BY <2>1, <2>2
<1>7. WrittenRun'
    <2>1. Len(sent[h]) = Len(inbox[h])
        BY DEF WrittenRun, Holding
    <2> QED BY <1>3, <2>1 DEF DTypeOK, WrittenRun, Holding
<1> QED BY <1>4, <1>5, <1>6, <1>7

(* A write: the handler puts down the tweet it holds.                      *)
LEMMA WritingStep ==
    ASSUME DInv, NEW h \in Handler, Writing(h)
    PROVE  (DTypeOK /\ HubLog /\ ReceivedRun /\ UpToDate /\ WrittenRun)'
<1> USE DEF DInv, IInv, TypeOK, Writing, WriteOk, Step, Goto, hubVars
<1>1. /\ Len(sent[h]) + 1 = Len(inbox[h])
      /\ inbox[h] \in Seq(Tweet) /\ sent[h] \in Seq(Tweet)
    BY DEF WrittenRun, Holding, DTypeOK
<1>2. inbox[h][Len(inbox[h])] \in Tweet
    BY <1>1
<1>3. /\ Len(sent'[h]) = Len(inbox[h])
      /\ \A k \in 1..Len(sent'[h]) : sent'[h][k] = inbox[h][k]
    <2>1. \A k \in 1..Len(sent[h]) : sent[h][k] = inbox[h][k]
        BY DEF WrittenRun
    <2> QED BY <1>1, <1>2, <2>1 DEF DTypeOK
<1>4. DTypeOK' /\ HubLog' /\ ReceivedRun'
    BY <1>2 DEF DTypeOK, HubLog, ReceivedRun
<1>5. UpToDate'
    BY DEF UpToDate, Pending
<1>6. WrittenRun'
    <2>1. pc'[h] = "waiting" /\ inbox' = inbox
        OBVIOUS
    <2>2. ASSUME NEW g \in Handler, g # h
          PROVE  pc'[g] = pc[g] /\ sent'[g] = sent[g]
        BY <2>2 DEF DTypeOK
    <2> HIDE DEF DInv, IInv, TypeOK, Writing, WriteOk
    <2> DEFINE Run(g) ==
                 /\ pc[g] \in {"new", "adding"} => inbox[g] = <<>>
                 /\ Holding(g) => Len(sent[g]) + 1 = Len(inbox[g])
                 /\ ~Holding(g) /\ pc[g] # "done" => Len(sent[g]) = Len(inbox[g])
                 /\ Len(sent[g]) <= Len(inbox[g]) /\ Len(inbox[g]) <= Len(sent[g]) + 1
                 /\ \A k \in 1..Len(sent[g]) : sent[g][k] = inbox[g][k]
    <2>3. Run(h)'
        BY <1>1, <1>3, <2>1 DEF Holding
    <2>4. ASSUME NEW g \in Handler, g # h PROVE Run(g)'
        <3>1. Run(g)
            BY DEF DInv, WrittenRun
        <3> QED BY <3>1, <2>1, <2>2, <2>4 DEF Holding
    <2> QED BY <2>3, <2>4 DEF WrittenRun
<1> QED BY <1>4, <1>5, <1>6

(* The invariant is kept by every step.                                    *)
LEMMA NextDInv == DInv /\ [DNext]_dVars => DInv'
<1> SUFFICES ASSUME DInv, [DNext]_dVars PROVE DInv'
    OBVIOUS
<1> DEFINE HistoryInv ==
        DTypeOK /\ HubLog /\ ReceivedRun /\ UpToDate /\ WrittenRun
<1> USE DEF Step, Goto, hubVars, handlerVars
<1>1. IInv'
    BY StepsAreFeedSteps, NextTypeOK, NextRegistryInv, NextRangeInv, NextLoopInv
    DEF DInv, IInv
<1>2. ASSUME NEW h \in Handler, Joining(h) \/ Receiving(h) \/ Writing(h)
      PROVE  HistoryInv'
    BY <1>2, JoiningStep, ReceivingStep, WritingStep
<1>3. ASSUME Publishing PROVE HistoryInv'
    BY <1>3, PublishingStep
<1>4. ASSUME NEW h \in Handler, Connect(h) \/ Disconnect(h), UNCHANGED history
      PROVE  HistoryInv'
    BY <1>4, QuietStep
    DEF Connect, Disconnect, Pending, Holding, DInv, IInv, TypeOK
<1>5. ASSUME NEW h \in Handler, RemoveClient(h), UNCHANGED history
      PROVE  HistoryInv'
    BY <1>5, QuietStep DEF RemoveClient, Pending, Holding, Leaving, DInv, IInv, TypeOK
<1>6. ASSUME NEW h \in Handler, PickClient(h), UNCHANGED history
      PROVE  HistoryInv'
    <2> USE <1>6 DEF PickClient, DInv, IInv, TypeOK, history
    <2>1. DTypeOK' /\ HubLog' /\ ReceivedRun' /\ WrittenRun'
        BY DEF DTypeOK, HubLog, ReceivedRun, WrittenRun, Holding
    <2>2. UpToDate'
        BY DEF UpToDate, Pending, RangeInv
    <2> QED BY <2>1, <2>2
<1>7. ASSUME NEW h \in Handler, UNCHANGED history,
             WriteFail(h) \/ Timeout(h) \/ PingOk(h) \/ PingFail(h)
      PROVE  HistoryInv'
    BY <1>7, QuietStep
    DEF WriteFail, Timeout, PingOk, PingFail, Pending, Holding, DInv, IInv, TypeOK
<1>8. ASSUME UNCHANGED history, EndBroadcast
      PROVE  HistoryInv'
    <2> USE <1>8 DEF EndBroadcast, DInv, IInv, TypeOK, history
    <2>1. DTypeOK' /\ HubLog' /\ ReceivedRun' /\ WrittenRun'
        BY DEF DTypeOK, HubLog, ReceivedRun, WrittenRun, Holding
    <2>2. UpToDate'
        BY DEF UpToDate, Pending, RangeInv
    <2> QED BY <2>1, <2>2
<1>9. ASSUME UNCHANGED history, (\E t \in Tweet : Receive(t)) \/ Info \/ UNCHANGED vars
      PROVE  HistoryInv'
    BY <1>9, QuietStep
    DEF Receive, Info, vars, Pending, Holding, DInv, IInv, TypeOK
<1>10. HistoryInv'
    <2> HIDE DEF HistoryInv
    <2>1. CASE UNCHANGED dVars
        BY <2>1, <1>9 DEF dVars
    <2>2. ASSUME NEW h \in Handler, Silent(h) PROVE HistoryInv'
        BY <2>2, <1>4, <1>5, <1>6, <1>7 DEF Silent
    <2> QED BY <2>1, <2>2, <1>2, <1>3, <1>8, <1>9 DEF DNext
<1> QED BY <1>1, <1>10 DEF DInv

(* The invariant of the feed with its history.                             *)
THEOREM DeliveryInvariance == DSpec => []DInv
BY InitDInv, NextDInv, PTL DEF DSpec

-----------------------------------------------------------------------------
(* What a browser is written is a contiguous run of the log, from the      *)
(* first tweet broadcast after it was registered.                          *)
THEOREM GapFreeDelivery == DSpec => []GapFree
<1>1. DInv => GapFree
    BY DEF DInv, DTypeOK, ReceivedRun, WrittenRun, GapFree
<1> QED BY <1>1, DeliveryInvariance, PTL

(* The hub holds the feed back for its slowest client: no client is ever   *)
(* more than two tweets behind.                                            *)
THEOREM BoundedLag == DSpec => [](UpToDate /\ LagBound)
<1>1. DInv => UpToDate /\ LagBound
    <2> SUFFICES ASSUME DInv, NEW h \in clients
                 PROVE  Len(log) - (start[h] + Len(sent[h])) <= 2
        BY DEF DInv, LagBound
    <2>1. h \in Handler
        BY DEF DInv, IInv, TypeOK
    <2>2. /\ start[h] \in Nat /\ Len(log) \in Nat
          /\ Len(inbox[h]) \in Nat /\ Len(sent[h]) \in Nat
        BY <2>1 DEF DInv, DTypeOK
    <2>3. start[h] + Len(inbox[h]) >= Len(log) - 1
        BY <2>2 DEF DInv, UpToDate
    <2>4. Len(inbox[h]) <= Len(sent[h]) + 1
        BY <2>1 DEF DInv, WrittenRun
    <2> QED BY <2>2, <2>3, <2>4
<1> QED BY <1>1, DeliveryInvariance, PTL

(* The feed implements the abstract broadcast: its clients are the members *)
(* and what is written to their sockets is what they were sent.            *)
THEOREM Refinement == DSpec => ImplementsBroadcast
<1> USE DEF B!Position, B!Lag, B!bVars, Step, Goto, hubVars, handlerVars, history
<1>1. DInit => B!BInit
    BY DEF DInit, Init, B!BInit
<1>2. ASSUME DInv, [DNext]_dVars PROVE [B!BNext]_B!bVars
    <2> USE <1>2 DEF DInv, IInv, TypeOK
    <2>1. ASSUME NEW h \in Handler, Joining(h) PROVE B!Join(h)
        BY <2>1 DEF Joining, AddClient, B!Join, RegistryInv, WrittenRun, DTypeOK
    <2>2. ASSUME NEW h \in Handler, Writing(h) PROVE B!Take(h)
        <3>1. h \in clients /\ Len(sent[h]) + 1 = Len(inbox[h])
            BY <2>2 DEF Writing, WriteOk, RegistryInv, Serving, WrittenRun, Holding
        <3>2. start[h] \in Nat /\ Len(sent[h]) \in Nat /\ Len(inbox[h]) \in Nat
            BY DEF DTypeOK
        <3>3. Len(inbox[h]) \in 1..Len(inbox[h])
            BY <3>1, <3>2
        <3>4. /\ start[h] + Len(inbox[h]) <= Len(log)
              /\ inbox[h][Len(inbox[h])] = log[start[h] + Len(inbox[h])]
            BY <3>3 DEF ReceivedRun
        <3>5. start[h] + Len(inbox[h]) = start[h] + Len(sent[h]) + 1
            BY <3>1, <3>2
        <3>6. start[h] + Len(sent[h]) < Len(log)
            BY <3>2, <3>4, <3>5 DEF DTypeOK
        <3> QED BY <2>2, <3>1, <3>4, <3>5, <3>6 DEF Writing, WriteOk, B!Take
    <2>3. CASE Publishing
        <3>1. \A h \in clients : Len(log) - (start[h] + Len(sent[h])) <= 1
            BY <2>3 DEF Publishing, Publish, RangeInv, UpToDate, Pending,
                        WrittenRun, DTypeOK
        <3>2. outbox \in Tweet
            BY <2>3 DEF Publishing, Publish
        <3>3. B!PublishMessage(outbox)
            BY <2>3, <3>1 DEF Publishing, Publish, B!PublishMessage
        <3> QED BY <3>2, <3>3 DEF B!BNext
    <2>4. ASSUME NEW h \in Handler, RemoveClient(h), UNCHANGED history
          PROVE  B!Leave(h)
        BY <2>4 DEF RemoveClient, B!Leave
    <2>5. ASSUME NEW h \in Handler, Receiving(h) PROVE UNCHANGED B!bVars
        BY <2>5 DEF Receiving, Deliver
    <2>6. ASSUME NEW h \in Handler, Silent(h), ~RemoveClient(h)
          PROVE  UNCHANGED B!bVars
        BY <2>6 DEF Silent, Connect, Disconnect, PickClient, WriteFail, Timeout,
                    PingOk, PingFail
    <2>7. ASSUME (\E t \in Tweet : Receive(t)) \/ EndBroadcast \/ Info \/ UNCHANGED vars,
                 UNCHANGED history
          PROVE  UNCHANGED B!bVars
        BY <2>7 DEF Receive, EndBroadcast, Info, vars
    <2> QED BY <1>2, <2>1, <2>2, <2>3, <2>4, <2>5, <2>6, <2>7
            DEF DNext, Silent, B!BNext, dVars
<1> QED BY <1>1, <1>2, DeliveryInvariance, PTL DEF DSpec, ImplementsBroadcast, B!BSpec
=============================================================================
