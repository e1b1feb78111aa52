------------------------------- MODULE FeedHub -------------------------------
(***************************************************************************)
(* The feed service (src/feed/main.go): a hub goroutine owns the set of    *)
(* websocket clients and copies every tweet to each of them, one goroutine *)
(* per connection writes to its socket, one goroutine listens for tweets,  *)
(* and an HTTP handler reports how many clients there are.                 *)
(*                                                                         *)
(* Every channel is unbuffered, so a send and its receive are one step of  *)
(* both goroutines, and a goroutine whose partner is elsewhere waits.      *)
(* A handler stands for the message channel it makes and registers.        *)
(***************************************************************************)
EXTENDS Naturals, FiniteSets

CONSTANTS
    Handler,    \* the connections: one run of websocketHandler each
    Flaky,      \* the connections whose browser may vanish
    Tweet,      \* the JSON texts that are broadcast
    MaxTicks,   \* idle minutes a connection lasts (1440 in the code)
    None        \* no tweet, no client

ASSUME HandlerAssumption == IsFiniteSet(Handler) /\ Flaky \subseteq Handler
ASSUME TicksAssumption == MaxTicks \in Nat \ {0}
ASSUME NoneAssumption == None \notin Tweet /\ None \notin Handler

VARIABLES
    clients,    \* hub.clients
    hubPc,      \* "select", "range" (next key of the map) or "send" (s <- msg)
    rest,       \* the clients the range loop has not visited yet
    target,     \* the client the hub is sending to
    msg,        \* the message being broadcast
    outbox,     \* what listenForTweets is offering on hub.messages
    pc,         \* where each websocketHandler is
    ticks,      \* its loop counter i
    peer,       \* its browser, "up" or "down"
    reported    \* the last count infoHandler answered

hubVars == <<clients, hubPc, rest, target, msg>>
handlerVars == <<pc, ticks, peer>>
vars == <<clients, hubPc, rest, target, msg, outbox, pc, ticks, peer, reported>>

(* "writing" and "pinging" are inside websocket.Message.Send; the leaving  *)
(* places are blocked on removeClient after a failed write or ping.  A     *)
(* peer is "down" once the server's kernel knows the connection is broken: *)
(* until then a write succeeds into its buffer, from then on it fails.     *)
Leaving == {"leavingMsg", "leavingPing"}
Serving == {"waiting", "writing", "pinging"} \cup Leaving
Place == {"new", "adding", "done"} \cup Serving

TypeOK ==
    /\ clients \subseteq Handler
    /\ hubPc \in {"select", "range", "send"}
    /\ rest \subseteq Handler
    /\ target \in Handler \cup {None}
    /\ msg \in Tweet \cup {None}
    /\ outbox \in Tweet \cup {None}
    /\ pc \in [Handler -> Place]
    /\ ticks \in [Handler -> 0..MaxTicks + 1]
    /\ peer \in [Handler -> {"up", "down"}]
    /\ reported \in 0..Cardinality(Handler)

Init ==
    /\ clients = {} /\ hubPc = "select" /\ rest = {}
    /\ target = None /\ msg = None /\ outbox = None
    /\ pc = [h \in Handler |-> "new"]
    /\ ticks = [h \in Handler |-> 0]
    /\ peer = [h \in Handler |-> "up"]
    /\ reported = 0

Goto(h, place) == pc' = [pc EXCEPT ![h] = place]
Step(h, from, to) == pc[h] = from /\ Goto(h, to)

-----------------------------------------------------------------------------
(* The environment: browsers come and go, tweets arrive over ZMQ.          *)

Connect(h) ==
    /\ Step(h, "new", "adding")
    /\ UNCHANGED <<hubVars, outbox, ticks, peer, reported>>

Disconnect(h) ==
    /\ h \in Flaky /\ pc[h] \notin {"new", "done"} /\ peer[h] = "up"
    /\ peer' = [peer EXCEPT ![h] = "down"]
    /\ UNCHANGED <<hubVars, outbox, pc, ticks, reported>>

(* listenForTweets decoded a tweet and offers it to the hub.               *)
Receive(t) ==
    /\ outbox = None
    /\ outbox' = t
    /\ UNCHANGED <<hubVars, handlerVars, reported>>

-----------------------------------------------------------------------------
(* The hub's event loop: the three cases of its select, then the range.    *)

\* Mutant: pending tweets are taken before new clients.
AddClientLast(h) ==
    /\ hubPc = "select" /\ outbox = None /\ Step(h, "adding", "waiting")
    /\ clients' = clients \cup {h}
    /\ UNCHANGED <<hubPc, rest, target, msg, outbox, ticks, peer, reported>>

AddClient(h) ==
    /\ hubPc = "select" /\ Step(h, "adding", "waiting")
    /\ clients' = clients \cup {h}
    /\ UNCHANGED <<hubPc, rest, target, msg, outbox, ticks, peer, reported>>

ExitTicks(h) == IF pc[h] = "leavingPing" THEN MaxTicks + 1 ELSE MaxTicks

\* Mutant: the hub also takes removals while it is broadcasting.
RemoveClientAnyTime(h) ==
    /\ pc[h] \in Leaving /\ Goto(h, "done")
    /\ clients' = clients \ {h}
    /\ ticks' = [ticks EXCEPT ![h] = ExitTicks(h)]
    /\ UNCHANGED <<hubPc, rest, target, msg, outbox, peer, reported>>

RemoveClient(h) ==
    /\ hubPc = "select" /\ pc[h] \in Leaving /\ Goto(h, "done")
    /\ clients' = clients \ {h}
    /\ ticks' = [ticks EXCEPT ![h] = ExitTicks(h)]
    /\ UNCHANGED <<hubPc, rest, target, msg, outbox, peer, reported>>

Publish ==
    /\ hubPc = "select" /\ outbox # None
    /\ hubPc' = "range" /\ rest' = clients /\ msg' = outbox
    /\ outbox' = None
    /\ UNCHANGED <<clients, target, handlerVars, reported>>

\* Mutant: a client that is busy is skipped, as with select and default.
PickClientReady(h) ==
    /\ hubPc = "range" /\ h \in rest /\ rest' = rest \ {h}
    /\ IF pc[h] = "waiting"
         THEN hubPc' = "send" /\ target' = h
         ELSE UNCHANGED <<hubPc, target>>
    /\ UNCHANGED <<clients, msg, outbox, handlerVars, reported>>

PickClient(h) ==
    /\ hubPc = "range" /\ h \in rest
    /\ hubPc' = "send" /\ target' = h /\ rest' = rest \ {h}
    /\ UNCHANGED <<clients, msg, outbox, handlerVars, reported>>

\* Mutant: a client that is not ready to receive is skipped.
DeliverOrSkip(h) ==
    /\ hubPc = "send" /\ target = h
    /\ IF pc[h] = "waiting" THEN Goto(h, "writing") ELSE UNCHANGED pc
    /\ hubPc' = "range" /\ target' = None
    /\ UNCHANGED <<clients, rest, msg, outbox, ticks, peer, reported>>

(* s <- msg: only a handler that is in its select can receive.             *)
Deliver(h) ==
    /\ hubPc = "send" /\ target = h /\ Step(h, "waiting", "writing")
    /\ hubPc' = "range" /\ target' = None
    /\ UNCHANGED <<clients, rest, msg, outbox, ticks, peer, reported>>

\* Mutant: a broadcast stops after some of the clients.
EndBroadcastEarly ==
    /\ hubPc = "range"
    /\ hubPc' = "select" /\ msg' = None /\ rest' = {}
    /\ UNCHANGED <<clients, target, outbox, handlerVars, reported>>

EndBroadcast ==
    /\ hubPc = "range" /\ rest = {}
    /\ hubPc' = "select" /\ msg' = None
    /\ UNCHANGED <<clients, rest, target, outbox, handlerVars, reported>>

-----------------------------------------------------------------------------
(* websocketHandler: the select loop of one connection.                    *)

WriteOk(h) ==
    /\ peer[h] = "up" /\ Step(h, "writing", "waiting")
    /\ UNCHANGED <<hubVars, outbox, ticks, peer, reported>>

\* Mutant: the test of err is inverted, a handler leaves after a good write.
WriteFailInverted(h) ==
    /\ peer[h] = "up" /\ Step(h, "writing", "leavingMsg")
    /\ UNCHANGED <<hubVars, outbox, ticks, peer, reported>>

WriteFail(h) ==
    /\ peer[h] = "down" /\ Step(h, "writing", "leavingMsg")
    /\ UNCHANGED <<hubVars, outbox, ticks, peer, reported>>

(* Sixty seconds without a message: time.After is the ready case.          *)
Timeout(h) ==
    /\ Step(h, "waiting", "pinging")
    /\ UNCHANGED <<hubVars, outbox, ticks, peer, reported>>

(* i++; the handler returns at the bound, without a removeClient.          *)
PingOk(h) ==
    /\ peer[h] = "up"
    /\ Step(h, "pinging", IF ticks[h] + 1 < MaxTicks THEN "waiting" ELSE "done")
    /\ ticks' = [ticks EXCEPT ![h] = @ + 1]
    /\ UNCHANGED <<hubVars, outbox, peer, reported>>

\* Mutant: a failed ping is ignored.
PingFailIgnored(h) ==
    /\ peer[h] = "down" /\ Step(h, "pinging", "waiting")
    /\ UNCHANGED <<hubVars, outbox, ticks, peer, reported>>

PingFail(h) ==
    /\ peer[h] = "down" /\ Step(h, "pinging", "leavingPing")
    /\ UNCHANGED <<hubVars, outbox, ticks, peer, reported>>

(* infoHandler reads the size of the map from another goroutine, with no   *)
(* synchronisation: it sees the size before or after a concurrent change.  *)
Info ==
    /\ reported' = Cardinality(clients)
    /\ UNCHANGED <<hubVars, outbox, handlerVars>>

-----------------------------------------------------------------------------
HubStep(h) == AddClient(h) \/ RemoveClient(h) \/ PickClient(h) \/ Deliver(h)
HandlerStep(h) ==
    WriteOk(h) \/ WriteFail(h) \/ Timeout(h) \/ PingOk(h) \/ PingFail(h)

Next ==
    \/ \E h \in Handler : Connect(h) \/ Disconnect(h) \/ HubStep(h) \/ HandlerStep(h)
    \/ \E t \in Tweet : Receive(t)
    \/ Publish \/ EndBroadcast \/ Info

Spec == Init /\ [][Next]_vars

(* Scheduling.  The Go runtime runs every goroutine that can step, timers  *)
(* fire, and a select picks at random among its ready cases, so a case     *)
(* that is ready again and again is taken.  That a Send returns is an      *)
(* assumption on the browsers: the code sets no write deadline.  Nothing   *)
(* is assumed of browsers connecting or leaving, nor of tweets arriving.   *)
Fairness ==
    /\ WF_vars(EndBroadcast) /\ SF_vars(Publish)
    /\ WF_vars(\E h \in Handler : PickClient(h))
    /\ \A h \in Handler :
        /\ SF_vars(AddClient(h)) /\ SF_vars(RemoveClient(h))
        /\ WF_vars(Deliver(h)) /\ WF_vars(Timeout(h))
        /\ WF_vars(WriteOk(h) \/ WriteFail(h))
        /\ WF_vars(PingOk(h) \/ PingFail(h))

FairSpec == Spec /\ Fairness

-----------------------------------------------------------------------------
(* Safety.                                                                 *)

(* The map and the goroutines agree: a handler is registered exactly from  *)
(* its add to its remove, and the only stale entries are those of handlers *)
(* that used up all their ticks and returned without a removeClient.       *)
RegistryInv ==
    \A h \in Handler :
        /\ pc[h] \in Serving => h \in clients
        /\ pc[h] \in {"new", "adding"} => h \notin clients
        /\ pc[h] = "done" /\ h \in clients => ticks[h] = MaxTicks

(* The map never changes under the range: what is left to visit and the    *)
(* client being sent to are registered, and no client is visited twice.    *)
RangeInv ==
    /\ rest \subseteq clients
    /\ hubPc = "send" => target \in clients /\ target \notin rest
    /\ hubPc # "send" => target = None
    /\ hubPc = "select" <=> msg = None
    /\ hubPc = "select" => rest = {}

(* The bookkeeping of the hub, whatever the goroutines' interleaving.      *)
HubInv == TypeOK /\ RegistryInv /\ RangeInv

(* The hub is sending to a handler that will never receive: one waiting    *)
(* for the hub to take its removal, or one that has returned.              *)
Wedged == hubPc = "send" /\ pc[target] \in Leaving \cup {"done"}

(* The hub wedges only on a connection that broke or one that expired:     *)
(* a slow browser alone never causes it.                                   *)
WedgeCause == Wedged => target \in Flaky \/ ticks[target] = MaxTicks

(* Removals and registrations wait for the end of a broadcast, so a wedged *)
(* hub stays wedged on the same client and its map is frozen for good.     *)
WedgeIsForever ==
    [][Wedged => Wedged' /\ UNCHANGED <<clients, target, rest>>]_vars

-----------------------------------------------------------------------------
(* Liveness.  Each says what the feed does unless the hub wedges.          *)

(* A connecting browser is registered, however busy the feed is.           *)
JoinersServed ==
    \A h \in Handler : (pc[h] = "adding") ~> (h \in clients \/ Wedged)

(* A broken connection is noticed, by a message or by the next ping, and   *)
(* forgotten.                                                              *)
DeadPeersDropped ==
    \A h \in Handler :
        (peer[h] = "down" /\ h \in clients) ~> (h \notin clients \/ Wedged)

-----------------------------------------------------------------------------
(* main.go:32, "Event loop to handle adding/removing/clients and message   *)
(* publishing": a handler asking to be removed is removed.  Refuted.       *)
RemovalsHandled ==
    \A h \in Handler : (pc[h] \in Leaving) ~> (h \notin clients)
=============================================================================
