------------------------------ MODULE Broadcast ------------------------------
(***************************************************************************)
(* What the feed promises its subscribers, with no hub, channel or socket: *)
(* a subscriber is sent every message published from the moment it joins   *)
(* until it leaves, in order, without gap or repetition, and the publisher *)
(* waits for it once it is two messages behind.                            *)
(***************************************************************************)
EXTENDS Naturals, Sequences

CONSTANTS Subscriber, Message

VARIABLES
    log,        \* everything published
    members,    \* the subscribers
    start,      \* how much had been published when each of them joined
    sent        \* what each has been sent

bVars == <<log, members, start, sent>>

Position(s) == start[s] + Len(sent[s])
Lag(s) == Len(log) - Position(s)

BInit ==
    /\ log = <<>> /\ members = {}
    /\ start = [s \in Subscriber |-> 0]
    /\ sent = [s \in Subscriber |-> <<>>]

Join(s) ==
    /\ s \notin members /\ sent[s] = <<>>
    /\ members' = members \cup {s}
    /\ start' = [start EXCEPT ![s] = Len(log)]
    /\ UNCHANGED <<log, sent>>

Leave(s) ==
    /\ members' = members \ {s}
    /\ UNCHANGED <<log, start, sent>>

PublishMessage(m) ==
    /\ \A s \in members : Lag(s) <= 1
    /\ log' = Append(log, m)
    /\ UNCHANGED <<members, start, sent>>

Take(s) ==
    /\ s \in members /\ Position(s) < Len(log)
    /\ sent' = [sent EXCEPT ![s] = Append(@, log[Position(s) + 1])]
    /\ UNCHANGED <<log, members, start>>

BNext ==
    \/ \E s \in Subscriber : Join(s) \/ Leave(s) \/ Take(s)
    \/ \E m \in Message : PublishMessage(m)

BSpec == BInit /\ [][BNext]_bVars
=============================================================================
