---------------------------- MODULE HubExchange ----------------------------
(***************************************************************************)
(* Exchange with a choice of backend: calls of the proxy over its local    *)
(* pool, or, when the router says so, over its pool of websocket lines to  *)
(* one host of the gateway's hub (dialHub, proxy_hub.go).                  *)
(*                                                                         *)
(* All lines end at the same host, and the hub broadcasts every reply of   *)
(* the host to all its clients: to every line of this proxy, and what the  *)
(* host replies to other proxies as well.  Each proxy counts its own ids   *)
(* from 1, and the transport's initialize request has the id 1 always.     *)
(* A message of number 0 is a reply to another proxy.                      *)
(***************************************************************************)
EXTENDS Exchange

CONSTANT OthersID   \* bound: the ids of the replies to others that reach the lines

ASSUME HubExchangeAssumption == OthersID \subseteq 1..MaxID

VARIABLES
    viaHub,     \* the router's decision
    pending,    \* this proxy's requests that the host has not answered
    inbox,      \* [Conn -> messages of the line that were not read]
    heard       \* [Caller -> the reply it returns over the hub]: got, for the hub

hubVars == <<pending, inbox, heard>>

Foreign(i) == [id |-> i, number |-> 0]

HInit ==
    /\ Init
    /\ viaHub \in BOOLEAN
    /\ pending = {} /\ inbox = [c \in Conn |-> {}]
    /\ heard = [g \in Caller |-> None]

Attached == {c \in Conn : place[c] # Absent \/ \E g \in Caller : line[g] = c}
Arrived(g) == IF line[g] = None THEN {} ELSE inbox[line[g]]
Read(g, r) == inbox' = [inbox EXCEPT ![line[g]] = @ \ {r}]

\* dialHub: a line, and the initialize request of its transport, whose id is no
\* id of the proxy's counter.
HubDial(g, c) ==
    /\ stage[g] = "dial" /\ made < MaxID
    /\ c \in Of(reserved[g]) \ Attached
    /\ made' = made + 1
    /\ want' = [want EXCEPT ![g] = [id |-> 1, number |-> made']]
    /\ stage' = [stage EXCEPT ![g] = "init"]
    /\ line' = [line EXCEPT ![g] = c]
    /\ pending' = pending \cup {want'[g]}
    /\ inbox' = [inbox EXCEPT ![c] = {}]
    /\ UNCHANGED <<leaseVars, reqID, got, wire, heard>>

\* The first message that arrives is taken for the reply, whatever its id.
HubInitialized(g, r) ==
    /\ stage[g] = "init" /\ r \in Arrived(g)
    /\ Open(g) /\ place'[line[g]] = g
    /\ stage' = [stage EXCEPT ![g] = "ready"]
    /\ want' = [want EXCEPT ![g] = None]
    /\ Read(g, r)
    /\ UNCHANGED <<reqID, made, line, got, wire, pending, heard>>

HubSend(g) ==
    /\ stage[g] = "ready" /\ made < MaxID
    /\ Ask(g)
    /\ stage' = [stage EXCEPT ![g] = "wait"]
    /\ pending' = pending \cup {Request}
    /\ UNCHANGED <<leaseVars, line, got, wire, inbox, heard>>

HubReturn(g, r) ==
    /\ stage[g] = "wait" /\ r \in Arrived(g) /\ Matches(want[g], r)
    /\ stage' = [stage EXCEPT ![g] = "over"]
    /\ heard' = [heard EXCEPT ![g] = r]
    /\ Read(g, r)
    /\ UNCHANGED <<leaseVars, reqID, made, line, want, got, wire, pending>>

HubSkip(g, r) ==
    /\ stage[g] = "wait" /\ r \in Arrived(g) /\ ~Matches(want[g], r)
    /\ Read(g, r)
    /\ UNCHANGED <<leaseVars, callVars, wire, pending, heard>>

\* Host.Broadcast.
Broadcast(m) == inbox' = [c \in Conn |-> IF c \in Attached THEN inbox[c] \cup {m} ELSE inbox[c]]

HostAnswers(m) ==
    /\ m \in pending
    /\ pending' = pending \ {m}
    /\ Broadcast(m)
    /\ UNCHANGED <<leaseVars, callVars, wire, heard>>

HostAnswersOthers(i) ==
    /\ Broadcast(Foreign(i))
    /\ UNCHANGED <<leaseVars, callVars, wire, pending, heard>>

\* The host goes, and leaves everything unanswered.
HostGone ==
    /\ pending' = {}
    /\ UNCHANGED <<leaseVars, callVars, wire, inbox, heard>>

\* A line that failed goes back as a healthy one too.
HubPut(g) ==
    /\ Put(g)
    /\ heard' = [heard EXCEPT ![g] = None]
    /\ UNCHANGED <<pending, inbox>>

HubNext ==
    \/ /\ \/ \E g \in Caller, s \in Server : GetParked(g, s) \/ GetNew(g, s)
          \/ \E g \in Caller : DialFails(g) \/ GiveUp(g)
          \/ PoolMoves
       /\ UNCHANGED hubVars
    \/ \E g \in Caller, c \in Conn : HubDial(g, c)
    \/ \E g \in Caller : \E r \in Arrived(g) :
          HubInitialized(g, r) \/ HubReturn(g, r) \/ HubSkip(g, r)
    \/ \E g \in Caller : HubSend(g) \/ HubPut(g)
    \/ \E m \in pending : HostAnswers(m)
    \/ \E i \in OthersID : HostAnswersOthers(i)
    \/ HostGone

HNext ==
    /\ UNCHANGED viaHub
    /\ IF viaHub THEN HubNext ELSE Next /\ UNCHANGED hubVars

HSpec == HInit /\ [][HNext]_<<vars, viaHub, hubVars>>
-----------------------------------------------------------------------------
\* Over the hub, too, a caller never returns the reply to another request of its
\* own proxy, though every line gets all of them, late ones included.  What is
\* not excluded is the code's: the reply to a request of another proxy with the
\* same id, and for the request with id 1 the reply to an initialize.
HubReplyIsMine ==
    \A g \in Caller : heard[g] # None =>
        heard[g] = want[g] \/ heard[g].number = 0 \/ heard[g].id = 1
=============================================================================
