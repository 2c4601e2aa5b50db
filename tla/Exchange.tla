------------------------------ MODULE Exchange ------------------------------
(***************************************************************************)
(* Calls of the proxy (pkg/proxy/proxy.go) over pooled connections to      *)
(* local servers: withBackend, dialLocal with its initialize exchange, and *)
(* a request with recvResponse.  The pool is PoolLease, which Pool         *)
(* implements.                                                             *)
(*                                                                         *)
(* A connection is a process of its own, which answers what it was asked   *)
(* in any order, late, or never.  A caller that gave up leaves its request *)
(* behind on a connection that goes back to the pool as a healthy one.     *)
(*                                                                         *)
(* A message is a request or the reply to it: its JSON-RPC id, which is    *)
(* all the code sees, and its number among all requests made, which tells  *)
(* requests apart whatever their ids are.  Notifications, which the reader *)
(* ignores, are left out.                                                  *)
(***************************************************************************)
EXTENDS PoolLease

CONSTANTS MaxID         \* bound on the requests made

Msg == [id : 1..MaxID, number : 1..MaxID]

ASSUME ExchangeAssumption ==
    /\ MaxID \in Nat
    /\ Absent # Parked /\ Absent \notin Caller /\ Parked \notin Caller
    /\ None \notin Server /\ None \notin Conn /\ None \notin Msg
    /\ \A c \in Conn : ServerOf(c) \in Server

VARIABLES
    reqID,      \* Proxy.reqID
    made,       \* the requests made
    stage,      \* [Caller -> where it is in withBackend]
    line,       \* [Caller -> Conn \cup {None}]: backend.transport
    want,       \* [Caller -> Msg \cup {None}]: the request it waits for
    got,        \* [Caller -> Msg \cup {None}]: the reply it returns
    asked,      \* [Conn -> SUBSET Msg]: requests the process has not answered
    replies     \* [Conn -> SUBSET Msg]: replies that were not read

callVars == <<reqID, made, stage, line, want, got>>
wire == <<asked, replies>>
vars == <<leaseVars, callVars, wire>>

Init ==
    /\ LInit
    /\ reqID = 0 /\ made = 0
    /\ stage = [g \in Caller |-> "none"]
    /\ line = [g \in Caller |-> None]
    /\ want = [g \in Caller |-> None]
    /\ got = [g \in Caller |-> None]
    /\ asked = [c \in Conn |-> {}]
    /\ replies = [c \in Conn |-> {}]
-----------------------------------------------------------------------------
\* Mutant of nextID: each backend counts for itself, and it is used once.
nextIDOwn == 1

nextID == reqID + 1

Request == [id |-> nextID, number |-> made + 1]

\* g makes the next request.
Ask(g) ==
    /\ reqID < MaxID
    /\ reqID' = reqID + 1
    /\ made' = made + 1
    /\ want' = [want EXCEPT ![g] = Request]

\* What the transport g reads from has for it.
Unread(g) == IF line[g] = None THEN {} ELSE replies[line[g]]

\* Mutant of Matches: the next message is the reply.
MatchesAny(m, r) == m \in Msg

\* The message r that was read answers the request m.
Matches(m, r) == r.id = m.id
-----------------------------------------------------------------------------
(* pool.Get: a parked connection, or room for a new one.                   *)

GetParked(g, s) ==
    /\ stage[g] = "none"
    /\ Reuse(g, s)
    /\ stage' = [stage EXCEPT ![g] = "ready"]
    /\ \E c \in Conn : place'[c] = g /\ line' = [line EXCEPT ![g] = c]
    /\ UNCHANGED <<reqID, made, want, got, wire>>

GetNew(g, s) ==
    /\ stage[g] = "none"
    /\ Reserve(g, s)
    /\ stage' = [stage EXCEPT ![g] = "dial"]
    /\ UNCHANGED <<reqID, made, line, want, got, wire>>

\* dialLocal: a new process, asked to initialize.
StartProcess(g, c) ==
    /\ stage[g] = "dial"
    /\ c \in Of(reserved[g]) /\ place[c] = Absent
    /\ \A h \in Caller : line[h] # c
    /\ Ask(g)
    /\ stage' = [stage EXCEPT ![g] = "init"]
    /\ line' = [line EXCEPT ![g] = c]
    /\ asked' = [asked EXCEPT ![c] = {Request}]
    /\ replies' = [replies EXCEPT ![c] = {}]
    /\ UNCHANGED <<leaseVars, got>>

Initialized(g, r) ==
    /\ stage[g] = "init" /\ r \in Unread(g) /\ Matches(want[g], r)
    /\ Open(g) /\ place'[line[g]] = g
    /\ stage' = [stage EXCEPT ![g] = "ready"]
    /\ want' = [want EXCEPT ![g] = None]
    /\ replies' = [replies EXCEPT ![line[g]] = @ \ {r}]
    /\ UNCHANGED <<reqID, made, line, got, asked>>

\* The process cannot be started, or initialize fails and it is killed.
DialFails(g) ==
    /\ stage[g] \in {"dial", "init"}
    /\ Abandon(g)
    /\ stage' = [stage EXCEPT ![g] = "none"]
    /\ line' = [line EXCEPT ![g] = None]
    /\ want' = [want EXCEPT ![g] = None]
    /\ UNCHANGED <<reqID, made, got, wire>>
-----------------------------------------------------------------------------
(* listTools or callTool.                                                  *)

Send(g) ==
    /\ stage[g] = "ready"
    /\ Ask(g)
    /\ stage' = [stage EXCEPT ![g] = "wait"]
    /\ asked' = [asked EXCEPT ![line[g]] = @ \cup {Request}]
    /\ UNCHANGED <<leaseVars, line, got, replies>>

\* recvResponse, one pass of its loop.
Return(g, r) ==
    /\ stage[g] = "wait" /\ r \in Unread(g) /\ Matches(want[g], r)
    /\ stage' = [stage EXCEPT ![g] = "over"]
    /\ got' = [got EXCEPT ![g] = r]
    /\ replies' = [replies EXCEPT ![line[g]] = @ \ {r}]
    /\ UNCHANGED <<leaseVars, reqID, made, line, want, asked>>

Skip(g, r) ==
    /\ stage[g] \in {"init", "wait"} /\ r \in Unread(g) /\ ~Matches(want[g], r)
    /\ replies' = [replies EXCEPT ![line[g]] = @ \ {r}]
    /\ UNCHANGED <<leaseVars, callVars, asked>>

\* Send or Recv fails, the caller's context ends, or the minute is over.
GiveUp(g) ==
    /\ stage[g] \in {"ready", "wait"}
    /\ stage' = [stage EXCEPT ![g] = "over"]
    /\ UNCHANGED <<leaseVars, reqID, made, line, want, got, wire>>

\* The deferred Put, with Conn.Healthy as it was: the pool parks or closes it.
PutBack(g) == Park(g, line[g]) \/ Discard(g, line[g])

\* Mutant of Put: not deferred, so the connection is back before the reply.
PutEarly(g) ==
    /\ stage[g] \in {"wait", "over"} /\ PutBack(g)
    /\ IF stage[g] = "wait" THEN UNCHANGED <<stage, line, want, got>>
       ELSE /\ stage' = [stage EXCEPT ![g] = "none"]
            /\ line' = [line EXCEPT ![g] = None]
            /\ want' = [want EXCEPT ![g] = None]
            /\ got' = [got EXCEPT ![g] = None]
    /\ UNCHANGED <<reqID, made, wire>>

Put(g) ==
    /\ stage[g] = "over" /\ PutBack(g)
    /\ stage' = [stage EXCEPT ![g] = "none"]
    /\ line' = [line EXCEPT ![g] = None]
    /\ want' = [want EXCEPT ![g] = None]
    /\ got' = [got EXCEPT ![g] = None]
    /\ UNCHANGED <<reqID, made, wire>>
-----------------------------------------------------------------------------
(* The processes, and the pool by itself: its reaper, Proxy.Close.         *)

Answer(c, m) ==
    /\ m \in asked[c]
    /\ asked' = [asked EXCEPT ![c] = @ \ {m}]
    /\ replies' = [replies EXCEPT ![c] = @ \cup {m}]
    /\ UNCHANGED <<leaseVars, callVars>>

\* It exits, or will never answer.
Dies(c) ==
    /\ asked' = [asked EXCEPT ![c] = {}]
    /\ UNCHANGED <<leaseVars, callVars, replies>>

PoolMoves == (Evict \/ Shut) /\ UNCHANGED <<callVars, wire>>

Next ==
    \/ \E g \in Caller, s \in Server : GetParked(g, s) \/ GetNew(g, s)
    \/ \E g \in Caller, c \in Conn : StartProcess(g, c)
    \/ \E g \in Caller : \E r \in Unread(g) :
          Initialized(g, r) \/ Return(g, r) \/ Skip(g, r)
    \/ \E g \in Caller : DialFails(g) \/ Send(g) \/ GiveUp(g) \/ Put(g)
    \/ \E c \in Conn : Dies(c) \/ \E m \in asked[c] : Answer(c, m)
    \/ PoolMoves

Spec == Init /\ [][Next]_vars
-----------------------------------------------------------------------------
(* Properties.                                                             *)

Stage == {"none", "dial", "init", "ready", "wait", "over"}

\* Every variable keeps its type.
TypeOK ==
    /\ place \in [Conn -> {Absent, Parked} \cup Caller]
    /\ reserved \in [Caller -> Server \cup {None}]
    /\ reqID \in 0..MaxID /\ made \in 0..MaxID
    /\ stage \in [Caller -> Stage]
    /\ line \in [Caller -> Conn \cup {None}]
    /\ want \in [Caller -> Msg \cup {None}] /\ got \in [Caller -> Msg \cup {None}]
    /\ asked \in [Conn -> SUBSET Msg] /\ replies \in [Conn -> SUBSET Msg]

\* A caller returns the reply to the request it made itself, never a late one
\* to a request that an earlier holder of the connection gave up.
ReplyIsMine ==
    \A g \in Caller : got[g] # None => got[g] = want[g]

\* A reply that is read is not lost to another caller that waits for it: it is
\* returned by the one that asked, or nobody asks for it any more.
NoReplyStolen ==
    [][\A c \in Conn : \A r \in replies[c] \ replies'[c] :
         \A g \in Caller :
            stage[g] \in {"init", "wait"} /\ want[g] = r => stage'[g] # stage[g]]_vars
=============================================================================
