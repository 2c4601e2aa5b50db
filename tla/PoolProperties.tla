--------------------------- MODULE PoolProperties ---------------------------
(***************************************************************************)
(* What the pool of module Pool must never do, and what it must do in the  *)
(* end.                                                                    *)
(***************************************************************************)
EXTENDS Pool

Holders(s) == {g \in Caller : pc[g] \in InUse /\ want[g] = s}
OpenConns == {c \in Conn : transport[c] # "closed"}

\* Every variable of the pool keeps its type; no count of connections in use
\* falls below zero.
TypeOK ==
    /\ conns \in [Server -> Seq(Conn)]
    /\ activeCount \in [Server -> Nat]
    /\ stats \in [ActiveConns : Nat, IdleConns : Int]
    /\ closed \in BOOLEAN
    /\ transport \in [Conn -> {"closed", "healthy", "unhealthy"}]
    /\ pc \in [Caller -> PC]
    /\ want \in [Caller -> Server]
    /\ conn \in [Caller -> Conn \cup {NoConn}]
    /\ expired \subseteq Caller /\ cancelled \subseteq Caller /\ firing \subseteq Caller

\* "Maximum open connections per server" (pool.go:79) counts only connections
\* in use in the code; that idle ones fit under the same limit needs every path
\* of Get to use up the idle stack before it dials.
WithinLimits ==
    \A s \in Server :
        /\ activeCount[s] + Len(conns[s]) <= MaxOpen
        /\ Len(conns[s]) <= MaxIdle

\* activeCount is the number of callers between reservation and Put or a failed
\* dial: no slot leaks on any error path and none is given back twice.
SlotsAccounted ==
    \A s \in Server : activeCount[s] = Cardinality(Holders(s))

\* Stats agrees with the pool as long as the pool is not closed; Close leaves
\* IdleConns as it was.
StatsAgree ==
    /\ stats.ActiveConns = Cardinality({g \in Caller : pc[g] \in InUse})
    /\ ~closed =>
          stats.IdleConns = Cardinality(Bottom([s \in Server |-> Len(conns[s])]))

\* A connection is in one place: a caller that holds it shares it with no other
\* caller and with no idle stack, no stack lists it twice, it belongs to the
\* server asked for, and its transport has not been closed under its owner.
Exclusive ==
    /\ \A g \in Caller :
          /\ pc[g] = "holding" <=> conn[g] # NoConn
          /\ pc[g] = "holding" =>
                /\ transport[conn[g]] # "closed"
                /\ ServerName(conn[g]) = want[g]
                /\ \A h \in Caller : conn[h] = conn[g] => h = g
                /\ \A s \in Server : conn[g] \notin Idle(s)
    /\ \A s \in Server :
          /\ \A i, j \in 1..Len(conns[s]) : conns[s][i] = conns[s][j] => i = j
          /\ \A c \in Idle(s) : ServerName(c) = s /\ transport[c] # "closed"

\* No transport is forgotten: an open one is idle in its server's stack or held
\* by a caller, so Put or Close or the reaper still reaches it.
NoLeak ==
    \A c \in OpenConns :
        c \in Idle(ServerName(c)) \/ \E g \in Caller : conn[g] = c

\* No wakeup is lost: a goroutine that waits unsignalled waits for a server all
\* of whose slots are in use, in a pool that is open; one condition variable
\* serves all servers, and every path that gives a slot back signals it.
NoLostWakeup ==
    \A g \in Caller :
        pc[g] = "waiting" => ~closed /\ activeCount[want[g]] >= MaxOpen

\* After Close nothing is idle: what was dialled or held across Close is closed
\* by its Put, not put back.
ClosedIsEmpty == closed => \A s \in Server : conns[s] = <<>>

\* ExhaustedError means what it says: MaxOpen callers hold slots of that server
\* and no healthy connection to it is idle.
ExhaustedIsHonest ==
    [][\A g \in Caller :
         pc[g] # "exhausted" /\ pc'[g] = "exhausted" =>
           /\ Cardinality(Holders(want'[g])) = MaxOpen
           /\ \A c \in Idle(want'[g]) : ~Healthy(c)]_vars

\* Get never drops a connection it could have used: only unhealthy ones are
\* closed on the way, by callers that are looking for one.
OnlyBrokenDropped ==
    [][\A g \in Caller :
         pc[g] \in Returned \cup {"woken"} /\ pc'[g] # pc[g] =>
           \A c \in Conn : Healthy(c) => transport'[c] # "closed"]_vars

\* Every Get returns: its deadline or its context ends the wait at the latest.
GetReturns ==
    \A g \in Caller :
        pc[g] \in Blocked \cup {"dialing"} ~> pc[g] \notin Blocked \cup {"dialing"}

\* Once the pool is closed every connection is closed in the end, those dialled
\* or held at the time of Close too, provided that holders do call Put.
Drained ==
    (\A g \in Caller : []<>(pc[g] # "holding")) => (closed ~> OpenConns = {})

\* The mapping to PoolLease: a connection is where the caller is who holds it,
\* parked in a stack, or absent.
Place ==
    [c \in Conn |->
        IF \E g \in Caller : conn[g] = c THEN CHOOSE g \in Caller : conn[g] = c
        ELSE IF transport[c] = "closed" THEN "absent" ELSE "parked"]
Reserved == [g \in Caller |-> IF pc[g] = "dialing" THEN want[g] ELSE NoConn]

\* The markers of the mapping are no goroutines and no servers.
ASSUME LeaseAssumption == {"absent", "parked"} \cap Caller = {} /\ NoConn \notin Server

Lease == INSTANCE PoolLease WITH
    ServerOf <- ServerName,
    Absent <- "absent", Parked <- "parked", None <- NoConn,
    place <- Place, reserved <- Reserved, shut <- closed

\* The pool implements the abstract leases of PoolLease.
LeaseSpec == Lease!LeaseSpec
=============================================================================
