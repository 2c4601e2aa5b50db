-------------------------------- MODULE Pool --------------------------------
(***************************************************************************)
(* The connection pool of pkg/pool/pool.go: idle stacks and a count of the *)
(* connections in use per server, one mutex and one condition variable for *)
(* all of them.                                                            *)
(*                                                                         *)
(* A caller is a goroutine inside Get, or one that holds the connection    *)
(* Get returned until it calls Put; WarmUp is a set of such callers.  Each *)
(* action is one critical section of Pool.mu.  The dial runs outside the   *)
(* mutex and is a step of its own.  A callback of time.AfterFunc or        *)
(* context.AfterFunc that has started but has not got the mutex yet is in  *)
(* `firing`.                                                               *)
(*                                                                         *)
(* The pair <<server, id>> is one *Conn together with its transport; its   *)
(* ServerName is the first component.  An id whose transport is closed may *)
(* be used again for a later connection.                                   *)
(***************************************************************************)
EXTENDS Integers, FiniteSets, Sequences

CONSTANTS
    Server,         \* server names
    Caller,         \* goroutines that use the pool
    Id,             \* identities of connections, per server
    MaxIdle, MaxOpen,
    WaitTimeout,    \* 0: Get fails at once when the pool is saturated
    NoConn

Conn == Server \X Id
ServerName(c) == c[1]

\* New (lines 86-96) replaces limits that are not positive by defaults.
ASSUME PoolAssumption ==
    /\ MaxIdle \in Nat \ {0}
    /\ MaxOpen \in Nat \ {0}
    /\ WaitTimeout \in Nat
    /\ IsFiniteSet(Server) /\ IsFiniteSet(Caller)
    /\ NoConn \notin Conn

VARIABLES
    conns,          \* [Server -> Seq(Conn)]: idle connections, last put on top
    activeCount,    \* [Server -> Int]
    stats,          \* [ActiveConns, IdleConns]
    closed,         \* Pool.closed
    transport,      \* [Conn -> {"closed", "healthy", "unhealthy"}]
    pc,             \* where each caller is
    want,           \* [Caller -> Server]: the serverName of its last Get
    conn,           \* [Caller -> Conn \cup {NoConn}]: what it holds
    expired,        \* callers whose deadline has passed
    cancelled,      \* callers whose context is done
    firing          \* callers whose timer or context callback has started

poolVars == <<conns, activeCount, stats, closed, transport>>
callVars == <<pc, want, conn, expired, cancelled, firing>>
vars == <<poolVars, callVars>>

\* The outcomes of a finished call; a caller is in one of these between calls.
Returned == {"ready", "exhausted", "cancelled", "refused", "dialFailed"}
InUse == {"dialing", "holding"}     \* has a slot of activeCount
Blocked == {"waiting", "woken"}     \* in cond.Wait, or signalled and without the mutex
PC == Returned \cup InUse \cup Blocked

\* Broadcast: every goroutine in cond.Wait is signalled.
Signalled(f) == [g \in Caller |-> IF f[g] = "waiting" THEN "woken" ELSE f[g]]

Top(s, n) == {conns[s][i] : i \in (Len(conns[s]) - n + 1)..Len(conns[s])}
Rest(s, n) == SubSeq(conns[s], 1, Len(conns[s]) - n)
Healthy(c) == transport[c] = "healthy"
Shutting(D) == [c \in Conn |-> IF c \in D THEN "closed" ELSE transport[c]]

Init ==
    /\ conns = [s \in Server |-> <<>>]
    /\ activeCount = [s \in Server |-> 0]
    /\ stats = [ActiveConns |-> 0, IdleConns |-> 0]
    /\ closed = FALSE
    /\ transport = [c \in Conn |-> "closed"]
    /\ pc = [g \in Caller |-> "ready"]
    /\ want \in [Caller -> Server]
    /\ conn = [g \in Caller |-> NoConn]
    /\ expired = {} /\ cancelled = {} /\ firing = {}
-----------------------------------------------------------------------------
(* Get.  A look at the idle stack of s either finds a healthy connection   *)
(* under n unhealthy ones, which are closed, or drops n and finds nothing. *)

\* Mutant of Take: the connection stays on the stack.
TakeKeeps(g, s, n) ==
    LET c == conns[s][Len(conns[s]) - n] IN
    /\ n < Len(conns[s]) /\ Healthy(c) /\ \A d \in Top(s, n) : ~Healthy(d)
    /\ conns' = [conns EXCEPT ![s] = Rest(s, n)]
    /\ transport' = Shutting(Top(s, n))
    /\ activeCount' = [activeCount EXCEPT ![s] = @ + 1]
    /\ stats' = [ActiveConns |-> stats.ActiveConns + 1, IdleConns |-> stats.IdleConns - n - 1]
    /\ pc' = [pc EXCEPT ![g] = "holding"] /\ conn' = [conn EXCEPT ![g] = c]
    /\ UNCHANGED closed

\* Mutant of Take: the statistics miss the connections dropped on the way.
TakeMiscounts(g, s, n) ==
    LET c == conns[s][Len(conns[s]) - n] IN
    /\ n < Len(conns[s]) /\ Healthy(c) /\ \A d \in Top(s, n) : ~Healthy(d)
    /\ conns' = [conns EXCEPT ![s] = Rest(s, n + 1)]
    /\ transport' = Shutting(Top(s, n))
    /\ activeCount' = [activeCount EXCEPT ![s] = @ + 1]
    /\ stats' = [ActiveConns |-> stats.ActiveConns + 1, IdleConns |-> stats.IdleConns - 1]
    /\ pc' = [pc EXCEPT ![g] = "holding"] /\ conn' = [conn EXCEPT ![g] = c]
    /\ UNCHANGED closed

Take(g, s, n) ==
    LET c == conns[s][Len(conns[s]) - n] IN
    /\ n < Len(conns[s])
    /\ Healthy(c)
    /\ \A d \in Top(s, n) : ~Healthy(d)
    /\ conns' = [conns EXCEPT ![s] = Rest(s, n + 1)]
    /\ transport' = Shutting(Top(s, n))
    /\ activeCount' = [activeCount EXCEPT ![s] = @ + 1]
    /\ stats' = [ActiveConns |-> stats.ActiveConns + 1,
                 IdleConns |-> stats.IdleConns - n - 1]
    /\ pc' = [pc EXCEPT ![g] = "holding"]
    /\ conn' = [conn EXCEPT ![g] = c]
    /\ UNCHANGED closed

\* Mutant of Dropped: healthy connections are dropped too.
DroppedAny(s, n) ==
    /\ conns' = [conns EXCEPT ![s] = Rest(s, n)]
    /\ transport' = Shutting(Top(s, n))
    /\ UNCHANGED <<closed, conn>>

Dropped(s, n) ==
    /\ \A d \in Top(s, n) : ~Healthy(d)
    /\ conns' = [conns EXCEPT ![s] = Rest(s, n)]
    /\ transport' = Shutting(Top(s, n))
    /\ UNCHANGED <<closed, conn>>

\* Mutants of Reserve: one slot too many; the slot is not counted.
ReserveOneMore(g, s, n) ==
    /\ Dropped(s, n)
    /\ activeCount[s] <= MaxOpen
    /\ activeCount' = [activeCount EXCEPT ![s] = @ + 1]
    /\ stats' = [ActiveConns |-> stats.ActiveConns + 1, IdleConns |-> stats.IdleConns - n]
    /\ pc' = [pc EXCEPT ![g] = "dialing"]
ReserveUncounted(g, s, n) ==
    /\ Dropped(s, n)
    /\ activeCount[s] < MaxOpen
    /\ stats' = [ActiveConns |-> stats.ActiveConns + 1, IdleConns |-> stats.IdleConns - n]
    /\ pc' = [pc EXCEPT ![g] = "dialing"]
    /\ UNCHANGED activeCount

\* Room under maxOpen: count the slot, leave the mutex and dial.
Reserve(g, s, n) ==
    /\ Dropped(s, n)
    /\ activeCount[s] < MaxOpen
    /\ activeCount' = [activeCount EXCEPT ![s] = @ + 1]
    /\ stats' = [ActiveConns |-> stats.ActiveConns + 1,
                 IdleConns |-> stats.IdleConns - n]
    /\ pc' = [pc EXCEPT ![g] = "dialing"]

\* No room: an error, or cond.Wait.
Saturated(g, s, n, outcome) ==
    /\ Dropped(s, n)
    /\ activeCount[s] >= MaxOpen
    /\ stats' = [stats EXCEPT !.IdleConns = @ - n]
    /\ pc' = [pc EXCEPT ![g] = outcome]
    /\ UNCHANGED activeCount

GetRefused(g, s) ==
    /\ pc[g] \in Returned
    /\ closed
    /\ pc' = [pc EXCEPT ![g] = "refused"]
    /\ want' = [want EXCEPT ![g] = s]
    /\ UNCHANGED <<poolVars, conn, expired, cancelled, firing>>

\* The first look drops every unhealthy connection above a healthy one, or all.
Begin(g, s) ==
    /\ pc[g] \in Returned
    /\ ~closed
    /\ want' = [want EXCEPT ![g] = s]
    /\ UNCHANGED <<expired, cancelled, firing>>

GetIdle(g, s) == Begin(g, s) /\ \E n \in 0..Len(conns[s]) : Take(g, s, n)
GetNew(g, s) == Begin(g, s) /\ Reserve(g, s, Len(conns[s]))
\* With a wait timeout the deadline may pass before the first look at it.
GetExhausted(g, s) == Begin(g, s) /\ Saturated(g, s, Len(conns[s]), "exhausted")
\* The caller's context was done before it had to wait.
GetCancelled(g, s) ==
    /\ WaitTimeout > 0
    /\ Begin(g, s) /\ Saturated(g, s, Len(conns[s]), "cancelled")
GetWait(g, s) ==
    /\ WaitTimeout > 0
    /\ Begin(g, s) /\ Saturated(g, s, Len(conns[s]), "waiting")
-----------------------------------------------------------------------------
(* The wait loop of Get, from the return of cond.Wait to the next one or   *)
(* to the end of the loop.  Only one idle connection is looked at.         *)

Finish(g) ==
    /\ expired' = expired \ {g}
    /\ cancelled' = cancelled \ {g}
    /\ UNCHANGED <<want, firing>>

Look(s) == IF conns[s] = <<>> THEN 0 ELSE 1

WakeClosed(g) ==
    /\ pc[g] = "woken" /\ closed
    /\ pc' = [pc EXCEPT ![g] = "refused"]
    /\ Finish(g)
    /\ UNCHANGED <<poolVars, conn>>

Woken(g) == pc[g] = "woken" /\ ~closed

WakeIdle(g) == Woken(g) /\ Finish(g) /\ Take(g, want[g], 0)
WakeNew(g) == Woken(g) /\ Finish(g) /\ Reserve(g, want[g], Look(want[g]))
WakeCancelled(g) ==
    /\ Woken(g) /\ g \in cancelled
    /\ Finish(g) /\ Saturated(g, want[g], Look(want[g]), "cancelled")
\* Mutant of WakeExpired: the deadline is checked before the idle stack.
WakeExpiredFirst(g) ==
    /\ Woken(g) /\ g \in expired /\ g \notin cancelled
    /\ Finish(g)
    /\ pc' = [pc EXCEPT ![g] = "exhausted"]
    /\ UNCHANGED <<poolVars, conn>>
WakeExpired(g) ==
    /\ Woken(g) /\ g \in expired /\ g \notin cancelled
    /\ Finish(g) /\ Saturated(g, want[g], Look(want[g]), "exhausted")
WakeWait(g) ==
    /\ Woken(g) /\ g \notin expired \cup cancelled
    /\ Saturated(g, want[g], Look(want[g]), "waiting")
    /\ UNCHANGED <<want, expired, cancelled, firing>>

\* Mutant of Expire: no timer was set for the deadline.
ExpireSilently(g) ==
    /\ pc[g] \in Blocked /\ g \notin expired
    /\ expired' = expired \cup {g}
    /\ UNCHANGED <<poolVars, pc, want, conn, cancelled, firing>>

\* The deadline passes, or the context is done: the callback starts.
Expire(g) ==
    /\ pc[g] \in Blocked /\ g \notin expired
    /\ expired' = expired \cup {g}
    /\ firing' = firing \cup {g}
    /\ UNCHANGED <<poolVars, pc, want, conn, cancelled>>
Cancel(g) ==
    /\ pc[g] \in Blocked /\ g \notin cancelled
    /\ cancelled' = cancelled \cup {g}
    /\ firing' = firing \cup {g}
    /\ UNCHANGED <<poolVars, pc, want, conn, expired>>

\* The callback gets the mutex, maybe after its caller has left Get.
broadcast(g) ==
    /\ g \in firing
    /\ firing' = firing \ {g}
    /\ pc' = Signalled(pc)
    /\ UNCHANGED <<poolVars, want, conn, expired, cancelled>>
-----------------------------------------------------------------------------
(* The dial, outside the mutex, and the return of a connection.            *)

Fresh(c) ==
    /\ transport[c] = "closed"
    /\ \A g \in Caller : conn[g] # c
    /\ \A s \in Server : \A i \in 1..Len(conns[s]) : conns[s][i] # c

DialOk(g) ==
    /\ pc[g] = "dialing"
    /\ \E c \in {want[g]} \X Id :
          /\ Fresh(c)
          /\ transport' = [transport EXCEPT ![c] = "healthy"]
          /\ conn' = [conn EXCEPT ![g] = c]
    /\ pc' = [pc EXCEPT ![g] = "holding"]
    /\ UNCHANGED <<conns, activeCount, stats, closed, want, expired, cancelled, firing>>

Release(s, idle) ==
    /\ activeCount' = [activeCount EXCEPT ![s] = @ - 1]
    /\ stats' = [ActiveConns |-> stats.ActiveConns - 1,
                 IdleConns |-> stats.IdleConns + idle]

\* Mutants of DialFail: the slot is not given back; nobody is signalled.
DialFailLeaks(g) ==
    /\ pc[g] = "dialing"
    /\ pc' = Signalled([pc EXCEPT ![g] = "dialFailed"])
    /\ UNCHANGED <<poolVars, want, conn, expired, cancelled, firing>>
DialFailSilently(g) ==
    /\ pc[g] = "dialing"
    /\ Release(want[g], 0)
    /\ pc' = [pc EXCEPT ![g] = "dialFailed"]
    /\ UNCHANGED <<conns, closed, transport, want, conn, expired, cancelled, firing>>

DialFail(g) ==
    /\ pc[g] = "dialing"
    /\ Release(want[g], 0)
    /\ pc' = Signalled([pc EXCEPT ![g] = "dialFailed"])
    /\ UNCHANGED <<conns, closed, transport, want, conn, expired, cancelled, firing>>

\* Mutant of Full: one idle connection too many.
FullOneMore(s) == Len(conns[s]) > MaxIdle
Full(s) == Len(conns[s]) >= MaxIdle

PutBack(g) ==
    /\ pc' = Signalled([pc EXCEPT ![g] = "ready"])
    /\ conn' = [conn EXCEPT ![g] = NoConn]
    /\ UNCHANGED <<closed, want, expired, cancelled, firing>>

\* Mutant of PutIdle: it does not look whether the pool is closed.
PutIdleClosed(g) ==
    LET s == ServerName(conn[g]) IN
    /\ pc[g] = "holding"
    /\ Healthy(conn[g]) /\ ~Full(s)
    /\ conns' = [conns EXCEPT ![s] = Append(@, conn[g])]
    /\ Release(s, 1)
    /\ PutBack(g)
    /\ UNCHANGED transport

PutIdle(g) ==
    LET s == ServerName(conn[g]) IN
    /\ pc[g] = "holding"
    /\ ~closed /\ Healthy(conn[g]) /\ ~Full(s)
    /\ conns' = [conns EXCEPT ![s] = Append(@, conn[g])]
    /\ Release(s, 1)
    /\ PutBack(g)
    /\ UNCHANGED transport

PutDiscard(g) ==
    LET s == ServerName(conn[g]) IN
    /\ pc[g] = "holding"
    /\ closed \/ ~Healthy(conn[g]) \/ Full(s)
    /\ transport' = Shutting({conn[g]})
    /\ Release(s, 0)
    /\ PutBack(g)
    /\ UNCHANGED conns
-----------------------------------------------------------------------------
(* Housekeeping.  Put appends with LastUsed = now, so a stack is ordered   *)
(* by age and the reaper drops a bottom part of each; one tick drops at    *)
(* least one connection or changes nothing.                                *)

Idle(s) == {conns[s][i] : i \in 1..Len(conns[s])}

\* Positions 1..n[s] of every stack.
Bottom(n) == {p \in Server \X (1..MaxIdle) : p[2] <= n[p[1]]}

reap ==
    /\ ~closed
    /\ \E n \in [Server -> 0..MaxIdle] :
          /\ \A s \in Server : n[s] <= Len(conns[s])
          /\ Bottom(n) # {}
          /\ conns' = [s \in Server |-> SubSeq(conns[s], n[s] + 1, Len(conns[s]))]
          /\ transport' = Shutting({conns[p[1]][p[2]] : p \in Bottom(n)})
          /\ stats' = [stats EXCEPT !.IdleConns = @ - Cardinality(Bottom(n))]
    /\ UNCHANGED <<activeCount, closed, callVars>>

\* Mutant of ClearServer: the transports are not closed.
ClearServerOpen(s) ==
    /\ stats' = [stats EXCEPT !.IdleConns = @ - Len(conns[s])]
    /\ conns' = [conns EXCEPT ![s] = <<>>]
    /\ UNCHANGED <<activeCount, closed, transport, callVars>>

ClearServer(s) ==
    /\ transport' = Shutting(Idle(s))
    /\ stats' = [stats EXCEPT !.IdleConns = @ - Len(conns[s])]
    /\ conns' = [conns EXCEPT ![s] = <<>>]
    /\ UNCHANGED <<activeCount, closed, callVars>>

\* The statistics keep the idle connections that Close closes.
Close ==
    /\ ~closed
    /\ closed' = TRUE
    /\ transport' = Shutting(UNION {Idle(s) : s \in Server})
    /\ conns' = [s \in Server |-> <<>>]
    /\ pc' = Signalled(pc)
    /\ UNCHANGED <<activeCount, stats, want, conn, expired, cancelled, firing>>

\* A user of the connection finds it broken: Conn.Healthy = false.
MarkUnhealthy(c) ==
    /\ Healthy(c)
    /\ transport' = [transport EXCEPT ![c] = "unhealthy"]
    /\ UNCHANGED <<conns, activeCount, stats, closed, callVars>>
-----------------------------------------------------------------------------
Get(g, s) ==
    \/ GetRefused(g, s) \/ GetIdle(g, s) \/ GetNew(g, s)
    \/ GetExhausted(g, s) \/ GetCancelled(g, s) \/ GetWait(g, s)
Wake(g) ==
    \/ WakeClosed(g) \/ WakeIdle(g) \/ WakeNew(g)
    \/ WakeCancelled(g) \/ WakeExpired(g) \/ WakeWait(g)
Dial(g) == DialOk(g) \/ DialFail(g)
Put(g) == PutIdle(g) \/ PutDiscard(g)

Next ==
    \/ \E g \in Caller, s \in Server : Get(g, s)
    \/ \E g \in Caller : Wake(g) \/ Dial(g) \/ Put(g)
    \/ \E g \in Caller : Expire(g) \/ Cancel(g) \/ broadcast(g)
    \/ reap
    \/ \E s \in Server : ClearServer(s)
    \/ Close
    \/ \E c \in Conn : MarkUnhealthy(c)

Spec == Init /\ [][Next]_vars

\* Goroutines get the mutex, timers run and a dial ends.  A holder need not
\* ever call Put.
Fairness ==
    \A g \in Caller :
        /\ WF_vars(Wake(g)) /\ WF_vars(Dial(g))
        /\ WF_vars(Expire(g)) /\ WF_vars(broadcast(g))

FairSpec == Spec /\ Fairness
=============================================================================
