----------------------------- MODULE PoolLease -----------------------------
(***************************************************************************)
(* What the connection pool of pkg/pool promises its callers, without      *)
(* queues, mutexes, counters or timers.                                    *)
(*                                                                         *)
(* A connection is absent, parked or leased by one caller.  A caller may   *)
(* hold a reservation for a connection that is being opened.  A server     *)
(* never has more than MaxOpen connections, reservations included, and     *)
(* never more than MaxIdle parked ones.  Nothing is leased or reserved     *)
(* once the pool is shut, and nothing is parked any more.                  *)
(***************************************************************************)
EXTENDS Naturals, FiniteSets

CONSTANTS Server, Caller, Conn, ServerOf(_), MaxIdle, MaxOpen, Absent, Parked, None

VARIABLES
    place,      \* [Conn -> {Absent, Parked} \cup Caller]
    reserved,   \* [Caller -> Server \cup {None}]: the server being dialled
    shut        \* BOOLEAN

leaseVars == <<place, reserved, shut>>

Of(s) == {c \in Conn : ServerOf(c) = s}
Used(s) == {c \in Of(s) : place[c] # Absent}
Dialers(s) == {g \in Caller : reserved[g] = s}

\* A caller neither leases a connection nor is opening one.
Unserved(g) == reserved[g] = None /\ \A c \in Conn : place[c] # g

\* Conns that leave the pool on the way, if any: parked ones only.
Drop(f, D) == [c \in Conn |-> IF c \in D THEN Absent ELSE f[c]]
ParkedAt(s) == {c \in Of(s) : place[c] = Parked}

LInit ==
    /\ place = [c \in Conn |-> Absent]
    /\ reserved = [g \in Caller |-> None]
    /\ shut = FALSE

\* g is given a parked connection of s; broken ones found first are dropped.
Reuse(g, s) ==
    /\ ~shut /\ Unserved(g)
    /\ \E c \in ParkedAt(s) : \E D \in SUBSET (ParkedAt(s) \ {c}) :
          place' = [Drop(place, D) EXCEPT ![c] = g]
    /\ UNCHANGED <<reserved, shut>>

\* g reserves room for a new connection to s.
Reserve(g, s) ==
    /\ ~shut /\ Unserved(g)
    /\ \E D \in SUBSET ParkedAt(s) :
          /\ Cardinality(Used(s) \ D) + Cardinality(Dialers(s)) < MaxOpen
          /\ place' = Drop(place, D)
    /\ reserved' = [reserved EXCEPT ![g] = s]
    /\ UNCHANGED shut

\* The reservation turns into a leased connection, also after the pool is shut.
Open(g) ==
    /\ reserved[g] # None
    /\ \E c \in Of(reserved[g]) :
          /\ place[c] = Absent
          /\ place' = [place EXCEPT ![c] = g]
    /\ reserved' = [reserved EXCEPT ![g] = None]
    /\ UNCHANGED shut

Abandon(g) ==
    /\ reserved[g] # None
    /\ reserved' = [reserved EXCEPT ![g] = None]
    /\ UNCHANGED <<place, shut>>

Park(g, c) ==
    /\ ~shut
    /\ place[c] = g
    /\ Cardinality(ParkedAt(ServerOf(c))) < MaxIdle
    /\ place' = [place EXCEPT ![c] = Parked]
    /\ UNCHANGED <<reserved, shut>>

Discard(g, c) ==
    /\ place[c] = g
    /\ place' = [place EXCEPT ![c] = Absent]
    /\ UNCHANGED <<reserved, shut>>

\* Parked connections are let go of.
Evict ==
    /\ \E D \in SUBSET {c \in Conn : place[c] = Parked} : place' = Drop(place, D)
    /\ UNCHANGED <<reserved, shut>>

Shut ==
    /\ shut' = TRUE
    /\ place' = Drop(place, {c \in Conn : place[c] = Parked})
    /\ UNCHANGED reserved

LNext ==
    \/ \E g \in Caller, s \in Server : Reuse(g, s) \/ Reserve(g, s)
    \/ \E g \in Caller : Open(g) \/ Abandon(g)
    \/ \E g \in Caller, c \in Conn : Park(g, c) \/ Discard(g, c)
    \/ Evict
    \/ Shut

LeaseSpec == LInit /\ [][LNext]_leaseVars
============================================================================
