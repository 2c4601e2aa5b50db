----------------------------- MODULE PoolProofs -----------------------------
(***************************************************************************)
(* Proofs about the pool for every number of servers, callers and          *)
(* connections and all limits: the limits and the wakeups by the inductive *)
(* invariant IInv, and that slots are counted exactly by SlotInv on top.   *)
(***************************************************************************)
EXTENDS PoolProperties, TLAPS, FiniteSetTheorems, SequenceTheorems

\* A caller holds a connection exactly between the success of Get and Put.
HoldsConn == \A g \in Caller : pc[g] = "holding" <=> conn[g] # NoConn

\* The types without the signs of the counters, which need the slots counted.
Types ==
    /\ conns \in [Server -> Seq(Conn)]
    /\ activeCount \in [Server -> Int]
    /\ stats \in [ActiveConns : Int, IdleConns : Int]
    /\ closed \in BOOLEAN
    /\ transport \in [Conn -> {"closed", "healthy", "unhealthy"}]
    /\ pc \in [Caller -> PC]
    /\ want \in [Caller -> Server]
    /\ conn \in [Caller -> Conn \cup {NoConn}]
    /\ expired \subseteq Caller /\ cancelled \subseteq Caller /\ firing \subseteq Caller

\* The inductive invariant.  WithinLimits needs Types and HoldsConn because Put
\* finds the server in the connection; NoLostWakeup and ClosedIsEmpty support
\* each other through Close.
IInv ==
    /\ Types
    /\ HoldsConn
    /\ WithinLimits
    /\ NoLostWakeup
    /\ ClosedIsEmpty

-----------------------------------------------------------------------------
(* The initial states and the two operators every critical section uses.   *)

\* Every initial state of the pool satisfies the invariant.
LEMMA InitIInv == Init => IInv
<1> SUFFICES ASSUME Init PROVE IInv
  OBVIOUS
<1> USE PoolAssumption DEF Init
<1>1. Types
  <2>1. conns \in [Server -> Seq(Conn)]
    OBVIOUS
  <2>2. transport \in [Conn -> {"closed", "healthy", "unhealthy"}]
    OBVIOUS
  <2>3. pc \in [Caller -> PC]
    BY DEF PC, Returned
  <2>4. /\ activeCount \in [Server -> Int]
        /\ stats \in [ActiveConns : Int, IdleConns : Int]
    OBVIOUS
  <2>5. /\ closed \in BOOLEAN
        /\ want \in [Caller -> Server]
        /\ conn \in [Caller -> Conn \cup {NoConn}]
        /\ expired \subseteq Caller /\ cancelled \subseteq Caller /\ firing \subseteq Caller
    OBVIOUS
  <2> QED
    BY <2>1, <2>2, <2>3, <2>4, <2>5 DEF Types
<1>2. HoldsConn
  BY DEF HoldsConn
<1>3. WithinLimits
  <2> SUFFICES ASSUME NEW s \in Server
               PROVE activeCount[s] + Len(conns[s]) <= MaxOpen /\ Len(conns[s]) <= MaxIdle
    BY DEF WithinLimits
  <2>1. activeCount[s] = 0 /\ conns[s] = <<>>
    OBVIOUS
  <2> QED
    BY <2>1
<1>4. NoLostWakeup /\ ClosedIsEmpty
  BY DEF NoLostWakeup, ClosedIsEmpty
<1> QED
  BY <1>1, <1>2, <1>3, <1>4 DEF IInv

\* A broadcast leaves no goroutine waiting and nobody else is moved.
LEMMA SignalledProperties ==
  ASSUME NEW f \in [Caller -> PC]
  PROVE  /\ Signalled(f) \in [Caller -> PC]
         /\ \A g \in Caller :
               /\ Signalled(f)[g] # "waiting"
               /\ f[g] # "waiting" => Signalled(f)[g] = f[g]
               /\ f[g] = "waiting" => Signalled(f)[g] = "woken"
BY DEF Signalled, PC, Returned, InUse, Blocked

\* Closing transports keeps every transport in one of its three conditions.
LEMMA ShuttingType ==
  ASSUME Types, NEW D
  PROVE  Shutting(D) \in [Conn -> {"closed", "healthy", "unhealthy"}]
BY DEF Types, Shutting

\* Taking n connections off a stack leaves a stack of connections, n shorter.
LEMMA RestProperties ==
  ASSUME Types, NEW s \in Server, NEW n \in 0..Len(conns[s])
  PROVE  /\ Rest(s, n) \in Seq(Conn)
         /\ Len(Rest(s, n)) = Len(conns[s]) - n
<1>1. conns[s] \in Seq(Conn)
  BY DEF Types
<1>2. Len(conns[s]) - n \in 0..Len(conns[s])
  BY <1>1
<1>3. \A i \in 1..(Len(conns[s]) - n) : conns[s][i] \in Conn
  BY <1>1, <1>2
<1> HIDE DEF Conn
<1> QED
  BY <1>2, <1>3, SubSeqProperties DEF Rest

\* Dropping a bottom part of a stack leaves a stack of connections, n shorter.
LEMMA AboveProperties ==
  ASSUME Types, NEW s \in Server, NEW n \in Nat, n <= Len(conns[s])
  PROVE  /\ SubSeq(conns[s], n + 1, Len(conns[s])) \in Seq(Conn)
         /\ Len(SubSeq(conns[s], n + 1, Len(conns[s]))) = Len(conns[s]) - n
<1>1. conns[s] \in Seq(Conn)
  BY DEF Types
<1>2. \A i \in (n + 1)..Len(conns[s]) : conns[s][i] \in Conn
  BY <1>1
<1> HIDE DEF Conn
<1> QED
  BY <1>1, <1>2, SubSeqProperties

\* The positions that a tick of the reaper empties are finitely many.
LEMMA BottomFinite ==
  ASSUME NEW n \in [Server -> 0..MaxIdle]
  PROVE  Cardinality(Bottom(n)) \in Nat
<1>1. IsFiniteSet(Server \X (1..MaxIdle))
  <2>1. IsFiniteSet(Server) /\ MaxIdle \in Int
    BY PoolAssumption
  <2>2. IsFiniteSet(1..MaxIdle)
    BY <2>1, FS_Interval
  <2> QED
    BY <2>1, <2>2, FS_Product
<1>2. Bottom(n) \in SUBSET (Server \X (1..MaxIdle))
  BY DEF Bottom
<1> QED
  BY <1>1, <1>2, FS_Subset, FS_CardinalityType

-----------------------------------------------------------------------------
(* The three outcomes of a look at an idle stack, for the first look of    *)
(* Get and the later ones of the wait loop alike.                          *)

\* g is between reservations and has asked for s.
Asking(g, s) ==
    /\ g \in Caller /\ s \in Server
    /\ pc[g] \notin InUse
    /\ ~closed
    /\ want' \in [Caller -> Server]
    /\ want'[g] = s
    /\ \A h \in Caller \ {g} : want'[h] = want[h]
    /\ expired' \subseteq Caller /\ cancelled' \subseteq Caller /\ firing' \subseteq Caller

\* A hit on the idle stack keeps the invariant.
LEMMA TakeStep ==
  ASSUME IInv, NEW g, NEW s, Asking(g, s),
         NEW n \in Nat, Take(g, s, n)
  PROVE  IInv'
<1> USE PoolAssumption DEF IInv
<1>1. /\ g \in Caller /\ s \in Server /\ n + 1 \in 0..Len(conns[s])
      /\ conns[s] \in Seq(Conn)
      /\ conns[s][Len(conns[s]) - n] \in Conn
  <2>1. g \in Caller /\ s \in Server /\ conns[s] \in Seq(Conn)
    BY DEF Asking, Types
  <2>2. n < Len(conns[s])
    BY DEF Take
  <2> HIDE DEF Conn
  <2> QED
    BY <2>1, <2>2
<1>2. Rest(s, n + 1) \in Seq(Conn) /\ Len(Rest(s, n + 1)) = Len(conns[s]) - n - 1
  BY <1>1, RestProperties
<1> DEFINE c == conns[s][Len(conns[s]) - n]
<1>3. /\ conns' = [conns EXCEPT ![s] = Rest(s, n + 1)]
      /\ transport' = Shutting(Top(s, n))
      /\ activeCount' = [activeCount EXCEPT ![s] = @ + 1]
      /\ stats' = [ActiveConns |-> stats.ActiveConns + 1,
                   IdleConns |-> stats.IdleConns - n - 1]
      /\ pc' = [pc EXCEPT ![g] = "holding"]
      /\ conn' = [conn EXCEPT ![g] = c]
      /\ closed' = closed
  BY DEF Take
<1> HIDE DEF c, Conn
<1>4. Types'
  <2>1. transport' \in [Conn -> {"closed", "healthy", "unhealthy"}]
    BY <1>3, ShuttingType
  <2>2. conns' \in [Server -> Seq(Conn)]
    BY <1>1, <1>2, <1>3 DEF Types
  <2>3. activeCount' \in [Server -> Int] /\ closed' \in BOOLEAN
    <3>1. activeCount \in [Server -> Int] /\ closed \in BOOLEAN
      BY DEF Types
    <3>2. activeCount' \in [Server -> Int]
      BY <1>1, <1>3, <3>1
    <3> QED
      BY <1>3, <3>1, <3>2
  <2>4. stats' \in [ActiveConns : Int, IdleConns : Int]
    <3>1. stats.ActiveConns \in Int /\ stats.IdleConns \in Int
      BY DEF Types
    <3> QED
      BY <1>3, <3>1
  <2>5. pc' \in [Caller -> PC]
    BY <1>3 DEF Types, PC, InUse
  <2>6. conn' \in [Caller -> Conn \cup {NoConn}]
    BY <1>1, <1>3 DEF Types, c
  <2> QED
    BY <2>1, <2>2, <2>3, <2>4, <2>5, <2>6 DEF Types, Asking
<1>5. HoldsConn'
  <2>1. c # NoConn
    BY <1>1 DEF c, Conn
  <2> QED
    BY <1>1, <1>3, <2>1 DEF HoldsConn, Types
<1>6. WithinLimits'
  <2> SUFFICES ASSUME NEW r \in Server
               PROVE  /\ activeCount'[r] + Len(conns'[r]) <= MaxOpen
                      /\ Len(conns'[r]) <= MaxIdle
    BY DEF WithinLimits
  <2>1. /\ activeCount[r] \in Int /\ Len(conns[r]) \in Nat
        /\ activeCount[r] + Len(conns[r]) <= MaxOpen /\ Len(conns[r]) <= MaxIdle
    BY DEF WithinLimits, Types
  <2>2. CASE r = s
    <3>1. activeCount'[r] = activeCount[r] + 1 /\ conns'[r] = Rest(s, n + 1)
      BY <1>3, <2>2 DEF Types
    <3> QED
      BY <1>2, <2>1, <2>2, <3>1
  <2>3. CASE r # s
    <3>1. activeCount'[r] = activeCount[r] /\ conns'[r] = conns[r]
      BY <1>3, <2>3 DEF Types
    <3> QED
      BY <2>1, <3>1
  <2> QED
    BY <2>2, <2>3
<1>7. NoLostWakeup'
  <2> SUFFICES ASSUME NEW h \in Caller, pc'[h] = "waiting"
               PROVE  ~closed' /\ activeCount'[want'[h]] >= MaxOpen
    BY DEF NoLostWakeup
  <2>1. h # g /\ pc[h] = "waiting" /\ want'[h] = want[h]
    BY <1>1, <1>3 DEF Types, Asking
  <2>2. activeCount[want[h]] >= MaxOpen /\ want[h] \in Server
    BY <2>1 DEF NoLostWakeup, Types
  <2> QED
    BY <1>1, <1>3, <2>1, <2>2 DEF Types, Asking
<1>8. ClosedIsEmpty'
  BY <1>3 DEF ClosedIsEmpty, Asking
<1> QED
  BY <1>4, <1>5, <1>6, <1>7, <1>8

\* What Dropped leaves of the pool.
LEMMA DroppedStep ==
  ASSUME IInv, NEW g, NEW s, Asking(g, s),
         NEW n \in 0..Len(conns[s]), Dropped(s, n)
  PROVE  /\ conns' \in [Server -> Seq(Conn)]
         /\ transport' \in [Conn -> {"closed", "healthy", "unhealthy"}]
         /\ conn' \in [Caller -> Conn \cup {NoConn}]
         /\ closed' \in BOOLEAN
         /\ Len(conns'[s]) = Len(conns[s]) - n
         /\ \A r \in Server \ {s} : conns'[r] = conns[r]
<1> USE DEF IInv
<1>1. s \in Server
  BY DEF Asking
<1>2. Rest(s, n) \in Seq(Conn) /\ Len(Rest(s, n)) = Len(conns[s]) - n
  BY <1>1, RestProperties
<1>3. transport' \in [Conn -> {"closed", "healthy", "unhealthy"}]
  BY ShuttingType DEF Dropped
<1> HIDE DEF Conn
<1> QED
  BY <1>1, <1>2, <1>3 DEF Dropped, Types

\* A reservation keeps the invariant: either the stack is empty, or at least one
\* idle connection was dropped to make room for the new one.
LEMMA ReserveStep ==
  ASSUME IInv, NEW g, NEW s, Asking(g, s),
         NEW n \in 0..Len(conns[s]), n >= 1 \/ Len(conns[s]) = 0,
         Reserve(g, s, n)
  PROVE  IInv'
<1> USE PoolAssumption
<1>1. g \in Caller /\ s \in Server /\ Types /\ Dropped(s, n)
  BY DEF Asking, IInv, Reserve
<1>2. /\ conns' \in [Server -> Seq(Conn)]
      /\ transport' \in [Conn -> {"closed", "healthy", "unhealthy"}]
      /\ conn' \in [Caller -> Conn \cup {NoConn}]
      /\ closed' \in BOOLEAN
      /\ Len(conns'[s]) = Len(conns[s]) - n
      /\ \A r \in Server \ {s} : conns'[r] = conns[r]
  BY <1>1, DroppedStep
<1>3. /\ activeCount[s] < MaxOpen
      /\ activeCount' = [activeCount EXCEPT ![s] = @ + 1]
      /\ stats' = [ActiveConns |-> stats.ActiveConns + 1,
                   IdleConns |-> stats.IdleConns - n]
      /\ pc' = [pc EXCEPT ![g] = "dialing"]
      /\ closed' = closed /\ conn' = conn
  BY DEF Reserve, Dropped
<1>4. Types'
  <2>1. activeCount' \in [Server -> Int]
    <3>1. activeCount \in [Server -> Int]
      BY <1>1 DEF Types
    <3> QED
      BY <1>1, <1>3, <3>1
  <2>2. stats' \in [ActiveConns : Int, IdleConns : Int]
    <3>1. stats.ActiveConns \in Int /\ stats.IdleConns \in Int /\ n \in Int
      BY <1>1 DEF Types
    <3> QED
      BY <1>3, <3>1
  <2>3. pc' \in [Caller -> PC]
    BY <1>1, <1>3 DEF Types, PC, InUse
  <2> QED
    BY <1>2, <2>1, <2>2, <2>3 DEF Types, Asking
<1>5. HoldsConn'
  BY <1>1, <1>3 DEF HoldsConn, Types, IInv, Asking, InUse
<1>6. WithinLimits'
  <2> SUFFICES ASSUME NEW r \in Server
               PROVE  /\ activeCount'[r] + Len(conns'[r]) <= MaxOpen
                      /\ Len(conns'[r]) <= MaxIdle
    BY DEF WithinLimits
  <2>1. /\ activeCount[r] \in Int /\ Len(conns[r]) \in Nat
        /\ activeCount[r] + Len(conns[r]) <= MaxOpen /\ Len(conns[r]) <= MaxIdle
    BY <1>1 DEF IInv, WithinLimits, Types
  <2>2. CASE r = s
    <3>1. activeCount'[r] = activeCount[r] + 1
      BY <1>1, <1>3, <2>2 DEF Types
    <3> QED
      BY <1>2, <1>3, <2>1, <2>2, <3>1
  <2>3. CASE r # s
    <3>1. activeCount'[r] = activeCount[r] /\ conns'[r] = conns[r]
      BY <1>1, <1>2, <1>3, <2>3 DEF Types
    <3> QED
      BY <2>1, <3>1
  <2> QED
    BY <2>2, <2>3
<1>7. NoLostWakeup'
  <2> SUFFICES ASSUME NEW h \in Caller, pc'[h] = "waiting"
               PROVE  ~closed' /\ activeCount'[want'[h]] >= MaxOpen
    BY DEF NoLostWakeup
  <2>1. h # g /\ pc[h] = "waiting" /\ want'[h] = want[h]
    BY <1>1, <1>3 DEF Types, Asking
  <2>2. activeCount[want[h]] >= MaxOpen /\ want[h] \in Server
    BY <1>1, <2>1 DEF IInv, NoLostWakeup, Types
  <2> QED
    BY <1>1, <1>3, <2>1, <2>2 DEF Types, Asking
<1>8. ClosedIsEmpty'
  BY <1>3 DEF ClosedIsEmpty, Asking
<1> QED
  BY <1>4, <1>5, <1>6, <1>7, <1>8 DEF IInv

\* Finding the pool saturated keeps the invariant; a caller that goes to wait
\* has just seen every slot in use.
LEMMA SaturatedStep ==
  ASSUME IInv, NEW g, NEW s, Asking(g, s),
         NEW n \in 0..Len(conns[s]),
         NEW outcome \in {"exhausted", "cancelled", "waiting"},
         Saturated(g, s, n, outcome)
  PROVE  IInv'
<1> USE PoolAssumption
<1>1. g \in Caller /\ s \in Server /\ Types /\ Dropped(s, n)
  BY DEF Asking, IInv, Saturated
<1>2. /\ conns' \in [Server -> Seq(Conn)]
      /\ transport' \in [Conn -> {"closed", "healthy", "unhealthy"}]
      /\ conn' \in [Caller -> Conn \cup {NoConn}]
      /\ closed' \in BOOLEAN
      /\ Len(conns'[s]) = Len(conns[s]) - n
      /\ \A r \in Server \ {s} : conns'[r] = conns[r]
  BY <1>1, DroppedStep
<1>3. /\ activeCount[s] >= MaxOpen
      /\ activeCount' = activeCount
      /\ stats' = [stats EXCEPT !.IdleConns = @ - n]
      /\ pc' = [pc EXCEPT ![g] = outcome]
      /\ closed' = closed /\ conn' = conn
  BY DEF Saturated, Dropped
<1>4. Types'
  <2>1. stats' \in [ActiveConns : Int, IdleConns : Int]
    <3>1. stats \in [ActiveConns : Int, IdleConns : Int] /\ n \in Int
      BY <1>1 DEF Types
    <3> QED
      BY <1>3, <3>1
  <2>2. pc' \in [Caller -> PC]
    BY <1>1, <1>3 DEF Types, PC, Returned, Blocked
  <2> QED
    BY <1>1, <1>2, <1>3, <2>1, <2>2 DEF Types, Asking
<1>5. HoldsConn'
  BY <1>1, <1>3 DEF HoldsConn, Types, IInv, Asking, InUse
<1>6. WithinLimits'
  <2> SUFFICES ASSUME NEW r \in Server
               PROVE  /\ activeCount'[r] + Len(conns'[r]) <= MaxOpen
                      /\ Len(conns'[r]) <= MaxIdle
    BY DEF WithinLimits
  <2>1. /\ activeCount[r] \in Int /\ Len(conns[r]) \in Nat
        /\ activeCount[r] + Len(conns[r]) <= MaxOpen /\ Len(conns[r]) <= MaxIdle
    BY <1>1 DEF IInv, WithinLimits, Types
  <2>2. CASE r = s
    BY <1>2, <1>3, <2>1, <2>2
  <2>3. CASE r # s
    BY <1>2, <1>3, <2>1, <2>3
  <2> QED
    BY <2>2, <2>3
<1>7. NoLostWakeup'
  <2> SUFFICES ASSUME NEW h \in Caller, pc'[h] = "waiting"
               PROVE  ~closed' /\ activeCount'[want'[h]] >= MaxOpen
    BY DEF NoLostWakeup
  <2>1. CASE h = g
    BY <1>3, <2>1 DEF Asking
  <2>2. CASE h # g
    <3>1. pc[h] = "waiting" /\ want'[h] = want[h]
      BY <1>1, <1>3, <2>2 DEF Types, Asking
    <3> QED
      BY <1>1, <1>3, <3>1 DEF IInv, NoLostWakeup
  <2> QED
    BY <2>1, <2>2
<1>8. ClosedIsEmpty'
  BY <1>3 DEF ClosedIsEmpty, Asking
<1> QED
  BY <1>4, <1>5, <1>6, <1>7, <1>8 DEF IInv

-----------------------------------------------------------------------------
(* The critical sections of the callers.                                   *)

\* The wait loop looks at one idle connection at most.
LEMMA LookInRange ==
  ASSUME Types, NEW s \in Server
  PROVE  /\ Look(s) \in 0..Len(conns[s])
         /\ Look(s) >= 1 \/ Len(conns[s]) = 0
<1>1. conns[s] \in Seq(Conn)
  BY DEF Types
<1> HIDE DEF Conn
<1> QED
  BY <1>1 DEF Look

\* Every outcome of the first critical section of Get keeps the invariant.
LEMMA GetStep ==
  ASSUME IInv, NEW g \in Caller, NEW s \in Server, Get(g, s)
  PROVE  IInv'
<1> USE PoolAssumption
<1>1. Types /\ Len(conns[s]) \in Nat
  BY DEF IInv, Types
<1>2. ASSUME Begin(g, s) PROVE Asking(g, s)
  BY <1>1, <1>2 DEF Begin, Asking, Types, Returned, InUse
<1>3. CASE GetRefused(g, s)
  <2>1. Types'
    BY <1>1, <1>3 DEF Types, GetRefused, PC, Returned, poolVars
  <2>2. HoldsConn' /\ NoLostWakeup'
    BY <1>1, <1>3 DEF IInv, Types, GetRefused, Returned, poolVars, HoldsConn, NoLostWakeup
  <2>3. WithinLimits' /\ ClosedIsEmpty'
    BY <1>3 DEF IInv, GetRefused, poolVars, WithinLimits, ClosedIsEmpty
  <2> QED
    BY <2>1, <2>2, <2>3 DEF IInv
<1>4. CASE GetIdle(g, s)
  BY <1>1, <1>2, <1>4, TakeStep DEF GetIdle
<1>5. CASE GetNew(g, s)
  BY <1>1, <1>2, <1>5, ReserveStep DEF GetNew
<1>6. CASE GetExhausted(g, s)
  BY <1>1, <1>2, <1>6, SaturatedStep DEF GetExhausted
<1>7. CASE GetCancelled(g, s)
  BY <1>1, <1>2, <1>7, SaturatedStep DEF GetCancelled
<1>8. CASE GetWait(g, s)
  BY <1>1, <1>2, <1>8, SaturatedStep DEF GetWait
<1> QED
  BY <1>3, <1>4, <1>5, <1>6, <1>7, <1>8 DEF Get

\* Every pass of the wait loop keeps the invariant.
LEMMA WakeStep ==
  ASSUME IInv, NEW g \in Caller, Wake(g)
  PROVE  IInv'
<1> USE PoolAssumption
<1> DEFINE s == want[g]
<1>1. Types /\ s \in Server
  BY DEF IInv, Types
<1>2. Look(s) \in 0..Len(conns[s]) /\ (Look(s) >= 1 \/ Len(conns[s]) = 0)
  BY <1>1, LookInRange
<1>3. ASSUME Woken(g), Finish(g) PROVE Asking(g, s)
  BY <1>1, <1>3 DEF Woken, Finish, Asking, Types, InUse
<1> HIDE DEF s
<1>4. CASE WakeClosed(g)
  <2>1. Types'
    BY <1>1, <1>4 DEF Types, WakeClosed, Finish, PC, Returned, poolVars
  <2>2. HoldsConn' /\ NoLostWakeup'
    BY <1>1, <1>4 DEF IInv, Types, WakeClosed, Finish, poolVars, HoldsConn, NoLostWakeup
  <2>3. WithinLimits' /\ ClosedIsEmpty'
    BY <1>4 DEF IInv, WakeClosed, poolVars, WithinLimits, ClosedIsEmpty
  <2> QED
    BY <2>1, <2>2, <2>3 DEF IInv
<1>5. CASE WakeIdle(g)
  BY <1>1, <1>3, <1>5, TakeStep DEF WakeIdle, s
<1>6. CASE WakeNew(g)
  BY <1>1, <1>2, <1>3, <1>6, ReserveStep DEF WakeNew, s
<1>7. CASE WakeCancelled(g)
  BY <1>1, <1>2, <1>3, <1>7, SaturatedStep DEF WakeCancelled, s
<1>8. CASE WakeExpired(g)
  BY <1>1, <1>2, <1>3, <1>8, SaturatedStep DEF WakeExpired, s
<1>9. CASE WakeWait(g)
  <2>1. Asking(g, s)
    BY <1>1, <1>9 DEF WakeWait, Woken, Asking, Types, InUse, s
  <2> QED
    BY <1>1, <1>2, <1>9, <2>1, SaturatedStep DEF WakeWait, s
<1> QED
  BY <1>4, <1>5, <1>6, <1>7, <1>8, <1>9 DEF Wake

\* Giving a slot back and signalling keeps the invariant, whatever becomes of
\* the connection, as long as it is parked only where there is room.
LEMMA ReleaseStep ==
  ASSUME IInv, NEW g \in Caller, NEW s \in Server, NEW k \in {0, 1},
         NEW end \in {"ready", "dialFailed"},
         Release(s, k),
         pc' = Signalled([pc EXCEPT ![g] = end]),
         conn'[g] = NoConn, conn' \in [Caller -> Conn \cup {NoConn}],
         \A h \in Caller \ {g} : conn'[h] = conn[h],
         UNCHANGED <<closed, want, expired, cancelled, firing>>,
         transport' \in [Conn -> {"closed", "healthy", "unhealthy"}],
         conns' \in [Server -> Seq(Conn)],
         Len(conns'[s]) = Len(conns[s]) + k,
         Len(conns'[s]) <= MaxIdle,
         \A r \in Server \ {s} : conns'[r] = conns[r],
         closed => conns' = conns
  PROVE  IInv'
<1> USE PoolAssumption
<1>1. Types /\ [pc EXCEPT ![g] = end] \in [Caller -> PC]
  BY DEF IInv, Types, PC, Returned
<1>2. /\ activeCount' = [activeCount EXCEPT ![s] = @ - 1]
      /\ stats' = [ActiveConns |-> stats.ActiveConns - 1,
                   IdleConns |-> stats.IdleConns + k]
  BY DEF Release
<1>3. /\ pc' \in [Caller -> PC]
      /\ pc'[g] = end
      /\ \A h \in Caller : pc'[h] # "waiting"
      /\ \A h \in Caller \ {g} : pc'[h] = "holding" <=> pc[h] = "holding"
  <2> DEFINE f == [pc EXCEPT ![g] = end]
  <2>1. f \in [Caller -> PC] /\ pc' = Signalled(f)
    BY <1>1
  <2>2. f[g] = end /\ \A h \in Caller \ {g} : f[h] = pc[h]
    BY <1>1 DEF Types
  <2> HIDE DEF f
  <2>3. /\ pc' \in [Caller -> PC]
        /\ \A h \in Caller :
              /\ pc'[h] # "waiting"
              /\ f[h] # "waiting" => pc'[h] = f[h]
              /\ f[h] = "waiting" => pc'[h] = "woken"
    <3>1. /\ Signalled(f) \in [Caller -> PC]
          /\ \A h \in Caller :
                /\ Signalled(f)[h] # "waiting"
                /\ f[h] # "waiting" => Signalled(f)[h] = f[h]
                /\ f[h] = "waiting" => Signalled(f)[h] = "woken"
      BY <2>1, SignalledProperties
    <3> QED
      BY <2>1, <3>1
  <2> QED
    BY <2>2, <2>3
<1>4. Types'
  <2>1. activeCount' \in [Server -> Int]
    <3>1. activeCount \in [Server -> Int]
      BY <1>1 DEF Types
    <3> QED
      BY <1>2, <3>1
  <2>2. stats' \in [ActiveConns : Int, IdleConns : Int]
    <3>1. stats.ActiveConns \in Int /\ stats.IdleConns \in Int
      BY <1>1 DEF Types
    <3> QED
      BY <1>2, <3>1
  <2> QED
    BY <1>1, <1>3, <2>1, <2>2 DEF Types
<1>5. HoldsConn'
  <2> SUFFICES ASSUME NEW h \in Caller PROVE pc'[h] = "holding" <=> conn'[h] # NoConn
    BY DEF HoldsConn
  <2>1. CASE h = g
    <3>1. end # "holding"
      OBVIOUS
    <3> QED
      BY <1>3, <2>1, <3>1
  <2>2. CASE h # g
    <3>1. pc[h] = "holding" <=> conn[h] # NoConn
      BY DEF IInv, HoldsConn
    <3>2. h \in Caller \ {g}
      BY <2>2
    <3>3. (pc'[h] = "holding" <=> pc[h] = "holding") /\ conn'[h] = conn[h]
      BY <1>3, <3>2
    <3> QED
      BY <3>1, <3>3
  <2> QED
    BY <2>1, <2>2
<1>6. WithinLimits'
  <2> SUFFICES ASSUME NEW r \in Server
               PROVE  /\ activeCount'[r] + Len(conns'[r]) <= MaxOpen
                      /\ Len(conns'[r]) <= MaxIdle
    BY DEF WithinLimits
  <2>1. /\ activeCount[r] \in Int /\ Len(conns[r]) \in Nat
        /\ activeCount[r] + Len(conns[r]) <= MaxOpen /\ Len(conns[r]) <= MaxIdle
    BY <1>1 DEF IInv, WithinLimits, Types
  <2>2. CASE r = s
    <3>1. activeCount'[r] = activeCount[r] - 1
      BY <1>1, <1>2, <2>2 DEF Types
    <3> QED
      BY <2>1, <2>2, <3>1
  <2>3. CASE r # s
    <3>1. activeCount'[r] = activeCount[r] /\ conns'[r] = conns[r]
      BY <1>1, <1>2, <2>3 DEF Types
    <3> QED
      BY <2>1, <3>1
  <2> QED
    BY <2>2, <2>3
<1>7. NoLostWakeup'
  BY <1>3 DEF NoLostWakeup
<1>8. ClosedIsEmpty'
  BY DEF IInv, ClosedIsEmpty
<1> QED
  BY <1>4, <1>5, <1>6, <1>7, <1>8 DEF IInv

\* The end of a dial keeps the invariant.
LEMMA DialStep ==
  ASSUME IInv, NEW g \in Caller, Dial(g)
  PROVE  IInv'
<1>1. Types /\ want[g] \in Server
  BY DEF IInv, Types
<1>2. CASE DialOk(g)
  <2> USE PoolAssumption
  <2>1. PICK c \in {want[g]} \X Id :
           /\ transport' = [transport EXCEPT ![c] = "healthy"]
           /\ conn' = [conn EXCEPT ![g] = c]
    BY <1>2 DEF DialOk
  <2>2. c \in Conn /\ c # NoConn
    BY <1>1, <2>1 DEF Conn
  <2>3. /\ pc[g] = "dialing" /\ pc' = [pc EXCEPT ![g] = "holding"]
        /\ UNCHANGED <<conns, activeCount, stats, closed, want, expired, cancelled, firing>>
    BY <1>2 DEF DialOk
  <2> HIDE DEF Conn
  <2>4. Types'
    BY <1>1, <2>1, <2>2, <2>3 DEF Types, PC, InUse
  <2>5. HoldsConn' /\ NoLostWakeup'
    BY <1>1, <2>1, <2>2, <2>3 DEF IInv, Types, HoldsConn, NoLostWakeup
  <2>6. WithinLimits' /\ ClosedIsEmpty'
    BY <2>3 DEF IInv, WithinLimits, ClosedIsEmpty
  <2> QED
    BY <2>4, <2>5, <2>6 DEF IInv
<1>3. CASE DialFail(g)
  <2> HIDE DEF Conn
  <2>1. /\ Release(want[g], 0)
        /\ pc[g] = "dialing"
        /\ pc' = Signalled([pc EXCEPT ![g] = "dialFailed"])
        /\ UNCHANGED <<conns, closed, transport, want, conn, expired, cancelled, firing>>
    BY <1>3 DEF DialFail
  <2>2. conn'[g] = NoConn
    BY <2>1 DEF IInv, HoldsConn
  <2>3. /\ Len(conns'[want[g]]) = Len(conns[want[g]]) + 0
        /\ Len(conns'[want[g]]) <= MaxIdle
    BY <1>1, <2>1 DEF IInv, WithinLimits, Types
  <2>4. /\ transport' \in [Conn -> {"closed", "healthy", "unhealthy"}]
        /\ conns' \in [Server -> Seq(Conn)]
        /\ conn' \in [Caller -> Conn \cup {NoConn}]
    BY <1>1, <2>1 DEF Types
  <2> QED
    BY <1>1, <2>1, <2>2, <2>3, <2>4, ReleaseStep
<1> QED
  BY <1>2, <1>3 DEF Dial

\* Put keeps the invariant: a connection is parked only where there is room, and
\* never once the pool is closed.
LEMMA PutStep ==
  ASSUME IInv, NEW g \in Caller, Put(g)
  PROVE  IInv'
<1> DEFINE c == conn[g]
           s == ServerName(conn[g])
<1>1. Types /\ c \in Conn /\ s \in Server
  BY DEF IInv, Types, HoldsConn, Put, PutIdle, PutDiscard, Conn, ServerName
<1> HIDE DEF c, s
<1>2. conns[s] \in Seq(Conn) /\ Len(conns[s]) \in Nat /\ Len(conns[s]) <= MaxIdle
  BY <1>1 DEF IInv, Types, WithinLimits
<1> HIDE DEF Conn
<1>3. ASSUME PutBack(g)
      PROVE  /\ pc' = Signalled([pc EXCEPT ![g] = "ready"])
             /\ conn'[g] = NoConn /\ conn' \in [Caller -> Conn \cup {NoConn}]
             /\ \A h \in Caller \ {g} : conn'[h] = conn[h]
             /\ UNCHANGED <<closed, want, expired, cancelled, firing>>
  BY <1>1, <1>3 DEF PutBack, Types
<1>4. CASE PutIdle(g)
  <2>1. /\ ~closed /\ ~Full(s) /\ Release(s, 1) /\ PutBack(g)
        /\ conns' = [conns EXCEPT ![s] = Append(@, c)]
        /\ transport' = transport
    BY <1>4 DEF PutIdle, s, c
  <2>2. /\ Append(conns[s], c) \in Seq(Conn)
        /\ Len(Append(conns[s], c)) = Len(conns[s]) + 1
    BY <1>1, <1>2
  <2>3. /\ conns' \in [Server -> Seq(Conn)]
        /\ Len(conns'[s]) = Len(conns[s]) + 1
        /\ \A r \in Server \ {s} : conns'[r] = conns[r]
    BY <1>1, <2>1, <2>2 DEF Types
  <2>4. Len(conns'[s]) <= MaxIdle
    BY <1>2, <2>1, <2>3, PoolAssumption DEF Full
  <2>5. transport' \in [Conn -> {"closed", "healthy", "unhealthy"}]
    BY <1>1, <2>1 DEF Types
  <2> QED
    BY <1>1, <1>3, <2>1, <2>3, <2>4, <2>5, ReleaseStep
<1>5. CASE PutDiscard(g)
  <2>1. /\ Release(s, 0) /\ PutBack(g)
        /\ transport' = Shutting({c})
        /\ conns' = conns
    BY <1>5 DEF PutDiscard, s, c
  <2>2. transport' \in [Conn -> {"closed", "healthy", "unhealthy"}]
    BY <1>1, <2>1, ShuttingType
  <2>3. conns' \in [Server -> Seq(Conn)] /\ Len(conns'[s]) = Len(conns[s]) + 0
    BY <1>1, <1>2, <2>1 DEF Types
  <2> QED
    BY <1>1, <1>2, <1>3, <2>1, <2>2, <2>3, ReleaseStep
<1> QED
  BY <1>4, <1>5 DEF Put

-----------------------------------------------------------------------------
(* Callbacks, housekeeping and environment.                                *)

\* Deadlines, contexts and their callbacks keep the invariant.
LEMMA CallbackStep ==
  ASSUME IInv, NEW g \in Caller, Expire(g) \/ Cancel(g) \/ broadcast(g)
  PROVE  IInv'
<1>1. Types
  BY DEF IInv
<1> HIDE DEF Conn
<1>2. CASE Expire(g) \/ Cancel(g)
  <2>1. Types'
    BY <1>1, <1>2 DEF Types, Expire, Cancel, poolVars
  <2> QED
    BY <1>2, <2>1 DEF IInv, Expire, Cancel, poolVars, HoldsConn, NoLostWakeup,
                      WithinLimits, ClosedIsEmpty
<1>3. CASE broadcast(g)
  <2>1. /\ pc' = Signalled(pc)
        /\ UNCHANGED <<conns, activeCount, stats, closed, transport, want, conn,
                       expired, cancelled>>
        /\ firing' \subseteq firing
    BY <1>3 DEF broadcast, poolVars
  <2>2. /\ pc' \in [Caller -> PC]
        /\ \A h \in Caller : pc'[h] # "waiting" /\ (pc'[h] = "holding" <=> pc[h] = "holding")
    BY <1>1, <2>1, SignalledProperties DEF Types
  <2>3. Types'
    BY <1>1, <2>1, <2>2 DEF Types
  <2> QED
    BY <2>1, <2>2, <2>3 DEF IInv, HoldsConn, NoLostWakeup, WithinLimits, ClosedIsEmpty
<1> QED
  BY <1>2, <1>3

\* A tick of the reaper keeps the invariant.
LEMMA ReapStep ==
  ASSUME IInv, reap
  PROVE  IInv'
<1> USE PoolAssumption
<1>1. Types
  BY DEF IInv
<1>2. PICK n \in [Server -> 0..MaxIdle] :
         /\ \A s \in Server : n[s] <= Len(conns[s])
         /\ conns' = [s \in Server |-> SubSeq(conns[s], n[s] + 1, Len(conns[s]))]
         /\ transport' = Shutting({conns[p[1]][p[2]] : p \in Bottom(n)})
         /\ stats' = [stats EXCEPT !.IdleConns = @ - Cardinality(Bottom(n))]
  BY DEF reap
<1>3. ~closed /\ UNCHANGED <<activeCount, closed, pc, want, conn, expired, cancelled, firing>>
  BY DEF reap, callVars
<1> HIDE DEF Conn
<1>4. ASSUME NEW s \in Server
      PROVE conns'[s] \in Seq(Conn) /\ Len(conns'[s]) = Len(conns[s]) - n[s]
  <2>1. n[s] \in Nat /\ n[s] <= Len(conns[s])
    BY <1>2
  <2> QED
    BY <1>1, <1>2, <2>1, AboveProperties
<1>5. Types'
  <2>1. Cardinality(Bottom(n)) \in Nat
    BY BottomFinite
  <2>2. stats' \in [ActiveConns : Int, IdleConns : Int]
    <3>1. stats \in [ActiveConns : Int, IdleConns : Int]
      BY <1>1 DEF Types
    <3> QED
      BY <1>2, <2>1, <3>1
  <2>3. transport' \in [Conn -> {"closed", "healthy", "unhealthy"}]
    BY <1>1, <1>2, ShuttingType
  <2>4. conns' \in [Server -> Seq(Conn)]
    BY <1>2, <1>4
  <2> QED
    BY <1>1, <1>3, <2>2, <2>3, <2>4 DEF Types
<1>6. WithinLimits'
  <2> SUFFICES ASSUME NEW s \in Server
               PROVE  /\ activeCount'[s] + Len(conns'[s]) <= MaxOpen
                      /\ Len(conns'[s]) <= MaxIdle
    BY DEF WithinLimits
  <2>1. /\ activeCount[s] \in Int /\ Len(conns[s]) \in Nat /\ n[s] \in Nat
        /\ activeCount[s] + Len(conns[s]) <= MaxOpen /\ Len(conns[s]) <= MaxIdle
    BY <1>1 DEF IInv, WithinLimits, Types
  <2>2. Len(conns'[s]) = Len(conns[s]) - n[s] /\ activeCount'[s] = activeCount[s]
    BY <1>3, <1>4
  <2> QED
    BY <2>1, <2>2
<1> QED
  BY <1>3, <1>5, <1>6 DEF IInv, HoldsConn, NoLostWakeup, ClosedIsEmpty

\* Emptying the stack of one server keeps the invariant.
LEMMA ClearStep ==
  ASSUME IInv, NEW s \in Server, ClearServer(s)
  PROVE  IInv'
<1> USE PoolAssumption
<1>1. Types /\ Len(conns[s]) \in Nat
  BY DEF IInv, Types
<1> HIDE DEF Conn
<1>2. /\ transport' = Shutting(Idle(s))
      /\ stats' = [stats EXCEPT !.IdleConns = @ - Len(conns[s])]
      /\ conns' = [conns EXCEPT ![s] = <<>>]
      /\ UNCHANGED <<activeCount, closed, pc, want, conn, expired, cancelled, firing>>
  BY DEF ClearServer, callVars
<1>3. Types'
  <2>1. stats' \in [ActiveConns : Int, IdleConns : Int]
    <3>1. stats \in [ActiveConns : Int, IdleConns : Int]
      BY <1>1 DEF Types
    <3> QED
      BY <1>1, <1>2, <3>1
  <2>2. transport' \in [Conn -> {"closed", "healthy", "unhealthy"}]
    BY <1>1, <1>2, ShuttingType
  <2>3. conns' \in [Server -> Seq(Conn)]
    BY <1>1, <1>2 DEF Types
  <2> QED
    BY <1>1, <1>2, <2>1, <2>2, <2>3 DEF Types
<1>4. WithinLimits' /\ ClosedIsEmpty'
  <2>1. ASSUME NEW r \in Server
        PROVE  /\ activeCount'[r] = activeCount[r] /\ activeCount[r] \in Int
               /\ \/ conns'[r] = conns[r]
                  \/ Len(conns'[r]) = 0 /\ conns'[r] = <<>> /\ Len(conns[r]) \in Nat
    BY <1>1, <1>2 DEF Types
  <2>2. WithinLimits'
    BY <2>1 DEF IInv, WithinLimits
  <2> QED
    BY <1>2, <2>1, <2>2 DEF IInv, ClosedIsEmpty
<1> QED
  BY <1>2, <1>3, <1>4 DEF IInv, HoldsConn, NoLostWakeup

\* Close keeps the invariant: it signals everybody who waits.
LEMMA CloseStep ==
  ASSUME IInv, Close
  PROVE  IInv'
<1> USE PoolAssumption
<1>1. Types
  BY DEF IInv
<1> HIDE DEF Conn
<1>2. /\ closed' = TRUE
      /\ transport' = Shutting(UNION {Idle(s) : s \in Server})
      /\ conns' = [s \in Server |-> <<>>]
      /\ pc' = Signalled(pc)
      /\ UNCHANGED <<activeCount, stats, want, conn, expired, cancelled, firing>>
  BY DEF Close
<1>3. /\ pc' \in [Caller -> PC]
      /\ \A h \in Caller : pc'[h] # "waiting" /\ (pc'[h] = "holding" <=> pc[h] = "holding")
  BY <1>1, <1>2, SignalledProperties DEF Types
<1>4. transport' \in [Conn -> {"closed", "healthy", "unhealthy"}]
  BY <1>1, <1>2, ShuttingType
<1>5. conns' \in [Server -> Seq(Conn)]
  BY <1>2
<1>6. Types'
  BY <1>1, <1>2, <1>3, <1>4, <1>5 DEF Types
<1>7. WithinLimits'
  <2>1. ASSUME NEW s \in Server
        PROVE  /\ activeCount'[s] + Len(conns'[s]) <= MaxOpen
               /\ Len(conns'[s]) <= MaxIdle
    <3>1. /\ activeCount[s] \in Int /\ Len(conns[s]) \in Nat
          /\ activeCount[s] + Len(conns[s]) <= MaxOpen
      BY <1>1 DEF IInv, WithinLimits, Types
    <3>2. activeCount'[s] = activeCount[s] /\ Len(conns'[s]) = 0
      BY <1>2
    <3> QED
      BY <3>1, <3>2
  <2> QED
    BY <2>1 DEF WithinLimits
<1> QED
  BY <1>2, <1>3, <1>6, <1>7 DEF IInv, HoldsConn, NoLostWakeup, ClosedIsEmpty
-----------------------------------------------------------------------------
(* The theorems.                                                           *)

\* Every step of the pool, of its callers and of the clock keeps the invariant.
LEMMA NextIInv == IInv /\ [Next]_vars => IInv'
<1> SUFFICES ASSUME IInv, [Next]_vars PROVE IInv'
  OBVIOUS
<1>1. ASSUME NEW g \in Caller, NEW s \in Server, Get(g, s) PROVE IInv'
  BY <1>1, GetStep
<1>2. ASSUME NEW g \in Caller, Wake(g) \/ Dial(g) \/ Put(g) PROVE IInv'
  BY <1>2, WakeStep, DialStep, PutStep
<1>3. ASSUME NEW g \in Caller, Expire(g) \/ Cancel(g) \/ broadcast(g) PROVE IInv'
  BY <1>3, CallbackStep
<1>4. CASE reap
  BY <1>4, ReapStep
<1>5. ASSUME NEW s \in Server, ClearServer(s) PROVE IInv'
  BY <1>5, ClearStep
<1>6. CASE Close
  BY <1>6, CloseStep
<1>7. ASSUME NEW c \in Conn, MarkUnhealthy(c) PROVE IInv'
  <2>1. Types'
    BY <1>7 DEF IInv, Types, MarkUnhealthy, callVars
  <2> QED
    BY <1>7, <2>1 DEF IInv, MarkUnhealthy, callVars, HoldsConn, WithinLimits,
                      NoLostWakeup, ClosedIsEmpty
<1>8. CASE UNCHANGED vars
  BY <1>8 DEF vars, poolVars, callVars, IInv, Types, HoldsConn, WithinLimits,
              NoLostWakeup, ClosedIsEmpty
<1> QED
  BY <1>1, <1>2, <1>3, <1>4, <1>5, <1>6, <1>7, <1>8 DEF Next

\* The invariant holds throughout.
LEMMA Invariance == Spec => []IInv
<1> QED
  BY InitIInv, NextIInv, PTL DEF Spec

\* Neither limit of the configuration is ever exceeded, with any number of
\* servers, callers and connections.
THEOREM LimitsHold == Spec => []WithinLimits
<1>1. IInv => WithinLimits
  BY DEF IInv
<1> QED
  BY <1>1, Invariance, PTL

\* A goroutine waits unsignalled only while its server has no free slot and the
\* pool is open, for every number of callers and servers sharing the condition.
THEOREM NoWakeupLost == Spec => []NoLostWakeup
<1>1. IInv => NoLostWakeup
  BY DEF IInv
<1> QED
  BY <1>1, Invariance, PTL

\* Nothing is put back into a closed pool.
THEOREM ClosedStaysEmpty == Spec => []ClosedIsEmpty
<1>1. IInv => ClosedIsEmpty
  BY DEF IInv
<1> QED
  BY <1>1, Invariance, PTL

-----------------------------------------------------------------------------
(* The second inductive invariant: connections in use are counted exactly. *)

Users == {g \in Caller : pc[g] \in InUse}

\* Every connection in a stack, and every one a caller holds, belongs to the
\* server it was asked for.  Put frees the slot of the server it reads from the
\* connection; without Own that might be another caller's slot.
Own ==
    /\ \A s \in Server : conns[s] \in Seq({s} \X Id)
    /\ \A g \in Caller : pc[g] = "holding" => conn[g] \in {want[g]} \X Id

ActiveCounted == stats.ActiveConns = Cardinality(Users)

Counts == SlotsAccounted /\ ActiveCounted

SlotInv == IInv /\ Own /\ Counts

-----------------------------------------------------------------------------
(* The three things a step can do to the slots.                            *)

\* Nobody but g takes or leaves a slot, and who has one keeps its server.
OthersStay(g) ==
    \A h \in Caller \ {g} :
        /\ pc'[h] \in InUse <=> pc[h] \in InUse
        /\ pc[h] \in InUse => want'[h] = want[h]

Entered(g, s) ==
    /\ OthersStay(g)
    /\ pc[g] \notin InUse /\ pc'[g] \in InUse
    /\ want'[g] = s
    /\ activeCount' = [activeCount EXCEPT ![s] = @ + 1]
    /\ stats'.ActiveConns = stats.ActiveConns + 1

Left(g, s) ==
    /\ OthersStay(g)
    /\ pc[g] \in InUse /\ pc'[g] \notin InUse
    /\ want[g] = s
    /\ activeCount' = [activeCount EXCEPT ![s] = @ - 1]
    /\ stats'.ActiveConns = stats.ActiveConns - 1

Stayed ==
    /\ \A h \in Caller :
          /\ pc'[h] \in InUse <=> pc[h] \in InUse
          /\ pc[h] \in InUse => want'[h] = want[h]
    /\ activeCount' = activeCount
    /\ stats'.ActiveConns = stats.ActiveConns

\* Any set of callers can be counted.
LEMMA CallersFinite ==
  ASSUME NEW A \in SUBSET Caller
  PROVE  IsFiniteSet(A) /\ Cardinality(A) \in Nat
BY PoolAssumption, FS_Subset, FS_CardinalityType

LEMMA CountAdd ==
  ASSUME NEW A \in SUBSET Caller, NEW g \in Caller, g \notin A
  PROVE  Cardinality(A \cup {g}) = Cardinality(A) + 1
BY CallersFinite, FS_AddElement

LEMMA CountDrop ==
  ASSUME NEW A \in SUBSET Caller, NEW g \in A
  PROVE  Cardinality(A \ {g}) = Cardinality(A) - 1
BY CallersFinite, FS_RemoveElement

\* A caller that takes a slot and is counted keeps the counts exact.
LEMMA EnteredCounts ==
  ASSUME IInv, Counts, NEW g \in Caller, NEW s \in Server, Entered(g, s)
  PROVE  Counts'
<1>1. Types
  BY DEF IInv
<1>2. ActiveCounted'
  <2>1. Users' = Users \cup {g} /\ g \notin Users /\ Users \in SUBSET Caller
    BY DEF Entered, OthersStay, Users
  <2> QED
    BY <2>1, CountAdd DEF Entered, Counts, ActiveCounted
<1>3. SlotsAccounted'
  <2> SUFFICES ASSUME NEW r \in Server
               PROVE activeCount'[r] = Cardinality(Holders(r)')
    BY DEF SlotsAccounted
  <2>1. activeCount[r] = Cardinality(Holders(r)) /\ Holders(r) \in SUBSET Caller
    BY DEF Counts, SlotsAccounted, Holders
  <2>2. CASE r = s
    <3>1. Holders(r)' = Holders(r) \cup {g} /\ g \notin Holders(r)
      BY <2>2 DEF Entered, OthersStay, Holders
    <3>2. activeCount'[r] = activeCount[r] + 1
      BY <1>1, <2>2 DEF Types, Entered
    <3> QED
      BY <2>1, <3>1, <3>2, CountAdd
  <2>3. CASE r # s
    <3>1. Holders(r)' = Holders(r)
      BY <2>3 DEF Entered, OthersStay, Holders
    <3>2. activeCount'[r] = activeCount[r]
      BY <1>1, <2>3 DEF Types, Entered
    <3> QED
      BY <2>1, <3>1, <3>2
  <2> QED
    BY <2>2, <2>3
<1> QED
  BY <1>2, <1>3 DEF Counts

\* A caller that gives its slot back and is discounted keeps the counts exact.
LEMMA LeftCounts ==
  ASSUME IInv, Counts, NEW g \in Caller, NEW s \in Server, Left(g, s)
  PROVE  Counts'
<1>1. Types
  BY DEF IInv
<1>2. ActiveCounted'
  <2>1. Users' = Users \ {g} /\ g \in Users /\ Users \in SUBSET Caller
    BY DEF Left, OthersStay, Users
  <2> QED
    BY <2>1, CountDrop DEF Left, Counts, ActiveCounted
<1>3. SlotsAccounted'
  <2> SUFFICES ASSUME NEW r \in Server
               PROVE activeCount'[r] = Cardinality(Holders(r)')
    BY DEF SlotsAccounted
  <2>1. activeCount[r] = Cardinality(Holders(r)) /\ Holders(r) \in SUBSET Caller
    BY DEF Counts, SlotsAccounted, Holders
  <2>2. CASE r = s
    <3>1. Holders(r)' = Holders(r) \ {g} /\ g \in Holders(r)
      BY <2>2 DEF Left, OthersStay, Holders
    <3>2. activeCount'[r] = activeCount[r] - 1
      BY <1>1, <2>2 DEF Types, Left
    <3> QED
      BY <2>1, <3>1, <3>2, CountDrop
  <2>3. CASE r # s
    <3>1. Holders(r)' = Holders(r)
      BY <2>3 DEF Left, OthersStay, Holders
    <3>2. activeCount'[r] = activeCount[r]
      BY <1>1, <2>3 DEF Types, Left
    <3> QED
      BY <2>1, <3>1, <3>2
  <2> QED
    BY <2>2, <2>3
<1> QED
  BY <1>2, <1>3 DEF Counts

\* A step that moves nobody into or out of a slot keeps the counts exact.
LEMMA StayedCounts ==
  ASSUME Counts, Stayed
  PROVE  Counts'
<1>1. Users' = Users /\ \A s \in Server : Holders(s)' = Holders(s)
  BY DEF Stayed, Users, Holders
<1> QED
  BY <1>1 DEF Stayed, Counts, SlotsAccounted, ActiveCounted

-----------------------------------------------------------------------------
(* The critical sections.                                                  *)

\* Broadcast moves nobody into or out of a slot.
LEMMA SignalledSlots ==
  ASSUME NEW f \in [Caller -> PC]
  PROVE  \A h \in Caller :
            /\ Signalled(f)[h] \in InUse <=> f[h] \in InUse
            /\ Signalled(f)[h] = "holding" <=> f[h] = "holding"
<1>1. \A h \in Caller :
         /\ f[h] # "waiting" => Signalled(f)[h] = f[h]
         /\ f[h] = "waiting" => Signalled(f)[h] = "woken"
  BY SignalledProperties
<1> QED
  BY <1>1 DEF InUse

\* Parts of a stack are stacks of the same server.
LEMMA OwnRest ==
  ASSUME IInv, Own, NEW s \in Server, NEW n \in 0..Len(conns[s])
  PROVE  Rest(s, n) \in Seq({s} \X Id)
<1>1. conns[s] \in Seq({s} \X Id)
  BY DEF Own
<1> DEFINE S == {s} \X Id
<1> HIDE DEF S
<1>2. conns[s] \in Seq(S)
  BY <1>1 DEF S
<1>3. /\ Len(conns[s]) - n \in 0..Len(conns[s])
      /\ \A i \in 1..(Len(conns[s]) - n) : conns[s][i] \in S
  BY <1>2
<1>4. Rest(s, n) \in Seq(S)
  BY <1>3, SubSeqProperties DEF Rest
<1> QED
  BY <1>4 DEF S

\* A hit on the idle stack takes one slot of the server asked for.
LEMMA TakeSlot ==
  ASSUME SlotInv, NEW g, NEW s, Asking(g, s), NEW n \in Nat, Take(g, s, n)
  PROVE  Own' /\ Counts'
<1>1. /\ g \in Caller /\ s \in Server /\ Types /\ IInv /\ Own /\ Counts
      /\ conns[s] \in Seq({s} \X Id)
  BY DEF Asking, SlotInv, IInv, Own
<1> DEFINE c == conns[s][Len(conns[s]) - n]
<1>2. n + 1 \in 0..Len(conns[s]) /\ c \in {s} \X Id
  <2> DEFINE S == {s} \X Id
  <2>1. conns[s] \in Seq(S) /\ n < Len(conns[s])
    BY <1>1 DEF Take
  <2> HIDE DEF S
  <2>2. n + 1 \in 0..Len(conns[s]) /\ c \in S
    BY <2>1
  <2> QED
    BY <2>2 DEF S
<1>3. Rest(s, n + 1) \in Seq({s} \X Id)
  BY <1>1, <1>2, OwnRest
<1> HIDE DEF c
<1>4. /\ conns' = [conns EXCEPT ![s] = Rest(s, n + 1)]
      /\ activeCount' = [activeCount EXCEPT ![s] = @ + 1]
      /\ stats'.ActiveConns = stats.ActiveConns + 1
      /\ pc' = [pc EXCEPT ![g] = "holding"]
      /\ conn' = [conn EXCEPT ![g] = c]
  BY DEF Take, c
<1>5. /\ pc'[g] = "holding" /\ conn'[g] = c
      /\ \A h \in Caller \ {g} : pc'[h] = pc[h] /\ conn'[h] = conn[h]
      /\ conns'[s] = Rest(s, n + 1)
      /\ \A r \in Server \ {s} : conns'[r] = conns[r]
  BY <1>1, <1>4 DEF Types
<1>6. Own'
  BY <1>1, <1>2, <1>3, <1>5 DEF Own, Asking
<1>7. Entered(g, s)
  BY <1>1, <1>4, <1>5 DEF Entered, OthersStay, Asking, InUse
<1> QED
  BY <1>1, <1>6, <1>7, EnteredCounts

\* What is left of the stacks after Dropped belongs to the same servers.
LEMMA DroppedOwn ==
  ASSUME SlotInv, NEW s \in Server, NEW n \in 0..Len(conns[s]), Dropped(s, n)
  PROVE  \A r \in Server : conns'[r] \in Seq({r} \X Id)
<1>1. Types /\ Own /\ IInv
  BY DEF SlotInv, IInv
<1>2. Rest(s, n) \in Seq({s} \X Id)
  BY <1>1, OwnRest
<1>3. /\ conns'[s] = Rest(s, n)
      /\ \A r \in Server \ {s} : conns'[r] = conns[r]
  BY <1>1 DEF Dropped, Types
<1> QED
  BY <1>1, <1>2, <1>3 DEF Own

\* A reservation takes one slot of the server asked for.
LEMMA ReserveSlot ==
  ASSUME SlotInv, NEW g, NEW s, Asking(g, s),
         NEW n \in 0..Len(conns[s]), Reserve(g, s, n)
  PROVE  Own' /\ Counts'
<1>1. /\ g \in Caller /\ s \in Server /\ Types /\ IInv /\ Own /\ Counts
      /\ Dropped(s, n)
  BY DEF Asking, SlotInv, IInv, Reserve
<1>2. /\ activeCount' = [activeCount EXCEPT ![s] = @ + 1]
      /\ stats'.ActiveConns = stats.ActiveConns + 1
      /\ pc' = [pc EXCEPT ![g] = "dialing"] /\ conn' = conn
  BY <1>1 DEF Reserve, Dropped
<1>3. /\ pc'[g] = "dialing"
      /\ \A h \in Caller \ {g} : pc'[h] = pc[h]
  BY <1>1, <1>2 DEF Types
<1>4. Own'
  <2>1. \A r \in Server : conns'[r] \in Seq({r} \X Id)
    BY <1>1, DroppedOwn
  <2> QED
    BY <1>1, <1>2, <1>3, <2>1 DEF Own, Asking
<1>5. Entered(g, s)
  BY <1>1, <1>2, <1>3 DEF Entered, OthersStay, Asking, InUse
<1> QED
  BY <1>1, <1>4, <1>5, EnteredCounts

\* Finding the pool saturated takes no slot.
LEMMA SaturatedSlot ==
  ASSUME SlotInv, NEW g, NEW s, Asking(g, s),
         NEW n \in 0..Len(conns[s]),
         NEW outcome \in {"exhausted", "cancelled", "waiting"},
         Saturated(g, s, n, outcome)
  PROVE  Own' /\ Counts'
<1>1. /\ g \in Caller /\ s \in Server /\ Types /\ IInv /\ Own /\ Counts
      /\ Dropped(s, n)
  BY DEF Asking, SlotInv, IInv, Saturated
<1>2. /\ activeCount' = activeCount
      /\ stats'.ActiveConns = stats.ActiveConns
      /\ pc' = [pc EXCEPT ![g] = outcome] /\ conn' = conn
  BY <1>1 DEF Saturated, Dropped, Types
<1>3. /\ pc'[g] = outcome
      /\ \A h \in Caller \ {g} : pc'[h] = pc[h]
  BY <1>1, <1>2 DEF Types
<1>4. Own'
  <2>1. \A r \in Server : conns'[r] \in Seq({r} \X Id)
    BY <1>1, DroppedOwn
  <2> QED
    BY <1>1, <1>2, <1>3, <2>1 DEF Own, Asking
<1>5. Stayed
  BY <1>1, <1>2, <1>3 DEF Stayed, Asking, InUse
<1> QED
  BY <1>1, <1>4, <1>5, StayedCounts

\* The first critical section of Get counts what it hands out.
LEMMA GetSlot ==
  ASSUME SlotInv, NEW g \in Caller, NEW s \in Server, Get(g, s)
  PROVE  Own' /\ Counts'
<1>1. /\ Types /\ Own /\ Counts /\ Len(conns[s]) \in 0..Len(conns[s])
      /\ \A n \in 0..Len(conns[s]) : n \in Nat
  BY DEF SlotInv, IInv, Types
<1>2. ASSUME Begin(g, s) PROVE Asking(g, s)
  BY <1>1, <1>2 DEF Begin, Asking, Types, Returned, InUse
<1>3. CASE GetRefused(g, s)
  <2>1. /\ pc[g] \in Returned /\ pc'[g] = "refused"
        /\ \A h \in Caller \ {g} : pc'[h] = pc[h] /\ want'[h] = want[h]
        /\ UNCHANGED <<conns, activeCount, stats, conn>>
    BY <1>1, <1>3 DEF GetRefused, Types, poolVars
  <2>2. Own'
    BY <1>1, <2>1 DEF Own
  <2>3. Stayed
    BY <2>1 DEF Stayed, Returned, InUse
  <2> QED
    BY <1>1, <2>2, <2>3, StayedCounts
<1>4. CASE GetIdle(g, s)
  BY <1>1, <1>2, <1>4, TakeSlot DEF GetIdle
<1>5. CASE GetNew(g, s)
  BY <1>1, <1>2, <1>5, ReserveSlot DEF GetNew
<1>6. CASE GetExhausted(g, s)
  BY <1>1, <1>2, <1>6, SaturatedSlot DEF GetExhausted
<1>7. CASE GetCancelled(g, s)
  BY <1>1, <1>2, <1>7, SaturatedSlot DEF GetCancelled
<1>8. CASE GetWait(g, s)
  BY <1>1, <1>2, <1>8, SaturatedSlot DEF GetWait
<1> QED
  BY <1>3, <1>4, <1>5, <1>6, <1>7, <1>8 DEF Get

\* So does every pass of the wait loop.
LEMMA WakeSlot ==
  ASSUME SlotInv, NEW g \in Caller, Wake(g)
  PROVE  Own' /\ Counts'
<1> DEFINE s == want[g]
<1>1. Types /\ Own /\ Counts /\ s \in Server
  BY DEF SlotInv, IInv, Types
<1>2. Look(s) \in 0..Len(conns[s])
  BY <1>1, LookInRange
<1>3. ASSUME Woken(g), Finish(g) PROVE Asking(g, s)
  BY <1>1, <1>3 DEF Woken, Finish, Asking, Types, InUse
<1> HIDE DEF s
<1>4. CASE WakeClosed(g)
  <2>1. /\ pc[g] = "woken" /\ pc'[g] = "refused"
        /\ \A h \in Caller \ {g} : pc'[h] = pc[h]
        /\ UNCHANGED <<conns, activeCount, stats, conn, want>>
    BY <1>1, <1>4 DEF WakeClosed, Finish, Types, poolVars
  <2>2. Own'
    BY <1>1, <2>1 DEF Own
  <2>3. Stayed
    BY <2>1 DEF Stayed, InUse
  <2> QED
    BY <1>1, <2>2, <2>3, StayedCounts
<1>5. CASE WakeIdle(g)
  BY <1>1, <1>3, <1>5, TakeSlot DEF WakeIdle, s
<1>6. CASE WakeNew(g)
  BY <1>1, <1>2, <1>3, <1>6, ReserveSlot DEF WakeNew, s
<1>7. CASE WakeCancelled(g)
  BY <1>1, <1>2, <1>3, <1>7, SaturatedSlot DEF WakeCancelled, s
<1>8. CASE WakeExpired(g)
  BY <1>1, <1>2, <1>3, <1>8, SaturatedSlot DEF WakeExpired, s
<1>9. CASE WakeWait(g)
  <2>1. Asking(g, s)
    BY <1>1, <1>9 DEF WakeWait, Woken, Asking, Types, InUse, s
  <2> QED
    BY <1>1, <1>2, <1>9, <2>1, SaturatedSlot DEF WakeWait, s
<1> QED
  BY <1>4, <1>5, <1>6, <1>7, <1>8, <1>9 DEF Wake

\* Giving the slot of the server asked for back, with a broadcast.
LEMMA ReleaseSlot ==
  ASSUME SlotInv, NEW g \in Caller, NEW k \in {0, 1},
         NEW end \in {"ready", "dialFailed"},
         pc[g] \in InUse, want' = want,
         Release(want[g], k),
         pc' = Signalled([pc EXCEPT ![g] = end]),
         \A h \in Caller \ {g} : conn'[h] = conn[h],
         \A s \in Server : conns'[s] \in Seq({s} \X Id)
  PROVE  Own' /\ Counts'
<1>1. Types /\ IInv /\ Own /\ Counts /\ want[g] \in Server
  BY DEF SlotInv, IInv, Types
<1> DEFINE f == [pc EXCEPT ![g] = end]
<1>2. /\ f \in [Caller -> PC] /\ f[g] = end /\ pc' = Signalled(f)
      /\ \A h \in Caller \ {g} : f[h] = pc[h]
  BY <1>1 DEF Types, PC, Returned
<1> HIDE DEF f
<1>3. \A h \in Caller :
         /\ pc'[h] \in InUse <=> f[h] \in InUse
         /\ pc'[h] = "holding" <=> f[h] = "holding"
  BY <1>2, SignalledSlots
<1>4. Own'
  BY <1>1, <1>2, <1>3 DEF Own
<1>5. Left(g, want[g])
  <2>1. stats'.ActiveConns = stats.ActiveConns - 1
    BY DEF Release
  <2>2. activeCount' = [activeCount EXCEPT ![want[g]] = @ - 1]
    BY DEF Release
  <2>3. pc'[g] \notin InUse
    BY <1>2, <1>3 DEF InUse
  <2> QED
    BY <1>2, <1>3, <2>1, <2>2, <2>3 DEF Left, OthersStay
<1> QED
  BY <1>1, <1>4, <1>5, LeftCounts

\* A dial keeps its slot if it succeeds and gives it back if it fails.
LEMMA DialSlot ==
  ASSUME SlotInv, NEW g \in Caller, Dial(g)
  PROVE  Own' /\ Counts'
<1>1. Types /\ Own /\ Counts /\ pc[g] = "dialing"
  BY DEF SlotInv, IInv, Types, Dial, DialOk, DialFail
<1>2. CASE DialOk(g)
  <2>1. PICK c \in {want[g]} \X Id : conn' = [conn EXCEPT ![g] = c]
    BY <1>2 DEF DialOk
  <2>2. /\ pc' = [pc EXCEPT ![g] = "holding"]
        /\ UNCHANGED <<conns, activeCount, stats, want>>
    BY <1>2 DEF DialOk
  <2>3. c \in Conn
    BY <1>1, <2>1 DEF Conn, Types
  <2>4. /\ conn'[g] = c /\ pc'[g] = "holding"
        /\ \A h \in Caller \ {g} : conn'[h] = conn[h] /\ pc'[h] = pc[h]
    BY <1>1, <2>1, <2>2, <2>3 DEF Types
  <2>5. Own'
    BY <1>1, <2>1, <2>2, <2>4 DEF Own
  <2>6. Stayed
    BY <1>1, <2>2, <2>4 DEF Stayed, InUse
  <2> QED
    BY <1>1, <2>5, <2>6, StayedCounts
<1>3. CASE DialFail(g)
  <2>1. /\ Release(want[g], 0)
        /\ pc' = Signalled([pc EXCEPT ![g] = "dialFailed"])
        /\ UNCHANGED <<conns, want, conn>>
    BY <1>3 DEF DialFail
  <2>2. \A s \in Server : conns'[s] \in Seq({s} \X Id)
    BY <1>1, <2>1 DEF Own
  <2> QED
    BY <1>1, <2>1, <2>2, ReleaseSlot DEF InUse
<1> QED
  BY <1>2, <1>3 DEF Dial

\* Put gives back the slot its caller took, though it reads the server from the
\* connection.
LEMMA PutSlot ==
  ASSUME SlotInv, NEW g \in Caller, Put(g)
  PROVE  Own' /\ Counts'
<1>1. Types /\ Own /\ pc[g] = "holding" /\ pc[g] \in InUse
  BY DEF SlotInv, IInv, Put, PutIdle, PutDiscard, InUse
<1>2. conn[g] \in {want[g]} \X Id /\ ServerName(conn[g]) = want[g] /\ want[g] \in Server
  BY <1>1 DEF Own, ServerName, Types
<1>3. ASSUME PutBack(g)
      PROVE  /\ pc' = Signalled([pc EXCEPT ![g] = "ready"])
             /\ \A h \in Caller \ {g} : conn'[h] = conn[h]
             /\ want' = want
  BY <1>1, <1>3 DEF PutBack, Types
<1>4. CASE PutIdle(g)
  <2>1. /\ Release(want[g], 1) /\ PutBack(g)
        /\ conns' = [conns EXCEPT ![want[g]] = Append(@, conn[g])]
    BY <1>2, <1>4 DEF PutIdle
  <2>2. Append(conns[want[g]], conn[g]) \in Seq({want[g]} \X Id)
    <3> DEFINE S == {want[g]} \X Id
    <3>1. conns[want[g]] \in Seq(S) /\ conn[g] \in S
      BY <1>1, <1>2 DEF Own
    <3> HIDE DEF S
    <3>2. Append(conns[want[g]], conn[g]) \in Seq(S)
      BY <3>1
    <3> QED
      BY <3>2 DEF S
  <2>3. \A s \in Server : conns'[s] \in Seq({s} \X Id)
    BY <1>1, <1>2, <2>1, <2>2 DEF Types, Own
  <2> QED
    BY <1>1, <1>3, <2>1, <2>3, ReleaseSlot
<1>5. CASE PutDiscard(g)
  <2>1. Release(want[g], 0) /\ PutBack(g) /\ conns' = conns
    BY <1>2, <1>5 DEF PutDiscard
  <2>2. \A s \in Server : conns'[s] \in Seq({s} \X Id)
    BY <1>1, <2>1 DEF Own
  <2> QED
    BY <1>1, <1>3, <2>1, <2>2, ReleaseSlot
<1> QED
  BY <1>4, <1>5 DEF Put

-----------------------------------------------------------------------------
(* Callbacks and housekeeping take no slot and mix no stacks.              *)

\* A tick of the reaper leaves the top of every stack.
LEMMA ReapOwn ==
  ASSUME SlotInv, reap
  PROVE  \A s \in Server : conns'[s] \in Seq({s} \X Id)
<1> SUFFICES ASSUME NEW s \in Server PROVE conns'[s] \in Seq({s} \X Id)
  OBVIOUS
<1>1. PICK n \in [Server -> 0..MaxIdle] :
         /\ \A r \in Server : n[r] <= Len(conns[r])
         /\ conns' = [r \in Server |-> SubSeq(conns[r], n[r] + 1, Len(conns[r]))]
  BY DEF reap
<1> DEFINE S == {s} \X Id
<1>2. conns[s] \in Seq(S)
  BY DEF SlotInv, Own
<1> HIDE DEF S
<1>3. n[s] \in Nat /\ n[s] <= Len(conns[s])
  BY <1>1, PoolAssumption
<1>4. \A i \in (n[s] + 1)..Len(conns[s]) : conns[s][i] \in S
  BY <1>2, <1>3
<1>5. SubSeq(conns[s], n[s] + 1, Len(conns[s])) \in Seq(S)
  BY <1>2, <1>3, <1>4, SubSeqProperties
<1> QED
  BY <1>1, <1>5 DEF S

\* Timers, the reaper, ClearServer, Close and a connection found broken.
LEMMA OtherSlot ==
  ASSUME SlotInv,
         \/ \E g \in Caller : Expire(g) \/ Cancel(g) \/ broadcast(g)
         \/ reap
         \/ \E s \in Server : ClearServer(s)
         \/ Close
         \/ \E c \in Conn : MarkUnhealthy(c)
  PROVE  Own' /\ Counts'
<1>1. Types /\ Own /\ Counts
  BY DEF SlotInv, IInv
<1>2. UNCHANGED <<activeCount, want, conn>> /\ stats'.ActiveConns = stats.ActiveConns
  <2>1. CASE reap \/ \E s \in Server : ClearServer(s)
    BY <1>1, <2>1 DEF Types, reap, ClearServer, callVars
  <2>2. CASE \/ \E g \in Caller : Expire(g) \/ Cancel(g) \/ broadcast(g)
             \/ Close
             \/ \E c \in Conn : MarkUnhealthy(c)
    BY <2>2 DEF Expire, Cancel, broadcast, Close, MarkUnhealthy, poolVars, callVars
  <2> QED
    BY <2>1, <2>2
<1>3. pc' = pc \/ pc' = Signalled(pc)
  BY DEF Expire, Cancel, broadcast, reap, ClearServer, Close, MarkUnhealthy, callVars
<1>4. \A h \in Caller :
         /\ pc'[h] \in InUse <=> pc[h] \in InUse
         /\ pc'[h] = "holding" <=> pc[h] = "holding"
  <2>1. CASE pc' = pc
    BY <2>1
  <2>2. CASE pc' = Signalled(pc)
    <3>1. pc \in [Caller -> PC]
      BY <1>1 DEF Types
    <3> QED
      BY <2>2, <3>1, SignalledSlots
  <2> QED
    BY <1>3, <2>1, <2>2
<1>5. \A s \in Server : conns'[s] \in Seq({s} \X Id)
  <2>1. CASE reap
    BY <2>1, ReapOwn
  <2>2. CASE (\E s \in Server : ClearServer(s)) \/ Close
    <3>1. \A r \in Server : conns'[r] = <<>> \/ conns'[r] = conns[r]
      BY <1>1, <2>2 DEF ClearServer, Close, Types
    <3>2. \A r \in Server : <<>> \in Seq({r} \X Id)
      OBVIOUS
    <3>3. \A r \in Server : conns[r] \in Seq({r} \X Id)
      BY <1>1 DEF Own
    <3> QED
      BY <3>1, <3>2, <3>3, Zenon
  <2>3. CASE \/ \E g \in Caller : Expire(g) \/ Cancel(g) \/ broadcast(g)
             \/ \E c \in Conn : MarkUnhealthy(c)
    BY <1>1, <2>3 DEF Expire, Cancel, broadcast, MarkUnhealthy, poolVars, Own
  <2> QED
    BY <2>1, <2>2, <2>3
<1>6. Own'
  BY <1>1, <1>2, <1>4, <1>5 DEF Own
<1>7. Stayed
  BY <1>2, <1>4 DEF Stayed
<1> QED
  BY <1>1, <1>6, <1>7, StayedCounts

-----------------------------------------------------------------------------
(* The theorems.                                                           *)

\* Initially nobody has a slot.
LEMMA InitSlotInv == Init => SlotInv
<1> SUFFICES ASSUME Init PROVE SlotInv
  OBVIOUS
<1>1. IInv
  BY InitIInv
<1>2. Own
  <2>1. \A s \in Server : conns[s] = <<>> /\ <<>> \in Seq({s} \X Id)
    BY DEF Init
  <2>2. \A g \in Caller : pc[g] = "ready"
    BY DEF Init
  <2> QED
    BY <2>1, <2>2 DEF Own
<1>3. Users = {} /\ \A s \in Server : Holders(s) = {}
  BY DEF Init, Users, Holders, InUse
<1>4. Counts
  BY <1>3, FS_EmptySet DEF Init, Counts, SlotsAccounted, ActiveCounted
<1> QED
  BY <1>1, <1>2, <1>4 DEF SlotInv

\* Every step keeps the slots counted.
LEMMA NextSlotInv == SlotInv /\ [Next]_vars => SlotInv'
<1> SUFFICES ASSUME SlotInv, [Next]_vars PROVE SlotInv'
  OBVIOUS
<1>1. IInv'
  BY NextIInv DEF SlotInv
<1>2. Own' /\ Counts'
  <2>1. ASSUME NEW g \in Caller, NEW s \in Server, Get(g, s) PROVE Own' /\ Counts'
    BY <2>1, GetSlot
  <2>2. ASSUME NEW g \in Caller, Wake(g) \/ Dial(g) \/ Put(g) PROVE Own' /\ Counts'
    BY <2>2, WakeSlot, DialSlot, PutSlot
  <2>3. CASE \/ \E g \in Caller : Expire(g) \/ Cancel(g) \/ broadcast(g)
             \/ reap
             \/ \E s \in Server : ClearServer(s)
             \/ Close
             \/ \E c \in Conn : MarkUnhealthy(c)
    BY <2>3, OtherSlot
  <2>4. CASE UNCHANGED vars
    BY <2>4 DEF vars, poolVars, callVars, SlotInv, Own, Counts, SlotsAccounted,
                ActiveCounted, Holders, Users
  <2> QED
    BY <2>1, <2>2, <2>3, <2>4 DEF Next
<1> QED
  BY <1>1, <1>2 DEF SlotInv

\* The second invariant holds throughout.
LEMMA SlotInvariance == Spec => []SlotInv
<1> QED
  BY InitSlotInv, NextSlotInv, PTL DEF Spec

\* activeCount is exactly the number of callers in a dial or with a connection:
\* no slot leaks and none is given back twice, on any path through Get and Put.
THEOREM SlotsNeverLeak == Spec => []SlotsAccounted
<1>1. SlotInv => SlotsAccounted
  BY DEF SlotInv, Counts
<1> QED
  BY <1>1, SlotInvariance, PTL

\* Every variable keeps its type; the counters of connections in use never fall
\* below zero, because they count callers.
THEOREM TypeCorrect == Spec => []TypeOK
<1>1. SlotInv => TypeOK
  <2> SUFFICES ASSUME SlotInv PROVE TypeOK
    OBVIOUS
  <2>1. Types /\ SlotsAccounted /\ ActiveCounted
    BY DEF SlotInv, IInv, Counts
  <2>2. activeCount \in [Server -> Nat]
    <3>1. ASSUME NEW s \in Server PROVE activeCount[s] \in Nat
      <4>1. Holders(s) \in SUBSET Caller
        BY DEF Holders
      <4> QED
        BY <2>1, <4>1, CallersFinite DEF SlotsAccounted
    <3> QED
      BY <2>1, <3>1 DEF Types
  <2>3. stats \in [ActiveConns : Nat, IdleConns : Int]
    <3>1. Users \in SUBSET Caller
      BY DEF Users
    <3>2. stats.ActiveConns \in Nat
      BY <2>1, <3>1, CallersFinite DEF ActiveCounted
    <3> QED
      BY <2>1, <3>2 DEF Types
  <2> QED
    BY <2>1, <2>2, <2>3 DEF Types, TypeOK
<1> QED
  BY <1>1, SlotInvariance, PTL
=============================================================================
