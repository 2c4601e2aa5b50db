--------------------------- MODULE PoolConnProofs ---------------------------
(***************************************************************************)
(* Proofs about the connections of the pool: each has one owner, none is   *)
(* forgotten, the statistics agree, and every step of the pool is a step   *)
(* of the abstract leases of PoolLease or changes nothing there.           *)
(*                                                                         *)
(* A step does one of five things to the connections (the moves below).    *)
(* Which one is shown once per critical section; that a move keeps the     *)
(* invariant, and what it is in PoolLease, is shown once per move.         *)
(***************************************************************************)
EXTENDS PoolProofs, FunctionTheorems

Elements(q) == {q[i] : i \in 1..Len(q)}
\* What the stack q loses when only positions m + 1 to m + n are kept.
Outside(q, m, n) == {q[i] : i \in 1..m \cup (m + n + 1)..Len(q)}
Injective(q) == \A i, j \in 1..Len(q) : q[i] = q[j] => i = j

Held(c) == \E g \in Caller : conn[g] = c

\* The inductive invariant: a connection is open exactly while it is in the one
\* place in a stack, or with the one caller, where it belongs.
ConnInv ==
    /\ \A s \in Server : Injective(conns[s])
    /\ \A g, h \in Caller : conn[g] # NoConn /\ conn[h] = conn[g] => h = g
    /\ \A g \in Caller, s \in Server : conn[g] \notin Idle(s)
    /\ \A c \in Conn :
          transport[c] # "closed" <=> Held(c) \/ c \in Idle(ServerName(c))

FullInv == SlotInv /\ ConnInv

-----------------------------------------------------------------------------
(* Stacks.                                                                 *)

\* A part of a stack without repetitions has none, and has lost what it left out.
LEMMA PartOfStack ==
  ASSUME NEW S, NEW q \in Seq(S), Injective(q),
         NEW m \in Nat, NEW n \in Nat, m + n <= Len(q)
  PROVE  /\ Injective(SubSeq(q, m + 1, m + n))
         /\ Elements(SubSeq(q, m + 1, m + n)) = Elements(q) \ Outside(q, m, n)
<1> DEFINE p == SubSeq(q, m + 1, m + n)
<1>1. Len(q) \in Nat
  OBVIOUS
<1>2. \A i \in (m + 1)..(m + n) : q[i] \in S
  BY <1>1
<1>3. /\ p \in Seq(S) /\ Len(p) = n
      /\ \A i \in 1..n : p[i] = q[m + i]
  BY <1>1, <1>2, SubSeqProperties
<1> HIDE DEF p
<1>4. \A i \in 1..n : m + i \in 1..Len(q) /\ m + i \in (m + 1)..(m + n)
  BY <1>1
<1>5. Injective(p)
  BY <1>3, <1>4 DEF Injective
<1>6. Elements(p) = {q[i] : i \in (m + 1)..(m + n)}
  <2>1. ASSUME NEW i \in (m + 1)..(m + n) PROVE i - m \in 1..n /\ p[i - m] = q[i]
    BY <1>3
  <2> QED
    BY <1>3, <1>4, <2>1 DEF Elements
<1>7. {q[i] : i \in (m + 1)..(m + n)} = Elements(q) \ Outside(q, m, n)
  <2>1. ASSUME NEW i \in 1..Len(q)
        PROVE  i \in (m + 1)..(m + n) <=> i \notin 1..m \cup (m + n + 1)..Len(q)
    BY <1>1
  <2>2. \A i \in (m + 1)..(m + n) : i \in 1..Len(q)
    BY <1>1
  <2>3. \A i \in 1..m \cup (m + n + 1)..Len(q) : i \in 1..Len(q)
    BY <1>1
  <2> QED
    BY <2>1, <2>2, <2>3 DEF Elements, Injective, Outside
<1> QED
  BY <1>5, <1>6, <1>7 DEF p

\* A connection in a stack is one of the stack's server.
LEMMA IdleOwn ==
  ASSUME SlotInv, NEW s \in Server, NEW c \in Idle(s)
  PROVE  c \in Conn /\ ServerName(c) = s
<1>1. conns[s] \in Seq({s} \X Id)
  BY DEF SlotInv, Own
<1> DEFINE S == {s} \X Id
<1> HIDE DEF S
<1>2. conns[s] \in Seq(S)
  BY <1>1 DEF S
<1>3. c \in S
  BY <1>2 DEF Idle
<1> QED
  BY <1>3 DEF S, Conn, ServerName

-----------------------------------------------------------------------------
(* What a step can do to the connections.                                  *)

Closes(D) == \A c \in Conn : transport'[c] = "closed" <=> c \in D \/ transport[c] = "closed"

InStack(D) == \A c \in D : c \in Conn /\ c \in Idle(ServerName(c))

\* The stacks lose D and nothing else.
Lost(D) == \A s \in Server : Injective(conns'[s]) /\ Idle(s)' = Idle(s) \ D

Evicted(D) == InStack(D) /\ Lost(D) /\ Closes(D) /\ conn' = conn

Taken(g, c, D) ==
    /\ conn[g] = NoConn
    /\ InStack(D \cup {c}) /\ c \notin D
    /\ Lost(D \cup {c}) /\ Closes(D)
    /\ conn' = [conn EXCEPT ![g] = c]

Opened(g, c) ==
    /\ conn[g] = NoConn
    /\ c \in Conn /\ transport[c] = "closed"
    /\ Lost({})
    /\ transport' = [transport EXCEPT ![c] = "healthy"]
    /\ conn' = [conn EXCEPT ![g] = c]

Shelved(g) ==
    /\ conn[g] \in Conn
    /\ \A s \in Server :
          /\ Injective(conns'[s])
          /\ Idle(s)' = Idle(s) \cup (IF s = ServerName(conn[g]) THEN {conn[g]} ELSE {})
    /\ transport' = transport
    /\ conn' = [conn EXCEPT ![g] = NoConn]

Discarded(g) ==
    /\ conn[g] \in Conn
    /\ Lost({}) /\ Closes({conn[g]})
    /\ conn' = [conn EXCEPT ![g] = NoConn]

Moved ==
    \/ \E D : Evicted(D)
    \/ \E g \in Caller : \/ \E c, D : Taken(g, c, D)
                         \/ \E c : Opened(g, c)
                         \/ Shelved(g) \/ Discarded(g)

\* What the moves need of the types.
LEMMA ConnTypes ==
  ASSUME FullInv
  PROVE  /\ conn \in [Caller -> Conn \cup {NoConn}]
         /\ transport \in [Conn -> {"closed", "healthy", "unhealthy"}]
         /\ NoConn \notin Conn
         /\ \A c \in Conn : ServerName(c) \in Server
         /\ \A s \in Server : \A c \in Idle(s) : c \in Conn /\ ServerName(c) = s
         /\ ConnInv
<1>1. Types /\ NoConn \notin Conn
  BY PoolAssumption DEF FullInv, SlotInv, IInv
<1>2. \A s \in Server : \A c \in Idle(s) : c \in Conn /\ ServerName(c) = s
  BY IdleOwn DEF FullInv
<1> QED
  BY <1>1, <1>2 DEF Types, FullInv, Conn, ServerName

\* Connections dropped from the stacks are closed, so nothing is left open
\* without an owner, and no owner's connection is closed.
LEMMA EvictedKeeps ==
  ASSUME FullInv, NEW D, Evicted(D)
  PROVE  ConnInv'
<1> HIDE DEF Conn
<1>1. ConnInv /\ \A c \in Conn : ServerName(c) \in Server
  BY ConnTypes
<1>2. /\ \A s \in Server : Injective(conns'[s]) /\ Idle(s)' = Idle(s) \ D
      /\ \A c \in Conn : transport'[c] = "closed" <=> c \in D \/ transport[c] = "closed"
      /\ conn' = conn
      /\ \A c \in D : c \in Conn /\ c \in Idle(ServerName(c))
  BY DEF Evicted, Lost, Closes, InStack
<1>3. \A c \in D : ~Held(c)
  BY <1>1, <1>2 DEF ConnInv, Held
<1>4. \A c \in Conn : Held(c)' <=> Held(c)
  BY <1>2 DEF Held
<1> QED
  BY <1>1, <1>2, <1>3, <1>4 DEF ConnInv

\* A connection taken off a stack has no other owner.
LEMMA TakenKeeps ==
  ASSUME FullInv, NEW g \in Caller, NEW c, NEW D, Taken(g, c, D)
  PROVE  ConnInv'
<1> HIDE DEF Conn
<1>1. /\ ConnInv /\ \A d \in Conn : ServerName(d) \in Server
      /\ conn \in [Caller -> Conn \cup {NoConn}]
      /\ \A s \in Server : \A d \in Idle(s) : d \in Conn /\ ServerName(d) = s
      /\ NoConn \notin Conn
  BY ConnTypes
<1>2. /\ \A s \in Server : Injective(conns'[s]) /\ Idle(s)' = Idle(s) \ (D \cup {c})
      /\ \A d \in Conn : transport'[d] = "closed" <=> d \in D \/ transport[d] = "closed"
      /\ conn' = [conn EXCEPT ![g] = c]
      /\ conn[g] = NoConn /\ c \notin D
      /\ \A d \in D \cup {c} : d \in Conn /\ d \in Idle(ServerName(d))
  BY DEF Taken, Lost, Closes, InStack
<1>3. /\ conn'[g] = c /\ \A h \in Caller \ {g} : conn'[h] = conn[h]
  BY <1>1, <1>2
<1>4. \A d \in D \cup {c} : ~Held(d)
  BY <1>1, <1>2 DEF ConnInv, Held
<1>5. \A d \in Conn : Held(d)' <=> Held(d) \/ d = c
  BY <1>1, <1>2, <1>3 DEF Held
<1>6. \A h \in Caller, s \in Server : conn'[h] \notin Idle(s)'
  BY <1>1, <1>2, <1>3 DEF ConnInv
<1>7. \A h, k \in Caller : conn'[h] # NoConn /\ conn'[k] = conn'[h] => k = h
  BY <1>1, <1>2, <1>3, <1>4 DEF ConnInv, Held
<1>8. \A d \in Conn : transport'[d] # "closed" <=> Held(d)' \/ d \in Idle(ServerName(d))'
  BY <1>1, <1>2, <1>4, <1>5 DEF ConnInv
<1> QED
  BY <1>2, <1>6, <1>7, <1>8 DEF ConnInv

\* A connection that was closed had no owner, so the dial's is its only one.
LEMMA OpenedKeeps ==
  ASSUME FullInv, NEW g \in Caller, NEW c, Opened(g, c)
  PROVE  ConnInv'
<1> HIDE DEF Conn
<1>1. /\ ConnInv /\ \A d \in Conn : ServerName(d) \in Server
      /\ conn \in [Caller -> Conn \cup {NoConn}]
      /\ transport \in [Conn -> {"closed", "healthy", "unhealthy"}]
      /\ \A s \in Server : \A d \in Idle(s) : d \in Conn /\ ServerName(d) = s
      /\ NoConn \notin Conn
  BY ConnTypes
<1>2. /\ \A s \in Server : Injective(conns'[s]) /\ Idle(s)' = Idle(s)
      /\ transport' = [transport EXCEPT ![c] = "healthy"]
      /\ conn' = [conn EXCEPT ![g] = c]
      /\ conn[g] = NoConn /\ c \in Conn /\ transport[c] = "closed"
  BY DEF Opened, Lost
<1>3. /\ conn'[g] = c /\ \A h \in Caller \ {g} : conn'[h] = conn[h]
      /\ \A d \in Conn : transport'[d] = IF d = c THEN "healthy" ELSE transport[d]
  BY <1>1, <1>2
<1>4. ~Held(c) /\ \A s \in Server : c \notin Idle(s)
  BY <1>1, <1>2 DEF ConnInv
<1>5. \A d \in Conn : Held(d)' <=> Held(d) \/ d = c
  BY <1>1, <1>2, <1>3 DEF Held
<1>6. \A h, k \in Caller : conn'[h] # NoConn /\ conn'[k] = conn'[h] => k = h
  BY <1>1, <1>2, <1>3, <1>4 DEF ConnInv, Held
<1> QED
  BY <1>1, <1>2, <1>3, <1>4, <1>5, <1>6 DEF ConnInv

\* A caller that gives its connection back has none afterwards.
LEMMA GivenBackKeeps ==
  ASSUME FullInv, NEW g \in Caller, Shelved(g) \/ Discarded(g)
  PROVE  ConnInv'
<1> HIDE DEF Conn
<1> DEFINE c == conn[g]
<1>1. /\ ConnInv /\ \A d \in Conn : ServerName(d) \in Server
      /\ conn \in [Caller -> Conn \cup {NoConn}]
      /\ \A s \in Server : \A d \in Idle(s) : d \in Conn /\ ServerName(d) = s
      /\ NoConn \notin Conn
  BY ConnTypes
<1>2. /\ c \in Conn /\ conn' = [conn EXCEPT ![g] = NoConn]
      /\ \A s \in Server : Injective(conns'[s])
  BY DEF Shelved, Discarded, Lost
<1>3. conn'[g] = NoConn /\ \A h \in Caller \ {g} : conn'[h] = conn[h]
  BY <1>1, <1>2
<1>4. \A d \in Conn : Held(d)' <=> Held(d) /\ d # c
  BY <1>1, <1>2, <1>3 DEF ConnInv, Held
<1>5. Held(c) /\ \A s \in Server : c \notin Idle(s)
  BY <1>1 DEF ConnInv, Held
<1>6. \A h, k \in Caller : conn'[h] # NoConn /\ conn'[k] = conn'[h] => k = h
  BY <1>1, <1>3 DEF ConnInv
<1>7. CASE Shelved(g)
  <2>1. /\ \A s \in Server : Idle(s)' = Idle(s) \cup (IF s = ServerName(c) THEN {c} ELSE {})
        /\ transport' = transport
    BY <1>7 DEF Shelved
  <2>2. \A h \in Caller, s \in Server : conn'[h] \notin Idle(s)'
    BY <1>1, <1>2, <1>3, <2>1 DEF ConnInv
  <2>3. \A d \in Conn : transport'[d] # "closed" <=> Held(d)' \/ d \in Idle(ServerName(d))'
    BY <1>1, <1>2, <1>4, <1>5, <2>1 DEF ConnInv
  <2> QED
    BY <1>2, <1>6, <2>2, <2>3 DEF ConnInv
<1>8. CASE Discarded(g)
  <2>1. /\ \A s \in Server : Idle(s)' = Idle(s)
        /\ \A d \in Conn : transport'[d] = "closed" <=> d = c \/ transport[d] = "closed"
    BY <1>8 DEF Discarded, Lost, Closes
  <2>2. \A h \in Caller, s \in Server : conn'[h] \notin Idle(s)'
    BY <1>1, <1>2, <1>3, <2>1 DEF ConnInv
  <2>3. \A d \in Conn : transport'[d] # "closed" <=> Held(d)' \/ d \in Idle(ServerName(d))'
    BY <1>1, <1>2, <1>4, <1>5, <2>1 DEF ConnInv
  <2> QED
    BY <1>2, <1>6, <2>2, <2>3 DEF ConnInv
<1> QED
  BY <1>7, <1>8

\* Whatever a step does to the connections, each keeps its one owner.
LEMMA MovedKeeps ==
  ASSUME FullInv, Moved
  PROVE  ConnInv'
BY EvictedKeeps, TakenKeeps, OpenedKeeps, GivenBackKeeps DEF Moved

-----------------------------------------------------------------------------
(* Which move each critical section is.                                    *)

\* The top n connections leave their stack, and nothing else does.
LEMMA TopLeaves ==
  ASSUME FullInv, NEW s \in Server, NEW n \in 0..Len(conns[s]),
         conns' = [conns EXCEPT ![s] = Rest(s, n)]
  PROVE  InStack(Top(s, n)) /\ Lost(Top(s, n))
<1> DEFINE q == conns[s]
           k == Len(q) - n
<1>1. /\ conns \in [Server -> Seq(Conn)] /\ ConnInv
      /\ \A r \in Server : \A c \in Idle(r) : c \in Conn /\ ServerName(c) = r
  BY ConnTypes DEF FullInv, SlotInv, IInv, Types
<1> HIDE DEF Conn
<1>2. q \in Seq(Conn) /\ Injective(q) /\ k \in Nat /\ k <= Len(q)
  BY <1>1 DEF ConnInv
<1>4. /\ Injective(Rest(s, n))
      /\ Elements(Rest(s, n)) = Elements(q) \ Top(s, n)
  <2> DEFINE m == 0
  <2>1. m \in Nat /\ m + k <= Len(q)
    BY <1>2
  <2>2. Rest(s, n) = SubSeq(q, m + 1, m + k)
    BY <1>2 DEF Rest
  <2>3. Top(s, n) = Outside(q, m, k)
    BY <1>2 DEF Top, Outside
  <2> HIDE DEF m, q, k
  <2> QED
    BY <1>2, <2>1, <2>2, <2>3, PartOfStack
<1>5. conns'[s] = Rest(s, n) /\ \A r \in Server \ {s} : conns'[r] = conns[r]
  BY <1>1
<1>6. \A c \in Top(s, n) : c \in Idle(s) /\ c \in Conn /\ ServerName(c) = s
  <2>1. \A c \in Top(s, n) : c \in Idle(s)
    BY <1>2 DEF Top, Idle
  <2> QED
    BY <1>1, <2>1
<1>7. InStack(Top(s, n))
  BY <1>6 DEF InStack
<1>8. ASSUME NEW r \in Server
      PROVE  Injective(conns'[r]) /\ Idle(r)' = Idle(r) \ Top(s, n)
  <2>1. CASE r = s
    <3>1. Idle(r) = Elements(q) /\ Idle(r)' = Elements(conns'[r])
      BY <2>1 DEF Idle, Elements
    <3> QED
      BY <1>4, <1>5, <2>1, <3>1
  <2>2. CASE r # s
    <3>1. \A c \in Idle(r) : c \notin Top(s, n)
      BY <1>1, <1>6, <2>2
    <3>2. Injective(conns'[r]) /\ Idle(r)' = Idle(r)
      BY <1>1, <1>5, <2>2 DEF ConnInv, Idle
    <3> QED
      BY <3>1, <3>2
  <2> QED
    BY <2>1, <2>2
<1> QED
  BY <1>7, <1>8 DEF Lost

\* Shutting closes the transports it is given and no others.
LEMMA ShuttingCloses ==
  ASSUME FullInv, NEW D, transport' = Shutting(D)
  PROVE  Closes(D)
<1>1. \A c \in Conn : transport'[c] = IF c \in D THEN "closed" ELSE transport[c]
  BY DEF Shutting
<1> QED
  BY <1>1 DEF Closes

\* A hit takes the connection under n broken ones, which are evicted.
LEMMA TakeMoves ==
  ASSUME FullInv, NEW g, NEW s, Asking(g, s), NEW n \in Nat, Take(g, s, n)
  PROVE  Taken(g, conns[s][Len(conns[s]) - n], Top(s, n))
<1> DEFINE q == conns[s]
           c == q[Len(q) - n]
<1>1. /\ g \in Caller /\ s \in Server /\ pc[g] \notin InUse
      /\ q \in Seq(Conn) /\ Injective(q) /\ HoldsConn
  BY DEF Asking, FullInv, SlotInv, IInv, Types, ConnInv
<1>2. /\ n < Len(q)
      /\ conns' = [conns EXCEPT ![s] = Rest(s, n + 1)]
      /\ transport' = Shutting(Top(s, n))
      /\ conn' = [conn EXCEPT ![g] = c]
  BY DEF Take
<1> HIDE DEF Conn
<1>3. n + 1 \in 0..Len(q)
  BY <1>1, <1>2
<1>4. Top(s, n + 1) = Top(s, n) \cup {c}
  <2>1. \A i \in (Len(q) - (n + 1) + 1)..Len(q) :
           i = Len(q) - n \/ i \in (Len(q) - n + 1)..Len(q)
    BY <1>1, <1>2
  <2>2. \A i \in (Len(q) - n + 1)..Len(q) : i \in (Len(q) - (n + 1) + 1)..Len(q)
    BY <1>1, <1>2
  <2>3. Len(q) - n \in (Len(q) - (n + 1) + 1)..Len(q)
    BY <1>1, <1>2
  <2> QED
    BY <2>1, <2>2, <2>3 DEF Top
<1>5. c \notin Top(s, n)
  <2>1. Len(q) - n \in 1..Len(q)
    BY <1>1, <1>2
  <2>2. \A i \in (Len(q) - n + 1)..Len(q) : i \in 1..Len(q) /\ i # Len(q) - n
    BY <1>1, <1>2
  <2> QED
    BY <1>1, <2>1, <2>2 DEF Top, Injective
<1>6. InStack(Top(s, n) \cup {c}) /\ Lost(Top(s, n) \cup {c})
  BY <1>1, <1>2, <1>3, <1>4, TopLeaves
<1>7. Closes(Top(s, n))
  BY <1>2, ShuttingCloses
<1>8. conn[g] = NoConn
  BY <1>1 DEF HoldsConn, InUse
<1> QED
  BY <1>2, <1>5, <1>6, <1>7, <1>8 DEF Taken

\* A look that finds nothing evicts the broken connections it saw.
LEMMA DroppedMoves ==
  ASSUME FullInv, NEW s \in Server, NEW n \in 0..Len(conns[s]), Dropped(s, n)
  PROVE  Evicted(Top(s, n))
BY TopLeaves, ShuttingCloses DEF Dropped, Evicted

\* Whether it looks for the first time or after a wait, a caller is refused by a
\* closed pool, hits, reserves, or finds the pool saturated; unless it hits, it
\* has dropped an idle connection or there was none.
LEMMA Looks ==
  ASSUME Types, NEW g \in Caller, NEW s \in Server,
         Get(g, s) \/ (Wake(g) /\ s = want[g])
  PROVE  /\ pc[g] \in Returned \cup {"woken"}
         /\ \/ /\ pc' = [pc EXCEPT ![g] = "refused"]
               /\ closed /\ UNCHANGED <<poolVars, conn>>
            \/ /\ Asking(g, s)
               /\ \E n \in 0..Len(conns[s]) :
                     \/ Take(g, s, n)
                     \/ /\ n >= 1 \/ Len(conns[s]) = 0
                        /\ \/ Reserve(g, s, n)
                           \/ \E outcome \in {"exhausted", "cancelled", "waiting"} :
                                 Saturated(g, s, n, outcome)
<1>1. Len(conns[s]) \in 0..Len(conns[s]) /\ (Len(conns[s]) >= 1 \/ Len(conns[s]) = 0)
      /\ 0 \in 0..Len(conns[s])
  BY DEF Types
<1>2. Look(s) \in 0..Len(conns[s]) /\ (Look(s) >= 1 \/ Len(conns[s]) = 0)
  BY LookInRange
<1>3. ASSUME Begin(g, s) PROVE Asking(g, s) /\ pc[g] \in Returned
  BY <1>3 DEF Begin, Asking, Types, Returned, InUse
<1>4. ASSUME Woken(g), Finish(g), s = want[g] PROVE Asking(g, s) /\ pc[g] = "woken"
  BY <1>4 DEF Woken, Finish, Asking, Types, InUse
<1>5. CASE Get(g, s)
  <2>1. CASE GetRefused(g, s)
    BY <2>1 DEF GetRefused
  <2>2. CASE GetIdle(g, s)
    BY <1>3, <2>2 DEF GetIdle
  <2>3. CASE GetNew(g, s)
    BY <1>1, <1>3, <2>3 DEF GetNew
  <2>4. CASE GetExhausted(g, s) \/ GetCancelled(g, s) \/ GetWait(g, s)
    BY <1>1, <1>3, <2>4 DEF GetExhausted, GetCancelled, GetWait
  <2> QED
    BY <1>5, <2>1, <2>2, <2>3, <2>4 DEF Get
<1>6. CASE Wake(g) /\ s = want[g]
  <2>1. CASE WakeClosed(g)
    BY <2>1 DEF WakeClosed
  <2>2. CASE WakeIdle(g)
    BY <1>1, <1>4, <1>6, <2>2 DEF WakeIdle
  <2>3. CASE WakeNew(g)
    BY <1>2, <1>4, <1>6, <2>3 DEF WakeNew
  <2>4. CASE WakeCancelled(g) \/ WakeExpired(g)
    BY <1>2, <1>4, <1>6, <2>4 DEF WakeCancelled, WakeExpired
  <2>5. CASE WakeWait(g)
    <3>1. Asking(g, s) /\ pc[g] = "woken"
      BY <1>6, <2>5 DEF WakeWait, Woken, Asking, Types, InUse
    <3> QED
      BY <1>2, <1>6, <2>5, <3>1 DEF WakeWait
  <2> QED
    BY <1>6, <2>1, <2>2, <2>3, <2>4, <2>5 DEF Wake
<1> QED
  BY <1>5, <1>6

\* A stack stays free of repetitions when a connection is put on it that it
\* does not have.
LEMMA OntoStack ==
  ASSUME NEW S, NEW q \in Seq(S), Injective(q), NEW c \in S, c \notin Elements(q)
  PROVE  /\ Injective(Append(q, c))
         /\ Elements(Append(q, c)) = Elements(q) \cup {c}
<1> DEFINE p == Append(q, c)
<1>1. /\ Len(q) \in Nat /\ Len(p) = Len(q) + 1
      /\ p[Len(q) + 1] = c
      /\ \A i \in 1..Len(q) : p[i] = q[i]
  OBVIOUS
<1> HIDE DEF p
<1>2. \A i \in 1..(Len(q) + 1) : i \in 1..Len(q) \/ i = Len(q) + 1
  BY <1>1
<1>3. Len(q) + 1 \in 1..(Len(q) + 1) /\ \A i \in 1..Len(q) : i \in 1..(Len(q) + 1)
  BY <1>1
<1>4. Injective(p)
  BY <1>1, <1>2 DEF Injective, Elements
<1>5. Elements(p) = Elements(q) \cup {c}
  BY <1>1, <1>2, <1>3 DEF Elements
<1> QED
  BY <1>4, <1>5 DEF p

LEMMA StacksStay ==
  ASSUME FullInv, conns' = conns
  PROVE  Lost({})
BY DEF FullInv, ConnInv, Lost, Idle

\* A dial that succeeds opens a connection that nobody had.
LEMMA DialOpens ==
  ASSUME FullInv, NEW g \in Caller, DialOk(g)
  PROVE  \E c \in {want[g]} \X Id : Opened(g, c)
<1>1. Types /\ HoldsConn
  BY DEF FullInv, SlotInv, IInv
<1>2. PICK c \in {want[g]} \X Id :
         /\ Fresh(c)
         /\ transport' = [transport EXCEPT ![c] = "healthy"]
         /\ conn' = [conn EXCEPT ![g] = c]
  BY DEF DialOk
<1>3. c \in Conn /\ transport[c] = "closed"
  BY <1>1, <1>2 DEF Conn, Types, Fresh
<1>4. conn[g] = NoConn
  BY <1>1 DEF DialOk, HoldsConn
<1>5. Lost({})
  BY StacksStay DEF DialOk
<1> QED
  BY <1>2, <1>3, <1>4, <1>5 DEF Opened

\* Put shelves the connection it is given or closes it.
LEMMA PutMoves ==
  ASSUME FullInv, NEW g \in Caller
  PROVE  /\ PutIdle(g) => Shelved(g)
         /\ PutDiscard(g) => Discarded(g)
<1> DEFINE c == conn[g]
           s == ServerName(c)
<1>1. /\ Types /\ HoldsConn /\ ConnInv
      /\ \A r \in Server : \A d \in Idle(r) : d \in Conn /\ ServerName(d) = r
      /\ \A d \in Conn : ServerName(d) \in Server
  BY ConnTypes DEF FullInv, SlotInv, IInv
<1>2. ASSUME PutIdle(g) PROVE Shelved(g)
  <2>1. /\ pc[g] = "holding"
        /\ conns' = [conns EXCEPT ![s] = Append(@, c)]
        /\ transport' = transport
        /\ conn' = [conn EXCEPT ![g] = NoConn]
    BY <1>2 DEF PutIdle, PutBack
  <2>2. c \in Conn /\ s \in Server /\ c \notin Elements(conns[s])
    <3>1. c \in Conn
      BY <1>1, <2>1 DEF HoldsConn, Types
    <3>2. Elements(conns[s]) = Idle(s)
      BY DEF Elements, Idle
    <3> QED
      BY <1>1, <3>1, <3>2 DEF ConnInv
  <2>3. conns[s] \in Seq(Conn) /\ Injective(conns[s])
    BY <1>1, <2>2 DEF Types, ConnInv
  <2> HIDE DEF c, s, Conn
  <2>4. /\ Injective(Append(conns[s], c))
        /\ Elements(Append(conns[s], c)) = Elements(conns[s]) \cup {c}
    BY <2>2, <2>3, OntoStack
  <2>5. conns'[s] = Append(conns[s], c) /\ \A r \in Server \ {s} : conns'[r] = conns[r]
    BY <1>1, <2>1, <2>2 DEF Types
  <2>6. ASSUME NEW r \in Server
        PROVE  /\ Injective(conns'[r])
               /\ Idle(r)' = Idle(r) \cup (IF r = s THEN {c} ELSE {})
    <3>1. Idle(r) = Elements(conns[r]) /\ Idle(r)' = Elements(conns'[r])
      BY DEF Idle, Elements
    <3> QED
      BY <1>1, <2>4, <2>5, <3>1 DEF ConnInv
  <2> QED
    BY <2>1, <2>2, <2>6 DEF Shelved, c, s
<1>3. ASSUME PutDiscard(g) PROVE Discarded(g)
  <2>1. /\ pc[g] = "holding" /\ conns' = conns
        /\ transport' = Shutting({c})
        /\ conn' = [conn EXCEPT ![g] = NoConn]
    BY <1>3 DEF PutDiscard, PutBack
  <2>2. c \in Conn
    BY <1>1, <2>1 DEF HoldsConn, Types
  <2>3. Lost({}) /\ Closes({c})
    BY <2>1, StacksStay, ShuttingCloses
  <2> QED
    BY <2>1, <2>2, <2>3 DEF Discarded
<1> QED
  BY <1>2, <1>3

\* A tick of the reaper evicts the bottom of the stacks.
LEMMA ReapMoves ==
  ASSUME FullInv, reap
  PROVE  \E D : Evicted(D)
<1>1. PICK n \in [Server -> 0..MaxIdle] :
         /\ \A s \in Server : n[s] <= Len(conns[s])
         /\ conns' = [s \in Server |-> SubSeq(conns[s], n[s] + 1, Len(conns[s]))]
         /\ transport' = Shutting({conns[p[1]][p[2]] : p \in Bottom(n)})
  BY DEF reap
<1> DEFINE D == {conns[p[1]][p[2]] : p \in Bottom(n)}
<1>2. /\ conns \in [Server -> Seq(Conn)] /\ ConnInv /\ WithinLimits
      /\ \A r \in Server : \A c \in Idle(r) : c \in Conn /\ ServerName(c) = r
  BY ConnTypes DEF FullInv, SlotInv, IInv, Types
<1> HIDE DEF Conn
<1>3. \A s \in Server : n[s] \in Nat /\ Len(conns[s]) \in Nat /\ n[s] <= MaxIdle
  BY <1>1, <1>2, PoolAssumption
<1>4. ASSUME NEW c \in D
      PROVE  \E s \in Server : \E i \in 1..n[s] : c = conns[s][i]
  <2>1. PICK p \in Bottom(n) : c = conns[p[1]][p[2]]
    BY <1>4
  <2>2. p[1] \in Server /\ p[2] \in 1..n[p[1]]
    BY <1>3 DEF Bottom
  <2> QED
    BY <2>1, <2>2
<1>5. ASSUME NEW s \in Server, NEW i \in 1..n[s]
      PROVE  conns[s][i] \in D
  <2>1. i \in 1..MaxIdle /\ i <= n[s]
    BY <1>3, PoolAssumption
  <2>2. <<s, i>> \in Bottom(n) /\ <<s, i>>[1] = s /\ <<s, i>>[2] = i
    BY <2>1 DEF Bottom
  <2> QED
    BY <2>2
<1> HIDE DEF D
<1>6. \A s \in Server : \A i \in 1..n[s] : conns[s][i] \in Idle(s)
  BY <1>1, <1>3 DEF Idle
<1>7. InStack(D)
  BY <1>2, <1>4, <1>6 DEF InStack
<1>8. ASSUME NEW s \in Server
      PROVE  Injective(conns'[s]) /\ Idle(s)' = Idle(s) \ D
  <2> DEFINE q == conns[s]
             m == n[s]
             k == Len(conns[s]) - n[s]
  <2>1. q \in Seq(Conn) /\ Injective(q) /\ m \in Nat /\ k \in Nat /\ m + k <= Len(q)
    BY <1>1, <1>2, <1>3 DEF ConnInv
  <2>2. conns'[s] = SubSeq(q, m + 1, m + k)
    BY <1>1, <1>3
  <2>3. Outside(q, m, k) = {q[i] : i \in 1..m}
    BY <1>3 DEF Outside
  <2>4. \A c \in Idle(s) : c \in D <=> c \in {q[i] : i \in 1..m}
    BY <1>2, <1>4, <1>5, <1>6
  <2>5. Idle(s) = Elements(q) /\ Idle(s)' = Elements(conns'[s])
    BY DEF Idle, Elements
  <2> HIDE DEF m, q, k
  <2>6. /\ Injective(SubSeq(q, m + 1, m + k))
        /\ Elements(SubSeq(q, m + 1, m + k)) = Elements(q) \ Outside(q, m, k)
    BY <2>1, PartOfStack
  <2>7. Injective(conns'[s]) /\ Idle(s)' = Idle(s) \ Outside(q, m, k)
    BY <2>2, <2>5, <2>6
  <2> QED
    BY <2>3, <2>4, <2>7
<1>9. Closes(D)
  BY <1>1, ShuttingCloses DEF D
<1> QED
  BY <1>7, <1>8, <1>9 DEF Evicted, Lost, reap, callVars

\* Clearing a server evicts its stack.
LEMMA ClearMoves ==
  ASSUME FullInv, NEW s \in Server, ClearServer(s)
  PROVE  Evicted(Idle(s))
<1>1. conns[s] \in Seq(Conn)
  BY DEF FullInv, SlotInv, IInv, Types
<1> DEFINE n == Len(conns[s])
<1>2. n \in 0..Len(conns[s]) /\ Top(s, n) = Idle(s) /\ Rest(s, n) = <<>>
  <2> HIDE DEF Conn
  <2>1. n \in 0..Len(conns[s]) /\ Rest(s, n) = <<>>
    BY <1>1 DEF Rest
  <2>2. Len(conns[s]) - n + 1 = 1
    BY <1>1
  <2> QED
    BY <2>1, <2>2 DEF Top, Idle
<1>3. /\ conns' = [conns EXCEPT ![s] = Rest(s, n)] /\ transport' = Shutting(Top(s, n))
      /\ conn' = conn
  BY <1>2 DEF ClearServer, callVars
<1> HIDE DEF n
<1> QED
  BY <1>2, <1>3, TopLeaves, ShuttingCloses DEF Evicted

\* Close evicts every stack.
LEMMA CloseMoves ==
  ASSUME FullInv, Close
  PROVE  Evicted(UNION {Idle(s) : s \in Server})
<1> DEFINE D == UNION {Idle(s) : s \in Server}
<1>1. \A r \in Server : \A c \in Idle(r) : c \in Conn /\ ServerName(c) = r
  BY ConnTypes
<1>2. transport' = Shutting(D) /\ conn' = conn /\ \A s \in Server : conns'[s] = <<>>
  BY DEF Close
<1>3. InStack(D)
  BY <1>1 DEF InStack
<1>4. \A s \in Server : Injective(conns'[s]) /\ Idle(s)' = {}
  BY <1>2 DEF Injective, Idle
<1>5. Lost(D)
  BY <1>4 DEF Lost
<1> QED
  BY <1>2, <1>3, <1>5, ShuttingCloses DEF Evicted

-----------------------------------------------------------------------------
(* The invariant, and what it says.                                        *)

\* Every step of the pool makes one of the moves.
LEMMA NextMoves ==
  ASSUME FullInv, [Next]_vars
  PROVE  Moved
<1>1. Types /\ HoldsConn /\ SlotInv
  BY DEF FullInv, SlotInv, IInv
<1>2. ASSUME conns' = conns, conn' = conn, Closes({}) PROVE Moved
  BY <1>2, StacksStay DEF Moved, Evicted, InStack
<1>3. ASSUME transport' = transport PROVE Closes({})
  BY <1>3 DEF Closes
<1>4. ASSUME NEW g \in Caller, NEW s \in Server, Get(g, s) \/ (Wake(g) /\ s = want[g])
      PROVE  Moved
  <2>1. CASE UNCHANGED <<poolVars, conn>>
    BY <1>2, <1>3, <2>1 DEF poolVars
  <2>2. ASSUME NEW n \in 0..Len(conns[s]), Asking(g, s), Take(g, s, n) PROVE Moved
    <3>1. n \in Nat
      BY <1>1 DEF Types
    <3> QED
      BY <2>2, <3>1, TakeMoves DEF Moved
  <2>3. ASSUME NEW n \in 0..Len(conns[s]), Dropped(s, n) PROVE Moved
    BY <2>3, DroppedMoves DEF Moved
  <2>4. \/ UNCHANGED <<poolVars, conn>>
        \/ \E n \in 0..Len(conns[s]) : (Asking(g, s) /\ Take(g, s, n)) \/ Dropped(s, n)
    <3>1. \A n, outcome : Reserve(g, s, n) \/ Saturated(g, s, n, outcome) => Dropped(s, n)
      BY DEF Reserve, Saturated
    <3> QED
      BY <1>1, <1>4, <3>1, Looks
  <2> QED
    BY <2>1, <2>2, <2>3, <2>4
<1>5. ASSUME NEW g \in Caller, Wake(g) PROVE Moved
  <2>1. want[g] \in Server
    BY <1>1 DEF Types
  <2> QED
    BY <1>4, <1>5, <2>1
<1>6. ASSUME NEW g \in Caller, Dial(g) PROVE Moved
  <2>1. CASE DialOk(g)
    BY <2>1, DialOpens DEF Moved
  <2>2. CASE DialFail(g)
    BY <1>2, <1>3, <2>2 DEF DialFail
  <2> QED
    BY <1>6, <2>1, <2>2 DEF Dial
<1>7. ASSUME NEW g \in Caller, Put(g) PROVE Moved
  BY <1>7, PutMoves DEF Put, Moved
<1>8. ASSUME NEW g \in Caller, Expire(g) \/ Cancel(g) \/ broadcast(g) PROVE Moved
  BY <1>2, <1>3, <1>8 DEF Expire, Cancel, broadcast, poolVars
<1>9. CASE reap
  BY <1>9, ReapMoves DEF Moved
<1>10. ASSUME NEW s \in Server, ClearServer(s) PROVE Moved
  BY <1>10, ClearMoves DEF Moved
<1>11. CASE Close
  BY <1>11, CloseMoves DEF Moved
<1>12. ASSUME NEW c \in Conn, MarkUnhealthy(c) PROVE Moved
  <2>1. conns' = conns /\ conn' = conn /\ Healthy(c)
        /\ transport' = [transport EXCEPT ![c] = "unhealthy"]
    BY <1>12 DEF MarkUnhealthy, callVars
  <2>2. Closes({})
    BY <1>1, <2>1 DEF Types, Closes, Healthy
  <2> QED
    BY <1>2, <2>1, <2>2
<1>13. CASE UNCHANGED vars
  BY <1>2, <1>3, <1>13 DEF vars, poolVars, callVars
<1> QED
  BY <1>4, <1>5, <1>6, <1>7, <1>8, <1>9, <1>10, <1>11, <1>12, <1>13 DEF Next

\* Initially no connection is open.
LEMMA InitFullInv == Init => FullInv
<1> SUFFICES ASSUME Init PROVE FullInv
  OBVIOUS
<1>1. SlotInv
  BY InitSlotInv
<1>2. \A s \in Server : conns[s] = <<>> /\ Idle(s) = {}
  BY DEF Init, Idle
<1>3. \A g \in Caller : conn[g] = NoConn
  BY DEF Init
<1>4. \A c \in Conn : transport[c] = "closed" /\ ServerName(c) \in Server /\ ~Held(c)
  BY <1>3, PoolAssumption DEF Init, Conn, ServerName, Held
<1>5. \A s \in Server : Injective(conns[s])
  BY <1>2 DEF Injective
<1> QED
  BY <1>1, <1>2, <1>3, <1>4, <1>5 DEF FullInv, ConnInv

LEMMA NextFullInv == FullInv /\ [Next]_vars => FullInv'
<1> SUFFICES ASSUME FullInv, [Next]_vars PROVE FullInv'
  OBVIOUS
<1>1. SlotInv'
  BY NextSlotInv DEF FullInv
<1>2. ConnInv'
  BY NextMoves, MovedKeeps
<1> QED
  BY <1>1, <1>2 DEF FullInv

LEMMA FullInvariance == Spec => []FullInv
<1> QED
  BY InitFullInv, NextFullInv, PTL DEF Spec

\* A connection that Get has returned is its caller's alone, of the server that
\* was asked for, and open until its Put; no stack lists it, and none lists a
\* closed connection or lists one twice.
THEOREM ConnectionsExclusive == Spec => []Exclusive
<1>1. ASSUME FullInv PROVE Exclusive
  <2>1. /\ conn \in [Caller -> Conn \cup {NoConn}] /\ NoConn \notin Conn
        /\ \A s \in Server : \A c \in Idle(s) : c \in Conn /\ ServerName(c) = s
        /\ ConnInv /\ HoldsConn /\ Own
    BY <1>1, ConnTypes DEF FullInv, SlotInv, IInv
  <2>2. ASSUME NEW g \in Caller, pc[g] = "holding"
        PROVE  /\ transport[conn[g]] # "closed"
               /\ ServerName(conn[g]) = want[g]
               /\ \A h \in Caller : conn[h] = conn[g] => h = g
               /\ \A s \in Server : conn[g] \notin Idle(s)
    <3>1. conn[g] # NoConn /\ conn[g] \in {want[g]} \X Id
      BY <2>1, <2>2 DEF HoldsConn, Own
    <3>2. ServerName(conn[g]) = want[g]
      BY <3>1 DEF ServerName
    <3>3. conn[g] \in Conn /\ Held(conn[g])
      BY <2>1, <3>1 DEF Held
    <3> QED
      BY <2>1, <3>1, <3>2, <3>3 DEF ConnInv
  <2>3. \A s \in Server : \A c \in Idle(s) : ServerName(c) = s /\ transport[c] # "closed"
    BY <2>1 DEF ConnInv
  <2>4. \A s \in Server :
           \A i, j \in 1..Len(conns[s]) : conns[s][i] = conns[s][j] => i = j
    BY <2>1 DEF ConnInv, Injective
  <2>5. \A g \in Caller : pc[g] = "holding" <=> conn[g] # NoConn
    BY <2>1 DEF HoldsConn
  <2> QED
    BY <2>2, <2>3, <2>4, <2>5 DEF Exclusive
<1> QED
  BY <1>1, FullInvariance, PTL

\* No open connection is forgotten: whatever the order of dials, puts, evictions
\* and Close, it is in its server's stack or with a caller.
THEOREM NothingLeaks == Spec => []NoLeak
<1>1. FullInv => NoLeak
  BY DEF FullInv, ConnInv, NoLeak, OpenConns, Held
<1> QED
  BY <1>1, FullInvariance, PTL

-----------------------------------------------------------------------------
(* The statistics: counting what is in the stacks.                         *)

Lengths == [s \in Server |-> Len(conns[s])]
Backlog == Cardinality(Bottom(Lengths))
IdleCounted == ~closed => stats.IdleConns = Backlog

\* Taking n[s] positions off the stack of every server s, from either end, takes
\* as many positions away as there are in n.
LEMMA BottomShift ==
  ASSUME NEW f \in [Server -> 0..MaxIdle], NEW n \in [Server -> 0..MaxIdle],
         \A s \in Server : n[s] <= f[s]
  PROVE  LET d == [s \in Server |-> f[s] - n[s]] IN
         /\ Cardinality(Bottom(f)) \in Nat /\ Cardinality(Bottom(n)) \in Nat
         /\ Cardinality(Bottom(d)) = Cardinality(Bottom(f)) - Cardinality(Bottom(n))
<1> DEFINE d == [s \in Server |-> f[s] - n[s]]
           R == Bottom(f) \ Bottom(n)
           h == [p \in R |-> <<p[1], p[2] - n[p[1]]>>]
<1>1. /\ MaxIdle \in Nat
      /\ \A s \in Server : f[s] \in 0..MaxIdle /\ n[s] \in 0..MaxIdle /\ d[s] = f[s] - n[s]
  BY PoolAssumption
<1>2. \A x : x \in Bottom(f) <=> /\ x \in Server \X (1..MaxIdle)
                                 /\ x[2] <= f[x[1]]
  BY DEF Bottom
<1>3. \A x : x \in Bottom(n) <=> /\ x \in Server \X (1..MaxIdle)
                                 /\ x[2] <= n[x[1]]
  BY DEF Bottom
<1>4. \A x : x \in Bottom(d) <=> /\ x \in Server \X (1..MaxIdle)
                                 /\ x[2] <= d[x[1]]
  BY DEF Bottom
<1>5. /\ IsFiniteSet(Bottom(f)) /\ IsFiniteSet(Bottom(n))
      /\ Cardinality(Bottom(f)) \in Nat /\ Cardinality(Bottom(n)) \in Nat
  <2>1. IsFiniteSet(Server) /\ IsFiniteSet(1..MaxIdle)
    BY <1>1, FS_Interval, PoolAssumption
  <2>2. IsFiniteSet(Server \X (1..MaxIdle))
    BY <2>1, FS_Product
  <2>3. Bottom(f) \in SUBSET (Server \X (1..MaxIdle)) /\ Bottom(n) \in SUBSET (Server \X (1..MaxIdle))
    BY DEF Bottom
  <2> QED
    BY <2>2, <2>3, FS_Subset, FS_CardinalityType
<1> HIDE DEF d
<1>6. \A p \in R : /\ p[1] \in Server /\ p[2] \in Int /\ n[p[1]] \in Int
                   /\ p = <<p[1], p[2]>>
                   /\ n[p[1]] < p[2] /\ p[2] <= f[p[1]]
  BY <1>1, <1>2, <1>3
<1>7. h \in [R -> Bottom(d)]
  <2> SUFFICES ASSUME NEW p \in R PROVE <<p[1], p[2] - n[p[1]]>> \in Bottom(d)
    OBVIOUS
  <2>1. p[2] - n[p[1]] \in 1..MaxIdle /\ p[2] - n[p[1]] <= d[p[1]]
    BY <1>1, <1>6
  <2> QED
    BY <1>4, <1>6, <2>1
<1>8. \A a, b \in R : h[a] = h[b] => a = b
  <2> SUFFICES ASSUME NEW a \in R, NEW b \in R, h[a] = h[b] PROVE a = b
    OBVIOUS
  <2>1. a[1] = b[1] /\ a[2] - n[a[1]] = b[2] - n[b[1]]
    OBVIOUS
  <2>2. a[2] = b[2]
    BY <1>6, <2>1
  <2> QED
    BY <1>6, <2>1, <2>2
<1>9. \A t \in Bottom(d) : \E p \in R : h[p] = t
  <2> SUFFICES ASSUME NEW t \in Bottom(d) PROVE \E p \in R : h[p] = t
    OBVIOUS
  <2> DEFINE p == <<t[1], t[2] + n[t[1]]>>
  <2>1. /\ t[1] \in Server /\ t[2] \in 1..MaxIdle /\ t = <<t[1], t[2]>>
        /\ t[2] <= f[t[1]] - n[t[1]]
    BY <1>1, <1>4
  <2>2. t[2] + n[t[1]] \in 1..MaxIdle /\ t[2] + n[t[1]] <= f[t[1]]
        /\ ~(t[2] + n[t[1]] <= n[t[1]]) /\ t[2] + n[t[1]] - n[t[1]] = t[2]
    BY <1>1, <2>1
  <2>3. p \in R
    BY <1>2, <1>3, <2>1, <2>2
  <2>4. h[p] = t
    BY <2>1, <2>2, <2>3
  <2> QED
    BY <2>3, <2>4
<1>10. Cardinality(Bottom(d)) = Cardinality(R)
  <2>1. h \in Bijection(R, Bottom(d))
    <3> HIDE DEF h, R
    <3> QED
      BY <1>7, <1>8, <1>9, Fun_IsBij
  <2>2. IsFiniteSet(R)
    BY <1>5, FS_Difference
  <2> QED
    BY <2>1, <2>2, FS_Bijection DEF ExistsBijection
<1>11. Cardinality(R) = Cardinality(Bottom(f)) - Cardinality(Bottom(n))
  <2>1. Bottom(f) \cap Bottom(n) = Bottom(n)
    BY <1>1, <1>2, <1>3
  <2> QED
    BY <1>5, <2>1, FS_Difference
<1> QED
  BY <1>5, <1>10, <1>11 DEF d

\* The lengths of the stacks are functions the counting lemma speaks of.
LEMMA LengthsType ==
  ASSUME IInv
  PROVE  /\ Lengths \in [Server -> 0..MaxIdle]
         /\ \A s \in Server : Lengths[s] = Len(conns[s]) /\ Len(conns[s]) \in Nat
<1>1. MaxIdle \in Nat
  BY PoolAssumption
<1>2. ASSUME NEW s \in Server PROVE Len(conns[s]) \in 0..MaxIdle
  BY <1>1 DEF IInv, Types, WithinLimits
<1> QED
  BY <1>2 DEF Lengths

LEMMA UpTo ==
  ASSUME NEW k \in Nat
  PROVE  IsFiniteSet(1..k) /\ Cardinality(1..k) = k
<1>1. IsFiniteSet(1..k) /\ Cardinality(1..k) = IF 1 > k THEN 0 ELSE k - 1 + 1
  BY FS_Interval
<1>2. CASE k = 0
  BY <1>1, <1>2
<1>3. CASE k >= 1
  BY <1>1, <1>3
<1> QED
  BY <1>2, <1>3

\* k connections off one stack are k less to count.
LEMMA StackShrinks ==
  ASSUME NEW f \in [Server -> 0..MaxIdle], NEW s \in Server, NEW k \in 0..f[s],
         NEW d, d = [f EXCEPT ![s] = @ - k]
  PROVE  /\ Cardinality(Bottom(f)) \in Nat
         /\ Cardinality(Bottom(d)) = Cardinality(Bottom(f)) - k
<1> DEFINE n == [r \in Server |-> IF r = s THEN k ELSE 0]
<1>1. MaxIdle \in Nat /\ k \in Nat /\ k <= MaxIdle /\ \A r \in Server : f[r] \in 0..MaxIdle
  BY PoolAssumption
<1>2. n \in [Server -> 0..MaxIdle] /\ \A r \in Server : n[r] <= f[r]
  BY <1>1
<1>3. d = [r \in Server |-> f[r] - n[r]]
  <2>1. \A r \in Server : f[r] - n[r] = IF r = s THEN f[s] - k ELSE f[r]
    BY <1>1
  <2>2. d = [r \in Server |-> IF r = s THEN f[s] - k ELSE f[r]]
    OBVIOUS
  <2> HIDE DEF n
  <2> QED
    BY <2>1, <2>2
<1>4. Bottom(n) = {s} \X (1..k)
  <2>1. \A x \in Server \X (1..MaxIdle) : x[2] <= n[x[1]] <=> x[1] = s /\ x[2] \in 1..k
    BY <1>1
  <2> HIDE DEF n
  <2>2. 1..k \subseteq 1..MaxIdle
    BY <1>1
  <2> QED
    BY <2>1, <2>2 DEF Bottom
<1>5. Cardinality(Bottom(n)) = k
  <2>1. /\ IsFiniteSet(1..k) /\ Cardinality(1..k) = k
        /\ IsFiniteSet({s}) /\ Cardinality({s}) = 1
    BY <1>1, UpTo, FS_Singleton
  <2> HIDE DEF n
  <2>2. Cardinality({s} \X (1..k)) = Cardinality({s}) * Cardinality(1..k)
    BY <2>1, FS_Product, Zenon
  <2>3. Cardinality({s} \X (1..k)) = 1 * k
    BY <2>1, <2>2
  <2> QED
    BY <1>1, <1>4, <2>3
<1> HIDE DEF n
<1>6. /\ Cardinality(Bottom(f)) \in Nat
      /\ Cardinality(Bottom(d)) = Cardinality(Bottom(f)) - Cardinality(Bottom(n))
  BY <1>2, <1>3, BottomShift
<1> QED
  BY <1>5, <1>6

\* The same for the stacks of the pool.
LEMMA BacklogShrinks ==
  ASSUME IInv, NEW s \in Server, NEW k \in 0..Len(conns[s]),
         conns' = [conns EXCEPT ![s] = Rest(s, k)]
  PROVE  Backlog \in Nat /\ Backlog' = Backlog - k
<1>1. /\ Lengths \in [Server -> 0..MaxIdle]
      /\ \A r \in Server : Lengths[r] = Len(conns[r])
  BY LengthsType
<1>2. Types
  BY DEF IInv
<1>3. Lengths' = [Lengths EXCEPT ![s] = @ - k]
  <2>1. Len(conns'[s]) = Len(conns[s]) - k
    BY <1>2, RestProperties DEF Types
  <2>2. \A r \in Server \ {s} : conns'[r] = conns[r]
    BY <1>2 DEF Types
  <2>3. Lengths' = [r \in Server |-> Len(conns'[r])]
    BY DEF Lengths
  <2> QED
    BY <1>1, <2>1, <2>2, <2>3
<1>4. k \in 0..Lengths[s]
  BY <1>1
<1> QED
  BY <1>1, <1>3, <1>4, StackShrinks DEF Backlog

\* The statistics follow every look at a stack.
LEMMA LookCounted ==
  ASSUME IInv, IdleCounted, NEW g \in Caller, NEW s \in Server,
         Get(g, s) \/ (Wake(g) /\ s = want[g])
  PROVE  IdleCounted'
<1>1. Types
  BY DEF IInv
<1>2. CASE UNCHANGED poolVars
  BY <1>2 DEF IdleCounted, Backlog, Lengths, Bottom, poolVars
<1>3. ASSUME NEW k \in 0..Len(conns[s]), ~closed, conns' = [conns EXCEPT ![s] = Rest(s, k)],
             stats'.IdleConns = stats.IdleConns - k
      PROVE  IdleCounted'
  <2>1. Backlog' = Backlog - k
    BY <1>3, BacklogShrinks
  <2> QED
    BY <1>3, <2>1 DEF IdleCounted
<1>4. ASSUME NEW n \in 0..Len(conns[s]), ~closed, Take(g, s, n) PROVE IdleCounted'
  <2>1. n + 1 \in 0..Len(conns[s]) /\ n \in Int
    BY <1>1, <1>4 DEF Take, Types
  <2>2. stats.IdleConns \in Int
    BY <1>1 DEF Types
  <2>3. stats'.IdleConns = stats.IdleConns - (n + 1)
    BY <1>4, <2>1, <2>2 DEF Take
  <2> QED
    BY <1>3, <1>4, <2>1, <2>3 DEF Take
<1>5. ASSUME NEW n \in 0..Len(conns[s]), ~closed, Reserve(g, s, n) PROVE IdleCounted'
  BY <1>3, <1>5 DEF Reserve, Dropped
<1>6. ASSUME NEW n \in 0..Len(conns[s]), NEW outcome, ~closed, Saturated(g, s, n, outcome)
      PROVE  IdleCounted'
  BY <1>1, <1>3, <1>6 DEF Saturated, Dropped, Types
<1> QED
  BY <1>1, <1>2, <1>4, <1>5, <1>6, Looks DEF Asking

\* And every Put: a connection put back is one more to count.
LEMMA PutCounted ==
  ASSUME FullInv, IInv', IdleCounted, NEW g \in Caller, Put(g)
  PROVE  IdleCounted'
<1>1. IInv /\ Types /\ HoldsConn
  BY DEF FullInv, SlotInv, IInv
<1>2. CASE PutDiscard(g)
  BY <1>1, <1>2 DEF PutDiscard, Release, PutBack, IdleCounted, Backlog, Lengths, Bottom, Types
<1>3. CASE PutIdle(g)
  <2> DEFINE s == ServerName(conn[g])
             q == conns[s]
  <2>1. /\ conns' = [conns EXCEPT ![s] = Append(@, conn[g])]
        /\ ~closed /\ closed' = closed
        /\ stats'.IdleConns = stats.IdleConns + 1
    BY <1>3 DEF PutIdle, Release, PutBack
  <2>2. s \in Server /\ q \in Seq(Conn)
    <3>1. conn[g] \in Conn
      BY <1>1, <1>3 DEF PutIdle, HoldsConn, Types
    <3>2. s \in Server
      BY <3>1, ConnTypes
    <3> QED
      BY <1>1, <3>2 DEF Types
  <2>3. /\ Lengths \in [Server -> 0..MaxIdle] /\ Lengths' \in [Server -> 0..MaxIdle]
        /\ \A r \in Server : Lengths[r] = Len(conns[r]) /\ Lengths'[r] = Len(conns'[r])
    <3>1. Lengths \in [Server -> 0..MaxIdle] /\ \A r \in Server : Lengths[r] = Len(conns[r])
      BY <1>1, LengthsType
    <3>2. \A r \in Server : Len(conns'[r]) \in 0..MaxIdle
      BY PoolAssumption DEF IInv, Types, WithinLimits
    <3>3. Lengths' = [r \in Server |-> Len(conns'[r])]
      BY DEF Lengths
    <3> QED
      BY <3>1, <3>2, <3>3
  <2> HIDE DEF s, Conn
  <2>4. Len(conns'[s]) = Len(q) + 1 /\ \A r \in Server \ {s} : conns'[r] = conns[r]
    BY <1>1, <2>1, <2>2 DEF Types
  <2>5. Lengths = [Lengths' EXCEPT ![s] = @ - 1] /\ 1 \in 0..Lengths'[s]
    BY <2>2, <2>3, <2>4
  <2>6. Cardinality(Bottom(Lengths)) = Cardinality(Bottom(Lengths')) - 1
        /\ Cardinality(Bottom(Lengths')) \in Nat
    <3> DEFINE before == Lengths
               after == Lengths'
    <3>1. /\ after \in [Server -> 0..MaxIdle] /\ 1 \in 0..after[s]
          /\ before = [after EXCEPT ![s] = @ - 1]
      BY <2>3, <2>5
    <3> HIDE DEF before, after
    <3>2. /\ Cardinality(Bottom(after)) \in Nat
          /\ Cardinality(Bottom(before)) = Cardinality(Bottom(after)) - 1
      BY <2>2, <3>1, StackShrinks
    <3> QED
      BY <3>2 DEF before, after
  <2>7. Backlog' = Backlog + 1
    BY <2>6 DEF Backlog, Bottom
  <2> QED
    BY <2>1, <2>7 DEF IdleCounted
<1> QED
  BY <1>2, <1>3 DEF Put

\* A tick of the reaper and ClearServer are counted; Close need not be.
LEMMA EvictionCounted ==
  ASSUME FullInv, IdleCounted,
         reap \/ (\E s \in Server : ClearServer(s)) \/ Close
  PROVE  IdleCounted'
<1>1. IInv /\ Types
  BY DEF FullInv, SlotInv, IInv
<1>2. CASE reap
  <2>1. PICK n \in [Server -> 0..MaxIdle] :
           /\ \A s \in Server : n[s] <= Len(conns[s])
           /\ conns' = [s \in Server |-> SubSeq(conns[s], n[s] + 1, Len(conns[s]))]
           /\ stats' = [stats EXCEPT !.IdleConns = @ - Cardinality(Bottom(n))]
    BY <1>2 DEF reap
  <2>2. /\ Lengths \in [Server -> 0..MaxIdle]
        /\ \A s \in Server : Lengths[s] = Len(conns[s])
    BY <1>1, LengthsType
  <2>3. ASSUME NEW s \in Server PROVE Len(conns'[s]) = Lengths[s] - n[s]
    <3>1. n[s] \in Nat /\ n[s] <= Len(conns[s])
      BY <2>1, PoolAssumption
    <3> QED
      BY <1>1, <2>1, <2>2, <3>1, AboveProperties
  <2>4. Lengths' = [s \in Server |-> Lengths[s] - n[s]]
    BY <2>3 DEF Lengths
  <2>5. \A s \in Server : n[s] <= Lengths[s]
    BY <2>1, <2>2
  <2>6. Cardinality(Bottom(Lengths)) \in Nat /\ Cardinality(Bottom(n)) \in Nat
        /\ Cardinality(Bottom([s \in Server |-> Lengths[s] - n[s]]))
             = Cardinality(Bottom(Lengths)) - Cardinality(Bottom(n))
    BY <2>2, <2>5, BottomShift
  <2>7. Backlog' = Backlog - Cardinality(Bottom(n))
    BY <2>4, <2>6 DEF Backlog, Bottom
  <2>8. stats'.IdleConns = stats.IdleConns - Cardinality(Bottom(n)) /\ ~closed
    BY <1>1, <1>2, <2>1 DEF Types, reap
  <2> QED
    BY <2>7, <2>8 DEF IdleCounted
<1>3. ASSUME NEW s \in Server, ClearServer(s) PROVE IdleCounted'
  <2> DEFINE k == Len(conns[s])
  <2>1. k \in 0..Len(conns[s]) /\ Rest(s, k) = <<>>
    <3>1. conns[s] \in Seq(Conn)
      BY <1>1 DEF Types
    <3> HIDE DEF Conn
    <3> QED
      BY <3>1 DEF Rest
  <2>2. /\ conns' = [conns EXCEPT ![s] = Rest(s, k)]
        /\ closed' = closed /\ stats'.IdleConns = stats.IdleConns - k
    BY <1>1, <1>3, <2>1 DEF ClearServer, Types
  <2> HIDE DEF k
  <2>3. Backlog' = Backlog - k
    BY <1>1, <2>1, <2>2, BacklogShrinks
  <2> QED
    BY <2>2, <2>3 DEF IdleCounted
<1>4. CASE Close
  BY <1>4 DEF Close, IdleCounted
<1> QED
  BY <1>2, <1>3, <1>4

\* The invariant of the statistics: every path through the pool keeps both
\* counts, until Close gives the count of idle connections up.
LEMMA NextCounted ==
  FullInv /\ IdleCounted /\ [Next]_vars => (FullInv /\ IdleCounted)'
<1> SUFFICES ASSUME FullInv, IdleCounted, [Next]_vars PROVE (FullInv /\ IdleCounted)'
  OBVIOUS
<1>1. FullInv' /\ IInv' /\ IInv /\ Types
  BY NextFullInv DEF FullInv, SlotInv, IInv
<1>2. ASSUME UNCHANGED <<conns, closed>>, stats'.IdleConns = stats.IdleConns
      PROVE  IdleCounted'
  BY <1>2 DEF IdleCounted, Backlog, Lengths, Bottom
<1>3. ASSUME NEW g \in Caller, NEW s \in Server, Get(g, s) PROVE IdleCounted'
  BY <1>1, <1>3, LookCounted
<1>4. ASSUME NEW g \in Caller, Wake(g) PROVE IdleCounted'
  <2>1. want[g] \in Server
    BY <1>1 DEF Types
  <2> QED
    BY <1>1, <1>4, <2>1, LookCounted
<1>5. ASSUME NEW g \in Caller, Put(g) PROVE IdleCounted'
  BY <1>1, <1>5, PutCounted
<1>6. ASSUME NEW g \in Caller, Dial(g) PROVE IdleCounted'
  <2>1. stats.IdleConns \in Int
    BY <1>1 DEF Types
  <2> QED
    BY <1>2, <1>6, <2>1 DEF Dial, DialOk, DialFail, Release
<1>7. ASSUME reap \/ (\E s \in Server : ClearServer(s)) \/ Close PROVE IdleCounted'
  BY <1>7, EvictionCounted
<1>8. ASSUME \/ \E g \in Caller : Expire(g) \/ Cancel(g) \/ broadcast(g)
             \/ \E c \in Conn : MarkUnhealthy(c)
             \/ UNCHANGED vars
      PROVE  IdleCounted'
  BY <1>2, <1>8 DEF Expire, Cancel, broadcast, MarkUnhealthy, vars, poolVars, callVars
<1> QED
  BY <1>1, <1>3, <1>4, <1>5, <1>6, <1>7, <1>8 DEF Next

\* Stats never drifts from the pool: as long as the pool is open its two counts
\* are the callers with a slot and the connections in the stacks.
THEOREM StatsNeverDrift == Spec => []StatsAgree
<1>1. Init => IdleCounted
  <2> SUFFICES ASSUME Init PROVE stats.IdleConns = Backlog
    BY DEF IdleCounted
  <2>1. MaxIdle \in Nat /\ stats.IdleConns = 0 /\ \A s \in Server : conns[s] = <<>>
    BY PoolAssumption DEF Init
  <2>2. \A s \in Server : Lengths[s] = 0
    BY <2>1 DEF Lengths
  <2>3. Bottom(Lengths) = {}
    BY <2>1, <2>2 DEF Bottom
  <2> QED
    BY <2>1, <2>3, FS_EmptySet DEF Backlog
<1>2. FullInv /\ IdleCounted => StatsAgree
  BY DEF FullInv, SlotInv, Counts, ActiveCounted, Users, IdleCounted, Backlog,
         Lengths, StatsAgree
<1> QED
  BY <1>1, <1>2, InitFullInv, NextCounted, PTL DEF Spec

-----------------------------------------------------------------------------
(* What a caller is told, and what is thrown away on its behalf.           *)

\* A caller between calls, or woken, is moved only by its own look at a stack.
LEMMA Movers ==
  ASSUME Types, [Next]_vars, NEW g \in Caller, pc'[g] # pc[g]
  PROVE  \/ \E s \in Server : Get(g, s) \/ (Wake(g) /\ s = want[g])
         \/ /\ pc[g] \in InUse \cup {"waiting"}
            /\ pc'[g] \in {"holding", "dialFailed", "ready", "woken"}
<1> DEFINE Goal == \/ \E s \in Server : Get(g, s) \/ (Wake(g) /\ s = want[g])
                   \/ /\ pc[g] \in InUse \cup {"waiting"}
                      /\ pc'[g] \in {"holding", "dialFailed", "ready", "woken"}
<1>1. ASSUME NEW h \in Caller, NEW s \in Server, Get(h, s) \/ (Wake(h) /\ s = want[h])
      PROVE  Goal
  <2>1. \E v : pc' = [pc EXCEPT ![h] = v]
    BY <1>1, Looks DEF Take, Reserve, Saturated
  <2>2. h = g
    BY <2>1 DEF Types
  <2> QED
    BY <1>1, <2>2
<1>2. ASSUME NEW h \in Caller, Wake(h) PROVE Goal
  <2>1. want[h] \in Server
    BY DEF Types
  <2> QED
    BY <1>1, <1>2, <2>1
<1>3. ASSUME NEW h \in Caller, NEW v \in {"dialFailed", "ready"},
             pc[h] \in InUse, pc' = Signalled([pc EXCEPT ![h] = v])
      PROVE  Goal
  <2> DEFINE f == [pc EXCEPT ![h] = v]
  <2>1. f \in [Caller -> PC] /\ f[g] = IF g = h THEN v ELSE pc[g]
    BY DEF Types, PC, Returned
  <2> HIDE DEF f
  <2>2. /\ f[g] # "waiting" => pc'[g] = f[g]
        /\ f[g] = "waiting" => pc'[g] = "woken"
    BY <1>3, <2>1, SignalledProperties DEF f
  <2> QED
    BY <1>3, <2>1, <2>2
<1>4. ASSUME NEW h \in Caller, Dial(h) PROVE Goal
  <2>1. CASE DialOk(h)
    BY <2>1 DEF DialOk, Types, InUse
  <2>2. CASE DialFail(h)
    BY <1>3, <2>2 DEF DialFail, InUse
  <2> QED
    BY <1>4, <2>1, <2>2 DEF Dial
<1>5. ASSUME NEW h \in Caller, Put(h) PROVE Goal
  BY <1>3, <1>5 DEF Put, PutIdle, PutDiscard, PutBack, InUse
<1>6. ASSUME pc' = Signalled(pc) PROVE Goal
  <2>1. /\ pc[g] # "waiting" => pc'[g] = pc[g]
        /\ pc[g] = "waiting" => pc'[g] = "woken"
    BY <1>6, SignalledProperties DEF Types
  <2> QED
    BY <2>1
<1>7. ASSUME pc' = pc PROVE Goal
  BY <1>7
<1>8. ASSUME NEW h \in Caller, Expire(h) \/ Cancel(h) \/ broadcast(h) PROVE Goal
  BY <1>6, <1>7, <1>8 DEF Expire, Cancel, broadcast
<1>9. ASSUME \/ reap \/ Close
             \/ \E s \in Server : ClearServer(s)
             \/ \E c \in Conn : MarkUnhealthy(c)
             \/ UNCHANGED vars
      PROVE  Goal
  BY <1>6, <1>7, <1>9 DEF reap, Close, ClearServer, MarkUnhealthy, vars, callVars
<1> QED
  BY <1>1, <1>2, <1>4, <1>5, <1>8, <1>9 DEF Next

\* ExhaustedError is honest in every interleaving: at that moment MaxOpen callers
\* hold slots of the server, and no healthy connection to it is idle.
THEOREM HonestlyExhausted == Spec => ExhaustedIsHonest
<1> DEFINE A == \A g \in Caller :
                  pc[g] # "exhausted" /\ pc'[g] = "exhausted" =>
                    /\ Cardinality(Holders(want'[g])) = MaxOpen
                    /\ \A c \in Idle(want'[g]) : ~Healthy(c)
<1>1. FullInv /\ [Next]_vars => A
  <2> SUFFICES ASSUME FullInv, [Next]_vars, NEW g \in Caller,
                      pc[g] # "exhausted", pc'[g] = "exhausted"
               PROVE  /\ Cardinality(Holders(want'[g])) = MaxOpen
                      /\ Idle(want'[g]) = {}
    OBVIOUS
  <2>1. Types /\ SlotsAccounted /\ WithinLimits
    BY DEF FullInv, SlotInv, IInv, Counts
  <2>2. PICK s \in Server : Get(g, s) \/ (Wake(g) /\ s = want[g])
    BY <2>1, Movers
  <2>3. want'[g] = s /\ activeCount[s] >= MaxOpen
    BY <2>1, <2>2, Looks DEF Asking, Take, Reserve, Saturated, Types
  <2>4. activeCount[s] = MaxOpen /\ Len(conns[s]) = 0
    <3>1. /\ activeCount[s] \in Int /\ Len(conns[s]) \in Nat /\ MaxOpen \in Int
          /\ activeCount[s] + Len(conns[s]) <= MaxOpen
      BY <2>1, PoolAssumption DEF Types, WithinLimits
    <3> QED
      BY <2>3, <3>1
  <2>5. Idle(s) = {} /\ Cardinality(Holders(s)) = MaxOpen
    BY <2>1, <2>4 DEF Idle, SlotsAccounted
  <2> QED
    BY <2>3, <2>5 DEF Idle, Holders
<1> QED
  BY <1>1, FullInvariance, PTL DEF Spec, ExhaustedIsHonest

\* No call of Get closes a connection it could have handed out.
THEOREM UsableKept == Spec => OnlyBrokenDropped
<1> DEFINE A == \A g \in Caller :
                  pc[g] \in Returned \cup {"woken"} /\ pc'[g] # pc[g] =>
                    \A c \in Conn : Healthy(c) => transport'[c] # "closed"
<1>1. FullInv /\ [Next]_vars => A
  <2> SUFFICES ASSUME FullInv, [Next]_vars, NEW g \in Caller,
                      pc[g] \in Returned \cup {"woken"}, pc'[g] # pc[g],
                      NEW c \in Conn, Healthy(c)
               PROVE  transport'[c] # "closed"
    OBVIOUS
  <2>1. Types
    BY DEF FullInv, SlotInv, IInv
  <2>2. PICK s \in Server : Get(g, s) \/ (Wake(g) /\ s = want[g])
    BY <2>1, Movers DEF InUse, Returned
  <2>3. \/ transport' = transport
        \/ \E n : transport' = Shutting(Top(s, n)) /\ \A d \in Top(s, n) : ~Healthy(d)
    BY <2>1, <2>2, Looks DEF Take, Reserve, Saturated, Dropped, poolVars
  <2> QED
    BY <2>3 DEF Shutting, Healthy
<1> QED
  BY <1>1, FullInvariance, PTL DEF Spec, OnlyBrokenDropped

-----------------------------------------------------------------------------
(* The refinement.  What the mapping says of a connection, and what each   *)
(* move does to it.                                                        *)

PlaceOk ==
    /\ Place \in [Conn -> Caller \cup {"absent", "parked"}]
    /\ \A c \in Conn :
          /\ \A g \in Caller : Place[c] = g <=> conn[g] = c
          /\ Place[c] = "absent" <=> transport[c] = "closed"
          /\ Place[c] = "parked" <=> c \in Idle(ServerName(c))

\* A connection is with the one caller that holds it, parked in the stack of its
\* server, or closed.
LEMMA PlaceRight == FullInv => PlaceOk
<1> SUFFICES ASSUME FullInv PROVE PlaceOk
  OBVIOUS
<1>1. ConnInv /\ NoConn \notin Conn /\ \A c \in Conn : ServerName(c) \in Server
  BY ConnTypes
<1>2. "absent" \notin Caller /\ "parked" \notin Caller /\ "absent" # "parked"
  BY LeaseAssumption
<1> HIDE DEF Conn
<1>3. ASSUME NEW c \in Conn
      PROVE  /\ Place[c] \in Caller \cup {"absent", "parked"}
             /\ \A g \in Caller : Place[c] = g <=> conn[g] = c
             /\ Place[c] = "absent" <=> transport[c] = "closed"
             /\ Place[c] = "parked" <=> c \in Idle(ServerName(c))
  <2>1. CASE Held(c)
    <3>1. PICK g \in Caller : conn[g] = c
      BY <2>1 DEF Held
    <3> DEFINE owner == CHOOSE h \in Caller : conn[h] = c
    <3>2. owner \in Caller /\ conn[owner] = c
      BY <3>1
    <3>3. Place[c] = owner
      BY <3>1 DEF Place
    <3> HIDE DEF owner
    <3>4. \A h \in Caller : conn[h] = c => h = owner
      BY <1>1, <3>2 DEF ConnInv
    <3>5. transport[c] # "closed" /\ c \notin Idle(ServerName(c))
      BY <1>1, <2>1, <3>2 DEF ConnInv
    <3> QED
      BY <1>2, <3>2, <3>3, <3>4, <3>5
  <2>2. CASE ~Held(c)
    <3>1. Place[c] = IF transport[c] = "closed" THEN "absent" ELSE "parked"
      BY <2>2 DEF Place, Held
    <3>2. transport[c] # "closed" <=> c \in Idle(ServerName(c))
      BY <1>1, <2>2 DEF ConnInv
    <3> QED
      BY <1>2, <2>2, <3>1, <3>2 DEF Held
  <2> QED
    BY <2>1, <2>2
<1>4. Place \in [Conn -> Caller \cup {"absent", "parked"}]
  <2>1. Place = [c \in Conn |-> Place[c]]
    BY DEF Place
  <2> QED
    BY <1>3, <2>1
<1> QED
  BY <1>3, <1>4 DEF PlaceOk

LEMMA PlaceStaysRight == FullInv /\ [Next]_vars => PlaceOk'
<1> QED
  BY PlaceRight, NextFullInv, PTL

\* A connection whose owner and transport a step leaves alone stays in its place.
LEMMA SamePlace ==
  ASSUME PlaceOk, PlaceOk', NEW c \in Conn,
         \A g \in Caller : conn'[g] = c <=> conn[g] = c,
         transport'[c] = "closed" <=> transport[c] = "closed"
  PROVE  Place'[c] = Place[c]
<1> HIDE DEF Conn
<1>1. /\ Place[c] \in Caller \cup {"absent", "parked"}
      /\ Place'[c] \in Caller \cup {"absent", "parked"}
  BY DEF PlaceOk
<1>2. /\ \A g \in Caller : Place[c] = g <=> conn[g] = c
      /\ Place[c] = "absent" <=> transport[c] = "closed"
  BY DEF PlaceOk
<1>3. /\ \A g \in Caller : Place'[c] = g <=> conn'[g] = c
      /\ Place'[c] = "absent" <=> transport'[c] = "closed"
  BY DEF PlaceOk
<1> QED
  BY <1>1, <1>2, <1>3

LEMMA EvictedPlace ==
  ASSUME FullInv, PlaceOk', NEW D, Evicted(D)
  PROVE  /\ Place' = Lease!Drop(Place, D)
         /\ \A c \in D : c \in Conn /\ Place[c] = "parked"
<1> HIDE DEF Conn
<1>1. PlaceOk
  BY PlaceRight
<1>2. /\ conn' = conn
      /\ \A c \in Conn : transport'[c] = "closed" <=> c \in D \/ transport[c] = "closed"
      /\ \A c \in D : c \in Conn /\ c \in Idle(ServerName(c))
  BY DEF Evicted, Closes, InStack
<1>3. ASSUME NEW c \in Conn
      PROVE  Place'[c] = IF c \in D THEN "absent" ELSE Place[c]
  <2>1. CASE c \in D
    BY <1>2, <2>1 DEF PlaceOk
  <2>2. CASE c \notin D
    BY <1>1, <1>2, <2>2, SamePlace
  <2> QED
    BY <2>1, <2>2
<1>4. Place' = [c \in Conn |-> Place'[c]]
  BY DEF PlaceOk
<1> QED
  BY <1>1, <1>2, <1>3, <1>4 DEF Lease!Drop, PlaceOk

LEMMA TakenPlace ==
  ASSUME FullInv, PlaceOk', NEW g \in Caller, NEW c, NEW D, Taken(g, c, D)
  PROVE  /\ Place' = [Lease!Drop(Place, D) EXCEPT ![c] = g]
         /\ c \notin D
         /\ \A d \in D \cup {c} : d \in Conn /\ Place[d] = "parked"
<1> HIDE DEF Conn
<1>1. PlaceOk /\ conn \in [Caller -> Conn \cup {NoConn}] /\ NoConn \notin Conn
  BY PlaceRight, ConnTypes
<1>2. /\ conn' = [conn EXCEPT ![g] = c] /\ conn[g] = NoConn
      /\ \A d \in Conn : transport'[d] = "closed" <=> d \in D \/ transport[d] = "closed"
      /\ \A d \in D \cup {c} : d \in Conn /\ d \in Idle(ServerName(d))
      /\ c \notin D
  BY DEF Taken, Closes, InStack
<1>3. conn'[g] = c /\ \A h \in Caller \ {g} : conn'[h] = conn[h]
  BY <1>1, <1>2
<1>4. ASSUME NEW d \in Conn
      PROVE  Place'[d] = IF d = c THEN g ELSE IF d \in D THEN "absent" ELSE Place[d]
  <2>1. CASE d = c
    BY <1>3, <2>1 DEF PlaceOk
  <2>2. CASE d \in D
    BY <1>2, <2>2 DEF PlaceOk
  <2>3. CASE d \notin D \cup {c}
    <3>1. \A h \in Caller : conn'[h] = d <=> conn[h] = d
      BY <1>1, <1>2, <1>3, <2>3
    <3> QED
      BY <1>1, <1>2, <2>3, <3>1, SamePlace
  <2> QED
    BY <1>2, <2>1, <2>2, <2>3
<1>5. Place' = [d \in Conn |-> Place'[d]]
  BY DEF PlaceOk
<1>6. Lease!Drop(Place, D) = [d \in Conn |-> IF d \in D THEN "absent" ELSE Place[d]]
  BY DEF Lease!Drop
<1>7. \A d \in D \cup {c} : d \in Conn /\ Place[d] = "parked"
  BY <1>1, <1>2 DEF PlaceOk
<1> QED
  BY <1>2, <1>4, <1>5, <1>6, <1>7

LEMMA OpenedPlace ==
  ASSUME FullInv, PlaceOk', NEW g \in Caller, NEW c, Opened(g, c)
  PROVE  c \in Conn /\ Place[c] = "absent" /\ Place' = [Place EXCEPT ![c] = g]
<1> HIDE DEF Conn
<1>1. /\ PlaceOk /\ conn \in [Caller -> Conn \cup {NoConn}] /\ NoConn \notin Conn
      /\ transport \in [Conn -> {"closed", "healthy", "unhealthy"}]
  BY PlaceRight, ConnTypes
<1>2. /\ c \in Conn /\ transport[c] = "closed" /\ conn[g] = NoConn
      /\ transport' = [transport EXCEPT ![c] = "healthy"]
      /\ conn' = [conn EXCEPT ![g] = c]
  BY DEF Opened
<1>3. conn'[g] = c /\ \A h \in Caller \ {g} : conn'[h] = conn[h]
  BY <1>1, <1>2
<1>4. ASSUME NEW d \in Conn PROVE Place'[d] = IF d = c THEN g ELSE Place[d]
  <2>1. CASE d = c
    BY <1>3, <2>1 DEF PlaceOk
  <2>2. CASE d # c
    <3>1. transport'[d] = transport[d] /\ \A h \in Caller : conn'[h] = d <=> conn[h] = d
      BY <1>1, <1>2, <1>3, <2>2
    <3> QED
      BY <1>1, <2>2, <3>1, SamePlace
  <2> QED
    BY <2>1, <2>2
<1> QED
  BY <1>1, <1>2, <1>4 DEF PlaceOk

LEMMA GivenBackPlace ==
  ASSUME FullInv, PlaceOk', NEW g \in Caller
  PROVE  LET c == conn[g] IN
         /\ Shelved(g) => c \in Conn /\ Place[c] = g /\ Place' = [Place EXCEPT ![c] = "parked"]
         /\ Discarded(g) => c \in Conn /\ Place[c] = g /\ Place' = [Place EXCEPT ![c] = "absent"]
<1> DEFINE c == conn[g]
<1> HIDE DEF Conn
<1>1. /\ PlaceOk /\ conn \in [Caller -> Conn \cup {NoConn}] /\ NoConn \notin Conn
      /\ ConnInv
  BY PlaceRight, ConnTypes
<1>2. ASSUME c \in Conn, conn' = [conn EXCEPT ![g] = NoConn],
             \A d \in Conn \ {c} : transport'[d] = "closed" <=> transport[d] = "closed"
      PROVE  /\ Place[c] = g
             /\ \A d \in Conn \ {c} : Place'[d] = Place[d]
             /\ Place' = [d \in Conn |-> Place'[d]] /\ Place = [d \in Conn |-> Place[d]]
             /\ \A h \in Caller : Place'[c] # h
             /\ Place'[c] \in Caller \cup {"absent", "parked"}
  <2>1. conn'[g] = NoConn /\ \A h \in Caller \ {g} : conn'[h] = conn[h] /\ conn[h] # c
    BY <1>1, <1>2 DEF ConnInv
  <2>2. ASSUME NEW d \in Conn \ {c} PROVE Place'[d] = Place[d]
    <3>1. \A h \in Caller : conn'[h] = d <=> conn[h] = d
      BY <1>1, <2>1
    <3> QED
      BY <1>1, <1>2, <3>1, SamePlace
  <2>3. \A h \in Caller : Place'[c] # h
    BY <1>1, <1>2, <2>1 DEF PlaceOk
  <2> QED
    BY <1>1, <1>2, <2>2, <2>3 DEF PlaceOk
<1>3. ASSUME Shelved(g)
      PROVE  c \in Conn /\ Place[c] = g /\ Place' = [Place EXCEPT ![c] = "parked"]
  <2>1. c \in Conn /\ conn' = [conn EXCEPT ![g] = NoConn] /\ transport' = transport
    BY <1>3 DEF Shelved
  <2>2. transport[c] # "closed"
    BY <1>1, <2>1 DEF ConnInv, Held
  <2>3. Place'[c] # "absent"
    BY <2>1, <2>2 DEF PlaceOk
  <2> HIDE DEF c
  <2> QED
    BY <1>2, <2>1, <2>3
<1>4. ASSUME Discarded(g)
      PROVE  c \in Conn /\ Place[c] = g /\ Place' = [Place EXCEPT ![c] = "absent"]
  <2>1. /\ c \in Conn /\ conn' = [conn EXCEPT ![g] = NoConn]
        /\ \A d \in Conn : transport'[d] = "closed" <=> d = c \/ transport[d] = "closed"
    BY <1>4 DEF Discarded, Closes
  <2>2. Place'[c] = "absent"
    BY <2>1 DEF PlaceOk
  <2> HIDE DEF c
  <2> QED
    BY <1>2, <2>1, <2>2
<1> QED
  BY <1>3, <1>4

\* A stack has at most as many connections as positions.
LEMMA StackSize ==
  ASSUME NEW S, NEW q \in Seq(S)
  PROVE  IsFiniteSet(Elements(q)) /\ Cardinality(Elements(q)) <= Len(q)
<1> DEFINE f == [i \in 1..Len(q) |-> q[i]]
<1>1. Len(q) \in Nat
  OBVIOUS
<1>2. f \in [1..Len(q) -> Elements(q)] /\ \A c \in Elements(q) : \E i \in 1..Len(q) : f[i] = c
  BY DEF Elements
<1> HIDE DEF f
<1>3. f \in Surjection(1..Len(q), Elements(q))
  BY <1>2, Fun_IsSurj
<1>4. IsFiniteSet(1..Len(q)) /\ Cardinality(1..Len(q)) = Len(q)
  BY <1>1, UpTo
<1> QED
  BY <1>3, <1>4, FS_Surjection

Keepers(s) == {g \in Caller : pc[g] = "holding" /\ want[g] = s}
LeasedAt(s) == {c \in Lease!Of(s) : Place[c] \in Caller}

\* No server has more connections with callers than callers in use that are not
\* dialling.
LEMMA LeasedSize ==
  ASSUME FullInv, NEW s \in Server
  PROVE  /\ IsFiniteSet(LeasedAt(s))
         /\ Cardinality(LeasedAt(s)) + Cardinality(Lease!Dialers(s)) <= activeCount[s]
         /\ Cardinality(LeasedAt(s)) \in Nat /\ Cardinality(Lease!Dialers(s)) \in Nat
<1>1. /\ PlaceOk /\ Types /\ HoldsConn /\ Own /\ SlotsAccounted
      /\ NoConn \notin Conn /\ NoConn \notin Server
  BY PlaceRight, LeaseAssumption, PoolAssumption DEF FullInv, SlotInv, IInv, Counts
<1> DEFINE f == [c \in LeasedAt(s) |-> Place[c]]
<1>2. ASSUME NEW c \in LeasedAt(s)
      PROVE  Place[c] \in Keepers(s) /\ conn[Place[c]] = c
  <2>1. c \in Conn /\ ServerName(c) = s /\ Place[c] \in Caller
    BY DEF LeasedAt, Lease!Of
  <2>2. conn[Place[c]] = c
    BY <1>1, <2>1 DEF PlaceOk
  <2>3. pc[Place[c]] = "holding"
    BY <1>1, <2>1, <2>2 DEF HoldsConn
  <2>4. c \in {want[Place[c]]} \X Id
    BY <1>1, <2>1, <2>2, <2>3 DEF Own
  <2>5. want[Place[c]] = s
    BY <2>1, <2>4 DEF ServerName
  <2> QED
    BY <2>1, <2>2, <2>3, <2>5 DEF Keepers
<1>3. f \in [LeasedAt(s) -> Keepers(s)] /\ \A a, b \in LeasedAt(s) : f[a] = f[b] => a = b
  BY <1>2
<1>4. f \in Injection(LeasedAt(s), Keepers(s))
  <2> HIDE DEF f
  <2> QED
    BY <1>3, Fun_IsInj
<1>5. IsFiniteSet(Keepers(s)) /\ Cardinality(Keepers(s)) \in Nat
  <2>1. Keepers(s) \in SUBSET Caller
    BY DEF Keepers
  <2> QED
    BY <2>1, CallersFinite
<1>6. /\ IsFiniteSet(LeasedAt(s)) /\ Cardinality(LeasedAt(s)) <= Cardinality(Keepers(s))
      /\ Cardinality(LeasedAt(s)) \in Nat
  BY <1>4, <1>5, FS_Injection, FS_CardinalityType
<1>7. Lease!Dialers(s) = {g \in Caller : pc[g] = "dialing" /\ want[g] = s}
  <2>1. \A g \in Caller : Reserved[g] = IF pc[g] = "dialing" THEN want[g] ELSE NoConn
    BY DEF Reserved
  <2> QED
    BY <1>1, <2>1 DEF Lease!Dialers
<1>8. IsFiniteSet(Lease!Dialers(s)) /\ Cardinality(Lease!Dialers(s)) \in Nat
  <2>1. Lease!Dialers(s) \in SUBSET Caller
    BY <1>7
  <2> QED
    BY <2>1, CallersFinite
<1>9. Cardinality(Keepers(s)) + Cardinality(Lease!Dialers(s)) = activeCount[s]
  <2>1. Holders(s) = Keepers(s) \cup Lease!Dialers(s) /\ Keepers(s) \cap Lease!Dialers(s) = {}
    BY <1>7 DEF Holders, Keepers, InUse
  <2>2. Cardinality(Keepers(s) \cup Lease!Dialers(s))
          = Cardinality(Keepers(s)) + Cardinality(Lease!Dialers(s))
              - Cardinality(Keepers(s) \cap Lease!Dialers(s))
    BY <1>5, <1>8, FS_Union
  <2>3. Cardinality(Keepers(s) \cap Lease!Dialers(s)) = 0
    BY <2>1, FS_EmptySet
  <2>4. activeCount[s] = Cardinality(Keepers(s) \cup Lease!Dialers(s))
    BY <1>1, <2>1 DEF SlotsAccounted
  <2> QED
    BY <1>5, <1>8, <2>2, <2>3, <2>4
<1>10. activeCount[s] \in Int
  BY <1>1 DEF Types
<1> QED
  BY <1>5, <1>6, <1>8, <1>9, <1>10

\* A reservation leaves no more connections than MaxOpen: the connections that
\* stay, the dials under way and the new one.
LEMMA RoomToReserve ==
  ASSUME FullInv, NEW s \in Server, NEW n \in 0..Len(conns[s]),
         n >= 1 \/ Len(conns[s]) = 0, activeCount[s] < MaxOpen,
         conns' = [conns EXCEPT ![s] = Rest(s, n)]
  PROVE  Cardinality(Lease!Used(s) \ Top(s, n)) + Cardinality(Lease!Dialers(s)) < MaxOpen
<1>1. PlaceOk /\ Types /\ WithinLimits
  BY PlaceRight DEF FullInv, SlotInv, IInv
<1>2. /\ IsFiniteSet(LeasedAt(s))
      /\ Cardinality(LeasedAt(s)) + Cardinality(Lease!Dialers(s)) <= activeCount[s]
      /\ Cardinality(LeasedAt(s)) \in Nat /\ Cardinality(Lease!Dialers(s)) \in Nat
  BY LeasedSize
<1> DEFINE rest == Elements(Rest(s, n))
<1>3. rest = Idle(s) \ Top(s, n)
  <2>1. Idle(s)' = Idle(s) \ Top(s, n)
    BY TopLeaves DEF Lost
  <2>2. Idle(s)' = Elements(conns'[s]) /\ conns'[s] = Rest(s, n)
    BY <1>1 DEF Idle, Elements, Types
  <2> QED
    BY <2>1, <2>2
<1>4. /\ IsFiniteSet(rest) /\ Cardinality(rest) <= Len(conns[s]) - n
      /\ Cardinality(rest) \in Nat
  <2>1. Rest(s, n) \in Seq(Conn) /\ Len(Rest(s, n)) = Len(conns[s]) - n
    BY <1>1, RestProperties
  <2> HIDE DEF Conn
  <2>2. IsFiniteSet(rest) /\ Cardinality(rest) <= Len(Rest(s, n))
    BY <2>1, StackSize
  <2> HIDE DEF rest
  <2>3. Cardinality(rest) \in Nat
    BY <2>2, FS_CardinalityType
  <2> QED
    BY <2>1, <2>2, <2>3
<1>5. Lease!Used(s) \ Top(s, n) \in SUBSET (LeasedAt(s) \cup rest)
  <2>1. ASSUME NEW c \in Lease!Used(s), c \notin Top(s, n) PROVE c \in LeasedAt(s) \cup rest
    <3>1. c \in Conn /\ ServerName(c) = s /\ Place[c] # "absent" /\ c \in Lease!Of(s)
      BY DEF Lease!Used, Lease!Of
    <3>2. Place[c] \in Caller \/ c \in Idle(s)
      BY <1>1, <3>1 DEF PlaceOk
    <3> QED
      BY <1>3, <2>1, <3>1, <3>2 DEF LeasedAt
  <2> QED
    BY <2>1
<1> HIDE DEF rest
<1> DEFINE both == LeasedAt(s) \cup rest
           used == Lease!Used(s) \ Top(s, n)
<1>6. /\ IsFiniteSet(both) /\ Cardinality(both) \in Nat
      /\ Cardinality(both) <= Cardinality(LeasedAt(s)) + Cardinality(rest)
  <2>1. /\ IsFiniteSet(both)
        /\ Cardinality(both) = Cardinality(LeasedAt(s)) + Cardinality(rest)
                                 - Cardinality(LeasedAt(s) \cap rest)
    BY <1>2, <1>4, FS_Union
  <2>2. Cardinality(LeasedAt(s) \cap rest) \in Nat
    BY <1>2, FS_Intersection, FS_CardinalityType
  <2>3. Cardinality(both) \in Nat
    <3> HIDE DEF both
    <3> QED
      BY <2>1, FS_CardinalityType
  <2> QED
    BY <1>2, <1>4, <2>1, <2>2, <2>3
<1>7. used \in SUBSET both
  BY <1>5
<1> HIDE DEF both, used
<1>8. Cardinality(used) \in Nat /\ Cardinality(used) <= Cardinality(both)
  BY <1>6, <1>7, FS_Subset, FS_CardinalityType
<1>9. /\ activeCount[s] \in Int /\ Len(conns[s]) \in Nat /\ MaxOpen \in Nat
      /\ activeCount[s] + Len(conns[s]) <= MaxOpen
  BY <1>1, PoolAssumption DEF Types, WithinLimits
<1> QED
  BY <1>2, <1>4, <1>6, <1>8, <1>9 DEF used

-----------------------------------------------------------------------------
(* Each critical section as a step of PoolLease.                           *)

\* Nobody but the callers in A begins or ends a dial.
DialsStay(A) ==
    \A h \in Caller \ A : /\ pc'[h] = "dialing" <=> pc[h] = "dialing"
                          /\ pc[h] = "dialing" => want'[h] = want[h]

LEMMA ReservedFollows ==
  /\ DialsStay({}) => Reserved' = Reserved
  /\ \A g \in Caller : DialsStay({g}) =>
        /\ pc'[g] = "dialing" => Reserved' = [Reserved EXCEPT ![g] = want'[g]]
        /\ pc'[g] # "dialing" => Reserved' = [Reserved EXCEPT ![g] = NoConn]
<1>1. /\ Reserved = [g \in Caller |-> IF pc[g] = "dialing" THEN want[g] ELSE NoConn]
      /\ Reserved' = [g \in Caller |-> IF pc'[g] = "dialing" THEN want'[g] ELSE NoConn]
  BY DEF Reserved
<1> QED
  BY <1>1 DEF DialsStay

\* A broadcast that moves g out of its dial or its use leaves the other dials.
LEMMA SignalledDials ==
  ASSUME Types, NEW g \in Caller, NEW v \in {"ready", "dialFailed"},
         pc' = Signalled([pc EXCEPT ![g] = v]), want' = want
  PROVE  DialsStay({g}) /\ pc'[g] # "dialing"
<1> DEFINE f == [pc EXCEPT ![g] = v]
<1>1. /\ f \in [Caller -> PC] /\ f[g] = v /\ \A h \in Caller \ {g} : f[h] = pc[h]
  BY DEF Types, PC, Returned
<1> HIDE DEF f
<1>2. \A h \in Caller : /\ f[h] # "waiting" => pc'[h] = f[h]
                        /\ f[h] = "waiting" => pc'[h] = "woken"
  BY <1>1, SignalledProperties DEF f
<1> QED
  BY <1>1, <1>2 DEF DialsStay

\* A caller without a slot has no lease and no reservation.
LEMMA NotServed ==
  ASSUME FullInv, NEW g \in Caller, pc[g] \notin InUse
  PROVE  Lease!Unserved(g)
<1>1. PlaceOk /\ HoldsConn /\ NoConn \notin Conn
  BY PlaceRight, PoolAssumption DEF FullInv, SlotInv, IInv
<1>2. Reserved[g] = NoConn
  BY DEF Reserved, InUse
<1>3. \A c \in Conn : Place[c] # g
  BY <1>1 DEF PlaceOk, HoldsConn, InUse
<1> QED
  BY <1>2, <1>3 DEF Lease!Unserved

\* PoolLease counts as the pool does.
LEMMA LeaseCounts == \A S : Lease!Cardinality(S) = Cardinality(S)
BY DEF Lease!Cardinality, Cardinality

LEMMA EvictLease ==
  ASSUME FullInv, PlaceOk', NEW D, Evicted(D), DialsStay({}), closed' = closed
  PROVE  Lease!LNext
<1>1. /\ Place' = Lease!Drop(Place, D)
      /\ \A c \in D : c \in Conn /\ Place[c] = "parked"
  BY EvictedPlace
<1>2. Reserved' = Reserved
  BY ReservedFollows
<1> HIDE DEF Conn
<1>3. D \in SUBSET {c \in Conn : Place[c] = "parked"}
  BY <1>1
<1> QED
  BY <1>1, <1>2, <1>3 DEF Lease!LNext, Lease!Evict

\* A look at a stack is a reuse, a reservation or, when it fails, an eviction.
LEMMA LookLease ==
  ASSUME FullInv, PlaceOk', NEW g \in Caller, NEW s \in Server,
         Get(g, s) \/ (Wake(g) /\ s = want[g])
  PROVE  Lease!LNext
<1>1. Types /\ ConnInv
  BY DEF FullInv, SlotInv, IInv
<1>2. CASE pc' = [pc EXCEPT ![g] = "refused"] /\ UNCHANGED <<poolVars, conn>>
  <2>1. Evicted({})
    BY <1>2, StacksStay DEF Evicted, InStack, Closes, poolVars
  <2>2. /\ pc[g] # "dialing" /\ pc'[g] # "dialing"
        /\ \A h \in Caller \ {g} : pc'[h] = pc[h] /\ want'[h] = want[h]
    <3>1. pc[g] \in Returned \cup {"woken"}
      BY <1>1, Looks
    <3>2. \A h \in Caller \ {g} : want'[h] = want[h]
      BY <1>1, Looks DEF Get, GetRefused, GetIdle, GetNew, GetExhausted, GetCancelled,
         GetWait, Begin, Wake, WakeClosed, WakeIdle, WakeNew, WakeCancelled, WakeExpired,
         WakeWait, Finish, Types
    <3> QED
      BY <1>1, <1>2, <3>1, <3>2 DEF Types, Returned
  <2>3. DialsStay({})
    BY <2>2 DEF DialsStay
  <2> QED
    BY <1>2, <2>1, <2>3, EvictLease DEF poolVars
<1>3. ASSUME NEW n \in 0..Len(conns[s]), Asking(g, s), Take(g, s, n) PROVE Lease!LNext
  <2> DEFINE c == conns[s][Len(conns[s]) - n]
             D == Top(s, n)
  <2>1. Taken(g, c, D)
    <3>1. n \in Nat
      BY <1>1 DEF Types
    <3> QED
      BY <1>3, <3>1, TakeMoves
  <2>2. /\ Place' = [Lease!Drop(Place, D) EXCEPT ![c] = g]
        /\ c \notin D
        /\ \A d \in D \cup {c} : d \in Conn /\ Place[d] = "parked"
    BY <2>1, TakenPlace
  <2>3. \A d \in D \cup {c} : ServerName(d) = s
    <3>1. \A d \in D \cup {c} : d \in Idle(s)
      BY <1>1, <1>3 DEF Top, Idle, Take, Types
    <3> QED
      BY <3>1, ConnTypes
  <2>4. Reserved' = Reserved
    <3>1. DialsStay({})
      BY <1>1, <1>3 DEF Take, Asking, Types, DialsStay, InUse
    <3> QED
      BY <3>1, ReservedFollows
  <2>5. Lease!Unserved(g) /\ ~closed /\ closed' = closed
    BY <1>3, NotServed DEF Asking, Take
  <2> HIDE DEF c, D, Conn
  <2>6. c \in Lease!ParkedAt(s) /\ D \in SUBSET (Lease!ParkedAt(s) \ {c})
    BY <2>2, <2>3 DEF Lease!ParkedAt, Lease!Of
  <2>7. Lease!Reuse(g, s)
    BY <2>2, <2>4, <2>5, <2>6 DEF Lease!Reuse
  <2> QED
    BY <2>7 DEF Lease!LNext
<1>4. ASSUME NEW n \in 0..Len(conns[s]), n >= 1 \/ Len(conns[s]) = 0,
             Asking(g, s), Reserve(g, s, n)
      PROVE  Lease!LNext
  <2> DEFINE D == Top(s, n)
  <2>1. /\ Evicted(D) /\ activeCount[s] < MaxOpen
        /\ conns' = [conns EXCEPT ![s] = Rest(s, n)]
        /\ pc' = [pc EXCEPT ![g] = "dialing"] /\ closed' = closed
    BY <1>4, DroppedMoves DEF Reserve, Dropped
  <2>2. /\ Place' = Lease!Drop(Place, D)
        /\ \A d \in D : d \in Conn /\ Place[d] = "parked"
    BY <2>1, EvictedPlace
  <2>3. \A d \in D : ServerName(d) = s
    <3>1. \A d \in D : d \in Idle(s)
      BY <1>1 DEF Top, Idle, Types
    <3> QED
      BY <3>1, ConnTypes
  <2>4. Reserved' = [Reserved EXCEPT ![g] = s]
    <3>1. DialsStay({g}) /\ pc'[g] = "dialing" /\ want'[g] = s
      BY <1>1, <1>4, <2>1 DEF Asking, Types, DialsStay
    <3> QED
      BY <3>1, ReservedFollows
  <2>5. Lease!Unserved(g) /\ ~closed
    BY <1>4, NotServed DEF Asking
  <2>6. Cardinality(Lease!Used(s) \ D) + Cardinality(Lease!Dialers(s)) < MaxOpen
    BY <1>4, <2>1, RoomToReserve
  <2> HIDE DEF D, Conn
  <2>7. D \in SUBSET Lease!ParkedAt(s)
    BY <2>2, <2>3 DEF Lease!ParkedAt, Lease!Of
  <2>8. Lease!Reserve(g, s)
    BY <2>1, <2>2, <2>4, <2>5, <2>6, <2>7, LeaseCounts DEF Lease!Reserve
  <2> QED
    BY <2>8 DEF Lease!LNext
<1>5. ASSUME NEW n \in 0..Len(conns[s]), NEW outcome \in {"exhausted", "cancelled", "waiting"},
             Asking(g, s), Saturated(g, s, n, outcome)
      PROVE  Lease!LNext
  <2>1. Evicted(Top(s, n)) /\ closed' = closed
    BY <1>5, DroppedMoves DEF Saturated, Dropped
  <2>2. DialsStay({})
    BY <1>1, <1>5 DEF Saturated, Asking, Types, DialsStay, InUse
  <2> QED
    BY <2>1, <2>2, EvictLease
<1> QED
  BY <1>1, <1>2, <1>3, <1>4, <1>5, Looks

\* A dial ends the reservation, with or without a connection.
LEMMA DialLease ==
  ASSUME FullInv, PlaceOk', NEW g \in Caller, Dial(g)
  PROVE  Lease!LNext
<1>1. /\ Types /\ NoConn \notin Server /\ pc[g] = "dialing" /\ want[g] \in Server
  BY LeaseAssumption DEF FullInv, SlotInv, IInv, Types, Dial, DialOk, DialFail
<1>2. Reserved[g] = want[g] /\ Reserved[g] # NoConn
  BY <1>1 DEF Reserved
<1>3. CASE DialOk(g)
  <2>1. PICK c \in {want[g]} \X Id : Opened(g, c)
    BY <1>3, DialOpens
  <2>2. c \in Conn /\ Place[c] = "absent" /\ Place' = [Place EXCEPT ![c] = g]
    BY <2>1, OpenedPlace
  <2>3. DialsStay({g}) /\ pc'[g] # "dialing" /\ closed' = closed
    BY <1>1, <1>3 DEF DialOk, Types, DialsStay
  <2>4. Reserved' = [Reserved EXCEPT ![g] = NoConn]
    BY <2>3, ReservedFollows
  <2>5. c \in Lease!Of(Reserved[g])
    BY <1>2, <2>1, <2>2 DEF Lease!Of, ServerName
  <2> HIDE DEF Conn
  <2>6. Lease!Open(g)
    BY <1>2, <2>2, <2>3, <2>4, <2>5 DEF Lease!Open
  <2> QED
    BY <2>6 DEF Lease!LNext
<1>4. CASE DialFail(g)
  <2>1. Evicted({})
    BY <1>4, StacksStay DEF DialFail, Evicted, InStack, Closes
  <2>2. Place' = Lease!Drop(Place, {})
    BY <2>1, EvictedPlace
  <2>3. Place' = Place
    BY <2>2, PlaceRight DEF Lease!Drop, PlaceOk
  <2>4. DialsStay({g}) /\ pc'[g] # "dialing"
    BY <1>1, <1>4, SignalledDials DEF DialFail
  <2>5. Reserved' = [Reserved EXCEPT ![g] = NoConn] /\ closed' = closed
    BY <1>4, <2>4, ReservedFollows DEF DialFail
  <2>6. Lease!Abandon(g)
    BY <1>2, <2>3, <2>5 DEF Lease!Abandon
  <2> QED
    BY <2>6 DEF Lease!LNext
<1> QED
  BY <1>3, <1>4 DEF Dial

\* Put parks the connection, if there is room and the pool is open, or ends it.
LEMMA PutLease ==
  ASSUME FullInv, PlaceOk', NEW g \in Caller, Put(g)
  PROVE  Lease!LNext
<1> DEFINE c == conn[g]
           s == ServerName(c)
<1>1. PlaceOk /\ Types /\ pc[g] = "holding"
  BY PlaceRight DEF FullInv, SlotInv, IInv, Put, PutIdle, PutDiscard
<1>2. Reserved' = Reserved
  <2>1. DialsStay({g}) /\ pc'[g] # "dialing"
    BY <1>1, SignalledDials DEF Put, PutIdle, PutDiscard, PutBack
  <2>2. DialsStay({})
    BY <1>1, <2>1 DEF DialsStay
  <2> QED
    BY <2>2, ReservedFollows
<1>3. /\ Shelved(g) => c \in Conn /\ Place[c] = g /\ Place' = [Place EXCEPT ![c] = "parked"]
      /\ Discarded(g) => c \in Conn /\ Place[c] = g /\ Place' = [Place EXCEPT ![c] = "absent"]
  BY GivenBackPlace
<1>4. CASE PutIdle(g)
  <2>1. c \in Conn /\ Place[c] = g /\ Place' = [Place EXCEPT ![c] = "parked"]
    BY <1>3, <1>4, PutMoves
  <2>2. ~closed /\ closed' = closed /\ ~(Len(conns[s]) >= MaxIdle)
    BY <1>4 DEF PutIdle, PutBack, Full
  <2>3. s \in Server /\ conns[s] \in Seq(Conn)
    BY <1>1, <2>1, ConnTypes DEF Types
  <2> HIDE DEF Conn
  <2>4. Lease!ParkedAt(s) = Elements(conns[s])
    <3>1. \A d \in Conn : Place[d] = "parked" <=> d \in Idle(ServerName(d))
      BY <1>1 DEF PlaceOk
    <3>2. \A d \in Idle(s) : d \in Conn /\ ServerName(d) = s
      BY <2>3, ConnTypes
    <3>3. Idle(s) = Elements(conns[s])
      BY DEF Idle, Elements
    <3> QED
      BY <3>1, <3>2, <3>3 DEF Lease!ParkedAt, Lease!Of
  <2>5. Cardinality(Lease!ParkedAt(s)) < MaxIdle
    <3>1. /\ IsFiniteSet(Elements(conns[s]))
          /\ Cardinality(Elements(conns[s])) <= Len(conns[s])
      BY <2>3, StackSize
    <3>2. Cardinality(Elements(conns[s])) \in Nat /\ Len(conns[s]) \in Nat /\ MaxIdle \in Nat
      BY <2>3, <3>1, FS_CardinalityType, PoolAssumption
    <3> QED
      BY <2>2, <2>4, <3>1, <3>2
  <2>6. Lease!Park(g, c)
    BY <1>2, <2>1, <2>2, <2>5, LeaseCounts DEF Lease!Park
  <2> QED
    BY <2>1, <2>6 DEF Lease!LNext
<1>5. CASE PutDiscard(g)
  <2>1. c \in Conn /\ Place[c] = g /\ Place' = [Place EXCEPT ![c] = "absent"]
    BY <1>3, <1>5, PutMoves
  <2>2. closed' = closed
    BY <1>5 DEF PutDiscard, PutBack
  <2> HIDE DEF Conn
  <2>3. Lease!Discard(g, c)
    BY <1>2, <2>1, <2>2 DEF Lease!Discard
  <2> QED
    BY <2>1, <2>3 DEF Lease!LNext
<1> QED
  BY <1>4, <1>5 DEF Put

\* Close shuts the leases; whoever dials or holds a connection keeps it.
LEMMA CloseLease ==
  ASSUME FullInv, PlaceOk', Close
  PROVE  Lease!LNext
<1> DEFINE D == UNION {Idle(s) : s \in Server}
           P == {c \in Conn : Place[c] = "parked"}
<1>1. PlaceOk /\ Types /\ \A c \in Conn : ServerName(c) \in Server
  BY PlaceRight, ConnTypes DEF FullInv, SlotInv, IInv
<1>2. D = P
  <2>1. \A c \in Conn : c \in P <=> c \in Idle(ServerName(c))
    BY <1>1 DEF PlaceOk
  <2>2. \A s \in Server : \A c \in Idle(s) : c \in Conn /\ ServerName(c) = s
    BY ConnTypes
  <2> HIDE DEF Conn
  <2>3. \A c \in D : c \in P
    BY <2>1, <2>2
  <2>4. \A c \in P : c \in D
    BY <1>1, <2>1
  <2> QED
    BY <2>3, <2>4
<1>3. Place' = Lease!Drop(Place, D)
  BY CloseMoves, EvictedPlace
<1>4. Reserved' = Reserved
  <2>1. \A h \in Caller : /\ pc[h] # "waiting" => pc'[h] = pc[h]
                          /\ pc[h] = "waiting" => pc'[h] = "woken"
    BY <1>1, SignalledProperties DEF Close, Types
  <2>2. DialsStay({})
    BY <2>1 DEF DialsStay, Close
  <2> QED
    BY <2>2, ReservedFollows
<1> HIDE DEF D
<1>5. Lease!Shut
  BY <1>2, <1>3, <1>4 DEF Lease!Shut, Close
<1> QED
  BY <1>5 DEF Lease!LNext

LEMMA NextLease ==
  ASSUME FullInv, PlaceOk', [Next]_vars
  PROVE  Lease!LNext
<1>1. Types
  BY DEF FullInv, SlotInv, IInv
<1>2. ASSUME NEW D, Evicted(D), closed' = closed, want' = want,
             pc' = pc \/ pc' = Signalled(pc)
      PROVE  Lease!LNext
  <2>1. \A h \in Caller : pc'[h] = "dialing" <=> pc[h] = "dialing"
    <3>1. \A h \in Caller : /\ pc[h] # "waiting" => Signalled(pc)[h] = pc[h]
                            /\ pc[h] = "waiting" => Signalled(pc)[h] = "woken"
      BY <1>1, SignalledProperties DEF Types
    <3> QED
      BY <1>2, <3>1
  <2>2. DialsStay({})
    BY <1>2, <2>1 DEF DialsStay
  <2> QED
    BY <1>2, <2>2, EvictLease
<1>3. ASSUME conns' = conns, conn' = conn, Closes({}) PROVE Evicted({})
  BY <1>3, StacksStay DEF Evicted, InStack
<1>4. ASSUME transport' = transport PROVE Closes({})
  BY <1>4 DEF Closes
<1>5. ASSUME NEW g \in Caller, NEW s \in Server, Get(g, s) PROVE Lease!LNext
  BY <1>5, LookLease
<1>6. ASSUME NEW g \in Caller, Wake(g) PROVE Lease!LNext
  <2>1. want[g] \in Server
    BY <1>1 DEF Types
  <2> QED
    BY <1>6, <2>1, LookLease
<1>7. ASSUME NEW g \in Caller, Dial(g) \/ Put(g) PROVE Lease!LNext
  BY <1>7, DialLease, PutLease
<1>8. ASSUME NEW g \in Caller, Expire(g) \/ Cancel(g) \/ broadcast(g) PROVE Lease!LNext
  BY <1>2, <1>3, <1>4, <1>8 DEF Expire, Cancel, broadcast, poolVars
<1>9. ASSUME reap PROVE Lease!LNext
  BY <1>2, <1>9, ReapMoves DEF reap, callVars
<1>10. ASSUME NEW s \in Server, ClearServer(s) PROVE Lease!LNext
  BY <1>2, <1>10, ClearMoves DEF ClearServer, callVars
<1>11. ASSUME Close PROVE Lease!LNext
  BY <1>11, CloseLease
<1>12. ASSUME NEW c \in Conn, MarkUnhealthy(c) PROVE Lease!LNext
  <2>1. /\ Healthy(c) /\ transport' = [transport EXCEPT ![c] = "unhealthy"]
        /\ UNCHANGED <<conns, closed, conn, pc, want>>
    BY <1>12 DEF MarkUnhealthy, callVars
  <2>2. Closes({})
    BY <1>1, <2>1 DEF Types, Closes, Healthy
  <2> QED
    BY <1>2, <1>3, <2>1, <2>2
<1>13. ASSUME UNCHANGED vars PROVE Lease!LNext
  BY <1>2, <1>3, <1>4, <1>13 DEF vars, poolVars, callVars
<1> QED
  BY <1>5, <1>6, <1>7, <1>8, <1>9, <1>10, <1>11, <1>12, <1>13 DEF Next

\* The pool implements the leases it promises: with any number of callers,
\* servers and connections and any limits, every critical section, dial,
\* callback and tick is a step of PoolLease.
THEOREM PoolImplementsLeases == Spec => LeaseSpec
<1>1. Init => Lease!LInit
  <2> SUFFICES ASSUME Init PROVE Lease!LInit
    OBVIOUS
  <2>1. PlaceOk
    BY InitFullInv, PlaceRight
  <2>2. Place = [c \in Conn |-> "absent"]
    <3>1. \A c \in Conn : transport[c] = "closed"
      BY DEF Init
    <3> HIDE DEF Conn
    <3> QED
      BY <2>1, <3>1 DEF PlaceOk
  <2>3. Reserved = [g \in Caller |-> NoConn]
    BY DEF Reserved, Init
  <2> QED
    BY <2>2, <2>3 DEF Lease!LInit, Init
<1>2. FullInv /\ [Next]_vars => Lease!LNext
  BY PlaceStaysRight, NextLease
<1> QED
  BY <1>1, <1>2, FullInvariance, PTL DEF Spec, LeaseSpec, Lease!LeaseSpec

=============================================================================
