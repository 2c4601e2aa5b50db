--------------------------- MODULE ExchangeProofs ---------------------------
(***************************************************************************)
(* Proofs about the exchanges of the proxy, for all servers, callers,      *)
(* connections, limits and numbers of requests: over local processes       *)
(* (Spec), and over them or lines to the hub (HSpec).                      *)
(***************************************************************************)
EXTENDS HubExchange, FiniteSetTheorems, TLAPS

Known(m) == m.id = m.number /\ m.number <= made

\* The id of a message is its number, so ids tell all requests of the proxy
\* apart; none has the number of a later one.
Numbered ==
    /\ reqID = made
    /\ \A g \in Caller : want[g] # None => Known(want[g])
    /\ \A c \in Conn : \A m \in asked[c] \cup replies[c] : Known(m)

\* A caller past the dial has leased its connection; during the dial the pool
\* does not know of it; no two callers use the same one.
Lines ==
    /\ \A g \in Caller :
          /\ stage[g] \in {"none", "dial"} => line[g] = None
          /\ stage[g] = "init" => line[g] \in Conn /\ place[line[g]] = Absent
          /\ stage[g] \in {"ready", "wait", "over"} =>
                line[g] \in Conn /\ place[line[g]] = g
    /\ \A g, h \in Caller : line[g] # None /\ line[g] = line[h] => g = h

\* What a caller waits for is on its own connection only.
Own ==
    \A g \in Caller, c \in Conn :
        stage[g] \in {"init", "wait"} /\ want[g] \in asked[c] \cup replies[c] => line[g] = c

\* A caller waits for a request, and has a reply only when it is over.
Answers ==
    \A g \in Caller :
        /\ stage[g] \in {"init", "wait"} => want[g] # None
        /\ got[g] # None => stage[g] = "over" /\ got[g] = want[g]

IInv == TypeOK /\ Numbered /\ Lines /\ Own /\ Answers

LEMMA InitIInv == Init => IInv
BY ExchangeAssumption
   DEF Init, LInit, IInv, TypeOK, Numbered, Lines, Own, Answers, Stage

\* The request a message answers is the one with its id.
LEMMA MatchIsSame ==
  ASSUME IInv, NEW g \in Caller, NEW r \in Unread(g), want[g] # None
  PROVE  line[g] \in Conn /\ r \in replies[line[g]] /\ r \in Msg
         /\ (Matches(want[g], r) <=> r = want[g])
<1>1. line[g] \in Conn /\ r \in replies[line[g]]
  BY DEF Unread, IInv, TypeOK
<1>2. r \in Msg /\ want[g] \in Msg /\ Known(r) /\ Known(want[g])
  BY <1>1 DEF IInv, TypeOK, Numbered
<1> QED
  BY <1>1, <1>2 DEF Matches, Known, Msg

\* The next request: its number is new.
LEMMA RequestIsNew ==
  ASSUME IInv, reqID < MaxID
  PROVE  /\ Request \in Msg /\ Request # None
         /\ Request.id = made + 1 /\ Request.number = made + 1
         /\ \A m : Known(m) => m # Request
<1>1. made \in 0..MaxID /\ reqID = made
  BY DEF IInv, TypeOK, Numbered
<1>2. Request = [id |-> made + 1, number |-> made + 1]
  BY <1>1 DEF Request, nextID
<1>3. Request \in Msg
  BY <1>1, <1>2, ExchangeAssumption DEF Msg
<1>4. \A m : Known(m) => m.number # made + 1
  BY <1>1 DEF Known
<1> QED
  BY <1>2, <1>3, <1>4, ExchangeAssumption

\* What the pool does with parked connections is no concern of who has one.
LEMMA ParkedOnly ==
  ASSUME IInv, place' \in [Conn -> {Absent, Parked} \cup Caller],
         \A c \in Conn : place[c] # Parked => place'[c] = place[c],
         UNCHANGED <<stage, line>>
  PROVE  Lines'
<1>1. \A g \in Caller :
        /\ stage[g] \in {"none", "dial"} => line[g] = None
        /\ stage[g] = "init" => line[g] \in Conn /\ place'[line[g]] = Absent
        /\ stage[g] \in {"ready", "wait", "over"} => line[g] \in Conn /\ place'[line[g]] = g
  BY ExchangeAssumption DEF IInv, Lines
<1> QED
  BY <1>1 DEF IInv, Lines

\* The moves the pool makes by itself.
LEMMA PoolStep == IInv /\ PoolMoves => IInv'
<1> SUFFICES ASSUME IInv, PoolMoves PROVE IInv'
  OBVIOUS
<1> USE DEF IInv
<1>0. UNCHANGED <<reserved, reqID, made, stage, line, want, got, asked, replies>>
  BY DEF PoolMoves, Evict, Shut, callVars, wire
<1>1. PICK D \in SUBSET {c \in Conn : place[c] = Parked} : place' = Drop(place, D)
  BY DEF PoolMoves, Evict, Shut
<1>2. place' \in [Conn -> {Absent, Parked} \cup Caller]
  BY <1>1 DEF Drop, TypeOK
<1>3. TypeOK' /\ Numbered' /\ Own' /\ Answers'
  BY <1>0, <1>2 DEF TypeOK, Numbered, Known, Own, Answers
<1>4. Lines'
  BY <1>0, <1>1, <1>2, ParkedOnly DEF Drop
<1> QED
  BY <1>3, <1>4

\* Get of a parked connection.
LEMMA GetParkedStep ==
  ASSUME IInv, NEW g \in Caller, NEW s \in Server, GetParked(g, s)
  PROVE  IInv'
<1> USE DEF IInv
<1>0. UNCHANGED <<reserved, reqID, made, want, got, asked, replies>>
      /\ stage[g] = "none" /\ stage' = [stage EXCEPT ![g] = "ready"]
  BY DEF GetParked, Reuse, wire
<1>1. PICK c \in ParkedAt(s) : \E D \in SUBSET (ParkedAt(s) \ {c}) :
        place' = [Drop(place, D) EXCEPT ![c] = g]
  BY DEF GetParked, Reuse
<1>2. PICK D \in SUBSET (ParkedAt(s) \ {c}) : place' = [Drop(place, D) EXCEPT ![c] = g]
  BY <1>1
<1>3. c \in Conn /\ place[c] = Parked /\ \A d \in D : place[d] = Parked
  BY DEF ParkedAt, Of
<1>4. \A d \in Conn : place[d] # g
  BY DEF GetParked, Reuse, Unserved
<1>5. /\ place' \in [Conn -> {Absent, Parked} \cup Caller]
      /\ place'[c] = g /\ \A d \in Conn : d # c => place'[d] # g
      /\ \A d \in Conn : place[d] # Parked => place'[d] = place[d]
  BY <1>2, <1>3, <1>4, ExchangeAssumption DEF Drop, TypeOK
<1>6. line' = [line EXCEPT ![g] = c]
  BY <1>5 DEF GetParked
<1>7. TypeOK' /\ Numbered' /\ Own' /\ Answers'
  BY <1>0, <1>3, <1>5, <1>6 DEF TypeOK, Stage, Numbered, Known, Own, Answers
<1>8. \A h \in Caller : line[h] # c
  BY <1>3, ExchangeAssumption DEF Lines, TypeOK, Stage
<1>9. Lines'
  <2>1. ASSUME NEW h \in Caller
        PROVE /\ stage'[h] \in {"none", "dial"} => line'[h] = None
              /\ stage'[h] = "init" => line'[h] \in Conn /\ place'[line'[h]] = Absent
              /\ stage'[h] \in {"ready", "wait", "over"} =>
                    line'[h] \in Conn /\ place'[line'[h]] = h
    <3>1. CASE h = g
      BY <3>1, <1>0, <1>3, <1>5, <1>6 DEF TypeOK
    <3>2. CASE h # g
      <4>1. stage'[h] = stage[h] /\ line'[h] = line[h]
        BY <3>2, <1>0, <1>6 DEF TypeOK
      <4> QED
        BY <4>1, <1>5, ExchangeAssumption DEF Lines
    <3> QED
      BY <3>1, <3>2
  <2>2. \A h, i \in Caller : line'[h] # None /\ line'[h] = line'[i] => h = i
    BY <1>6, <1>8 DEF Lines, TypeOK
  <2> QED
    BY <2>1, <2>2 DEF Lines
<1> QED
  BY <1>7, <1>9

\* Get of room for a new connection.
LEMMA GetNewStep ==
  ASSUME IInv, NEW g \in Caller, NEW s \in Server, GetNew(g, s)
  PROVE  IInv'
<1> USE DEF IInv
<1>0. /\ UNCHANGED <<reqID, made, line, want, got, asked, replies>>
      /\ stage[g] = "none" /\ stage' = [stage EXCEPT ![g] = "dial"]
      /\ reserved' = [reserved EXCEPT ![g] = s]
  BY DEF GetNew, Reserve, wire
<1>1. PICK D \in SUBSET ParkedAt(s) : place' = Drop(place, D)
  BY DEF GetNew, Reserve
<1>2. /\ place' \in [Conn -> {Absent, Parked} \cup Caller]
      /\ \A c \in Conn : place[c] # Parked => place'[c] = place[c]
  BY <1>1 DEF Drop, ParkedAt, Of, TypeOK
<1>3. TypeOK' /\ Numbered' /\ Own' /\ Answers'
  BY <1>0, <1>2 DEF TypeOK, Stage, Numbered, Known, Own, Answers
<1>4. Lines'
  BY <1>0, <1>2, ExchangeAssumption DEF Lines, TypeOK, Stage
<1> QED
  BY <1>3, <1>4

\* A new process and its initialize request.
LEMMA StartProcessStep ==
  ASSUME IInv, NEW g \in Caller, NEW c \in Conn, StartProcess(g, c)
  PROVE  IInv'
<1> USE DEF IInv
<1>0. /\ stage[g] = "dial" /\ place[c] = Absent /\ \A h \in Caller : line[h] # c
      /\ reqID < MaxID /\ reqID' = reqID + 1 /\ made' = made + 1
      /\ want' = [want EXCEPT ![g] = Request]
      /\ stage' = [stage EXCEPT ![g] = "init"] /\ line' = [line EXCEPT ![g] = c]
      /\ asked' = [asked EXCEPT ![c] = {Request}] /\ replies' = [replies EXCEPT ![c] = {}]
      /\ UNCHANGED <<place, reserved, shut, got>>
  BY DEF StartProcess, Ask, leaseVars
<1>1. /\ Request \in Msg /\ Request # None /\ Request.id = made + 1 /\ Request.number = made + 1
      /\ \A m : Known(m) => m # Request
  BY <1>0, RequestIsNew
<1> HIDE DEF IInv
<1>2. TypeOK'
  BY <1>0, <1>1, ExchangeAssumption DEF IInv, TypeOK, Stage, Numbered
<1>3. Numbered'
  <2>1. \A m : Known(m) /\ m \in Msg => m.id = m.number /\ m.number <= made + 1
    BY DEF Known, IInv, TypeOK, Msg
  <2> QED
    BY <1>0, <1>1, <2>1 DEF IInv, Numbered, Known, TypeOK
<1>4. Lines'
  BY <1>0, ExchangeAssumption DEF IInv, Lines, TypeOK
<1>5. Own'
  <2> SUFFICES ASSUME NEW h \in Caller, NEW d \in Conn, stage'[h] \in {"init", "wait"},
                      want'[h] \in asked'[d] \cup replies'[d]
               PROVE  line'[h] = d
    BY DEF Own
  <2>1. CASE h = g
    <3>1. want'[h] = Request
      BY <2>1, <1>0 DEF IInv, TypeOK
    <3>2. CASE d = c
      BY <2>1, <3>2, <1>0 DEF IInv, TypeOK
    <3>3. CASE d # c
      <4>1. Request \in asked[d] \cup replies[d]
        BY <3>1, <3>3, <1>0 DEF IInv, TypeOK
      <4> QED
        BY <4>1, <1>1 DEF IInv, Numbered
    <3> QED
      BY <3>2, <3>3
  <2>2. CASE h # g
    <3>1. stage[h] = stage'[h] /\ want'[h] = want[h] /\ line'[h] = line[h]
      BY <2>2, <1>0 DEF IInv, TypeOK
    <3>2. want[h] # Request
      BY <3>1, <1>1 DEF IInv, Numbered, Answers
    <3>3. want[h] \in asked[d] \cup replies[d]
      BY <3>1, <3>2, <1>0 DEF IInv, TypeOK
    <3> QED
      BY <3>1, <3>3 DEF IInv, Own
  <2> QED
    BY <2>1, <2>2
<1>6. Answers'
  BY <1>0, <1>1 DEF IInv, Answers, TypeOK
<1> QED
  BY <1>2, <1>3, <1>4, <1>5, <1>6 DEF IInv

\* A request on a leased connection.
LEMMA SendStep ==
  ASSUME IInv, NEW g \in Caller, Send(g)
  PROVE  IInv'
<1> DEFINE c == line[g]
<1>0. /\ stage[g] = "ready" /\ c \in Conn /\ place[c] = g
      /\ reqID < MaxID /\ reqID' = reqID + 1 /\ made' = made + 1
      /\ want' = [want EXCEPT ![g] = Request]
      /\ stage' = [stage EXCEPT ![g] = "wait"]
      /\ asked' = [asked EXCEPT ![c] = @ \cup {Request}]
      /\ UNCHANGED <<place, reserved, shut, line, got, replies>>
  BY DEF Send, Ask, leaseVars, IInv, Lines
<1>1. /\ Request \in Msg /\ Request # None /\ Request.id = made + 1 /\ Request.number = made + 1
      /\ \A m : Known(m) => m # Request
  BY <1>0, RequestIsNew
<1>2. TypeOK'
  BY <1>0, <1>1, ExchangeAssumption DEF IInv, TypeOK, Stage, Numbered
<1>3. Numbered'
  <2>1. \A m : Known(m) /\ m \in Msg => m.id = m.number /\ m.number <= made + 1
    BY DEF Known, IInv, TypeOK, Msg
  <2> QED
    BY <1>0, <1>1, <2>1 DEF IInv, Numbered, Known, TypeOK
<1>4. Lines'
  BY <1>0 DEF IInv, Lines, TypeOK
<1>5. Own'
  <2> SUFFICES ASSUME NEW h \in Caller, NEW d \in Conn, stage'[h] \in {"init", "wait"},
                      want'[h] \in asked'[d] \cup replies[d]
               PROVE  line[h] = d
    BY <1>0 DEF Own
  <2>1. CASE h = g
    <3>1. want'[h] = Request
      BY <2>1, <1>0 DEF IInv, TypeOK
    <3>2. CASE d # c
      <4>1. Request \in asked[d] \cup replies[d]
        BY <3>1, <3>2, <1>0 DEF IInv, TypeOK
      <4> QED
        BY <4>1, <1>1 DEF IInv, Numbered
    <3> QED
      BY <2>1, <3>2
  <2>2. CASE h # g
    <3>1. stage[h] = stage'[h] /\ want'[h] = want[h]
      BY <2>2, <1>0 DEF IInv, TypeOK
    <3>2. want[h] # Request
      BY <3>1, <1>1 DEF IInv, Numbered, Answers
    <3>3. want[h] \in asked[d] \cup replies[d]
      BY <3>1, <3>2, <1>0 DEF IInv, TypeOK
    <3> QED
      BY <3>1, <3>3 DEF IInv, Own
  <2> QED
    BY <2>1, <2>2
<1>6. Answers'
  BY <1>0, <1>1 DEF IInv, Answers, TypeOK
<1> QED
  BY <1>2, <1>3, <1>4, <1>5, <1>6 DEF IInv

\* The steps of a caller that keeps its connection and asks for nothing.
LEMMA ReadStep ==
  ASSUME IInv, NEW g \in Caller, NEW r \in Unread(g), Return(g, r) \/ Skip(g, r)
  PROVE  IInv'
<1>0. line[g] \in Conn /\ r \in replies[line[g]] /\ want[g] # None /\ r # None
  BY MatchIsSame, ExchangeAssumption DEF Return, Skip, IInv, Answers
<1>1. r \in Msg /\ (Matches(want[g], r) <=> r = want[g])
  BY <1>0, MatchIsSame
<1>2. /\ UNCHANGED <<place, reserved, shut, reqID, made, line, want, asked>>
      /\ replies' = [replies EXCEPT ![line[g]] = @ \ {r}]
      /\ \/ UNCHANGED <<stage, got>>
         \/ /\ stage[g] = "wait" /\ stage' = [stage EXCEPT ![g] = "over"]
            /\ got' = [got EXCEPT ![g] = r] /\ r = want[g]
  BY <1>1 DEF Return, Skip, leaseVars, callVars
<1>3. TypeOK'
  BY <1>0, <1>1, <1>2 DEF IInv, TypeOK, Stage
<1>4. Numbered' /\ Lines' /\ Own'
  BY <1>0, <1>2 DEF IInv, TypeOK, Numbered, Known, Lines, Own
<1>5. Answers'
  BY <1>0, <1>2 DEF IInv, TypeOK, Answers
<1> QED
  BY <1>3, <1>4, <1>5 DEF IInv

\* The dial ends with a connection that the caller has leased.
LEMMA InitializedStep ==
  ASSUME IInv, NEW g \in Caller, NEW r \in Unread(g), Initialized(g, r)
  PROVE  IInv'
<1>0. /\ stage[g] = "init" /\ line[g] \in Conn /\ place[line[g]] = Absent
      /\ stage' = [stage EXCEPT ![g] = "ready"] /\ want' = [want EXCEPT ![g] = None]
      /\ replies' = [replies EXCEPT ![line[g]] = @ \ {r}]
      /\ reserved' = [reserved EXCEPT ![g] = None]
      /\ UNCHANGED <<reqID, made, line, got, asked>>
  BY DEF Initialized, Open, IInv, Lines
<1>1. place' = [place EXCEPT ![line[g]] = g]
  <2> PICK c \in Conn : place' = [place EXCEPT ![c] = g]
    BY DEF Initialized, Open, Of
  <2>1. place'[line[g]] = g /\ place[line[g]] # g
    BY <1>0, ExchangeAssumption DEF Initialized
  <2>2. c = line[g]
    BY <2>1, <1>0 DEF IInv, TypeOK
  <2> QED
    BY <2>2
<1>2. TypeOK'
  BY <1>0, <1>1 DEF IInv, TypeOK, Stage
<1>3. Numbered' /\ Own'
  BY <1>0 DEF IInv, TypeOK, Numbered, Known, Own
<1>4. Lines'
  <2>1. ASSUME NEW h \in Caller, h # g
        PROVE  /\ stage'[h] = stage[h]
               /\ line[h] # None => place'[line[h]] = place[line[h]]
    BY <1>0, <1>1, <2>1, ExchangeAssumption DEF IInv, TypeOK, Lines
  <2>2. stage'[g] = "ready" /\ place'[line[g]] = g
    BY <1>0, <1>1 DEF IInv, TypeOK
  <2> QED
    BY <1>0, <2>1, <2>2, ExchangeAssumption DEF IInv, Lines
<1>5. Answers'
  BY <1>0 DEF IInv, TypeOK, Answers
<1> QED
  BY <1>2, <1>3, <1>4, <1>5 DEF IInv

\* A caller that gives up, or whose dial fails, or that puts its connection back.
LEMMA LeaveStep ==
  ASSUME IInv, NEW g \in Caller, DialFails(g) \/ GiveUp(g) \/ Put(g)
  PROVE  IInv'
<1>0. UNCHANGED <<reqID, made, asked, replies>>
  BY DEF DialFails, GiveUp, Put, wire
<1>1. CASE DialFails(g)
  <2>1. /\ stage[g] \in {"dial", "init"} /\ stage' = [stage EXCEPT ![g] = "none"]
        /\ line' = [line EXCEPT ![g] = None] /\ want' = [want EXCEPT ![g] = None]
        /\ reserved' = [reserved EXCEPT ![g] = None] /\ UNCHANGED <<place, got>>
    BY <1>1 DEF DialFails, Abandon
  <2>2. TypeOK' /\ Numbered' /\ Own'
    BY <1>0, <2>1 DEF IInv, TypeOK, Stage, Numbered, Known, Own
  <2>3. Lines' /\ Answers'
    BY <2>1 DEF IInv, TypeOK, Lines, Answers
  <2> QED
    BY <2>2, <2>3 DEF IInv
<1>2. CASE GiveUp(g)
  <2>1. /\ stage[g] \in {"ready", "wait"} /\ stage' = [stage EXCEPT ![g] = "over"]
        /\ UNCHANGED <<place, reserved, line, want, got>>
    BY <1>2 DEF GiveUp, leaseVars
  <2>2. TypeOK' /\ Numbered' /\ Own'
    BY <1>0, <2>1 DEF IInv, TypeOK, Stage, Numbered, Known, Own
  <2>3. Lines' /\ Answers'
    BY <2>1 DEF IInv, TypeOK, Lines, Answers
  <2> QED
    BY <2>2, <2>3 DEF IInv
<1>3. CASE Put(g)
  <2>1. /\ stage[g] = "over" /\ stage' = [stage EXCEPT ![g] = "none"]
        /\ line' = [line EXCEPT ![g] = None] /\ want' = [want EXCEPT ![g] = None]
        /\ got' = [got EXCEPT ![g] = None] /\ UNCHANGED reserved
        /\ \E w \in {Parked, Absent} : place' = [place EXCEPT ![line[g]] = w]
    BY <1>3 DEF Put, PutBack, Park, Discard
  <2>2. line[g] \in Conn
    BY <2>1 DEF IInv, Lines
  <2>3. TypeOK' /\ Numbered' /\ Own'
    BY <1>0, <2>1, <2>2 DEF IInv, TypeOK, Stage, Numbered, Known, Own
  <2>4. Lines'
    <3>1. ASSUME NEW h \in Caller, h # g
          PROVE  /\ stage'[h] = stage[h] /\ line'[h] = line[h]
                 /\ line[h] # None => place'[line[h]] = place[line[h]]
      BY <2>1, <2>2, <3>1, ExchangeAssumption DEF IInv, TypeOK, Lines
    <3>2. stage'[g] = "none" /\ line'[g] = None
      BY <2>1 DEF IInv, TypeOK
    <3> QED
      BY <3>1, <3>2, ExchangeAssumption DEF IInv, Lines
  <2>5. Answers'
    BY <2>1 DEF IInv, TypeOK, Answers
  <2> QED
    BY <2>3, <2>4, <2>5 DEF IInv
<1> QED
  BY <1>1, <1>2, <1>3

\* A process answers or dies.
LEMMA ServerStep ==
  ASSUME IInv, NEW c \in Conn, Dies(c) \/ \E m \in asked[c] : Answer(c, m)
  PROVE  IInv'
<1>0. UNCHANGED <<place, reserved, shut, reqID, made, stage, line, want, got>>
  BY DEF Dies, Answer, leaseVars, callVars
<1>1. /\ asked' \in [Conn -> SUBSET Msg] /\ replies' \in [Conn -> SUBSET Msg]
      /\ \A d \in Conn : asked'[d] \cup replies'[d] \subseteq asked[d] \cup replies[d]
  BY DEF Dies, Answer, IInv, TypeOK
<1>2. TypeOK' /\ Lines' /\ Answers'
  BY <1>0, <1>1 DEF IInv, TypeOK, Lines, Answers
<1>3. Numbered' /\ Own'
  BY <1>0, <1>1 DEF IInv, Numbered, Known, Own
<1> QED
  BY <1>2, <1>3 DEF IInv

LEMMA NextIInv == IInv /\ [Next]_vars => IInv'
<1> SUFFICES ASSUME IInv, [Next]_vars PROVE IInv'
  OBVIOUS
<1>1. CASE \E g \in Caller, s \in Server : GetParked(g, s) \/ GetNew(g, s)
  BY <1>1, GetParkedStep, GetNewStep
<1>2. CASE \E g \in Caller, c \in Conn : StartProcess(g, c)
  BY <1>2, StartProcessStep
<1>3. CASE \E g \in Caller : \E r \in Unread(g) : Initialized(g, r) \/ Return(g, r) \/ Skip(g, r)
  BY <1>3, InitializedStep, ReadStep
<1>4. CASE \E g \in Caller : DialFails(g) \/ Send(g) \/ GiveUp(g) \/ Put(g)
  BY <1>4, LeaveStep, SendStep
<1>5. CASE \E c \in Conn : Dies(c) \/ \E m \in asked[c] : Answer(c, m)
  BY <1>5, ServerStep
<1>6. CASE PoolMoves
  BY <1>6, PoolStep
<1>7. CASE UNCHANGED vars
  BY <1>7 DEF vars, leaseVars, callVars, wire, IInv, TypeOK, Numbered, Known, Lines, Own, Answers
<1> QED
  BY <1>1, <1>2, <1>3, <1>4, <1>5, <1>6, <1>7 DEF Next

LEMMA Invariance == Spec => []IInv
<1>1. Init => IInv
  BY InitIInv
<1>2. IInv /\ [Next]_vars => IInv'
  BY NextIInv
<1> QED
  BY <1>1, <1>2, PTL DEF Spec

\* The types of the calls and the connections are kept (TypeOK).
THEOREM TypeCorrect == Spec => []TypeOK
BY Invariance, PTL DEF IInv

\* A caller only ever returns the reply to its own request, however late the
\* replies to the requests of others come over the same connection.
THEOREM RepliesMatch == Spec => []ReplyIsMine
<1>1. IInv => ReplyIsMine
  BY DEF IInv, Answers, ReplyIsMine
<1> QED
  BY <1>1, Invariance, PTL

\* A reply that is taken off a connection while a caller goes on waiting for it.
Stolen ==
    \E c \in Conn : \E r \in replies[c] \ replies'[c] : \E g \in Caller :
       stage[g] \in {"init", "wait"} /\ want[g] = r /\ stage'[g] = stage[g]

\* No step takes a reply off its connection but the one of the caller that asked.
LEMMA NothingStolen == IInv /\ [Next]_vars => ~Stolen
<1> SUFFICES ASSUME IInv, [Next]_vars, NEW c \in Conn, NEW r \in replies[c] \ replies'[c],
                    NEW g \in Caller, stage[g] \in {"init", "wait"}, want[g] = r,
                    stage'[g] = stage[g]
             PROVE  FALSE
  BY DEF Stolen
<1>0. line[g] = c /\ c # None /\ want[g] # None
  BY ExchangeAssumption DEF IInv, Own, Answers
<1>1. ASSUME NEW h \in Caller, NEW d \in Conn, StartProcess(h, d) PROVE FALSE
  BY <1>0, <1>1 DEF StartProcess, IInv, TypeOK
<1>2. ASSUME NEW h \in Caller, NEW m \in Unread(h),
             Initialized(h, m) \/ Return(h, m) \/ Skip(h, m)
      PROVE  FALSE
  <2>1. want[h] # None /\ replies' = [replies EXCEPT ![line[h]] = @ \ {m}]
    BY <1>2 DEF Initialized, Return, Skip, IInv, Answers
  <2>2. line[h] \in Conn /\ (Matches(want[h], m) <=> m = want[h])
    BY <2>1, MatchIsSame
  <2>3. c = line[h] /\ m = r
    BY <2>1, <2>2 DEF IInv, TypeOK
  <2>4. h = g
    BY <2>3, <1>0 DEF IInv, Lines
  <2>5. ~Skip(h, m)
    BY <2>2, <2>3, <2>4 DEF Skip
  <2>6. stage'[g] # stage[g]
    BY <2>4, <2>5, <1>2 DEF Initialized, Return, IInv, TypeOK
  <2> QED
    BY <2>6
<1>3. CASE UNCHANGED replies
  BY <1>3
<1>4. ASSUME NEW d \in Conn, NEW m \in asked[d], Answer(d, m) PROVE FALSE
  BY <1>4 DEF Answer, IInv, TypeOK
<1>5. CASE \E h \in Caller, s \in Server : GetParked(h, s) \/ GetNew(h, s)
  BY <1>3, <1>5 DEF GetParked, GetNew, wire
<1>6. CASE \E h \in Caller : DialFails(h) \/ Send(h) \/ GiveUp(h) \/ Put(h)
  BY <1>3, <1>6 DEF DialFails, Send, GiveUp, Put, wire
<1>7. CASE PoolMoves \/ UNCHANGED vars \/ \E d \in Conn : Dies(d)
  BY <1>3, <1>7 DEF PoolMoves, vars, wire, Dies
<1> QED
  BY <1>1, <1>2, <1>4, <1>5, <1>6, <1>7 DEF Next

\* A reply that is taken off a connection is not one that another caller, or the
\* same one, goes on waiting for.
THEOREM RepliesReachTheirCaller == Spec => NoReplyStolen
<1>1. ~Stolen => \A c \in Conn : \A r \in replies[c] \ replies'[c] : \A g \in Caller :
                    stage[g] \in {"init", "wait"} /\ want[g] = r => stage'[g] # stage[g]
  BY DEF Stolen
<1> QED
  BY <1>1, NothingStolen, Invariance, PTL DEF Spec, NoReplyStolen
-----------------------------------------------------------------------------
(* Over the hub: every line hears all the requests of the proxy answered.  *)

\* What a line may get: replies to requests of this proxy, or number 0.
HubMsg == [id : 1..MaxID, number : 0..MaxID]

HubTypes ==
    /\ reqID \in 0..MaxID /\ made \in 0..MaxID
    /\ stage \in [Caller -> Stage] /\ line \in [Caller -> Conn \cup {None}]
    /\ want \in [Caller -> Msg \cup {None}] /\ got = [g \in Caller |-> None]
    /\ pending \subseteq Msg /\ inbox \in [Conn -> SUBSET HubMsg]
    /\ heard \in [Caller -> HubMsg \cup {None}]

\* A request that is waited for, or that was or will be answered.
Alive(m) ==
    \/ m \in pending
    \/ \E c \in Conn : m \in inbox[c]
    \/ \E g \in Caller : want[g] = m

\* The initialize requests all have the id 1; among the others an id tells two
\* requests apart, and the next id is new.
Distinct ==
    /\ \A m, n \in Msg : Alive(m) /\ Alive(n) /\ m.id = n.id /\ m.id # 1 => m = n
    /\ \A m \in Msg : Alive(m) => m.id <= reqID \/ m.id = 1

\* A caller waits for a request, and has a reply only when it is over.
HubAnswers ==
    \A g \in Caller :
        /\ stage[g] \in {"init", "wait"} => want[g] \in Msg
        /\ heard[g] # None =>
              /\ stage[g] = "over"
              /\ heard[g] = want[g] \/ heard[g].number = 0 \/ heard[g].id = 1

HubInv == HubTypes /\ Distinct /\ HubAnswers

\* The hub is not used, or its lines are the only ones used.
HInv ==
    IF viaHub THEN HubInv ELSE IInv /\ heard = [g \in Caller |-> None]

\* Steps that make no request: messages go, and none that was not alive comes.
LEMMA DistinctKept ==
  ASSUME Distinct, UNCHANGED reqID, \A m \in Msg : Alive(m)' => Alive(m)
  PROVE  Distinct'
BY DEF Distinct

\* The initialize request of a new line, or a request with the next id.
LEMMA DistinctNew ==
  ASSUME Distinct, HubTypes, NEW new \in Msg,
         \/ new.id = 1 /\ reqID' = reqID
         \/ new.id = reqID + 1 /\ reqID' = reqID + 1,
         \A m \in Msg : Alive(m)' => m = new \/ Alive(m)
  PROVE  Distinct'
<1>1. reqID \in Nat /\ reqID <= reqID'
  BY DEF HubTypes
<1>2. \A m \in Msg : m.id \in Nat
  BY DEF Msg
<1> QED
  BY <1>1, <1>2 DEF Distinct

\* A step that makes no request, and after which nobody waits who did not before.
LocalOnly ==
    /\ stage' \in [Caller -> Stage] /\ line' \in [Caller -> Conn \cup {None}]
    /\ want' \in [Caller -> Msg \cup {None}]
    /\ \A g \in Caller : /\ want'[g] # want[g] => want'[g] = None /\ stage'[g] = "none"
                         /\ stage[g] = "over" => stage'[g] = "over" /\ want'[g] = want[g]
                         /\ stage'[g] \in {"init", "wait"} => stage'[g] = stage[g]

\* Steps of the pool, and of a caller that leaves: no message moves.
LEMMA HubCallerStep ==
  ASSUME HubInv, UNCHANGED hubVars,
         \/ \E g \in Caller, s \in Server : GetParked(g, s) \/ GetNew(g, s)
         \/ \E g \in Caller : DialFails(g) \/ GiveUp(g)
         \/ PoolMoves
  PROVE  HubInv'
<1> USE DEF HubInv, hubVars
<1>1. UNCHANGED <<reqID, made, got>>
  BY DEF GetParked, GetNew, DialFails, GiveUp, PoolMoves, callVars
<1>2. LocalOnly
  <2>1. ASSUME NEW g \in Caller, NEW s \in Server, GetParked(g, s) PROVE LocalOnly
    BY <2>1 DEF LocalOnly, GetParked, HubTypes, Stage
  <2>2. ASSUME NEW g \in Caller, NEW s \in Server, GetNew(g, s) PROVE LocalOnly
    BY <2>2 DEF LocalOnly, GetNew, HubTypes, Stage
  <2>3. ASSUME NEW g \in Caller, DialFails(g) PROVE LocalOnly
    BY <2>3 DEF LocalOnly, DialFails, HubTypes, Stage
  <2>4. ASSUME NEW g \in Caller, GiveUp(g) PROVE LocalOnly
    BY <2>4 DEF LocalOnly, GiveUp, HubTypes, Stage
  <2>5. CASE PoolMoves
    BY <2>5 DEF LocalOnly, PoolMoves, callVars, HubTypes
  <2> QED
    BY <2>1, <2>2, <2>3, <2>4, <2>5
<1>3. HubTypes'
  BY <1>1, <1>2 DEF HubTypes, LocalOnly
<1>4. \A m \in Msg : Alive(m)' => Alive(m)
  BY <1>2, ExchangeAssumption DEF Alive, LocalOnly
<1>5. HubAnswers'
  BY <1>2, ExchangeAssumption DEF HubAnswers, HubTypes, LocalOnly
<1> QED
  BY <1>1, <1>3, <1>4, <1>5, DistinctKept

\* Steps that make a request: its number is new, and its id is 1 or new.
LEMMA HubAskStep ==
  ASSUME HubInv, NEW g \in Caller, HubSend(g) \/ \E c \in Conn : HubDial(g, c)
  PROVE  HubInv'
<1> USE DEF HubInv
<1>1. PICK new \in Msg :
        /\ want' = [want EXCEPT ![g] = new] /\ pending' = pending \cup {new}
        /\ \/ new.id = 1 /\ reqID' = reqID
           \/ new.id = reqID + 1 /\ reqID' = reqID + 1
  <2>1. CASE HubSend(g)
    <3>1. /\ Request = [id |-> reqID + 1, number |-> made + 1]
          /\ reqID < MaxID /\ made < MaxID
      BY <2>1 DEF HubSend, Ask, Request, nextID
    <3>2. Request \in Msg
      BY <3>1, ExchangeAssumption DEF HubTypes, Msg
    <3> QED
      BY <2>1, <3>1, <3>2 DEF HubSend, Ask
  <2>2. ASSUME NEW c \in Conn, HubDial(g, c)
        PROVE  \E new \in Msg :
                 /\ want' = [want EXCEPT ![g] = new] /\ pending' = pending \cup {new}
                 /\ new.id = 1 /\ reqID' = reqID
    <3> DEFINE new == [id |-> 1, number |-> made + 1]
    <3>1. want' = [want EXCEPT ![g] = new] /\ made < MaxID /\ reqID' = reqID
          /\ pending' = pending \cup {want'[g]}
      BY <2>2 DEF HubDial
    <3>2. new \in Msg
      BY <3>1, ExchangeAssumption DEF HubTypes, Msg
    <3>3. want'[g] = new
      BY <3>1 DEF HubTypes
    <3> QED
      BY <3>1, <3>2, <3>3
  <2> QED
    BY <2>1, <2>2
<1>2. /\ stage[g] \in {"dial", "ready"} /\ UNCHANGED <<got, heard>>
      /\ stage' \in [Caller -> Stage] /\ line' \in [Caller -> Conn \cup {None}]
      /\ reqID' \in 0..MaxID /\ made' \in 0..MaxID
      /\ inbox' \in [Conn -> SUBSET HubMsg]
      /\ \A h \in Caller : h # g => stage'[h] = stage[h]
      /\ \A c \in Conn : inbox'[c] \subseteq inbox[c]
  <2>1. CASE HubSend(g)
    BY <2>1, ExchangeAssumption DEF HubSend, Ask, HubTypes, Stage
  <2>2. ASSUME NEW c \in Conn, HubDial(g, c)
        PROVE  /\ reqID' = reqID /\ made' = made + 1 /\ made < MaxID
               /\ stage[g] = "dial" /\ UNCHANGED <<got, heard>>
               /\ stage' = [stage EXCEPT ![g] = "init"] /\ line' = [line EXCEPT ![g] = c]
               /\ inbox' = [inbox EXCEPT ![c] = {}]
    BY <2>2 DEF HubDial
  <2> QED
    BY <2>1, <2>2, ExchangeAssumption DEF HubTypes, Stage
<1>3. HubTypes'
  BY <1>1, <1>2 DEF HubTypes
<1>4. \A m \in Msg : Alive(m)' => m = new \/ Alive(m)
  BY <1>1, <1>2 DEF Alive, HubTypes
<1>5. HubAnswers'
  BY <1>1, <1>2 DEF HubAnswers, HubTypes
<1>6. Distinct'
  BY <1>1, <1>4, DistinctNew
<1> QED
  BY <1>3, <1>5, <1>6

\* What a caller reads from its line.
LEMMA HubReadStep ==
  ASSUME HubInv, NEW g \in Caller, NEW r \in Arrived(g),
         HubInitialized(g, r) \/ HubReturn(g, r) \/ HubSkip(g, r)
  PROVE  HubInv'
<1> USE DEF HubInv
<1>1. line[g] \in Conn /\ r \in inbox[line[g]] /\ r \in HubMsg
  BY DEF Arrived, HubTypes
<1>2. /\ UNCHANGED <<reqID, made, line, got, pending>>
      /\ inbox' \in [Conn -> SUBSET HubMsg]
      /\ \A c \in Conn : inbox'[c] \subseteq inbox[c]
  BY <1>1 DEF HubInitialized, HubReturn, HubSkip, Read, HubTypes, callVars
<1>3. CASE HubInitialized(g, r) \/ HubSkip(g, r)
  <2>1. /\ heard' = heard
        /\ \/ UNCHANGED <<stage, want>>
           \/ /\ stage[g] = "init" /\ stage' = [stage EXCEPT ![g] = "ready"]
              /\ want' = [want EXCEPT ![g] = None]
    BY <1>3 DEF HubInitialized, HubSkip, callVars
  <2>2. HubTypes'
    BY <1>2, <2>1 DEF HubTypes, Stage
  <2>3. \A m \in Msg : Alive(m)' => Alive(m)
    BY <1>2, <2>1, ExchangeAssumption DEF Alive, HubTypes
  <2>4. HubAnswers'
    BY <2>1 DEF HubAnswers, HubTypes
  <2> QED
    BY <1>2, <2>2, <2>3, <2>4, DistinctKept
<1>4. CASE HubReturn(g, r)
  <2>1. /\ stage[g] = "wait" /\ stage' = [stage EXCEPT ![g] = "over"]
        /\ heard' = [heard EXCEPT ![g] = r] /\ want' = want
        /\ r.id = want[g].id
    BY <1>4 DEF HubReturn, Matches
  <2>2. r = want[g] \/ r.number = 0 \/ r.id = 1
    <3>1. want[g] \in Msg /\ Alive(want[g]) /\ Alive(r)
      BY <1>1, <2>1 DEF HubAnswers, Alive
    <3>2. r.number # 0 => r \in Msg
      BY <1>1, ExchangeAssumption DEF HubMsg, Msg
    <3> QED
      BY <2>1, <3>1, <3>2 DEF Distinct
  <2>3. HubTypes'
    BY <1>1, <1>2, <2>1 DEF HubTypes, Stage
  <2>4. \A m \in Msg : Alive(m)' => Alive(m)
    BY <1>2, <2>1 DEF Alive
  <2>5. HubAnswers'
    BY <2>1, <2>2 DEF HubAnswers, HubTypes
  <2> QED
    BY <1>2, <2>3, <2>4, <2>5, DistinctKept
<1> QED
  BY <1>3, <1>4

\* What the host does, and the return of a line to the pool.
LEMMA HubHostStep ==
  ASSUME HubInv,
         \/ \E m \in pending : HostAnswers(m)
         \/ \E i \in OthersID : HostAnswersOthers(i)
         \/ HostGone
         \/ \E g \in Caller : HubPut(g)
  PROVE  HubInv'
<1> USE DEF HubInv
<1>1. ASSUME NEW m \in HubMsg, Broadcast(m),
             UNCHANGED <<reqID, made, stage, line, want, got, heard>>,
             pending' \subseteq pending, m \in Msg => Alive(m)
      PROVE  HubInv'
  <2>1. /\ inbox' \in [Conn -> SUBSET HubMsg]
        /\ \A c \in Conn : inbox'[c] \subseteq inbox[c] \cup {m}
    BY <1>1 DEF Broadcast, HubTypes
  <2>2. HubTypes' /\ HubAnswers'
    BY <1>1, <2>1 DEF HubTypes, HubAnswers
  <2>3. \A n \in Msg : Alive(n)' => Alive(n)
    BY <1>1, <2>1 DEF Alive
  <2> QED
    BY <1>1, <2>2, <2>3, DistinctKept
<1>2. ASSUME NEW m \in pending, HostAnswers(m) PROVE HubInv'
  <2>1. m \in HubMsg /\ Alive(m) /\ Broadcast(m) /\ pending' \subseteq pending
    BY <1>2, ExchangeAssumption DEF HubTypes, HostAnswers, Alive, HubMsg, Msg
  <2>2. UNCHANGED <<reqID, made, stage, line, want, got, heard>>
    BY <1>2 DEF HostAnswers, callVars
  <2> QED
    BY <1>1, <2>1, <2>2
<1>3. ASSUME NEW i \in OthersID, HostAnswersOthers(i) PROVE HubInv'
  <2>1. Foreign(i) \in HubMsg /\ Foreign(i) \notin Msg
    BY HubExchangeAssumption, ExchangeAssumption DEF Foreign, HubMsg, Msg
  <2>2. Broadcast(Foreign(i)) /\ UNCHANGED <<reqID, made, stage, line, want, got, heard, pending>>
    BY <1>3 DEF HostAnswersOthers, callVars
  <2> QED
    BY <1>1, <2>1, <2>2
<1>4. CASE HostGone
  <2>1. pending' = {} /\ UNCHANGED <<reqID, made, stage, line, want, got, inbox, heard>>
    BY <1>4 DEF HostGone, callVars
  <2>2. HubTypes' /\ HubAnswers' /\ \A m \in Msg : Alive(m)' => Alive(m)
    BY <2>1 DEF HubTypes, HubAnswers, Alive
  <2> QED
    BY <2>1, <2>2, DistinctKept
<1>5. ASSUME NEW g \in Caller, HubPut(g) PROVE HubInv'
  <2>1. /\ stage' = [stage EXCEPT ![g] = "none"] /\ line' = [line EXCEPT ![g] = None]
        /\ want' = [want EXCEPT ![g] = None] /\ got' = [got EXCEPT ![g] = None]
        /\ heard' = [heard EXCEPT ![g] = None] /\ UNCHANGED <<reqID, made, pending, inbox>>
    BY <1>5 DEF HubPut, Put
  <2>2. HubTypes'
    BY <2>1 DEF HubTypes, Stage
  <2>3. HubAnswers' /\ \A m \in Msg : Alive(m)' => Alive(m)
    BY <2>1, ExchangeAssumption DEF HubTypes, HubAnswers, Alive
  <2> QED
    BY <2>1, <2>2, <2>3, DistinctKept
<1> QED
  BY <1>2, <1>3, <1>4, <1>5

\* Every step of the proxy, whichever backend its router has chosen.
LEMMA NextHInv == HInv /\ [HNext]_<<vars, viaHub, hubVars>> => HInv'
<1> SUFFICES ASSUME HInv, [HNext]_<<vars, viaHub, hubVars>> PROVE HInv'
  OBVIOUS
<1>1. viaHub' = viaHub
  BY DEF HNext
<1>2. CASE viaHub /\ HubNext
  <2>1. HubInv
    BY <1>2 DEF HInv
  <2>2. HubInv'
    BY <1>2, <2>1, HubCallerStep, HubAskStep, HubReadStep, HubHostStep DEF HubNext
  <2> QED
    BY <1>1, <1>2, <2>2 DEF HInv
<1>3. CASE ~viaHub /\ [Next]_vars /\ UNCHANGED hubVars
  BY <1>1, <1>3, NextIInv DEF HInv, hubVars
<1>4. CASE viaHub /\ UNCHANGED <<vars, hubVars>>
  BY <1>1, <1>4 DEF HInv, HubInv, HubTypes, Distinct, Alive, HubAnswers, vars, callVars, hubVars
<1> QED
  BY <1>2, <1>3, <1>4 DEF HNext

LEMMA HubInvariance == HSpec => []HInv
<1>1. HInit => HInv
  <2> SUFFICES ASSUME HInit PROVE HInv
    OBVIOUS
  <2>1. IInv /\ heard = [g \in Caller |-> None]
    BY InitIInv DEF HInit
  <2>2. HubTypes
    BY <2>1, ExchangeAssumption DEF HInit, Init, HubTypes, Stage
  <2>3. Distinct /\ HubAnswers
    BY ExchangeAssumption DEF HInit, Init, Distinct, Alive, HubAnswers
  <2> QED
    BY <2>1, <2>2, <2>3 DEF HInv, HubInv
<1> QED
  BY <1>1, NextHInv, PTL DEF HSpec

\* Though the hub sends every reply to every line, and late ones too, a caller
\* takes none for its own but what the code cannot tell apart: the reply to the
\* same id of another proxy, and to an initialize for the request with the id 1.
THEOREM HubRepliesMatch == HSpec => []HubReplyIsMine
<1>1. HInv => HubReplyIsMine
  BY DEF HInv, HubInv, HubAnswers, HubReplyIsMine
<1> QED
  BY <1>1, HubInvariance, PTL

\* With either backend a caller returns no reply of a local process but its own.
THEOREM EitherRepliesMatch == HSpec => []ReplyIsMine
<1>1. HInv => ReplyIsMine
  BY DEF HInv, HubInv, HubTypes, IInv, Answers, ReplyIsMine
<1> QED
  BY <1>1, HubInvariance, PTL

\* With either backend no reply of a local process is lost to the caller that
\* waits for it.
THEOREM EitherReachTheirCaller == HSpec => NoReplyStolen
<1>1. HInv /\ [HNext]_<<vars, viaHub, hubVars>> => ~Stolen
  <2> SUFFICES ASSUME HInv, [HNext]_<<vars, viaHub, hubVars>> PROVE ~Stolen
    OBVIOUS
  <2>1. CASE ~viaHub
    BY <2>1, NothingStolen DEF HInv, HNext
  <2>2. CASE viaHub
    <3>1. replies' = replies
      BY <2>2 DEF HNext, HubNext, GetParked, GetNew, DialFails, GiveUp, PoolMoves, HubDial,
           HubInitialized, HubReturn, HubSkip, HubSend, HubPut, Put, HostAnswers,
           HostAnswersOthers, HostGone, vars, wire
    <3> QED
      BY <3>1 DEF Stolen
  <2> QED
    BY <2>1, <2>2
<1>2. ~Stolen => \A c \in Conn : \A r \in replies[c] \ replies'[c] : \A g \in Caller :
                    stage[g] \in {"init", "wait"} /\ want[g] = r => stage'[g] # stage[g]
  BY DEF Stolen
<1> QED
  BY <1>1, <1>2, HubInvariance, PTL DEF HSpec, NoReplyStolen

-----------------------------------------------------------------------------
(* What the proxy does to the pool is what the pool allows, with either      *)
(* backend: its steps are steps of PoolLease or leave the leases alone.      *)

LeaseTypes ==
    /\ place \in [Conn -> {Absent, Parked} \cup Caller]
    /\ reserved \in [Caller -> Server \cup {None}]

\* A caller has a reservation during the dial and at no other time, and the line
\* it opens is to the server it has reserved room at.
Dialling ==
    \A g \in Caller :
        /\ reserved[g] # None <=> stage[g] \in {"dial", "init"}
        /\ stage[g] = "init" => ServerOf(line[g]) = reserved[g]

Seated ==
    /\ LeaseTypes /\ stage \in [Caller -> Stage] /\ line \in [Caller -> Conn \cup {None}]
    /\ Lines /\ Dialling

\* What the steps of both backends do to the leases, the stages and the lines.
LineUp(g, c) ==
    /\ stage[g] = "dial" /\ c \in Of(reserved[g]) /\ place[c] = Absent
    /\ \A h \in Caller : line[h] # c
    /\ stage' = [stage EXCEPT ![g] = "init"] /\ line' = [line EXCEPT ![g] = c]
    /\ UNCHANGED leaseVars

LineReady(g) ==
    /\ stage[g] = "init" /\ Open(g) /\ place'[line[g]] = g
    /\ stage' = [stage EXCEPT ![g] = "ready"] /\ line' = line

Talks ==
    /\ UNCHANGED <<leaseVars, line>>
    /\ \/ UNCHANGED stage
       \/ \E g \in Caller, next \in {"wait", "over"} :
             stage[g] \in {"ready", "wait"} /\ stage' = [stage EXCEPT ![g] = next]

Seating ==
    \/ \E g \in Caller, s \in Server : GetParked(g, s) \/ GetNew(g, s)
    \/ \E g \in Caller : LineReady(g) \/ DialFails(g) \/ Put(g)
    \/ \E g \in Caller, c \in Conn : LineUp(g, c)
    \/ PoolMoves
    \/ Talks

LEMMA LocalSeating == [Next]_vars => Seating
<1> SUFFICES ASSUME [Next]_vars PROVE Seating
  OBVIOUS
<1>1. ASSUME NEW g \in Caller, NEW c \in Conn, StartProcess(g, c) PROVE Seating
  BY <1>1 DEF StartProcess, Seating, LineUp
<1>2. ASSUME NEW g \in Caller, NEW r \in Unread(g), Initialized(g, r) PROVE Seating
  BY <1>2 DEF Initialized, Seating, LineReady
<1>3. ASSUME NEW g \in Caller, Send(g) \/ GiveUp(g) \/ \E r \in Unread(g) : Return(g, r)
      PROVE  Talks
  BY <1>3 DEF Send, GiveUp, Return, Talks
<1>4. CASE \/ UNCHANGED vars
           \/ \E g \in Caller : \E r \in Unread(g) : Skip(g, r)
           \/ \E c \in Conn : Dies(c) \/ \E m \in asked[c] : Answer(c, m)
  BY <1>4 DEF vars, callVars, Skip, Dies, Answer, Talks, Seating
<1> QED
  BY <1>1, <1>2, <1>3, <1>4 DEF Next, Seating

LEMMA HubSeating == HubNext => Seating
<1> SUFFICES ASSUME HubNext PROVE Seating
  OBVIOUS
<1>1. ASSUME NEW g \in Caller, NEW c \in Conn, HubDial(g, c) PROVE Seating
  <2>1. c \in Of(reserved[g]) /\ place[c] = Absent /\ \A h \in Caller : line[h] # c
    BY <1>1 DEF HubDial, Attached
  <2> QED
    BY <1>1, <2>1 DEF HubDial, Seating, LineUp
<1>2. ASSUME NEW g \in Caller, NEW r \in Arrived(g), HubInitialized(g, r) PROVE Seating
  BY <1>2 DEF HubInitialized, Seating, LineReady
<1>3. ASSUME NEW g \in Caller, HubSend(g) \/ GiveUp(g) \/ \E r \in Arrived(g) : HubReturn(g, r)
      PROVE  Talks
  BY <1>3 DEF HubSend, GiveUp, HubReturn, Talks
<1>4. CASE \/ \E g \in Caller : \E r \in Arrived(g) : HubSkip(g, r)
           \/ \E m \in pending : HostAnswers(m)
           \/ \E i \in OthersID : HostAnswersOthers(i)
           \/ HostGone
  BY <1>4 DEF HubSkip, HostAnswers, HostAnswersOthers, HostGone, callVars, Talks, Seating
<1>5. ASSUME NEW g \in Caller, HubPut(g) PROVE Put(g)
  BY <1>5 DEF HubPut
<1> QED
  BY <1>1, <1>2, <1>3, <1>4, <1>5 DEF HubNext, Seating

LEMMA EverySeating == [HNext]_<<vars, viaHub, hubVars>> => Seating
<1>1. ASSUME UNCHANGED vars PROVE Seating
  BY <1>1, LocalSeating
<1> QED
  BY <1>1, LocalSeating, HubSeating DEF HNext

\* The caller that Open leaves with a connection has the one on its line.
LEMMA OpenedOwn ==
  ASSUME Seated, NEW g \in Caller, LineReady(g)
  PROVE  /\ line[g] \in Conn /\ place' = [place EXCEPT ![line[g]] = g]
         /\ reserved' = [reserved EXCEPT ![g] = None]
<1>1. line[g] \in Conn /\ place[line[g]] = Absent /\ place'[line[g]] = g
  BY DEF LineReady, Seated, Lines
<1>2. PICK c \in Conn : place' = [place EXCEPT ![c] = g]
  BY DEF LineReady, Open, Of
<1>3. c = line[g]
  BY <1>1, <1>2, ExchangeAssumption DEF Seated, LeaseTypes
<1> QED
  BY <1>1, <1>2, <1>3 DEF LineReady, Open

\* What the pool does with parked connections leaves the seats as they are.
LEMMA ParkedSeats ==
  ASSUME Seated, place' \in [Conn -> {Absent, Parked} \cup Caller],
         \A c \in Conn : place[c] # Parked => place'[c] = place[c],
         UNCHANGED <<reserved, stage, line>>
  PROVE  Seated'
<1>1. Lines'
  BY ExchangeAssumption DEF Seated, Lines
<1> QED
  BY <1>1 DEF Seated, LeaseTypes, Dialling

LEMMA SeatedStep == Seated /\ Seating => Seated'
<1> SUFFICES ASSUME Seated, Seating PROVE Seated'
  OBVIOUS
<1> USE DEF Seated
<1>1. ASSUME NEW g \in Caller, NEW s \in Server, GetParked(g, s) PROVE Seated'
  <2>0. UNCHANGED reserved /\ stage[g] = "none" /\ stage' = [stage EXCEPT ![g] = "ready"]
    BY <1>1 DEF GetParked, Reuse
  <2>1. PICK c \in ParkedAt(s), D \in SUBSET ParkedAt(s) :
          c \notin D /\ place' = [Drop(place, D) EXCEPT ![c] = g]
    BY <1>1 DEF GetParked, Reuse
  <2>2. c \in Conn /\ place[c] = Parked /\ \A d \in D : place[d] = Parked
    BY DEF ParkedAt, Of
  <2>3. \A d \in Conn : place[d] # g
    BY <1>1 DEF GetParked, Reuse, Unserved
  <2>4. /\ place' \in [Conn -> {Absent, Parked} \cup Caller]
        /\ place'[c] = g /\ \A d \in Conn : d # c => place'[d] # g
        /\ \A d \in Conn : place[d] # Parked => place'[d] = place[d]
    BY <2>1, <2>2, <2>3, ExchangeAssumption DEF Drop, LeaseTypes
  <2>5. line' = [line EXCEPT ![g] = c]
    BY <1>1, <2>4 DEF GetParked
  <2>6. \A h \in Caller : line[h] # c
    BY <2>2, ExchangeAssumption DEF Lines, Stage
  <2>7. LeaseTypes' /\ stage' \in [Caller -> Stage] /\ line' \in [Caller -> Conn \cup {None}]
    BY <2>0, <2>2, <2>4, <2>5 DEF LeaseTypes, Stage
  <2>8. Dialling'
    BY <2>0, <2>5 DEF Dialling
  <2>9. ASSUME NEW h \in Caller
        PROVE /\ stage'[h] \in {"none", "dial"} => line'[h] = None
              /\ stage'[h] = "init" => line'[h] \in Conn /\ place'[line'[h]] = Absent
              /\ stage'[h] \in {"ready", "wait", "over"} =>
                    line'[h] \in Conn /\ place'[line'[h]] = h
    <3>1. CASE h = g
      BY <3>1, <2>0, <2>2, <2>4, <2>5
    <3>2. CASE h # g
      <4>1. stage'[h] = stage[h] /\ line'[h] = line[h]
        BY <3>2, <2>0, <2>5
      <4> QED
        BY <4>1, <2>4, ExchangeAssumption DEF Lines
    <3> QED
      BY <3>1, <3>2
  <2>10. \A h, i \in Caller : line'[h] # None /\ line'[h] = line'[i] => h = i
    BY <2>5, <2>6 DEF Lines
  <2> QED
    BY <2>7, <2>8, <2>9, <2>10 DEF Lines
<1>2. ASSUME NEW g \in Caller, NEW s \in Server, GetNew(g, s) PROVE Seated'
  <2>0. /\ line' = line /\ stage[g] = "none" /\ stage' = [stage EXCEPT ![g] = "dial"]
        /\ reserved' = [reserved EXCEPT ![g] = s] /\ s # None
    BY <1>2, ExchangeAssumption DEF GetNew, Reserve
  <2>1. PICK D \in SUBSET ParkedAt(s) : place' = Drop(place, D)
    BY <1>2 DEF GetNew, Reserve
  <2>2. /\ place' \in [Conn -> {Absent, Parked} \cup Caller]
        /\ \A c \in Conn : place[c] # Parked => place'[c] = place[c]
    BY <2>1 DEF Drop, ParkedAt, Of, LeaseTypes
  <2>3. LeaseTypes' /\ stage' \in [Caller -> Stage] /\ line' \in [Caller -> Conn \cup {None}]
    BY <2>0, <2>2 DEF LeaseTypes, Stage
  <2>4. Lines'
    BY <2>0, <2>2, ExchangeAssumption DEF Lines, Stage
  <2>5. Dialling'
    BY <2>0 DEF Dialling, LeaseTypes
  <2> QED
    BY <2>3, <2>4, <2>5
<1>3. ASSUME NEW g \in Caller, LineReady(g) PROVE Seated'
  <2>1. /\ line[g] \in Conn /\ place' = [place EXCEPT ![line[g]] = g]
        /\ reserved' = [reserved EXCEPT ![g] = None] /\ stage[g] = "init"
        /\ stage' = [stage EXCEPT ![g] = "ready"] /\ line' = line
    BY <1>3, OpenedOwn DEF LineReady
  <2>2. LeaseTypes' /\ stage' \in [Caller -> Stage] /\ Dialling'
    BY <2>1 DEF LeaseTypes, Stage, Dialling
  <2>3. Lines'
    BY <2>1, ExchangeAssumption DEF Lines, LeaseTypes
  <2> QED
    BY <2>1, <2>2, <2>3
<1>4. ASSUME NEW g \in Caller, DialFails(g) PROVE Seated'
  <2>1. /\ reserved' = [reserved EXCEPT ![g] = None] /\ place' = place
        /\ stage' = [stage EXCEPT ![g] = "none"] /\ line' = [line EXCEPT ![g] = None]
    BY <1>4 DEF DialFails, Abandon
  <2>2. LeaseTypes' /\ stage' \in [Caller -> Stage] /\ line' \in [Caller -> Conn \cup {None}]
    BY <2>1 DEF LeaseTypes, Stage
  <2>3. Lines' /\ Dialling'
    BY <2>1, ExchangeAssumption DEF Lines, Dialling, LeaseTypes
  <2> QED
    BY <2>2, <2>3
<1>5. ASSUME NEW g \in Caller, Put(g) PROVE Seated'
  <2>1. /\ stage[g] = "over" /\ line[g] \in Conn /\ place[line[g]] = g
        /\ stage' = [stage EXCEPT ![g] = "none"] /\ line' = [line EXCEPT ![g] = None]
        /\ reserved' = reserved
        /\ place' = [place EXCEPT ![line[g]] = Parked] \/ place' = [place EXCEPT ![line[g]] = Absent]
    BY <1>5 DEF Put, PutBack, Park, Discard, Lines
  <2>2. LeaseTypes' /\ stage' \in [Caller -> Stage] /\ line' \in [Caller -> Conn \cup {None}]
    BY <2>1 DEF LeaseTypes, Stage
  <2>3. Dialling'
    BY <2>1 DEF Dialling
  <2>4. Lines'
    BY <2>1, ExchangeAssumption DEF Lines, LeaseTypes
  <2> QED
    BY <2>2, <2>3, <2>4
<1>6. ASSUME NEW g \in Caller, NEW c \in Conn, LineUp(g, c) PROVE Seated'
  <2>1. /\ stage[g] = "dial" /\ ServerOf(c) = reserved[g] /\ place[c] = Absent
        /\ \A h \in Caller : line[h] # c
        /\ stage' = [stage EXCEPT ![g] = "init"] /\ line' = [line EXCEPT ![g] = c]
        /\ UNCHANGED <<place, reserved>>
    BY <1>6 DEF LineUp, Of, leaseVars
  <2>2. LeaseTypes' /\ stage' \in [Caller -> Stage] /\ line' \in [Caller -> Conn \cup {None}]
    BY <2>1 DEF LeaseTypes, Stage
  <2>3. Lines' /\ Dialling'
    BY <2>1, ExchangeAssumption DEF Lines, Dialling
  <2> QED
    BY <2>2, <2>3
<1>7. CASE PoolMoves
  <2>1. UNCHANGED <<reserved, stage, line>>
    BY <1>7 DEF PoolMoves, Evict, Shut, callVars
  <2>2. PICK D \in SUBSET {c \in Conn : place[c] = Parked} : place' = Drop(place, D)
    BY <1>7 DEF PoolMoves, Evict, Shut
  <2> QED
    BY <2>1, <2>2, ParkedSeats DEF Drop, LeaseTypes
<1>8. CASE Talks
  <2>1. UNCHANGED <<place, reserved, line>>
    BY <1>8 DEF Talks, leaseVars
  <2>2. CASE UNCHANGED stage
    BY <2>1, <2>2 DEF LeaseTypes, Lines, Dialling
  <2>3. ASSUME NEW g \in Caller, NEW next \in {"wait", "over"}, stage[g] \in {"ready", "wait"},
               stage' = [stage EXCEPT ![g] = next]
        PROVE  Seated'
    BY <2>1, <2>3 DEF LeaseTypes, Lines, Dialling, Stage
  <2> QED
    BY <1>8, <2>2, <2>3 DEF Talks
<1> QED
  BY <1>1, <1>2, <1>3, <1>4, <1>5, <1>6, <1>7, <1>8 DEF Seating

LEMMA SeatedInvariance == HSpec => []Seated
<1>1. HInit => Seated
  BY ExchangeAssumption DEF HInit, Init, LInit, Seated, LeaseTypes, Lines, Dialling, Stage
<1>2. Seated /\ [HNext]_<<vars, viaHub, hubVars>> => Seated'
  BY SeatedStep, EverySeating
<1> QED
  BY <1>1, <1>2, PTL DEF HSpec

\* What a caller has leased is its line.
Leased == \A g \in Caller, c \in Conn : place[c] = g => line[g] = c

LEMMA LeasedStep == Seated /\ Leased /\ Seating => Leased'
<1> SUFFICES ASSUME Seated, Leased, Seating, NEW h \in Caller, NEW d \in Conn, place'[d] = h
             PROVE  line'[h] = d
  BY DEF Leased
<1>0. h # Parked /\ h # Absent /\ place \in [Conn -> {Absent, Parked} \cup Caller]
      /\ line \in [Caller -> Conn \cup {None}]
  BY ExchangeAssumption DEF Seated, LeaseTypes
<1>1. ASSUME NEW D \in SUBSET Conn, place' = Drop(place, D) PROVE line[h] = d
  BY <1>0, <1>1 DEF Drop, Leased
<1>2. ASSUME NEW g \in Caller, NEW s \in Server, GetParked(g, s) PROVE line'[h] = d
  <2>1. PICK c \in Conn : place'[c] = g /\ line' = [line EXCEPT ![g] = c]
    BY <1>2 DEF GetParked
  <2>2. PICK b \in Conn, D \in SUBSET Conn : place' = [Drop(place, D) EXCEPT ![b] = g]
    BY <1>2 DEF GetParked, Reuse, ParkedAt, Of
  <2>3. \A e \in Conn : place[e] # g
    BY <1>2 DEF GetParked, Reuse, Unserved
  <2>4. g # Absent
    BY ExchangeAssumption
  <2>5. \A e \in Conn : place'[e] = g => e = b
    BY <1>0, <2>2, <2>3, <2>4 DEF Drop
  <2>6. CASE h = g
    BY <1>0, <2>1, <2>5, <2>6
  <2>7. CASE h # g
    <3>1. place[d] = h
      BY <1>0, <2>2, <2>7 DEF Drop
    <3> QED
      BY <1>0, <2>1, <2>7, <3>1 DEF Leased
  <2> QED
    BY <2>6, <2>7
<1>3. ASSUME NEW g \in Caller, NEW s \in Server, GetNew(g, s) PROVE line'[h] = d
  BY <1>1, <1>3 DEF GetNew, Reserve, ParkedAt, Of
<1>4. ASSUME NEW g \in Caller, LineReady(g) PROVE line'[h] = d
  <2>1. line' = line /\ place' = [place EXCEPT ![line[g]] = g] /\ line[g] \in Conn
    BY <1>4, OpenedOwn DEF LineReady
  <2>2. CASE d = line[g]
    BY <1>0, <2>1, <2>2
  <2>3. CASE d # line[g]
    BY <1>0, <2>1, <2>3 DEF Leased
  <2> QED
    BY <2>2, <2>3
<1>5. ASSUME NEW g \in Caller, DialFails(g) PROVE line'[h] = d
  <2>1. place' = place /\ line' = [line EXCEPT ![g] = None] /\ stage[g] \in {"dial", "init"}
    BY <1>5 DEF DialFails, Abandon
  <2>2. h # g
    BY <1>0, <2>1, ExchangeAssumption DEF Leased, Seated, Lines
  <2> QED
    BY <1>0, <2>1, <2>2 DEF Leased
<1>6. ASSUME NEW g \in Caller, Put(g) PROVE line'[h] = d
  <2>1. /\ line[g] \in Conn /\ line' = [line EXCEPT ![g] = None]
        /\ place' \in {[place EXCEPT ![line[g]] = Parked], [place EXCEPT ![line[g]] = Absent]}
    BY <1>6 DEF Put, PutBack, Park, Discard, Seated, Lines
  <2>2. d # line[g] /\ place[d] = h
    BY <1>0, <2>1
  <2>3. line[h] = d /\ h # g
    BY <2>2 DEF Leased
  <2> QED
    BY <1>0, <2>1, <2>3
<1>7. ASSUME NEW g \in Caller, NEW c \in Conn, LineUp(g, c) PROVE line'[h] = d
  <2>1. place' = place /\ line' = [line EXCEPT ![g] = c] /\ stage[g] = "dial"
    BY <1>7 DEF LineUp, leaseVars
  <2>2. h # g
    BY <2>1, ExchangeAssumption DEF Leased, Seated, Lines
  <2> QED
    BY <1>0, <2>1, <2>2 DEF Leased
<1>8. CASE PoolMoves
  BY <1>1, <1>8 DEF PoolMoves, Evict, Shut, callVars
<1>9. CASE Talks
  BY <1>9 DEF Talks, leaseVars, Leased
<1> QED
  BY <1>2, <1>3, <1>4, <1>5, <1>6, <1>7, <1>8, <1>9 DEF Seating

\* What the pool asks of a caller in the step it takes next: to have no connection
\* when it comes for one, to have room reserved at the server of the connection
\* that it opens or abandons, and to hold, alone, the one that it gives back.
NothingRefused ==
    \A g \in Caller :
        /\ stage[g] = "none" => Unserved(g)
        /\ stage[g] \in {"dial", "init"} => reserved[g] \in Server
        /\ stage[g] = "init" => line[g] \in Of(reserved[g]) /\ place[line[g]] = Absent
        /\ stage[g] \in {"ready", "wait", "over"} =>
              {c \in Conn : place[c] = g} = {line[g]} /\ reserved[g] = None

\* With either backend, the pool never gets a step from a caller that its promise
\* has no place for: no second Put of a connection, none of another caller's, no
\* open without a reservation; and a call that is over has left nothing leased
\* and no room reserved (withBackend's deferred Put, dial's failures).
THEOREM CallsKeepTheLease == HSpec => []NothingRefused
<1>1. HInit => Leased
  BY ExchangeAssumption DEF HInit, Init, LInit, Leased
<1>2. Seated /\ Leased /\ [HNext]_<<vars, viaHub, hubVars>> => Leased'
  BY LeasedStep, EverySeating
<1>3. Seated /\ Leased => NothingRefused
  <2> SUFFICES ASSUME Seated, Leased, NEW g \in Caller
               PROVE  /\ stage[g] = "none" => Unserved(g)
                      /\ stage[g] \in {"dial", "init"} => reserved[g] \in Server
                      /\ stage[g] = "init" =>
                            line[g] \in Of(reserved[g]) /\ place[line[g]] = Absent
                      /\ stage[g] \in {"ready", "wait", "over"} =>
                            {c \in Conn : place[c] = g} = {line[g]} /\ reserved[g] = None
    BY DEF NothingRefused
  <2>1. stage[g] = "none" => Unserved(g)
    BY ExchangeAssumption DEF Seated, Lines, Dialling, Leased, Unserved
  <2>2. stage[g] \in {"dial", "init"} => reserved[g] \in Server
    BY DEF Seated, LeaseTypes, Dialling
  <2>3. stage[g] = "init" => line[g] \in Of(reserved[g]) /\ place[line[g]] = Absent
    BY DEF Seated, Lines, Dialling, Of
  <2>4. stage[g] \in {"ready", "wait", "over"} =>
           {c \in Conn : place[c] = g} = {line[g]} /\ reserved[g] = None
    BY DEF Seated, Lines, Dialling, Leased
  <2> QED
    BY <2>1, <2>2, <2>3, <2>4
<1> QED
  BY <1>1, <1>2, <1>3, SeatedInvariance, PTL DEF HSpec

\* So the pool that the calls use is the one of PoolLease, whose actions they
\* take part in.
LEMMA CallsAreLeases == HSpec => LeaseSpec
<1>1. HInit => LInit
  BY DEF HInit, Init
<1>2. Seated /\ Seating => [LNext]_leaseVars
  <2> SUFFICES ASSUME Seated, Seating PROVE LNext \/ UNCHANGED leaseVars
    OBVIOUS
  <2>1. CASE \E g \in Caller, s \in Server : GetParked(g, s) \/ GetNew(g, s)
    BY <2>1 DEF GetParked, GetNew, LNext
  <2>2. ASSUME NEW g \in Caller, Put(g) PROVE LNext
    <3>1. line[g] \in Conn /\ PutBack(g)
      BY <2>2 DEF Put, Seated, Lines
    <3> QED
      BY <3>1 DEF PutBack, LNext
  <2>3. CASE PoolMoves \/ \E g \in Caller : DialFails(g) \/ LineReady(g)
    BY <2>3 DEF DialFails, LineReady, PoolMoves, LNext
  <2>4. CASE Talks \/ \E g \in Caller, c \in Conn : LineUp(g, c)
    BY <2>4 DEF Talks, LineUp
  <2> QED
    BY <2>1, <2>2, <2>3, <2>4 DEF Seating
<1> QED
  BY <1>1, <1>2, EverySeating, SeatedInvariance, PTL DEF HSpec, LeaseSpec

-----------------------------------------------------------------------------
(* The limits of the pool, for any finite numbers of callers and             *)
(* connections.                                                              *)

Bounded ==
    /\ IsFiniteSet(Caller) /\ IsFiniteSet(Conn)
    /\ MaxIdle \in Nat /\ MaxOpen \in Nat

\* A server has at most MaxOpen connections, those being opened included, and
\* at most MaxIdle of them are parked; none is in a pool that is shut.
Limits ==
    /\ \A s \in Server :
          /\ Cardinality(Used(s)) + Cardinality(Dialers(s)) <= MaxOpen
          /\ Cardinality(ParkedAt(s)) <= MaxIdle
    /\ shut => \A c \in Conn : place[c] # Parked

LimitInv == LeaseTypes /\ Limits

LEMMA Finiteness ==
  ASSUME Bounded, NEW s \in Server
  PROVE  /\ IsFiniteSet(Used(s)) /\ IsFiniteSet(ParkedAt(s)) /\ IsFiniteSet(Dialers(s))
         /\ Cardinality(Used(s)) \in Nat
         /\ Cardinality(ParkedAt(s)) \in Nat
         /\ Cardinality(Dialers(s)) \in Nat
<1>1. Used(s) \in SUBSET Conn /\ ParkedAt(s) \in SUBSET Conn /\ Dialers(s) \in SUBSET Caller
  BY DEF Used, ParkedAt, Dialers, Of
<1>2. IsFiniteSet(Used(s)) /\ IsFiniteSet(ParkedAt(s)) /\ IsFiniteSet(Dialers(s))
  BY <1>1, FS_Subset DEF Bounded
<1> QED
  BY <1>2, FS_CardinalityType

\* A set that gets no larger has no more members.
LEMMA Smaller ==
  ASSUME NEW S, NEW T, IsFiniteSet(S), T \subseteq S
  PROVE  Cardinality(T) <= Cardinality(S) /\ Cardinality(T) \in Nat
<1>1. IsFiniteSet(T) /\ Cardinality(T) <= Cardinality(S)
  BY FS_Subset
<1> QED
  BY <1>1, FS_CardinalityType

\* One more member at most.
LEMMA OneMore ==
  ASSUME NEW S, NEW T, NEW x, IsFiniteSet(S), T \subseteq S \cup {x}
  PROVE  Cardinality(T) <= Cardinality(S) + 1 /\ Cardinality(T) \in Nat
<1>0. Cardinality(S) \in Nat
  BY FS_CardinalityType
<1>1. IsFiniteSet(S \cup {x}) /\ Cardinality(S \cup {x}) <= Cardinality(S) + 1
  BY <1>0, FS_AddElement
<1>2. Cardinality(T) <= Cardinality(S \cup {x}) /\ Cardinality(T) \in Nat
  BY <1>1, Smaller
<1>3. Cardinality(S \cup {x}) \in Nat
  BY <1>1, FS_CardinalityType
<1> QED
  BY <1>0, <1>1, <1>2, <1>3

\* What a server has when it gets no new connection, reservation or parked one.
LEMMA NoMore ==
  ASSUME Bounded, Limits, NEW s \in Server,
         Used(s)' \subseteq Used(s), Dialers(s)' \subseteq Dialers(s),
         ParkedAt(s)' \subseteq ParkedAt(s)
  PROVE  /\ Cardinality(Used(s)') + Cardinality(Dialers(s)') <= MaxOpen
         /\ Cardinality(ParkedAt(s)') <= MaxIdle
<1>1. /\ Cardinality(Used(s)) + Cardinality(Dialers(s)) <= MaxOpen
      /\ Cardinality(ParkedAt(s)) <= MaxIdle
  BY DEF Limits
<1>2. /\ Cardinality(Used(s)) \in Nat /\ Cardinality(Dialers(s)) \in Nat
      /\ Cardinality(ParkedAt(s)) \in Nat
  BY Finiteness
<1>3. Cardinality(Used(s)') <= Cardinality(Used(s)) /\ Cardinality(Used(s)') \in Nat
  BY Finiteness, Smaller
<1>4. Cardinality(Dialers(s)') <= Cardinality(Dialers(s)) /\ Cardinality(Dialers(s)') \in Nat
  BY Finiteness, Smaller
<1>5. Cardinality(ParkedAt(s)') <= Cardinality(ParkedAt(s)) /\ Cardinality(ParkedAt(s)') \in Nat
  BY Finiteness, Smaller
<1> QED
  BY <1>1, <1>2, <1>3, <1>4, <1>5 DEF Bounded

\* Parked connections leave the pool, or one is leased.
LEMMA ParkedOut ==
  ASSUME Bounded, LimitInv, UNCHANGED reserved, NEW g \in Caller,
         place' \in [Conn -> {Absent, Parked} \cup Caller],
         \A c \in Conn :
            \/ place'[c] = place[c]
            \/ place[c] = Parked /\ place'[c] \in {Absent, g},
         shut' => \A c \in Conn : place'[c] # Parked
  PROVE  LimitInv'
<1>1. ASSUME NEW s \in Server
      PROVE  /\ Used(s)' \subseteq Used(s) /\ Dialers(s)' \subseteq Dialers(s)
             /\ ParkedAt(s)' \subseteq ParkedAt(s)
  BY ExchangeAssumption DEF Used, ParkedAt, Dialers, Of
<1>2. LeaseTypes'
  BY DEF LimitInv, LeaseTypes
<1> QED
  BY <1>1, <1>2, NoMore DEF LimitInv, Limits

LEMMA LimitStep == Bounded /\ LimitInv /\ [LNext]_leaseVars => LimitInv'
<1> SUFFICES ASSUME Bounded, LimitInv, [LNext]_leaseVars PROVE LimitInv'
  OBVIOUS
<1>0. LeaseTypes /\ Limits
  BY DEF LimitInv
<1>1. ASSUME NEW g \in Caller, NEW s \in Server, Reuse(g, s) PROVE LimitInv'
  <2>1. PICK c \in ParkedAt(s), D \in SUBSET ParkedAt(s) :
          c \notin D /\ place' = [Drop(place, D) EXCEPT ![c] = g]
    BY <1>1 DEF Reuse
  <2>2. ~shut' /\ UNCHANGED reserved
    BY <1>1 DEF Reuse
  <2>3. c \in Conn /\ place[c] = Parked /\ \A d \in D : place[d] = Parked
    BY DEF ParkedAt, Of
  <2>4. /\ place' \in [Conn -> {Absent, Parked} \cup Caller]
        /\ \A d \in Conn : \/ place'[d] = place[d]
                           \/ place[d] = Parked /\ place'[d] \in {Absent, g}
    BY <1>0, <2>1, <2>3 DEF Drop, LeaseTypes
  <2> QED
    BY <2>2, <2>4, ParkedOut
<1>2. ASSUME NEW g \in Caller, NEW s \in Server, Reserve(g, s) PROVE LimitInv'
  <2>1. PICK D \in SUBSET ParkedAt(s) :
          /\ Cardinality(Used(s) \ D) + Cardinality(Dialers(s)) < MaxOpen
          /\ place' = Drop(place, D)
    BY <1>2 DEF Reserve
  <2>2. ~shut' /\ reserved' = [reserved EXCEPT ![g] = s]
    BY <1>2 DEF Reserve
  <2>3. \A d \in D : d \in Conn /\ place[d] = Parked /\ ServerOf(d) = s
    BY DEF ParkedAt, Of
  <2>4. LeaseTypes'
    BY <1>0, <2>1, <2>2 DEF Drop, LeaseTypes
  <2>5. \A d \in Conn : place'[d] = IF d \in D THEN Absent ELSE place[d]
    BY <2>1 DEF Drop
  <2>6. ASSUME NEW r \in Server, r # s
        PROVE  /\ Cardinality(Used(r)') + Cardinality(Dialers(r)') <= MaxOpen
               /\ Cardinality(ParkedAt(r)') <= MaxIdle
    <3>1. /\ Used(r)' \subseteq Used(r) /\ ParkedAt(r)' \subseteq ParkedAt(r)
          /\ Dialers(r)' \subseteq Dialers(r)
      BY <1>0, <2>2, <2>5, <2>6, ExchangeAssumption
         DEF Used, ParkedAt, Dialers, Of, LeaseTypes
    <3> QED
      BY <1>0, <3>1, NoMore
  <2>7. Cardinality(Used(s)') + Cardinality(Dialers(s)') <= MaxOpen
    <3>1. Used(s)' = Used(s) \ D
      BY <2>3, <2>5 DEF Used, Of
    <3>2. Dialers(s)' \subseteq Dialers(s) \cup {g}
      BY <1>0, <2>2 DEF Dialers, LeaseTypes
    <3>3. Cardinality(Dialers(s)') <= Cardinality(Dialers(s)) + 1
          /\ Cardinality(Dialers(s)') \in Nat
      BY <3>2, Finiteness, OneMore
    <3>4. Cardinality(Used(s) \ D) \in Nat
      BY Finiteness, Smaller
    <3>5. Cardinality(Dialers(s)) \in Nat
      BY Finiteness
    <3> QED
      BY <2>1, <3>1, <3>3, <3>4, <3>5 DEF Bounded
  <2>8. Cardinality(ParkedAt(s)') <= MaxIdle
    <3>1. ParkedAt(s)' \subseteq ParkedAt(s)
      BY <2>5, ExchangeAssumption DEF ParkedAt, Of
    <3>2. Cardinality(ParkedAt(s)') <= Cardinality(ParkedAt(s))
          /\ Cardinality(ParkedAt(s)') \in Nat
      BY <3>1, Finiteness, Smaller
    <3>3. Cardinality(ParkedAt(s)) \in Nat
      BY Finiteness
    <3> QED
      BY <1>0, <3>2, <3>3 DEF Limits, Bounded
  <2> QED
    BY <2>2, <2>4, <2>6, <2>7, <2>8 DEF LimitInv, Limits
<1>3. ASSUME NEW g \in Caller, Open(g) PROVE LimitInv'
  <2>1. PICK c \in Of(reserved[g]) : place[c] = Absent /\ place' = [place EXCEPT ![c] = g]
    BY <1>3 DEF Open
  <2>2. /\ reserved[g] \in Server /\ reserved' = [reserved EXCEPT ![g] = None]
        /\ shut' = shut
    BY <1>0, <1>3 DEF Open, LeaseTypes
  <2> PICK s \in Server : s = reserved[g]
    BY <2>2
  <2>3. c \in Conn /\ ServerOf(c) = s
    BY DEF Of
  <2>4. LeaseTypes'
    BY <1>0, <2>1, <2>2, <2>3 DEF LeaseTypes
  <2>5. \A d \in Conn : place'[d] = Parked <=> place[d] = Parked
    BY <1>0, <2>1, <2>3, ExchangeAssumption DEF LeaseTypes
  <2>6. ASSUME NEW r \in Server, r # s
        PROVE  /\ Cardinality(Used(r)') + Cardinality(Dialers(r)') <= MaxOpen
               /\ Cardinality(ParkedAt(r)') <= MaxIdle
    <3>1. /\ Used(r)' \subseteq Used(r) /\ ParkedAt(r)' \subseteq ParkedAt(r)
          /\ Dialers(r)' \subseteq Dialers(r)
      BY <1>0, <2>1, <2>2, <2>3, <2>5, <2>6, ExchangeAssumption
         DEF Used, ParkedAt, Dialers, Of, LeaseTypes
    <3> QED
      BY <1>0, <3>1, NoMore
  <2>7. Cardinality(Used(s)') + Cardinality(Dialers(s)') <= MaxOpen
    <3>1. Used(s)' \subseteq Used(s) \cup {c}
      BY <1>0, <2>1 DEF Used, Of, LeaseTypes
    <3>2. Dialers(s)' = Dialers(s) \ {g} /\ g \in Dialers(s)
      BY <1>0, <2>2, ExchangeAssumption DEF Dialers, LeaseTypes
    <3>3. Cardinality(Dialers(s)') = Cardinality(Dialers(s)) - 1
      BY <2>2, <3>2, Finiteness, FS_RemoveElement
    <3>4. Cardinality(Used(s)') <= Cardinality(Used(s)) + 1 /\ Cardinality(Used(s)') \in Nat
      BY <2>2, <3>1, Finiteness, OneMore
    <3>5. Cardinality(Used(s)) \in Nat /\ Cardinality(Dialers(s)) \in Nat
      BY <2>2, Finiteness
    <3>6. Cardinality(Used(s)) + Cardinality(Dialers(s)) <= MaxOpen
      BY <1>0, <2>2 DEF Limits
    <3> QED
      BY <3>3, <3>4, <3>5, <3>6 DEF Bounded
  <2>8. Cardinality(ParkedAt(s)') <= MaxIdle
    <3>1. ParkedAt(s)' = ParkedAt(s)
      BY <2>2, <2>5 DEF ParkedAt, Of
    <3> QED
      BY <1>0, <2>2, <3>1 DEF Limits
  <2>9. \A r \in Server : /\ Cardinality(Used(r)') + Cardinality(Dialers(r)') <= MaxOpen
                          /\ Cardinality(ParkedAt(r)') <= MaxIdle
    BY <2>6, <2>7, <2>8
  <2> QED
    BY <1>0, <2>2, <2>4, <2>5, <2>9 DEF LimitInv, Limits
<1>4. ASSUME NEW g \in Caller, Abandon(g) PROVE LimitInv'
  <2>1. /\ reserved' = [reserved EXCEPT ![g] = None] /\ UNCHANGED <<place, shut>>
    BY <1>4 DEF Abandon
  <2>2. LeaseTypes'
    BY <1>0, <2>1 DEF LeaseTypes
  <2>3. ASSUME NEW s \in Server
        PROVE  /\ Used(s)' \subseteq Used(s) /\ Dialers(s)' \subseteq Dialers(s)
               /\ ParkedAt(s)' \subseteq ParkedAt(s)
    BY <1>0, <2>1, ExchangeAssumption DEF Used, ParkedAt, Dialers, Of, LeaseTypes
  <2> QED
    BY <1>0, <2>1, <2>2, <2>3, NoMore DEF LimitInv, Limits
<1>5. ASSUME NEW g \in Caller, NEW c \in Conn, Park(g, c) PROVE LimitInv'
  <2> DEFINE s == ServerOf(c)
  <2>1. /\ ~shut /\ shut' = shut /\ reserved' = reserved /\ place[c] = g
        /\ place' = [place EXCEPT ![c] = Parked] /\ Cardinality(ParkedAt(s)) < MaxIdle
        /\ s \in Server
    BY <1>5, ExchangeAssumption DEF Park
  <2>2. LeaseTypes'
    BY <1>0, <2>1 DEF LeaseTypes
  <2>3. ASSUME NEW r \in Server
        PROVE  Used(r)' \subseteq Used(r) /\ Dialers(r)' \subseteq Dialers(r)
    BY <1>0, <2>1, ExchangeAssumption DEF Used, Dialers, Of, LeaseTypes
  <2>4. ASSUME NEW r \in Server, r # s PROVE ParkedAt(r)' \subseteq ParkedAt(r)
    BY <1>0, <2>1, <2>4 DEF ParkedAt, Of, LeaseTypes
  <2>5. ParkedAt(s)' \subseteq ParkedAt(s) \cup {c}
    BY <1>0, <2>1 DEF ParkedAt, Of, LeaseTypes
  <2>6. Cardinality(ParkedAt(s)') <= MaxIdle
    <3>1. Cardinality(ParkedAt(s)) \in Nat
      BY <2>1, Finiteness
    <3>2. Cardinality(ParkedAt(s)') <= Cardinality(ParkedAt(s)) + 1
          /\ Cardinality(ParkedAt(s)') \in Nat
      BY <2>1, <2>5, Finiteness, OneMore
    <3> QED
      BY <2>1, <3>1, <3>2 DEF Bounded
  <2>7. Cardinality(Used(s)') + Cardinality(Dialers(s)') <= MaxOpen
    <3>1. /\ Cardinality(Used(s)') <= Cardinality(Used(s)) /\ Cardinality(Used(s)') \in Nat
          /\ Cardinality(Dialers(s)') <= Cardinality(Dialers(s))
          /\ Cardinality(Dialers(s)') \in Nat
      BY <2>1, <2>3, Finiteness, Smaller
    <3>2. Cardinality(Used(s)) \in Nat /\ Cardinality(Dialers(s)) \in Nat
      BY <2>1, Finiteness
    <3>3. Cardinality(Used(s)) + Cardinality(Dialers(s)) <= MaxOpen
      BY <1>0, <2>1 DEF Limits
    <3> QED
      BY <3>1, <3>2, <3>3 DEF Bounded
  <2>8. ASSUME NEW r \in Server, r # s
        PROVE  /\ Cardinality(Used(r)') + Cardinality(Dialers(r)') <= MaxOpen
               /\ Cardinality(ParkedAt(r)') <= MaxIdle
    BY <1>0, <2>3, <2>4, <2>8, NoMore
  <2> QED
    BY <2>1, <2>2, <2>6, <2>7, <2>8 DEF LimitInv, Limits
<1>6. ASSUME NEW g \in Caller, NEW c \in Conn, Discard(g, c) PROVE LimitInv'
  <2>1. place' = [place EXCEPT ![c] = Absent] /\ UNCHANGED <<reserved, shut>>
    BY <1>6 DEF Discard
  <2>2. LeaseTypes'
    BY <1>0, <2>1 DEF LeaseTypes
  <2>3. ASSUME NEW s \in Server
        PROVE  /\ Used(s)' \subseteq Used(s) /\ Dialers(s)' \subseteq Dialers(s)
               /\ ParkedAt(s)' \subseteq ParkedAt(s)
    BY <1>0, <2>1, ExchangeAssumption DEF Used, ParkedAt, Dialers, Of, LeaseTypes
  <2>4. shut' => \A d \in Conn : place'[d] # Parked
    BY <1>0, <2>1, ExchangeAssumption DEF Limits, LeaseTypes
  <2> QED
    BY <1>0, <2>2, <2>3, <2>4, NoMore DEF LimitInv, Limits
<1>7. CASE Evict \/ Shut
  <2>1. PICK D \in SUBSET {c \in Conn : place[c] = Parked} : place' = Drop(place, D)
    BY <1>7 DEF Evict, Shut
  <2>2. reserved' = reserved
    BY <1>7 DEF Evict, Shut
  <2>3. \A c \in Conn : place'[c] = IF c \in D THEN Absent ELSE place[c]
    BY <2>1 DEF Drop
  <2>4. shut' => \A c \in Conn : place'[c] # Parked
    <3>1. CASE Evict
      BY <1>0, <2>3, <3>1, ExchangeAssumption DEF Evict, Limits
    <3>2. CASE Shut
      BY <3>2, ExchangeAssumption DEF Shut, Drop
    <3> QED
      BY <1>7, <3>1, <3>2
  <2>5. LeaseTypes'
    BY <1>0, <2>1, <2>2 DEF Drop, LeaseTypes
  <2>6. ASSUME NEW s \in Server
        PROVE  /\ Used(s)' \subseteq Used(s) /\ Dialers(s)' \subseteq Dialers(s)
               /\ ParkedAt(s)' \subseteq ParkedAt(s)
    BY <2>2, <2>3, ExchangeAssumption DEF Used, ParkedAt, Dialers, Of
  <2> QED
    BY <1>0, <2>4, <2>5, <2>6, NoMore DEF LimitInv, Limits
<1>8. CASE UNCHANGED leaseVars
  BY <1>8 DEF leaseVars, LimitInv, LeaseTypes, Limits, Used, ParkedAt, Dialers, Of
<1> QED
  BY <1>1, <1>2, <1>3, <1>4, <1>5, <1>6, <1>7, <1>8 DEF LNext

\* What the pool promises keeps it within its limits for every server, with no
\* counter: MaxOpen and MaxIdle of pool.go as a user reads them.
THEOREM LeaseWithinLimits == ASSUME Bounded PROVE LeaseSpec => []Limits
<1>1. LInit => LimitInv
  <2> SUFFICES ASSUME LInit PROVE LimitInv
    OBVIOUS
  <2>1. LeaseTypes /\ ~shut
    BY DEF LInit, LeaseTypes
  <2>2. \A s \in Server : Used(s) = {} /\ Dialers(s) = {} /\ ParkedAt(s) = {}
    BY ExchangeAssumption DEF LInit, Used, Dialers, ParkedAt, Of
  <2>3. \A s \in Server : /\ Cardinality(Used(s)) = 0 /\ Cardinality(Dialers(s)) = 0
                          /\ Cardinality(ParkedAt(s)) = 0
    BY <2>2, FS_EmptySet
  <2> QED
    BY <2>1, <2>3 DEF LimitInv, Limits, Bounded
<1>2. LimitInv /\ [LNext]_leaseVars => LimitInv'
  BY LimitStep
<1>3. LimitInv => Limits
  BY DEF LimitInv
<1> QED
  BY <1>1, <1>2, <1>3, PTL DEF LeaseSpec

\* The connections of s that are open, the processes and lines that the pool
\* does not know of yet included: their initialize exchange is under way.
OpenTo(s) == Of(s) \cap Attached

\* A call never has the proxy run more than MaxOpen processes of a server, nor
\* keep more lines to a host.
NoneTooMany == \A s \in Server : Cardinality(OpenTo(s)) <= MaxOpen

\* Each line in its dial is the one of a caller with a reservation for it.
LEMMA DialsReserved ==
  ASSUME Bounded, Seated, NEW s \in Server
  PROVE  /\ IsFiniteSet(OpenTo(s) \ Used(s))
         /\ Cardinality(OpenTo(s) \ Used(s)) <= Cardinality(Dialers(s))
<1> DEFINE T == OpenTo(s) \ Used(s)
           f == [c \in T |-> CHOOSE g \in Caller : line[g] = c]
<1>1. \A c \in T : c \in Conn /\ ServerOf(c) = s /\ place[c] = Absent
  BY DEF OpenTo, Used, Of, Attached
<1>2. \A c \in T : \E g \in Caller : line[g] = c
  BY <1>1 DEF OpenTo, Attached
<1>3. ASSUME NEW c \in T PROVE f[c] \in Caller /\ line[f[c]] = c
  BY <1>2
<1>4. ASSUME NEW c \in T PROVE f[c] \in Dialers(s)
  <2>1. stage[f[c]] = "init"
    BY <1>1, <1>3, ExchangeAssumption DEF Seated, Lines, Stage
  <2> QED
    BY <1>1, <1>3, <2>1 DEF Seated, Dialling, Dialers
<1>5. f \in Injection(T, Dialers(s))
  <2> HIDE DEF T
  <2>1. f \in [T -> Dialers(s)]
    BY <1>4
  <2>2. \A c, d \in T : f[c] = f[d] => c = d
    BY <1>3
  <2> QED
    BY <2>1, <2>2 DEF Injection, IsInjective
<1>6. IsFiniteSet(Dialers(s))
  BY Finiteness
<1> HIDE DEF T, f
<1>7. IsFiniteSet(T) /\ Cardinality(T) <= Cardinality(Dialers(s))
  BY <1>5, <1>6, FS_Injection
<1> QED
  BY <1>7 DEF T

\* The limit holds of what runs, and not only of what the pool counts.
THEOREM ProcessesWithinLimit == ASSUME Bounded PROVE HSpec => []NoneTooMany
<1>1. Seated /\ Limits => NoneTooMany
  <2> SUFFICES ASSUME Seated, Limits, NEW s \in Server
               PROVE  Cardinality(OpenTo(s)) <= MaxOpen
    BY DEF NoneTooMany
  <2> DEFINE T == OpenTo(s) \ Used(s)
  <2>1. IsFiniteSet(T) /\ Cardinality(T) <= Cardinality(Dialers(s))
    BY DialsReserved
  <2>2. OpenTo(s) \subseteq Used(s) \cup T
    OBVIOUS
  <2>3. IsFiniteSet(Used(s)) /\ Cardinality(Used(s)) \in Nat /\ Cardinality(Dialers(s)) \in Nat
    BY Finiteness
  <2> HIDE DEF T
  <2>4. IsFiniteSet(Used(s) \cup T) /\ Cardinality(T) \in Nat
        /\ Cardinality(Used(s) \cup T) <= Cardinality(Used(s)) + Cardinality(T)
    <3>1. /\ IsFiniteSet(Used(s) \cup T)
          /\ Cardinality(Used(s) \cup T) =
               Cardinality(Used(s)) + Cardinality(T) - Cardinality(Used(s) \cap T)
      BY <2>1, <2>3, FS_Union
    <3>2. Cardinality(Used(s) \cap T) \in Nat /\ Cardinality(T) \in Nat
      BY <2>1, <2>3, Smaller, FS_CardinalityType
    <3> QED
      BY <2>3, <3>1, <3>2
  <2>5. Cardinality(OpenTo(s)) <= Cardinality(Used(s) \cup T) /\ Cardinality(OpenTo(s)) \in Nat
    BY <2>2, <2>4, Smaller
  <2>6. Cardinality(Used(s) \cup T) \in Nat
    BY <2>4, FS_CardinalityType
  <2>7. Cardinality(Used(s)) + Cardinality(Dialers(s)) <= MaxOpen
    BY DEF Limits
  <2> QED
    BY <2>1, <2>3, <2>4, <2>5, <2>6, <2>7 DEF Bounded
<1> QED
  BY <1>1, SeatedInvariance, CallsAreLeases, LeaseWithinLimits, PTL

=============================================================================
