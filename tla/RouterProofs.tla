---------------------------- MODULE RouterProofs ----------------------------
(***************************************************************************)
(* Proofs about the circuit breakers of the router, for all servers,       *)
(* callers, registries and thresholds.                                     *)
(***************************************************************************)
EXTENDS Router, TLAPS

IInv == TypeOK /\ UnhealthyIsTripped

\* The Health that an outcome leaves is one, and marked iff tripped.
LEMMA FailedMarks ==
  ASSUME NEW h \in Health \cup {NoHealth}
  PROVE  /\ Failed(h) \in Health
         /\ Failed(h) # NoHealth
         /\ (h # NoHealth => (~h.Healthy <=> Tripped(h)))
               => (h # NoHealth => (~Failed(h).Healthy <=> Tripped(Failed(h))))
<1> USE RouterAssumption
<1>1. CASE h = NoHealth
  <2>1. Failed(h) \in Health
    BY <1>1 DEF Failed, Health
  <2> QED
    BY <1>1, <2>1
<1>2. CASE h # NoHealth
  <2>1. h \in Health /\ h.ConsecFails \in 0..failureThreshold /\ h.Healthy \in BOOLEAN
    BY <1>2 DEF Health
  <2> DEFINE n == IF h.ConsecFails < failureThreshold THEN h.ConsecFails + 1
                                                      ELSE failureThreshold
  <2>2. n \in 0..failureThreshold /\ (n >= failureThreshold <=> ~(n < failureThreshold))
        /\ (h.ConsecFails >= failureThreshold => n >= failureThreshold)
    BY <2>1
  <2>3. Failed(h) = [Healthy |-> h.Healthy /\ n < failureThreshold,
                     ConsecFails |-> n, lastError |-> "fresh"]
    BY <1>2 DEF Failed
  <2> HIDE DEF n
  <2>4. Failed(h) \in Health
    BY <2>1, <2>2, <2>3 DEF Health
  <2>5. Failed(h).ConsecFails = n
    BY <2>3
  <2>6. Failed(h).Healthy <=> (h.Healthy /\ n < failureThreshold)
    <3> DEFINE b == h.Healthy /\ n < failureThreshold
    <3>1. Failed(h) = [Healthy |-> b, ConsecFails |-> n, lastError |-> "fresh"]
      BY <2>3
    <3> HIDE DEF b
    <3>2. Failed(h).Healthy = b
      BY <3>1
    <3> QED
      BY <3>2, Zenon DEF b
  <2> QED
    BY <2>2, <2>4, <2>5, <2>6 DEF Tripped
<1> QED
  BY <1>1, <1>2

\* The Health that a success leaves is one, and neither tripped nor marked.
LEMMA SuccessUnmarks ==
  ASSUME NEW b \in {"fresh", "recent", "old"}, NEW h,
         h = [Healthy |-> TRUE, ConsecFails |-> 0, lastError |-> b]
  PROVE  h \in Health /\ h # NoHealth /\ h.Healthy /\ ~Tripped(h)
<1>1. failureThreshold \in Nat /\ failureThreshold > 0 /\ NoHealth \notin Health
  BY RouterAssumption
<1>2. 0 \in 0..failureThreshold
  BY <1>1
<1>3. h \in Health
  BY <1>2 DEF Health
<1>4. h.ConsecFails = 0
  OBVIOUS
<1>5. ~Tripped(h)
  BY <1>1, <1>4 DEF Tripped
<1>6. h.Healthy
  BY Zenon
<1> QED
  BY <1>1, <1>3, <1>5, <1>6, Zenon

\* Initially no breaker is tripped and nothing is marked.
LEMMA InitIInv == Init => IInv
<1> SUFFICES ASSUME Init PROVE IInv
  OBVIOUS
<1> USE RouterAssumption
<1> DEFINE fresh == [Healthy |-> TRUE, ConsecFails |-> 0, lastError |-> "old"]
<1>1. fresh \in Health /\ fresh # NoHealth /\ fresh.Healthy /\ ~Tripped(fresh)
  BY SuccessUnmarks
<1>2. /\ registry = Initial
      /\ health = [s \in Server |-> [t \in Target |-> IF s \in Initial THEN fresh ELSE NoHealth]]
      /\ call = [g \in Caller |-> NoCall]
  BY DEF Init
<1> HIDE DEF fresh
<1>3. TypeOK
  BY <1>1, <1>2 DEF TypeOK
<1>4. UnhealthyIsTripped
  <2>1. ASSUME NEW s \in Initial, NEW t \in Target PROVE health[s][t] = fresh
    BY <1>2, <2>1
  <2> QED
    BY <1>1, <2>1 DEF UnhealthyIsTripped
<1> QED
  BY <1>3, <1>4 DEF IInv

\* A change of one Health to a Health, marked iff tripped if it was so before or
\* belongs to a server New has not seen, keeps the invariant.
LEMMA HealthStep ==
  ASSUME IInv, NEW s \in Server, NEW t \in Target, NEW h \in Health,
         h # NoHealth,
         health' = [health EXCEPT ![s][t] = h],
         s \in Initial => (~h.Healthy <=> Tripped(h)),
         call' \in [Caller -> Call \cup {NoCall}], registry' = registry
  PROVE  IInv'
<1>1. health \in [Server -> [Target -> Health \cup {NoHealth}]]
  BY DEF IInv, TypeOK
<1>2. /\ health' \in [Server -> [Target -> Health \cup {NoHealth}]]
      /\ \A r \in Server, u \in Target :
            health'[r][u] = IF r = s /\ u = t THEN h ELSE health[r][u]
  BY <1>1
<1>3. TypeOK'
  BY <1>2 DEF IInv, TypeOK
<1>4. UnhealthyIsTripped'
  BY <1>2, RouterAssumption DEF IInv, UnhealthyIsTripped
<1> QED
  BY <1>3, <1>4 DEF IInv

\* Every step of the router keeps the invariant.
LEMMA NextIInv == IInv /\ [Next]_vars => IInv'
<1> SUFFICES ASSUME IInv, [Next]_vars PROVE IInv'
  OBVIOUS
<1> USE RouterAssumption
<1>1. /\ health \in [Server -> [Target -> Health \cup {NoHealth}]]
      /\ call \in [Caller -> Call \cup {NoCall}] /\ registry \subseteq Server
      /\ UnhealthyIsTripped
  BY DEF IInv, TypeOK
<1>2. ASSUME NEW g \in Caller, SendOk(g) PROVE IInv'
  <2> DEFINE s == call[g].server
             t == call[g].target
             h == [Healthy |-> TRUE, ConsecFails |-> 0,
                   lastError |-> IF health[s][t] = NoHealth THEN "old"
                                                            ELSE health[s][t].lastError]
  <2>1. s \in Server /\ t \in Target
    BY <1>1, <1>2 DEF SendOk, Using, Call
  <2>2. health' = [health EXCEPT ![s][t] = h] /\ call' = call /\ registry' = registry
    BY <1>1, <1>2, <2>1 DEF SendOk, RecordSuccess
  <2>3. h \in Health /\ h # NoHealth /\ h.Healthy /\ ~Tripped(h)
    <3>1. health[s][t] \in Health \cup {NoHealth}
      BY <1>1, <2>1
    <3>2. (IF health[s][t] = NoHealth THEN "old" ELSE health[s][t].lastError)
             \in {"fresh", "recent", "old"}
      BY <3>1 DEF Health
    <3> QED
      BY <3>2, SuccessUnmarks
  <2> HIDE DEF s, t, h
  <2> QED
    BY <1>1, <2>1, <2>2, <2>3, HealthStep
<1>3. ASSUME NEW g \in Caller, Fail(g) PROVE IInv'
  <2> DEFINE s == call[g].server
             t == call[g].target
  <2>1. s \in Server /\ t \in Target
    BY <1>1, <1>3 DEF Fail, Using, Call
  <2>2. health' = [health EXCEPT ![s][t] = Failed(health[s][t])] /\ registry' = registry
    BY <1>1, <1>3, <2>1 DEF Fail, RecordFailure
  <2>3. call' \in [Caller -> Call \cup {NoCall}]
    BY <1>1, <1>3 DEF Fail
  <2> HIDE DEF s, t
  <2>4. health[s][t] \in Health \cup {NoHealth}
    BY <1>1, <2>1
  <2>5. Failed(health[s][t]) \in Health /\ Failed(health[s][t]) # NoHealth
    BY <2>4, FailedMarks
  <2>6. s \in Initial => (~Failed(health[s][t]).Healthy <=> Tripped(Failed(health[s][t])))
    BY <1>1, <2>1, <2>4, FailedMarks DEF UnhealthyIsTripped
  <2> QED
    BY <2>1, <2>2, <2>3, <2>5, <2>6, HealthStep
<1>4. ASSUME NEW g \in Caller, CloseCall(g) PROVE IInv'
  BY <1>1, <1>4 DEF CloseCall, IInv, TypeOK, UnhealthyIsTripped
<1>5. ASSUME NEW g \in Caller, NEW s \in Server, Route(g, s) PROVE IInv'
  <2>1. Decision(s) \in Target \cup {"unavailable", "panic"}
    BY DEF Decision, Quoting, Target
  <2>2. [server |-> s, target |-> Decision(s)] \in Call
    BY <2>1 DEF Call
  <2>3. call' \in [Caller -> Call \cup {NoCall}]
    BY <1>1, <1>5, <2>2 DEF Route
  <2> QED
    BY <1>1, <1>5, <2>3 DEF Route, IInv, TypeOK, UnhealthyIsTripped
<1>6. ASSUME NEW reg \in Reloads, SetRegistry(reg) PROVE IInv'
  BY <1>1, <1>6 DEF SetRegistry, IInv, TypeOK, UnhealthyIsTripped
<1>7. ASSUME NEW s \in Server, NEW t \in Target, Age(s, t) \/ Recover(s, t)
      PROVE  IInv'
  <2>1. health[s][t] \in Health
    BY <1>1, <1>7 DEF Age, Recover
  <2>2. PICK a \in {"recent", "old"} :
          health' = [health EXCEPT ![s][t] = [health[s][t] EXCEPT !.lastError = a]]
    BY <1>1, <1>7 DEF Age, Recover
  <2> DEFINE h == [health[s][t] EXCEPT !.lastError = a]
  <2>3. /\ h \in Health /\ h # NoHealth
        /\ h.Healthy = health[s][t].Healthy /\ h.ConsecFails = health[s][t].ConsecFails
    BY <2>1 DEF Health
  <2>4. health' = [health EXCEPT ![s][t] = h] /\ call' = call /\ registry' = registry
    BY <1>7, <2>2 DEF Age, Recover
  <2> HIDE DEF h
  <2>5. s \in Initial => (~h.Healthy <=> Tripped(h))
    BY <1>1, <2>3 DEF UnhealthyIsTripped, Tripped
  <2> QED
    BY <1>1, <2>3, <2>4, <2>5, HealthStep
<1>8. CASE UNCHANGED vars
  BY <1>8 DEF vars, IInv, TypeOK, UnhealthyIsTripped
<1> QED
  BY <1>2, <1>3, <1>4, <1>5, <1>6, <1>7, <1>8 DEF Next

\* The invariant holds throughout.
LEMMA Invariance == Spec => []IInv
<1> QED
  BY InitIInv, NextIInv, PTL DEF Spec

\* Every variable of the router keeps its type, and a count of failures never
\* passes the threshold.
THEOREM TypeCorrect == Spec => []TypeOK
<1>1. IInv => TypeOK
  BY DEF IInv
<1> QED
  BY <1>1, Invariance, PTL

\* A side is marked unhealthy exactly while its breaker is tripped, in every
\* order of outcomes and reloads, so that the recovery window is never missed.
THEOREM MarkedIffTripped == Spec => []UnhealthyIsTripped
<1>1. IInv => UnhealthyIsTripped
  BY DEF IInv
<1> QED
  BY <1>1, Invariance, PTL

\* For a server New has seen, only a tripped breaker in its window closes a side.
LEMMA RefusedSides ==
  ASSUME IInv, NEW s \in registry \cap Initial, Decision(s) = "unavailable",
         NEW t \in IF hubEnabled /\ s \notin LocalOnly THEN Target ELSE {"local"}
  PROVE  Tripped(health[s][t]) /\ InWindow(health[s][t])
<1>1. t \in Target /\ "local" \in Target /\ "hub" \in Target
  BY DEF Target
<1>2. ASSUME NEW u \in Target, ~isHealthy(health[s][u])
      PROVE  Tripped(health[s][u]) /\ InWindow(health[s][u])
  <2>1. /\ health[s][u] # NoHealth
        /\ ~health[s][u].Healthy <=> Tripped(health[s][u])
    BY DEF IInv, UnhealthyIsTripped
  <2> QED
    BY <1>2, <2>1 DEF isHealthy
<1>3. ~isHealthy(health[s]["local"])
  BY DEF Decision
<1>4. ASSUME t = "hub" PROVE ~isHealthy(health[s]["hub"])
  <2>1. hubEnabled /\ s \in registry \ LocalOnly /\ ~(s \in registry \cap LocalOnly)
    BY <1>4
  <2>2. SUFFICES ASSUME isHealthy(health[s]["hub"]) PROVE FALSE
    OBVIOUS
  <2>3. Decision(s) = Quoting({health[s]["local"]}, "hub")
    BY <1>3, <2>1, <2>2 DEF Decision
  <2> QED
    BY <2>3 DEF Quoting
<1> QED
  BY <1>1, <1>2, <1>3, <1>4 DEF Target

\* No order of outcomes and reloads makes Route refuse a server New has seen
\* outside the recovery windows, for any number of servers and callers.
THEOREM NeverRefusedEarly == Spec => RefusedOnlyInWindow
<1> DEFINE Asked(g) ==
       call[g] = NoCall /\ call'[g] # NoCall /\ call'[g].server \in registry \cap Initial
         /\ call'[g].target = "unavailable" =>
           \A t \in IF hubEnabled /\ call'[g].server \notin LocalOnly
                     THEN Target ELSE {"local"} :
               Tripped(health[call'[g].server][t]) /\ InWindow(health[call'[g].server][t])
<1>1. IInv /\ [Next]_vars => [\A g \in Caller : Asked(g)]_vars
  <2> SUFFICES ASSUME IInv, [Next]_vars, NEW g \in Caller,
                      call[g] = NoCall, call'[g] # NoCall,
                      call'[g].server \in registry \cap Initial,
                      call'[g].target = "unavailable",
                      NEW t \in IF hubEnabled /\ call'[g].server \notin LocalOnly
                                 THEN Target ELSE {"local"}
               PROVE  /\ Tripped(health[call'[g].server][t])
                      /\ InWindow(health[call'[g].server][t])
    BY DEF Asked
  <2>1. call \in [Caller -> Call \cup {NoCall}]
    BY DEF IInv, TypeOK
  <2>2. PICK h \in Caller, s \in Server : Route(h, s)
    BY <2>1 DEF Next, vars, SendOk, Fail, CloseCall, SetRegistry, Age, Recover
  <2>3. call'[g] = [server |-> s, target |-> Decision(s)]
    BY <2>1, <2>2 DEF Route
  <2>4. call'[g].server = s /\ Decision(s) = "unavailable"
    BY <2>3
  <2> QED
    BY <2>4, RefusedSides
<1> QED
  BY <1>1, Invariance, PTL DEF Spec, RefusedOnlyInWindow, Asked
-----------------------------------------------------------------------------
(* What is left to go wrong, and what it takes.                            *)

\* A registry never has a server that New has not seen.
NothingNew == \A reg \in Reloads : reg \subseteq Initial

\* Its servers have their Health for good.
LEMMA KnownServers ==
  ASSUME NothingNew
  PROVE  Spec => [](registry \subseteq Initial)
<1>1. Init => registry \subseteq Initial
  BY DEF Init
<1>2. registry \subseteq Initial /\ [Next]_vars => (registry \subseteq Initial)'
  BY DEF NothingNew, Next, vars, SendOk, Fail, CloseCall, Route, SetRegistry, Age, Recover
<1> QED
  BY <1>1, <1>2, PTL DEF Spec

\* Route panics for no other reason than a server that is new in the registry:
\* with reloads that only drop and restore servers it has an answer in every
\* order of outcomes, also for servers outside the registry.
THEOREM AnswersUnlessNew ==
  ASSUME NothingNew
  PROVE  Spec => []RouteAnswers
<1>1. ASSUME IInv, registry \subseteq Initial, NEW s \in Server
      PROVE  Decision(s) # "panic"
  <2>1. CASE s \in registry
    <3>1. health[s]["local"] # NoHealth /\ health[s]["hub"] # NoHealth
      BY <1>1, <2>1 DEF IInv, UnhealthyIsTripped, Target
    <3>2. \A hs \in SUBSET {health[s]["local"], health[s]["hub"]}, answer \in {"hub", "unavailable"} :
             Quoting(hs, answer) = answer
      BY <3>1 DEF Quoting
    <3>3. CASE isHealthy(health[s]["local"])
      BY <2>1, <3>3 DEF Decision
    <3>4. CASE ~isHealthy(health[s]["local"]) /\ s \in LocalOnly
      <4>1. Decision(s) = Quoting({health[s]["local"]}, "unavailable")
        BY <2>1, <3>4 DEF Decision
      <4> QED
        BY <3>2, <4>1
    <3>5. CASE ~isHealthy(health[s]["local"]) /\ s \notin LocalOnly
      <4>1. Decision(s) =
              IF hubEnabled /\ isHealthy(health[s]["hub"])
              THEN Quoting({health[s]["local"]}, "hub")
              ELSE Quoting(IF hubEnabled THEN {health[s]["local"], health[s]["hub"]}
                                         ELSE {health[s]["local"]}, "unavailable")
        BY <2>1, <3>5 DEF Decision
      <4> QED
        BY <3>2, <4>1
    <3> QED
      BY <3>3, <3>4, <3>5
  <2>2. CASE s \notin registry
    BY <2>2 DEF Decision
  <2> QED
    BY <2>1, <2>2
<1>2. Init => RouteAnswers
  BY DEF Init, RouteAnswers
<1>3. IInv /\ registry \subseteq Initial /\ RouteAnswers /\ [Next]_vars => RouteAnswers'
  <2> SUFFICES ASSUME IInv, registry \subseteq Initial, RouteAnswers, [Next]_vars
               PROVE  RouteAnswers'
    OBVIOUS
  <2>1. call \in [Caller -> Call \cup {NoCall}]
    BY DEF IInv, TypeOK
  <2>2. CASE \E g \in Caller, s \in Server : Route(g, s)
    <3>1. PICK g \in Caller, s \in Server : Route(g, s)
      BY <2>2
    <3>2. call' = [call EXCEPT ![g] = [server |-> s, target |-> Decision(s)]]
      BY <3>1 DEF Route
    <3> QED
      BY <1>1, <2>1, <3>2 DEF RouteAnswers
  <2>3. CASE ~\E g \in Caller, s \in Server : Route(g, s)
    <3>1. call' = call \/ \E g \in Caller : call' = [call EXCEPT ![g] = NoCall]
      BY <2>3 DEF Next, vars, SendOk, Fail, CloseCall, SetRegistry, Age, Recover
    <3> QED
      BY <2>1, <3>1 DEF RouteAnswers
  <2> QED
    BY <2>2, <2>3
<1> QED
  BY <1>2, <1>3, KnownServers, Invariance, PTL DEF Spec

\* Once its recovery window is over a server New has seen is tried locally again,
\* whatever failed before: "allow a probe attempt so the server can recover".
WindowOver ==
    \A s \in registry \cap Initial :
        ~InWindow(health[s]["local"]) => Decision(s) = "local"

\* For no server does it take anything but the passing of time to be tried again.
THEOREM TriedAfterWindow == Spec => []WindowOver
<1>1. IInv => WindowOver
  <2> SUFFICES ASSUME IInv, NEW s \in registry \cap Initial, ~InWindow(health[s]["local"])
               PROVE  Decision(s) = "local"
    BY DEF WindowOver
  <2>1. "local" \in Target
    BY DEF Target
  <2>2. /\ health[s]["local"] # NoHealth
        /\ ~health[s]["local"].Healthy <=> Tripped(health[s]["local"])
    BY <2>1 DEF IInv, UnhealthyIsTripped
  <2>3. isHealthy(health[s]["local"])
    BY <2>2 DEF isHealthy
  <2> QED
    BY <2>3 DEF Decision
<1> QED
  BY <1>1, Invariance, PTL
=============================================================================
