------------------------------- MODULE Router -------------------------------
(***************************************************************************)
(* The router of pkg/router/router.go: which of the local process and the  *)
(* hub a call to a server goes to, by a circuit breaker per server and     *)
(* side that the calls' own outcomes drive (the Proxy wrapper).            *)
(*                                                                         *)
(* Of a Health record only what isHealthy reads is kept: Healthy, the      *)
(* consecutive failures up to the threshold, and how long LastError is ago: *)
(* just now ("fresh"), less than recoveryTime ("recent"), or more ("old").  *)
(* A nil entry is NoHealth.  A caller keeps the Proxy for the side Route    *)
(* chose over any number of requests, failed ones too, until it closes it,  *)
(* so outcomes are recorded in any order and after any change of the        *)
(* registry, and each failure renews LastError.                             *)
(***************************************************************************)
EXTENDS Naturals, FiniteSets

CONSTANTS
    Server, Caller,
    Initial,            \* the servers of the registry given to New
    Reloads,            \* the registries SetRegistry may be given
    LocalOnly,          \* servers for which IsLocalOnly holds
    hubEnabled,
    failureThreshold,
    NoHealth, NoCall

Target == {"local", "hub"}
Health == [Healthy : BOOLEAN, ConsecFails : 0..failureThreshold,
           lastError : {"fresh", "recent", "old"}]
\* The Proxy a caller has, or why it has none.
Call == [server : Server, target : Target \cup {"unavailable", "panic"}]

ASSUME RouterAssumption ==
    /\ Initial \subseteq Server /\ LocalOnly \subseteq Server
    /\ Reloads \subseteq SUBSET Server
    /\ hubEnabled \in BOOLEAN
    /\ failureThreshold \in Nat \ {0}
    /\ NoHealth \notin Health /\ NoCall \notin Call

VARIABLES
    registry,       \* SUBSET Server: the servers of Router.registry
    health,         \* [Server -> [Target -> Health \cup {NoHealth}]]
    call            \* [Caller -> Call \cup {NoCall}]

vars == <<registry, health, call>>

Init ==
    /\ registry = Initial
    /\ health = [s \in Server |-> [t \in Target |->
                   IF s \in Initial
                   THEN [Healthy |-> TRUE, ConsecFails |-> 0, lastError |-> "old"]
                   ELSE NoHealth]]
    /\ call = [g \in Caller |-> NoCall]
-----------------------------------------------------------------------------
Tripped(h) == h.ConsecFails >= failureThreshold

\* time.Since(LastError) < recoveryTime
InWindow(h) == h.lastError # "old"

\* Mutant of isHealthy: a tripped breaker never lets a probe through.
isHealthyNoProbe(h) == h # NoHealth /\ ~Tripped(h) /\ h.Healthy

isHealthy(h) ==
    /\ h # NoHealth
    /\ IF Tripped(h) THEN ~InWindow(h) ELSE h.Healthy

\* The answers for a server whose local side is not used all quote the
\* ErrorMessage of its local Health, and one that of its hub Health: a nil
\* pointer is dereferenced.
Quoting(hs, answer) == IF NoHealth \in hs THEN "panic" ELSE answer

Decision(s) ==
    LET local == health[s]["local"]
        hub == health[s]["hub"] IN
    CASE s \notin registry -> IF hubEnabled THEN "hub" ELSE "unavailable"
      [] s \in registry /\ isHealthy(local) -> "local"
      [] s \in registry \cap LocalOnly /\ ~isHealthy(local) ->
            Quoting({local}, "unavailable")
      [] s \in registry \ LocalOnly /\ ~isHealthy(local) ->
            IF hubEnabled /\ isHealthy(hub) THEN Quoting({local}, "hub")
            ELSE Quoting(IF hubEnabled THEN {local, hub} ELSE {local}, "unavailable")

Route(g, s) ==
    /\ call[g] = NoCall
    /\ call' = [call EXCEPT ![g] = [server |-> s, target |-> Decision(s)]]
    /\ UNCHANGED <<registry, health>>

RecordSuccess(s, t) ==
    health' = [health EXCEPT ![s][t] =
                 [Healthy |-> TRUE, ConsecFails |-> 0,
                  lastError |-> IF @ = NoHealth THEN "old" ELSE @.lastError]]

\* Mutant of Failed: the first failure marks the side unhealthy.
FailedAtOnce(h) ==
    LET fails == IF h = NoHealth THEN 1
                 ELSE IF h.ConsecFails < failureThreshold THEN h.ConsecFails + 1
                 ELSE failureThreshold IN
    [Healthy |-> FALSE, ConsecFails |-> fails, lastError |-> "fresh"]

\* A missing entry starts as the zero Health: not healthy, no failures.
Failed(h) ==
    LET old == IF h = NoHealth THEN [Healthy |-> FALSE, ConsecFails |-> 0] ELSE h
        fails == IF old.ConsecFails < failureThreshold THEN old.ConsecFails + 1
                                                       ELSE failureThreshold IN
    [Healthy |-> old.Healthy /\ fails < failureThreshold,
     ConsecFails |-> fails,
     lastError |-> "fresh"]

RecordFailure(s, t) == health' = [health EXCEPT ![s][t] = Failed(@)]

\* Proxy.Send and Proxy.Recv: an error of either is a failure, but only Send
\* records success; a Recv that succeeds changes nothing.  Neither closes the
\* Proxy: the next request may fail again.
Using(g) == call[g] # NoCall /\ call[g].target \in Target

SendOk(g) ==
    /\ Using(g)
    /\ RecordSuccess(call[g].server, call[g].target)
    /\ UNCHANGED <<registry, call>>

Fail(g) ==
    /\ Using(g)
    /\ RecordFailure(call[g].server, call[g].target)
    /\ UNCHANGED <<registry, call>>

\* Proxy.Close, or the caller takes the error for its answer.
CloseCall(g) ==
    /\ call[g] # NoCall /\ call[g].target # "panic"
    /\ call' = [call EXCEPT ![g] = NoCall]
    /\ UNCHANGED <<registry, health>>

\* No Health entry is made for a server that is new in the registry, and none
\* is dropped.
SetRegistry(reg) ==
    /\ registry' = reg
    /\ UNCHANGED <<health, call>>

\* Time passes since the last error, and in the end recoveryTime.
Age(s, t) ==
    /\ health[s][t] # NoHealth /\ health[s][t].lastError = "fresh"
    /\ health' = [health EXCEPT ![s][t].lastError = "recent"]
    /\ UNCHANGED <<registry, call>>

Recover(s, t) ==
    /\ health[s][t] # NoHealth /\ health[s][t].lastError = "recent"
    /\ health' = [health EXCEPT ![s][t].lastError = "old"]
    /\ UNCHANGED <<registry, call>>
-----------------------------------------------------------------------------
Next ==
    \/ \E g \in Caller : SendOk(g) \/ Fail(g) \/ CloseCall(g)
    \/ \E g \in Caller, s \in Server : Route(g, s)
    \/ \E reg \in Reloads : SetRegistry(reg)
    \/ \E s \in Server, t \in Target : Age(s, t) \/ Recover(s, t)

Spec == Init /\ [][Next]_vars

\* Time passes between two failures, and without one the window passes.  A
\* failure makes the last error fresh again, so weak fairness says nothing of
\* the window of a side whose Proxies fail again and again.
FairSpec ==
    /\ Spec
    /\ \A s \in Server, t \in Target : WF_vars(Age(s, t)) /\ WF_vars(Recover(s, t))
-----------------------------------------------------------------------------
(* Properties.                                                             *)

\* Every variable of the router keeps its type.
TypeOK ==
    /\ registry \subseteq Server
    /\ health \in [Server -> [Target -> Health \cup {NoHealth}]]
    /\ call \in [Caller -> Call \cup {NoCall}]

\* A side marked not healthy has its breaker tripped, so the recovery window
\* applies to it, whatever order outcomes arrive in: nothing is left unhealthy
\* with no way back.  This is so for the servers New has seen.
UnhealthyIsTripped ==
    \A s \in Initial, t \in Target :
        health[s][t] # NoHealth /\ (~health[s][t].Healthy <=> Tripped(health[s][t]))

\* A server New has seen is refused only while its local breaker is in its
\* window, and for one that may run elsewhere its hub breaker too: no late
\* outcome of an older call and no change of the registry makes it unavailable.
RefusedOnlyInWindow ==
    [][\A g \in Caller :
         call[g] = NoCall /\ call'[g] # NoCall /\ call'[g].server \in registry \cap Initial
           /\ call'[g].target = "unavailable" =>
             \A t \in IF hubEnabled /\ call'[g].server \notin LocalOnly
                       THEN Target ELSE {"local"} :
                 Tripped(health[call'[g].server][t]) /\ InWindow(health[call'[g].server][t])]_vars

FailsOn(s, t) ==
    \E g \in Caller : Fail(g) /\ call[g].server = s /\ call[g].target = t

\* "Recovery window elapsed: allow a probe attempt so the server can recover"
\* (router.go:354): an unavailable server becomes available again in the end,
\* unless Proxies of its local side that are still in use, which ask no breaker,
\* fail for ever and renew its last error each time.
Reopens ==
    \A s \in Initial :
        \/ []<><<FailsOn(s, "local")>>_vars
        \/ Decision(s) = "unavailable" ~> Decision(s) # "unavailable" \/ s \notin registry

\* Route answers "local unhealthy or missing, hub fallback" (router.go:330): it
\* has an answer for a server whose Health is missing too.
RouteAnswers == \A g \in Caller : call[g] # NoCall => call[g].target # "panic"
=============================================================================
