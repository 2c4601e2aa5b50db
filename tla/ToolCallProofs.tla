--------------------------- MODULE ToolCallProofs ---------------------------
(***************************************************************************)
(* Proofs about REST tool calls for every registry file and any number of  *)
(* concurrent requests: the registry keeps its shape, its lists of allowed *)
(* tools stay what the file says though its Env maps do not, and no tool   *)
(* is called that the file does not allow.                                 *)
(***************************************************************************)
EXTENDS ToolCall, TLAPS

\* Reading specs has changed nothing of them but Env.
Frozen ==
    /\ DOMAIN common = Listed
    /\ \A s \in Listed :
          /\ IsSpec(common[s])
          /\ common[s].allow = Servers[s].common.allow

\* The handlers that have passed the allowlist, and those that have a server.
Past == {"body", "dialing", "sending", "checking", "reading", "returning"}
Checked ==
    /\ pc \in [Request -> PC] /\ phase \in [Request -> Phase]
    /\ \A r \in Request :
          /\ pc[r] \in {"merging", "unlisted"} => Known(Srv(r))
          /\ pc[r] \in Past \/ phase[r] # "none" =>
                /\ Known(Srv(r))
                /\ asked[r].tool \in
                      Servers[Srv(r)].allow \cup Declared(Srv(r), Tgt(r)).allow

\* Merging two Env maps gives an Env map.
LEMMA MergedIsEnv ==
  ASSUME NEW dst, NEW src, IsEnv(dst), IsEnv(src)
  PROVE  IsEnv(MergedEnv(dst, src))
<1>1. CASE src = NoEnv \/ dst = NoEnv
  BY <1>1 DEF MergedEnv
<1>2. CASE src # NoEnv /\ dst # NoEnv
  <2>1. PICK m \in SUBSET Name : src \in [m -> Value]
    BY <1>2 DEF IsEnv
  <2>2. PICK n \in SUBSET Name : dst \in [n -> Value]
    BY <1>2 DEF IsEnv
  <2>3. MergedEnv(dst, src) \in [m \cup n -> Value]
    BY <1>2, <2>1, <2>2 DEF MergedEnv
  <2>4. m \cup n \in SUBSET Name
    BY <2>1, <2>2
  <2> QED
    BY <2>3, <2>4 DEF IsEnv
<1> QED
  BY <1>1, <1>2

\* A merge of specs is a spec.
LEMMA MergedIsSpec ==
  ASSUME NEW dst, NEW src, IsSpec(dst), IsSpec(src)
  PROVE  IsSpec(mergeSpec(dst, src))
<1> DEFINE x == mergeSpec(dst, src)
<1>1. /\ x.command \in Command \cup {NoCommand}
      /\ x.allow \in SUBSET Tool /\ x.tools \in SUBSET Tool
      /\ x.env = MergedEnv(dst.env, src.env)
  BY DEF IsSpec, mergeSpec, Override
<1>2. IsEnv(x.env)
  BY <1>1, MergedIsEnv DEF IsSpec
<1> QED
  BY <1>1, <1>2 DEF IsSpec, mergeSpec

\* GetServerSpec returns a spec whose allowlist is the one declared.
LEMMA SpecOfServer ==
  ASSUME Frozen, NEW s \in Listed, NEW t
  PROVE  /\ IsSpec(GetServerSpec(s, t))
         /\ GetServerSpec(s, t).allow = Declared(s, t).allow
<1>1. CASE HasTarget(s, t)
  <2>1. IsSpec(common[s]) /\ IsSpec(Servers[s].targets[t])
    BY <1>1, RegistryAssumption DEF Frozen, HasTarget
  <2>2. IsSpec(mergeSpec(common[s], Servers[s].targets[t]))
    BY <2>1, MergedIsSpec
  <2> QED
    BY <1>1, <2>2 DEF GetServerSpec, Declared, Frozen, mergeSpec
<1>2. CASE ~HasTarget(s, t)
  BY <1>2 DEF GetServerSpec, Declared, Frozen
<1> QED
  BY <1>1, <1>2

\* Reading a spec leaves the registry well formed and its allowlists alone.
LEMMA ReadingKeeps ==
  ASSUME Frozen, NEW s \in Listed, NEW t, common' = CommonAfter(s, t)
  PROVE  Frozen'
<1> DEFINE e == IF WritesCommon(s, t) THEN GetServerSpec(s, t).env ELSE common[s].env
<1>1. IsEnv(e)
  BY SpecOfServer DEF IsSpec, Frozen
<1>2. common' = [common EXCEPT ![s].env = e]
  BY DEF CommonAfter
<1> HIDE DEF e
<1>3. DOMAIN common' = Listed
  BY <1>2 DEF Frozen
<1>4. ASSUME NEW u \in Listed
      PROVE  IsSpec(common'[u]) /\ common'[u].allow = Servers[u].common.allow
  <2>1. CASE u = s
    <3>1. common'[s] = [common[s] EXCEPT !.env = e]
      BY <1>2 DEF Frozen
    <3>2. common[s] \in [command : Command \cup {NoCommand}, env : {common[s].env},
                         allow : SUBSET Tool, tools : SUBSET Tool]
      BY DEF Frozen, IsSpec
    <3>3. /\ common'[s] \in [command : Command \cup {NoCommand}, env : {e},
                             allow : SUBSET Tool, tools : SUBSET Tool]
          /\ common'[s].env = e /\ common'[s].allow = common[s].allow
      BY <3>1, <3>2
    <3> QED
      BY <1>1, <2>1, <3>3 DEF Frozen, IsSpec
  <2>2. CASE u # s
    BY <1>2, <2>2 DEF Frozen
  <2> QED
    BY <2>1, <2>2
<1> QED
  BY <1>3, <1>4 DEF Frozen
-----------------------------------------------------------------------------
(* The invariant.                                                          *)

Inv == Frozen /\ Checked

\* Initially the registry is the file, and no handler has begun.
LEMMA InitInv == Init => Inv
<1> SUFFICES ASSUME Init PROVE Inv
  OBVIOUS
<1>1. Frozen
  BY RegistryAssumption DEF Init, Load, Frozen
<1>2. Checked
  BY DEF Init, Checked, PC, Phase, Past
<1> QED
  BY <1>1, <1>2 DEF Inv

\* A handler moves within what it has passed already.
LEMMA MoveKeeps ==
  ASSUME Checked, NEW r \in Request, NEW to \in PC, UNCHANGED asked,
         pc' = [pc EXCEPT ![r] = to],
         phase' = phase \/ \E p \in Phase : phase' = [phase EXCEPT ![r] = p],
         to \in {"merging", "unlisted"} => Known(Srv(r)),
         to \in Past \/ phase'[r] # "none" =>
            /\ Known(Srv(r))
            /\ asked[r].tool \in Servers[Srv(r)].allow \cup Declared(Srv(r), Tgt(r)).allow
  PROVE  Checked'
<1>1. pc' \in [Request -> PC] /\ phase' \in [Request -> Phase]
  BY DEF Checked
<1>2. \A q \in Request : Srv(q)' = Srv(q) /\ Tgt(q)' = Tgt(q)
  BY DEF Srv, Tgt
<1>3. \A q \in Request \ {r} : pc'[q] = pc[q] /\ phase'[q] = phase[q]
  BY DEF Checked
<1>4. pc'[r] = to
  BY DEF Checked
<1>5. ASSUME NEW q \in Request
      PROVE  /\ pc'[q] \in {"merging", "unlisted"} => Known(Srv(q))
             /\ pc'[q] \in Past \/ phase'[q] # "none" =>
                  /\ Known(Srv(q))
                  /\ asked[q].tool \in
                        Servers[Srv(q)].allow \cup Declared(Srv(q), Tgt(q)).allow
  BY <1>3, <1>4 DEF Checked
<1> QED
  BY <1>1, <1>2, <1>5 DEF Checked, Known, Declared, HasTarget

\* The steps at the allowlist: a tool passes only by a list of the file.
LEMMA AllowStep ==
  ASSUME Inv, NEW r \in Request,
         \/ UnknownServer(r) \/ AllowedByServer(r) \/ MergeBegin(r) \/ MergeEnd(r)
         \/ NotAllowed(r)
  PROVE  Inv'
<1> USE DEF Refuse, Move
<1>1. Frozen /\ Checked /\ pc[r] \notin Past /\ UNCHANGED <<asked, phase>>
  BY DEF Inv, Past, UnknownServer, AllowedByServer, MergeBegin, MergeEnd, NotAllowed,
         callVars
<1>2. CASE UnknownServer(r)
  <2>1. Frozen'
    BY <1>1, <1>2 DEF UnknownServer, Frozen
  <2>2. phase[r] = "none"
    BY <1>1, <1>2 DEF UnknownServer, Checked
  <2>3. pc' = [pc EXCEPT ![r] = "gone"]
    BY <1>2 DEF UnknownServer
  <2> QED
    BY <1>1, <2>1, <2>2, <2>3, MoveKeeps DEF Inv, PC, Past
<1>3. CASE AllowedByServer(r)
  <2>1. Frozen'
    BY <1>1, <1>3 DEF AllowedByServer, Frozen
  <2>2. /\ pc' = [pc EXCEPT ![r] = "body"] /\ Known(Srv(r))
        /\ asked[r].tool \in Servers[Srv(r)].allow
    BY <1>3 DEF AllowedByServer
  <2> QED
    BY <1>1, <2>1, <2>2, MoveKeeps DEF Inv, PC
<1>4. CASE MergeBegin(r)
  <2>1. Frozen'
    BY <1>1, <1>4 DEF MergeBegin, Frozen
  <2>2. pc' = [pc EXCEPT ![r] = "merging"] /\ Known(Srv(r))
    BY <1>4 DEF MergeBegin
  <2> QED
    BY <1>1, <2>1, <2>2, MoveKeeps DEF Inv, PC, Past, Checked
<1>5. CASE MergeEnd(r)
  <2>1. pc[r] = "merging" /\ Known(Srv(r)) /\ Srv(r) \in Listed
    BY <1>1, <1>5 DEF MergeEnd, Checked, Known
  <2>2. Frozen'
    BY <1>1, <1>5, <2>1, ReadingKeeps DEF MergeEnd
  <2>3. GetServerSpec(Srv(r), Tgt(r)).allow = Declared(Srv(r), Tgt(r)).allow
    BY <1>1, <2>1, SpecOfServer
  <2>4. \/ /\ pc' = [pc EXCEPT ![r] = "body"]
           /\ asked[r].tool \in Declared(Srv(r), Tgt(r)).allow
        \/ pc' = [pc EXCEPT ![r] = "unlisted"]
    BY <1>5, <2>3 DEF MergeEnd
  <2>5. CASE pc' = [pc EXCEPT ![r] = "unlisted"]
    BY <1>1, <2>1, <2>2, <2>5, MoveKeeps DEF Inv, PC, Past, Checked
  <2> QED
    BY <1>1, <2>1, <2>2, <2>4, <2>5, MoveKeeps DEF Inv, PC
<1>6. CASE NotAllowed(r)
  <2>1. pc[r] = "unlisted" /\ Known(Srv(r)) /\ Srv(r) \in Listed
    BY <1>1, <1>6 DEF NotAllowed, Checked, Known
  <2>2. Frozen'
    BY <1>1, <1>6, <2>1, ReadingKeeps DEF NotAllowed
  <2>3. pc' = [pc EXCEPT ![r] = "gone"]
    BY <1>6 DEF NotAllowed
  <2> QED
    BY <1>1, <2>2, <2>3, MoveKeeps DEF Inv, PC, Past, Checked
<1> QED
  BY <1>2, <1>3, <1>4, <1>5, <1>6

\* The steps after it: a handler that is past the allowlist stays past it.
LEMMA CallStep ==
  ASSUME Inv, NEW r \in Request,
         \/ BadBody(r) \/ ReadBody(r) \/ DialError(r) \/ DialOk(r)
         \/ SendOk(r) \/ SendError(r) \/ CheckCtx(r) \/ ReadError(r) \/ Return(r)
         \/ \E a \in Arrival : Answer(r, a)
  PROVE  Inv'
<1> USE DEF Refuse, Move, Leave, Skip
<1>1. Frozen /\ Checked
  BY DEF Inv
<1>2. UNCHANGED <<common, asked>>
  BY DEF BadBody, ReadBody, DialError, DialOk, SendOk, SendError, CheckCtx, ReadError,
         Return, Answer, Initialized
<1>3. Frozen'
  BY <1>1, <1>2 DEF Frozen
<1>4. pc[r] \in Past
  BY DEF Past, BadBody, ReadBody, DialError, DialOk, SendOk, SendError, CheckCtx,
         ReadError, Return, Answer, Initialized
<1>5. \E to \in PC : to \notin {"merging", "unlisted"} /\ pc' = [pc EXCEPT ![r] = to]
  BY DEF PC, BadBody, ReadBody, DialError, DialOk, SendOk, SendError, CheckCtx,
         ReadError, Return, Answer, Initialized
<1>6. phase' = phase \/ \E p \in Phase : phase' = [phase EXCEPT ![r] = p]
  BY DEF Phase, callVars, BadBody, ReadBody, DialError, DialOk, SendOk, SendError,
         CheckCtx, ReadError, Return, Answer, Initialized
<1>7. /\ Known(Srv(r))
      /\ asked[r].tool \in Servers[Srv(r)].allow \cup Declared(Srv(r), Tgt(r)).allow
  BY <1>1, <1>4 DEF Checked
<1> QED
  BY <1>1, <1>2, <1>3, <1>5, <1>6, <1>7, MoveKeeps DEF Inv

\* Every step keeps the invariant.
LEMMA NextInv == Inv /\ [Next]_vars => Inv'
<1> SUFFICES ASSUME Inv, [Next]_vars PROVE Inv'
  OBVIOUS
<1>1. ASSUME NEW r \in Request,
             \/ UnknownServer(r) \/ AllowedByServer(r) \/ MergeBegin(r) \/ MergeEnd(r)
             \/ NotAllowed(r) \/ BadBody(r) \/ ReadBody(r)
             \/ DialError(r) \/ DialOk(r) \/ SendOk(r) \/ SendError(r) \/ CheckCtx(r)
             \/ ReadError(r) \/ Return(r)
             \/ \E a \in Arrival : Answer(r, a)
      PROVE  Inv'
  BY <1>1, AllowStep, CallStep
<1>2. ASSUME \/ UNCHANGED vars \/ ConcurrentMapWrites
             \/ \E r \in Request : CtxDone(r) \/ WatcherEnds(r)
      PROVE  Inv'
  <2>1. UNCHANGED <<common, asked, pc, phase>>
    BY <1>2 DEF vars, callVars, ConcurrentMapWrites, CtxDone, WatcherEnds
  <2> QED
    BY <2>1 DEF Inv, Frozen, Checked, Srv, Tgt, Known, Declared, HasTarget
<1> QED
  BY <1>1, <1>2 DEF Next

\* The invariant holds throughout.
LEMMA Invariance == Spec => []Inv
<1> QED
  BY InitInv, NextInv, PTL DEF Spec

\* For every registry file and any number of concurrent requests, a tool is
\* called only if the file allows it for the server or the profile asked for:
\* that reading a spec writes into the registry never reaches the allowlists.
THEOREM CallsAreAllowed == Spec => []OnlyAllowedCalled
<1>1. Inv => OnlyAllowedCalled
  BY DEF Inv, Checked, OnlyAllowedCalled
<1> QED
  BY <1>1, Invariance, PTL
\* The variables that Inv says nothing of.
Rest ==
    /\ asked \in [Request -> [server : Server, target : Target, tool : Tool]]
    /\ status \in [Request -> Status]
    /\ ctx \subseteq Request /\ conn \subseteq Request /\ watcher \subseteq Request
    /\ crashed \in BOOLEAN

\* They keep their types.
LEMMA RestStep == Rest /\ [Next]_vars => Rest'
<1> SUFFICES ASSUME Rest, [Next]_vars PROVE Rest'
  OBVIOUS
<1> USE DEF Rest, Refuse, Move, Leave, Skip
<1>1. ASSUME NEW r \in Request,
             \/ UnknownServer(r) \/ AllowedByServer(r) \/ MergeBegin(r) \/ MergeEnd(r)
             \/ NotAllowed(r) \/ BadBody(r) \/ ReadBody(r)
             \/ DialError(r) \/ DialOk(r) \/ SendOk(r) \/ SendError(r) \/ CheckCtx(r)
             \/ ReadError(r) \/ Return(r)
             \/ \E a \in Arrival : Answer(r, a)
      PROVE  Rest'
  <2>1. UNCHANGED <<asked, crashed>>
    BY <1>1 DEF UnknownServer, AllowedByServer, MergeBegin, MergeEnd, NotAllowed,
         BadBody, ReadBody, DialError, DialOk, SendOk, SendError, CheckCtx, ReadError,
         Return, Answer, Initialized
  <2>2. ctx' \subseteq Request /\ conn' \subseteq Request /\ watcher' \subseteq Request
    BY <1>1 DEF UnknownServer, AllowedByServer, MergeBegin, MergeEnd, NotAllowed,
         BadBody, ReadBody, DialError, DialOk, SendOk, SendError, CheckCtx, ReadError,
         Return, Answer, Initialized, callVars
  <2>3. status' = status \/ \E code \in Status : status' = [status EXCEPT ![r] = code]
    BY <1>1 DEF UnknownServer, AllowedByServer, MergeBegin, MergeEnd, NotAllowed,
         BadBody, ReadBody, DialError, DialOk, SendOk, SendError, CheckCtx, ReadError,
         Return, Answer, Initialized, Status
  <2> QED
    BY <2>1, <2>2, <2>3
<1>2. ASSUME \/ UNCHANGED vars \/ ConcurrentMapWrites
             \/ \E r \in Request : CtxDone(r) \/ WatcherEnds(r)
      PROVE  Rest'
  BY <1>2 DEF vars, callVars, ConcurrentMapWrites, CtxDone, WatcherEnds
<1> QED
  BY <1>1, <1>2 DEF Next

\* Every variable keeps its type for every registry file: merging specs, in
\* place as it is done, never makes a spec ill-formed.
THEOREM TypeCorrect == Spec => []TypeOK
<1>1. Init => Rest
  BY DEF Init, Rest, Status
<1>2. Spec => []Rest
  BY <1>1, RestStep, PTL DEF Spec
<1>3. Inv /\ Rest => TypeOK
  BY DEF Inv, Frozen, Checked, Rest, TypeOK
<1> QED
  BY <1>2, <1>3, Invariance, PTL
-----------------------------------------------------------------------------
(* Connections, their watchers, and the fatal error.                       *)

\* An open connection is that of a handler in its call, and has its watcher: so
\* a read without a deadline ends when the context does, and nothing is open
\* once the handler is gone.
Guarded ==
    \A r \in conn : r \in watcher /\ pc[r] \in {"sending", "checking", "reading", "returning"}

\* Every step keeps it.
LEMMA GuardedStep == Inv /\ Guarded /\ [Next]_vars => Guarded'
<1> SUFFICES ASSUME Inv, Guarded, [Next]_vars PROVE Guarded'
  OBVIOUS
<1> DEFINE InCall == {"sending", "checking", "reading", "returning"}
<1>1. pc \in [Request -> PC]
  BY DEF Inv, Checked
<1>2. ASSUME NEW r \in Request, NEW to, pc' = [pc EXCEPT ![r] = to],
             UNCHANGED <<conn, watcher>>, pc[r] \notin InCall \/ to \in InCall
      PROVE  Guarded'
  BY <1>1, <1>2 DEF Guarded
<1>3. ASSUME NEW r \in Request,
             \/ UnknownServer(r) \/ AllowedByServer(r) \/ MergeBegin(r) \/ MergeEnd(r)
             \/ NotAllowed(r) \/ BadBody(r) \/ ReadBody(r) \/ DialError(r)
      PROVE  Guarded'
  <2>1. UNCHANGED <<conn, watcher>> /\ pc[r] \notin InCall
    BY <1>3 DEF UnknownServer, AllowedByServer, MergeBegin, MergeEnd, NotAllowed, BadBody,
         ReadBody, DialError, Refuse, Move, callVars
  <2>2. \E to \in PC : pc' = [pc EXCEPT ![r] = to]
    BY <1>3 DEF UnknownServer, AllowedByServer, MergeBegin, MergeEnd, NotAllowed, BadBody,
         ReadBody, DialError, Refuse, Move, PC
  <2> QED
    BY <1>2, <2>1, <2>2
<1>4. ASSUME NEW r \in Request,
             \/ SendOk(r) \/ SendError(r) \/ CheckCtx(r) \/ ReadError(r)
             \/ \E a \in Arrival : Answer(r, a)
      PROVE  Guarded'
  <2>1. /\ UNCHANGED <<conn, watcher>>
        /\ \E to \in InCall : pc' = [pc EXCEPT ![r] = to]
    BY <1>4 DEF SendOk, SendError, CheckCtx, ReadError, Answer, Initialized, Skip, Leave,
         Move, callVars
  <2> QED
    BY <1>2, <2>1
<1>5. ASSUME NEW r \in Request, DialOk(r) PROVE Guarded'
  <2>1. /\ conn' = conn \cup {r} /\ watcher' = watcher \cup {r}
        /\ pc' = [pc EXCEPT ![r] = "sending"]
    BY <1>5 DEF DialOk, Move
  <2> QED
    BY <1>1, <2>1 DEF Guarded
<1>6. ASSUME NEW r \in Request, Return(r) PROVE Guarded'
  <2>1. conn' = conn \ {r} /\ watcher' = watcher /\ pc' = [pc EXCEPT ![r] = "gone"]
    BY <1>6 DEF Return, Move
  <2> QED
    BY <1>1, <2>1 DEF Guarded
<1>7. ASSUME NEW r \in Request, WatcherEnds(r) PROVE Guarded'
  <2>1. /\ watcher' = watcher \ {r} /\ pc' = pc
        /\ conn' = conn \ {r} \/ (pc[r] = "gone" /\ conn' = conn)
    BY <1>7 DEF WatcherEnds
  <2>2. pc[r] = "gone" => r \notin conn
    BY DEF Guarded
  <2> QED
    BY <2>1, <2>2 DEF Guarded
<1>8. ASSUME \/ UNCHANGED vars \/ ConcurrentMapWrites \/ \E r \in Request : CtxDone(r)
      PROVE  Guarded'
  BY <1>8 DEF vars, callVars, ConcurrentMapWrites, CtxDone, Guarded
<1> QED
  BY <1>3, <1>4, <1>5, <1>6, <1>7, <1>8 DEF Next

\* Against any backend, and with any number of requests, no connection is without
\* the watcher that closes it, and no handler leaves one behind.
THEOREM ConnectionsGuarded == Spec => []Guarded
<1>1. Init => Guarded
  BY DEF Init, Guarded
<1> QED
  BY <1>1, GuardedStep, Invariance, PTL DEF Spec

\* No server has variables both in common and for a target.
Unshared ==
    \A s \in Listed : \A t \in DOMAIN Servers[s].targets :
        \/ Servers[s].common.env = NoEnv
        \/ Servers[s].targets[t].env = NoEnv
        \/ DOMAIN Servers[s].targets[t].env = {}

\* Reading such a registry gives what the file says, and changes nothing.
LEMMA UnsharedRead ==
  ASSUME Unshared, Load, NEW s \in Listed, NEW t
  PROVE  /\ ~WritesCommon(s, t)
         /\ CommonAfter(s, t) = common
         /\ GetServerSpec(s, t) = Declared(s, t)
<1>1. common[s] = Servers[s].common
  BY DEF Load
<1>2. ~WritesCommon(s, t)
  BY <1>1 DEF Unshared, WritesCommon, HasTarget
<1>3. CommonAfter(s, t) = common
  <2>1. CommonAfter(s, t) = [common EXCEPT ![s].env = common[s].env]
    BY <1>2 DEF CommonAfter
  <2>2. IsSpec(common[s])
    BY <1>1, RegistryAssumption
  <2>3. [common[s] EXCEPT !.env = common[s].env] = common[s]
    BY <2>2 DEF IsSpec
  <2> QED
    BY <2>1, <2>3 DEF Load
<1> QED
  BY <1>1, <1>2, <1>3 DEF GetServerSpec, Declared

\* The registry stays as loaded, and no two goroutines write one map.
AsLoaded == Load /\ ~crashed

\* With no map shared between common and a target, requests never change the
\* registry nor end the process: the write to the shared map is the only reason
\* that concurrent tool calls can.
THEOREM SafeUnlessShared ==
  ASSUME Unshared
  PROVE  Spec => []AsLoaded
<1>1. Init => AsLoaded
  BY DEF Init, AsLoaded
<1>2. Inv /\ AsLoaded /\ [Next]_vars => AsLoaded'
  <2> SUFFICES ASSUME Inv, AsLoaded, [Next]_vars PROVE AsLoaded'
    OBVIOUS
  <2>1. Load /\ ~crashed
    BY DEF AsLoaded
  <2>2. ASSUME NEW r \in Request, pc[r] \in {"merging", "unlisted"}
        PROVE  Srv(r) \in Listed
    BY <2>2 DEF Inv, Checked, Known
  <2>3. ASSUME NEW r \in Request, MergeEnd(r) \/ NotAllowed(r)
        PROVE  UNCHANGED <<common, crashed>>
    <3>1. /\ pc[r] \in {"merging", "unlisted"}
          /\ common' = CommonAfter(Srv(r), Tgt(r)) /\ crashed' = crashed
      BY <2>3 DEF MergeEnd, NotAllowed, Refuse, Move
    <3> QED
      BY <2>1, <2>2, <3>1, UnsharedRead
  <2>4. ~ConcurrentMapWrites
    <3> SUFFICES ASSUME ConcurrentMapWrites PROVE FALSE
      OBVIOUS
    <3>1. PICK r \in Request : InMap(r)
      BY DEF ConcurrentMapWrites
    <3> QED
      BY <2>1, <2>2, <3>1, UnsharedRead DEF InMap
  <2>5. ASSUME NEW r \in Request,
               \/ UnknownServer(r) \/ AllowedByServer(r) \/ MergeBegin(r) \/ BadBody(r)
               \/ ReadBody(r) \/ CtxDone(r) \/ DialError(r) \/ DialOk(r) \/ SendOk(r)
               \/ SendError(r) \/ CheckCtx(r) \/ ReadError(r) \/ WatcherEnds(r) \/ Return(r)
               \/ \E a \in Arrival : Answer(r, a)
        PROVE  UNCHANGED <<common, crashed>>
    BY <2>5 DEF UnknownServer, AllowedByServer, MergeBegin, BadBody, ReadBody, CtxDone,
         DialError, DialOk, SendOk, SendError, CheckCtx, ReadError, WatcherEnds, Return,
         Answer, Initialized, Skip, Leave, Refuse, Move
  <2>6. CASE UNCHANGED <<common, crashed>>
    BY <2>1, <2>6 DEF AsLoaded, Load
  <2> QED
    BY <2>3, <2>4, <2>5, <2>6 DEF Next, vars
<1> QED
  BY <1>1, <1>2, Invariance, PTL DEF Spec

=============================================================================
