------------------------------ MODULE ToolCall ------------------------------
(***************************************************************************)
(* REST tool calls of the gateway: ToolCallHandler and Hub.CallTool of     *)
(* pkg/gateway/toolcall.go, and the registry they are checked against.     *)
(*                                                                         *)
(* Each request is a goroutine of the HTTP server.  It dials a connection  *)
(* of its own, with a watcher goroutine that closes it when the context    *)
(* ends: by its timeout, or because the caller has left.  The timeout      *)
(* starts after the body is read; the server sets no read timeout, so a    *)
(* caller who sends no body keeps his handler.  The backend is external:   *)
(* it answers a request at most once, with a result, an error or garbage,  *)
(* sends anything else at any time, may be silent and may disconnect.      *)
(*                                                                         *)
(* A panic of one handler would end that request only, but two goroutines  *)
(* in one map are a fatal error of the runtime, or go unnoticed.           *)
(***************************************************************************)
EXTENDS Registry

CONSTANT Request

VARIABLES
    asked,      \* [Request -> [server, target, tool]]: path and ?profile=
    pc,         \* [Request -> PC]: where the handler is
    phase,      \* [Request -> Phase]: the request the backend was last sent
    ctx,        \* requests whose context is done
    conn,       \* requests with an open backend connection
    watcher,    \* requests whose watcher goroutine runs
    status,     \* [Request -> Status]: what the caller got
    crashed     \* the runtime has ended the process

callVars == <<phase, ctx, conn, watcher>>
vars == <<common, asked, pc, callVars, status, crashed>>

PC == {"new", "merging", "unlisted", "body", "dialing", "sending", "checking",
       "reading", "returning", "gone"}
Phase == {"none", "initialize", "tools/call"}
Status == {"none", "200", "400", "403", "404", "502"}
\* What a read may bring, `other` being what does not carry the id waited for.
Arrival == {"result", "isError", "error", "malformed", "other"}

Init ==
    /\ Load
    /\ asked \in [Request -> [server : Server, target : Target, tool : Tool]]
    /\ pc = [r \in Request |-> "new"] /\ phase = [r \in Request |-> "none"]
    /\ ctx = {} /\ conn = {} /\ watcher = {}
    /\ status = [r \in Request |-> "none"]
    /\ crashed = FALSE

Srv(r) == asked[r].server
Tgt(r) == asked[r].target
Known(s) == s \in Listed /\ ~Servers[s].local

Move(r, from, to) ==
    /\ ~crashed
    /\ pc[r] = from
    /\ pc' = [pc EXCEPT ![r] = to]
    /\ UNCHANGED <<asked, crashed>>

\* The handler returns without having called a backend.
Refuse(r, from, code) ==
    /\ Move(r, from, "gone")
    /\ status' = [status EXCEPT ![r] = code]
    /\ UNCHANGED callVars
-----------------------------------------------------------------------------
(* The allowlist.                                                          *)

UnknownServer(r) ==
    /\ ~Known(Srv(r))
    /\ Refuse(r, "new", "404")
    /\ UNCHANGED common

\* IsToolAlwaysAllowed returns before it merges anything.
AllowedByServer(r) ==
    /\ Known(Srv(r)) /\ asked[r].tool \in Servers[Srv(r)].allow
    /\ Move(r, "new", "body")
    /\ UNCHANGED <<common, callVars, status>>

MergeBegin(r) ==
    /\ Known(Srv(r)) /\ asked[r].tool \notin Servers[Srv(r)].allow
    /\ Move(r, "new", "merging")
    /\ UNCHANGED <<common, callVars, status>>

MergeEnd(r) ==
    /\ Move(r, "merging",
            IF asked[r].tool \in GetServerSpec(Srv(r), Tgt(r)).allow THEN "body" ELSE "unlisted")
    /\ common' = CommonAfter(Srv(r), Tgt(r))
    /\ UNCHANGED <<callVars, status>>

\* Not allowed: the spec is merged once more to tell unknown tools apart.
NotAllowed(r) ==
    LET tools == GetServerSpec(Srv(r), Tgt(r)).tools IN
    /\ Refuse(r, "unlisted", IF tools # {} /\ asked[r].tool \notin tools THEN "404" ELSE "403")
    /\ common' = CommonAfter(Srv(r), Tgt(r))

\* The runtime finds two goroutines writing one map.
InMap(r) == pc[r] \in {"merging", "unlisted"} /\ WritesCommon(Srv(r), Tgt(r))
ConcurrentMapWrites ==
    /\ ~crashed
    /\ \E q, r \in Request : q # r /\ InMap(q) /\ InMap(r) /\ Srv(q) = Srv(r)
    /\ crashed' = TRUE
    /\ UNCHANGED <<common, asked, pc, callVars, status>>
-----------------------------------------------------------------------------
(* The call.                                                               *)

\* Mutant of BadBody: a long body is answered apart.
BadBodyTooLong(r) ==
    /\ Refuse(r, "body", "413")
    /\ UNCHANGED common

BadBody(r) ==
    /\ Refuse(r, "body", "400")
    /\ UNCHANGED common

ReadBody(r) ==
    /\ Move(r, "body", "dialing")
    /\ UNCHANGED <<common, callVars, status>>

\* The timeout, from now on, or at any time the caller leaving.
CtxDone(r) ==
    /\ ~crashed
    /\ pc[r] \notin {"new", "gone"} /\ r \notin ctx
    /\ ctx' = ctx \cup {r}
    /\ UNCHANGED <<common, asked, pc, phase, conn, watcher, status, crashed>>

\* No usable backend URL, the dial fails, or the context ends it.
DialError(r) ==
    /\ Refuse(r, "dialing", "502")
    /\ UNCHANGED common

DialOk(r) ==
    /\ Move(r, "dialing", "sending")
    /\ conn' = conn \cup {r} /\ watcher' = watcher \cup {r}
    /\ phase' = [phase EXCEPT ![r] = "initialize"]
    /\ UNCHANGED <<common, ctx, status>>

\* CallTool is left with `code` to be answered.
Leave(r, from, code) ==
    /\ Move(r, from, "returning")
    /\ status' = [status EXCEPT ![r] = code]
    /\ UNCHANGED <<common, callVars>>

\* `initialize`, or the notification and then tools/call.
SendOk(r) ==
    /\ r \in conn
    /\ Move(r, "sending", "checking")
    /\ UNCHANGED <<common, callVars, status>>

\* Closed by the watcher, or by the backend.
SendError(r) == Leave(r, "sending", "502")

\* The head of the loop of readToolCallResponse.
CheckCtx(r) ==
    /\ IF r \in ctx THEN Leave(r, "checking", "502")
       ELSE /\ Move(r, "checking", "reading")
            /\ UNCHANGED <<common, callVars, status>>

\* Closed by the watcher, or by the backend.
ReadError(r) == Leave(r, "reading", "502")

Skip(r) ==
    /\ Move(r, "reading", "checking")
    /\ UNCHANGED <<common, callVars, status>>

Initialized(r) ==
    /\ phase[r] = "initialize"
    /\ Move(r, "reading", "sending")
    /\ phase' = [phase EXCEPT ![r] = "tools/call"]
    /\ UNCHANGED <<common, ctx, conn, watcher, status>>

\* The reply to the request of the phase decides; a reply of initialize is not
\* looked into.
Answer(r, a) ==
    \/ a = "other" /\ Skip(r)
    \/ a \in {"error", "malformed"} /\ Leave(r, "reading", "502")
    \/ a = "result" /\ Initialized(r)
    \/ a = "result" /\ phase[r] = "tools/call" /\ Leave(r, "reading", "200")
    \/ a = "isError" /\ phase[r] = "tools/call" /\ Leave(r, "reading", "502")

\* Mutant of WatcherEnds: it looks at `done` only.
WatcherEndsLate(r) ==
    /\ ~crashed
    /\ r \in watcher /\ pc[r] = "gone"
    /\ watcher' = watcher \ {r}
    /\ UNCHANGED <<common, asked, pc, phase, ctx, conn, status, crashed>>

\* The watcher: whichever of the two channels it sees first, if both are closed.
WatcherEnds(r) ==
    /\ ~crashed
    /\ r \in watcher
    /\ \/ r \in ctx /\ conn' = conn \ {r}
       \/ pc[r] = "gone" /\ UNCHANGED conn
    /\ watcher' = watcher \ {r}
    /\ UNCHANGED <<common, asked, pc, phase, ctx, status, crashed>>

\* The deferred calls: close(done), conn.Close, cancel.
Return(r) ==
    /\ Move(r, "returning", "gone")
    /\ conn' = conn \ {r}
    /\ ctx' = ctx \cup {r}
    /\ UNCHANGED <<common, phase, watcher, status>>
-----------------------------------------------------------------------------
Next ==
    \/ \E r \in Request :
          \/ UnknownServer(r) \/ AllowedByServer(r) \/ MergeBegin(r) \/ MergeEnd(r)
          \/ NotAllowed(r) \/ BadBody(r) \/ ReadBody(r) \/ CtxDone(r)
          \/ DialError(r) \/ DialOk(r) \/ SendOk(r) \/ SendError(r) \/ CheckCtx(r)
          \/ ReadError(r) \/ WatcherEnds(r) \/ Return(r)
          \/ \E a \in Arrival : Answer(r, a)
    \/ ConcurrentMapWrites

Spec == Init /\ [][Next]_vars

\* Goroutines run, and the timeout fires.  A send, a read or a dial is only
\* sure to end once its connection is closed or its context done: the backend
\* may take and bring nothing.  Nothing makes a caller send his body.
Calling == {"dialing", "sending", "checking", "reading"}
Fairness == \A r \in Request :
    /\ WF_vars(MergeEnd(r)) /\ WF_vars(NotAllowed(r))
    /\ WF_vars(CtxDone(r) /\ pc[r] \in Calling)
    /\ WF_vars(DialError(r) /\ r \in ctx)
    /\ WF_vars(SendError(r) /\ r \notin conn) /\ WF_vars(ReadError(r) /\ r \notin conn)
    /\ WF_vars(CheckCtx(r)) /\ WF_vars(Return(r)) /\ WF_vars(WatcherEnds(r))

FairSpec == Spec /\ Fairness
-----------------------------------------------------------------------------
\* Every variable of the handlers and of the registry keeps its type.
TypeOK ==
    /\ DOMAIN common = Listed /\ \A s \in Listed : IsSpec(common[s])
    /\ asked \in [Request -> [server : Server, target : Target, tool : Tool]]
    /\ pc \in [Request -> PC] /\ phase \in [Request -> Phase]
    /\ status \in [Request -> Status]
    /\ ctx \subseteq Request /\ conn \subseteq Request /\ watcher \subseteq Request
    /\ crashed \in BOOLEAN

\* A tool is called only where the registry file allows it for the server or
\* for the profile asked for, whatever other profiles were merged before or at
\* the same time: "only tools listed there for the target server may be invoked"
\* (toolcall.go:41).
OnlyAllowedCalled ==
    \A r \in Request : phase[r] # "none" =>
        /\ Known(Srv(r))
        /\ asked[r].tool \in Servers[Srv(r)].allow \cup Declared(Srv(r), Tgt(r)).allow

\* Once its body is there every request is answered, and neither its connection
\* nor its watcher stays: against a backend that says nothing, one that talks on
\* without answering, and one that takes nothing.
Answered ==
    \A r \in Request : pc[r] \notin {"new", "body"} ~>
        (pc[r] = "gone" /\ r \notin conn \cup watcher) \/ pc[r] = "body" \/ crashed
=============================================================================
