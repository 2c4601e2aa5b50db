----------------------------- MODULE MCToolCall -----------------------------
\* A registry for TLC: `a` has an Env map in Common that its target shares, and
\* lists of allowed tools on both; `b` allows on the server, has static tools
\* and no Env map in Common; `l` is local-only and `u` is not in the file.
EXTENDS ToolCall, TLC

CONSTANTS a, b, l, u, codex, t1, t2, VAR, old, new

Spec0 == [command |-> NoCommand, env |-> NoEnv, allow |-> {}, tools |-> {}]
Set(n, v) == [x \in {n} |-> v]

ToServers ==
    (a :> [local |-> FALSE, allow |-> {},
           common |-> [Spec0 EXCEPT !.env = Set(VAR, old), !.allow = {t1}],
           targets |-> codex :> [Spec0 EXCEPT !.env = Set(VAR, new), !.allow = {t2}]])
 @@ (b :> [local |-> FALSE, allow |-> {t1},
           common |-> [Spec0 EXCEPT !.tools = {t1}],
           targets |-> codex :> [Spec0 EXCEPT !.env = Set(VAR, new)]])
 @@ (l :> [local |-> TRUE, allow |-> {t1}, common |-> Spec0, targets |-> <<>>])
=============================================================================
