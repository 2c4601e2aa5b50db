----------------------------- MODULE MCConfigs -----------------------------
\* A registry for TLC: `a` has an Env map in Common that two of its targets add
\* to, `b` has none, `l` is local-only and has a command for one target only.
EXTENDS Configs

CONSTANTS a, b, l, cmd, VAR, OPT, token, path, bin, tool

Spec0 == [command |-> NoCommand, env |-> NoEnv, allow |-> {}, tools |-> {}]
Set(n, v) == [x \in {n} |-> v]

ToServers ==
    (a :> [local |-> FALSE, allow |-> {},
           common |-> [Spec0 EXCEPT !.command = cmd, !.env = Set(VAR, token), !.allow = {tool}],
           targets |-> ("codex" :> [Spec0 EXCEPT !.env = Set(OPT, token)])
                    @@ ("vscode" :> [Spec0 EXCEPT !.env = Set(VAR, bin), !.command = bin])])
 @@ (b :> [local |-> FALSE, allow |-> {},
           common |-> [Spec0 EXCEPT !.command = cmd],
           targets |-> "codex" :> [Spec0 EXCEPT !.env = Set(VAR, token)]])
 @@ (l :> [local |-> TRUE, allow |-> {}, common |-> Spec0,
           targets |-> "kilocode" :> [Spec0 EXCEPT !.command = cmd]])

ToPath(v) == IF v = token THEN path ELSE v
ToAsked == {<<"codex", "kilocode", "vscode", "example_client">>, <<"codex">>, <<"vscode", "codex">>}
=============================================================================
