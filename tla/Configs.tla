------------------------------ MODULE Configs ------------------------------
(***************************************************************************)
(* The client configurations of pkg/generator/configs.go: one file per     *)
(* target, written in the order of the targets from one registry in        *)
(* memory, whose common specs every GetServerSpec shares (see Registry).   *)
(*                                                                         *)
(* A file is the set of its entries.  Formats differ in what they keep of  *)
(* an allowlist; wording, layout and the order of entries are left out.    *)
(***************************************************************************)
EXTENDS Registry, Naturals, Sequences, TLC

CONSTANTS
    ResolveTokens(_),   \* ${repo} and ${HOME} in a value; secret references stay
    Asked,              \* the lists of targets that may be asked for
    wrapper, proxyBinary, fi_mcp,
    AllTools            \* "*"

VARIABLES
    targets,            \* the list of targets
    hubMode, proxyMode, \* flags
    done,               \* how many targets are written
    files,              \* [Target -> entries], of what has been written
    failed              \* MkdirAll or WriteFile failed

vars == <<common, targets, hubMode, proxyMode, done, files, failed>>

JSONTargets == {"vscode", "antigravity", "example_client"}

Init ==
    /\ Load
    /\ targets \in Asked
    /\ hubMode \in BOOLEAN /\ proxyMode \in BOOLEAN
    /\ done = 0 /\ files = <<>> /\ failed = FALSE

\* The copy of Env that is written, a nil map being an empty one.
Resolved(env) == IF env = NoEnv THEN <<>> ELSE [n \in DOMAIN env |-> ResolveTokens(env[n])]

convertToHubMode(spec) == [spec EXCEPT !.command = wrapper, !.tools = {}]

\* The entry of server s, and whether it has one.
Prepared(s, t) ==
    LET spec == [GetServerSpec(s, t) EXCEPT !.env = Resolved(@)]
    IN  IF hubMode /\ ~Servers[s].local THEN convertToHubMode(spec) ELSE spec

buildTargetMap(t) ==
    IF proxyMode
    THEN fi_mcp :> [command |-> proxyBinary, env |-> <<>>, allow |-> {}, tools |-> {}]
    ELSE [s \in {x \in Listed : Prepared(x, t).command # NoCommand} |-> Prepared(s, t)]

\* The formats of an entry: JSON has no allowlist, Kilo allows all tools of a
\* server without one.
Entry(spec, allow) == [command |-> spec.command, env |-> spec.env, allow |-> allow]
JSONEntry(spec) == Entry(spec, {})
DesktopEntry(spec) == Entry(spec, {})
KiloEntry(spec) == Entry(spec, IF spec.allow = {} THEN {AllTools} ELSE spec.allow)
TomlEntry(spec) == Entry(spec, spec.allow)

Format(t, spec) ==
    CASE t \in JSONTargets -> JSONEntry(spec)
      [] t = "example_desktop" -> DesktopEntry(spec)
      [] t = "kilocode" -> KiloEntry(spec)
      [] OTHER -> TomlEntry(spec)

Written(t) == LET map == buildTargetMap(t) IN [s \in DOMAIN map |-> Format(t, map[s])]

\* The registry after GetServerSpec(s, t) for every server s.
AfterAll(t) ==
    IF proxyMode THEN common ELSE [s \in Listed |-> CommonAfter(s, t)[s]]

\* generateJSONConfig, generateKiloJSONConfig, generateExampleDesktopConfig or
\* generateTomlConfig, for the next target.
Generate ==
    /\ ~failed /\ done < Len(targets)
    /\ LET t == targets[done + 1] IN
          /\ files' = (t :> Written(t)) @@ files
          /\ common' = AfterAll(t)
    /\ done' = done + 1
    /\ UNCHANGED <<targets, hubMode, proxyMode, failed>>

\* The first error ends the loop; files written before it stay.
Fail ==
    /\ ~failed /\ done < Len(targets)
    /\ failed' = TRUE
    /\ common' = AfterAll(targets[done + 1])
    /\ UNCHANGED <<targets, hubMode, proxyMode, done, files>>

Next == Generate \/ Fail

Spec == Init /\ [][Next]_vars
-----------------------------------------------------------------------------
\* A configuration holds the variables of its own target only: those of Common
\* with the target's merged over them.  "GetServerSpec returns the effective spec
\* for a server and target, merging common with target-specific config"
\* (registry.go:262).
EnvOfTarget ==
    \A t \in DOMAIN files : \A s \in DOMAIN files[t] \cap Listed :
        files[t][s].env = Resolved(Declared(s, t).env)
=============================================================================
