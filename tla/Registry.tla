------------------------------ MODULE Registry ------------------------------
(***************************************************************************)
(* The server registry of pkg/registry/registry.go, loaded once and then   *)
(* read by goroutines that share it.                                       *)
(*                                                                         *)
(* A spec keeps the fields that are told apart here: `command` stands for  *)
(* every field that a target replaces when it sets it (description, args,  *)
(* hint, timeout, type, ssh), `allow` is AlwaysAllow and `tools` the       *)
(* static tools.  GetServerSpec copies the common spec shallowly, so its   *)
(* Env map is the one map of Common, and merging a target's Env writes     *)
(* into it: reading a spec changes the registry.  `common` is what the     *)
(* Common pointers lead to.  Names are unique: GetServer finds the first.  *)
(***************************************************************************)
EXTENDS FiniteSets

CONSTANTS
    Server, Target, Tool, Name, Value, Command,
    NoCommand,      \* the empty string
    NoEnv,          \* the nil map
    Servers         \* the file: [Listed -> [local, allow, common, targets]]

Listed == DOMAIN Servers

IsEnv(e) == e = NoEnv \/ \E ns \in SUBSET Name : e \in [ns -> Value]
IsSpec(x) ==
    /\ x \in [command : Command \cup {NoCommand}, env : {x.env},
              allow : SUBSET Tool, tools : SUBSET Tool]
    /\ IsEnv(x.env)

ASSUME RegistryAssumption ==
    /\ Listed \subseteq Server
    /\ \A s \in Listed :
          /\ Servers[s].local \in BOOLEAN /\ Servers[s].allow \subseteq Tool
          /\ IsSpec(Servers[s].common)
          /\ DOMAIN Servers[s].targets \subseteq Target
          /\ \A t \in DOMAIN Servers[s].targets : IsSpec(Servers[s].targets[t])
    /\ NoCommand \notin Command
    /\ \A ns \in SUBSET Name : NoEnv \notin [ns -> Value]

VARIABLE common     \* [Listed -> specs]: what Server.Common holds by now

Load == common = [s \in Listed |-> Servers[s].common]

Override(new, old, empty) == IF new = empty THEN old ELSE new

\* The Env of a merge: a nil map of dst is replaced by a fresh one.
MergedEnv(dst, src) ==
    IF src = NoEnv THEN dst
    ELSE IF dst = NoEnv THEN src
    ELSE [n \in DOMAIN src \cup DOMAIN dst |-> IF n \in DOMAIN src THEN src[n] ELSE dst[n]]

mergeSpec(dst, src) ==
    [command |-> Override(src.command, dst.command, NoCommand),
     env     |-> MergedEnv(dst.env, src.env),
     allow   |-> Override(src.allow, dst.allow, {}),
     tools   |-> Override(src.tools, dst.tools, {})]

HasTarget(s, t) == t \in DOMAIN Servers[s].targets

GetServerSpec(s, t) ==
    IF HasTarget(s, t) THEN mergeSpec(common[s], Servers[s].targets[t]) ELSE common[s]

\* GetServerSpec(s, t) writes into the map that Common shares.
WritesCommon(s, t) ==
    /\ HasTarget(s, t)
    /\ common[s].env # NoEnv
    /\ Servers[s].targets[t].env # NoEnv
    /\ DOMAIN Servers[s].targets[t].env # {}

\* Mutant of CommonAfter: the merge goes to Common itself, not to a copy.
CommonAfterInPlace(s, t) == [common EXCEPT ![s] = GetServerSpec(s, t)]

\* The registry after GetServerSpec(s, t).
CommonAfter(s, t) ==
    [common EXCEPT ![s].env = IF WritesCommon(s, t) THEN GetServerSpec(s, t).env ELSE @]

\* What the file says of a server and a target, whatever has been read since.
Declared(s, t) ==
    IF HasTarget(s, t) THEN mergeSpec(Servers[s].common, Servers[s].targets[t])
                       ELSE Servers[s].common
=============================================================================
