------------------------------ MODULE MCRouter ------------------------------
\* Instances of the router for TLC: devbox runs locally only, git anywhere, and
\* extra is in no registry or only in a later one.
EXTENDS Router

CONSTANTS devbox, git, extra

Old == {devbox, git}
Shrinking == {Old, {git}}
Growing == {Old, {devbox, git, extra}}
=============================================================================
