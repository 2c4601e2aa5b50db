----------------------------- MODULE MCExchange -----------------------------
\* Instances of the exchanges for TLC: every connection is one to srv.
EXTENDS HubExchange, TLC

CONSTANT srv

ToSrv(c) == srv
Symmetric == Permutations(Caller) \cup Permutations(Conn)
=============================================================================
