---------------------------- MODULE MCGatewayHub ----------------------------
\* Instances of the gateway hub for TLC.
EXTENDS GatewayHubProperties, TLC

Symmetric == Permutations(Host) \cup Permutations(Client)
=============================================================================
