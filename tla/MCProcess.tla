------------------------------ MODULE MCProcess ------------------------------
\* Instances of the process manager for TLC.
EXTENDS Process
=============================================================================
