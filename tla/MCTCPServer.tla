------------------------------ MODULE MCTCPServer ------------------------------
(* Instances of TCPServer for TLC. *)
EXTENDS TCPServer

\* All connections come from one address.
OneIP == [c \in Conns |-> CHOOSE i \in IPs : TRUE]
=============================================================================
