------------------------------- MODULE MCGateway -------------------------------
(* Instances of Gateway: connections of one handheld scanner, or of the gateway's *)
(* own machine, all alike.                                                        *)
EXTENDS Gateway, TLC

Scanner == [c \in Conns |-> "scanner"]
Localhost == [c \in Conns |-> "localhost"]
Alike == Permutations(Conns)
=============================================================================
