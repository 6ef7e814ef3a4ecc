------------------------------ MODULE MCIndexer ------------------------------
(* TLC instances of Indexer. *)
EXTENDS Indexer

CONSTANTS c1, c2, r1, r2

(* Two clients behind one address. *)
MCPeerIp == [c \in Clients |-> "ip"]
=============================================================================
