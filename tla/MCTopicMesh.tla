---------------------------- MODULE MCTopicMesh ----------------------------
(* A mesh of one node and interchangeable peers. *)
EXTENDS TopicMesh, TLC

CONSTANTS peer1, peer2, peer3

PeerSymmetry == Permutations(Peers)
=============================================================================
