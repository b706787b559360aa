----------------------------- MODULE MCPeerBook -----------------------------
(***************************************************************************)
(* PeerBook with two connection ids of one peer and one of another.        *)
(***************************************************************************)
EXTENDS PeerBook

MCPeers == {1, 2}
MCIds == {<<1, 1>>, <<1, 2>>, <<2, 1>>}
=============================================================================
