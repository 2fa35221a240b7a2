---------------------------- MODULE MCLinkDiscovery ----------------------------
(***************************************************************************)
(* Bounds for model checking LinkDiscovery: the boards in range and the    *)
(* number of ticks without a frame after which a peer is lost.             *)
(***************************************************************************)
EXTENDS LinkDiscovery

=============================================================================
