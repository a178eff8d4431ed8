---------------------------- MODULE MCDiscovery ----------------------------
(* Two endpoints, and a service of a type that this program offers as well.   *)
EXTENDS OnHttp, TLC

CONSTANTS lamp, redfish, north, south

MCType == lamp :> redfish
MCEndpoint == <<north, south>>
=============================================================================
