--------------------------- MODULE MCFleetDeploy ---------------------------
(* A fleet of two hosts, three host ports, two consecutive deploys.         *)
EXTENDS FleetDeployProofs, TLC
=============================================================================
