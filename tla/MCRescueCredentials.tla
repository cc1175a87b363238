------------------------ MODULE MCRescueCredentials ------------------------
(* RescueCredentials with the addresses of MCTunnel.                       *)
EXTENDS MCTunnel, RescueCredentials
=============================================================================
