------------------------------ MODULE MCTunnel ------------------------------
(* Tunnel with up to three addresses to rescue a destination with.         *)
EXTENDS Tunnel

CONSTANTS i1, i2, i3

MCAddresses == {i1, i2, i3}

\* No address, one, and more than one, in different orders.
MCLookups == {<<>>, <<i1>>, <<i2, i1>>, <<i1, i2, i3>>}
=============================================================================
