--------------------------- MODULE MCFastResolver ---------------------------
(* FastResolver with three upstreams, told apart for the liveness checks.  *)
EXTENDS FastResolver

CONSTANTS u1, u2, u3

MCUpstreams == {u1, u2, u3}
=============================================================================
