--------------------------- MODULE MCPlainRequests ---------------------------
(* PlainRequests with two handlers and a transport that keeps one          *)
(* connection.                                                             *)
EXTENDS PlainRequests

CONSTANTS h1, h2, c1, c2, c3

MCHandlers == {h1, h2}
MCConns == {c1, c2, c3}

\* A plain client, and one with a hop-by-hop field and credentials of its own.
MCRequestFields == {{"Accept"}, {"Connection", "Proxy-Authorization"}}
=============================================================================
