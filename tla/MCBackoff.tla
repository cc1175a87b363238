------------------------------ MODULE MCBackoff ------------------------------
(* Backoff with no deadline, one in the past, a short and a longer one, with *)
(* intervals that grow up to the limit, stay 0 or -1, or fall, and with a    *)
(* timeout that is over at once.                                             *)
EXTENDS Backoff

MCDeadlines == {-1, 0, 1, 9}
MCInitials == {-5, -2, -1, 0, 1, 2, 5}
MCTimeouts == {-1, 3}
MCLeast == -40
=============================================================================
