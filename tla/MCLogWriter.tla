----------------------------- MODULE MCLogWriter -----------------------------
(* LogWriter with two loggers and a channel they overflow.                 *)
EXTENDS LogWriter

CONSTANTS l1, l2

MCLoggers == {l1, l2}
=============================================================================
