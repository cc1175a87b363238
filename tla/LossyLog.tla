------------------------------ MODULE LossyLog ------------------------------
(***************************************************************************)
(* What the log writer promises to the loggers and to main: a queue that   *)
(* never makes a logger wait.  A message is accepted, or refused at once   *)
(* and only when the backlog is full or the log is being closed; accepted  *)
(* messages reach the output in the order of acceptance, each once; and a  *)
(* close that reports a flush leaves nothing behind of what was accepted   *)
(* before it began.                                                        *)
(***************************************************************************)
EXTENDS Naturals, Sequences

CONSTANTS Messages,    \* what the loggers can write
          QLen         \* the backlog that is always accepted

VARIABLES accepted,    \* messages accepted so far, in order
          written,     \* messages handed to the output so far, in order
          refused,     \* number of messages refused
          due,         \* messages accepted when the close began, or NotClosing
          close        \* "no", or how the close ended: "flushed", "timeout"

vars == <<accepted, written, refused, due, close>>

NotClosing == [closing |-> FALSE, upto |-> 0]

Backlog == Len(accepted) - Len(written)

Init == /\ accepted = <<>> /\ written = <<>>
        /\ refused = 0
        /\ due = NotClosing
        /\ close = "no"

Accept(m) == /\ accepted' = Append(accepted, m)
             /\ UNCHANGED <<written, refused, due, close>>

Refuse == /\ Backlog >= QLen \/ due.closing
          /\ refused' = refused + 1
          /\ UNCHANGED <<accepted, written, due, close>>

Output == /\ Backlog > 0
          /\ written' = Append(written, accepted[Len(written) + 1])
          /\ UNCHANGED <<accepted, refused, due, close>>

BeginClose == /\ ~due.closing
              /\ due' = [closing |-> TRUE, upto |-> Len(accepted)]
              /\ UNCHANGED <<accepted, written, refused, close>>

EndClose(how) == /\ due.closing /\ close = "no"
                 /\ how = "flushed" => Len(written) >= due.upto
                 /\ close' = how
                 /\ UNCHANGED <<accepted, written, refused, due>>

Next == \/ \E m \in Messages : Accept(m)
        \/ Refuse \/ Output \/ BeginClose
        \/ \E how \in {"flushed", "timeout"} : EndClose(how)

Spec == Init /\ [][Next]_vars
=============================================================================
