----------------------------- MODULE ReadResponse -----------------------------
(***************************************************************************)
(* readResponse of upstream.go: the head of the upstream's answer to a     *)
(* CONNECT is read one byte at a time from the connection, so that what    *)
(* follows its empty line is left to the tunnel.  The loop keeps its       *)
(* one-byte buffer between the reads and looks at a failed read only after *)
(* it has appended that buffer to what it has.                             *)
(***************************************************************************)
EXTENDS Integers, Sequences

CONSTANTS
  CR, LF,       \* the bytes that end a line
  Others,       \* other bytes
  Zero,         \* the byte the buffer is made with
  MaxBytes      \* bound: bytes the upstream sends

ASSUME ResponseAssumption ==
  /\ CR # LF /\ CR \notin Others /\ LF \notin Others
  /\ Zero \in Others
  /\ MaxBytes \in Nat

Bytes == {CR, LF} \cup Others

VARIABLES
  b,            \* the buffer of one byte
  buf,          \* what was appended so far
  err,          \* the last read returned an error, as every later one will
  result,       \* "reading", or how readResponse ended: "head", "error"
  consumed      \* history: the bytes taken from the connection

readVars == <<b, buf, err, result, consumed>>

ReadInit == /\ b = Zero /\ buf = <<>>
            /\ err = FALSE
            /\ result = "reading"
            /\ consumed = <<>>

\* Position k of s completes an empty line.
EndsAt(s, k) == /\ k >= 4
                /\ s[k - 3] = CR /\ s[k - 2] = LF
                /\ s[k - 1] = CR /\ s[k] = LF

ErrorFirst(s, failed) ==
  IF Len(s) >= 4 /\ failed THEN "error"
  ELSE IF EndsAt(s, Len(s)) THEN "head" ELSE "reading"

\* The rest of a round, once the buffer was appended: fewer than four bytes
\* are never enough, an end counts even if the read that brought it failed.
Outcome(s, failed) ==
  IF Len(s) < 4 THEN "reading"
  ELSE IF EndsAt(s, Len(s)) THEN "head"
  ELSE IF failed THEN "error" ELSE "reading"

OnlyReadBytes == IF consumed' = consumed THEN buf ELSE Append(buf, b')

\* The buffer is appended whatever the read returned.
Appended == Append(buf, b')

Round(byte, failed) ==
  /\ b' = byte
  /\ err' = failed
  /\ buf' = Appended
  /\ result' = Outcome(buf', failed)

\* A read returns the next byte, possibly with the error that comes after it.
ReadByte(byte, failed) ==
  /\ result = "reading" /\ ~err
  /\ Len(consumed) < MaxBytes
  /\ consumed' = Append(consumed, byte)
  /\ Round(byte, failed)

\* A read returns an error and no byte: the byte of the round before is
\* appended again.
ReadNothing ==
  /\ result = "reading"
  /\ UNCHANGED consumed
  /\ Round(b, TRUE)

\* A read of no byte without an error changes nothing.
ReadNext == \/ \E byte \in Bytes, failed \in BOOLEAN : ReadByte(byte, failed)
            \/ ReadNothing

ReadSpec == ReadInit /\ [][ReadNext]_readVars

\* A connection that failed goes on failing without delay; the upstream need
\* not send anything.
FairReadSpec == ReadSpec /\ WF_readVars(err /\ ReadNothing)

-----------------------------------------------------------------------------
(* Properties.                                                             *)

\* The type invariant.
ReadTypeOK ==
  /\ b \in Bytes
  /\ buf \in Seq(Bytes) /\ consumed \in Seq(Bytes)
  /\ err \in BOOLEAN
  /\ result \in {"reading", "head", "error"}

\* The head that is parsed is exactly what the connection gave up to its first
\* empty line: nothing of the tunnel behind it was taken from the connection,
\* no byte that was appended twice is in it or completes it; and only a
\* connection that failed before the empty line ends in an error.
HeadIsExact ==
  /\ \A k \in 1 .. Len(consumed) - 1 : ~EndsAt(consumed, k)
  /\ result = "head" => buf = consumed /\ EndsAt(consumed, Len(consumed))
  /\ result # "head" => ~EndsAt(consumed, Len(consumed))

\* A connection that fails ends the loop, also one that fails within the
\* first bytes, where the loop does not look at the error.
ResponseEnds == err ~> result # "reading"
=============================================================================
