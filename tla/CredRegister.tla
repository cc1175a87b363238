---------------------------- MODULE CredRegister ----------------------------
(***************************************************************************)
(* What the credentials service promises to the request handlers: a        *)
(* register holding the Proxy-Authorization header.  It is filled once     *)
(* before anybody reads it, every value ever put in it is the login of one *)
(* user ID with the agent key granted to that same user ID, values only    *)
(* ever move to user IDs generated later, and a read returns the current   *)
(* value.  CredService implements it with a mutex, a rotating goroutine    *)
(* and the fallback mechanism.                                             *)
(***************************************************************************)
EXTENDS Naturals

CONSTANTS Handlers       \* the goroutines that serve requests

VARIABLES current,       \* the header handed out from now on
          seen           \* per handler: the last header its auth() returned

vars == <<current, seen>>

\* User IDs are numbered in the order they are generated, from 1.  A header
\* is the pair of the user ID in the login and the user ID the key was
\* granted to; the empty string is the pair of zeros.
NoHeader == [login |-> 0, key |-> 0]

Granted(header) == /\ header.login > 0
                   /\ header.key = header.login

Init == /\ current = NoHeader
        /\ seen = [h \in Handlers |-> NoHeader]

Publish == /\ Granted(current')
           /\ current'.login > current.login
           /\ UNCHANGED seen

Read(h) == /\ current # NoHeader
           /\ seen' = [seen EXCEPT ![h] = current]
           /\ UNCHANGED current

Next == Publish \/ \E h \in Handlers : Read(h)

Spec == Init /\ [][Next]_vars
=============================================================================
