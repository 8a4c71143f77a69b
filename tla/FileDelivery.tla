---------------------------- MODULE FileDelivery ----------------------------
(***************************************************************************)
(* What the TFTP server promises, seen from outside: the bytes of one file *)
(* reach the client in order, a chunk at a time; the client holds a file   *)
(* it takes for finished only when it has all of it; and the server        *)
(* reports a transfer as sent only after that.  Nothing is promised about  *)
(* how often a transfer gives up.                                          *)
(***************************************************************************)
EXTENDS Naturals

CONSTANTS
    Size,       \* length of the file in bytes
    Transfers   \* the server's transfers to this client

VARIABLES
    got,        \* bytes of the file the client holds: always a prefix of it
    finished,   \* the client takes the file for complete
    reported    \* transfers the server reported as sent

vars == <<got, finished, reported>>

Init ==
    /\ got = 0
    /\ finished = FALSE
    /\ reported = {}

\* The next chunk arrives; a chunk that does not reach the end of the file
\* never finishes it.
Deliver ==
    /\ ~finished
    /\ got' \in (got + 1) .. Size
    /\ finished' \in BOOLEAN
    /\ finished' => got' = Size
    /\ UNCHANGED reported

\* At most one transfer is ever reported, and only for a finished file.
Report(t) ==
    /\ finished
    /\ reported = {}
    /\ reported' = {t}
    /\ UNCHANGED <<got, finished>>

Next == Deliver \/ \E t \in Transfers : Report(t)

Spec == Init /\ [][Next]_vars
=============================================================================
