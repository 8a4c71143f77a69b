------------------------------ MODULE ApiConns -------------------------------
(***************************************************************************)
(* The connections of remoteBooter (src/api/api.go) to the API server and  *)
(* to the servers the images come from, and of the HTTP handler that       *)
(* copies an image (src/http/http.go).  getSpec uses a client with a       *)
(* Timeout and never closes the body of a response; File uses a client     *)
(* without one, and the handler closes what it returns.                    *)
(*                                                                         *)
(* net/http keeps a connection until the body of the response was read to  *)
(* its end or closed, or until the timer of the request, if it has one,    *)
(* ends it, which also fails a read the caller is waiting in.              *)
(***************************************************************************)
CONSTANTS
    SpecCallers,  \* goroutines that call getSpec: the ProxyDHCP loop, HTTP handlers
    FileCallers,  \* HTTP handlers that call File
    Conns,        \* the connections the process may have at a time
    NoConn        \* no connection

Callers == SpecCallers \cup FileCallers

VARIABLES
    call,  \* where each caller is: "idle", "get" or "body"
    uses,  \* the connection of its request
    busy,  \* the connections in use
    timer  \* those whose request has a timer

connVars == <<call, uses, busy, timer>>

ConnsInit ==
    /\ call = [c \in Callers |-> "idle"]
    /\ uses = [c \in Callers |-> NoConn]
    /\ busy = {} /\ timer = {}

-----------------------------------------------------------------------------
\* Mutant: the client of getSpec has no Timeout, either.
timed_none(c) == FALSE

\* client: &http.Client{Timeout: timeout}; File calls http.Get, "it times out
\* too aggressively".
timed(c) == c \in SpecCallers

\* The request of caller c is sent over connection k.
Get(c, k) ==
    /\ call[c] = "idle" /\ k \notin busy
    /\ call' = [call EXCEPT ![c] = "get"]
    /\ uses' = [uses EXCEPT ![c] = k]
    /\ busy' = busy \cup {k}
    /\ timer' = IF timed(c) THEN timer \cup {k} ELSE timer

\* The process has no connection left, so the call returns an error at once.
GetRefused(c) == call[c] = "idle" /\ busy = Conns /\ UNCHANGED connVars

\* The call returns; the connection is given back or forgotten.
return(c, givenBack) ==
    /\ call' = [call EXCEPT ![c] = "idle"]
    /\ uses' = [uses EXCEPT ![c] = NoConn]
    /\ busy' = IF givenBack THEN busy \ {uses[c]} ELSE busy
    /\ timer' = IF givenBack THEN timer \ {uses[c]} ELSE timer

\* The request fails before there is a response.
GetFails(c) == call[c] = "get" /\ return(c, TRUE)

\* The head of a response arrives.  A status other than 200 makes getSpec
\* return at once, with the body, unless it is empty, still to be read.
Response(c) ==
    /\ call[c] = "get"
    /\ \/ call' = [call EXCEPT ![c] = "body"] /\ UNCHANGED <<uses, busy, timer>>
       \/ c \in SpecCallers /\ \E empty \in BOOLEAN : return(c, empty)

\* Decode has its JSON value, or cannot get one; it need not have met the end
\* of the body.  Whatever getSpec checks after that, it returns.
Decode(c) ==
    /\ c \in SpecCallers /\ call[c] = "body"
    /\ \E eof \in BOOLEAN : return(c, eof)

\* Mutant: the handler does not close the body.
CopyEnds_open(c) ==
    /\ c \in FileCallers /\ call[c] = "body"
    /\ \E eof \in BOOLEAN : return(c, eof)

\* io.Copy ends: the image is complete, its source fails, or the machine that
\* wants it is gone.  The handler's deferred f.Close runs in every case.
CopyEnds(c) ==
    /\ c \in FileCallers /\ call[c] = "body"
    /\ return(c, TRUE)

\* The timer of the request on connection k goes off.
Timeout(k) ==
    /\ k \in timer
    /\ call' = [c \in Callers |-> IF uses[c] = k THEN "idle" ELSE call[c]]
    /\ uses' = [c \in Callers |-> IF uses[c] = k THEN NoConn ELSE uses[c]]
    /\ busy' = busy \ {k} /\ timer' = timer \ {k}

ConnsNext ==
    \/ \E c \in Callers, k \in Conns : Get(c, k)
    \/ \E c \in Callers : GetRefused(c) \/ GetFails(c) \/ Response(c) \/ Decode(c) \/ CopyEnds(c)
    \/ \E k \in Conns : Timeout(k)

ConnsSpec == ConnsInit /\ [][ConnsNext]_connVars

\* A timer goes off; that a server ever answers is not assumed.
TimersGoOff == \A k \in Conns : WF_connVars(Timeout(k))

-----------------------------------------------------------------------------
\* Exactly the callers in a call have a connection, one that is in use.
TypeOK ==
    /\ call \in [Callers -> {"idle", "get", "body"}]
    /\ uses \in [Callers -> Conns \cup {NoConn}]
    /\ busy \subseteq Conns /\ timer \subseteq busy
    /\ \A c \in Callers : IF call[c] = "idle" THEN uses[c] = NoConn ELSE uses[c] \in busy

\* No two calls share a connection.
Unshared == \A c, d \in Callers : uses[c] = uses[d] /\ uses[c] # NoConn => c = d

\* A connection that no call uses any more, because getSpec returned without
\* closing the body, has a timer that will end it; the handler of an image
\* leaves none behind.
ForgottenHaveTimer ==
    \A k \in busy : (\A c \in Callers : uses[c] # k) => k \in timer

\* A call of getSpec returns, although the API server may stop in the middle of
\* its answer: the ProxyDHCP loop, and a handler that asks it, are never stuck.
GetSpecReturns == \A c \in SpecCallers : call[c] # "idle" ~> call[c] = "idle"

\* What makes ForgottenHaveTimer inductive: a call of getSpec has a timer as
\* long as it lasts, so the connection it leaves behind has one, too.
ConnsInv ==
    /\ TypeOK /\ Unshared /\ ForgottenHaveTimer
    /\ \A c \in SpecCallers : uses[c] # NoConn => uses[c] \in timer
=============================================================================
