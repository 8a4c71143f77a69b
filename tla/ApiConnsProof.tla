---------------------------- MODULE ApiConnsProof ----------------------------
(***************************************************************************)
(* No connection of remoteBooter is lost, for any number of callers and    *)
(* connections.  ConnsInv is the inductive invariant: one lemma per action.*)
(***************************************************************************)
EXTENDS ApiConns, TLAPS

USE SMTT(30), Z3T(30), ZenonT(30)

NoConnIsNone == NoConn \notin Conns

LEMMA InitConns == ASSUME NoConnIsNone PROVE ConnsInit => ConnsInv
  BY DEF NoConnIsNone, ConnsInit, ConnsInv, TypeOK, Unshared, ForgottenHaveTimer, Callers

LEMMA GetConns ==
  ASSUME NoConnIsNone, ConnsInv, NEW c \in Callers, NEW k \in Conns, Get(c, k)
  PROVE  ConnsInv'
  <1> USE DEF NoConnIsNone, ConnsInv
  <1>1. TypeOK'
    BY DEF TypeOK, Get, timed
  <1>2. Unshared'
    BY DEF TypeOK, Unshared, Get
  <1>3. ForgottenHaveTimer'
    BY DEF TypeOK, ForgottenHaveTimer, Get, timed
  <1>4. \A d \in SpecCallers : uses'[d] # NoConn => uses'[d] \in timer'
    BY DEF TypeOK, Get, timed, Callers
  <1> QED BY <1>1, <1>2, <1>3, <1>4

\* A call that returns gives its own connection back, and nobody else's; one
\* that forgets it is a call of getSpec.
LEMMA ReturnConns ==
  ASSUME NoConnIsNone, ConnsInv, NEW c \in Callers, call[c] # "idle",
         NEW givenBack \in BOOLEAN, givenBack \/ c \in SpecCallers, return(c, givenBack)
  PROVE  ConnsInv'
  <1> USE DEF NoConnIsNone, ConnsInv
  <1>0. uses[c] \in busy /\ uses[c] # NoConn
    BY DEF TypeOK
  <1>1. TypeOK'
    <2>1. /\ call' \in [Callers -> {"idle", "get", "body"}]
          /\ uses' \in [Callers -> Conns \cup {NoConn}]
          /\ busy' \subseteq Conns /\ timer' \subseteq busy'
      BY DEF TypeOK, return
    <2>2. ASSUME NEW d \in Callers
          PROVE  IF call'[d] = "idle" THEN uses'[d] = NoConn ELSE uses'[d] \in busy'
      BY <1>0 DEF TypeOK, Unshared, return
    <2> QED BY <2>1, <2>2 DEF TypeOK
  <1>2. Unshared'
    BY DEF TypeOK, Unshared, return
  <1>3. ForgottenHaveTimer'
    <2> SUFFICES ASSUME NEW k \in busy', \A d \in Callers : uses'[d] # k
                 PROVE  k \in timer'
      BY DEF ForgottenHaveTimer
    <2>1. CASE k = uses[c]
      BY <2>1, <1>0 DEF return
    <2>2. CASE k # uses[c]
      BY <2>2 DEF TypeOK, ForgottenHaveTimer, return
    <2> QED BY <2>1, <2>2
  <1>4. ASSUME NEW d \in SpecCallers, uses'[d] # NoConn
        PROVE  uses'[d] \in timer'
    BY <1>0, <1>4 DEF TypeOK, Unshared, return, Callers
  <1> QED BY <1>1, <1>2, <1>3, <1>4

LEMMA TimeoutConns ==
  ASSUME NoConnIsNone, ConnsInv, NEW k \in Conns, Timeout(k)
  PROVE  ConnsInv'
  <1> USE DEF NoConnIsNone, ConnsInv
  <1>1. TypeOK'
    BY DEF TypeOK, Timeout
  <1>2. Unshared'
    BY DEF TypeOK, Unshared, Timeout
  <1>3. ForgottenHaveTimer'
    BY DEF TypeOK, ForgottenHaveTimer, Timeout
  <1>4. \A d \in SpecCallers : uses'[d] # NoConn => uses'[d] \in timer'
    BY DEF TypeOK, Timeout, Callers
  <1> QED BY <1>1, <1>2, <1>3, <1>4

LEMMA StepConns == ASSUME NoConnIsNone PROVE ConnsInv /\ [ConnsNext]_connVars => ConnsInv'
  <1> SUFFICES ASSUME ConnsInv, [ConnsNext]_connVars PROVE ConnsInv'
    OBVIOUS
  <1>1. ASSUME NEW c \in Callers, NEW k \in Conns, Get(c, k) PROVE ConnsInv'
    BY <1>1, GetConns
  <1>2. ASSUME NEW c \in Callers, GetFails(c) PROVE ConnsInv'
    BY <1>2, ReturnConns, ZenonT(30) DEF GetFails
  <1>3. ASSUME NEW c \in Callers, Response(c) PROVE ConnsInv'
    <2>1. CASE c \in SpecCallers /\ \E empty \in BOOLEAN : return(c, empty)
      BY <1>3, <2>1, ReturnConns DEF Response
    <2>2. CASE call' = [call EXCEPT ![c] = "body"] /\ UNCHANGED <<uses, busy, timer>>
      BY <1>3, <2>2 DEF Response, ConnsInv, TypeOK, Unshared, ForgottenHaveTimer
    <2> QED BY <1>3, <2>1, <2>2 DEF Response
  <1>4. ASSUME NEW c \in Callers, Decode(c) PROVE ConnsInv'
    BY <1>4, ReturnConns DEF Decode
  <1>5. ASSUME NEW c \in Callers, CopyEnds(c) PROVE ConnsInv'
    BY <1>5, ReturnConns, ZenonT(30) DEF CopyEnds
  <1>6. ASSUME NEW k \in Conns, Timeout(k) PROVE ConnsInv'
    BY <1>6, TimeoutConns
  <1>7. CASE UNCHANGED connVars
    BY <1>7 DEF connVars, ConnsInv, TypeOK, Unshared, ForgottenHaveTimer
  <1> QED BY <1>1, <1>2, <1>3, <1>4, <1>5, <1>6, <1>7 DEF ConnsNext, GetRefused

\* Whatever remoteBooter and the handlers of its files are doing, a connection
\* that no call uses any more has a timer that will end it: for every number
\* of goroutines and connections.
THEOREM ConnectionsAreNotLost ==
  ASSUME NoConnIsNone
  PROVE  ConnsSpec => []ForgottenHaveTimer
  <1>1. ConnsInv => ForgottenHaveTimer
    BY DEF ConnsInv
  <1> QED BY InitConns, StepConns, <1>1, PTL DEF ConnsSpec
=============================================================================
