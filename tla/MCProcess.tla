------------------------------ MODULE MCProcess ------------------------------
(* The start of the process with its log, and the connections of its Booter. *)
(* They share no variable, so it is enough that in a behaviour one of them   *)
(* goes on.                                                                  *)
EXTENDS Process, ApiConns

\* Flags for either mode and for none, ports that differ or clash, and one
\* thing of each kind out of order.
MCCommandLines == {{}, {"api"}, {"api", "kernel"}, {"kernel"}, {"kernel", "initrd", "debug"}}
MCPorts == {[dhcp |-> 67, pxe |-> 4011, tftp |-> 69], [dhcp |-> 67, pxe |-> 67, tftp |-> 69]}
MCBroken == {{}} \cup {{f} : f \in {"randomness", "asset", "accept", "http", "tftp"}}

VARIABLE part  \* the part that goes on

\* Where a process without flags stays.
NotStarted ==
    /\ flags = {} /\ port \in {p \in MCPorts : p.pxe = 67} /\ broken = {}
    /\ main = "flags" /\ exit = "usage"
    /\ pc = [g \in Servers \cup Workers |-> IF g \in Servers THEN "none" ELSE "idle"]
    /\ bound = {} /\ logCh = <<>> /\ told = {}

PartsInit ==
    /\ ConnsInit
    /\ \/ part = "process" /\ Init
       \/ part = "conns" /\ NotStarted

PartsNext ==
    \/ part = "process" /\ Next /\ UNCHANGED <<part, connVars>>
    \/ part = "process" /\ ~running /\ UNCHANGED <<part, vars, connVars>>
    \/ part = "conns" /\ ConnsNext /\ UNCHANGED <<part, vars>>

PartsSpec ==
    PartsInit /\ [][PartsNext]_<<part, vars, connVars>> /\ Fairness /\ TimersGoOff
=============================================================================
