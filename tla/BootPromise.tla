---------------------------- MODULE BootPromise -----------------------------
(***************************************************************************)
(* What Pixiecore promises about a machine, without saying how a machine   *)
(* boots: it runs nothing over the network but an image that was approved  *)
(* for it, and it is only sent to its disk by a Pixiecore that was allowed *)
(* to answer it at all.                                                    *)
(***************************************************************************)
CONSTANT Machines

VARIABLES
    allowed,  \* the images that have been approved for each machine
    runs      \* what it runs: "nothing" yet, its "disk", or the image "net"
              \* together with that image

vars == <<allowed, runs>>

nothing == [from |-> "nothing"]
disk == [from |-> "disk"]
net(image) == [from |-> "net", image |-> image]

Init ==
    /\ DOMAIN allowed = Machines
    /\ runs = [m \in Machines |-> nothing]

\* An image is approved for m, beside those that already were.
Approve(m) ==
    /\ allowed[m] \subseteq allowed'[m]
    /\ allowed' = [allowed EXCEPT ![m] = allowed'[m]]
    /\ UNCHANGED runs

Boot(m) ==
    /\ runs[m] = nothing
    /\ \E image \in allowed[m] : runs' = [runs EXCEPT ![m] = net(image)]
    /\ UNCHANGED allowed

BootFromDisk(m) ==
    /\ runs[m] = nothing /\ allowed[m] # {}
    /\ runs' = [runs EXCEPT ![m] = disk]
    /\ UNCHANGED allowed

StartOver(m) ==
    /\ runs' = [runs EXCEPT ![m] = nothing]
    /\ UNCHANGED allowed

Next == \E m \in Machines : Approve(m) \/ Boot(m) \/ BootFromDisk(m) \/ StartOver(m)

Spec == Init /\ [][Next]_vars
=============================================================================
