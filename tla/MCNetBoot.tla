------------------------------ MODULE MCNetBoot ------------------------------
(* Small instances of NetBoot and ExampleBoot. *)
EXTENDS ExampleBoot, TLC

MCAbsUrls == {"http://a/k", "http://a/i", "http://b/k", "http://b/i",
              "http://api:4242/kernel", "http://api:4242/initrd"}

answer(k, is, c) == [status |-> "ok", json |-> TRUE, kernel |-> k, initrd |-> is, cmdline |-> c]

GoodA == answer("http://a/k", <<"http://a/i", "http://b/i">>, "a")
GoodB == answer("http://b/k", <<>>, "b")
\* The second example of README.api.md.
Relative == answer("/kernel", <<"/initrd.0", "/initrd.1">>, "")
BadInitrd == answer("http://a/k", <<"http://a/i", "initrd">>, "")
NotOk == [GoodA EXCEPT !.status = "error"]
NotJson == [GoodA EXCEPT !.json = FALSE]
Hang == [GoodA EXCEPT !.status = "hang"]

ManyAnswers == {GoodA, GoodB, Relative, BadInitrd, NotOk, NotJson, Hang}
FewAnswers == {GoodA, Relative, NotOk, Hang}
LiveAnswers == {GoodA, Hang, GoodB}
OnlyB == {GoodB}
OnlyA == {GoodA}
OnlyRelative == {Relative}

MCInitrds == <<"rootfs.gz", "core.gz">>
MCItoa == <<"0", "1">>

ApiAnswers == ManyAnswers \cup {Example!API}
MachineSymmetry == Permutations(Machines)
=============================================================================
