---------------------------- MODULE MCProvision ----------------------------
(* Instances of Provision for TLC.                                         *)
EXTENDS Provision

Provisioning(w, p) == [name |-> "provision", write |-> w, persist |-> p]
AllCommands == CommandLines
FullCommands == {Provisioning(TRUE, TRUE)}
=============================================================================
