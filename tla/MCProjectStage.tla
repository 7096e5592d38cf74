---------------------------- MODULE MCProjectStage ----------------------------
(* Small instances of ProjectStage: the projects worth telling apart.      *)
EXTENDS ProjectStage

Project(name, found) == [kind |-> name, stage |-> found]

EveryKind ==
  {Project("plain", "enforce"), Project("sandbox", "observe"), Project("named", "none")}

Promoted == {Project("plain", "enforce")}
=============================================================================
