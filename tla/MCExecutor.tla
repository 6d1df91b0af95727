----------------------------- MODULE MCExecutor -----------------------------
(* A plan for two hosts with every kind of item.  On h1 an orphan is       *)
(* destroyed, a file and a unit are written and a package is installed; a  *)
(* script that follows the file records its output and the restart that    *)
(* follows the unit records its completion.  On h2 a resource is adopted,  *)
(* what it used to depend on is deleted, and a reload follows.             *)
EXTENDS Executor, TLC

CONSTANTS h1, h2, orphan, file, unit, package, output, script, restart,
          adopted, gone, reload

H1Items == {orphan, file, unit, package, output, script, restart}
H2Items == {adopted, gone, reload}
MCItem == H1Items \cup H2Items
MCHostOf == [i \in MCItem |-> IF i \in H1Items THEN h1 ELSE h2]

Default(x) == [i \in MCItem |-> x]

MCAction ==
    orphan :> "destroy" @@ unit :> "update" @@ output :> "check" @@
    adopted :> "adopt" @@ gone :> "delete" @@
    [i \in {script, restart, reload} |-> "run"] @@ Default("create")

MCDependsOn ==
    output :> {file} @@ script :> {file, output} @@ restart :> {unit} @@
    gone :> {adopted} @@ reload :> {gone} @@ Default({})

MCWaveOf ==
    orphan :> 1 @@ [i \in {output, restart, gone} |-> 3] @@
    [i \in {script, reload} |-> 4] @@ Default(2)

MCSafe == {orphan, file, unit, output, adopted}

MCNodeDeps == output :> {file} @@ adopted :> {gone} @@ Default({})
MCOutputs == script :> {output} @@ Default({})
MCCompletes == restart :> {unit} @@ Default({})

MCPrior ==
    h1 :> [serial |-> 3, resources |-> {orphan, unit},
           refs |-> unit :> {orphan} @@ Default({})] @@
    h2 :> [serial |-> 0, resources |-> {gone}, refs |-> Default({})]
=============================================================================
