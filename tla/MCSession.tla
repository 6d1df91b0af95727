----------------------------- MODULE MCSession -----------------------------
(* Two items, three values; command lines of every command, right and      *)
(* wrong, and for validate every combination of sources for a variable.    *)
EXTENDS Session

CONSTANTS i1, i2

MCItems == {i1, i2}
MCValues == {"x", "y", "z"}

MCHosts ==
    {[items |-> [i \in MCItems |-> "x"], fact |-> "x", lock |-> "free"],
     [items |-> [i \in MCItems |-> "y"], fact |-> "x", lock |-> "other"]}

\* The directories d and e have configuration files, g has none.
Tree == [dir \in {"d", "e", "g"} |->
           IF dir = "g" THEN << >> ELSE <<[dir |-> dir, file |-> "1"], [dir |-> dir, file |-> "2"]>>]
D == [dir |-> "d", file |-> ""]
D1 == [dir |-> "d", file |-> "1"]
E == [dir |-> "e", file |-> ""]

Base ==
    [cmd |-> "validate", format |-> "text", html |-> FALSE, debug |-> FALSE, offline |-> FALSE,
     parallel |-> 0, autoApprove |-> FALSE, valid |-> TRUE, required |-> FALSE, unknown |-> FALSE,
     stdinVar |-> FALSE, env |-> << >>, sources |-> <<D>>,
     tree |-> Tree, files |-> {}, varFiles |-> << >>,
     vars |-> << >>, want |-> [i \in MCItems |-> "x"]]

Sources ==
    {[Base EXCEPT !.env = e, !.sources = d, !.files = f, !.varFiles = vf, !.vars = v, !.required = r] :
       e \in {<< >>, <<"env">>}, d \in {<<D>>, <<D, E>>, <<E, D>>, <<D1, E, D>>},
       f \in SUBSET {<<"d", "default">>, <<"d", "a.auto">>, <<"e", "default.json">>, <<"e", "b.auto">>},
       vf \in {<< >>, <<"file1", "file2">>}, v \in {<< >>, <<"var1">>}, r \in BOOLEAN}

Wrong ==
    {[Base EXCEPT !.html = TRUE], [Base EXCEPT !.debug = TRUE], [Base EXCEPT !.offline = TRUE],
     [Base EXCEPT !.parallel = 1], [Base EXCEPT !.format = "json"], [Base EXCEPT !.valid = FALSE],
     [Base EXCEPT !.cmd = "apply", !.debug = TRUE, !.parallel = 2],
     [Base EXCEPT !.cmd = "apply", !.format = "json"],
     [Base EXCEPT !.sources = <<D, [dir |-> "g", file |-> ""]>>],
     [Base EXCEPT !.cmd = "plan", !.unknown = TRUE]}

Online ==
    {[Base EXCEPT !.cmd = c, !.offline = o, !.want = w, !.autoApprove = a, !.stdinVar = s] :
       c \in {"plan", "check", "apply"}, o \in BOOLEAN,
       w \in {[i \in MCItems |-> "x"], [i \in MCItems |-> IF i = i1 THEN Fact ELSE "x"]},
       a \in BOOLEAN, s \in BOOLEAN}

MCInvocations == Sources \cup Wrong \cup {i \in Online : i.cmd = "apply" \/ ~i.autoApprove}
=============================================================================
