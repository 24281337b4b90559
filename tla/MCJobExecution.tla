--------------------------- MODULE MCJobExecution ---------------------------
(* Model-checking instances of JobExecution. *)
EXTENDS JobExecutionInvariant, TLC

CONSTANTS j1, j2, a, b, c, report, summary, report_json, rejected1, rejected2

\* Two results with the same stem: their audit reports get the same name.
MCPaths == {report, summary, report_json, rejected1, rejected2}
MCOutputPath == j1 :> report @@ j2 :> summary
MCAuditPath == j1 :> report_json @@ j2 :> report_json
MCRejectPath == j1 :> rejected1 @@ j2 :> rejected2

\* One job alone.
OnePaths == {report, report_json, rejected1}
OneOutputPath == j1 :> report
OneAuditPath == j1 :> report_json
OneRejectPath == j1 :> rejected1

\* One source.  To j1's plan a and b are alike: the difference is one that it
\* removes, and rejecting that change writes it back where it was not.  What j1 makes
\* of b breaks a rule; j2's output format cannot hold what it makes of b.
One(x) == [s \in Sources |-> x]
MCDigest == [j \in Jobs |-> [v \in Vectors |->
  IF j = j1 \/ v = One(a) THEN "tables" ELSE "others"]]
MCApplicable == [j \in Jobs |-> {f \in Vectors \X Vectors : f # <<One(b), One(a)>>}]
MCAcceptable == [j \in Jobs |-> {f \in Vectors \X Vectors : f[1] = One(b) => j # j1}]
MCWritable == [j \in Jobs |-> {f \in Vectors \X Vectors : f[1] = One(b) => j = j1}]
MCReopenable == [j \in Jobs |-> Vectors \X Vectors]

\* Two sources.  The plan raises on c and tells b from a in the first source only.
\* What it makes of b there breaks a rule, and with b in both the writer refuses it;
\* with b in the second alone, what it makes of it is too large.
Two(x, y) == [s \in Sources |-> IF s = 1 THEN x ELSE y]
TwoDigest == [j \in Jobs |-> [v \in Vectors |->
  IF c \in {v[1], v[2]} THEN NoResult
  ELSE IF v[1] = a THEN "tables" ELSE IF v[2] = a THEN "others" ELSE "more"]]
TwoApplicable == [j \in Jobs |-> {f \in Vectors \X Vectors : f # <<Two(a, b), Two(a, a)>>}]
TwoAcceptable == [j \in Jobs |-> {f \in Vectors \X Vectors : f[1][1] = a}]
TwoWritable == [j \in Jobs |-> {f \in Vectors \X Vectors : f[1] # Two(b, b)}]
TwoReopenable == [j \in Jobs |-> {f \in Vectors \X Vectors : f # <<Two(a, b), Two(a, b)>>}]
=============================================================================
