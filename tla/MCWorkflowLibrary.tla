--------------------------- MODULE MCWorkflowLibrary ---------------------------
(* A model-checking instance of WorkflowLibrary. *)
EXTENDS WorkflowLibrary, TLC

Text(x) == [type |-> "text", is |-> x]
List(x) == [type |-> "list", is |-> x]
Map(x) == [type |-> "map", is |-> x]

NoParameters == [n \in {} |-> Null]

\* One file: two parameters of one step share a descriptor.  Two files, used in
\* reverse, the second step without a sheet.
OneFile ==
  [sources |-> 1,
   steps |-> <<[source |-> 1, sheet |-> Text("a"), columns |-> List("a"),
                params |-> ("category_column" :> Text("a")) @@ ("group_by" :> List("a"))
                             @@ ("columns" :> List("a"))]>>,
   rules |-> <<("limit" :> Text("a"))>>]
TwoFiles ==
  [sources |-> 2,
   steps |-> <<[source |-> 2, sheet |-> Text("a"), columns |-> NoList,
                params |-> ("actions.1.mapping" :> Map("a")) @@ ("actions.2.mapping" :> Map("b"))],
               [source |-> 1, sheet |-> Null, columns |-> List("b"), params |-> NoParameters]>>,
   rules |-> <<>>]
\* Nothing groups the running total: it cannot become a template.
Ungrouped ==
  [sources |-> 1,
   steps |-> <<[source |-> 1, sheet |-> Null, columns |-> NoList,
                params |-> ("group_by" :> NoList)]>>,
   rules |-> <<>>]

MCWorks == {OneFile, TwoFiles, Ungrouped}
MCValues == {Text("b"), List("b")}

\* A new installation, and a first release whose upgrade was interrupted once.
MCLegacy ==
  {[version |-> 0, columns |-> {}, works |-> <<>>, consented |-> {}],
   [version |-> 1, columns |-> {1, 2}, works |-> <<TwoFiles>>, consented |-> {1}]}

MCReadings == {{}, Ids}

NameSymmetry == Permutations(Names)
=============================================================================
