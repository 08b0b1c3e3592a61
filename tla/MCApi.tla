------------------------------- MODULE MCApi -------------------------------
(***************************************************************************)
(* A definition and requests for TLC: "flow" starts with an approval and   *)
(* routes by an impact of 8, which one rule writes as a number and another *)
(* as a text, and by a flag.  MaxExact is 8: an impact of 9 is rounded.    *)
(***************************************************************************)
EXTENDS Api

Integer(n, text) == [type |-> "integer", is |-> n, text |-> text]
Text(text)       == [type |-> "string", is |-> text, text |-> text]
Yes   == [type |-> "bool", is |-> TRUE, text |-> "true"]

Rule(cond, queue, priority) ==
    [if |-> cond, queue |-> queue, assignee |-> Unset, priority |-> priority]

ByImpact == [w \in Workflows |->
    <<Rule(<<>>, "all", "low"),
      Rule("impact" :> Integer(8, "8") @@ "vip" :> Yes, "vips", "high"),
      Rule("impact" :> Text("8"), "urgent", Unset),
      Rule("vip" :> Yes, "vips", Unset)>>]

Input(workflow, title, fields) == [workflow |-> workflow, title |-> title, fields |-> fields]

Requests ==
    {Input("flow", "t", "impact" :> Integer(9, "9")),
     Input("flow", "t", "impact" :> Integer(8, "8") @@ "vip" :> Yes),
     Input("flow", Unset, NotAnObject),
     Input("ghost", "t", <<>>)}

Symmetry == Permutations(Clients) \union Permutations(Ids)
=============================================================================
