------------------------------ MODULE Routing ------------------------------
(***************************************************************************)
(* Rule-based routing of a new ticket (engine/routing.go, the rendering of *)
(* engine/util.go), and the forms a field value takes on its way there: a  *)
(* caller writes it as a GraphQL literal or in JSON, an author writes it   *)
(* in YAML, and the store gives a definition back from JSON.               *)
(*                                                                         *)
(* A written value is [type, is, text]: what it denotes, and its spelling. *)
(* A number is an "integer" or, with a point or an exponent, a "decimal".  *)
(* A Go value is [type, is].  Nulls, lists and objects inside a field are  *)
(* left out, and so are fractions and numbers beyond int64.                *)
(***************************************************************************)
EXTENDS Integers, Sequences, TLC

CONSTANTS
    Unset,    \* the empty string
    MaxExact  \* 2^53 in the program: float64 has every integer up to it

ASSUME RoutingAssumption == MaxExact \in Nat /\ \E p \in 0 .. MaxExact : MaxExact = 2 ^ p

Numbers  == {"integer", "decimal"}
Authored == Numbers \union {"string", "bool"}

\* Beyond MaxExact float64 has every second integer, then every fourth, and so on.
Spacing(n) ==
    2 ^ (CHOOSE k \in 1 .. n : n <= MaxExact * 2 ^ k /\ n > MaxExact * 2 ^ (k - 1))

\* The multiple of u nearest to n; of two that are equally near, the even one.
NearestMultiple(n, u) ==
    LET below == n \div u
        rest  == 2 * (n % u)
    IN  u * (IF rest > u \/ (rest = u /\ below % 2 = 1) THEN below + 1 ELSE below)

\* The float64 that an integer becomes.
float64(n) ==
    CASE n \in -MaxExact .. MaxExact -> n
      [] n > MaxExact                -> NearestMultiple(n, Spacing(n))
      [] n < -MaxExact               -> -NearestMultiple(-n, Spacing(-n))

-----------------------------------------------------------------------------
\* parseLiteral: a number in a GraphQL document becomes its spelling.
parseLiteral(w) ==
    IF w.type \in Numbers THEN [type |-> "string", is |-> w.text]
    ELSE [type |-> w.type, is |-> w.is]

\* JSON numbers become float64, all of them.
fromJSON(w) ==
    IF w.type \in Numbers THEN [type |-> "float64", is |-> float64(w.is)]
    ELSE [type |-> w.type, is |-> w.is]

\* YAML keeps integers as they are.
fromYAML(w) ==
    CASE w.type = "integer" -> [type |-> "int", is |-> w.is]
      [] w.type = "decimal" -> [type |-> "float64", is |-> float64(w.is)]
      [] w.type \notin Numbers -> [type |-> w.type, is |-> w.is]

\* What json.Marshal and json.Unmarshal make of a Go value: the digits of an int are read
\* again as a float64.
throughStore(v) ==
    IF v.type = "int" THEN [type |-> "float64", is |-> float64(v.is)] ELSE v

\* The decimal digits of an integer, whichever of the two types holds it.
toString(v) ==
    CASE v.type = "string" -> v.is
      [] v.type = "bool"   -> IF v.is THEN "true" ELSE "false"
      [] v.type \in {"int", "float64"} -> ToString(v.is)

\* Mutant of equal: values are compared as they are.
equalTyped(a, b) == a.type = b.type /\ a.is = b.is

equal(a, b) == toString(a) = toString(b)

\* A rule is [if, queue, assignee, priority]; if gives the value each key must have.
matchRule(fields, cond) ==
    /\ DOMAIN cond # {}
    /\ \A k \in DOMAIN cond : k \in DOMAIN fields /\ equal(fields[k], cond[k])

\* Mutant of Override: a rule sets all three, whatever it leaves empty.
OverrideAlways(a, b) == b

\* The value a, replaced by b when the rule has one.
Override(a, b) == IF b # Unset THEN b ELSE a

\* The first rule that matches decides; its position, from 0, is noted in a field.
Apply(ticket, rules) ==
    LET matching == {i \in DOMAIN rules : matchRule(ticket.fields, rules[i].if)}
        first == CHOOSE i \in matching : \A j \in matching : i <= j
    IN  IF matching = {} THEN ticket
        ELSE [ticket EXCEPT
                !.queue    = Override(@, rules[first].queue),
                !.assignee = Override(@, rules[first].assignee),
                !.priority = Override(@, rules[first].priority),
                !.fields   = [k \in DOMAIN @ \union {"_routed_by"} |->
                                IF k = "_routed_by" THEN [type |-> "int", is |-> first - 1]
                                ELSE @[k]]]
=============================================================================
