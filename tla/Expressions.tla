----------------------------- MODULE Expressions -----------------------------
(***************************************************************************)
(* The two expression languages of governance packages and the facts they  *)
(* are evaluated on: the three-valued engine of applicability criteria     *)
(* (deterministic_expression) and the two-valued interpreter of decision   *)
(* conditions (package_interpreter).                                       *)
(*                                                                         *)
(* One abstract syntax serves both: an expression is the sequence of its   *)
(* nodes, each after the ones it takes as arguments, the root last.  A node *)
(* is a test [op, field, value], or [op, args] for "not", "all" and "any", *)
(* where args are positions of nodes.  For the interpreter these are the   *)
(* comparisons and the connectives of its own syntax, "exists" is a        *)
(* comparison with None, and string and date tests do not exist.           *)
(***************************************************************************)
EXTENDS Integers, Sequences

-----------------------------------------------------------------------------
(* Values *)

Scalar(kind, n) == [kind |-> kind, n |-> n, elements |-> {}]

\* A column that is not set is a fact with the value None; a fact is missing
\* when an object on its path is.
Null == Scalar("null", 0)
Missing == Scalar("missing", 0)

\* A text with n > 0 is the word of n letters "a"; one with n < 0 is a date.
Number(n) == Scalar("number", n)
Boolean(n) == Scalar("boolean", n)
Text(n) == Scalar("text", n)
List(values) == [kind |-> "list", n |-> 0, elements |-> values]

IsNumeric(v) == v.kind \in {"number", "boolean"}

Equal(a, b) == IF IsNumeric(a) /\ IsNumeric(b) THEN a.n = b.n ELSE a = b

\* The ordering of dates as text agrees with the calendar, and puts them before
\* every word.  Lists are not ordered with scalars, and no list with another.
Ordered(a, b) ==
  \/ IsNumeric(a) /\ IsNumeric(b)
  \/ a.kind = "text" /\ b.kind = "text"

IsPart(a, b) == a = b \/ (0 < a.n /\ a.n <= b.n)

IsDate(v) == v.kind = "text" /\ v.n < 0

-----------------------------------------------------------------------------
(* Tests *)

Truth(p) == IF p THEN "TRUE" ELSE "FALSE"

Negation(t) == IF t = "TRUE" THEN "FALSE" ELSE IF t = "FALSE" THEN "TRUE" ELSE t

OrderingTests ==
  {"greater_than", "greater_than_or_equal", "less_than", "less_than_or_equal"}
DateTests == {"date_before", "date_after"}
ComparisonTests ==
  {"equals", "not_equals", "in", "not_in", "contains", "starts_with"}
    \cup OrderingTests \cup DateTests
ExistenceTests == {"exists", "not_exists"}
Connectives == {"all", "any", "not"}

\* What both syntaxes can express, of the fields that are given.
IsNode(node, fields, i) ==
  IF node.op \in Connectives
    THEN /\ node.args \in Seq(1 .. i - 1)
         /\ node.op = "not" => Len(node.args) = 1
    ELSE node.field \in fields

IsExpression(e, fields) ==
  /\ DOMAIN e = 1 .. Len(e) /\ Len(e) \in Nat \ {0}
  /\ \A i \in DOMAIN e : IsNode(e[i], fields, i)

\* Python's comparisons, which raise a TypeError where they are not defined.
Contains(container, v) ==
  IF container.kind = "list" THEN Truth(\E e \in container.elements : Equal(e, v))
  ELSE IF container.kind = "text" /\ v.kind = "text" THEN Truth(IsPart(v, container))
  ELSE "RAISES"

Order(op, a, b) ==
  IF ~ Ordered(a, b) THEN "RAISES"
  ELSE IF a.n = b.n THEN Truth(op \in {"greater_than_or_equal", "less_than_or_equal"})
  ELSE IF a.n > b.n THEN Truth(op \in {"greater_than", "greater_than_or_equal"})
  ELSE Truth(op \in {"less_than", "less_than_or_equal"})

Comparison(op, a, b) ==
  CASE op = "equals" -> Truth(Equal(a, b))
    [] op = "not_equals" -> Truth(~ Equal(a, b))
    [] op = "in" -> Contains(b, a)
    [] op = "not_in" -> Negation(Contains(b, a))
    [] op = "contains" -> Contains(a, b)
    [] op \in OrderingTests -> Order(op, a, b)
    [] OTHER -> "MALFORMED"

\* The tests that have a meaning of their own in the three-valued engine.
StartsWith(a, b) ==
  IF a.kind = "text" /\ b.kind = "text" THEN Truth(IsPart(b, a)) ELSE "INDETERMINATE"

DateOrder(op, a, b) ==
  IF ~ (IsDate(a) /\ IsDate(b)) THEN "INDETERMINATE"
  ELSE Truth(IF op = "date_before" THEN a.n < b.n ELSE a.n > b.n)

\* Mutant of ApplyOperator: "in" looks for the literal in the fact.
ApplyOperatorBackwards(op, a, b) ==
  IF op = "starts_with" THEN StartsWith(a, b)
  ELSE IF op \in DateTests THEN DateOrder(op, a, b)
  ELSE IF op \in OrderingTests /\ "boolean" \in {a.kind, b.kind} THEN "INDETERMINATE"
  ELSE LET t == Comparison(IF op = "in" THEN "contains" ELSE op, a, b)
       IN IF t = "RAISES" THEN "INDETERMINATE" ELSE t

\* Unlike the interpreter, the engine never raises for the types of values.
ApplyOperator(op, a, b) ==
  IF op = "starts_with" THEN StartsWith(a, b)
  ELSE IF op \in DateTests THEN DateOrder(op, a, b)
  ELSE IF op \in OrderingTests /\ "boolean" \in {a.kind, b.kind} THEN "INDETERMINATE"
  ELSE IF Comparison(op, a, b) = "RAISES" THEN "INDETERMINATE"
  ELSE Comparison(op, a, b)

-----------------------------------------------------------------------------
(* The three-valued engine: "TRUE", "FALSE", "INDETERMINATE", or "MALFORMED"*)
(* where it raises an ExpressionError.                                      *)

IsPresent(v) == v \notin {Missing, Null}

\* Mutant of Test: a fact that is missing compares as None.
TestMissingAsNone(e, v) ==
  IF e.op = "exists" THEN Truth(IsPresent(v))
  ELSE IF e.op = "not_exists" THEN Truth(~ IsPresent(v))
  ELSE IF e.op \notin ComparisonTests THEN "MALFORMED"
  ELSE ApplyOperator(e.op, IF v = Missing THEN Null ELSE v, e.value)

Test(e, v) ==
  IF e.op = "exists" THEN Truth(IsPresent(v))
  ELSE IF e.op = "not_exists" THEN Truth(~ IsPresent(v))
  ELSE IF e.op \notin ComparisonTests THEN "MALFORMED"
  ELSE IF v = Missing THEN "INDETERMINATE"
  ELSE ApplyOperator(e.op, v, e.value)

\* Every argument is evaluated, so a defect anywhere shows.
Combine(op, results) ==
  LET decisive == Truth(op = "any") IN
  IF results = {} \/ "MALFORMED" \in results THEN "MALFORMED"
  ELSE IF op = "not" THEN Negation(CHOOSE r \in results : TRUE)
  ELSE IF decisive \in results THEN decisive
  ELSE IF "INDETERMINATE" \in results THEN "INDETERMINATE" ELSE Negation(decisive)

Evaluate(e, facts) ==
  LET verdict[i \in DOMAIN e] ==
        IF e[i].op \in Connectives
          THEN Combine(e[i].op, {verdict[e[i].args[k]] : k \in DOMAIN e[i].args})
          ELSE Test(e[i], facts[e[i].field])
  IN verdict[Len(e)]

-----------------------------------------------------------------------------
(* The interpreter: "TRUE", "FALSE", "MALFORMED", or "RAISES" where a        *)
(* TypeError goes through to the caller.                                     *)

\* A name that does not resolve is None.
InterpretTest(e, v) ==
  LET value == IF v = Missing THEN Null ELSE v IN
  IF e.op = "exists" THEN Truth(value # Null)
  ELSE IF e.op = "not_exists" THEN Truth(value = Null)
  ELSE Comparison(e.op, value, e.value)

\* "and" and "or" stop at the first operand that decides, or raises.
ShortCircuit(neutral, results) ==
  IF \A k \in DOMAIN results : results[k] = neutral THEN neutral
  ELSE results[CHOOSE k \in DOMAIN results :
                 results[k] # neutral /\ \A j \in 1 .. k - 1 : results[j] = neutral]

Interpret(e, facts) ==
  LET result[i \in DOMAIN e] ==
        IF e[i].op \notin Connectives THEN InterpretTest(e[i], facts[e[i].field])
        ELSE LET results == [k \in DOMAIN e[i].args |-> result[e[i].args[k]]] IN
          IF e[i].op = "not" THEN Negation(results[1])
          ELSE ShortCircuit(Truth(e[i].op = "all"), results)
  IN result[Len(e)]
=============================================================================
