-------------------------- MODULE MCPolicyEvaluation --------------------------
EXTENDS PolicyEvaluation

CONSTANTS jurisdiction, amount

\* In one domain "1", "1.1", "1.2", a specific one without a version and an
\* urgent one; and another domain.
MCDomain == <<"spend", "spend", "spend", "spend", "spend", "travel">>
MCPriority == <<100, 100, 100, 100, 10, 100>>
MCVersion == <<<<1>>, <<1, 1>>, <<1, 2>>, << >>, <<1, 0>>, <<2, NoDigit>>>>

MCScope ==
  [p \in Approved |-> [f \in Fields |->
    IF p \in {4, 6} /\ f = jurisdiction THEN {Text(1)} ELSE {}]]

MCEffectiveAt == <<0, 0, 0, 0, 1, 0>>
MCExpiresAt == <<2, 2, 1, 2, 2, 2>>

MCFactValues ==
  [f \in Fields |->
    IF f = jurisdiction THEN {Null, Text(1), Text(2), Text(-1), List({Text(1)})}
                        ELSE {Null, Number(0), Number(1), Boolean(1)}]

Check(op, f, v) == <<[op |-> op, field |-> f, value |-> v]>>

Tests ==
  {Check(op, jurisdiction, Text(1)) :
     op \in {"equals", "starts_with", "contains", "greater_than", "exists", "unsupported"}}
  \cup {Check("not_equals", jurisdiction, Text(2)),
        Check("in", jurisdiction, List({Text(1), Null})),
        Check("not_in", jurisdiction, List({Text(1)})),
        Check("date_before", jurisdiction, Text(-1)),
        Check("date_after", jurisdiction, Text(-2))}
  \cup {Check(op, amount, Number(1)) :
          op \in {"equals", "not_equals", "in", "not_exists",
                  "greater_than_or_equal", "less_than"}}

Apply(op, e) == Append(e, [op |-> op, args |-> <<Len(e)>>])

\* The nodes of f stand behind those of e.
Shift(f, n) ==
  [i \in DOMAIN f |->
    IF f[i].op \in Connectives
      THEN [f[i] EXCEPT !.args = [k \in DOMAIN @ |-> @[k] + n]] ELSE f[i]]

Compound(op, e, f) ==
  Append(e \o Shift(f, Len(e)), [op |-> op, args |-> <<Len(e), Len(e) + Len(f)>>])

Pairs ==
  {Compound(op, a, b) : op \in {"all", "any"}, a \in Tests, b \in Tests}

Nested ==
  {Compound("all", Compound("any", a, b), Check("equals", amount, Number(1))) :
     a \in Tests, b \in {Check("exists", amount, Null), Check("in", jurisdiction, Text(2))}}

MCCriteria ==
  Tests \cup {Apply("not", e) : e \in Tests} \cup Pairs \cup Nested
    \cup {<<[op |-> "all", args |-> << >>]>>}
=============================================================================
