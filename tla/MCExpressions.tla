---------------------------- MODULE MCExpressions ----------------------------
(***************************************************************************)
(* Expressions over two ports, checked and then evaluated for every value  *)
(* of the ports; and value types with every choice of supertypes.          *)
(***************************************************************************)
EXTENDS Constraints, TLC

VARIABLES
    expression,
    status,     \* "written", "accepted" or "refused"
    ports,      \* the values of the ports
    outcome     \* the values by either strategy, once evaluated

vars == <<model, expression, status, ports, outcome>>

(* Texts are abstract, but for their lengths. *)
t1 == <<"1">>
tx == <<"x">>
tX == <<"X">>
ttrue == <<"t", "rue">>

MCNumeral == (t1 :> 10)
MCTruth == (ttrue :> TRUE)
MCLeading == (t1 :> 10)
MCMatching == {<<t1, "digits">>}

Texts == {t1, tx, tX, ttrue}
MCCased ==
    [op \in CaseOperators |->
        [t \in Texts |-> IF op = "lowercase" /\ t = tX THEN tx
                         ELSE IF op = "uppercase" /\ t = tx THEN tX ELSE t]]
MCReplacing ==
    [r \in Texts \X {"digits"} \X Texts |-> IF r[1] = t1 THEN r[3] ELSE r[1]]

-----------------------------------------------------------------------------
Positive == Atomic("Positive")
Code == Atomic("Code")

Keyword == ValueKeyword(FALSE)
Zero == Literal(NumberValue(0))
P == Port("p", Positive)
N == Port("n", Integer)
C == Port("c", Code)

TheModel ==
    [valueTypes |-> [Positive |-> [super |-> Decimal, constraints |-> <<"AboveZero">>],
                     Code |-> [super |-> Text, constraints |-> <<"Short", "Digit">>],
                     Digit |-> [super |-> Code, constraints |-> <<>>]],
     constraints |-> [AboveZero |-> [kind |-> "expression", on |-> Decimal,
                                     expression |-> Binary(">", Keyword, Zero)],
                      Short |-> [kind |-> "LengthConstraint", minLength |-> 0, maxLength |-> 10],
                      Digit |-> [kind |-> "RangeConstraint", lowerBound |-> 0,
                                 lowerBoundInclusive |-> TRUE, upperBound |-> 90,
                                 upperBoundInclusive |-> FALSE]]]

(* Models in which the supertypes are anything, cycles included. *)
Names == {"A", "B", "C"}
Supers == {Text, Integer, Decimal} \cup {Atomic(n) : n \in Names}
Models ==
    {[valueTypes |-> [n \in Names |-> [super |-> super[n], constraints |-> <<n>>]],
      constraints |->
        [A |-> [kind |-> "LengthConstraint", minLength |-> 10, maxLength |-> 10],
         B |-> [kind |-> "DenylistConstraint", denylist |-> {t1}],
         C |-> [kind |-> "RangeConstraint", lowerBound |-> 0, lowerBoundInclusive |-> FALSE,
                upperBound |-> 10, upperBoundInclusive |-> TRUE]]] : super \in [Names -> Supers]}

Types == {Text, Decimal, Integer, Boolean, EmptyCollection, CollectionOf(Decimal)}
             \cup {Atomic(name) : name \in DOMAIN model.valueTypes}

-----------------------------------------------------------------------------
Leaves ==
    {Zero, Literal(NumberValue(15)), Literal(BooleanValue(TRUE)), Literal(TextValue(t1)),
     Literal(TextValue(tx)), Literal([regex |-> "digits"]), P, N, C,
     CollectionLiteral(<<Zero, N>>), CollectionLiteral(<<C>>), Keyword, ValueKeyword(TRUE)}

UnaryOperators ==
    {"not", "+", "-", "sqrt"} \cup RoundingOperators \cup CaseOperators \cup ParseOperators
BinaryOperators ==
    Arithmetic \cup Relations \cup Equalities \cup Exponentials
        \cup {"/", "%", "and", "or", "xor", "matches", "in"}

Once(leaves, unary, binary) ==
    {Unary(op, x) : op \in unary, x \in leaves}
        \cup {Binary(op, x, y) : op \in binary, x \in leaves, y \in leaves}
        \cup {Replace(x, y, z) : x \in leaves \cap {C, Literal(TextValue(t1))},
                                 y \in leaves \cap {Literal([regex |-> "digits"]), C},
                                 z \in leaves \cap {C, N}}

Inner ==
    Once({Zero, P, N, C, Literal(TextValue(tx))},
         {"-", "asInteger", "asBoolean", "floor", "sqrt"}, {"/", "-", "<", "=="})

Twice ==
    {Unary(op, x) : op \in UnaryOperators, x \in Inner}
        \cup {Binary(op, x, y) : op \in {"and", "or", "/", "<", "in", "root"}, x \in Inner,
                                 y \in Inner \cup {N, CollectionLiteral(<<Zero, N>>)}}
        \cup {CollectionLiteral(<<x, y>>) : x \in Inner, y \in {Zero, P, C}}

(* Two values of any two types, for what a collection of them has in common. *)
Pairs == {CollectionLiteral(<<Port("p", s), Port("n", t)>>) : s \in Types, t \in Types}

Init ==
    /\ \/ model = TheModel /\ expression \in Leaves \cup Once(Leaves, UnaryOperators, BinaryOperators)
                                                    \cup Twice
       \/ model \in Models /\ expression \in Pairs \cup {Zero}
    /\ status = "written"
    /\ ports = <<>>
    /\ outcome = <<>>

RECURSIVE Nodes(_)

Nodes(e) ==
    CASE e.kind \in {"unary", "binary", "ternary"} ->
            {e} \cup UNION {Nodes(Operands(e)[i]) : i \in DOMAIN Operands(e)}
      [] e.kind = "collection" -> {e} \cup UNION {Nodes(e.elements[i]) : i \in DOMAIN e.elements}
      [] OTHER -> {e}

Has(operators) == \E x \in Nodes(expression) : "op" \in DOMAIN x /\ x.op \in operators

(* An expression with the keyword is one of a constraint on Code. *)
On == IF \E x \in Nodes(expression) : x.kind = "keyword" THEN Code ELSE Undefined

Type == InferType(expression, On)

(* The checks of an expression, for the type it has itself. *)
Check ==
    /\ status = "written"
    /\ status' = IF Type # Undefined /\ ExpressionAccepted(expression, Type, On)
                 THEN "accepted" ELSE "refused"
    /\ UNCHANGED <<model, expression, ports, outcome>>

PortValues ==
    {v \in [p : {NumberValue(5), NumberValue(10)}, n : {NumberValue(n) : n \in {-10, 0, 20}},
            c : {TextValue(t1)}] :
        \A x \in Nodes(expression) : x.kind = "reference" => IsValid(x.type, v[x.name], <<>>)}

Run ==
    /\ status = "accepted"
    /\ outcome = <<>>
    /\ ports' \in PortValues
    /\ outcome' = [strategy \in {"lazy", "exhaustive"} |->
                      Evaluate(expression, [variables |-> ports', value |-> ports'.c], strategy)]
    /\ UNCHANGED <<model, expression, status>>

Next == Check \/ Run

Spec == Init /\ [][Next]_vars

Evaluated == outcome # <<>>

-----------------------------------------------------------------------------
(* The value of an accepted expression is of the type that was inferred,   *)
(* which the executors that read a property or a transform rely on.        *)
ValueFitsType ==
    Evaluated /\ IsValue(outcome["lazy"]) => IsRepresentation(Type, outcome["lazy"])

(* The inference refuses what would fail an assertion of an evaluator: an  *)
(* accepted expression throws only where a text is parsed.                 *)
OnlyParsingRaises ==
    Evaluated /\ outcome["lazy"] = Raised => Has({"asDecimal", "asInteger", "asBoolean"})

(* And it has no value only where an operation is not defined for every    *)
(* number: division, roots and powers.                                     *)
UndefinedOnlyByPartialOperators ==
    Evaluated /\ outcome["lazy"] = Undefined => Has({"/", "%", "sqrt"} \cup Exponentials)

(* The strategy decides which operands are evaluated, not the result: what *)
(* the validation shows as the value of an expression (exhaustive) is the  *)
(* value it has when it runs (lazy).                                       *)
StrategiesAgree ==
    Evaluated /\ IsValue(outcome["exhaustive"]) => outcome["lazy"] = outcome["exhaustive"]

(* Convertibility is transitive, and types that are convertible into each  *)
(* other are equal: a value can be passed on from column to port to column.*)
ConvertibilityIsAnOrder ==
    status = "written" /\ expression = Zero =>
        \A a, b \in Types :
            /\ IsConvertibleTo(a, a)
            /\ IsConvertibleTo(a, b) /\ IsConvertibleTo(b, a) => a = b
            /\ IsConvertibleTo(a, b) =>
                   \A c \in Types : IsConvertibleTo(b, c) => IsConvertibleTo(a, c)

(* A collection literal has the least type all its elements have.          *)
CommonTypeIsLeast ==
    expression.kind = "collection" /\ Len(expression.elements) = 2 /\ Type # Undefined =>
        LET left == InferType(expression.elements[1], Undefined)
            right == InferType(expression.elements[2], Undefined)
        IN  /\ Both(left, right, Type.element)
            /\ \A t \in Types : Both(left, right, t) => IsConvertibleTo(Type.element, t)

(* A value that is valid for a type is valid for every type that one is    *)
(* convertible to: a transform does not check the values of its ports      *)
(* again.                                                                  *)
ValidForSupertypes ==
    status = "written" /\ expression = Zero =>
        \A a, b \in Types :
            IsConvertibleTo(a, b) =>
                \A v \in {TextValue(t1), TextValue(tx), NumberValue(5), NumberValue(10)} :
                    IsValid(a, v, <<>>) => IsValid(b, v, <<>>)

IsTotal == ~Has(ParseOperators \cup {"/", "%", "sqrt"} \cup Exponentials)

(* Of expressions that have a type and operators that are defined for all  *)
(* operands, only those with a collection that has free variables cannot   *)
(* be simplified: a collection literal counts as free of them.             *)
OnlyCollectionsCannotBeSimplified ==
    status = "refused" /\ Type # Undefined /\ IsTotal =>
        \E x \in Nodes(expression) :
            /\ x.kind = "collection"
            /\ \E y \in Nodes(x) : IsFreeVariable(y)

(* What the checks accept can be evaluated, to a value of the type that    *)
(* was inferred, up to the operators that are partial by their nature.     *)
AcceptedExpressionsAreSound ==
    ValueFitsType /\ OnlyParsingRaises /\ UndefinedOnlyByPartialOperators

(* A value may be taken for one of any type its own is convertible to, and *)
(* collections get the least type that fits, with cycles of supertypes too.*)
ConversionsAreSafe == ConvertibilityIsAnOrder /\ CommonTypeIsLeast /\ ValidForSupertypes
=============================================================================
