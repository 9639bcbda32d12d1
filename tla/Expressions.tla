---------------------------- MODULE Expressions ----------------------------
(***************************************************************************)
(* Expressions: the type the validation infers for them and the value they *)
(* have when a pipeline runs.  Evaluation gives a value, Undefined, or     *)
(* Raised when an assertion fails or an error is thrown.                   *)
(***************************************************************************)
EXTENDS ValueTypes

CONSTANTS
    Cased,      \* lowercase and uppercase: the text for an operator and a text
    Matching,   \* the pairs of a text and a regex that match
    Replacing   \* the result for a text, a regex and a replacement

Literal(value) == [kind |-> "value", value |-> value]
CollectionLiteral(elements) == [kind |-> "collection", elements |-> elements]
Port(name, type) == [kind |-> "reference", name |-> name, type |-> type]
ConstraintRef(name) == [kind |-> "constraint", name |-> name]
TransformRef(name) == [kind |-> "transform", name |-> name]
ValueKeyword(lengthAccess) == [kind |-> "keyword", lengthAccess |-> lengthAccess]
Unary(op, operand) == [kind |-> "unary", op |-> op, operand |-> operand]
Binary(op, left, right) == [kind |-> "binary", op |-> op, left |-> left, right |-> right]
Replace(first, second, third) ==
    [kind |-> "ternary", first |-> first, second |-> second, third |-> third]

ParseOperators == {"asText", "asDecimal", "asInteger", "asBoolean"}
CaseOperators == {"lowercase", "uppercase"}
RoundingOperators == {"floor", "ceil", "round"}
Relations == {"<", "<=", ">", ">="}
Equalities == {"==", "!="}
Arithmetic == {"+", "-", "*"}
Exponentials == {"pow", "root"}

-----------------------------------------------------------------------------
(* The values of operators.  Only finite numbers are modelled: an operator *)
(* gives Undefined where JavaScript gives NaN or an infinity.              *)

Quotient(l, r) == IF r > 0 THEN l \div r ELSE (-l) \div (-r)

Division(l, r) == IF r = 0 THEN Undefined ELSE NumberValue(Quotient(l * One, r))

(* The remainder has the sign of the dividend. *)
Modulo(l, r) ==
    LET Abs(n) == IF n < 0 THEN -n ELSE n
    IN  IF r = 0 THEN Undefined
        ELSE NumberValue(IF l < 0 THEN -(Abs(l) % Abs(r)) ELSE l % Abs(r))

Root2(n) == CHOOSE s \in 0..(n + One) : s * s <= n * One /\ (s + 1) * (s + 1) > n * One

Sqrt(n) == IF n < 0 THEN Undefined ELSE NumberValue(Root2(n))

(* A fractional power is represented by the square root. *)
Power(base, exponent) ==
    LET power[n \in 0..(IF exponent < 0 THEN -exponent ELSE exponent) \div One] ==
            IF n = 0 THEN One ELSE (power[n - 1] * base) \div One
    IN  IF exponent % One # 0
        THEN IF base < 0 \/ (base = 0 /\ exponent < 0) THEN Undefined ELSE NumberValue(Root2(base))
        ELSE IF exponent >= 0 THEN NumberValue(power[exponent \div One])
        ELSE Division(One, power[(-exponent) \div One])

Pow(l, r) == Power(l, r)

(* A degree of zero is an infinite exponent, which is harmless below 1. *)
Root(l, r) ==
    IF r = 0 THEN IF -One < l /\ l < One THEN NumberValue(0) ELSE Undefined
    ELSE Power(l, Quotient(One * One, r))

Rounded(op, n) ==
    LET down == n - (n % One)
    IN  NumberValue(CASE n % One = 0 -> n
                      [] op = "floor" \/ (op = "round" /\ n % One < 5) -> down
                      [] OTHER -> down + One)

Related(op, l, r) ==
    CASE op = "<" -> l < r
      [] op = "<=" -> l <= r
      [] op = ">" -> l > r
      [] op = ">=" -> l >= r

In(left, collection) == BooleanValue(\E i \in DOMAIN collection : collection[i] = left)

(* asText, asDecimal, asInteger and asBoolean throw when they cannot parse. *)
ParsedAs(op, text) ==
    LET result == CASE op = "asText" -> TextValue(text)
                    [] op = "asDecimal" -> DecimalFromString(text)
                    [] op = "asInteger" -> IntegerFromString(text)
                    [] op = "asBoolean" -> BooleanFromString(text)
    IN  IF result = Undefined THEN Raised ELSE result

UnaryGuard(op, v) ==
    CASE op = "not" -> Is("boolean", v)
      [] op \in CaseOperators \cup ParseOperators -> Is("text", v)
      [] OTHER -> Is("number", v)

ApplyUnary(op, v) ==
    CASE op = "not" -> BooleanValue(~v.boolean)
      [] op = "+" -> v
      [] op = "-" -> NumberValue(-v.number)
      [] op = "sqrt" -> Sqrt(v.number)
      [] op \in RoundingOperators -> Rounded(op, v.number)
      [] op \in CaseOperators -> TextValue(Cased[op][v.text])
      [] op \in ParseOperators -> ParsedAs(op, v.text)

BinaryGuard(op, l, r) ==
    CASE op = "xor" -> Is("boolean", l) /\ Is("boolean", r)
      [] op = "matches" -> Is("text", l) /\ Is("regex", r)
      [] op = "in" ->
            /\ Is("text", l) \/ Is("number", l)
            /\ Is("collection", r)
            /\ \A i \in DOMAIN r.collection :
                   Is("text", r.collection[i]) \/ Is("number", r.collection[i])
      [] op \in Equalities -> TRUE
      [] OTHER -> Is("number", l) /\ Is("number", r)

ApplyBinary(op, l, r) ==
    CASE op = "xor" -> BooleanValue(l.boolean # r.boolean)
      [] op = "matches" -> BooleanValue(<<l.text, r.regex>> \in Matching)
      [] op = "in" -> In(l, r.collection)
      [] op = "==" -> BooleanValue(l = r)
      [] op = "!=" -> BooleanValue(l # r)
      [] op \in Relations -> BooleanValue(Related(op, l.number, r.number))
      [] op = "+" -> NumberValue(l.number + r.number)
      [] op = "-" -> NumberValue(l.number - r.number)
      [] op = "*" -> NumberValue((l.number * r.number) \div One)
      [] op = "/" -> Division(l.number, r.number)
      [] op = "%" -> Modulo(l.number, r.number)
      [] op = "pow" -> Pow(l.number, r.number)
      [] op = "root" -> Root(l.number, r.number)

-----------------------------------------------------------------------------
(* Evaluation.  A context has the variables and the value of the keyword.  *)

IsValue(x) == x # Undefined /\ x # Raised

(* In the order of evaluation: the first exception wins. *)
FirstFailure(results) ==
    IF \E i \in DOMAIN results : results[i] = Raised THEN Raised ELSE Undefined

EvaluateUnary(op, v) ==
    IF ~IsValue(v) THEN v
    ELSE IF ~UnaryGuard(op, v) THEN Raised ELSE ApplyUnary(op, v)

(* The right operand is not evaluated when the left one has failed, unless *)
(* every operand is to be.                                                 *)
EvaluateBinary(op, strategy, l, r) ==
    IF l = Raised \/ (strategy = "lazy" /\ l = Undefined) THEN l
    ELSE IF ~IsValue(l) \/ ~IsValue(r) THEN FirstFailure(<<l, r>>)
    ELSE IF ~BinaryGuard(op, l, r) THEN Raised ELSE ApplyBinary(op, l, r)

(* Mutant: true ends a conjunction and false a disjunction. *)
EvaluateLogicalTooEarly(op, strategy, l, r) ==
    IF strategy = "lazy" /\ IsValue(l) /\ Is("boolean", l) /\ l.boolean = (op = "and") THEN l
    ELSE IF ~IsValue(l) \/ ~IsValue(r) THEN FirstFailure(<<l, r>>)
    ELSE BooleanValue(IF op = "and" THEN l.boolean /\ r.boolean ELSE l.boolean \/ r.boolean)

(* and, or: false and true decide on their own. *)
EvaluateLogical(op, strategy, l, r) ==
    IF l = Raised \/ (l # Undefined /\ ~Is("boolean", l)) THEN Raised
    ELSE IF strategy = "lazy" /\ (l = Undefined \/ l.boolean = (op = "or")) THEN l
    ELSE IF r = Raised THEN Raised
    ELSE IF l = Undefined \/ r = Undefined THEN Undefined
    ELSE IF ~Is("boolean", r) THEN Raised
    ELSE BooleanValue(IF op = "and" THEN l.boolean /\ r.boolean ELSE l.boolean \/ r.boolean)

EvaluateReplace(strategy, v) ==
    IF v[1] = Raised \/ (strategy = "lazy" /\ v[1] = Undefined) THEN v[1]
    ELSE IF \E i \in 1..3 : ~IsValue(v[i]) THEN FirstFailure(v)
    ELSE IF ~Is("text", v[1]) \/ ~Is("regex", v[2]) \/ ~Is("text", v[3]) THEN Raised
    ELSE TextValue(Replacing[<<v[1].text, v[2].regex, v[3].text>>])

(* The keyword without a value is undefined, whatever is asked of it. *)
KeywordValue(lengthAccess, context) ==
    IF context.value = Undefined \/ ~lengthAccess THEN context.value
    ELSE IF ~Is("text", context.value) THEN Raised
    ELSE NumberValue(One * Len(context.value.text))

VariableValue(name, context) ==
    IF name \in DOMAIN context.variables THEN context.variables[name] ELSE Undefined

RECURSIVE Evaluate(_, _, _)

Evaluate(e, context, strategy) ==
    LET E(x) == Evaluate(x, context, strategy)
    IN  CASE e.kind = "value" -> e.value
          [] e.kind = "constraint" -> [constraint |-> e.name]
          [] e.kind = "transform" -> [transform |-> e.name]
          [] e.kind = "reference" -> VariableValue(e.name, context)
          [] e.kind = "keyword" -> KeywordValue(e.lengthAccess, context)
          [] e.kind = "collection" ->
                LET values == [i \in DOMAIN e.elements |-> E(e.elements[i])]
                IN  IF \A i \in DOMAIN values : IsValue(values[i]) THEN [collection |-> values]
                    ELSE FirstFailure(values)
          [] e.kind = "unary" -> EvaluateUnary(e.op, E(e.operand))
          [] e.kind = "binary" ->
                IF e.op \in {"and", "or"} THEN EvaluateLogical(e.op, strategy, E(e.left), E(e.right))
                ELSE EvaluateBinary(e.op, strategy, E(e.left), E(e.right))
          [] e.kind = "ternary" -> EvaluateReplace(strategy, <<E(e.first), E(e.second), E(e.third)>>)

-----------------------------------------------------------------------------
(* Type inference.  Undefined stands for a type that cannot be inferred,   *)
(* which is reported.  The keyword has the type the constraint is on.      *)

(* Mutant: signs are for integers only where a result is concerned. *)
SignTypeInteger(operand) == IF IsConvertibleTo(operand, Decimal) THEN Integer ELSE Undefined

SignType(operand) == IF IsConvertibleTo(operand, Decimal) THEN operand ELSE Undefined

NotType(operand) == IF IsConvertibleTo(operand, Boolean) THEN Boolean ELSE Undefined

SqrtType(operand) == IF IsConvertibleTo(operand, Decimal) THEN Decimal ELSE Undefined

IntegerConversionType(operand) == IF IsConvertibleTo(operand, Decimal) THEN Integer ELSE Undefined

StringTransformType(operand) == IF IsConvertibleTo(operand, Text) THEN Text ELSE Undefined

ParseType(op, operand) ==
    IF ~IsConvertibleTo(operand, Text) THEN Undefined
    ELSE CASE op = "asText" -> Text
           [] op = "asDecimal" -> Decimal
           [] op = "asInteger" -> Integer
           [] op = "asBoolean" -> Boolean

UnaryType(op, operand) ==
    CASE op = "not" -> NotType(operand)
      [] op \in {"+", "-"} -> SignType(operand)
      [] op = "sqrt" -> SqrtType(operand)
      [] op \in RoundingOperators -> IntegerConversionType(operand)
      [] op \in CaseOperators -> StringTransformType(operand)
      [] op \in ParseOperators -> ParseType(op, operand)

Both(left, right, expected) == IsConvertibleTo(left, expected) /\ IsConvertibleTo(right, expected)

BasicArithmeticType(left, right) ==
    IF ~Both(left, right, Decimal) THEN Undefined
    ELSE IF left = Integer /\ right = Integer THEN Integer ELSE Decimal

DivisionType(left, right) == IF Both(left, right, Decimal) THEN Decimal ELSE Undefined

ExponentialType(left, right) == IF Both(left, right, Decimal) THEN Decimal ELSE Undefined

RelationalType(left, right) == IF Both(left, right, Decimal) THEN Boolean ELSE Undefined

LogicalType(left, right) == IF Both(left, right, Boolean) THEN Boolean ELSE Undefined

MatchesType(left, right) ==
    IF IsConvertibleTo(left, Text) /\ IsConvertibleTo(right, Regex) THEN Boolean ELSE Undefined

(* Only the primitive types themselves, not the types below them. *)
EqualityType(left, right) ==
    IF /\ {left, right} \subseteq {Boolean, Text, Integer, Decimal}
       /\ IsConvertibleTo(left, right) \/ IsConvertibleTo(right, left)
    THEN Boolean ELSE Undefined

InType(left, right) ==
    LET allowed == {Text, Integer, Decimal}
    IN  IF /\ left \in allowed
           /\ right \in {CollectionOf(type) : type \in allowed}
           /\ IsConvertibleTo(left, right.element) \/ IsConvertibleTo(right.element, left)
        THEN Boolean ELSE Undefined

BinaryType(op, left, right) ==
    CASE op \in Arithmetic -> BasicArithmeticType(left, right)
      [] op \in {"/", "%"} -> DivisionType(left, right)
      [] op \in Exponentials -> ExponentialType(left, right)
      [] op \in Relations -> RelationalType(left, right)
      [] op \in {"and", "or", "xor"} -> LogicalType(left, right)
      [] op = "matches" -> MatchesType(left, right)
      [] op \in Equalities -> EqualityType(left, right)
      [] op = "in" -> InType(left, right)

ReplaceType(first, second, third) ==
    IF Both(first, third, Text) /\ IsConvertibleTo(second, Regex) THEN Text ELSE Undefined

LiteralType(value) ==
    CASE Is("text", value) -> Text
      [] Is("boolean", value) -> Boolean
      [] Is("regex", value) -> Regex
      [] Is("cellRange", value) -> CellRange
      [] Is("column", value) -> ValuetypeAssignment
      [] Is("number", value) -> IF value.number % One = 0 THEN Integer ELSE Decimal

(* A single element keeps its type; several have what is common to them.   *)
(* The stack of a type with a cycle fails an assertion.                    *)
CollectionType(elements) ==
    LET stacks == [i \in DOMAIN elements |-> Hierarchy(elements[i])]
        primitive == CommonPrimitive([i \in DOMAIN stacks |-> stacks[i][1]])
        atomic == CommonAtomic(stacks)
    IN  IF \E i \in DOMAIN elements : elements[i] = Undefined THEN Undefined
        ELSE IF \E i \in DOMAIN elements : HasSupertypeCycle(elements[i]) THEN Undefined
        ELSE IF elements = <<>> THEN EmptyCollection
        ELSE IF Len(elements) = 1 THEN CollectionOf(elements[1])
        ELSE IF primitive = Undefined THEN Undefined
        ELSE CollectionOf(IF atomic = Undefined THEN primitive ELSE atomic)

(* on is Undefined outside of a constraint. *)
KeywordType(lengthAccess, on) ==
    IF on = Undefined \/ ~lengthAccess THEN on
    ELSE IF IsConvertibleTo(on, Text) THEN Integer ELSE Undefined

RECURSIVE InferType(_, _)

InferType(e, on) ==
    LET I(x) == InferType(x, on)
    IN  CASE e.kind = "value" -> LiteralType(e.value)
          [] e.kind = "constraint" -> Constraint
          [] e.kind = "transform" -> Transform
          [] e.kind = "reference" -> e.type
          [] e.kind = "keyword" -> KeywordType(e.lengthAccess, on)
          [] e.kind = "collection" -> CollectionType([i \in DOMAIN e.elements |-> I(e.elements[i])])
          [] e.kind = "unary" ->
                IF I(e.operand) = Undefined THEN Undefined ELSE UnaryType(e.op, I(e.operand))
          [] e.kind = "binary" ->
                IF Undefined \in {I(e.left), I(e.right)} THEN Undefined
                ELSE BinaryType(e.op, I(e.left), I(e.right))
          [] e.kind = "ternary" ->
                IF Undefined \in {I(e.first), I(e.second), I(e.third)} THEN Undefined
                ELSE ReplaceType(I(e.first), I(e.second), I(e.third))

-----------------------------------------------------------------------------
(* Simplification: the largest subexpressions without free variables.  A   *)
(* collection literal counts as one whatever its elements are.             *)

Operands(e) ==
    CASE e.kind = "unary" -> <<e.operand>>
      [] e.kind = "binary" -> <<e.left, e.right>>
      [] e.kind = "ternary" -> <<e.first, e.second, e.third>>

IsLiteral(e) == e.kind \notin {"unary", "binary", "ternary"}

(* Mutant: ports are left out. *)
IsFreeVariableButPort(e) == e.kind \in {"constraint", "transform", "keyword"}

IsFreeVariable(e) == e.kind \in {"reference", "constraint", "transform", "keyword"}

RECURSIVE WithoutFreeVariables(_)

WithoutFreeVariables(e) ==
    IF IsLiteral(e) THEN IF IsFreeVariable(e) THEN {} ELSE {e}
    ELSE LET inner == [i \in DOMAIN Operands(e) |-> WithoutFreeVariables(Operands(e)[i])]
         IN  IF \A i \in DOMAIN inner : inner[i] = {Operands(e)[i]} THEN {e}
             ELSE UNION {inner[i] : i \in DOMAIN inner}

IsNegativeNumber(e) ==
    e.kind = "unary" /\ e.op = "-" /\ e.operand.kind \in {"value", "collection"}

Simplifiable(e) == {x \in WithoutFreeVariables(e) : ~IsLiteral(x) /\ ~IsNegativeNumber(x)}

NoContext == [variables |-> [name \in {} |-> Undefined], value |-> Undefined]

(* An assertion demands that what can be simplified has a value. *)
SimplificationSucceeds(e) ==
    \A x \in Simplifiable(e) : IsValue(Evaluate(x, NoContext, "exhaustive"))

(* checkOutputValueTyping, checkConstraintExpression: an expression is     *)
(* refused when it has another type or when the check itself fails.        *)
ExpressionAccepted(e, expected, on) ==
    /\ InferType(e, on) # Undefined
    /\ IsConvertibleTo(InferType(e, on), expected)
    /\ SimplificationSucceeds(e)
=============================================================================
