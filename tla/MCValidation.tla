---------------------------- MODULE MCValidation ----------------------------
(***************************************************************************)
(* Bodies of every type of block and constraint with special checks, alone *)
(* and inside a composite type; value types with constraints, and          *)
(* transforms.  Each is checked and, if accepted, executed.                *)
(***************************************************************************)
EXTENDS PropertyBodies, Definitions, TLC

VARIABLE
    definition      \* a value type or a transform that is checked, or none

vars == <<model, definition, propertyVars>>

None == [kind |-> "none"]

(* Texts are abstract. *)
MCNumeral == (<<"1">> :> One) @@ (<<"-1">> :> -One) @@ (<<"200">> :> 200 * One)
NoTexts == [text \in {} |-> 0]
NoPairs == {}

Letter(s) == Literal(TextValue(<<s>>))
Number(n) == IF n < 0 THEN Unary("-", Literal(NumberValue(-n * One)))
             ELSE Literal(NumberValue(n * One))
Flag(b) == Literal(BooleanValue(b))
RangeOf(literal) == Literal([cellRange |-> literal])
RowLiteral(row) == [kind |-> "row", from |-> [row |-> row]]
ColumnLiteral(column) == [kind |-> "column", from |-> [column |-> column]]
Cells(c1, r1, c2, r2) ==
    [kind |-> "range", from |-> [column |-> c1, row |-> r1], to |-> [column |-> c2, row |-> r2]]
List(elements) == CollectionLiteral(elements)
Given == Parameter("n")

Percent == Atomic("Percent")
Wrong == Atomic("Wrong")

TheModel ==
    [valueTypes |-> [Percent |-> [super |-> Decimal, constraints |-> <<"UpTo100">>, generics |-> <<>>]],
     constraints |-> [UpTo100 |-> [kind |-> "expression", on |-> Decimal,
                                   expression |-> Binary("<=", ValueKeyword(FALSE), Number(100))]]]

Required(type) == [type |-> type, default |-> Undefined]
Optional(type, default) == [type |-> type, default |-> default]

(* The standard library, and composite types. *)
MCObjectTypes ==
    [ArchiveInterpreter |-> [archiveType |-> Required(Text)],
     CellWriter |-> [write |-> Required(CollectionOf(Text)), at |-> Required(CellRange)],
     ColumnDeleter |-> [delete |-> Required(CollectionOf(CellRange))],
     RowDeleter |-> [delete |-> Required(CollectionOf(CellRange))],
     GtfsRTInterpreter |-> [entity |-> Required(Text)],
     HttpExtractor |-> [url |-> Required(Text), retries |-> Optional(Integer, Number(0)),
                        retryBackoffMilliseconds |-> Optional(Integer, Number(1000)),
                        retryBackoffStrategy |-> Optional(Text, Letter("exponential"))],
     LocalFileExtractor |-> [filePath |-> Required(Text)],
     TableInterpreter |-> [columns |-> Required(CollectionOf(ValuetypeAssignment))],
     TableTransformer |-> [inputColumns |-> Required(CollectionOf(Text)),
                           outputColumn |-> Required(Text), uses |-> Required(Transform)],
     TextFileInterpreter |-> [encoding |-> Optional(Text, Letter("utf-8"))],
     TextLineDeleter |-> [lines |-> Required(CollectionOf(Integer))],
     TextRangeSelector |-> [lineFrom |-> Optional(Integer, Number(1)),
                            lineTo |-> Optional(Integer, Number(10000))],
     LengthConstraint |-> [minLength |-> Optional(Integer, Number(0)),
                           maxLength |-> Optional(Integer, Number(10000))],
     RangeConstraint |-> [lowerBound |-> Optional(Decimal, Number(-10000)),
                          lowerBoundInclusive |-> Optional(Boolean, Flag(TRUE)),
                          upperBound |-> Optional(Decimal, Number(10000)),
                          upperBoundInclusive |-> Optional(Boolean, Flag(TRUE))],
     Wrapper |-> [number |-> Optional(Integer, Number(2)), name |-> Optional(Text, Letter("zip")),
                  ratio |-> Optional(Percent, Number(200))],
     Share |-> [ratio |-> Required(Percent)],
     BadDefault |-> [number |-> Optional(Integer, Letter("zip"))],
     NoDefault |-> [number |-> Optional(Decimal, Binary("/", Number(1), Number(0)))]]

MCCompositeTypes == {"Wrapper", "Share", "BadDefault", "NoDefault"}
MCInputPorts == [OneInput |-> 1, TwoInputs |-> 2]

TheNumber == Port("number", Integer)
TheName == Port("name", Text)
TheRatio == Port("ratio", Percent)

(* The values that are tried for the properties of each type. *)
Candidates ==
    [ArchiveInterpreter |->
        [archiveType |-> {Letter("zip"), Letter("rar"), Given, TheName, Number(1)}],
     CellWriter |->
        [write |-> {List(<<Letter("zip")>>), List(<<TheName>>), Given},
         at |-> {RangeOf(Cells(1, 1, 1, 2)), RangeOf(Cells(1, 1, 2, 2)), RangeOf(Cells(1, 2, 1, 1))}],
     ColumnDeleter |->
        [delete |-> {List(<<RangeOf(ColumnLiteral(1))>>), List(<<>>),
                     List(<<RangeOf(ColumnLiteral(1)), RangeOf(RowLiteral(1))>>)}],
     RowDeleter |->
        [delete |-> {List(<<RangeOf(RowLiteral(1))>>), List(<<RangeOf(Cells(1, 2, Star, 2))>>),
                     List(<<RangeOf(ColumnLiteral(1))>>)}],
     GtfsRTInterpreter |-> [entity |-> {Letter("alert"), Letter("zip"), TheName}],
     HttpExtractor |->
        [url |-> {Letter("zip"), TheName},
         retries |-> {Number(1), Number(-1), Given, TheNumber, Unary("asInteger", TheName), Letter("zip")},
         retryBackoffMilliseconds |-> {Number(999)},
         retryBackoffStrategy |-> {Letter("linear"), Letter("zip")},
         retry |-> {Number(1)}],
     LocalFileExtractor |->
        [filePath |-> {Letter("zip"), Literal(TextValue(<<"..", "zip">>)), TheName}],
     TableInterpreter |->
        [columns |-> {List(<<Literal([column |-> "a"]), Literal([column |-> "b"])>>),
                      List(<<Literal([column |-> "a"]), Literal([column |-> "a"])>>)}],
     TableTransformer |->
        [inputColumns |-> {List(<<Letter("a")>>), List(<<Letter("a"), TheName>>)},
         outputColumn |-> {Letter("a")},
         uses |-> {TransformRef("OneInput"), TransformRef("TwoInputs")}],
     TextFileInterpreter |-> [encoding |-> {Letter("utf8"), Letter("utf-8"), Given, TheName}],
     TextLineDeleter |->
        [lines |-> {List(<<Number(1), Number(3)>>), List(<<Number(0)>>), List(<<TheNumber>>),
                    List(<<Unary("floor", Binary("/", Number(1), TheNumber))>>),
                    List(<<Letter("a")>>), Given}],
     TextRangeSelector |->
        [lineFrom |-> {Number(0), Number(3), TheNumber, Given}, lineTo |-> {Number(0), Number(2), Given}],
     LengthConstraint |->
        [minLength |-> {Number(-2), Number(2), Given},
         maxLength |-> {Number(-1), Number(1), Number(2), Given}],
     RangeConstraint |->
        [lowerBound |-> {Number(1), Number(2), Given}, lowerBoundInclusive |-> {Flag(FALSE), Flag(TRUE)},
         upperBound |-> {Number(1), Number(2), Given}, upperBoundInclusive |-> {Flag(FALSE), Given}],
     Wrapper |->
        [number |-> {Number(-1), Number(0), Given}, name |-> {Letter("rar"), Letter("1")},
         ratio |-> {Number(50), Number(200), Given}],
     Share |-> [ratio |-> {Given, TheRatio, Number(200)}],
     BadDefault |-> [number |-> {Number(1)}],
     NoDefault |-> [number |-> {Number(1)}]]

(* Bound: the assignments of a body. *)
MaxAssignments(object) ==
    CASE object = "TableTransformer" -> 3
      [] object = "Wrapper" -> 1
      [] OTHER -> 2

AssignmentsFor(object) ==
    {Assignment(name, value) : name \in DOMAIN Candidates[object],
                               value \in UNION {Candidates[object][n] : n \in DOMAIN Candidates[object]}}

Suitable(object, assignment) == assignment.value \in Candidates[object][assignment.name]

(* Those of RangeConstraint are in one order, without repetitions. *)
Written(object) ==
    LET all == {a \in AssignmentsFor(object) : Suitable(object, a)}
        order == <<"lowerBound", "upperBound", "lowerBoundInclusive", "upperBoundInclusive">>
        chosen == {s \in [1..4 -> all \cup {None}] :
                      \A k \in 1..4 : s[k] = None \/ s[k].name = order[k]}
    IN  IF object # "RangeConstraint"
        THEN {Body(object, s) : s \in UNION {[1..n -> all] : n \in 0..MaxAssignments(object)}}
        ELSE {Body(object, SelectSeq(s, LAMBDA a : a # None)) : s \in chosen}

RECURSIVE Nodes(_)

Nodes(e) ==
    CASE e.kind \in {"unary", "binary", "ternary"} ->
            {e} \cup UNION {Nodes(Operands(e)[i]) : i \in DOMAIN Operands(e)}
      [] e.kind = "collection" -> {e} \cup UNION {Nodes(e.elements[i]) : i \in DOMAIN e.elements}
      [] OTHER -> {e}

Refers(value) == \E x \in Nodes(value) : x.kind = "reference"

RefersToProperties(body) ==
    \E i \in DOMAIN body.assignments : Refers(body.assignments[i].value)

(* A body that refers to properties is one inside of a composite type. *)
Programs ==
    LET bodies == UNION {Written(object) : object \in DOMAIN MCObjectTypes}
    IN  {<<body>> : body \in {b \in bodies : ~RefersToProperties(b)}}
        \cup {<<outer, body>> : outer \in Written("Wrapper"),
                                body \in {b \in bodies : RefersToProperties(b)}}

UsesParameter(bodies) ==
    \E b \in DOMAIN bodies : \E i \in DOMAIN bodies[b].assignments :
        IsParameter(bodies[b].assignments[i].value)

Texts == {<<"1">>, <<"-1">>, <<"200">>, <<"zip">>}

-----------------------------------------------------------------------------
(* Value types A and B with constraints on other types.                    *)

Constraints2 ==
    [Length |-> [kind |-> "LengthConstraint", minLength |-> 0, maxLength |-> One],
     Bounds2 |-> [kind |-> "RangeConstraint", lowerBound |-> 0, upperBound |-> One,
                  lowerBoundInclusive |-> TRUE, upperBoundInclusive |-> TRUE],
     Positive |-> [kind |-> "expression", on |-> Integer,
                   expression |-> Binary(">", ValueKeyword(FALSE), Literal(NumberValue(0)))],
     Short |-> [kind |-> "expression", on |-> Text,
                expression |-> Binary("<", ValueKeyword(TRUE), Literal(NumberValue(One)))],
     Capital |-> [kind |-> "expression", on |-> Text,
                  expression |-> Binary("==", ValueKeyword(FALSE), Letter("1"))]]

Models ==
    {[valueTypes |-> [A |-> [super |-> a, constraints |-> cs, generics |-> g],
                      B |-> [super |-> b, constraints |-> ds, generics |-> <<>>]],
      constraints |-> Constraints2] :
        a \in {Text, Integer, Atomic("B")}, b \in {Text, Decimal, Constraint, Atomic("A")},
        cs \in {<<>>} \cup {<<c>> : c \in DOMAIN Constraints2} \cup {<<"Positive", "Length">>},
        ds \in {<<>>, <<"Short">>, <<"Bounds2">>}, g \in {<<>>, <<"S", "T">>, <<"T", "T">>}}

(* Transforms of inputs a and b to outputs o and p. *)
PortLists ==
    {<<PortDefinition("from", "a", Integer), PortDefinition("from", "b", type),
       PortDefinition("to", "o", out)>> \o more :
        type \in {Text, Integer}, out \in {Integer, Boolean, Percent},
        more \in {<<>>, <<PortDefinition("to", "p", Integer)>>, <<PortDefinition("from", "a", Text)>>}}

TypeIn(ports, name) == PortNamed([ports |-> ports], name).type

Expressions2(ports) ==
    LET A == Port("a", Integer)
        B == Port("b", TypeIn(ports, "b"))
        O == Port("o", TypeIn(ports, "o"))
    IN  {A, B, Binary("+", A, Number(1)), Binary("+", A, B), Binary("<", A, B),
         Binary("+", A, O), Binary("in", A, List(<<Number(1), B>>)), Binary("in", A, List(<<O>>)),
         Binary("in", Number(1), List(<<O>>)), Number(50)}

TransformsWith(ports) ==
    LET single == {OutputAssignment(p, e) : p \in {"o", "a"}, e \in Expressions2(ports)}
    IN  {[kind |-> "transform", ports |-> ports, assignments |-> s] :
            s \in {<<>>} \cup {<<x>> : x \in single} \cup {<<x, y>> : x \in single, y \in single}}

-----------------------------------------------------------------------------
Init ==
    /\ PropertiesInit
    /\ \/ /\ model = TheModel /\ definition = None
          /\ program \in Programs
          /\ parameters \in IF UsesParameter(program)
                            THEN {NoContext.variables} \cup {[n |-> text] : text \in Texts}
                            ELSE {NoContext.variables}
       \/ /\ model = TheModel /\ definition \in UNION {TransformsWith(ports) : ports \in PortLists}
          /\ program = <<>> /\ parameters = NoContext.variables
       \/ /\ model \in Models /\ definition = [kind |-> "valueTypes"]
          /\ program = <<>> /\ parameters = NoContext.variables

DefinitionAccepted ==
    IF definition.kind = "transform" THEN TransformAccepted(definition)
    ELSE /\ \A name \in DOMAIN model.valueTypes : ValueTypeAccepted(name)
         /\ \A name \in DOMAIN model.constraints : ConstraintAccepted(model.constraints[name])

CheckDefinition ==
    /\ definition # None /\ status = "definitions"
    /\ status' = IF DefinitionAccepted THEN "accepted" ELSE "refused"
    /\ UNCHANGED <<program, parameters, current, checked, errorOccurred, refused, variables, values>>

Next ==
    /\ \/ definition = None /\ PropertiesNext
       \/ CheckDefinition
    /\ UNCHANGED <<model, definition>>

Spec == Init /\ [][Next]_vars

-----------------------------------------------------------------------------
(* Whether a check of one node on its own finds an error. *)
SomeCheckFails ==
    \/ \E b \in DOMAIN program :
          \/ ~DefaultsOk(program[b].object) \/ ~UniqueNames(program[b])
          \/ MissingRequired(program[b]) # {} \/ ~ParametersOk(program[b])
          \/ \E i \in DOMAIN program[b].assignments :
                \/ ~IsNamedAndTyped(program[b], program[b].assignments[i])
                \/ ~IsSpecificallyOk(program[b], program[b].assignments[i])
    \/ \E b \in DOMAIN program : ~BodyOk(program[b])

(* An error of one assignment leaves out the checks of those after it, but *)
(* never lets a program pass: it is refused exactly if one of its nodes    *)
(* is wrong, in whatever order its assignments are written.                *)
ErrorsAreNotHidden ==
    definition = None =>
        /\ status = "refused" => SomeCheckFails
        /\ status \in {"accepted", "bound", "read", "raised"} => ~SomeCheckFails

(* The operators that need not have a value. *)
IsPartial(x) ==
    \/ x.kind = "unary" /\ x.op \in ParseOperators
    \/ x.kind = "binary" /\ x.op = "/"

(* The properties of an accepted program can be read, each with a value of *)
(* its type, unless a partial operator is applied to what the block gets   *)
(* from its composite type, whose value no check knows.                    *)
AcceptedBodiesAreRead ==
    status = "raised" =>
        \E i \in DOMAIN Innermost.assignments :
            LET value == Innermost.assignments[i].value
            IN  Refers(value) /\ \E x \in Nodes(value) : IsPartial(x)

(* What the executors rely on, and assert or pass on to a library. *)
MeetsPreconditions(object) ==
    CASE object = "ArchiveInterpreter" -> OneOf(values.archiveType, {"zip", "gz"})
      [] object = "CellWriter" -> LET w == Wrap(values.at.cellRange) IN IsOneDimensional(w)
      [] object = "ColumnDeleter" -> \A i \in DOMAIN values.delete.collection :
                                         IsColumnWrapper(Wrap(Literals(values.delete)[i]))
      [] object = "RowDeleter" -> \A i \in DOMAIN values.delete.collection :
                                      IsRowWrapper(Wrap(Literals(values.delete)[i]))
      [] object = "GtfsRTInterpreter" -> OneOf(values.entity, {"trip_update", "alert", "vehicle"})
      [] object = "HttpExtractor" -> /\ values.retries.number >= 0
                                     /\ OneOf(values.retryBackoffStrategy, {"exponential", "linear"})
      [] object = "LocalFileExtractor" -> \A i \in DOMAIN values.filePath.text :
                                              values.filePath.text[i] # ".."
      [] object = "TableInterpreter" -> IsInjective(values.columns.collection)
      [] object = "TableTransformer" -> InputPorts[values.uses.transform]
                                            = Len(values.inputColumns.collection)
      [] object = "TextFileInterpreter" -> OneOf(values.encoding, {"utf8", "utf-8"})
      [] object = "TextLineDeleter" -> \A i \in DOMAIN values.lines.collection :
                                           values.lines.collection[i].number >= One
      [] object = "TextRangeSelector" -> One <= values.lineFrom.number
                                         /\ values.lineFrom.number <= values.lineTo.number
      [] OTHER -> TRUE

(* An executor gets values outside of what it is written for only in a     *)
(* composite type, where the values a block refers to are not checked.     *)
OnlyForwardedValuesEscape ==
    (status = "read" /\ ~MeetsPreconditions(Innermost.object)) => RefersToProperties(Innermost)

(* The constraint as its executor sees it, and values to try it on. *)
AsRead ==
    IF Innermost.object = "LengthConstraint"
    THEN [kind |-> "LengthConstraint", minLength |-> values.minLength.number,
          maxLength |-> values.maxLength.number]
    ELSE [kind |-> "RangeConstraint", lowerBound |-> values.lowerBound.number,
          upperBound |-> values.upperBound.number,
          lowerBoundInclusive |-> values.lowerBoundInclusive.boolean,
          upperBoundInclusive |-> values.upperBoundInclusive.boolean]

Samples ==
    IF Innermost.object = "LengthConstraint" THEN {TextValue([i \in 1..n |-> "1"]) : n \in {0, AsRead.minLength \div One}}
    ELSE {NumberValue(n) : n \in {AsRead.lowerBound, AsRead.upperBound,
                                  (AsRead.lowerBound + AsRead.upperBound) \div 2}}

(* An accepted constraint on lengths or ranges holds for some value, unless *)
(* its maximum length is negative: the check of single lengths is never    *)
(* called.                                                                 *)
AcceptedConstraintsAreSatisfiable ==
    (status = "read" /\ Innermost.object \in {"LengthConstraint", "RangeConstraint"}) =>
        \/ \E value \in Samples : Holds(AsRead, value, NoContext.variables) = TRUE
        \/ Innermost.object = "LengthConstraint" /\ AsRead.maxLength < 0

(* A value that is not valid for the type of its property comes from the   *)
(* command line or from a default, directly or through a composite type.   *)
OnlyParametersAndDefaultsAreUnconstrained ==
    status = "read" =>
        \A name \in DOMAIN values :
            \/ IsValid(Properties(Innermost.object)[name].type, values[name], variables)
            \/ UsesParameter(program)
            \/ /\ Default("Wrapper", "ratio") = values[name]
               /\ program[1].object = "Wrapper" /\ AssignmentsOf(program[1], "ratio") = {}

-----------------------------------------------------------------------------
Accepted(kind) == status = "accepted" /\ definition # None /\ definition.kind = kind

Representations(type) ==
    {value \in {TextValue(<<>>), TextValue(<<"1", "1">>), NumberValue(-One), NumberValue(15)} :
        IsRepresentation(type, value)}

TypeOfConstraint(c) == IF c.kind = "expression" THEN c.on ELSE TypeOfKind(c.kind)

(* In accepted definitions no constraint, of the type or of its            *)
(* supertypes, fails on a value of the type; the values it is made for     *)
(* include those of the type, unless it is a typed constraint, whose type  *)
(* the check never compares.                                               *)
OnlyTypedConstraintsMismatch ==
    Accepted("valueTypes") =>
        \A name \in DOMAIN model.valueTypes :
            LET type == Atomic(name)
                constraints == [i \in DOMAIN ConstraintsOf(type) |->
                                   model.constraints[ConstraintsOf(type)[i]]]
            IN  /\ \A value \in Representations(type) :
                       Validity(type, value, NoContext.variables).verdict # Raised
                /\ \A i \in DOMAIN constraints :
                       \/ constraints[i].kind # "expression"
                       \/ IsConvertibleTo(type, TypeOfConstraint(constraints[i]))

ReadsOutput(e) == \E x \in Nodes(e) : x.kind = "reference" /\ x.name \in {"o", "p"}

HasCollection(e) == \E x \in Nodes(e) : x.kind = "collection"

Inputs == [a : {NumberValue(0), NumberValue(One)}, b : {NumberValue(0), NumberValue(50 * One)}]
          \cup [a : {NumberValue(0)}, b : {TextValue(<<"1">>)}]

ExpressionOf(transform) == transform.assignments[1].expression

(* An accepted transform gives a value for every row, unless it assigns to *)
(* an input port as well, or reads its output inside of a collection.      *)
AcceptedTransformsRun ==
    Accepted("transform") =>
        \A inputs \in {i \in Inputs : IsRepresentation(PortNamed(definition, "b").type, i.b)} :
            \/ IsValue(OutputOf(definition, inputs))
            \/ \E i \in DOMAIN definition.assignments :
                   PortNamed(definition, definition.assignments[i].port).kind = "from"
            \/ ReadsOutput(ExpressionOf(definition)) /\ HasCollection(ExpressionOf(definition))

(* What an input port holds that is reported as unused makes no difference *)
(* to the output, unless the port is read inside of a collection.          *)
UnusedInputsDoNotMatter ==
    (Accepted("transform") /\ Len(definition.assignments) = 1) =>
        \A i, j \in Inputs :
            (\A name \in {"a", "b"} \ UnusedInputs(definition) : i[name] = j[name]) =>
                \/ OutputOf(definition, i) = OutputOf(definition, j)
                \/ HasCollection(ExpressionOf(definition))

(* What an executor reads has been checked, with the exceptions above. *)
ValuesAreChecked ==
    AcceptedBodiesAreRead /\ OnlyForwardedValuesEscape /\ OnlyParametersAndDefaultsAreUnconstrained

(* A constraint that is accepted can hold, and is on the type it is for. *)
ConstraintsApply == AcceptedConstraintsAreSatisfiable /\ OnlyTypedConstraintsMismatch

(* Transforms that are accepted compute, from the inputs that are used. *)
TransformsAreSound == AcceptedTransformsRun /\ UnusedInputsDoNotMatter
=============================================================================
