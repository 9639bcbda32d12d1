---------------------------- MODULE PropertyBodies ----------------------------
(***************************************************************************)
(* The properties of blocks and constraints: how a body of assignments is  *)
(* checked, assignment by assignment with one context for the whole body,  *)
(* and how its values are read when it is executed.  A program is one body *)
(* in a pipeline, or the body of a block of a composite type followed by   *)
(* the body of a block inside that type, which may refer to the properties *)
(* of the type.  The value of an assignment is an expression or a runtime  *)
(* parameter, whose text is given on the command line.                     *)
(***************************************************************************)
EXTENDS Sheets, Constraints

CONSTANTS
    ObjectTypes,    \* by name: the properties, each with its type and default
    CompositeTypes, \* those that are composite block types
    InputPorts      \* the number of input ports of each transform

VARIABLES
    program,        \* the bodies
    parameters,     \* the texts given for runtime parameters, by name
    current,        \* the number of the body being checked
    checked,        \* how many of its assignments have been checked
    errorOccurred,  \* in the context of that body
    status,         \* definitions, names, assignments, next, accepted, refused, bound, read, raised
    refused,        \* whether an error has been reported for any node
    variables,      \* the values of the properties of the composite type
    values          \* the values of the properties of the innermost body

propertyVars ==
    <<program, parameters, current, checked, errorOccurred, status, refused, variables, values>>

Body(object, assignments) == [object |-> object, assignments |-> assignments]
Assignment(name, value) == [name |-> name, value |-> value]
Parameter(name) == [kind |-> "parameter", name |-> name]
IsParameter(value) == value.kind = "parameter"

Properties(object) == ObjectTypes[object]

(* The specification of a property has the value of its default. *)
Default(object, name) ==
    LET default == Properties(object)[name].default
    IN  IF default = Undefined THEN Undefined ELSE Evaluate(default, NoContext, "lazy")

AssignmentsOf(body, name) == {i \in DOMAIN body.assignments : body.assignments[i].name = name}

(* find: the first assignment of that name. *)
Value(body, name) ==
    LET given == AssignmentsOf(body, name)
    IN  body.assignments[CHOOSE i \in given : \A j \in given : i <= j].value

(* evaluatePropertyValue: a value of another type fails an assertion. *)
EvaluateProperty(value, type, bound) ==
    LET result == IF ~IsParameter(value)
                  THEN Evaluate(value, [variables |-> bound, value |-> Undefined], "lazy")
                  ELSE IF value.name \notin DOMAIN parameters THEN Undefined
                  ELSE ParseValue(parameters[value.name], type)
    IN  IF IsValue(result) /\ ~IsRepresentation(type, result) THEN Raised ELSE result

(* While it is checked, nothing is bound: what refers to a property of the *)
(* composite type has no value.                                            *)
Checked(body, name) ==
    IF AssignmentsOf(body, name) = {} THEN Undefined
    ELSE EvaluateProperty(Value(body, name), Properties(body.object)[name].type, NoContext.variables)

-----------------------------------------------------------------------------
(* What the checks of single types of blocks demand of a value.            *)

OneOf(value, texts) == value.text \in {<<text>> : text \in texts}

ArchiveInterpreterOk(name, value) == name = "archiveType" => OneOf(value, {"zip", "gz"})

CellWriterOk(name, value) == name = "at" => CellWriterAccepted(value.cellRange)

Literals(value) == [i \in DOMAIN value.collection |-> value.collection[i].cellRange]

ColumnDeleterOk(name, value) == name = "delete" => ColumnDeleterAccepted(Literals(value))

RowDeleterOk(name, value) == name = "delete" => RowDeleterAccepted(Literals(value))

GtfsRTInterpreterOk(name, value) ==
    name = "entity" => OneOf(value, {"trip_update", "alert", "vehicle"})

(* Mutant: the least number of retries is one less. *)
HttpExtractorTooLow(name, value) ==
    /\ name = "retries" => value.number >= -One
    /\ name = "retryBackoffMilliseconds" => value.number >= 1000 * One
    /\ name = "retryBackoffStrategy" => OneOf(value, {"exponential", "linear"})

HttpExtractorOk(name, value) ==
    /\ name = "retries" => value.number >= 0
    /\ name = "retryBackoffMilliseconds" => value.number >= 1000 * One
    /\ name = "retryBackoffStrategy" => OneOf(value, {"exponential", "linear"})

LocalFileExtractorOk(name, value) ==
    name = "filePath" => \A i \in DOMAIN value.text : value.text[i] # ".."

TableInterpreterOk(name, value) == name = "columns" => IsInjective(value.collection)

TextFileInterpreterOk(name, value) ==
    name = "encoding" =>
        OneOf(value, {"utf8", "ibm866", "latin2", "latin3", "latin4", "cyrillic", "arabic",
                      "greek", "hebrew", "logical", "latin6", "utf-16"})

TextLineDeleterOk(name, value) ==
    name = "lines" => \A i \in DOMAIN value.collection : value.collection[i].number >= One

TextRangeSelectorOk(name, value) ==
    name \in {"lineFrom", "lineTo"} => value.number >= One

(* checkBlockTypeSpecificProperties *)
SpecificOk(object, name, value) ==
    CASE object = "ArchiveInterpreter" -> ArchiveInterpreterOk(name, value)
      [] object = "CellWriter" -> CellWriterOk(name, value)
      [] object = "ColumnDeleter" -> ColumnDeleterOk(name, value)
      [] object = "GtfsRTInterpreter" -> GtfsRTInterpreterOk(name, value)
      [] object = "HttpExtractor" -> HttpExtractorOk(name, value)
      [] object = "LocalFileExtractor" -> LocalFileExtractorOk(name, value)
      [] object = "RowDeleter" -> RowDeleterOk(name, value)
      [] object = "TableInterpreter" -> TableInterpreterOk(name, value)
      [] object = "TextFileInterpreter" -> TextFileInterpreterOk(name, value)
      [] object = "TextLineDeleter" -> TextLineDeleterOk(name, value)
      [] object = "TextRangeSelector" -> TextRangeSelectorOk(name, value)
      [] OTHER -> TRUE

-----------------------------------------------------------------------------
(* What the checks of single types demand of a body as a whole, of those   *)
(* properties that are assigned and have a value.                          *)

Known(body, names) == \A name \in names : IsValue(Checked(body, name))

TextRangeSelectorBodyOk(body) ==
    Known(body, {"lineFrom", "lineTo"}) =>
        Checked(body, "lineFrom").number <= Checked(body, "lineTo").number

TableTransformerBodyOk(body) ==
    Known(body, {"uses", "inputColumns"}) =>
        InputPorts[Checked(body, "uses").transform] = Len(Checked(body, "inputColumns").collection)

LengthConstraintBodyOk(body) ==
    Known(body, {"minLength", "maxLength"}) =>
        Checked(body, "minLength").number <= Checked(body, "maxLength").number

(* What says that a bound is inclusive is missing, which is taken for      *)
(* true, or has no value, which ends the check.                            *)
RangeConstraintBodyOk(body) ==
    LET lower == Checked(body, "lowerBound").number
        upper == Checked(body, "upperBound").number
        Given(name) == AssignmentsOf(body, name) # {}
        Exclusive(name) == Known(body, {name}) /\ ~Checked(body, name).boolean
    IN  Known(body, {"lowerBound", "upperBound"}) =>
            /\ lower <= upper
            /\ lower = upper /\ (Given("lowerBoundInclusive") => Known(body, {"lowerBoundInclusive"}))
                   /\ (Given("upperBoundInclusive") => Known(body, {"upperBoundInclusive"})) =>
                   ~Exclusive("lowerBoundInclusive") /\ ~Exclusive("upperBoundInclusive")

(* The number of values of a CellWriter gives only a warning. *)
BodyOk(body) ==
    CASE body.object = "TextRangeSelector" -> TextRangeSelectorBodyOk(body)
      [] body.object = "TableTransformer" -> TableTransformerBodyOk(body)
      [] body.object = "LengthConstraint" -> LengthConstraintBodyOk(body)
      [] body.object = "RangeConstraint" -> RangeConstraintBodyOk(body)
      [] OTHER -> TRUE

-----------------------------------------------------------------------------
(* The checks of every body, in their order.                               *)

UniqueNames(body) == \A i, j \in DOMAIN body.assignments :
                         body.assignments[i].name = body.assignments[j].name => i = j

MissingRequired(body) ==
    {name \in DOMAIN Properties(body.object) :
        Default(body.object, name) = Undefined /\ AssignmentsOf(body, name) = {}}

IsTyped(value, type) ==
    IF IsParameter(value) THEN IsAllowedAsRuntimeParameter(type)
    ELSE ExpressionAccepted(value, type, Undefined)

(* An exception of the check is reported as an error as well. *)
IsSpecificallyOk(body, assignment) ==
    LET value == EvaluateProperty(assignment.value, Properties(body.object)[assignment.name].type,
                                  NoContext.variables)
    IN  value # Raised /\ (value # Undefined => SpecificOk(body.object, assignment.name, value))

IsNamedAndTyped(body, assignment) ==
    /\ assignment.name \in DOMAIN Properties(body.object)
    /\ IsTyped(assignment.value, Properties(body.object)[assignment.name].type)

(* The value of a default only has to be a representation of the type. *)
DefaultsOk(object) ==
    \A name \in DOMAIN Properties(object) :
        Properties(object)[name].default # Undefined =>
            /\ IsValue(Default(object, name))
            /\ IsRepresentation(Properties(object)[name].type, Default(object, name))

PropertiesInit ==
    /\ current = 1
    /\ checked = 0
    /\ errorOccurred = FALSE
    /\ status = "definitions"
    /\ refused = FALSE
    /\ variables = NoContext.variables
    /\ values = <<>>

CheckDefinitions ==
    /\ status = "definitions"
    /\ refused' = \E i \in DOMAIN program : ~DefaultsOk(program[i].object)
    /\ status' = "names"
    /\ UNCHANGED <<program, parameters, current, checked, errorOccurred, variables, values>>

CheckNames ==
    /\ status = "names"
    /\ LET body == program[current]
       IN  errorOccurred' = (~UniqueNames(body) \/ MissingRequired(body) # {})
    /\ checked' = 0
    /\ status' = "assignments"
    /\ UNCHANGED <<program, parameters, current, refused, variables, values>>

(* Mutant: an error only counts for the assignment it is in. *)
ErrorAfterAlone(body, assignment) ==
    ~IsNamedAndTyped(body, assignment) \/ ~IsSpecificallyOk(body, assignment)

(* The specific checks are left out after any error in the body. *)
ErrorAfter(body, assignment) ==
    \/ errorOccurred
    \/ ~IsNamedAndTyped(body, assignment)
    \/ ~IsSpecificallyOk(body, assignment)

CheckAssignment ==
    /\ status = "assignments" /\ checked < Len(program[current].assignments)
    /\ errorOccurred' = ErrorAfter(program[current], program[current].assignments[checked + 1])
    /\ checked' = checked + 1
    /\ UNCHANGED <<program, parameters, current, status, refused, variables, values>>

CheckBody ==
    /\ status = "assignments" /\ checked = Len(program[current].assignments)
    /\ errorOccurred' = (errorOccurred \/ ~BodyOk(program[current]))
    /\ refused' = (refused \/ errorOccurred')
    /\ status' = "next"
    /\ UNCHANGED <<program, parameters, current, checked, variables, values>>

(* The literals of runtime parameters are checked after their body, each   *)
(* with a context of its own: a text has to be given and to be parsable.   *)
ParameterOk(body, assignment) ==
    /\ assignment.value.name \in DOMAIN parameters
    /\ assignment.name \in DOMAIN Properties(body.object) =>
           IsValue(ParseValue(parameters[assignment.value.name],
                              Properties(body.object)[assignment.name].type))

ParametersOk(body) ==
    \A i \in DOMAIN body.assignments :
        IsParameter(body.assignments[i].value) => ParameterOk(body, body.assignments[i])

CheckParameters ==
    /\ status = "next"
    /\ refused' = (refused \/ ~ParametersOk(program[current]))
    /\ IF current < Len(program) THEN current' = current + 1 /\ status' = "names"
       ELSE current' = current /\ status' = IF refused' THEN "refused" ELSE "accepted"
    /\ UNCHANGED <<program, parameters, checked, errorOccurred, variables, values>>

-----------------------------------------------------------------------------
(* The execution of an accepted program.                                   *)

(* getPropertyValue: what is missing fails an assertion. *)
PropertyValue(body, name, bound) ==
    LET type == Properties(body.object)[name].type
        result == IF AssignmentsOf(body, name) = {} THEN Default(body.object, name)
                  ELSE EvaluateProperty(Value(body, name), type, bound)
    IN  IF ~IsValue(result) THEN Raised
        ELSE IF ~IsRepresentation(type, result) THEN Raised ELSE result

(* getPropertyValueFromBlockOrDefault: what has no value has the default. *)
PropertyFromBlockOrDefault(body, name, bound) ==
    LET given == IF AssignmentsOf(body, name) = {} THEN Undefined
                 ELSE EvaluateProperty(Value(body, name), Properties(body.object)[name].type, bound)
        result == IF given = Undefined THEN Default(body.object, name) ELSE given
    IN  IF result = Undefined THEN Raised ELSE result

PropertiesRead(body, bound) ==
    [name \in DOMAIN Properties(body.object) |->
        IF body.object \in CompositeTypes THEN PropertyFromBlockOrDefault(body, name, bound)
        ELSE PropertyValue(body, name, bound)]

Innermost == program[Len(program)]

Raises(read) == \E name \in DOMAIN read : read[name] = Raised

BindVariables ==
    /\ status = "accepted"
    /\ variables' = IF Len(program) = 1 THEN variables
                    ELSE PropertiesRead(program[1], variables)
    /\ status' = IF Raises(variables') THEN "raised" ELSE "bound"
    /\ UNCHANGED <<program, parameters, current, checked, errorOccurred, refused, values>>

ReadProperties ==
    /\ status = "bound"
    /\ values' = PropertiesRead(Innermost, variables)
    /\ status' = IF Raises(values') THEN "raised" ELSE "read"
    /\ UNCHANGED <<program, parameters, current, checked, errorOccurred, refused, variables>>

PropertiesNext ==
    \/ CheckDefinitions \/ CheckNames \/ CheckAssignment \/ CheckBody \/ CheckParameters
    \/ BindVariables \/ ReadProperties
=============================================================================
