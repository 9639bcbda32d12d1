----------------------------- MODULE Definitions -----------------------------
(***************************************************************************)
(* The checks of definitions: value types with their constraints, and      *)
(* transforms, whose execution is that of Tables.  A transform is a list   *)
(* of ports and a list of assignments of expressions to ports.             *)
(***************************************************************************)
EXTENDS Constraints

(* TypedConstraintDefinition: the type the kinds of constraints are on. *)
TypeOfKind(kind) == IF kind = "RangeConstraint" THEN Decimal ELSE Text

(* Mutant: nothing is known of any constraint. *)
NoCompatibleValuetype(constraint) == Undefined

(* The type of a constraint is looked up only if it cannot be wrapped,     *)
(* which is never the case for one that exists.                            *)
CompatibleValuetype(constraint) ==
    IF constraint.kind = "expression" THEN constraint.on ELSE Undefined

ConstraintMatchesValuetype(name, constraint) ==
    CompatibleValuetype(constraint) # Undefined =>
        IsConvertibleTo(Atomic(name), CompatibleValuetype(constraint))

(* The expression of a constraint is checked where it is defined. *)
ConstraintAccepted(constraint) ==
    constraint.kind = "expression" =>
        ExpressionAccepted(constraint.expression, Boolean, constraint.on)

GenericsHaveNoDuplicate(generics) ==
    \A i, j \in DOMAIN generics : generics[i] = generics[j] => i = j

(* validateValueTypeReference: types of properties and ports. *)
ReferenceAccepted(type) == IsReferenceableByUser(type)

ValueTypeAccepted(name) ==
    LET definition == model.valueTypes[name]
    IN  /\ ~HasSupertypeCycle(Atomic(name))
        /\ ReferenceAccepted(definition.super)
        /\ \A i \in DOMAIN definition.constraints :
               ConstraintMatchesValuetype(name, model.constraints[definition.constraints[i]])
        /\ GenericsHaveNoDuplicate(definition.generics)

-----------------------------------------------------------------------------
PortDefinition(kind, name, type) == [kind |-> kind, name |-> name, type |-> type]
OutputAssignment(port, expression) == [port |-> port, expression |-> expression]

PortsOf(transform, kind) == {i \in DOMAIN transform.ports : transform.ports[i].kind = kind}

AssignmentsTo(transform, name) ==
    {i \in DOMAIN transform.assignments : transform.assignments[i].port = name}

(* Mutant: there may be more than one assignment. *)
EveryOutputAssigned(transform) ==
    \A i \in PortsOf(transform, "to") : AssignmentsTo(transform, transform.ports[i].name) # {}

(* For every output port one assignment; those to input ports are not      *)
(* counted.                                                                *)
UniqueOutputAssignments(transform) ==
    \A i \in PortsOf(transform, "to") :
        Cardinality(AssignmentsTo(transform, transform.ports[i].name)) = 1

SingleOutputPort(transform) == Cardinality(PortsOf(transform, "to")) = 1

RECURSIVE References(_)

(* extractReferenceLiterals: the elements of a collection are left out. *)
References(e) ==
    CASE e.kind = "reference" -> {e.name}
      [] e.kind \in {"unary", "binary", "ternary"} ->
            UNION {References(Operands(e)[i]) : i \in DOMAIN Operands(e)}
      [] OTHER -> {}

PortNamed(transform, name) == transform.ports[CHOOSE i \in DOMAIN transform.ports :
                                              transform.ports[i].name = name]

OutputValueTyping(transform, assignment) ==
    ExpressionAccepted(assignment.expression, PortNamed(transform, assignment.port).type, Undefined)

OutputNotInExpression(transform, assignment) ==
    \A name \in References(assignment.expression) : PortNamed(transform, name).kind # "to"

TransformAccepted(transform) ==
    /\ \A i, j \in DOMAIN transform.ports :
           transform.ports[i].name = transform.ports[j].name => i = j
    /\ UniqueOutputAssignments(transform)
    /\ SingleOutputPort(transform)
    /\ \A i \in DOMAIN transform.assignments :
           /\ OutputValueTyping(transform, transform.assignments[i])
           /\ OutputNotInExpression(transform, transform.assignments[i])

(* The input ports of which a warning says that they are never used. *)
UnusedInputs(transform) ==
    {transform.ports[i].name : i \in PortsOf(transform, "from")}
        \ UNION {References(transform.assignments[i].expression) : i \in DOMAIN transform.assignments}

(* getOutputAssignment, and the evaluation for one row: the ports are      *)
(* bound to the values of the columns.                                     *)
OutputOf(transform, inputs) ==
    IF Len(transform.assignments) # 1 THEN Raised
    ELSE Evaluate(transform.assignments[1].expression,
                  [variables |-> inputs, value |-> Undefined], "lazy")
=============================================================================
