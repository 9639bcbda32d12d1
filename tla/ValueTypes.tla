----------------------------- MODULE ValueTypes -----------------------------
(***************************************************************************)
(* Value types and the values they describe.  A primitive value type is a  *)
(* singleton; an atomic one is defined in a model, below a supertype, with *)
(* a list of constraints.  A value is a record with one field, named after *)
(* its JavaScript representation.  Numbers are counted in tenths, so that  *)
(* 15 is the decimal 1.5, and are finite.                                  *)
(***************************************************************************)
EXTENDS Integers, Sequences, FiniteSets

CONSTANTS
    Undefined,  \* JavaScript's undefined
    Raised,     \* an exception
    Numeral,    \* the number of every text parseDecimal accepts
    Truth       \* the boolean of every text the regexes of boolean accept

VARIABLE
    model       \* what is defined: model.valueTypes and model.constraints by name

One == 10

Primitive(name) == [primitive |-> name]
Atomic(name) == [atomic |-> name]
CollectionOf(type) == [element |-> type]
EmptyCollection == [elements |-> "none"]

Text == Primitive("text")
Decimal == Primitive("decimal")
Integer == Primitive("integer")
Boolean == Primitive("boolean")
Regex == Primitive("regex")
Constraint == Primitive("Constraint")
Transform == Primitive("Transform")
CellRange == Primitive("CellRange")
ValuetypeAssignment == Primitive("ValuetypeAssignment")

Is(kind, x) == kind \in DOMAIN x

IsAtomic(type) == type # Undefined /\ Is("atomic", type)

NumberValue(n) == [number |-> n]
TextValue(text) == [text |-> text]
BooleanValue(b) == [boolean |-> b]

(* doGetSupertype *)
DeclaredSupertype(type) ==
    IF Is("atomic", type) THEN model.valueTypes[type.atomic].super ELSE Undefined

(* The types met on the way up, as far as there are value types. *)
WayUp(type) ==
    LET up[n \in 0..Cardinality(DOMAIN model.valueTypes)] ==
            IF n = 0 THEN type
            ELSE IF up[n - 1] = Undefined THEN Undefined ELSE DeclaredSupertype(up[n - 1])
    IN  up

(* The way up does not end. *)
HasSupertypeCycle(type) ==
    IsAtomic(WayUp(type)[Cardinality(DOMAIN model.valueTypes)])

Supertype(type) == IF HasSupertypeCycle(type) THEN Undefined ELSE DeclaredSupertype(type)

RECURSIVE Hierarchy(_)

(* getValuetypeHierarchyStack, from the type at the top to type itself;    *)
(* of a type with a cycle just the type.                                   *)
Hierarchy(type) ==
    IF Supertype(type) = Undefined THEN <<type>>
    ELSE Append(Hierarchy(Supertype(type)), type)

Top(type) == Hierarchy(type)[1]

IsPrimitiveConvertible(type, target) ==
    \/ type = target
    \/ type = Integer /\ target = Decimal
    \/ type = EmptyCollection /\ Is("element", target)

(* Mutant: integers and decimals are convertible both ways. *)
IsConvertibleBothWays(type, target) ==
    \E i \in DOMAIN Hierarchy(type) :
        \/ IsPrimitiveConvertible(Hierarchy(type)[i], target)
        \/ Hierarchy(type)[i] = Decimal /\ target = Integer

IsConvertibleTo(type, target) ==
    \E i \in DOMAIN Hierarchy(type) : IsPrimitiveConvertible(Hierarchy(type)[i], target)

UserPrimitives == {Text, Decimal, Integer, Boolean}

IsReferenceableByUser(type) == Top(type) \in UserPrimitives

IsAllowedAsRuntimeParameter(type) == Top(type) \in UserPrimitives

RECURSIVE IsRepresentation(_, _)

Represents(value, top) ==
    CASE top = Text -> Is("text", value)
      [] top = Boolean -> Is("boolean", value)
      [] top = Decimal -> Is("number", value)
      [] top = Integer -> Is("number", value) /\ value.number % One = 0
      [] top = Regex -> Is("regex", value)
      [] top = Constraint -> Is("constraint", value)
      [] top = Transform -> Is("transform", value)
      [] top = CellRange -> Is("cellRange", value)
      [] top = ValuetypeAssignment -> Is("column", value)
      [] top = EmptyCollection -> Is("collection", value) /\ value.collection = <<>>
      [] Is("element", top) ->
             /\ Is("collection", value)
             /\ \A i \in DOMAIN value.collection :
                    IsRepresentation(top.element, value.collection[i])
      [] OTHER -> FALSE

(* isInternalValueRepresentation; the value may be Undefined. *)
IsRepresentation(type, value) == value # Undefined /\ Represents(value, Top(type))

DecimalFromString(text) ==
    IF text \in DOMAIN Numeral THEN NumberValue(Numeral[text]) ELSE Undefined

IntegerFromString(text) ==
    LET decimal == DecimalFromString(text)
    IN  IF decimal = Undefined \/ decimal.number % One # 0 THEN Undefined ELSE decimal

BooleanFromString(text) ==
    IF text \in DOMAIN Truth THEN BooleanValue(Truth[text]) ELSE Undefined

FromString(text, top) ==
    CASE top = Text -> TextValue(text)
      [] top = Decimal -> DecimalFromString(text)
      [] top = Integer -> IntegerFromString(text)
      [] top = Boolean -> BooleanFromString(text)
      [] OTHER -> Undefined

IfRepresentation(type, value) == IF IsRepresentation(type, value) THEN value ELSE Undefined

(* parseValueToInternalRepresentation: a supertype that is not there fails *)
(* an assertion.                                                           *)
ParseValue(text, type) ==
    IF HasSupertypeCycle(type) THEN Raised
    ELSE IfRepresentation(type, FromString(text, Top(type)))

(* pickCommonPrimitiveValuetype: the more general of those met so far. *)
CommonPrimitive(types) ==
    LET common[n \in 1..Len(types)] ==
            IF n = 1 THEN types[1]
            ELSE IF common[n - 1] = Undefined THEN Undefined
            ELSE IF IsConvertibleTo(types[n], common[n - 1]) THEN common[n - 1]
            ELSE IF IsConvertibleTo(common[n - 1], types[n]) THEN types[n]
            ELSE Undefined
    IN  common[Len(types)]

AreAllTypesEqual(types) == \A i, j \in DOMAIN types : types[i] = types[j]

(* pickCommonAtomicValueType: the deepest level below the primitive one up *)
(* to which the stacks agree.                                              *)
CommonAtomic(stacks) ==
    LET Agree(level) == /\ \A i \in DOMAIN stacks : level <= Len(stacks[i])
                        /\ AreAllTypesEqual([i \in DOMAIN stacks |-> stacks[i][level]])
        levels == {n \in 2..Len(stacks[1]) : \A level \in 2..n : Agree(level)}
    IN  IF levels = {} THEN Undefined
        ELSE stacks[1][CHOOSE n \in levels : \A m \in levels : m <= n]
=============================================================================
