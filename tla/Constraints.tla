----------------------------- MODULE Constraints -----------------------------
(***************************************************************************)
(* Constraints and what makes a value valid for a value type.  A typed     *)
(* constraint is a record with its kind and its property values (or their  *)
(* defaults), an expression constraint has the expression and the type it  *)
(* is on.                                                                  *)
(***************************************************************************)
EXTENDS Expressions, SequencesExt

CONSTANT
    Leading     \* parseFloat: the number of every text that starts with one

AllowlistHolds(c, value) == Is("text", value) /\ value.text \in c.allowlist

DenylistHolds(c, value) == Is("text", value) /\ value.text \notin c.denylist

RegexHolds(c, value) == Is("text", value) /\ <<value.text, c.regex>> \in Matching

LengthHolds(c, value) ==
    /\ Is("text", value)
    /\ c.minLength <= Len(value.text) * One
    /\ Len(value.text) * One <= c.maxLength

(* A text without a number is NaN, which is in no range. *)
RangeHolds(c, value) ==
    /\ Is("number", value) \/ (Is("text", value) /\ value.text \in DOMAIN Leading)
    /\ LET n == IF Is("number", value) THEN value.number ELSE Leading[value.text]
       IN  /\ c.lowerBound < n \/ (c.lowerBoundInclusive /\ c.lowerBound = n)
           /\ n < c.upperBound \/ (c.upperBoundInclusive /\ c.upperBound = n)

(* What is neither true nor false fails an assertion. *)
AsVerdict(result) ==
    IF IsValue(result) /\ Is("boolean", result) THEN result.boolean ELSE Raised

ExpressionHolds(c, value, variables) ==
    AsVerdict(Evaluate(c.expression, [variables |-> variables, value |-> value], "lazy"))

(* isValid of the executor of the constraint: TRUE, FALSE or Raised. *)
Holds(c, value, variables) ==
    CASE c.kind = "AllowlistConstraint" -> AllowlistHolds(c, value)
      [] c.kind = "DenylistConstraint" -> DenylistHolds(c, value)
      [] c.kind = "RegexConstraint" -> RegexHolds(c, value)
      [] c.kind = "LengthConstraint" -> LengthHolds(c, value)
      [] c.kind = "RangeConstraint" -> RangeHolds(c, value)
      [] c.kind = "expression" -> ExpressionHolds(c, value, variables)

Declared(type) == IF Is("atomic", type) THEN model.valueTypes[type.atomic].constraints ELSE <<>>

(* The constraints of a type, those of its supertypes first. *)
ConstraintsOf(type) ==
    FoldLeft(LAMBDA above, t : above \o Declared(t), <<>>, Hierarchy(type))

Judged(verdict, left) == [verdict |-> verdict, left |-> left]

(* The first constraint that does not hold decides.  When it raises, its   *)
(* node is left on the stack of the context.                               *)
FirstVerdict(names, verdicts) ==
    IF \A i \in DOMAIN verdicts : verdicts[i] = TRUE THEN Judged(TRUE, <<>>)
    ELSE LET first == CHOOSE i \in DOMAIN verdicts :
                          verdicts[i] # TRUE /\ \A j \in 1..i - 1 : verdicts[j] = TRUE
         IN  IF verdicts[first] = Raised THEN Judged(Raised, <<names[first]>>)
             ELSE Judged(FALSE, <<>>)

Judge(names, value, variables) ==
    FirstVerdict(names, [i \in DOMAIN names |->
                            Holds(model.constraints[names[i]], value, variables)])

(* isValidValueRepresentation *)
Validity(type, value, variables) ==
    IF HasSupertypeCycle(type) THEN Judged(Raised, <<>>)
    ELSE IF ~IsRepresentation(Top(type), value) THEN Judged(FALSE, <<>>)
    ELSE Judge(ConstraintsOf(type), value, variables)

IsValid(type, value, variables) == Validity(type, value, variables).verdict = TRUE
=============================================================================
