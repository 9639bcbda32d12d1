--------------------------- MODULE BlockExecution ---------------------------
(***************************************************************************)
(* The execution of one pipeline: executeBlocks and executeBlock, the      *)
(* executor of composite blocks that calls executeBlocks again, the node   *)
(* stack of ExecutionContext, and the variables of EvaluationContext.      *)
(*                                                                         *)
(* frames is the call stack of executeBlocks: the pipeline's activation    *)
(* first, the innermost composite block's last.  Built-in executors are    *)
(* external: one step in which they produce a value or fail.  A produced   *)
(* value is named by the node stack at the time, so that it says which     *)
(* block of which activation it comes from.                                *)
(*                                                                         *)
(* executeBlock returns early for a null input, but executeBlocks never    *)
(* passes one: a parent's null is replaced by NONE.                        *)
(***************************************************************************)
EXTENDS PipelineGraph

CONSTANTS
    CompositeTypes,  \* the composite block types
    Names,           \* names of their properties
    PIPELINE,        \* the container that is the pipeline itself
    BUILTIN,         \* the type of blocks with an executor of their own
    LITERAL,         \* a property assignment that refers to no property
    ABSENT,          \* no assignment, no default, no variable
    NONE,            \* the value of the io type None
    NULL,            \* no value at all
    Programs,        \* the pipelines to execute, with the types they use
    MayFail,         \* blocks whose executor may return an error or throw
    MayEmitNull,     \* blocks whose executor may emit null
    MayLackExecutor  \* blocks for whose type there may be no executor

Containers == CompositeTypes \cup {PIPELINE}

(* A program.  nesting ranks the containers so that every composite block  *)
(* is of a type of higher rank than the container it is in: a type that    *)
(* contains itself passes the validation but never ends to execute.        *)
Program ==
    [pipes      : [Containers -> Seq(Pipe)],
     home       : [Blocks -> Containers],
     type       : [Blocks -> CompositeTypes \cup {BUILTIN}],
     output     : [CompositeTypes -> Blocks],
     properties : [CompositeTypes -> Seq(Names)],
     default    : [CompositeTypes -> [Names -> {LITERAL, ABSENT}]],
     assigned   : [Blocks -> [Names -> Names \cup {LITERAL, ABSENT}]],
     reads      : [Blocks -> SUBSET Names],
     nesting    : [Containers -> Nat]]

WellFormed(prog) ==
    /\ \A c \in Containers : \A p \in PipeSet(prog.pipes[c]) :
          prog.home[p.from] = c /\ prog.home[p.to] = c
    /\ \A b \in Blocks :
          prog.type[b] # BUILTIN =>
              prog.nesting[prog.home[b]] < prog.nesting[prog.type[b]]

ASSUME ProgramsAssumption ==
    \A prog \in Programs : prog \in Program /\ WellFormed(prog)

ASSUME MarkersAssumption ==
    /\ PIPELINE \notin CompositeTypes
    /\ BUILTIN \notin CompositeTypes
    /\ LITERAL \notin Names /\ ABSENT \notin Names /\ LITERAL # ABSENT
    /\ ABSENT \notin (Blocks \cup CompositeTypes) \X Names
    /\ NONE # NULL /\ NONE \notin Seq(Blocks) /\ NULL \notin Seq(Blocks)
    /\ MayFail \subseteq Blocks /\ MayEmitNull \subseteq Blocks
    /\ MayLackExecutor \subseteq Blocks

(* The properties whose values a container's blocks can refer to. *)
ScopeNames(prog, container) ==
    IF container = PIPELINE THEN {} ELSE Members(prog.properties[container])

(* The types of the blocks in a container, of the blocks in these, ... *)
HeldBy(prog, container) ==
    {d \in Containers :
        \A R \in SUBSET Containers :
            (\A b \in Blocks :
                prog.home[b] \in R \cup {container} /\ prog.type[b] # BUILTIN
                    => prog.type[b] \in R)
            => d \in R}

(* Every type's pipes have an order, and end with a block that they touch. *)
TypesExecute(prog) ==
    /\ \A c \in Containers : ~Cyclic(prog.pipes[c])
    /\ \A t \in CompositeTypes : prog.output[t] \in PipedBlocks(prog.pipes[t])

(* Every property of a composite block's type has a value there, and what   *)
(* is referred to are properties of the type that the block is in.          *)
PropertiesHaveValues(prog) ==
    \A b \in Blocks :
        IF prog.type[b] = BUILTIN
        THEN prog.reads[b] \subseteq ScopeNames(prog, prog.home[b])
        ELSE \A name \in Members(prog.properties[prog.type[b]]) :
                \/ prog.assigned[b][name] \in {LITERAL} \cup ScopeNames(prog, prog.home[b])
                \/ /\ prog.assigned[b][name] = ABSENT
                   /\ prog.default[prog.type[b]][name] = LITERAL

(* No type has a property of the same name as one of a type inside of it. *)
NestedNamesDiffer(prog) ==
    \A c \in Containers : \A d \in HeldBy(prog, c) :
        ScopeNames(prog, c) \cap ScopeNames(prog, d) = {}

(* A program of which no composite block can fail or disturb another one;   *)
(* only the pipeline's own blocks may fail.                                 *)
Healthy(prog) ==
    /\ TypesExecute(prog)
    /\ PropertiesHaveValues(prog)
    /\ NestedNamesDiffer(prog)
    /\ \A b \in MayFail : prog.home[b] = PIPELINE
    /\ MayLackExecutor = {}

(* The blocks of every composite type start with a single one. *)
HasSingleStarts(prog) ==
    \A t \in CompositeTypes : \A a, b \in PipedBlocks(prog.pipes[t]) :
        /\ ParentBlocks(prog.pipes[t], a) = {}
        /\ ParentBlocks(prog.pipes[t], b) = {}
        => a = b

VARIABLES
    program,    \* what is executed; chosen initially
    frames,     \* the activations of executeBlocks, innermost last
    stack,      \* ExecutionContext.stack: the nodes entered and not left
    variables,  \* EvaluationContext.variableValues
    binding,    \* properties of the composite block bound so far
    phase,      \* "next", "execute", "result" or "done"
    result,     \* the Result executeBlock returns
    outcome,    \* "running", "success", "failure" or "rejected"
    scopes,     \* history: the properties' values in each activation
    failed      \* history: an error has been returned or an assertion failed

vars == <<program, frames, stack, variables, binding, phase, result, outcome,
          scopes, failed>>

-----------------------------------------------------------------------------
(* Values and activations *)

(* A variable's value is named by the block or type that defines it. *)
VariableValue == (Blocks \cup CompositeTypes) \X Names

Value == {NONE, NULL} \cup Seq(Blocks)

Ok(value) == [kind |-> "ok", value |-> value]

Err == [kind |-> "err", value |-> NULL]

Top == frames[Len(frames)]

Current(frame) == frame.order[frame.index]

PipesOf(container) == program.pipes[container]

NoVariables == [name \in Names |-> ABSENT]

Activation(container, order, initial) ==
    [container |-> container,
     order     |-> order,
     index     |-> 1,
     values    |-> [block \in Blocks |-> NONE],
     initial   |-> initial,
     input     |-> NONE]

(* executeBlocks starts with the sorting, which throws if there is a cycle. *)
Init ==
    /\ program \in Programs
    /\ \/ /\ ~Cyclic(PipesOf(PIPELINE))
          /\ \E order \in TopologicalOrders(PipesOf(PIPELINE)) :
                frames = << Activation(PIPELINE, order, NONE) >>
          /\ phase = "next"
          /\ outcome = "running"
          /\ failed = FALSE
       \/ /\ Cyclic(PipesOf(PIPELINE))
          /\ frames = << Activation(PIPELINE, << >>, NONE) >>
          /\ phase = "done"
          /\ outcome = "rejected"
          /\ failed = TRUE
    /\ stack = << >>
    /\ variables = NoVariables
    /\ binding = 0
    /\ result = Ok(NULL)
    /\ scopes = << NoVariables >>

-----------------------------------------------------------------------------
(* executeBlocks *)

FirstParent(pipes, block) ==
    LET first == CHOOSE i \in IngoingPipes(pipes, block) :
                     \A j \in IngoingPipes(pipes, block) : i <= j
    IN  pipes[first].from

(* Mutant: the first block does not take what executeBlocks is passed. *)
InputValueWithoutInitial(frame) ==
    LET block == Current(frame)
        pipes == PipesOf(frame.container)
    IN  IF ParentBlocks(pipes, block) = {} THEN NONE
        ELSE frame.values[FirstParent(pipes, block)]

(* The first parent's output; null and a missing parent count as NONE.  The *)
(* first block then takes what was passed to executeBlocks.                 *)
InputValue(frame) ==
    LET block      == Current(frame)
        pipes      == PipesOf(frame.container)
        fromParent == IF ParentBlocks(pipes, block) = {} THEN NONE
                      ELSE frame.values[FirstParent(pipes, block)]
        input      == IF fromParent = NULL THEN NONE ELSE fromParent
    IN  IF frame.index = 1 /\ input = NONE THEN frame.initial ELSE input

EnterBlock ==
    /\ phase = "next"
    /\ Top.index <= Len(Top.order)
    /\ frames' = [frames EXCEPT ![Len(frames)] = [Top EXCEPT !.input = InputValue(Top)]]
    /\ stack' = Append(stack, Current(Top))
    /\ phase' = "execute"
    /\ binding' = 0
    /\ UNCHANGED <<program, variables, result, outcome, scopes, failed>>

(* An assertion fails in executeBlocks, outside of the executors: it throws.*)
(* The executor of a composite block does not catch that, the executeBlock  *)
(* that called it does.  Nothing catches it in the pipeline's activation.   *)
ThrowFromBlocks ==
    /\ failed' = TRUE
    /\ IF Len(frames) = 1
       THEN /\ phase' = "done"
            /\ outcome' = "rejected"
            /\ UNCHANGED <<frames, result, scopes>>
       ELSE /\ frames' = SubSeq(frames, 1, Len(frames) - 1)
            /\ scopes' = SubSeq(scopes, 1, Len(scopes) - 1)
            /\ result' = Err
            /\ phase' = "result"
            /\ UNCHANGED outcome

(* Mutant: the loop stays at the same block. *)
StoredWithoutAdvance(frame, value) ==
    [frame EXCEPT !.values = [@ EXCEPT ![Current(frame)] = value]]

(* blockData.value of the current block is set, and the loop goes on. *)
Stored(frame, value) ==
    [frame EXCEPT !.values = [@ EXCEPT ![Current(frame)] = value],
                  !.index = @ + 1]

(* Mutant: exitNode does not compare the node it pops with the block. *)
ExitBlockUnchecked ==
    /\ phase = "result"
    /\ result.kind = "ok"
    /\ stack' = SubSeq(stack, 1, Len(stack) - 1)
    /\ frames' = [frames EXCEPT ![Len(frames)] = Stored(Top, result.value)]
    /\ phase' = "next"
    /\ UNCHANGED <<program, variables, binding, result, outcome, scopes, failed>>

(* Mutant: the node of a composite block is not left. *)
ExitBlockOfBuiltins ==
    /\ phase = "result"
    /\ result.kind = "ok"
    /\ stack' = IF program.type[Current(Top)] = BUILTIN
                THEN SubSeq(stack, 1, Len(stack) - 1) ELSE stack
    /\ frames' = [frames EXCEPT ![Len(frames)] = Stored(Top, result.value)]
    /\ phase' = "next"
    /\ UNCHANGED <<program, variables, binding, result, outcome, scopes, failed>>

(* A block has executed: its value is stored and its node is left, which    *)
(* exitNode asserts to be the last one entered.                             *)
ExitBlock ==
    /\ phase = "result"
    /\ result.kind = "ok"
    /\ stack' = SubSeq(stack, 1, Len(stack) - 1)
    /\ IF stack # << >> /\ stack[Len(stack)] = Current(Top)
       THEN /\ frames' = [frames EXCEPT ![Len(frames)] = Stored(Top, result.value)]
            /\ phase' = "next"
            /\ UNCHANGED <<result, outcome, scopes, failed>>
       ELSE ThrowFromBlocks
    /\ UNCHANGED <<program, variables, binding>>

-----------------------------------------------------------------------------
(* executeBlock *)

(* createBlockExecutor asserts that the block's type has an executor, or is *)
(* composite with a single input and output, before the try that catches    *)
(* what executors throw.                                                    *)
NoExecutor ==
    /\ phase = "execute"
    /\ binding = 0
    /\ Current(Top) \in MayLackExecutor
    /\ ThrowFromBlocks
    /\ UNCHANGED <<program, stack, variables, binding>>

(* A property that refers to a variable which is not set evaluates to       *)
(* undefined, and getPropertyValue asserts that it does not.                *)
ReadsDefined(block) ==
    \A name \in program.reads[block] : variables[name] # ABSENT

ExecutorResults(block) ==
    {Ok(stack)} \cup (IF block \in MayEmitNull THEN {Ok(NULL)} ELSE {})

(* What a built-in executor throws is caught and returned as an error. *)
ExecuteBuiltin ==
    /\ phase = "execute"
    /\ program.type[Current(Top)] = BUILTIN
    /\ \/ /\ ReadsDefined(Current(Top))
          /\ result' \in ExecutorResults(Current(Top))
          /\ UNCHANGED failed
       \/ /\ ~ReadsDefined(Current(Top))
          /\ result' = Err
          /\ failed' = TRUE
       \/ /\ Current(Top) \in MayFail
          /\ result' = Err
          /\ failed' = TRUE
    /\ phase' = "result"
    /\ UNCHANGED <<program, frames, stack, variables, binding, outcome, scopes>>

-----------------------------------------------------------------------------
(* The executor of composite blocks *)

(* The value of a property: the block's assignment, evaluated with the      *)
(* variables as they are, or else the default of the type.                  *)
PropertyValue(block, name, vals) ==
    LET type     == program.type[block]
        assigned == program.assigned[block][name]
        own      == IF assigned = LITERAL THEN <<block, name>>
                    ELSE IF assigned \in Names THEN vals[assigned]
                    ELSE ABSENT
    IN  IF own # ABSENT THEN own
        ELSE IF program.default[type][name] = LITERAL THEN <<type, name>>
        ELSE ABSENT

PropertiesOf(type) == program.properties[type]

CallsComposite ==
    /\ phase = "execute"
    /\ program.type[Current(Top)] # BUILTIN

(* addVariablesToContext, one property after the other, into the one map.   *)
(* A property without a value fails an assertion, which executeBlock        *)
(* catches; the properties bound before it stay bound.                      *)
BindProperty ==
    /\ CallsComposite
    /\ binding < Len(PropertiesOf(program.type[Current(Top)]))
    /\ LET block == Current(Top)
           name  == PropertiesOf(program.type[block])[binding + 1]
           value == PropertyValue(block, name, variables)
       IN  IF value # ABSENT
           THEN /\ variables' = [variables EXCEPT ![name] = value]
                /\ binding' = binding + 1
                /\ UNCHANGED <<phase, result, failed>>
           ELSE /\ phase' = "result"
                /\ result' = Err
                /\ failed' = TRUE
                /\ UNCHANGED <<variables, binding>>
    /\ UNCHANGED <<program, frames, stack, outcome, scopes>>

(* The values the type's properties have in this activation by the text of *)
(* the program: assignments are evaluated where the block is defined.      *)
ScopeOf(block) ==
    [name \in Names |->
        IF name \in Members(PropertiesOf(program.type[block]))
        THEN PropertyValue(block, name, scopes[Len(scopes)])
        ELSE ABSENT]

(* The nested executeBlocks starts by sorting the type's blocks, which      *)
(* throws if they form a cycle.                                             *)
CallComposite ==
    /\ CallsComposite
    /\ binding = Len(PropertiesOf(program.type[Current(Top)]))
    /\ LET type == program.type[Current(Top)] IN
          \/ /\ ~Cyclic(PipesOf(type))
             /\ \E order \in TopologicalOrders(PipesOf(type)) :
                   frames' = Append(frames, Activation(type, order, Top.input))
             /\ scopes' = Append(scopes, ScopeOf(Current(Top)))
             /\ phase' = "next"
             /\ UNCHANGED <<result, failed>>
          \/ /\ Cyclic(PipesOf(type))
             /\ phase' = "result"
             /\ result' = Err
             /\ failed' = TRUE
             /\ UNCHANGED <<frames, scopes>>
    /\ UNCHANGED <<program, stack, variables, binding, outcome>>

(* Mutant: all variables are removed, not only those of the type. *)
ReturnToCallerWithoutVariables ==
    /\ variables' = NoVariables
    /\ frames' = SubSeq(frames, 1, Len(frames) - 1)
    /\ scopes' = SubSeq(scopes, 1, Len(scopes) - 1)
    /\ phase' = "result"

(* removeVariablesFromContext, and the return to the caller's activation. *)
ReturnToCaller ==
    /\ variables' = [name \in Names |->
                        IF name \in Members(PropertiesOf(Top.container))
                        THEN ABSENT ELSE variables[name]]
    /\ frames' = SubSeq(frames, 1, Len(frames) - 1)
    /\ scopes' = SubSeq(scopes, 1, Len(scopes) - 1)
    /\ phase' = "result"

(* executeBlocks returns all results: a pipeline has succeeded; a composite *)
(* block emits the value of the block its pipe ends with, and fails an      *)
(* assertion if that block was not executed.                                *)
FinishBlocks ==
    /\ phase = "next"
    /\ Top.index > Len(Top.order)
    /\ \/ /\ Top.container = PIPELINE
          /\ phase' = "done"
          /\ outcome' = "success"
          /\ UNCHANGED <<frames, variables, result, scopes, failed>>
       \/ /\ Top.container # PIPELINE
          /\ ReturnToCaller
          /\ LET last == program.output[Top.container] IN
                IF last \in Members(Top.order)
                THEN result' = Ok(Top.values[last]) /\ UNCHANGED failed
                ELSE result' = Err /\ failed' = TRUE
          /\ UNCHANGED outcome
    /\ UNCHANGED <<program, stack, binding>>

(* executeBlocks returns an error at once, without leaving the node of the  *)
(* block that failed.  The pipeline's run fails; the executor of a          *)
(* composite block logs the error and emits null.                           *)
FailBlocks ==
    /\ phase = "result"
    /\ result.kind = "err"
    /\ \/ /\ Top.container = PIPELINE
          /\ phase' = "done"
          /\ outcome' = "failure"
          /\ UNCHANGED <<frames, variables, result, scopes>>
       \/ /\ Top.container # PIPELINE
          /\ ReturnToCaller
          /\ result' = Ok(NULL)
          /\ UNCHANGED outcome
    /\ UNCHANGED <<program, stack, binding, failed>>

Next ==
    \/ EnterBlock
    \/ NoExecutor
    \/ ExecuteBuiltin
    \/ BindProperty
    \/ CallComposite
    \/ ExitBlock
    \/ FinishBlocks
    \/ FailBlocks

(* Every await of the execution is resolved: the executors return. *)
Spec == Init /\ [][Next]_vars /\ WF_vars(Next)

-----------------------------------------------------------------------------
(* Properties *)

Frame ==
    [container : Containers,
     order     : Seq(Blocks),
     index     : Nat \ {0},
     values    : [Blocks -> Value],
     initial   : Value,
     input     : Value]

(* Every variable has its type; there is an activation for every scope. *)
TypeOK ==
    /\ program \in Programs
    /\ frames \in Seq(Frame) /\ frames # << >>
    /\ stack \in Seq(Blocks)
    /\ variables \in [Names -> VariableValue \cup {ABSENT}]
    /\ binding \in Nat
    /\ phase \in {"next", "execute", "result", "done"}
    /\ result \in [kind : {"ok", "err"}, value : Value]
    /\ outcome \in {"running", "success", "failure", "rejected"}
    /\ scopes \in Seq([Names -> VariableValue \cup {ABSENT}])
    /\ Len(scopes) = Len(frames)
    /\ failed \in BOOLEAN

(* No error gets lost: a pipeline in which any block has failed, at any    *)
(* depth, does not end with success.  The executor of composite blocks     *)
(* turns an error into null; it is the node left on the stack that stops   *)
(* the run.                                                                *)
NoErrorIsLost == outcome = "success" => ~failed

OpenNodes == IF phase \in {"execute", "result"} THEN Len(frames) ELSE Len(frames) - 1

(* Until something fails, the node stack names the block that each         *)
(* activation is executing: getPropertyValue reads the properties of the   *)
(* block whose executor runs, and exitNode pops the block it is given.     *)
StackNamesTheActivations ==
    ~failed =>
        stack = [i \in 1..OpenNodes |-> Current(frames[i])]

(* Until something fails, no variable of a composite block outlives it. *)
VariablesAreCleanedUp ==
    ~failed /\ Len(frames) = 1 /\ phase \in {"next", "done"}
        => variables = NoVariables

(* The node stack and the variables, one of each for all activations, are  *)
(* at every depth what the blocks being executed left there.               *)
ContextIsKept == StackNamesTheActivations /\ VariablesAreCleanedUp

(* A built-in block reads the values that the properties have in the       *)
(* activation it belongs to, although all activations share one map.       *)
ReadsOwnScope ==
    phase = "execute" /\ program.type[Current(Top)] = BUILTIN =>
        \A name \in program.reads[Current(Top)] :
            variables[name] = scopes[Len(scopes)][name]

(* A run fails only by a built-in block of the pipeline that may fail: no  *)
(* assertion fails, and no composite block whose blocks execute does.  The *)
(* pipeline's block that failed is the first node left on the stack.       *)
NothingElseFails ==
    failed =>
        /\ stack # << >>
        /\ stack[1] \in MayFail
        /\ program.type[stack[1]] = BUILTIN

(* Composite blocks neither disturb each other nor fail on their own.      *)
RunsUndisturbed == ReadsOwnScope /\ NothingElseFails

(* The block that the n-th activation executes has parents there.          *)
HasParents(n) == ParentBlocks(PipesOf(program.home[stack[n]]), stack[n]) # {}

(* A value is named by the path of the built-in block that produces it: for *)
(* a block of the n-th activation that is the block itself, or the one that *)
(* the outputs of the composite types lead to.                              *)
IsProducedBy(n, block, value) ==
    /\ value \notin {NONE, NULL}
    /\ Len(value) >= n /\ value[n] = block
    /\ \A k \in 1..(n - 1) : value[k] = stack[k]
    /\ \A k \in n..(Len(value) - 1) :
          /\ program.type[value[k]] # BUILTIN
          /\ value[k + 1] = program.output[program.type[value[k]]]
    /\ program.type[value[Len(value)]] = BUILTIN

(* What comes before the block that the n-th activation executes, if every  *)
(* composite block is replaced by the blocks it holds: the first parent of  *)
(* the block, or else of the innermost composite block around it that has   *)
(* one, or nothing.                                                         *)
ComesFromPredecessor(n, value) ==
    \/ value = NONE /\ \A k \in 1..n : ~HasParents(k)
    \/ \E k \in 1..n :
          /\ HasParents(k) /\ \A j \in (k + 1)..n : ~HasParents(j)
          /\ IsProducedBy(k, FirstParent(PipesOf(program.home[stack[k]]), stack[k]), value)

(* A built-in block gets the value of the block before it in the expanded   *)
(* pipeline, through every composite block's input and output.              *)
InputComesFromPredecessor ==
    phase = "execute" /\ program.type[Current(Top)] = BUILTIN /\ ~failed
        => ComesFromPredecessor(Len(stack), Top.input)

(* Every run ends, with every program and whatever fails. *)
Termination == <>(phase = "done")

-----------------------------------------------------------------------------
(* The inductive invariant the proofs use *)

(* How the activations are nested: the pipeline's comes first, each other   *)
(* is of a type of higher rank than the one before it, and the blocks that  *)
(* an activation executes are those of its container.                       *)
Depth(i) == program.nesting[frames[i].container]

OnlyFirstIsPipeline ==
    \A i \in DOMAIN frames : frames[i].container = PIPELINE <=> i = 1

ExecutesItsOwnBlocks ==
    \A i \in DOMAIN frames :
        \A b \in Members(frames[i].order) : program.home[b] = frames[i].container

InnerIsDeeper ==
    \A i, j \in DOMAIN frames : i < j => Depth(i) < Depth(j)

IndexInRange ==
    phase \in {"execute", "result"} => Top.index <= Len(Top.order)

CallersIndexInRange ==
    \A i \in DOMAIN frames :
        i # Len(frames) => frames[i].index <= Len(frames[i].order)

Nested ==
    /\ OnlyFirstIsPipeline
    /\ ExecutesItsOwnBlocks
    /\ InnerIsDeeper
    /\ IndexInRange
    /\ CallersIndexInRange

(* A node above those of the activations is of a block further inside. *)
StackIsDeeper ==
    \A i \in DOMAIN frames, j \in DOMAIN stack :
        i < j => Depth(i) < program.nesting[program.home[stack[j]]]

(* After an error the run only unwinds: there is a node left for every      *)
(* activation, and one more where the error has been turned into a null.    *)
FailureUnwinds ==
    failed /\ phase # "done" =>
        /\ phase = "result"
        /\ Len(stack) >= Len(frames)
        /\ result.kind = "ok" => Len(stack) > Len(frames)

ErrorIsFailure == phase = "result" /\ result.kind = "err" => failed

DoneIsAnOutcome == outcome = "running" <=> phase # "done"

Unwinding ==
    /\ StackIsDeeper
    /\ FailureUnwinds
    /\ ErrorIsFailure
    /\ DoneIsAnOutcome

(* Until something fails, a variable is a property of a composite block     *)
(* that is executing, or of the one that is being bound.                    *)
IsBound(name) ==
    /\ phase = "execute" /\ program.type[Current(Top)] # BUILTIN
    /\ \E k \in 1..binding : name = PropertiesOf(program.type[Current(Top)])[k]

IsInScope(name) ==
    \E i \in DOMAIN frames :
        /\ frames[i].container # PIPELINE
        /\ name \in Members(PropertiesOf(frames[i].container))

VariablesAreProperties ==
    ~failed => \A name \in Names : variables[name] # ABSENT => IsInScope(name) \/ IsBound(name)

(* In healthy programs: the activations execute their blocks in an order    *)
(* that the sorting returns, and are nested like their types.               *)
OrdersAreTopological ==
    \A i \in DOMAIN frames :
        /\ frames[i].order \in TopologicalOrders(PipesOf(frames[i].container))
        /\ frames[i].index <= Len(frames[i].order) + 1

InnerIsHeld ==
    \A i, j \in DOMAIN frames :
        i < j => frames[j].container \in HeldBy(program, frames[i].container)

(* A scope holds the values of its container's properties, and until a      *)
(* failure the one map of variables holds those of all scopes, and what is  *)
(* bound so far of the next one.                                            *)
ScopesAreComplete ==
    \A i \in DOMAIN frames : \A name \in Names :
        scopes[i][name] # ABSENT <=> name \in ScopeNames(program, frames[i].container)

VariablesFollowScopes ==
    ~failed => \A i \in DOMAIN frames : \A name \in ScopeNames(program, frames[i].container) :
                   variables[name] = scopes[i][name]

BindingFollowsScope ==
    phase = "execute" /\ program.type[Current(Top)] # BUILTIN =>
        \A k \in 1..binding :
            LET name == PropertiesOf(program.type[Current(Top)])[k]
            IN  variables[name] = PropertyValue(Current(Top), name, scopes[Len(scopes)])

(* A failure is one of the pipeline's own activation, and ends it. *)
FailureIsOutside ==
    failed => /\ Len(frames) = 1
              /\ phase \in {"result", "done"} /\ outcome # "rejected"
              /\ result.kind = "err"

Undisturbed ==
    /\ OrdersAreTopological
    /\ InnerIsHeld
    /\ ScopesAreComplete
    /\ VariablesFollowScopes
    /\ BindingFollowsScope
    /\ FailureIsOutside
    /\ NothingElseFails

(* Where the values of an activation come from, until something fails. *)
InitialsArePassedOn ==
    \A i \in DOMAIN frames :
        frames[i].initial = IF i = 1 THEN NONE ELSE frames[i - 1].input

ValuesAreProduced ==
    ~failed => \A i \in DOMAIN frames : \A k \in 1..(frames[i].index - 1) :
                   IsProducedBy(i, frames[i].order[k], frames[i].values[frames[i].order[k]])

ResultIsProduced ==
    ~failed /\ phase = "result" => IsProducedBy(Len(stack), Current(Top), result.value)

InputsAreOfPredecessors ==
    ~failed => \A i \in 1..OpenNodes : ComesFromPredecessor(i, frames[i].input)

CallersExecuteTheType ==
    \A i \in DOMAIN frames :
        i # 1 => program.type[Current(frames[i - 1])] = frames[i].container

ValuesFlow ==
    /\ CallersExecuteTheType
    /\ InitialsArePassedOn
    /\ ValuesAreProduced
    /\ ResultIsProduced
    /\ InputsAreOfPredecessors

-----------------------------------------------------------------------------
(* The run of a pipeline without its composite blocks' inside. *)
PipelineRun ==
    INSTANCE PipelineRun WITH
        pipes  <- program.pipes[PIPELINE],
        done   <- {frames[1].order[i] : i \in 1..(frames[1].index - 1)},
        status <- outcome

(* executeBlocks implements the abstract run: composite blocks execute like *)
(* one block, in an order that respects the pipes, all of them or none      *)
(* after a failure.                                                         *)
ImplementsPipelineRun == PipelineRun!Spec

(* The same without the fairness. *)
StepsArePipelineRunSteps == PipelineRun!SafeSpec

=============================================================================
