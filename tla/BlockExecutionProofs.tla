------------------------ MODULE BlockExecutionProofs ------------------------
(***************************************************************************)
(* Proofs about the execution of a pipeline, for every program, any depth  *)
(* of nested composite blocks and any executors that fail: type            *)
(* correctness, the correspondence of the node stack to the activations,   *)
(* and that no error gets lost; and for healthy programs, that composite   *)
(* blocks do not disturb each other, that the execution implements the     *)
(* abstract run of a pipeline, and where the value of a block comes from.  *)
(***************************************************************************)
EXTENDS BlockExecution, PipelineGraphProofs

(* What is known of the chosen program. *)
LEMMA ProgramFacts ==
    ASSUME program \in Programs
    PROVE  /\ program \in Program
           /\ WellFormed(program)
           /\ \A c \in Containers : PipesOf(c) \in Seq(Pipe)
           /\ \A b \in Blocks : program.type[b] \in CompositeTypes \cup {BUILTIN}
           /\ \A b \in Blocks : program.home[b] \in Containers
           /\ \A t \in CompositeTypes : program.output[t] \in Blocks
           /\ \A t \in CompositeTypes : PropertiesOf(t) \in Seq(Names)
           /\ \A c \in Containers : program.nesting[c] \in Nat
<1>1. program \in Program /\ WellFormed(program)
  BY ProgramsAssumption
<1>2. PIPELINE \in Containers /\ CompositeTypes \subseteq Containers
  BY DEF Containers
<1> QED
  BY <1>1, <1>2 DEF Program, PipesOf, PropertiesOf

LEMMA ActivationType ==
    ASSUME NEW c \in Containers, NEW order \in Seq(Blocks), NEW v \in Value
    PROVE  Activation(c, order, v) \in Frame
BY DEF Activation, Frame, Value

(* Facts about the innermost activation that every case below starts from. *)
LEMMA TopFacts ==
    ASSUME TypeOK
    PROVE  /\ Len(frames) \in Nat \ {0}
           /\ DOMAIN frames = 1..Len(frames)
           /\ Len(frames) \in DOMAIN frames
           /\ \A i \in DOMAIN frames : frames[i] \in Frame
           /\ Top \in Frame
           /\ scopes # << >>
           /\ Top.index <= Len(Top.order) => Current(Top) \in Blocks
<1>1. /\ Len(frames) \in Nat \ {0}
      /\ DOMAIN frames = 1..Len(frames)
      /\ Len(frames) \in DOMAIN frames
      /\ \A i \in DOMAIN frames : frames[i] \in Frame
      /\ scopes # << >>
  BY DEF TypeOK
<1>2. Top \in Frame
  BY <1>1 DEF Top
<1>3. ASSUME Top.index <= Len(Top.order)
      PROVE  Current(Top) \in Blocks
  <2>1. Top.order \in Seq(Blocks) /\ Top.index \in Nat \ {0}
    BY <1>2 DEF Frame
  <2> QED
    BY <1>3, <2>1 DEF Current
<1> QED
  BY <1>1, <1>2, <1>3

(* The value a block takes as its input is a value. *)
LEMMA InputValueType ==
    ASSUME TypeOK, Top.index <= Len(Top.order)
    PROVE  InputValue(Top) \in Value
<1> DEFINE pipes == PipesOf(Top.container)
           block == Current(Top)
<1>1. Top \in Frame /\ block \in Blocks
  BY TopFacts
<1>2. pipes \in Seq(Pipe)
  BY <1>1, ProgramFacts DEF TypeOK, Frame
<1>3. ASSUME ParentBlocks(pipes, block) # {}
      PROVE  FirstParent(pipes, block) \in Blocks
  <2>1. IngoingPipes(pipes, block) # {}
    BY <1>3 DEF ParentBlocks
  <2>2. IngoingPipes(pipes, block) \subseteq Nat
    BY <1>2, PipeListMembers DEF IngoingPipes
  <2>3. PICK i \in IngoingPipes(pipes, block) :
          \A j \in IngoingPipes(pipes, block) : i <= j
    BY <2>1, <2>2, SmallestIndex
  <2> DEFINE first == CHOOSE k \in IngoingPipes(pipes, block) :
                         \A j \in IngoingPipes(pipes, block) : k <= j
  <2>4. first \in IngoingPipes(pipes, block)
    BY <2>3
  <2>5. first \in DOMAIN pipes
    BY <2>4 DEF IngoingPipes
  <2> HIDE DEF first
  <2>6. pipes[first].from \in Blocks
    BY <1>2, <2>5, PipeListMembers
  <2> QED
    BY <2>6 DEF FirstParent, first
<1>4. Top.values \in [Blocks -> Value] /\ Top.initial \in Value /\ NONE \in Value
  BY <1>1 DEF Frame, Value
<1> QED
  BY <1>1, <1>3, <1>4 DEF InputValue

(* The value of a property is a variable's value, if there is one. *)
LEMMA PropertyValueType ==
    ASSUME program \in Programs,
           NEW block \in Blocks, program.type[block] # BUILTIN,
           NEW name \in Names,
           NEW vals \in [Names -> VariableValue \cup {ABSENT}]
    PROVE  PropertyValue(block, name, vals) \in VariableValue \cup {ABSENT}
<1>1. program.type[block] \in CompositeTypes
  BY ProgramFacts
<1>2. /\ <<block, name>> \in VariableValue
      /\ <<program.type[block], name>> \in VariableValue
  BY <1>1 DEF VariableValue
<1> QED
  BY <1>2 DEF PropertyValue

(* Storing a value changes the values and the index of an activation. *)
LEMMA StoredType ==
    ASSUME NEW frame \in Frame, NEW v \in Value, Current(frame) \in Blocks
    PROVE  /\ Stored(frame, v) \in Frame
           /\ Stored(frame, v).container = frame.container
           /\ Stored(frame, v).order = frame.order
<1> DEFINE values == [frame.values EXCEPT ![Current(frame)] = v]
<1>1. frame.values \in [Blocks -> Value] /\ frame.index \in Nat \ {0}
  BY DEF Frame
<1>2. values \in [Blocks -> Value] /\ frame.index + 1 \in Nat \ {0}
  BY <1>1
<1>3. Stored(frame, v) = [frame EXCEPT !.values = values, !.index = frame.index + 1]
  BY DEF Stored, Frame
<1> HIDE DEF values
<1> QED
  BY <1>2, <1>3 DEF Frame

-----------------------------------------------------------------------------
(* Type correctness *)
LEMMA TypeInit == Init => TypeOK
<1> SUFFICES ASSUME Init PROVE TypeOK
  OBVIOUS
<1>1. program \in Programs /\ PIPELINE \in Containers
  BY DEF Init, Containers
<1>2. PICK order \in Seq(Blocks) : frames = << Activation(PIPELINE, order, NONE) >>
  <2>1. PipesOf(PIPELINE) \in Seq(Pipe)
    BY <1>1, ProgramFacts
  <2>2. << >> \in Seq(Blocks)
    OBVIOUS
  <2> QED
    BY <2>1, <2>2, OrdersType DEF Init
<1>5. NONE \in Value /\ NULL \in Value
  BY DEF Value
<1>6. Activation(PIPELINE, order, NONE) \in Frame
  BY <1>1, <1>5, ActivationType
<1>7. frames \in Seq(Frame) /\ frames # << >> /\ Len(frames) = 1
  BY <1>2, <1>6
<1>8. NoVariables \in [Names -> VariableValue \cup {ABSENT}]
  BY DEF NoVariables
<1>9. /\ scopes \in Seq([Names -> VariableValue \cup {ABSENT}])
      /\ Len(scopes) = 1
  BY <1>8 DEF Init
<1>10. stack \in Seq(Blocks) /\ result \in [kind : {"ok", "err"}, value : Value]
  BY <1>5 DEF Init, Ok
<1> QED
  BY <1>1, <1>7, <1>8, <1>9, <1>10 DEF Init, TypeOK

(* Leaving the innermost activation of several. *)
LEMMA PopFrameType ==
    ASSUME TypeOK, Len(frames) # 1,
           frames' = SubSeq(frames, 1, Len(frames) - 1),
           scopes' = SubSeq(scopes, 1, Len(scopes) - 1)
    PROVE  /\ frames' \in Seq(Frame) /\ frames' # << >>
           /\ Len(frames') = Len(frames) - 1
           /\ DOMAIN frames' = 1..(Len(frames) - 1)
           /\ \A i \in 1..(Len(frames) - 1) : frames'[i] = frames[i]
           /\ scopes' \in Seq([Names -> VariableValue \cup {ABSENT}])
           /\ Len(scopes') = Len(frames')
<1>1. /\ frames \in Seq(Frame) /\ Len(frames) \in Nat \ {0, 1}
      /\ scopes \in Seq([Names -> VariableValue \cup {ABSENT}])
      /\ Len(scopes) = Len(frames)
  BY DEF TypeOK
<1>2. /\ frames' \in Seq(Frame)
      /\ Len(frames') = Len(frames) - 1
      /\ DOMAIN frames' = 1..(Len(frames) - 1)
      /\ \A i \in 1..(Len(frames) - 1) : frames'[i] = frames[i]
  BY <1>1
<1>3. /\ scopes' \in Seq([Names -> VariableValue \cup {ABSENT}])
      /\ Len(scopes') = Len(scopes) - 1
  BY <1>1
<1>4. Len(frames') # 0
  <2>1. Len(frames) # 0 /\ Len(frames) # 1 /\ Len(frames) \in Nat
    BY <1>1
  <2> QED
    BY <1>2, <2>1
<1>5. frames' # << >>
  BY <1>4
<1> QED
  BY <1>1, <1>2, <1>3, <1>5

LEMMA ThrowType ==
    ASSUME TypeOK, ThrowFromBlocks, stack' \in Seq(Blocks),
           UNCHANGED <<program, variables, binding>>
    PROVE  TypeOK'
<1>1. CASE Len(frames) = 1
  BY <1>1 DEF ThrowFromBlocks, TypeOK
<1>2. CASE Len(frames) # 1
  <2>1. /\ frames' = SubSeq(frames, 1, Len(frames) - 1)
        /\ scopes' = SubSeq(scopes, 1, Len(scopes) - 1)
        /\ result' = Err /\ failed' = TRUE
        /\ phase' = "result" /\ UNCHANGED outcome
    BY <1>2 DEF ThrowFromBlocks
  <2>2. /\ frames' \in Seq(Frame) /\ frames' # << >>
        /\ scopes' \in Seq([Names -> VariableValue \cup {ABSENT}])
        /\ Len(scopes') = Len(frames')
    BY <1>2, <2>1, PopFrameType
  <2>3. Err \in [kind : {"ok", "err"}, value : Value]
    BY DEF Err, Value
  <2> QED
    BY <2>1, <2>2, <2>3 DEF TypeOK
<1> QED
  BY <1>1, <1>2

LEMMA TypeStep == TypeOK /\ Nested /\ [Next]_vars => TypeOK'
<1> SUFFICES ASSUME TypeOK, Nested, [Next]_vars PROVE TypeOK'
  OBVIOUS
<1>1. /\ Len(frames) \in Nat \ {0}
      /\ Len(frames) \in DOMAIN frames
      /\ Top \in Frame
      /\ Top.container # PIPELINE => Len(frames) # 1
  BY TopFacts DEF Nested, OnlyFirstIsPipeline, Top
<1>2. NONE \in Value /\ NULL \in Value /\ Seq(Blocks) \subseteq Value
  BY DEF Value
<1>3. Err \in [kind : {"ok", "err"}, value : Value]
  BY <1>2 DEF Err
<1>4. \A v \in Value : Ok(v) \in [kind : {"ok", "err"}, value : Value]
  BY DEF Ok
<1>5. CASE EnterBlock
  <2>1. InputValue(Top) \in Value /\ Current(Top) \in Blocks
    BY <1>5, InputValueType, TopFacts DEF EnterBlock
  <2>2. [Top EXCEPT !.input = InputValue(Top)] \in Frame
    BY <1>1, <2>1 DEF Frame
  <2>3. frames' \in Seq(Frame) /\ Len(frames') = Len(frames)
    BY <1>1, <1>5, <2>2, ReplaceElement DEF EnterBlock, TypeOK
  <2>4. frames' # << >>
    BY <1>1, <2>3
  <2>5. stack' \in Seq(Blocks)
    BY <1>5, <2>1 DEF EnterBlock, TypeOK
  <2> QED
    BY <1>5, <2>3, <2>4, <2>5 DEF EnterBlock, TypeOK
<1>6. CASE ExecuteBuiltin
  <2>1. \A b \in Blocks : ExecutorResults(b) \subseteq [kind : {"ok", "err"}, value : Value]
    BY <1>2, <1>4 DEF ExecutorResults, TypeOK
  <2>2. result' \in [kind : {"ok", "err"}, value : Value]
    <3>1. ExecutorResults(Current(Top)) \subseteq [kind : {"ok", "err"}, value : Value]
      BY <1>2, <1>4 DEF ExecutorResults, TypeOK
    <3> QED
      BY <1>3, <1>6, <3>1 DEF ExecuteBuiltin
  <2>3. failed' \in BOOLEAN
    BY <1>6 DEF ExecuteBuiltin, TypeOK
  <2> QED
    BY <1>6, <2>2, <2>3 DEF ExecuteBuiltin, TypeOK
<1>7. ASSUME BindProperty, Top.index <= Len(Top.order)
      PROVE  TypeOK'
  <2> DEFINE block == Current(Top)
             type  == program.type[block]
  <2>1. /\ block \in Blocks /\ type # BUILTIN
        /\ binding \in Nat /\ binding < Len(PropertiesOf(type))
    BY <1>7, TopFacts DEF BindProperty, CallsComposite, TypeOK
  <2>2. type \in CompositeTypes /\ PropertiesOf(type) \in Seq(Names)
    BY <2>1, ProgramFacts DEF TypeOK
  <2> DEFINE name == PropertiesOf(type)[binding + 1]
  <2>3. name \in Names
    BY <2>1, <2>2
  <2>4. PropertyValue(block, name, variables) \in VariableValue \cup {ABSENT}
    BY <2>1, <2>3, PropertyValueType DEF TypeOK
  <2>5. variables' \in [Names -> VariableValue \cup {ABSENT}]
    BY <1>7, <2>4 DEF BindProperty, TypeOK
  <2>6. /\ binding' \in Nat
        /\ phase' \in {"next", "execute", "result", "done"}
        /\ result' \in [kind : {"ok", "err"}, value : Value]
        /\ failed' \in BOOLEAN
    <3>1. CASE PropertyValue(block, name, variables) = ABSENT
      BY <1>3, <1>7, <3>1 DEF BindProperty, TypeOK
    <3>2. CASE PropertyValue(block, name, variables) # ABSENT
      BY <1>7, <2>1, <3>2 DEF BindProperty, TypeOK
    <3> QED
      BY <3>1, <3>2
  <2> QED
    BY <1>7, <2>5, <2>6 DEF BindProperty, TypeOK
<1>8. ASSUME CallComposite, Top.index <= Len(Top.order)
      PROVE  TypeOK'
  <2> DEFINE block == Current(Top)
             type  == program.type[block]
  <2>1. block \in Blocks /\ type # BUILTIN
    BY <1>8, TopFacts DEF CallComposite, CallsComposite
  <2>2. /\ type \in CompositeTypes /\ type \in Containers
        /\ PipesOf(type) \in Seq(Pipe)
    BY <2>1, ProgramFacts DEF TypeOK, Containers
  <2>3. CASE Cyclic(PipesOf(type))
    BY <1>3, <1>8, <2>3 DEF CallComposite, TypeOK
  <2>4. CASE ~Cyclic(PipesOf(type))
    <3>1. PICK order \in TopologicalOrders(PipesOf(type)) :
            frames' = Append(frames, Activation(type, order, Top.input))
      BY <1>8, <2>4 DEF CallComposite
    <3>2. Activation(type, order, Top.input) \in Frame
      BY <1>1, <2>2, OrdersType, ActivationType DEF Frame
    <3>3. frames' \in Seq(Frame) /\ Len(frames') = Len(frames) + 1
      BY <3>1, <3>2, AppendMembers DEF TypeOK
    <3>4. scopes[Len(scopes)] \in [Names -> VariableValue \cup {ABSENT}]
      BY <1>1 DEF TypeOK
    <3>5. ScopeOf(block) \in [Names -> VariableValue \cup {ABSENT}]
      BY <2>1, <3>4, PropertyValueType DEF ScopeOf, TypeOK
    <3>6. /\ scopes' \in Seq([Names -> VariableValue \cup {ABSENT}])
          /\ Len(scopes') = Len(scopes) + 1
      <4>1. scopes' = Append(scopes, ScopeOf(block))
        BY <1>8, <2>4 DEF CallComposite
      <4> QED
        BY <3>5, <4>1, AppendMembers DEF TypeOK
    <3>7. frames' # << >>
      BY <1>1, <3>3
    <3> QED
      BY <1>8, <2>4, <3>3, <3>6, <3>7 DEF CallComposite, TypeOK
  <2> QED
    BY <2>3, <2>4
<1>9. ASSUME ExitBlock, Top.index <= Len(Top.order)
      PROVE  TypeOK'
  <2>1. stack' \in Seq(Blocks)
    <3>1. CASE stack = << >>
      BY <1>9, <3>1 DEF ExitBlock
    <3>2. CASE stack # << >>
      BY <1>9, <3>2, PopMembers DEF ExitBlock, TypeOK
    <3> QED
      BY <3>1, <3>2
  <2>2. CASE stack # << >> /\ stack[Len(stack)] = Current(Top)
    <3>1. result.value \in Value /\ Current(Top) \in Blocks
      BY <1>9, TopFacts DEF TypeOK
    <3>2. Stored(Top, result.value) \in Frame
      BY <1>1, <3>1, StoredType
    <3>3. frames' \in Seq(Frame) /\ Len(frames') = Len(frames)
      <4>1. frames' = [frames EXCEPT ![Len(frames)] = Stored(Top, result.value)]
        BY <1>9, <2>2 DEF ExitBlock
      <4> HIDE DEF Stored
      <4> QED
        BY <1>1, <3>2, <4>1, ReplaceElement DEF TypeOK
    <3>4. frames' # << >>
      BY <1>1, <3>3
    <3> QED
      BY <1>9, <2>1, <2>2, <3>3, <3>4 DEF ExitBlock, TypeOK
  <2>3. CASE ~(stack # << >> /\ stack[Len(stack)] = Current(Top))
    <3>1. ThrowFromBlocks /\ UNCHANGED <<program, variables, binding>>
      BY <1>9, <2>3 DEF ExitBlock
    <3> QED
      BY <2>1, <3>1, ThrowType
  <2> QED
    BY <2>2, <2>3
<1>10. ASSUME ReturnToCaller, Top.container # PIPELINE
       PROVE  /\ frames' \in Seq(Frame) /\ frames' # << >>
              /\ scopes' \in Seq([Names -> VariableValue \cup {ABSENT}])
              /\ Len(scopes') = Len(frames')
              /\ variables' \in [Names -> VariableValue \cup {ABSENT}]
              /\ phase' = "result"
  <2>1. /\ frames' \in Seq(Frame) /\ frames' # << >>
        /\ scopes' \in Seq([Names -> VariableValue \cup {ABSENT}])
        /\ Len(scopes') = Len(frames')
    BY <1>1, <1>10, PopFrameType DEF ReturnToCaller
  <2> QED
    BY <1>10, <2>1 DEF ReturnToCaller, TypeOK
<1>11. CASE FinishBlocks
  <2>1. CASE Top.container = PIPELINE
    BY <1>11, <2>1 DEF FinishBlocks, TypeOK
  <2>2. CASE Top.container # PIPELINE
    <3>1. ReturnToCaller
      BY <1>11, <2>2 DEF FinishBlocks
    <3>2. Top.container \in CompositeTypes
      BY <1>1, <2>2 DEF Frame, Containers
    <3>3. Top.values[program.output[Top.container]] \in Value
      BY <1>1, <3>2, ProgramFacts DEF Frame, TypeOK
    <3>4. result' \in [kind : {"ok", "err"}, value : Value] /\ failed' \in BOOLEAN
      BY <1>3, <1>4, <1>11, <2>2, <3>3 DEF FinishBlocks, TypeOK
    <3> QED
      BY <1>10, <1>11, <2>2, <3>1, <3>4 DEF FinishBlocks, TypeOK
  <2> QED
    BY <2>1, <2>2
<1>12. CASE FailBlocks
  <2>1. CASE Top.container = PIPELINE
    BY <1>12, <2>1 DEF FailBlocks, TypeOK
  <2>2. CASE Top.container # PIPELINE
    <3>1. ReturnToCaller /\ result' = Ok(NULL)
      BY <1>12, <2>2 DEF FailBlocks
    <3> QED
      BY <1>2, <1>4, <1>10, <1>12, <2>2, <3>1 DEF FailBlocks, TypeOK
  <2> QED
    BY <2>1, <2>2
<1>13. CASE UNCHANGED vars
  BY <1>13 DEF vars, TypeOK
<1>16. CASE NoExecutor
  BY <1>16, ThrowType DEF NoExecutor, TypeOK
<1>14. phase \in {"execute", "result"} => Top.index <= Len(Top.order)
  BY DEF Nested, IndexInRange
<1>15. /\ BindProperty => phase = "execute"
       /\ CallComposite => phase = "execute"
       /\ ExitBlock => phase = "result"
  BY DEF BindProperty, CallComposite, CallsComposite, ExitBlock
<1> QED
  BY <1>5, <1>6, <1>7, <1>8, <1>9, <1>11, <1>12, <1>13, <1>14, <1>15, <1>16 DEF Next

-----------------------------------------------------------------------------
(* The nesting of the activations *)
LEMMA PipedBlocksAreAtHome ==
    ASSUME program \in Programs, NEW c \in Containers,
           NEW b \in PipedBlocks(PipesOf(c))
    PROVE  program.home[b] = c
<1>1. WellFormed(program)
  BY ProgramFacts
<1>2. PICK p \in PipeSet(program.pipes[c]) : b = p.from \/ b = p.to
  BY DEF PipedBlocks, PipesOf
<1> QED
  BY <1>1, <1>2 DEF WellFormed

LEMMA NestedInit == Init => Nested
<1> SUFFICES ASSUME Init PROVE Nested
  OBVIOUS
<1>1. TypeOK /\ PipesOf(PIPELINE) \in Seq(Pipe)
  BY TypeInit, ProgramFacts DEF TypeOK, Containers
<1>2. PICK order :
        /\ frames = << Activation(PIPELINE, order, NONE) >>
        /\ Members(order) \subseteq PipedBlocks(PipesOf(PIPELINE))
        /\ phase \notin {"execute", "result"}
  <2>1. Members(<< >>) = {}
    BY DEF Members
  <2> QED
    BY <1>1, <2>1, OrdersType DEF Init
<1>3. \A b \in Members(order) : program.home[b] = PIPELINE
  BY <1>1, <1>2, PipedBlocksAreAtHome DEF TypeOK, Containers
<1>4. DOMAIN frames = {1} /\ Len(frames) = 1
  BY <1>2
<1>5. /\ frames[1].container = PIPELINE
      /\ frames[1].order = order
  BY <1>2 DEF Activation
<1> QED
  BY <1>2, <1>3, <1>4, <1>5 DEF Nested, OnlyFirstIsPipeline, ExecutesItsOwnBlocks,
     InnerIsDeeper, IndexInRange, CallersIndexInRange

(* The innermost activation changes, but not what it executes. *)
LEMMA ReplaceNested ==
    ASSUME TypeOK, Nested, UNCHANGED program,
           NEW frame \in Frame,
           frame.container = Top.container, frame.order = Top.order,
           frames' = [frames EXCEPT ![Len(frames)] = frame]
    PROVE  /\ OnlyFirstIsPipeline'
           /\ ExecutesItsOwnBlocks'
           /\ InnerIsDeeper'
           /\ CallersIndexInRange'
           /\ Len(frames') = Len(frames)
           /\ Top' = frame
           /\ \A i \in DOMAIN frames : Depth(i)' = Depth(i)
<1>1. /\ Len(frames) \in DOMAIN frames
      /\ frames \in Seq(Frame)
  BY TopFacts DEF TypeOK
<1>2. /\ DOMAIN frames' = DOMAIN frames /\ Len(frames') = Len(frames)
      /\ frames'[Len(frames)] = frame
      /\ \A i \in DOMAIN frames : i # Len(frames) => frames'[i] = frames[i]
  BY <1>1
<1>3. \A i \in DOMAIN frames : /\ frames'[i].container = frames[i].container
                               /\ frames'[i].order = frames[i].order
  BY <1>2 DEF Top
<1>4. \A i \in DOMAIN frames : Depth(i)' = Depth(i)
  BY <1>3 DEF Depth
<1>5. OnlyFirstIsPipeline' /\ ExecutesItsOwnBlocks'
  BY <1>2, <1>3 DEF Nested, OnlyFirstIsPipeline, ExecutesItsOwnBlocks
<1>6. InnerIsDeeper'
  BY <1>2, <1>4 DEF Nested, InnerIsDeeper
<1>7. CallersIndexInRange' /\ Top' = frame
  BY <1>2 DEF Nested, CallersIndexInRange, Top
<1> QED
  BY <1>2, <1>4, <1>5, <1>6, <1>7

(* The innermost activation of several returns to its caller. *)
LEMMA PopNested ==
    ASSUME TypeOK, Nested, UNCHANGED program, Len(frames) # 1,
           frames' = SubSeq(frames, 1, Len(frames) - 1),
           scopes' = SubSeq(scopes, 1, Len(scopes) - 1)
    PROVE  /\ Nested'
           /\ Len(frames') = Len(frames) - 1
           /\ DOMAIN frames' \subseteq DOMAIN frames
           /\ \A i \in DOMAIN frames' : frames'[i] = frames[i]
           /\ \A i \in DOMAIN frames' : Depth(i)' = Depth(i)
<1>1. /\ Len(frames) \in Nat \ {0, 1}
      /\ DOMAIN frames = 1..Len(frames)
  BY TopFacts
<1>2. /\ Len(frames') = Len(frames) - 1
      /\ DOMAIN frames' = 1..(Len(frames) - 1)
      /\ \A i \in 1..(Len(frames) - 1) : frames'[i] = frames[i]
  BY PopFrameType
<1>3. 1..(Len(frames) - 1) \subseteq 1..Len(frames)
  BY <1>1
<1>4. \A i \in DOMAIN frames' : frames'[i] = frames[i] /\ i \in DOMAIN frames
  BY <1>1, <1>2, <1>3
<1>5. \A i \in DOMAIN frames' : Depth(i)' = Depth(i)
  BY <1>4 DEF Depth
<1>6. OnlyFirstIsPipeline' /\ ExecutesItsOwnBlocks'
  BY <1>4 DEF Nested, OnlyFirstIsPipeline, ExecutesItsOwnBlocks
<1>7. InnerIsDeeper'
  BY <1>4, <1>5 DEF Nested, InnerIsDeeper
<1>8. \A i \in DOMAIN frames' : frames'[i].index <= Len(frames'[i].order)
  <2>1. \A i \in DOMAIN frames' : i # Len(frames)
    BY <1>1, <1>2
  <2> QED
    BY <1>4, <2>1 DEF Nested, CallersIndexInRange
<1>9. Len(frames') \in DOMAIN frames'
  <2>1. Len(frames) - 1 \in 1..(Len(frames) - 1)
    BY <1>1
  <2> QED
    BY <1>2, <2>1
<1>10. IndexInRange' /\ CallersIndexInRange'
  BY <1>8, <1>9 DEF IndexInRange, CallersIndexInRange, Top
<1> QED
  BY <1>2, <1>4, <1>5, <1>6, <1>7, <1>10 DEF Nested

(* A composite block is called: an activation is added. *)
LEMMA PushNested ==
    ASSUME TypeOK, Nested, UNCHANGED program,
           Top.index <= Len(Top.order), phase' = "next",
           program.type[Current(Top)] # BUILTIN,
           NEW order \in TopologicalOrders(PipesOf(program.type[Current(Top)])),
           frames' = Append(frames,
               Activation(program.type[Current(Top)], order, Top.input))
    PROVE  /\ Nested'
           /\ Len(frames') = Len(frames) + 1
           /\ \A i \in DOMAIN frames : frames'[i] = frames[i]
           /\ \A i \in DOMAIN frames : Depth(i)' = Depth(i)
<1> DEFINE n == Len(frames)
           block == Current(Top)
           type == program.type[block]
           new == Activation(type, order, Top.input)
<1>1. /\ n \in Nat \ {0} /\ DOMAIN frames = 1..n /\ n \in DOMAIN frames
      /\ Top \in Frame /\ Top = frames[n] /\ block \in Blocks
  BY TopFacts DEF Top
<1>2. type \in CompositeTypes /\ type \in Containers /\ PipesOf(type) \in Seq(Pipe)
  BY <1>1, ProgramFacts DEF TypeOK, Containers
<1>3. order \in Seq(Blocks) /\ Members(order) = PipedBlocks(PipesOf(type))
  BY <1>2, OrdersType
<1>4. /\ new \in Frame /\ new.container = type /\ new.order = order
  BY <1>1, <1>2, <1>3, ActivationType DEF Activation, Frame
<1> HIDE DEF new
<1>5. /\ Len(frames') = n + 1 /\ DOMAIN frames' = 1..(n + 1)
      /\ frames'[n + 1] = new
      /\ \A i \in 1..n : frames'[i] = frames[i]
  <2>1. frames' = Append(frames, new) /\ frames \in Seq(Frame)
    BY DEF new, TypeOK
  <2> QED
    BY <1>4, <2>1, AppendMembers
<1>6. \A i \in DOMAIN frames' : i = n + 1 \/ i \in DOMAIN frames
  BY <1>1, <1>5
<1>7. \A i \in DOMAIN frames : Depth(i)' = Depth(i)
  BY <1>1, <1>5 DEF Depth
<1>8. OnlyFirstIsPipeline'
  <2>1. type # PIPELINE /\ n + 1 # 1
    BY <1>1, <1>2, MarkersAssumption
  <2> QED
    BY <1>1, <1>4, <1>5, <1>6, <2>1 DEF Nested, OnlyFirstIsPipeline
<1>9. ExecutesItsOwnBlocks'
  <2>1. \A b \in Members(order) : program.home[b] = type
    BY <1>2, <1>3, PipedBlocksAreAtHome DEF TypeOK
  <2> QED
    BY <1>1, <1>4, <1>5, <1>6, <2>1 DEF Nested, ExecutesItsOwnBlocks
<1>10. InnerIsDeeper'
  <2>1. block \in Members(Top.order)
    <3>1. Top.index \in Nat \ {0} /\ Top.order \in Seq(Blocks)
      BY <1>1 DEF Frame
    <3> QED
      BY <3>1 DEF Current, Members
  <2>2. program.home[block] = frames[n].container
    BY <1>1, <2>1 DEF Nested, ExecutesItsOwnBlocks
  <2>3. Depth(n) < program.nesting[type]
    BY <1>1, <2>2, ProgramFacts DEF TypeOK, WellFormed, Depth
  <2>4. \A i \in DOMAIN frames : Depth(i) \in Nat
    BY TopFacts, ProgramFacts DEF Depth, Frame, TypeOK
  <2>5. program.nesting[type] \in Nat
    BY <1>2, ProgramFacts DEF TypeOK
  <2>6. \A i \in DOMAIN frames : Depth(i) < program.nesting[type]
    <3>1. \A i \in DOMAIN frames : i = n \/ i < n
      BY <1>1
    <3>2. \A i \in DOMAIN frames : i < n => Depth(i) < Depth(n)
      BY <1>1 DEF Nested, InnerIsDeeper
    <3> QED
      BY <1>1, <2>3, <2>4, <2>5, <3>1, <3>2
  <2>7. \A j \in DOMAIN frames' : j = n + 1 => Depth(j)' = program.nesting[type]
    BY <1>4, <1>5 DEF Depth
  <2>8. ASSUME NEW i \in DOMAIN frames', NEW j \in DOMAIN frames', i < j
        PROVE  Depth(i)' < Depth(j)'
    <3>1. i \in DOMAIN frames
      BY <1>1, <1>5, <2>8
    <3>2. CASE j = n + 1
      BY <1>7, <2>6, <2>7, <3>1, <3>2
    <3>3. CASE j \in DOMAIN frames
      BY <1>7, <2>8, <3>1, <3>3 DEF Nested, InnerIsDeeper
    <3> QED
      BY <1>6, <3>2, <3>3
  <2> QED
    BY <2>8 DEF InnerIsDeeper
<1>11. IndexInRange'
  BY DEF IndexInRange
<1>12. CallersIndexInRange'
  <2>1. \A i \in DOMAIN frames : frames[i].index <= Len(frames[i].order)
    BY <1>1 DEF Nested, CallersIndexInRange
  <2> QED
    BY <1>1, <1>5, <1>6, <2>1 DEF CallersIndexInRange
<1> QED
  BY <1>1, <1>5, <1>7, <1>8, <1>9, <1>10, <1>11, <1>12 DEF Nested

(* What a step does to the activations: it keeps them, changes the          *)
(* innermost one, returns from it or calls a composite block.               *)
LEMMA NestedStep == TypeOK /\ Nested /\ [Next]_vars => Nested'
<1> SUFFICES ASSUME TypeOK, Nested, [Next]_vars PROVE Nested'
  OBVIOUS
<1>1. /\ Top \in Frame
      /\ Top.container # PIPELINE => Len(frames) # 1
      /\ phase \in {"execute", "result"} => Top.index <= Len(Top.order)
  BY TopFacts DEF Nested, OnlyFirstIsPipeline, IndexInRange, Top
<1>2. ASSUME UNCHANGED <<program, frames>>,
             phase' \in {"execute", "result"} => Top.index <= Len(Top.order)
      PROVE  Nested'
  BY <1>2 DEF Nested, OnlyFirstIsPipeline, ExecutesItsOwnBlocks, InnerIsDeeper,
     Depth, IndexInRange, CallersIndexInRange, Top
<1>11. ASSUME UNCHANGED program, Top.index <= Len(Top.order), ThrowFromBlocks
       PROVE  Nested'
  <2>1. CASE Len(frames) = 1
    BY <1>2, <1>11, <2>1 DEF ThrowFromBlocks
  <2>2. CASE Len(frames) # 1
    BY <1>11, <2>2, PopNested DEF ThrowFromBlocks
  <2> QED
    BY <2>1, <2>2
<1>12. CASE NoExecutor
  BY <1>1, <1>11, <1>12 DEF NoExecutor
<1>3. CASE EnterBlock
  <2> DEFINE frame == [Top EXCEPT !.input = InputValue(Top)]
  <2>1. /\ frame \in Frame /\ frame.container = Top.container
        /\ frame.order = Top.order /\ frame.index = Top.index
    BY <1>1, <1>3, InputValueType DEF Frame, EnterBlock
  <2>2. /\ UNCHANGED program /\ Top.index <= Len(Top.order)
        /\ frames' = [frames EXCEPT ![Len(frames)] = frame]
    BY <1>3 DEF EnterBlock
  <2> HIDE DEF frame
  <2> QED
    BY <2>1, <2>2, ReplaceNested DEF Nested, IndexInRange
<1>4. CASE ExecuteBuiltin
  BY <1>1, <1>2, <1>4 DEF ExecuteBuiltin
<1>5. CASE BindProperty
  BY <1>1, <1>2, <1>5 DEF BindProperty, CallsComposite
<1>6. CASE CallComposite
  <2>1. /\ Top.index <= Len(Top.order) /\ UNCHANGED program
        /\ program.type[Current(Top)] # BUILTIN
    BY <1>1, <1>6 DEF CallComposite, CallsComposite
  <2>2. CASE Cyclic(PipesOf(program.type[Current(Top)]))
    BY <1>2, <1>6, <2>1, <2>2 DEF CallComposite
  <2>3. CASE ~Cyclic(PipesOf(program.type[Current(Top)]))
    BY <1>6, <2>1, <2>3, PushNested DEF CallComposite
  <2> QED
    BY <2>2, <2>3
<1>7. CASE ExitBlock
  <2>1. Top.index <= Len(Top.order) /\ UNCHANGED program
    BY <1>1, <1>7 DEF ExitBlock
  <2>2. CASE stack # << >> /\ stack[Len(stack)] = Current(Top)
    <3> DEFINE frame == Stored(Top, result.value)
    <3>1. /\ frame \in Frame /\ frame.container = Top.container
          /\ frame.order = Top.order
      BY <1>1, <2>1, TopFacts, StoredType DEF TypeOK
    <3>2. /\ frames' = [frames EXCEPT ![Len(frames)] = frame]
          /\ phase' = "next"
      BY <1>7, <2>2 DEF ExitBlock
    <3> HIDE DEF frame
    <3> QED
      BY <2>1, <3>1, <3>2, ReplaceNested DEF Nested, IndexInRange
  <2>3. CASE ~(stack # << >> /\ stack[Len(stack)] = Current(Top))
    <3>1. ThrowFromBlocks
      BY <1>7, <2>3 DEF ExitBlock
    <3> QED
      BY <1>11, <2>1, <3>1
  <2> QED
    BY <2>2, <2>3
<1>8. CASE FinishBlocks
  <2>1. CASE Top.container = PIPELINE
    BY <1>2, <1>8, <2>1 DEF FinishBlocks
  <2>2. CASE Top.container # PIPELINE
    BY <1>1, <1>8, <2>2, PopNested DEF FinishBlocks, ReturnToCaller
  <2> QED
    BY <2>1, <2>2
<1>9. CASE FailBlocks
  <2>1. CASE Top.container = PIPELINE
    BY <1>2, <1>9, <2>1 DEF FailBlocks
  <2>2. CASE Top.container # PIPELINE
    BY <1>1, <1>9, <2>2, PopNested DEF FailBlocks, ReturnToCaller
  <2> QED
    BY <2>1, <2>2
<1>10. CASE UNCHANGED vars
  BY <1>2, <1>10 DEF vars, Nested, IndexInRange
<1> QED
  BY <1>3, <1>4, <1>5, <1>6, <1>7, <1>8, <1>9, <1>10, <1>12 DEF Next

(* Every variable has its type in every reachable state: executeBlocks and  *)
(* the composite executor, at any depth of nested composite blocks.         *)
THEOREM BlockExecutionTypeCorrect == Spec => []TypeOK
<1> QED
  BY TypeInit, TypeStep, NestedInit, NestedStep, PTL DEF Spec

-----------------------------------------------------------------------------
(* The node stack *)

(* A list given element by element. *)
LEMMA NodesOneByOne ==
    ASSUME NEW nodes \in Seq(Blocks), NEW acts, NEW k \in Nat
    PROVE  nodes = [i \in 1..k |-> Current(acts[i])] <=>
              /\ Len(nodes) = k
              /\ \A i \in 1..k : nodes[i] = Current(acts[i])
<1>1. nodes = [i \in 1..Len(nodes) |-> nodes[i]] /\ Len(nodes) \in Nat
  OBVIOUS
<1>2. ASSUME nodes = [i \in 1..k |-> Current(acts[i])]
      PROVE  Len(nodes) = k /\ \A i \in 1..k : nodes[i] = Current(acts[i])
  <2>1. DOMAIN nodes = 1..k /\ DOMAIN nodes = 1..Len(nodes)
    BY <1>1, <1>2
  <2>2. Len(nodes) = k
    BY <1>1, <2>1
  <2> QED
    BY <1>2, <2>2
<1>3. ASSUME Len(nodes) = k, \A i \in 1..k : nodes[i] = Current(acts[i])
      PROVE  nodes = [i \in 1..k |-> Current(acts[i])]
  BY <1>1, <1>3
<1> QED
  BY <1>2, <1>3

(* What the invariant says before a step, with the stack read by index. *)
LEMMA StackFacts ==
    ASSUME TypeOK, Nested, Unwinding, StackNamesTheActivations
    PROVE  /\ stack \in Seq(Blocks) /\ Len(stack) \in Nat
           /\ DOMAIN stack = 1..Len(stack)
           /\ Len(frames) \in Nat \ {0} /\ DOMAIN frames = 1..Len(frames)
           /\ OpenNodes \in Nat
           /\ ~failed => Len(stack) = OpenNodes
           /\ ~failed => \A i \in 1..OpenNodes : stack[i] = Current(frames[i])
           /\ phase \in {"next", "execute"} => ~failed
<1>1. /\ stack \in Seq(Blocks) /\ Len(stack) \in Nat
      /\ DOMAIN stack = 1..Len(stack)
      /\ Len(frames) \in Nat \ {0} /\ DOMAIN frames = 1..Len(frames)
  BY TopFacts DEF TypeOK
<1>2. OpenNodes \in Nat
  BY <1>1 DEF OpenNodes
<1>3. ~failed => /\ Len(stack) = OpenNodes
                 /\ \A i \in 1..OpenNodes : stack[i] = Current(frames[i])
  BY <1>1, <1>2, NodesOneByOne DEF StackNamesTheActivations
<1>4. phase \in {"next", "execute"} => ~failed
  BY DEF Unwinding, FailureUnwinds
<1> QED
  BY <1>1, <1>2, <1>3, <1>4

(* The block an activation is at is one of its container. *)
LEMMA CurrentIsAtHome ==
    ASSUME TypeOK, Nested, Top.index <= Len(Top.order)
    PROVE  program.nesting[program.home[Current(Top)]] = Depth(Len(frames))
<1>1. /\ Len(frames) \in DOMAIN frames /\ Top = frames[Len(frames)]
      /\ Top.order \in Seq(Blocks) /\ Top.index \in Nat \ {0}
  BY TopFacts DEF Top, Frame
<1>2. Current(Top) \in Members(Top.order)
  BY <1>1 DEF Current, Members
<1> QED
  BY <1>1, <1>2 DEF Nested, ExecutesItsOwnBlocks, Depth

(* Activations and nodes that are removed leave the others as they are. *)
LEMMA StillDeeper ==
    ASSUME StackIsDeeper, UNCHANGED program,
           \A i \in DOMAIN frames' : i \in DOMAIN frames /\ Depth(i)' = Depth(i),
           \A j \in DOMAIN stack' : j \in DOMAIN stack /\ stack'[j] = stack[j]
    PROVE  StackIsDeeper'
BY DEF StackIsDeeper

LEMMA EnterStack ==
    ASSUME TypeOK, TypeOK', Nested, Unwinding, StackNamesTheActivations, EnterBlock
    PROVE  Unwinding' /\ StackNamesTheActivations'
<1> DEFINE frame == [Top EXCEPT !.input = InputValue(Top)]
<1>0. PICK n \in Nat \ {0} : n = Len(frames)
  BY StackFacts
<1>1. /\ DOMAIN frames = 1..n /\ Top = frames[n]
      /\ Len(stack) = n - 1 /\ ~failed
      /\ \A i \in 1..(n - 1) : stack[i] = Current(frames[i])
  BY <1>0, StackFacts DEF EnterBlock, OpenNodes, Top
<1>2. /\ frame \in Frame /\ frame.container = Top.container
      /\ frame.order = Top.order /\ frame.index = Top.index
      /\ Current(Top) \in Blocks
  BY TopFacts, InputValueType DEF Frame, EnterBlock
<1>3. frames' = [frames EXCEPT ![n] = frame] /\ UNCHANGED program
  BY <1>0 DEF EnterBlock
<1> HIDE DEF frame
<1>4. /\ Len(frames') = n /\ DOMAIN frames' = DOMAIN frames
      /\ \A i \in DOMAIN frames : Depth(i)' = Depth(i)
      /\ frames'[n] = frame
      /\ \A i \in 1..n : i # n => frames'[i] = frames[i]
  <2>1. frames \in Seq(Frame) /\ n \in DOMAIN frames
    BY <1>0, <1>1 DEF TypeOK
  <2>2. /\ DOMAIN frames' = DOMAIN frames
        /\ frames'[n] = frame
        /\ \A i \in 1..n : i # n => frames'[i] = frames[i]
    BY <1>1, <1>3, <2>1
  <2>3. /\ Len(frames') = n
        /\ \A i \in DOMAIN frames : Depth(i)' = Depth(i)
    BY <1>0, <1>2, <1>3, ReplaceNested
  <2> QED
    BY <2>2, <2>3
<1>5. \A i \in 1..n : Current(frames'[i]) = Current(frames[i])
  BY <1>1, <1>2, <1>4 DEF Current
<1>6. /\ Len(stack') = n /\ DOMAIN stack' = 1..n
      /\ \A i \in 1..(n - 1) : stack'[i] = stack[i]
      /\ stack'[n] = Current(Top)
  <2>1. stack' = Append(stack, Current(Top))
    BY DEF EnterBlock
  <2>2. stack \in Seq(Blocks) /\ Len(stack) + 1 = n /\ 1..Len(stack) = 1..(n - 1)
    BY <1>0, <1>1 DEF TypeOK
  <2> QED
    BY <1>2, <2>1, <2>2, AppendMembers
<1>7. \A i \in 1..n : i = n \/ i \in 1..(n - 1)
  BY <1>0
<1>8. \A i \in 1..n : stack'[i] = Current(frames'[i])
  BY <1>1, <1>5, <1>6, <1>7
<1>9. StackNamesTheActivations'
  <2>1. OpenNodes' = n /\ stack' \in Seq(Blocks)
    BY <1>4 DEF OpenNodes, EnterBlock, TypeOK
  <2> QED
    BY <1>1, <1>6, <1>8, <2>1, NodesOneByOne DEF StackNamesTheActivations
<1>10. ASSUME NEW i \in DOMAIN frames', NEW j \in DOMAIN stack', i < j
       PROVE  (Depth(i) < program.nesting[program.home[stack[j]]])'
  <2>1. i \in DOMAIN frames /\ n \in DOMAIN frames
    BY <1>0, <1>1, <1>4
  <2>2. CASE j = n
    <3>1. program.nesting[program.home[Current(Top)]] = Depth(n)
      BY <1>0, CurrentIsAtHome DEF EnterBlock
    <3>2. Depth(i) < Depth(n)
      BY <1>10, <2>1, <2>2 DEF Nested, InnerIsDeeper
    <3> QED
      BY <1>3, <1>4, <1>6, <2>1, <2>2, <3>1, <3>2
  <2>3. CASE j \in 1..(n - 1)
    <3>1. j \in DOMAIN stack
      BY <1>1, <2>3, StackFacts
    <3> QED
      BY <1>3, <1>4, <1>6, <1>10, <2>1, <2>3, <3>1 DEF Unwinding, StackIsDeeper
  <2> QED
    BY <1>6, <1>7, <2>2, <2>3
<1>11. StackIsDeeper'
  BY <1>10 DEF StackIsDeeper
<1> QED
  BY <1>1, <1>9, <1>11 DEF EnterBlock, Unwinding, FailureUnwinds, ErrorIsFailure,
     DoneIsAnOutcome

(* A step within executeBlock that keeps the activations and the stack. *)
LEMMA QuietStack ==
    ASSUME TypeOK, Nested, Unwinding, StackNamesTheActivations,
           UNCHANGED <<program, frames, stack, outcome>>,
           phase = "execute", phase' \in {"execute", "result"},
           failed' => phase' = "result" /\ result'.kind = "err",
           phase' = "result" /\ result'.kind = "err" => failed'
    PROVE  Unwinding' /\ StackNamesTheActivations'
<1>1. ~failed /\ Len(stack) = Len(frames) /\ Len(frames) \in Nat
  BY StackFacts DEF OpenNodes
<1>2. StackIsDeeper'
  BY StillDeeper DEF Depth, Unwinding
<1>3. OpenNodes' = OpenNodes
  BY DEF OpenNodes
<1>4. StackNamesTheActivations'
  BY <1>1, <1>3 DEF StackNamesTheActivations
<1>5. FailureUnwinds' /\ ErrorIsFailure'
  BY <1>1 DEF FailureUnwinds, ErrorIsFailure
<1>6. DoneIsAnOutcome'
  BY DEF Unwinding, DoneIsAnOutcome
<1> QED
  BY <1>2, <1>4, <1>5, <1>6 DEF Unwinding

(* A composite block is called: there is no node yet above its own. *)
LEMMA CallStack ==
    ASSUME TypeOK, Nested, Unwinding, StackNamesTheActivations, CallComposite,
           ~Cyclic(PipesOf(program.type[Current(Top)]))
    PROVE  Unwinding' /\ StackNamesTheActivations'
<1>0. PICK n \in Nat \ {0} : n = Len(frames)
  BY StackFacts
<1>1. /\ DOMAIN frames = 1..n /\ Len(stack) = n /\ DOMAIN stack = 1..n
      /\ ~failed
      /\ \A i \in 1..n : stack[i] = Current(frames[i])
  BY <1>0, StackFacts DEF CallComposite, CallsComposite, OpenNodes
<1>2. /\ phase = "execute" /\ phase' = "next" /\ UNCHANGED <<program, stack, outcome, failed>>
      /\ Top.index <= Len(Top.order)
  BY DEF CallComposite, CallsComposite, Nested, IndexInRange
<1>3. /\ Len(frames') = n + 1
      /\ \A i \in 1..n : frames'[i] = frames[i] /\ Depth(i)' = Depth(i)
  BY <1>0, <1>1, <1>2, PushNested DEF CallComposite, CallsComposite
<1>4. StackNamesTheActivations'
  <2>1. OpenNodes' = n
    BY <1>2, <1>3 DEF OpenNodes
  <2>2. stack' \in Seq(Blocks) /\ Len(stack') = n
        /\ \A i \in 1..n : stack'[i] = Current(frames'[i])
    BY <1>1, <1>2, <1>3 DEF TypeOK
  <2> QED
    BY <2>1, <2>2, NodesOneByOne DEF StackNamesTheActivations
<1>5. StackIsDeeper'
  <2>1. ASSUME NEW i \in DOMAIN frames', NEW j \in DOMAIN stack', i < j
        PROVE  (Depth(i) < program.nesting[program.home[stack[j]]])'
    <3>1. j \in 1..n /\ j \in DOMAIN stack
      BY <1>1, <1>2
    <3>2. i \in Nat \ {0}
      BY PushNested, <1>2 DEF CallComposite, CallsComposite, TypeOK
    <3>3. i \in 1..n
      BY <1>0, <2>1, <3>1, <3>2
    <3> QED
      BY <1>1, <1>2, <1>3, <2>1, <3>1, <3>3 DEF Unwinding, StackIsDeeper
  <2> QED
    BY <2>1 DEF StackIsDeeper
<1> QED
  BY <1>1, <1>2, <1>4, <1>5 DEF Unwinding, FailureUnwinds, ErrorIsFailure, DoneIsAnOutcome

(* The node stack is popped: what stays on it is where it was. *)
LEMMA PoppedStack ==
    ASSUME TypeOK, ExitBlock, stack # << >>
    PROVE  /\ Len(stack) \in Nat \ {0}
           /\ stack' \in Seq(Blocks)
           /\ Len(stack') = Len(stack) - 1
           /\ \A j \in 1..(Len(stack) - 1) : stack'[j] = stack[j]
           /\ \A j \in DOMAIN stack' : j \in DOMAIN stack /\ stack'[j] = stack[j]
<1>1. /\ stack \in Seq(Blocks)
      /\ stack' = SubSeq(stack, 1, Len(stack) - 1)
  BY DEF TypeOK, ExitBlock
<1>2. /\ Len(stack) \in Nat \ {0} /\ DOMAIN stack = 1..Len(stack)
      /\ stack' \in Seq(Blocks)
      /\ DOMAIN stack' = 1..(Len(stack) - 1)
      /\ \A j \in 1..(Len(stack) - 1) : stack'[j] = stack[j]
  BY <1>1, PopMembers
<1>3. Len(stack') = Len(stack) - 1
  BY <1>1, <1>2
<1>4. \A j \in 1..(Len(stack) - 1) : j \in 1..Len(stack)
  BY <1>2
<1> QED
  BY <1>2, <1>3, <1>4

(* A block is left whose node is on top: nothing has failed. *)
LEMMA ExitStack ==
    ASSUME TypeOK, Nested, Unwinding, StackNamesTheActivations, ExitBlock,
           stack # << >>, stack[Len(stack)] = Current(Top)
    PROVE  Unwinding' /\ StackNamesTheActivations'
<1>0. PICK n \in Nat \ {0} : n = Len(frames)
  BY StackFacts
<1>1. /\ phase = "result" /\ result.kind = "ok" /\ Top.index <= Len(Top.order)
      /\ UNCHANGED <<program, failed, outcome>> /\ phase' = "next"
      /\ frames' = [frames EXCEPT ![n] = Stored(Top, result.value)]
  BY <1>0 DEF ExitBlock, Nested, IndexInRange
<1>2. ~failed
  <2>1. SUFFICES ASSUME failed PROVE FALSE
    OBVIOUS
  <2>2. Len(stack) > n
    BY <1>0, <1>1, <2>1 DEF Unwinding, FailureUnwinds
  <2>3. /\ n \in DOMAIN frames /\ Len(stack) \in DOMAIN stack
        /\ Len(stack) \in Nat
    BY <1>0, <2>2, StackFacts
  <2>4. Depth(n) < program.nesting[program.home[Current(Top)]]
    BY <2>2, <2>3 DEF Unwinding, StackIsDeeper
  <2>5. Depth(n) = program.nesting[program.home[Current(Top)]]
    BY <1>0, <1>1, CurrentIsAtHome
  <2>6. Depth(n) \in Nat
    BY <2>3, TopFacts, ProgramFacts DEF Depth, Frame, TypeOK
  <2> QED
    BY <2>4, <2>5, <2>6
<1>3. /\ Len(stack) = n /\ DOMAIN frames = 1..n
      /\ \A i \in 1..n : stack[i] = Current(frames[i])
  BY <1>0, <1>1, <1>2, StackFacts DEF OpenNodes
<1>4. /\ Len(frames') = n
      /\ DOMAIN frames' = DOMAIN frames
      /\ \A i \in DOMAIN frames : Depth(i)' = Depth(i)
      /\ \A i \in 1..(n - 1) : frames'[i] = frames[i]
  <2> DEFINE frame == Stored(Top, result.value)
  <2>1. /\ frame \in Frame /\ frame.container = Top.container
        /\ frame.order = Top.order
    BY <1>1, TopFacts, StoredType DEF TypeOK
  <2>2. frames' = [frames EXCEPT ![n] = frame] /\ frames \in Seq(Frame)
    BY <1>1 DEF TypeOK
  <2> HIDE DEF frame
  <2>3. /\ Len(frames') = n
        /\ \A i \in DOMAIN frames : Depth(i)' = Depth(i)
    BY <1>0, <1>1, <2>1, <2>2, ReplaceNested
  <2>4. /\ DOMAIN frames' = DOMAIN frames
        /\ \A i \in DOMAIN frames : i # n => frames'[i] = frames[i]
    BY <2>2
  <2>5. \A i \in 1..(n - 1) : i \in 1..n /\ i # n
    BY <1>0
  <2> QED
    BY <1>3, <2>3, <2>4, <2>5
<1>5. StackNamesTheActivations'
  <2>1. OpenNodes' = n - 1 /\ n - 1 \in Nat
    BY <1>0, <1>1, <1>4 DEF OpenNodes
  <2>2. \A i \in 1..(n - 1) : i \in 1..n
    BY <1>0
  <2>3. /\ stack' \in Seq(Blocks) /\ Len(stack') = n - 1
        /\ \A i \in 1..(n - 1) : stack'[i] = Current(frames'[i])
    BY <1>3, <1>4, <2>2, PoppedStack
  <2> QED
    BY <2>1, <2>3, NodesOneByOne DEF StackNamesTheActivations
<1>6. StackIsDeeper'
  BY <1>1, <1>4, PoppedStack, StillDeeper DEF Unwinding
<1> QED
  BY <1>1, <1>2, <1>5, <1>6 DEF Unwinding, FailureUnwinds, ErrorIsFailure, DoneIsAnOutcome

(* A block is left whose node is not on top: the assertion fails, which it  *)
(* does only after an error, and the run unwinds further.                   *)
LEMMA ThrowStack ==
    ASSUME TypeOK, Nested, Unwinding, StackNamesTheActivations, ExitBlock,
           ~(stack # << >> /\ stack[Len(stack)] = Current(Top))
    PROVE  Unwinding' /\ StackNamesTheActivations'
<1>0. PICK n \in Nat \ {0} : n = Len(frames)
  BY StackFacts
<1>1. /\ phase = "result" /\ result.kind = "ok"
      /\ UNCHANGED program /\ ThrowFromBlocks
  BY DEF ExitBlock
<1>2. failed
  <2>1. SUFFICES ASSUME ~failed PROVE FALSE
    OBVIOUS
  <2>2. /\ Len(stack) = n /\ stack[n] = Current(frames[n])
    <3>1. OpenNodes = n /\ n \in 1..n
      BY <1>0, <1>1 DEF OpenNodes
    <3> QED
      BY <2>1, <3>1, StackFacts
  <2>3. stack # << >>
    BY <1>0, <2>2
  <2> QED
    BY <1>0, <2>2, <2>3 DEF Top
<1>3. Len(stack) > n /\ stack # << >>
  <2>1. Len(stack) > n
    BY <1>0, <1>1, <1>2 DEF Unwinding, FailureUnwinds
  <2> QED
    BY <1>0, <2>1
<1>4. /\ failed' = TRUE
      /\ \A j \in DOMAIN stack' : j \in DOMAIN stack /\ stack'[j] = stack[j]
      /\ Len(stack) \in Nat /\ Len(stack') = Len(stack) - 1
  BY <1>1, <1>3, PoppedStack DEF ThrowFromBlocks
<1>5. StackNamesTheActivations'
  BY <1>4 DEF StackNamesTheActivations
<1>6. CASE n = 1
  <2>1. UNCHANGED frames /\ phase' = "done" /\ outcome' = "rejected"
    BY <1>0, <1>1, <1>6 DEF ThrowFromBlocks
  <2>2. StackIsDeeper'
    BY <1>1, <1>4, <2>1, StillDeeper DEF Unwinding, Depth
  <2> QED
    BY <1>5, <2>1, <2>2 DEF Unwinding, FailureUnwinds, ErrorIsFailure, DoneIsAnOutcome
<1>7. CASE n # 1
  <2>1. /\ frames' = SubSeq(frames, 1, Len(frames) - 1)
        /\ scopes' = SubSeq(scopes, 1, Len(scopes) - 1)
        /\ result' = Err /\ phase' = "result" /\ UNCHANGED outcome
    BY <1>0, <1>1, <1>7 DEF ThrowFromBlocks
  <2>2. /\ Len(frames') = n - 1
        /\ \A i \in DOMAIN frames' : i \in DOMAIN frames /\ Depth(i)' = Depth(i)
    BY <1>0, <1>1, <1>7, <2>1, PopNested
  <2>3. StackIsDeeper'
    BY <1>1, <1>4, <2>2, StillDeeper DEF Unwinding
  <2>4. Len(stack') >= Len(frames') /\ result'.kind = "err"
    BY <1>0, <1>3, <1>4, <2>1, <2>2 DEF Err
  <2> QED
    BY <1>1, <1>4, <1>5, <2>1, <2>3, <2>4 DEF Unwinding, FailureUnwinds,
       ErrorIsFailure, DoneIsAnOutcome
<1> QED
  BY <1>6, <1>7

(* There is no executor: the run unwinds, and the block's node is left.     *)
LEMMA NoExecutorStack ==
    ASSUME TypeOK, Nested, Unwinding, StackNamesTheActivations, NoExecutor
    PROVE  Unwinding' /\ StackNamesTheActivations'
<1>0. PICK n \in Nat \ {0} : n = Len(frames)
  BY StackFacts
<1>1. /\ phase = "execute" /\ ThrowFromBlocks /\ failed' = TRUE
      /\ UNCHANGED <<program, stack>>
  BY DEF NoExecutor, ThrowFromBlocks
<1>2. Len(stack) = n
  BY <1>0, <1>1, StackFacts DEF OpenNodes
<1>3. StackNamesTheActivations'
  BY <1>1 DEF StackNamesTheActivations
<1>4. CASE n = 1
  <2>1. UNCHANGED frames /\ phase' = "done" /\ outcome' = "rejected"
    BY <1>0, <1>1, <1>4 DEF ThrowFromBlocks
  <2>2. StackIsDeeper'
    BY <1>1, <2>1, StillDeeper DEF Unwinding, Depth
  <2> QED
    BY <1>3, <2>1, <2>2 DEF Unwinding, FailureUnwinds, ErrorIsFailure, DoneIsAnOutcome
<1>5. CASE n # 1
  <2>1. /\ frames' = SubSeq(frames, 1, Len(frames) - 1)
        /\ scopes' = SubSeq(scopes, 1, Len(scopes) - 1)
        /\ result' = Err /\ phase' = "result" /\ UNCHANGED outcome
    BY <1>0, <1>1, <1>5 DEF ThrowFromBlocks
  <2>2. /\ Len(frames') = n - 1
        /\ \A i \in DOMAIN frames' : i \in DOMAIN frames /\ Depth(i)' = Depth(i)
    BY <1>0, <1>1, <1>5, <2>1, PopNested
  <2>3. StackIsDeeper'
    BY <1>1, <2>2, StillDeeper DEF Unwinding
  <2>4. Len(stack') >= Len(frames') /\ result'.kind = "err"
    BY <1>1, <1>2, <2>1, <2>2 DEF Err
  <2> QED
    BY <1>1, <1>3, <2>1, <2>3, <2>4 DEF Unwinding, FailureUnwinds, ErrorIsFailure,
       DoneIsAnOutcome
<1> QED
  BY <1>4, <1>5

(* executeBlocks ends: of its blocks none is open, and nothing has failed. *)
LEMMA FinishStack ==
    ASSUME TypeOK, Nested, Unwinding, StackNamesTheActivations, FinishBlocks
    PROVE  Unwinding' /\ StackNamesTheActivations' /\ ~failed
<1>0. PICK n \in Nat \ {0} : n = Len(frames)
  BY StackFacts
<1>1. /\ phase = "next" /\ UNCHANGED <<program, stack>> /\ ~failed
      /\ DOMAIN frames = 1..n
      /\ stack \in Seq(Blocks) /\ Len(stack) = n - 1
      /\ \A i \in 1..(n - 1) : stack[i] = Current(frames[i])
  BY <1>0, StackFacts DEF FinishBlocks, OpenNodes
<1>2. CASE Top.container = PIPELINE
  <2>1. UNCHANGED <<frames, failed>> /\ phase' = "done" /\ outcome' = "success"
    BY <1>2 DEF FinishBlocks
  <2>2. StackIsDeeper'
    BY <1>1, <2>1, StillDeeper DEF Unwinding, Depth
  <2>3. OpenNodes' = OpenNodes
    BY <1>1, <2>1 DEF OpenNodes
  <2>4. StackNamesTheActivations'
    BY <1>1, <2>1, <2>3 DEF StackNamesTheActivations
  <2> QED
    BY <1>1, <2>1, <2>2, <2>4 DEF Unwinding, FailureUnwinds, ErrorIsFailure, DoneIsAnOutcome
<1>3. CASE Top.container # PIPELINE
  <2>1. ReturnToCaller /\ UNCHANGED outcome
    BY <1>3 DEF FinishBlocks
  <2>2. n # 1
    BY <1>0, <1>3, <1>1 DEF Nested, OnlyFirstIsPipeline, Top
  <2>3. /\ frames' = SubSeq(frames, 1, Len(frames) - 1)
        /\ scopes' = SubSeq(scopes, 1, Len(scopes) - 1)
        /\ phase' = "result"
    BY <2>1 DEF ReturnToCaller
  <2>4. /\ Len(frames') = n - 1
        /\ \A i \in DOMAIN frames' : /\ i \in DOMAIN frames
                                      /\ frames'[i] = frames[i]
                                      /\ Depth(i)' = Depth(i)
    BY <1>0, <1>1, <2>2, <2>3, PopNested
  <2>5. DOMAIN frames' = 1..(n - 1)
    BY <1>0, <2>2, <2>3, PopFrameType
  <2>6. StackIsDeeper'
    BY <1>1, <2>4, StillDeeper DEF Unwinding
  <2>7. StackNamesTheActivations'
    <3>1. OpenNodes' = n - 1 /\ n - 1 \in Nat
      BY <1>0, <2>3, <2>4 DEF OpenNodes
    <3>2. /\ stack' \in Seq(Blocks) /\ Len(stack') = n - 1
          /\ \A i \in 1..(n - 1) : stack'[i] = Current(frames'[i])
      BY <1>1, <2>4, <2>5
    <3> QED
      BY <3>1, <3>2, NodesOneByOne DEF StackNamesTheActivations
  <2>8. /\ failed' => result'.kind = "err"
        /\ result'.kind = "err" => failed'
    BY <1>1, <1>3 DEF FinishBlocks, Err, Ok
  <2>9. Len(stack') >= Len(frames')
    BY <1>0, <1>1, <2>4
  <2> QED
    BY <1>1, <2>1, <2>3, <2>6, <2>7, <2>8, <2>9 DEF Unwinding, FailureUnwinds,
       ErrorIsFailure, DoneIsAnOutcome
<1> QED
  BY <1>1, <1>2, <1>3

(* executeBlocks returns an error: the failed block's node stays behind. *)
LEMMA FailStack ==
    ASSUME TypeOK, Nested, Unwinding, StackNamesTheActivations, FailBlocks
    PROVE  Unwinding' /\ StackNamesTheActivations'
<1>0. PICK n \in Nat \ {0} : n = Len(frames)
  BY StackFacts
<1>1. /\ phase = "result" /\ result.kind = "err"
      /\ UNCHANGED <<program, stack, failed>>
  BY DEF FailBlocks
<1>2. failed
  BY <1>1 DEF Unwinding, ErrorIsFailure
<1>3. StackNamesTheActivations'
  BY <1>1, <1>2 DEF StackNamesTheActivations
<1>4. Len(stack) >= n /\ Len(stack) \in Nat
  BY <1>0, <1>1, <1>2, StackFacts DEF Unwinding, FailureUnwinds
<1>5. CASE Top.container = PIPELINE
  <2>1. UNCHANGED frames /\ phase' = "done" /\ outcome' = "failure"
    BY <1>5 DEF FailBlocks
  <2>2. StackIsDeeper'
    BY <1>1, <2>1, StillDeeper DEF Unwinding, Depth
  <2> QED
    BY <1>3, <2>1, <2>2 DEF Unwinding, FailureUnwinds, ErrorIsFailure, DoneIsAnOutcome
<1>6. CASE Top.container # PIPELINE
  <2>1. /\ ReturnToCaller /\ UNCHANGED outcome
        /\ result' = Ok(NULL)
    BY <1>6 DEF FailBlocks
  <2>2. n # 1
    BY <1>0, <1>6, StackFacts DEF Nested, OnlyFirstIsPipeline, Top
  <2>3. /\ frames' = SubSeq(frames, 1, Len(frames) - 1)
        /\ scopes' = SubSeq(scopes, 1, Len(scopes) - 1)
        /\ phase' = "result"
    BY <2>1 DEF ReturnToCaller
  <2>4. /\ Len(frames') = n - 1
        /\ \A i \in DOMAIN frames' : i \in DOMAIN frames /\ Depth(i)' = Depth(i)
    BY <1>0, <1>1, <2>2, <2>3, PopNested
  <2>5. StackIsDeeper'
    BY <1>1, <2>4, StillDeeper DEF Unwinding
  <2>6. Len(stack') > Len(frames') /\ Len(stack') >= Len(frames')
    BY <1>0, <1>1, <1>4, <2>4
  <2> QED
    BY <1>1, <1>2, <1>3, <2>1, <2>3, <2>5, <2>6 DEF Unwinding, FailureUnwinds,
       ErrorIsFailure, DoneIsAnOutcome, Ok
<1> QED
  BY <1>5, <1>6

-----------------------------------------------------------------------------
(* The theorems *)
LEMMA UnwindingInit == Init => Unwinding /\ StackNamesTheActivations /\ NoErrorIsLost
<1> SUFFICES ASSUME Init PROVE Unwinding /\ StackNamesTheActivations /\ NoErrorIsLost
  OBVIOUS
<1>1. /\ stack = << >> /\ DOMAIN stack = {} /\ stack \in Seq(Blocks) /\ Len(stack) = 0
      /\ result.kind = "ok"
  BY DEF Init, Ok
<1>2. \/ phase = "next" /\ outcome = "running" /\ ~failed
      \/ phase = "done" /\ outcome = "rejected" /\ failed
  BY DEF Init
<1>3. StackNamesTheActivations
  <2>1. SUFFICES ASSUME ~failed
                 PROVE  stack = [i \in 1..OpenNodes |-> Current(frames[i])]
    BY DEF StackNamesTheActivations
  <2>2. Len(frames) = 1
    BY DEF Init
  <2>3. OpenNodes = 0
    BY <1>2, <2>1, <2>2 DEF OpenNodes
  <2>4. \A i \in 1..0 : stack[i] = Current(frames[i])
    OBVIOUS
  <2> QED
    BY <1>1, <2>3, <2>4, NodesOneByOne
<1>4. Unwinding
  BY <1>1, <1>2 DEF Unwinding, StackIsDeeper, FailureUnwinds, ErrorIsFailure,
     DoneIsAnOutcome
<1> QED
  BY <1>2, <1>3, <1>4 DEF NoErrorIsLost

LEMMA UnwindingStep ==
    ASSUME TypeOK, TypeOK', Nested, Unwinding, StackNamesTheActivations, [Next]_vars
    PROVE  Unwinding' /\ StackNamesTheActivations'
<1>1. CASE EnterBlock
  BY <1>1, EnterStack
<1>2. CASE ExecuteBuiltin
  <2>1. phase = "execute" /\ ~failed
    BY <1>2, StackFacts DEF ExecuteBuiltin
  <2>2. \A b : \A r \in ExecutorResults(b) : r.kind = "ok"
    BY DEF ExecutorResults, Ok
  <2>3. /\ UNCHANGED <<program, frames, stack, outcome>> /\ phase' = "result"
        /\ failed' => result'.kind = "err"
        /\ result'.kind = "err" => failed'
    BY <1>2, <2>1, <2>2 DEF ExecuteBuiltin, Err
  <2> QED
    BY <2>1, <2>3, QuietStack
<1>3. CASE BindProperty
  <2>1. phase = "execute" /\ ~failed
    BY <1>3, StackFacts DEF BindProperty, CallsComposite
  <2>2. /\ UNCHANGED <<program, frames, stack, outcome>>
        /\ phase' \in {"execute", "result"}
        /\ failed' => phase' = "result" /\ result'.kind = "err"
        /\ phase' = "result" /\ result'.kind = "err" => failed'
    BY <1>3, <2>1 DEF BindProperty, Err
  <2> QED
    BY <2>1, <2>2, QuietStack
<1>4. CASE CallComposite
  <2>1. CASE Cyclic(PipesOf(program.type[Current(Top)]))
    <3>1. phase = "execute"
      BY <1>4 DEF CallComposite, CallsComposite
    <3>2. /\ UNCHANGED <<program, frames, stack, outcome>> /\ phase' = "result"
          /\ result'.kind = "err" /\ failed'
      BY <1>4, <2>1 DEF CallComposite, Err
    <3> QED
      BY <3>1, <3>2, QuietStack
  <2>2. CASE ~Cyclic(PipesOf(program.type[Current(Top)]))
    BY <1>4, <2>2, CallStack
  <2> QED
    BY <2>1, <2>2
<1>5. CASE ExitBlock
  BY <1>5, ExitStack, ThrowStack
<1>6. CASE FinishBlocks
  BY <1>6, FinishStack
<1>7. CASE FailBlocks
  BY <1>7, FailStack
<1>9. CASE NoExecutor
  BY <1>9, NoExecutorStack
<1>8. CASE UNCHANGED vars
  <2>1. UNCHANGED <<program, frames, stack, phase, result, outcome, failed>>
    BY <1>8 DEF vars
  <2>2. OpenNodes' = OpenNodes /\ StackIsDeeper'
    BY <2>1, StillDeeper DEF OpenNodes, Unwinding, Depth
  <2> QED
    BY <2>1, <2>2 DEF Unwinding, FailureUnwinds, ErrorIsFailure, DoneIsAnOutcome,
       StackNamesTheActivations
<1> QED
  BY <1>1, <1>2, <1>3, <1>4, <1>5, <1>6, <1>7, <1>8, <1>9 DEF Next

(* Success is reached only by the step that ends the pipeline's own         *)
(* executeBlocks, when nothing has failed; nothing happens after it.        *)
LEMMA NoErrorIsLostStep ==
    ASSUME TypeOK, Nested, Unwinding, StackNamesTheActivations, NoErrorIsLost, [Next]_vars
    PROVE  NoErrorIsLost'
<1>1. CASE FinishBlocks
  <2>1. ~failed
    BY <1>1, FinishStack
  <2>2. outcome # "success"
    BY <1>1 DEF FinishBlocks, Unwinding, DoneIsAnOutcome
  <2> QED
    BY <1>1, <2>1, <2>2 DEF FinishBlocks, NoErrorIsLost
<1>2. CASE Next /\ ~FinishBlocks
  <2>1. phase # "done"
    BY <1>2 DEF Next, EnterBlock, NoExecutor, ExecuteBuiltin, BindProperty,
       CallComposite, CallsComposite, ExitBlock, FailBlocks
  <2>2. outcome # "success"
    BY <2>1 DEF Unwinding, DoneIsAnOutcome
  <2>3. outcome' # "success"
    BY <1>2, <2>2 DEF Next, EnterBlock, NoExecutor, ExecuteBuiltin, BindProperty,
       CallComposite, ExitBlock, ThrowFromBlocks, FailBlocks
  <2> QED
    BY <2>3 DEF NoErrorIsLost
<1>3. CASE UNCHANGED vars
  BY <1>3 DEF vars, NoErrorIsLost
<1> QED
  BY <1>1, <1>2, <1>3

(* An activation that is replaced by one of its container leaves the scopes. *)
LEMMA ScopesStay ==
    ASSUME TypeOK, UNCHANGED program, NEW frame, frame.container = Top.container,
           frames' = [frames EXCEPT ![Len(frames)] = frame],
           NEW name \in Names, IsInScope(name)
    PROVE  IsInScope(name)'
<1>1. PICK i \in DOMAIN frames : /\ frames[i].container # PIPELINE
                                 /\ name \in Members(PropertiesOf(frames[i].container))
  BY DEF IsInScope
<1>2. i \in DOMAIN frames' /\ frames'[i].container = frames[i].container
  BY TopFacts DEF Top
<1> QED
  BY <1>1, <1>2 DEF IsInScope, PropertiesOf

(* The end of an activation removes the variables of its type and leaves    *)
(* those of the activations outside of it.                                  *)
LEMMA ReturnKeepsProperties ==
    ASSUME TypeOK, Nested, UNCHANGED program, Top.container # PIPELINE, ReturnToCaller,
           \A name \in Names : variables[name] # ABSENT => IsInScope(name)
    PROVE  \A name \in Names : variables'[name] # ABSENT => IsInScope(name)'
<1> SUFFICES ASSUME NEW name \in Names, variables'[name] # ABSENT
             PROVE  IsInScope(name)'
  OBVIOUS
<1>1. variables[name] # ABSENT /\ name \notin Members(PropertiesOf(Top.container))
  BY DEF ReturnToCaller
<1>2. PICK i \in DOMAIN frames : /\ frames[i].container # PIPELINE
                                 /\ name \in Members(PropertiesOf(frames[i].container))
  BY <1>1 DEF IsInScope
<1>3. /\ Len(frames) \in Nat \ {0} /\ DOMAIN frames = 1..Len(frames)
      /\ frames \in Seq(Frame)
  BY TopFacts DEF TypeOK
<1>4. i # Len(frames)
  BY <1>1, <1>2 DEF Top
<1>5. Len(frames) # 1 /\ i \in 1..(Len(frames) - 1)
  BY <1>3, <1>4
<1>6. i \in DOMAIN frames' /\ frames'[i] = frames[i]
  BY <1>3, <1>5 DEF ReturnToCaller
<1> QED
  BY <1>2, <1>6 DEF IsInScope, PropertiesOf

LEMMA PropertiesInit == Init => VariablesAreProperties
BY DEF Init, VariablesAreProperties, NoVariables

LEMMA PropertiesStep ==
    ASSUME TypeOK, TypeOK', Nested, Unwinding, VariablesAreProperties, [Next]_vars
    PROVE  VariablesAreProperties'
<1> SUFFICES ASSUME ~failed', NEW name \in Names, variables'[name] # ABSENT
             PROVE  IsInScope(name)' \/ IsBound(name)'
  BY DEF VariablesAreProperties
<1>0. ~failed
  BY DEF Next, EnterBlock, NoExecutor, ExecuteBuiltin, BindProperty, CallComposite,
     ExitBlock, ThrowFromBlocks, FinishBlocks, FailBlocks, vars
<1>00. \A m \in Names : variables[m] # ABSENT => IsInScope(m) \/ IsBound(m)
  BY <1>0 DEF VariablesAreProperties
<1>1. CASE EnterBlock
  <2>1. /\ UNCHANGED <<program, variables>>
        /\ frames' = [frames EXCEPT ![Len(frames)] = [Top EXCEPT !.input = InputValue(Top)]]
        /\ phase = "next"
    BY <1>1 DEF EnterBlock
  <2>2. Top \in Frame
    BY TopFacts
  <2>3. [Top EXCEPT !.input = InputValue(Top)].container = Top.container
    BY <2>2 DEF Frame
  <2>4. IsInScope(name)
    BY <1>00, <2>1 DEF IsBound
  <2> QED
    BY <2>1, <2>3, <2>4, ScopesStay
<1>2. CASE ExecuteBuiltin
  <2>1. UNCHANGED <<program, frames, variables>> /\ program.type[Current(Top)] = BUILTIN
    BY <1>2 DEF ExecuteBuiltin
  <2>2. IsInScope(name)
    BY <1>00, <2>1 DEF IsBound
  <2> QED
    BY <2>1, <2>2 DEF IsInScope, PropertiesOf
<1>3. CASE BindProperty
  <2> DEFINE type == program.type[Current(Top)]
             bound == PropertiesOf(type)[binding + 1]
  <2>1. /\ UNCHANGED <<program, frames>> /\ phase = "execute" /\ type # BUILTIN
        /\ phase' = phase /\ binding' = binding + 1
        /\ \E value : variables' = [variables EXCEPT ![bound] = value]
    BY <1>3 DEF BindProperty, CallsComposite
  <2>2. binding \in Nat /\ variables \in [Names -> VariableValue \cup {ABSENT}]
    BY DEF TypeOK
  <2>3. Current(Top)' = Current(Top) /\ type' = type /\ PropertiesOf(type)' = PropertiesOf(type)
    BY <2>1 DEF Top, Current, PropertiesOf
  <2>4. CASE name = bound
    <3>1. binding + 1 \in 1..binding'
      BY <2>1, <2>2
    <3> QED
      BY <2>1, <2>3, <2>4, <3>1 DEF IsBound
  <2>5. CASE name # bound
    <3>1. variables[name] # ABSENT
      BY <2>1, <2>2, <2>5
    <3>2. CASE IsInScope(name)
      BY <2>1, <3>2 DEF IsInScope, PropertiesOf
    <3>3. CASE IsBound(name)
      <4>1. PICK k \in 1..binding : name = PropertiesOf(type)[k]
        BY <3>3 DEF IsBound
      <4>2. k \in 1..binding'
        BY <2>1, <2>2
      <4> QED
        BY <2>1, <2>3, <4>1, <4>2 DEF IsBound
    <3> QED
      BY <1>00, <3>1, <3>2, <3>3
  <2> QED
    BY <2>4, <2>5
<1>4. CASE CallComposite
  <2> DEFINE type == program.type[Current(Top)]
  <2>1. /\ UNCHANGED <<program, variables>> /\ type # BUILTIN
        /\ binding = Len(PropertiesOf(type))
        /\ \E order : frames' = Append(frames, Activation(type, order, Top.input))
    BY <1>4 DEF CallComposite, CallsComposite
  <2>2. /\ frames \in Seq(Frame) /\ Len(frames) \in Nat
        /\ DOMAIN frames = 1..Len(frames) /\ Current(Top) \in Blocks
    BY <1>4, TopFacts DEF TypeOK, CallComposite, CallsComposite, Nested, IndexInRange
  <2>3. type \in CompositeTypes /\ PropertiesOf(type) \in Seq(Names) /\ type # PIPELINE
    <3>1. program \in Program
      BY ProgramFacts DEF TypeOK
    <3> QED
      BY <2>1, <2>2, <3>1, MarkersAssumption DEF Program, PropertiesOf
  <2>4. /\ DOMAIN frames' = 1..(Len(frames) + 1)
        /\ \A i \in 1..Len(frames) : frames'[i] = frames[i]
        /\ frames'[Len(frames) + 1].container = type
    BY <2>1, <2>2 DEF Activation
  <2>5. CASE IsInScope(name)
    BY <2>1, <2>2, <2>4, <2>5 DEF IsInScope, PropertiesOf
  <2>6. CASE IsBound(name)
    <3>1. PICK k \in 1..Len(PropertiesOf(type)) : name = PropertiesOf(type)[k]
      BY <2>1, <2>6 DEF IsBound
    <3>2. name \in Members(PropertiesOf(type))
      BY <2>3, <3>1 DEF Members
    <3>3. Len(frames) + 1 \in DOMAIN frames'
      BY <2>2, <2>4
    <3> QED
      BY <2>1, <2>3, <2>4, <3>2, <3>3 DEF IsInScope, PropertiesOf
  <2> QED
    BY <1>00, <2>1, <2>5, <2>6
<1>5. CASE ExitBlock
  <2>1. /\ UNCHANGED <<program, variables>> /\ phase = "result"
        /\ frames' = [frames EXCEPT ![Len(frames)] = Stored(Top, result.value)]
    BY <1>5 DEF ExitBlock, ThrowFromBlocks
  <2>2. Top \in Frame
    BY TopFacts
  <2>3. Stored(Top, result.value).container = Top.container
    BY <2>2 DEF Stored, Frame
  <2>4. IsInScope(name)
    BY <1>00, <2>1 DEF IsBound
  <2> QED
    BY <2>1, <2>3, <2>4, ScopesStay
<1>6. CASE FinishBlocks
  <2>1. UNCHANGED program /\ phase = "next"
    BY <1>6 DEF FinishBlocks
  <2>2. \A m \in Names : variables[m] # ABSENT => IsInScope(m)
    BY <1>00, <2>1 DEF IsBound
  <2>3. CASE Top.container = PIPELINE
    <3>1. UNCHANGED <<frames, variables>>
      BY <1>6, <2>3 DEF FinishBlocks
    <3> QED
      BY <2>1, <2>2, <3>1 DEF IsInScope, PropertiesOf
  <2>4. CASE Top.container # PIPELINE
    <3>1. ReturnToCaller
      BY <1>6, <2>4 DEF FinishBlocks
    <3> QED
      BY <2>1, <2>2, <2>4, <3>1, ReturnKeepsProperties
  <2> QED
    BY <2>3, <2>4
<1>7. CASE FailBlocks
  BY <1>0, <1>7 DEF FailBlocks, Unwinding, ErrorIsFailure
<1>8. CASE UNCHANGED vars
  <2>1. UNCHANGED <<program, frames, variables, phase, binding>>
    BY <1>8 DEF vars
  <2> QED
    BY <1>00, <2>1 DEF IsInScope, IsBound, PropertiesOf, Top, Current
<1>9. ~NoExecutor
  BY DEF NoExecutor, ThrowFromBlocks
<1> QED
  BY <1>1, <1>2, <1>3, <1>4, <1>5, <1>6, <1>7, <1>8, <1>9 DEF Next

LEMMA PropertiesAreCleanedUp ==
    ASSUME TypeOK, Nested, VariablesAreProperties
    PROVE  VariablesAreCleanedUp
<1> SUFFICES ASSUME ~failed, Len(frames) = 1, phase \in {"next", "done"}
             PROVE  variables = NoVariables
  BY DEF VariablesAreCleanedUp
<1>1. \A i \in DOMAIN frames : frames[i].container = PIPELINE
  BY TopFacts DEF Nested, OnlyFirstIsPipeline
<1>2. \A name \in Names : variables[name] = ABSENT
  BY <1>1 DEF VariablesAreProperties, IsInScope, IsBound
<1>3. variables \in [Names -> VariableValue \cup {ABSENT}]
  BY DEF TypeOK
<1> QED
  BY <1>2, <1>3 DEF NoVariables

LEMMA ExecutionInvariant ==
    Spec => [](/\ TypeOK /\ Nested /\ Unwinding /\ StackNamesTheActivations
               /\ NoErrorIsLost /\ VariablesAreProperties)
<1> DEFINE IInv == /\ TypeOK /\ Nested /\ Unwinding /\ StackNamesTheActivations
                   /\ NoErrorIsLost /\ VariablesAreProperties
<1>1. Init => IInv
  BY TypeInit, NestedInit, UnwindingInit, PropertiesInit
<1>2. IInv /\ [Next]_vars => IInv'
  BY TypeStep, NestedStep, UnwindingStep, NoErrorIsLostStep, PropertiesStep
<1> QED
  BY <1>1, <1>2, PTL DEF Spec

(* The node stack of ExecutionContext names the block each activation of    *)
(* executeBlocks is executing, until something fails.                       *)
THEOREM StackNamesTheActivationsHolds == Spec => []StackNamesTheActivations
<1> QED
  BY ExecutionInvariant, PTL

(* What the blocks share at every depth is kept: until something fails, the *)
(* node stack names the blocks being executed, and no variable is left over *)
(* when only the pipeline's own activation is.                              *)
THEOREM ContextIsKeptHolds == Spec => []ContextIsKept
<1>1. TypeOK /\ Nested /\ StackNamesTheActivations /\ VariablesAreProperties => ContextIsKept
  BY PropertiesAreCleanedUp DEF ContextIsKept
<1> QED
  BY <1>1, ExecutionInvariant, PTL

(* runPipeline does not report success if any block failed, although the    *)
(* executor of composite blocks turns errors into null: no error is lost.   *)
THEOREM NoErrorIsLostHolds == Spec => []NoErrorIsLost
<1> QED
  BY ExecutionInvariant, PTL

-----------------------------------------------------------------------------
(* Programs in which nothing is disturbed *)

AllHealthy == \A prog \in Programs : Healthy(prog)

RunInv == TypeOK /\ Nested /\ Unwinding /\ StackNamesTheActivations

LEMMA HealthyFacts ==
    ASSUME AllHealthy, program \in Programs
    PROVE  /\ \A c \in Containers : ~Cyclic(PipesOf(c))
           /\ \A t \in CompositeTypes : program.output[t] \in PipedBlocks(PipesOf(t))
           /\ \A b \in MayFail : program.home[b] = PIPELINE
           /\ PropertiesHaveValues(program)
           /\ NestedNamesDiffer(program)
           /\ ~NoExecutor
BY DEF AllHealthy, Healthy, TypesExecute, PipesOf, NoExecutor

(* The type of a block in a container, or in a type the container holds, is *)
(* held by the container.                                                   *)
LEMMA HeldStep ==
    ASSUME program \in Programs, NEW c \in Containers, NEW b \in Blocks,
           program.type[b] # BUILTIN, program.home[b] \in HeldBy(program, c) \cup {c}
    PROVE  program.type[b] \in HeldBy(program, c)
<1>1. program.type[b] \in Containers
  BY ProgramFacts DEF Containers
<1>2. ASSUME NEW R \in SUBSET Containers,
             \A d \in Blocks : program.home[d] \in R \cup {c} /\ program.type[d] # BUILTIN
                                   => program.type[d] \in R
      PROVE  program.type[b] \in R
  <2>1. program.home[b] \in R \cup {c}
    BY <1>2 DEF HeldBy
  <2> QED
    BY <1>2, <2>1
<1> QED
  BY <1>1, <1>2 DEF HeldBy

LEMMA FrameFacts ==
    ASSUME TypeOK, Nested
    PROVE  /\ \A i \in DOMAIN frames :
                 /\ frames[i].container \in Containers
                 /\ frames[i].order \in Seq(Blocks)
                 /\ frames[i].index \in Nat \ {0}
                 /\ frames[i].values \in [Blocks -> Value]
           /\ DOMAIN scopes = DOMAIN frames /\ Len(scopes) = Len(frames)
           /\ \A i \in DOMAIN frames : scopes[i] \in [Names -> VariableValue \cup {ABSENT}]
           /\ Top.container = PIPELINE <=> Len(frames) = 1
           /\ Top.index <= Len(Top.order) => program.home[Current(Top)] = Top.container
<1>1. /\ Len(frames) \in DOMAIN frames /\ Top = frames[Len(frames)]
      /\ DOMAIN frames = 1..Len(frames)
      /\ \A i \in DOMAIN frames : frames[i] \in Frame
  BY TopFacts DEF Top
<1>2. /\ DOMAIN scopes = DOMAIN frames /\ Len(scopes) = Len(frames)
      /\ \A i \in DOMAIN frames : scopes[i] \in [Names -> VariableValue \cup {ABSENT}]
  BY <1>1 DEF TypeOK
<1>3. ASSUME Top.index <= Len(Top.order)
      PROVE  program.home[Current(Top)] = Top.container
  <2>1. Top.order \in Seq(Blocks) /\ Top.index \in Nat \ {0}
    BY <1>1 DEF Frame
  <2>2. Current(Top) \in Members(Top.order)
    BY <1>3, <2>1 DEF Current, Members
  <2> QED
    BY <1>1, <2>2 DEF Nested, ExecutesItsOwnBlocks
<1> QED
  BY <1>1, <1>2, <1>3 DEF Frame, Nested, OnlyFirstIsPipeline

LEMMA ScopeNamesAreNames ==
    ASSUME program \in Programs, NEW c \in Containers
    PROVE  ScopeNames(program, c) \subseteq Names
<1>1. CASE c = PIPELINE
  BY <1>1 DEF ScopeNames
<1>2. CASE c # PIPELINE
  <2>1. program.properties[c] \in Seq(Names)
    BY <1>2, ProgramFacts DEF Containers, PropertiesOf
  <2> QED
    BY <1>2, <2>1 DEF ScopeNames, Members
<1> QED
  BY <1>1, <1>2

(* A property of a composite block's type evaluates to a value where the    *)
(* properties around the block have one.                                    *)
LEMMA PropertyHasValue ==
    ASSUME AllHealthy, program \in Programs,
           NEW b \in Blocks, program.type[b] # BUILTIN,
           NEW name \in Members(PropertiesOf(program.type[b])),
           NEW vals,
           \A m \in ScopeNames(program, program.home[b]) : vals[m] # ABSENT
    PROVE  PropertyValue(b, name, vals) # ABSENT
<1> DEFINE type == program.type[b]
           assigned == program.assigned[b][name]
<1>1. type \in CompositeTypes /\ PropertiesOf(type) \in Seq(Names)
  BY ProgramFacts
<1>2. name \in Names
  BY <1>1 DEF Members
<1>3. \/ assigned \in {LITERAL} \cup ScopeNames(program, program.home[b])
      \/ assigned = ABSENT /\ program.default[type][name] = LITERAL
  BY HealthyFacts DEF PropertiesHaveValues, PropertiesOf
<1>4. <<b, name>> # ABSENT /\ <<type, name>> # ABSENT
  BY <1>1, <1>2, MarkersAssumption
<1>5. CASE assigned = LITERAL
  BY <1>4, <1>5 DEF PropertyValue
<1>6. CASE assigned \in ScopeNames(program, program.home[b])
  <2>1. assigned \in Names
    BY <1>6, ProgramFacts, ScopeNamesAreNames
  <2>2. vals[assigned] # ABSENT /\ assigned # LITERAL
    BY <1>6, <2>1, MarkersAssumption
  <2> QED
    BY <2>1, <2>2 DEF PropertyValue
<1>7. CASE assigned = ABSENT /\ program.default[type][name] = LITERAL
  BY <1>4, <1>7, MarkersAssumption DEF PropertyValue
<1> QED
  BY <1>3, <1>5, <1>6, <1>7

(* It depends on the properties around the block only. *)
LEMMA PropertyDependsOnScope ==
    ASSUME AllHealthy, program \in Programs,
           NEW b \in Blocks, program.type[b] # BUILTIN,
           NEW name \in Members(PropertiesOf(program.type[b])),
           NEW vals, NEW others,
           \A m \in ScopeNames(program, program.home[b]) : vals[m] = others[m]
    PROVE  PropertyValue(b, name, vals) = PropertyValue(b, name, others)
<1> DEFINE type == program.type[b]
           assigned == program.assigned[b][name]
<1>1. \/ assigned \in {LITERAL} \cup ScopeNames(program, program.home[b])
      \/ assigned = ABSENT /\ program.default[type][name] = LITERAL
  BY HealthyFacts DEF PropertiesHaveValues, PropertiesOf
<1>2. CASE assigned \in ScopeNames(program, program.home[b])
  <2>1. vals[assigned] = others[assigned]
    BY <1>2
  <2> QED
    BY <2>1 DEF PropertyValue
<1>3. CASE assigned = LITERAL \/ assigned = ABSENT
  BY <1>3, MarkersAssumption DEF PropertyValue
<1> QED
  BY <1>1, <1>2, <1>3

LEMMA UndisturbedInit == AllHealthy /\ Init => Undisturbed /\ outcome # "rejected"
<1> SUFFICES ASSUME AllHealthy, Init PROVE Undisturbed /\ outcome # "rejected"
  OBVIOUS
<1>1. program \in Programs /\ PIPELINE \in Containers /\ TypeOK
  BY TypeInit DEF Init, Containers
<1>2. ~Cyclic(PipesOf(PIPELINE)) /\ PipesOf(PIPELINE) \in Seq(Pipe)
  BY <1>1, HealthyFacts, ProgramFacts
<1>3. PICK order \in TopologicalOrders(PipesOf(PIPELINE)) :
        frames = << Activation(PIPELINE, order, NONE) >>
  BY <1>2 DEF Init
<1>4. order \in Seq(Blocks)
  BY <1>2, OrdersType
<1>5. /\ DOMAIN frames = {1} /\ Len(frames) = 1
      /\ frames[1].container = PIPELINE /\ frames[1].order = order /\ frames[1].index = 1
  BY <1>3 DEF Activation
<1>6. /\ ~failed /\ phase = "next" /\ outcome = "running"
      /\ scopes = << NoVariables >>
  BY <1>2 DEF Init
<1>7. OrdersAreTopological
  BY <1>3, <1>4, <1>5 DEF OrdersAreTopological
<1>8. InnerIsHeld
  BY <1>5 DEF InnerIsHeld
<1>9. ScopesAreComplete /\ VariablesFollowScopes
  BY <1>5, <1>6 DEF ScopesAreComplete, VariablesFollowScopes, ScopeNames, NoVariables
<1> QED
  BY <1>6, <1>7, <1>8, <1>9 DEF Undisturbed, BindingFollowsScope, FailureIsOutside, NothingElseFails

(* The innermost activation changes, but not what it is an activation of. *)
LEMMA ReplaceUndisturbed ==
    ASSUME RunInv, Undisturbed, UNCHANGED <<program, scopes, variables>>, ~failed,
           NEW frame, frame.container = Top.container, frame.order = Top.order,
           frame.index <= Len(frame.order) + 1,
           frames' = [frames EXCEPT ![Len(frames)] = frame]
    PROVE  OrdersAreTopological' /\ InnerIsHeld' /\ ScopesAreComplete' /\ VariablesFollowScopes'
<1>1. /\ Len(frames) \in DOMAIN frames /\ frames \in Seq(Frame) /\ Top = frames[Len(frames)]
  BY TopFacts DEF RunInv, TypeOK, Top
<1>2. /\ DOMAIN frames' = DOMAIN frames
      /\ frames'[Len(frames)] = frame
      /\ \A i \in DOMAIN frames : i # Len(frames) => frames'[i] = frames[i]
  BY <1>1
<1>3. \A i \in DOMAIN frames : /\ frames'[i].container = frames[i].container
                               /\ frames'[i].order = frames[i].order
  BY <1>1, <1>2
<1>4. \A i \in DOMAIN frames : frames'[i].index <= Len(frames'[i].order) + 1
  BY <1>1, <1>2 DEF Undisturbed, OrdersAreTopological
<1>5. OrdersAreTopological'
  BY <1>2, <1>3, <1>4 DEF Undisturbed, OrdersAreTopological, PipesOf
<1>6. InnerIsHeld'
  BY <1>2, <1>3 DEF Undisturbed, InnerIsHeld
<1>7. ScopesAreComplete'
  BY <1>2, <1>3 DEF Undisturbed, ScopesAreComplete
<1>8. VariablesFollowScopes'
  BY <1>2, <1>3 DEF Undisturbed, VariablesFollowScopes
<1> QED
  BY <1>5, <1>6, <1>7, <1>8

(* The properties of a type and those of the types around it differ. *)
LEMMA InnerNamesDiffer ==
    ASSUME AllHealthy, RunInv, Undisturbed, Top.index <= Len(Top.order),
           program.type[Current(Top)] # BUILTIN,
           NEW i \in DOMAIN frames,
           NEW name \in ScopeNames(program, frames[i].container)
    PROVE  name \notin Members(PropertiesOf(program.type[Current(Top)]))
<1> DEFINE block == Current(Top)
           type == program.type[block]
           n == Len(frames)
<1>1. /\ program \in Programs /\ block \in Blocks /\ n \in DOMAIN frames /\ DOMAIN frames = 1..n
      /\ n \in Nat /\ frames[n] = Top /\ frames[i].container \in Containers
  BY TopFacts, FrameFacts DEF RunInv, TypeOK, Top
<1>2. program.home[block] = frames[n].container
  BY <1>1, FrameFacts DEF RunInv
<1>3. i = n \/ i < n
  BY <1>1
<1>4. program.home[block] \in HeldBy(program, frames[i].container) \cup {frames[i].container}
  BY <1>1, <1>2, <1>3 DEF Undisturbed, InnerIsHeld
<1>5. type \in HeldBy(program, frames[i].container)
  BY <1>1, <1>4, HeldStep
<1>6. type \in CompositeTypes /\ type # PIPELINE
  BY <1>1, ProgramFacts, MarkersAssumption
<1>7. name \notin ScopeNames(program, type)
  BY <1>1, <1>5, HealthyFacts DEF NestedNamesDiffer
<1> QED
  BY <1>6, <1>7 DEF ScopeNames, PropertiesOf

(* What a block refers to has a value, the one of the activation's scope. *)
LEMMA ScopeOfTop ==
    ASSUME RunInv, Undisturbed, ~failed, Top.index <= Len(Top.order)
    PROVE  \A m \in ScopeNames(program, program.home[Current(Top)]) :
              /\ m \in Names
              /\ scopes[Len(scopes)][m] # ABSENT
              /\ variables[m] = scopes[Len(scopes)][m]
<1>1. /\ Len(frames) \in DOMAIN frames /\ frames[Len(frames)] = Top /\ Len(scopes) = Len(frames)
      /\ program \in Programs
      /\ Top.container \in Containers /\ program.home[Current(Top)] = Top.container
  BY TopFacts, FrameFacts DEF RunInv, TypeOK, Top
<1>2. ScopeNames(program, Top.container) \subseteq Names
  BY <1>1, ScopeNamesAreNames
<1> QED
  BY <1>1, <1>2 DEF Undisturbed, ScopesAreComplete, VariablesFollowScopes

LEMMA EnterUndisturbed ==
    ASSUME RunInv, Undisturbed, EnterBlock
    PROVE  Undisturbed'
<1> DEFINE frame == [Top EXCEPT !.input = InputValue(Top)]
<1>1. /\ ~failed /\ ~failed' /\ UNCHANGED <<program, scopes, variables>>
      /\ frames' = [frames EXCEPT ![Len(frames)] = frame]
      /\ Top.index <= Len(Top.order) /\ binding' = 0
  BY StackFacts DEF RunInv, EnterBlock
<1>2. /\ frame.container = Top.container /\ frame.order = Top.order /\ frame.index = Top.index
      /\ Top.index \in Nat /\ Len(Top.order) \in Nat
  BY TopFacts DEF RunInv, Frame
<1>3. frame.index <= Len(frame.order) + 1
  BY <1>1, <1>2
<1> HIDE DEF frame
<1>4. OrdersAreTopological' /\ InnerIsHeld' /\ ScopesAreComplete' /\ VariablesFollowScopes'
  BY <1>1, <1>2, <1>3, ReplaceUndisturbed
<1>5. BindingFollowsScope'
  BY <1>1 DEF BindingFollowsScope
<1> QED
  BY <1>1, <1>4, <1>5 DEF Undisturbed, FailureIsOutside, NothingElseFails

LEMMA BuiltinUndisturbed ==
    ASSUME AllHealthy, RunInv, Undisturbed, ExecuteBuiltin
    PROVE  Undisturbed'
<1> DEFINE block == Current(Top)
<1>1. /\ ~failed /\ phase = "execute" /\ phase' = "result" /\ program.type[block] = BUILTIN
      /\ UNCHANGED <<program, frames, scopes, variables, stack, outcome>>
      /\ Top.index <= Len(Top.order) /\ block \in Blocks /\ program \in Programs
  BY StackFacts, TopFacts DEF RunInv, ExecuteBuiltin, Nested, IndexInRange, TypeOK
<1>2. ReadsDefined(block)
  <2>1. program.reads[block] \subseteq ScopeNames(program, program.home[block])
    BY <1>1, HealthyFacts DEF PropertiesHaveValues
  <2> QED
    BY <1>1, <2>1, ScopeOfTop DEF ReadsDefined
<1>3. OrdersAreTopological' /\ InnerIsHeld' /\ ScopesAreComplete' /\ VariablesFollowScopes'
  BY <1>1 DEF Undisturbed, OrdersAreTopological, InnerIsHeld, ScopesAreComplete,
     VariablesFollowScopes, PipesOf
<1>4. BindingFollowsScope'
  BY <1>1 DEF BindingFollowsScope
<1>5. ASSUME failed' PROVE FailureIsOutside' /\ NothingElseFails'
  <2>1. block \in MayFail /\ result' = Err
    BY <1>1, <1>2, <1>5 DEF ExecuteBuiltin
  <2>2. program.home[block] = PIPELINE
    BY <1>1, <2>1, HealthyFacts
  <2>3. Len(frames) = 1
    BY <1>1, <2>2, FrameFacts DEF RunInv
  <2>4. Len(stack) = 1 /\ stack[1] = Current(frames[1]) /\ Top = frames[1]
    <3>1. OpenNodes = 1 /\ 1 \in 1..1 /\ Top = frames[1]
      BY <1>1, <2>3 DEF OpenNodes, Top
    <3> QED
      BY <1>1, <3>1, StackFacts DEF RunInv
  <2>5. outcome # "rejected"
    BY <1>1 DEF RunInv, Unwinding, DoneIsAnOutcome
  <2>6. stack # << >>
    BY <2>4
  <2> QED
    BY <1>1, <2>1, <2>3, <2>4, <2>5, <2>6 DEF FailureIsOutside, NothingElseFails, Err
<1> QED
  BY <1>3, <1>4, <1>5 DEF Undisturbed, FailureIsOutside, NothingElseFails

LEMMA BindUndisturbed ==
    ASSUME AllHealthy, RunInv, Undisturbed, BindProperty
    PROVE  Undisturbed'
<1> DEFINE block == Current(Top)
           type == program.type[block]
           name == PropertiesOf(type)[binding + 1]
           value == PropertyValue(block, name, variables)
<1>1. /\ ~failed /\ phase = "execute" /\ type # BUILTIN
      /\ UNCHANGED <<program, frames, scopes, stack, outcome>>
      /\ Top.index <= Len(Top.order) /\ block \in Blocks /\ program \in Programs
      /\ binding \in Nat /\ binding < Len(PropertiesOf(type))
      /\ variables \in [Names -> VariableValue \cup {ABSENT}]
  BY StackFacts, TopFacts DEF RunInv, BindProperty, CallsComposite, Nested, IndexInRange, TypeOK
<1>2. /\ PropertiesOf(type) \in Seq(Names)
      /\ \A k \in 1..(binding + 1) : /\ PropertiesOf(type)[k] \in Members(PropertiesOf(type))
                                     /\ PropertiesOf(type)[k] \in Names
  <2>1. PropertiesOf(type) \in Seq(Names)
    BY <1>1, ProgramFacts
  <2>2. \A k \in 1..(binding + 1) : k \in DOMAIN PropertiesOf(type)
    BY <1>1, <2>1
  <2> QED
    BY <2>1, <2>2 DEF Members
<1>3. name \in Members(PropertiesOf(type)) /\ name \in Names
  BY <1>1, <1>2
<1>4. value # ABSENT
  BY <1>1, <1>3, ScopeOfTop, PropertyHasValue
<1>5. /\ variables' = [variables EXCEPT ![name] = value] /\ binding' = binding + 1
      /\ UNCHANGED <<phase, result, failed>>
  BY <1>4 DEF BindProperty
<1>6. OrdersAreTopological' /\ InnerIsHeld' /\ ScopesAreComplete'
  BY <1>1 DEF Undisturbed, OrdersAreTopological, InnerIsHeld, ScopesAreComplete, PipesOf
<1>7. VariablesFollowScopes'
  <2>1. ASSUME NEW i \in DOMAIN frames, NEW m \in ScopeNames(program, frames[i].container)
        PROVE  variables'[m] = scopes[i][m]
    <3>1. m # name
      BY <1>1, <1>3, <2>1, InnerNamesDiffer
    <3>2. m \in Names
      BY <1>1, ScopeNamesAreNames, FrameFacts DEF RunInv
    <3> QED
      BY <1>1, <1>5, <3>1, <3>2 DEF Undisturbed, VariablesFollowScopes
  <2> QED
    BY <1>1, <2>1 DEF VariablesFollowScopes
<1>8. BindingFollowsScope'
  <2> DEFINE scope == scopes[Len(scopes)]
  <2>1. ASSUME NEW k \in 1..(binding + 1)
        PROVE  variables'[PropertiesOf(type)[k]] = PropertyValue(block, PropertiesOf(type)[k], scope)
    <3>1. CASE PropertiesOf(type)[k] = name
      <4>1. PropertyValue(block, name, variables) = PropertyValue(block, name, scope)
        BY <1>1, <1>3, ScopeOfTop, PropertyDependsOnScope
      <4> QED
        BY <1>1, <1>3, <1>5, <3>1, <4>1
    <3>2. CASE PropertiesOf(type)[k] # name
      <4>1. k \in 1..binding
        BY <1>1, <3>2
      <4>2. variables'[PropertiesOf(type)[k]] = variables[PropertiesOf(type)[k]]
        BY <1>1, <1>2, <1>5, <3>2
      <4> QED
        BY <1>1, <4>1, <4>2 DEF Undisturbed, BindingFollowsScope
    <3> QED
      BY <3>1, <3>2
  <2>2. Top' = Top /\ Current(Top)' = block /\ type' = type
    BY <1>1 DEF Top, Current
  <2>3. /\ PropertiesOf(type)' = PropertiesOf(type)
        /\ \A k \in 1..(binding + 1) :
              PropertyValue(block, PropertiesOf(type)[k], scope)'
                  = PropertyValue(block, PropertiesOf(type)[k], scope)
    BY <1>1, <2>2 DEF PropertiesOf, PropertyValue
  <2> QED
    BY <1>5, <2>1, <2>2, <2>3 DEF BindingFollowsScope
<1> QED
  BY <1>1, <1>5, <1>6, <1>7, <1>8 DEF Undisturbed, FailureIsOutside, NothingElseFails

LEMMA CallUndisturbed ==
    ASSUME AllHealthy, RunInv, Undisturbed, CallComposite
    PROVE  Undisturbed'
<1> DEFINE block == Current(Top)
           type == program.type[block]
           n == Len(frames)
<1>1. /\ ~failed /\ phase = "execute" /\ type # BUILTIN
      /\ UNCHANGED <<program, variables, stack, outcome>>
      /\ Top.index <= Len(Top.order) /\ block \in Blocks /\ program \in Programs
      /\ binding = Len(PropertiesOf(type))
      /\ n \in Nat \ {0} /\ DOMAIN frames = 1..n /\ frames[n] = Top
  BY StackFacts, TopFacts DEF RunInv, CallComposite, CallsComposite, Nested, IndexInRange, TypeOK, Top
<1>2. /\ type \in CompositeTypes /\ type \in Containers /\ type # PIPELINE
      /\ PropertiesOf(type) \in Seq(Names)
  BY <1>1, ProgramFacts, MarkersAssumption DEF Containers
<1>3. ~Cyclic(PipesOf(type))
  BY <1>1, <1>2, HealthyFacts
<1>4. /\ UNCHANGED failed /\ phase' = "next"
      /\ scopes' = Append(scopes, ScopeOf(block))
  BY <1>3 DEF CallComposite
<1>5. PICK order \in TopologicalOrders(PipesOf(type)) :
        frames' = Append(frames, Activation(type, order, Top.input))
  BY <1>3 DEF CallComposite
<1> DEFINE new == Activation(type, order, Top.input)
<1>6. /\ new.container = type /\ new.order = order /\ new.index = 1
      /\ new.order \in Seq(Blocks)
  <2>1. PipesOf(type) \in Seq(Pipe)
    BY <1>1, <1>2, ProgramFacts
  <2>2. order \in Seq(Blocks)
    BY <2>1, OrdersType
  <2> QED
    BY <2>2 DEF Activation
<1>7. /\ DOMAIN frames' = 1..(n + 1) /\ frames'[n + 1] = new
      /\ \A i \in 1..n : frames'[i] = frames[i]
  <2>1. frames \in Seq(Frame)
    BY DEF RunInv, TypeOK
  <2>2. frames \in Seq(Frame \cup {new}) /\ new \in Frame \cup {new}
    BY <2>1
  <2>3. frames' = Append(frames, new)
    BY <1>5
  <2> HIDE DEF new
  <2> QED
    BY <2>2, <2>3, AppendMembers
<1>8. /\ scopes'[n + 1] = ScopeOf(block)
      /\ \A i \in 1..n : scopes'[i] = scopes[i]
  <2>1. scopes \in Seq([Names -> VariableValue \cup {ABSENT}]) /\ Len(scopes) = n
    BY DEF RunInv, TypeOK
  <2>2. scopes \in Seq([Names -> VariableValue \cup {ABSENT}] \cup {ScopeOf(block)})
    BY <2>1
  <2> HIDE DEF n, block
  <2> QED
    BY <1>4, <2>1, <2>2, AppendMembers
<1> HIDE DEF new
<1>9. \A i \in 1..(n + 1) : i = n + 1 \/ i \in 1..n
  BY <1>1
<1>10. OrdersAreTopological'
  <2>1. new.index <= Len(new.order) + 1
    <3>1. Len(new.order) \in Nat
      BY <1>6
    <3> QED
      BY <1>6, <3>1
  <2>2. ASSUME NEW i \in 1..(n + 1)
        PROVE  /\ frames'[i].order \in TopologicalOrders(program.pipes[frames'[i].container])
               /\ frames'[i].index <= Len(frames'[i].order) + 1
    <3>1. CASE i = n + 1
      BY <1>5, <1>6, <1>7, <2>1, <3>1 DEF PipesOf
    <3>2. CASE i \in 1..n
      BY <1>1, <1>7, <3>2 DEF Undisturbed, OrdersAreTopological, PipesOf
    <3> QED
      BY <1>9, <3>1, <3>2
  <2> QED
    BY <1>1, <1>7, <2>2 DEF OrdersAreTopological, PipesOf
<1>11. ASSUME NEW i \in 1..n
       PROVE  type \in HeldBy(program, frames[i].container)
  <2>1. program.home[block] = frames[n].container
    BY <1>1, FrameFacts DEF RunInv
  <2>2. i \in DOMAIN frames /\ n \in DOMAIN frames /\ (i = n \/ i < n)
    <3> HIDE DEF n
    <3> QED
      BY <1>1
  <2>3. program.home[block] \in HeldBy(program, frames[i].container) \cup {frames[i].container}
    <3> HIDE DEF n, block
    <3> QED
      BY <2>1, <2>2 DEF Undisturbed, InnerIsHeld
  <2>4. frames[i].container \in Containers
    BY <2>2, FrameFacts DEF RunInv
  <2> QED
    BY <1>1, <2>3, <2>4, HeldStep
<1>12. InnerIsHeld'
  <2>1. ASSUME NEW i \in 1..(n + 1), NEW j \in 1..(n + 1), i < j
        PROVE  frames'[j].container \in HeldBy(program, frames'[i].container)
    <3>1. i \in 1..n
      BY <1>1, <2>1
    <3>2. CASE j = n + 1
      BY <1>6, <1>7, <1>11, <3>1, <3>2
    <3>3. CASE j \in 1..n
      BY <1>1, <1>7, <2>1, <3>1, <3>3 DEF Undisturbed, InnerIsHeld
    <3> QED
      BY <1>9, <3>2, <3>3
  <2> QED
    BY <1>1, <1>7, <2>1 DEF InnerIsHeld
<1>13. ScopeNames(program, type) = Members(PropertiesOf(type))
  BY <1>2 DEF ScopeNames, PropertiesOf
<1>14. \A name \in Names :
          ScopeOf(block)[name] # ABSENT <=> name \in ScopeNames(program, type)
  <2>1. ASSUME NEW name \in Members(PropertiesOf(type))
        PROVE  PropertyValue(block, name, scopes[Len(scopes)]) # ABSENT
    BY <1>1, <2>1, ScopeOfTop, PropertyHasValue
  <2> QED
    BY <1>13, <2>1 DEF ScopeOf
<1>15. ScopesAreComplete'
  <2>1. ASSUME NEW i \in 1..(n + 1), NEW name \in Names
        PROVE  scopes'[i][name] # ABSENT <=> name \in ScopeNames(program, frames'[i].container)
    <3>1. CASE i = n + 1
      BY <1>6, <1>7, <1>8, <1>14, <3>1
    <3>2. CASE i \in 1..n
      BY <1>1, <1>7, <1>8, <3>2 DEF Undisturbed, ScopesAreComplete
    <3> QED
      BY <1>9, <3>1, <3>2
  <2> QED
    BY <1>1, <1>7, <2>1 DEF ScopesAreComplete
<1>16. VariablesFollowScopes'
  <2>1. ASSUME NEW i \in 1..(n + 1), NEW name \in ScopeNames(program, frames'[i].container)
        PROVE  variables[name] = scopes'[i][name]
    <3>1. CASE i = n + 1
      <4>1. name \in Members(PropertiesOf(type))
        BY <1>6, <1>7, <1>13, <2>1, <3>1
      <4>2. name \in Names
        BY <1>2, <4>1 DEF Members
      <4>3. PICK k \in 1..binding : name = PropertiesOf(type)[k]
        BY <1>1, <1>2, <4>1 DEF Members
      <4>4. variables[name] = PropertyValue(block, name, scopes[Len(scopes)])
        BY <1>1, <4>3 DEF Undisturbed, BindingFollowsScope
      <4> QED
        BY <1>8, <3>1, <4>1, <4>2, <4>4 DEF ScopeOf
    <3>2. CASE i \in 1..n
      <4>1. frames'[i] = frames[i] /\ scopes'[i] = scopes[i]
        BY <1>7, <1>8, <3>2
      <4>2. i \in DOMAIN frames /\ ~failed
        BY <1>1, <3>2
      <4>3. name \in ScopeNames(program, frames[i].container)
        BY <2>1, <4>1
      <4>4. variables[name] = scopes[i][name]
        BY <1>1, <4>2, <4>3 DEF Undisturbed, VariablesFollowScopes
      <4> QED
        BY <4>1, <4>4
    <3> QED
      BY <1>9, <3>1, <3>2
  <2> QED
    BY <1>1, <1>7, <2>1 DEF VariablesFollowScopes
<1>17. BindingFollowsScope'
  BY <1>4 DEF BindingFollowsScope
<1> QED
  BY <1>1, <1>4, <1>10, <1>12, <1>15, <1>16, <1>17 DEF Undisturbed, FailureIsOutside, NothingElseFails

LEMMA ExitUndisturbed ==
    ASSUME AllHealthy, RunInv, Undisturbed, ExitBlock
    PROVE  Undisturbed' /\ stack # << >> /\ stack[Len(stack)] = Current(Top) /\ ~failed
<1> DEFINE n == Len(frames)
           frame == Stored(Top, result.value)
<1>1. /\ ~failed /\ phase = "result" /\ result.kind = "ok"
      /\ UNCHANGED <<program, variables>>
      /\ Top.index <= Len(Top.order) /\ Current(Top) \in Blocks
      /\ n \in Nat \ {0} /\ DOMAIN frames = 1..n /\ frames[n] = Top
  BY TopFacts DEF RunInv, ExitBlock, Nested, IndexInRange, Top, Undisturbed, FailureIsOutside
<1>2. Len(stack) = n /\ stack[n] = Current(frames[n])
  <2>1. OpenNodes = n /\ n \in 1..n
    BY <1>1 DEF OpenNodes
  <2> QED
    BY <1>1, <2>1, StackFacts DEF RunInv
<1>3. stack # << >> /\ stack[Len(stack)] = Current(Top)
  BY <1>1, <1>2
<1>4. /\ frames' = [frames EXCEPT ![Len(frames)] = frame] /\ phase' = "next"
      /\ UNCHANGED <<result, outcome, scopes, failed>>
  BY <1>3 DEF ExitBlock
<1>5. /\ frame.container = Top.container /\ frame.order = Top.order
      /\ frame.index = Top.index + 1 /\ Top.index \in Nat /\ Len(Top.order) \in Nat
  BY TopFacts DEF RunInv, Frame, Stored
<1>6. frame.index <= Len(frame.order) + 1
  BY <1>1, <1>5
<1> HIDE DEF frame
<1>7. OrdersAreTopological' /\ InnerIsHeld' /\ ScopesAreComplete' /\ VariablesFollowScopes'
  BY <1>1, <1>4, <1>5, <1>6, ReplaceUndisturbed
<1>8. BindingFollowsScope'
  BY <1>4 DEF BindingFollowsScope
<1> QED
  BY <1>1, <1>3, <1>4, <1>7, <1>8 DEF Undisturbed, FailureIsOutside, NothingElseFails

LEMMA FinishUndisturbed ==
    ASSUME AllHealthy, RunInv, Undisturbed, FinishBlocks
    PROVE  /\ Undisturbed' /\ ~failed
           /\ Top.container # PIPELINE =>
                 /\ program.output[Top.container] \in Members(Top.order)
                 /\ result' = Ok(Top.values[program.output[Top.container]])
<1> DEFINE n == Len(frames)
           type == Top.container
<1>1. /\ ~failed /\ phase = "next" /\ UNCHANGED <<program, stack>>
      /\ n \in Nat \ {0} /\ DOMAIN frames = 1..n /\ n \in DOMAIN frames /\ frames[n] = Top
      /\ program \in Programs /\ type \in Containers
  BY FinishStack, TopFacts, FrameFacts DEF RunInv, FinishBlocks, Top, TypeOK
<1>2. CASE type = PIPELINE
  <2>1. /\ UNCHANGED <<frames, variables, scopes, failed>> /\ phase' = "done"
    BY <1>2 DEF FinishBlocks
  <2>2. OrdersAreTopological' /\ InnerIsHeld' /\ ScopesAreComplete' /\ VariablesFollowScopes'
    BY <1>1, <2>1 DEF Undisturbed, OrdersAreTopological, InnerIsHeld, ScopesAreComplete,
       VariablesFollowScopes, PipesOf
  <2> QED
    BY <1>1, <1>2, <2>1, <2>2 DEF Undisturbed, BindingFollowsScope, FailureIsOutside, NothingElseFails
<1>3. CASE type # PIPELINE
  <2>1. type \in CompositeTypes /\ n # 1
    BY <1>1, <1>3, FrameFacts DEF Containers, RunInv
  <2>2. program.output[type] \in Members(Top.order)
    <3>1. Top.order \in TopologicalOrders(PipesOf(type))
      BY <1>1 DEF Undisturbed, OrdersAreTopological
    <3> QED
      BY <1>1, <2>1, <3>1, HealthyFacts DEF TopologicalOrders
  <2>3. /\ ReturnToCaller /\ UNCHANGED failed
        /\ result' = Ok(Top.values[program.output[type]])
    BY <1>3, <2>2 DEF FinishBlocks
  <2>4. /\ frames' = SubSeq(frames, 1, Len(frames) - 1)
        /\ scopes' = SubSeq(scopes, 1, Len(scopes) - 1) /\ phase' = "result"
    BY <2>3 DEF ReturnToCaller
  <2>5. /\ DOMAIN frames' = 1..(n - 1)
        /\ \A i \in 1..(n - 1) : frames'[i] = frames[i] /\ i \in DOMAIN frames /\ i < n
    BY <1>1, <2>1, <2>4, PopFrameType DEF RunInv
  <2>6. \A i \in 1..(n - 1) : scopes'[i] = scopes[i]
    <3>1. scopes \in Seq([Names -> VariableValue \cup {ABSENT}]) /\ Len(scopes) = n
      BY DEF RunInv, TypeOK
    <3> HIDE DEF n
    <3> QED
      BY <1>1, <2>4, <3>1
  <2> HIDE DEF n
  <2>7. OrdersAreTopological'
    BY <1>1, <2>5 DEF Undisturbed, OrdersAreTopological, PipesOf
  <2>8. InnerIsHeld'
    BY <1>1, <2>5 DEF Undisturbed, InnerIsHeld
  <2>9. ScopesAreComplete'
    BY <1>1, <2>5, <2>6 DEF Undisturbed, ScopesAreComplete
  <2>10. VariablesFollowScopes'
    <3>1. ASSUME NEW i \in 1..(n - 1), NEW name \in ScopeNames(program, frames[i].container)
          PROVE  variables'[name] = scopes'[i][name]
      <4>1. frames[i].container \in Containers /\ i \in DOMAIN frames /\ i < n
        BY <2>5, <3>1, FrameFacts DEF RunInv
      <4>2. name \in Names
        BY <1>1, <3>1, <4>1, ScopeNamesAreNames
      <4>3. type \in HeldBy(program, frames[i].container)
        BY <1>1, <4>1 DEF Undisturbed, InnerIsHeld
      <4>4. name \notin ScopeNames(program, type)
        BY <1>1, <3>1, <4>1, <4>3, HealthyFacts DEF NestedNamesDiffer
      <4>5. variables'[name] = variables[name]
        BY <1>3, <2>3, <4>2, <4>4 DEF ReturnToCaller, ScopeNames, PropertiesOf
      <4>6. variables[name] = scopes[i][name]
        BY <1>1, <3>1, <4>1 DEF Undisturbed, VariablesFollowScopes
      <4> QED
        BY <2>6, <3>1, <4>5, <4>6
    <3> QED
      BY <1>1, <2>5, <3>1 DEF VariablesFollowScopes
  <2> QED
    BY <1>1, <2>2, <2>3, <2>4, <2>7, <2>8, <2>9, <2>10
       DEF Undisturbed, BindingFollowsScope, FailureIsOutside, NothingElseFails
<1> QED
  BY <1>1, <1>2, <1>3

LEMMA FailUndisturbed ==
    ASSUME AllHealthy, RunInv, Undisturbed, FailBlocks
    PROVE  Undisturbed' /\ phase' = "done" /\ outcome' = "failure" /\ UNCHANGED frames
<1>1. phase = "result" /\ result.kind = "err" /\ UNCHANGED <<program, stack, failed>>
  BY DEF FailBlocks
<1>2. failed
  BY <1>1 DEF RunInv, Unwinding, ErrorIsFailure
<1>3. Len(frames) = 1 /\ Top.container = PIPELINE
  BY <1>2, FrameFacts DEF Undisturbed, FailureIsOutside, RunInv
<1>4. /\ UNCHANGED <<frames, variables, result, scopes>>
      /\ phase' = "done" /\ outcome' = "failure"
  BY <1>3 DEF FailBlocks
<1>5. OrdersAreTopological' /\ InnerIsHeld' /\ ScopesAreComplete' /\ VariablesFollowScopes'
  BY <1>1, <1>2, <1>4 DEF Undisturbed, OrdersAreTopological, InnerIsHeld, ScopesAreComplete,
     VariablesFollowScopes, PipesOf
<1> QED
  BY <1>1, <1>3, <1>4, <1>5 DEF Undisturbed, BindingFollowsScope, FailureIsOutside, NothingElseFails

LEMMA UndisturbedStep ==
    AllHealthy /\ RunInv /\ Undisturbed /\ [Next]_vars => Undisturbed'
<1> SUFFICES ASSUME AllHealthy, RunInv, Undisturbed, [Next]_vars PROVE Undisturbed'
  OBVIOUS
<1>1. CASE UNCHANGED vars
  <2>1. UNCHANGED <<program, frames, stack, variables, binding, phase, result, outcome, scopes, failed>>
    BY <1>1 DEF vars
  <2>2. OrdersAreTopological' /\ InnerIsHeld' /\ ScopesAreComplete' /\ VariablesFollowScopes'
    BY <2>1 DEF Undisturbed, OrdersAreTopological, InnerIsHeld, ScopesAreComplete,
       VariablesFollowScopes, PipesOf
  <2>3. BindingFollowsScope'
    <3>1. UNCHANGED <<Top, Current(Top)>>
      BY <2>1 DEF Top, Current
    <3>2. ASSUME phase = "execute", program.type[Current(Top)] # BUILTIN, NEW k \in 1..binding
          PROVE  (LET name == PropertiesOf(program.type[Current(Top)])[k]
                  IN  variables[name] = PropertyValue(Current(Top), name, scopes[Len(scopes)]))'
      <4>1. LET name == PropertiesOf(program.type[Current(Top)])[k]
            IN  variables[name] = PropertyValue(Current(Top), name, scopes[Len(scopes)])
        BY <3>2 DEF Undisturbed, BindingFollowsScope
      <4> QED
        BY <2>1, <3>1, <4>1 DEF PropertiesOf, PropertyValue
    <3> QED
      BY <2>1, <3>1, <3>2 DEF BindingFollowsScope
  <2> QED
    BY <2>1, <2>2, <2>3 DEF Undisturbed, FailureIsOutside, NothingElseFails
<1>2. ~NoExecutor
  BY HealthyFacts DEF RunInv, TypeOK
<1> QED
  BY <1>1, <1>2, EnterUndisturbed, BuiltinUndisturbed, BindUndisturbed, CallUndisturbed,
     ExitUndisturbed, FinishUndisturbed, FailUndisturbed DEF Next

LEMMA UndisturbedInvariant == AllHealthy => (Spec => [](RunInv /\ Undisturbed))
<1> SUFFICES ASSUME AllHealthy PROVE Spec => [](RunInv /\ Undisturbed)
  OBVIOUS
<1>1. Init => Undisturbed
  BY UndisturbedInit
<1>2. RunInv /\ Undisturbed /\ [Next]_vars => Undisturbed'
  BY UndisturbedStep
<1>3. Spec => []RunInv
  BY ExecutionInvariant, PTL DEF RunInv
<1> QED
  BY <1>1, <1>2, <1>3, PTL DEF Spec

(* In healthy programs composite blocks neither disturb one another through *)
(* the one map of variables nor fail on their own: every built-in block     *)
(* reads the properties of its own activation, and only a built-in block of *)
(* the pipeline itself can fail.                                            *)
THEOREM RunsUndisturbedHolds == AllHealthy => (Spec => []RunsUndisturbed)
<1> SUFFICES ASSUME AllHealthy PROVE Spec => []RunsUndisturbed
  OBVIOUS
<1>1. ASSUME RunInv, Undisturbed PROVE RunsUndisturbed
  <2>1. ASSUME phase = "execute", program.type[Current(Top)] = BUILTIN,
               NEW name \in program.reads[Current(Top)]
        PROVE  variables[name] = scopes[Len(scopes)][name]
    <3>1. /\ ~failed /\ Top.index <= Len(Top.order) /\ Current(Top) \in Blocks
          /\ program \in Programs
      BY <1>1, <2>1, StackFacts, TopFacts DEF RunInv, Nested, IndexInRange, TypeOK
    <3>2. name \in ScopeNames(program, program.home[Current(Top)])
      BY <2>1, <3>1, HealthyFacts DEF PropertiesHaveValues
    <3> QED
      BY <1>1, <3>1, <3>2, ScopeOfTop
  <2> QED
    BY <1>1, <2>1 DEF RunsUndisturbed, ReadsOwnScope, Undisturbed
<1> QED
  BY <1>1, UndisturbedInvariant, PTL

-----------------------------------------------------------------------------
(* The run of the pipeline as a refinement *)

(* What the pipeline's own activation has executed of its blocks. *)
LEMMA PipelineFacts ==
    ASSUME AllHealthy, RunInv, Undisturbed
    PROVE  LET pipes == program.pipes[PIPELINE]
               first == frames[1]
               done  == {first.order[i] : i \in 1..(first.index - 1)}
           IN  /\ 1 \in DOMAIN frames /\ first.container = PIPELINE
               /\ first.order \in Seq(Blocks) /\ first.index \in Nat \ {0}
               /\ Members(first.order) = PipedBlocks(pipes)
               /\ first.index > Len(first.order) => done = PipedBlocks(pipes)
               /\ first.index <= Len(first.order) =>
                     /\ Current(first) \in PipedBlocks(pipes) \ done
                     /\ ParentBlocks(pipes, Current(first)) \subseteq done
                     /\ {first.order[i] : i \in 1..first.index} = done \cup {Current(first)}
<1> DEFINE pipes == program.pipes[PIPELINE]
           first == frames[1]
           done  == {first.order[i] : i \in 1..(first.index - 1)}
<1>1. /\ 1 \in DOMAIN frames /\ first.container = PIPELINE
      /\ first.order \in Seq(Blocks) /\ first.index \in Nat \ {0}
  BY TopFacts, FrameFacts DEF RunInv, Nested, OnlyFirstIsPipeline
<1>2. first.order \in TopologicalOrders(pipes) /\ first.index <= Len(first.order) + 1
  BY <1>1 DEF Undisturbed, OrdersAreTopological, PipesOf
<1>3. /\ Members(first.order) = PipedBlocks(pipes)
      /\ \A i, j \in DOMAIN first.order : first.order[i] = first.order[j] => i = j
      /\ \A p \in PipeSet(pipes) : \A i, j \in DOMAIN first.order :
            first.order[i] = p.from /\ first.order[j] = p.to => i < j
  BY <1>2 DEF TopologicalOrders
<1>4. pipes \in Seq(Pipe)
  BY ProgramFacts DEF RunInv, TypeOK, PipesOf, Containers
<1> HIDE DEF pipes, first
<1>5. DOMAIN first.order = 1..Len(first.order) /\ Len(first.order) \in Nat
  BY <1>1
<1>6. ASSUME first.index > Len(first.order) PROVE done = PipedBlocks(pipes)
  <2>1. first.index - 1 = Len(first.order)
    BY <1>1, <1>2, <1>5, <1>6
  <2> QED
    BY <1>3, <1>5, <2>1 DEF Members
<1>7. ASSUME first.index <= Len(first.order)
      PROVE  /\ Current(first) \in PipedBlocks(pipes) \ done
             /\ ParentBlocks(pipes, Current(first)) \subseteq done
             /\ {first.order[i] : i \in 1..first.index} = done \cup {Current(first)}
  <2>1. first.index \in DOMAIN first.order
    BY <1>1, <1>5, <1>7
  <2>2. \A i \in 1..(first.index - 1) : i \in DOMAIN first.order /\ i # first.index
    BY <1>1, <1>5, <1>7
  <2>3. Current(first) \in PipedBlocks(pipes)
    BY <1>3, <2>1 DEF Members, Current
  <2>4. Current(first) \notin done
    BY <1>3, <2>1, <2>2 DEF Current
  <2>5. ASSUME NEW a \in ParentBlocks(pipes, Current(first))
        PROVE  a \in done
    <3>1. PICK i \in DOMAIN pipes : pipes[i].to = Current(first) /\ pipes[i].from = a
      BY <2>5 DEF ParentBlocks, IngoingPipes
    <3>2. pipes[i] \in PipeSet(pipes)
      BY <3>1 DEF PipeSet, Members
    <3>3. a \in PipedBlocks(pipes)
      BY <3>1, <3>2 DEF PipedBlocks
    <3>4. PICK k \in DOMAIN first.order : first.order[k] = a
      BY <1>3, <3>3 DEF Members
    <3>5. k < first.index
      BY <1>3, <2>1, <3>1, <3>2, <3>4 DEF Current
    <3>6. k \in 1..(first.index - 1)
      BY <1>1, <1>5, <3>4, <3>5
    <3> QED
      BY <3>4, <3>6
  <2>6. 1..first.index = 1..(first.index - 1) \cup {first.index}
    BY <1>1
  <2>7. {first.order[i] : i \in 1..first.index} = done \cup {Current(first)}
    BY <2>6 DEF Current
  <2> QED
    BY <2>3, <2>4, <2>5, <2>7
<1> QED
  BY <1>1, <1>3, <1>6, <1>7 DEF pipes, first

(* A step that leaves the index of the pipeline's activation is no step of  *)
(* the abstract run.                                                        *)
LEMMA KeepsFirst ==
    ASSUME UNCHANGED <<program, outcome>>,
           frames'[1].order = frames[1].order, frames'[1].index = frames[1].index
    PROVE  UNCHANGED PipelineRun!runVars
BY DEF PipelineRun!runVars

LEMMA PipelineRunInit == AllHealthy /\ Init => PipelineRun!Init
<1> SUFFICES ASSUME AllHealthy, Init PROVE PipelineRun!Init
  OBVIOUS
<1>1. program \in Programs /\ PIPELINE \in Containers
  BY DEF Init, Containers
<1>2. ~Cyclic(PipesOf(PIPELINE)) /\ PipesOf(PIPELINE) \in Seq(Pipe)
  BY <1>1, HealthyFacts, ProgramFacts
<1>3. PICK order \in TopologicalOrders(PipesOf(PIPELINE)) :
        frames = << Activation(PIPELINE, order, NONE) >>
  BY <1>2 DEF Init
<1>4. frames[1].index = 1
  BY <1>3 DEF Activation
<1>5. {frames[1].order[i] : i \in 1..(frames[1].index - 1)} = {}
  BY <1>4
<1>6. outcome = "running"
  BY <1>2 DEF Init
<1> QED
  BY <1>2, <1>5, <1>6 DEF PipelineRun!Init, PipesOf, Pipe, PipelineRun!Pipe

LEMMA PipelineRunStep ==
    AllHealthy /\ RunInv /\ Undisturbed /\ [Next]_vars => [PipelineRun!Next]_PipelineRun!runVars
<1> SUFFICES ASSUME AllHealthy, RunInv, Undisturbed, [Next]_vars
             PROVE  [PipelineRun!Next]_PipelineRun!runVars
  OBVIOUS
<1> DEFINE n == Len(frames)
           pipes == program.pipes[PIPELINE]
           done == {frames[1].order[i] : i \in 1..(frames[1].index - 1)}
<1>1. /\ n \in Nat \ {0} /\ DOMAIN frames = 1..n /\ frames[n] = Top /\ frames \in Seq(Frame)
      /\ Top \in Frame /\ Top.container = PIPELINE <=> n = 1
  BY TopFacts, FrameFacts DEF RunInv, Top, TypeOK
<1>2. /\ 1 \in DOMAIN frames /\ frames[1].index \in Nat \ {0}
      /\ frames[1].index > Len(frames[1].order) => done = PipedBlocks(pipes)
      /\ frames[1].index <= Len(frames[1].order) =>
            /\ Current(frames[1]) \in PipedBlocks(pipes) \ done
            /\ ParentBlocks(pipes, Current(frames[1])) \subseteq done
            /\ {frames[1].order[i] : i \in 1..frames[1].index} = done \cup {Current(frames[1])}
  BY PipelineFacts
<1>3. pipes \in Seq(Pipe)
  BY ProgramFacts DEF RunInv, TypeOK, PipesOf, Containers
<1>4. /\ PipelineRun!PipedBlocks(pipes) = PipedBlocks(pipes)
      /\ \A b : PipelineRun!ParentBlocks(pipes, b) = ParentBlocks(pipes, b)
  BY DEF PipelineRun!PipedBlocks, PipedBlocks, PipelineRun!PipeSet, PipeSet,
     PipelineRun!Members, Members, PipelineRun!ParentBlocks, ParentBlocks,
     PipelineRun!IngoingPipes, IngoingPipes
<1>5. outcome = "running" <=> phase # "done"
  BY DEF RunInv, Unwinding, DoneIsAnOutcome
<1>6. CASE UNCHANGED vars
  BY <1>6, KeepsFirst DEF vars
<1>7. CASE EnterBlock
  <2>1. frames'[1].order = frames[1].order /\ frames'[1].index = frames[1].index
    BY <1>1, <1>2, <1>7 DEF EnterBlock, Frame
  <2> QED
    BY <1>7, <2>1, KeepsFirst DEF EnterBlock
<1>8. CASE ExecuteBuiltin
  BY <1>8, KeepsFirst DEF ExecuteBuiltin
<1>9. CASE BindProperty
  BY <1>9, KeepsFirst DEF BindProperty
<1>10. CASE CallComposite
  <2>1. frames'[1] = frames[1]
    BY <1>1, <1>2, <1>10 DEF CallComposite
  <2> QED
    BY <1>10, <2>1, KeepsFirst DEF CallComposite
<1>11. CASE ExitBlock
  <2>1. /\ frames' = [frames EXCEPT ![n] = Stored(Top, result.value)]
        /\ UNCHANGED <<program, outcome>> /\ phase = "result"
    BY <1>11, ExitUndisturbed DEF ExitBlock
  <2>2. CASE n = 1
    <3>1. Top.index <= Len(Top.order) /\ Top = frames[1]
      BY <1>1, <2>1, <2>2 DEF RunInv, Nested, IndexInRange
    <3>2. frames'[1].order = frames[1].order /\ frames'[1].index = frames[1].index + 1
      BY <1>1, <1>2, <2>1, <2>2, <3>1 DEF Stored, Frame
    <3>3. frames'[1].index - 1 = frames[1].index
      BY <1>2, <3>2
    <3>4. {frames'[1].order[i] : i \in 1..(frames'[1].index - 1)} = done \cup {Current(frames[1])}
      BY <1>2, <3>1, <3>2, <3>3
    <3>5. PICK b \in Blocks : b = Current(frames[1])
      BY <3>1, TopFacts DEF RunInv
    <3>6. /\ outcome = "running"
          /\ Current(frames[1]) \in PipedBlocks(pipes) \ done
          /\ ParentBlocks(pipes, Current(frames[1])) \subseteq done
      BY <1>2, <1>5, <2>1, <3>1
    <3> HIDE DEF done
    <3>7. PipelineRun!ExecuteBlock(b)
      BY <1>4, <2>1, <3>4, <3>5, <3>6 DEF PipelineRun!ExecuteBlock, done
    <3> QED
      BY <3>7 DEF PipelineRun!Next
  <2>3. CASE n # 1
    <3>1. frames'[1] = frames[1]
      BY <1>1, <1>2, <2>1, <2>3
    <3> QED
      BY <2>1, <3>1, KeepsFirst
  <2> QED
    BY <2>2, <2>3
<1>12. CASE FinishBlocks
  <2>1. CASE Top.container = PIPELINE
    <3>1. /\ UNCHANGED <<program, frames>> /\ phase = "next" /\ outcome' = "success"
          /\ frames[1].index > Len(frames[1].order)
      BY <1>1, <1>12, <2>1 DEF FinishBlocks
    <3>2. PipelineRun!Succeed
      BY <1>2, <1>4, <1>5, <3>1 DEF PipelineRun!Succeed
    <3> QED
      BY <3>2 DEF PipelineRun!Next
  <2>2. CASE Top.container # PIPELINE
    <3>1. frames' = SubSeq(frames, 1, n - 1) /\ UNCHANGED <<program, outcome>>
      BY <1>12, <2>2 DEF FinishBlocks, ReturnToCaller
    <3>2. n - 1 \in Nat /\ 1 \in 1..(n - 1)
      BY <1>1, <2>2
    <3>3. frames'[1] = frames[1]
      BY <1>1, <3>1, <3>2
    <3> QED
      BY <3>1, <3>3, KeepsFirst
  <2> QED
    BY <2>1, <2>2
<1>13. CASE FailBlocks
  <2>1. /\ UNCHANGED <<program, frames>> /\ outcome' = "failure" /\ phase = "result"
    BY <1>13, FailUndisturbed DEF FailBlocks
  <2>2. failed
    BY <1>13 DEF FailBlocks, RunInv, Unwinding, ErrorIsFailure
  <2>3. n = 1
    BY <2>2 DEF Undisturbed, FailureIsOutside
  <2>4. frames[1].index <= Len(frames[1].order)
    BY <1>1, <2>1, <2>3 DEF RunInv, Nested, IndexInRange
  <2>5. done # PipedBlocks(pipes)
    BY <1>2, <2>4
  <2>6. PipelineRun!Fail
    BY <1>4, <1>5, <2>1, <2>5 DEF PipelineRun!Fail
  <2> QED
    BY <2>6 DEF PipelineRun!Next
<1>14. ~NoExecutor
  BY HealthyFacts DEF RunInv, TypeOK
<1> QED
  BY <1>6, <1>7, <1>8, <1>9, <1>10, <1>11, <1>12, <1>13, <1>14 DEF Next

(* In healthy programs every step of executeBlocks, at any depth, is a step *)
(* of the pipeline's abstract run or none: its blocks are executed once and *)
(* after their parents, composite blocks like any other, and after a        *)
(* failure nothing is executed any more.                                    *)
THEOREM StepsArePipelineRunStepsHolds == AllHealthy => (Spec => StepsArePipelineRunSteps)
<1> SUFFICES ASSUME AllHealthy PROVE Spec => StepsArePipelineRunSteps
  OBVIOUS
<1>1. Init => PipelineRun!Init
  BY PipelineRunInit
<1>2. RunInv /\ Undisturbed /\ [Next]_vars => [PipelineRun!Next]_PipelineRun!runVars
  BY PipelineRunStep
<1>3. Spec => [](RunInv /\ Undisturbed)
  BY UndisturbedInvariant
<1> QED
  BY <1>1, <1>2, <1>3, PTL DEF Spec, StepsArePipelineRunSteps, PipelineRun!SafeSpec

-----------------------------------------------------------------------------
(* The flow of values through composite blocks *)

AllSingleStart == (\A prog \in Programs : HasSingleStarts(prog)) /\ MayEmitNull = {}

FlowInv == RunInv /\ Undisturbed /\ ValuesFlow

LEMMA FirstParentIsParent ==
    ASSUME NEW pipes \in Seq(Pipe), NEW block, ParentBlocks(pipes, block) # {}
    PROVE  FirstParent(pipes, block) \in ParentBlocks(pipes, block)
<1>1. IngoingPipes(pipes, block) # {}
  BY DEF ParentBlocks
<1>2. IngoingPipes(pipes, block) \subseteq Nat
  BY PipeListMembers DEF IngoingPipes
<1>3. PICK i \in IngoingPipes(pipes, block) :
        \A j \in IngoingPipes(pipes, block) : i <= j
  BY <1>1, <1>2, SmallestIndex
<1> DEFINE first == CHOOSE k \in IngoingPipes(pipes, block) :
                       \A j \in IngoingPipes(pipes, block) : k <= j
<1>4. first \in IngoingPipes(pipes, block)
  BY <1>3
<1> QED
  BY <1>4 DEF FirstParent, ParentBlocks

(* In an order that the sorting returns parents come first. *)
LEMMA ParentsAreBefore ==
    ASSUME NEW pipes, NEW order \in TopologicalOrders(pipes), NEW n \in DOMAIN order,
           NEW a \in ParentBlocks(pipes, order[n])
    PROVE  \E k \in DOMAIN order : k < n /\ order[k] = a
<1>1. PICK i \in DOMAIN pipes : pipes[i].to = order[n] /\ pipes[i].from = a
  BY DEF ParentBlocks, IngoingPipes
<1>2. pipes[i] \in PipeSet(pipes)
  BY <1>1 DEF PipeSet, Members
<1>3. a \in PipedBlocks(pipes)
  BY <1>1, <1>2 DEF PipedBlocks
<1>4. PICK k \in DOMAIN order : order[k] = a
  BY <1>3 DEF TopologicalOrders, Members
<1>5. k < n
  BY <1>1, <1>2, <1>4 DEF TopologicalOrders
<1> QED
  BY <1>4, <1>5

(* The position of the innermost activation in its order. *)
LEMMA TopPosition ==
    ASSUME RunInv, Undisturbed, Top.index <= Len(Top.order)
    PROVE  /\ Top.order \in TopologicalOrders(PipesOf(Top.container))
           /\ PipesOf(Top.container) \in Seq(Pipe)
           /\ Top.order \in Seq(Blocks) /\ Top.index \in DOMAIN Top.order
           /\ DOMAIN Top.order = 1..Len(Top.order)
           /\ Current(Top) \in PipedBlocks(PipesOf(Top.container))
           /\ \A i, j \in DOMAIN Top.order : Top.order[i] = Top.order[j] => i = j
<1>1. /\ Top \in Frame /\ Len(frames) \in DOMAIN frames /\ frames[Len(frames)] = Top
      /\ program \in Programs
  BY TopFacts DEF RunInv, Top, TypeOK
<1>2. Top.order \in TopologicalOrders(PipesOf(Top.container))
  BY <1>1 DEF Undisturbed, OrdersAreTopological
<1>3. Top.order \in Seq(Blocks) /\ Top.index \in Nat \ {0}
  BY <1>1 DEF Frame
<1>4. Top.index \in DOMAIN Top.order /\ DOMAIN Top.order = 1..Len(Top.order)
  BY <1>3
<1>5. PipesOf(Top.container) \in Seq(Pipe)
  BY <1>1, ProgramFacts DEF Frame
<1> QED
  BY <1>2, <1>3, <1>4, <1>5 DEF TopologicalOrders, Members, Current

(* A composite block's first block is the only one without parents. *)
LEMMA OnlyFirstHasNoParents ==
    ASSUME AllSingleStart, RunInv, Undisturbed, Top.index <= Len(Top.order),
           Top.container # PIPELINE,
           ParentBlocks(PipesOf(Top.container), Current(Top)) = {}
    PROVE  Top.index = 1
<1> DEFINE pipes == PipesOf(Top.container)
<1>1. /\ Top.order \in TopologicalOrders(pipes)
      /\ Top.index \in DOMAIN Top.order /\ DOMAIN Top.order = 1..Len(Top.order)
      /\ \A i, j \in DOMAIN Top.order : Top.order[i] = Top.order[j] => i = j
      /\ Top.order \in Seq(Blocks)
  BY TopPosition
<1>2. 1 \in DOMAIN Top.order /\ Top.order[1] \in PipedBlocks(pipes)
      /\ Current(Top) \in PipedBlocks(pipes)
  BY <1>1, TopPosition DEF TopologicalOrders, Members
<1>3. ParentBlocks(pipes, Top.order[1]) = {}
  <2>1. ASSUME NEW a \in ParentBlocks(pipes, Top.order[1]) PROVE FALSE
    <3>1. PICK k \in DOMAIN Top.order : k < 1
      BY <1>1, <1>2, <2>1, ParentsAreBefore
    <3> QED
      BY <1>1, <3>1
  <2> QED
    BY <2>1
<1>4. Top.container \in CompositeTypes /\ program \in Programs
  BY TopFacts DEF RunInv, Frame, Containers, TypeOK
<1>5. Top.order[1] = Current(Top)
  BY <1>2, <1>3, <1>4 DEF AllSingleStart, HasSingleStarts, PipesOf
<1> QED
  BY <1>1, <1>2, <1>5 DEF Current

(* What is stored of the blocks before the current one is produced by them. *)
LEMMA StoredIsProduced ==
    ASSUME FlowInv, ~failed, NEW k \in DOMAIN Top.order, k < Top.index
    PROVE  IsProducedBy(Len(frames), Top.order[k], Top.values[Top.order[k]])
<1>1. /\ Len(frames) \in DOMAIN frames /\ frames[Len(frames)] = Top /\ Top \in Frame
  BY TopFacts DEF FlowInv, RunInv, Top
<1>2. Top.index \in Nat \ {0} /\ Top.order \in Seq(Blocks)
  BY <1>1 DEF Frame
<1>3. k \in 1..(Top.index - 1)
  BY <1>2
<1> QED
  BY <1>1, <1>3 DEF FlowInv, ValuesFlow, ValuesAreProduced

(* What a block of an activation produces depends on the nodes before it. *)
LEMMA KeepsProduced ==
    ASSUME UNCHANGED program, NEW n \in Nat, \A k \in 1..(n - 1) : stack'[k] = stack[k]
    PROVE  \A block, value :
              IsProducedBy(n, block, value) => IsProducedBy(n, block, value)'
BY DEF IsProducedBy

(* What comes before one depends on the nodes up to it. *)
LEMMA KeepsPredecessor ==
    ASSUME UNCHANGED program, NEW n \in Nat, \A k \in 1..n : stack'[k] = stack[k],
           NEW value, ComesFromPredecessor(n, value)
    PROVE  ComesFromPredecessor(n, value)'
<1>1. \A k \in 1..n : HasParents(k)' <=> HasParents(k)
  BY DEF HasParents, PipesOf
<1>2. \A k \in 1..n : \A j \in (k + 1)..n : j \in 1..n
  OBVIOUS
<1>3. CASE value = NONE /\ \A k \in 1..n : ~HasParents(k)
  BY <1>1, <1>3 DEF ComesFromPredecessor
<1>4. ASSUME NEW k \in 1..n, HasParents(k), \A j \in (k + 1)..n : ~HasParents(j),
             IsProducedBy(k, FirstParent(PipesOf(program.home[stack[k]]), stack[k]), value)
      PROVE  ComesFromPredecessor(n, value)'
  <2>1. PICK first : first = FirstParent(PipesOf(program.home[stack[k]]), stack[k])
    OBVIOUS
  <2>2. FirstParent(PipesOf(program.home[stack[k]]), stack[k])' = first
    <3>1. stack'[k] = stack[k]
      OBVIOUS
    <3>2. PipesOf(program.home[stack[k]])' = PipesOf(program.home[stack[k]])
      BY <3>1 DEF PipesOf
    <3> QED
      BY <2>1, <3>1, <3>2 DEF FirstParent
  <2>3. k \in Nat /\ \A j \in 1..(k - 1) : stack'[j] = stack[j]
    OBVIOUS
  <2>4. IsProducedBy(k, first, value)'
    BY <1>4, <2>1, <2>3, KeepsProduced
  <2>5. IsProducedBy(k, FirstParent(PipesOf(program.home[stack[k]]), stack[k]), value)'
    BY <2>2, <2>4 DEF IsProducedBy
  <2> QED
    BY <1>1, <1>2, <1>4, <2>5 DEF ComesFromPredecessor
<1> QED
  BY <1>3, <1>4 DEF ComesFromPredecessor

(* What the activations have stored stays what it was if they do. *)
LEMMA KeepsStored ==
    ASSUME FlowInv, UNCHANGED program, ~failed,
           NEW i \in DOMAIN frames, NEW k \in 1..(frames[i].index - 1),
           \A j \in 1..(i - 1) : stack'[j] = stack[j],
           frames'[i].order = frames[i].order, frames'[i].values = frames[i].values
    PROVE  IsProducedBy(i, frames[i].order[k], frames[i].values[frames[i].order[k]])'
<1>1. PICK block, value : /\ block = frames[i].order[k]
                          /\ value = frames[i].values[block]
  OBVIOUS
<1>2. IsProducedBy(i, block, value)
  BY <1>1 DEF FlowInv, ValuesFlow, ValuesAreProduced
<1>3. i \in Nat
  BY TopFacts DEF FlowInv, RunInv
<1>4. IsProducedBy(i, block, value)'
  BY <1>2, <1>3, KeepsProduced
<1>5. frames'[i].order[k] = block /\ frames'[i].values[block] = value
  BY <1>1
<1> QED
  BY <1>4, <1>5 DEF IsProducedBy

LEMMA PredecessorOfInput ==
    ASSUME NEW i, NEW value, ComesFromPredecessor(i, value)', frames'[i].input = value
    PROVE  ComesFromPredecessor(i, frames[i].input)'
<1>1. CASE value = NONE /\ \A k \in 1..i : ~HasParents(k)'
  BY <1>1 DEF ComesFromPredecessor
<1>2. ASSUME NEW k \in 1..i, HasParents(k)', \A j \in (k + 1)..i : ~HasParents(j)',
             IsProducedBy(k, FirstParent(PipesOf(program.home[stack[k]]), stack[k]), value)'
      PROVE  ComesFromPredecessor(i, frames[i].input)'
  <2>1. IsProducedBy(k, FirstParent(PipesOf(program.home[stack[k]]), stack[k]), frames[i].input)'
    BY <1>2 DEF IsProducedBy
  <2> QED
    BY <1>2, <2>1 DEF ComesFromPredecessor
<1> QED
  BY <1>1, <1>2 DEF ComesFromPredecessor

LEMMA KeepsInput ==
    ASSUME FlowInv, UNCHANGED program, ~failed, NEW i \in 1..OpenNodes,
           \A j \in 1..i : stack'[j] = stack[j], frames'[i].input = frames[i].input
    PROVE  ComesFromPredecessor(i, frames[i].input)'
<1>1. PICK value : value = frames[i].input
  OBVIOUS
<1>2. ComesFromPredecessor(i, value)
  BY <1>1 DEF FlowInv, ValuesFlow, InputsAreOfPredecessors
<1>3. i \in Nat
  BY StackFacts DEF FlowInv, RunInv
<1>4. ComesFromPredecessor(i, value)'
  BY <1>2, <1>3, KeepsPredecessor
<1> QED
  BY <1>1, <1>4, PredecessorOfInput

LEMMA ValuesFlowInit == Init => ValuesFlow
<1> SUFFICES ASSUME Init PROVE ValuesFlow
  OBVIOUS
<1>1. PICK order : frames = << Activation(PIPELINE, order, NONE) >>
  BY DEF Init
<1>2. /\ DOMAIN frames = {1} /\ Len(frames) = 1
      /\ frames[1].index = 1 /\ frames[1].initial = NONE
  BY <1>1 DEF Activation
<1>3. phase \in {"next", "done"} /\ OpenNodes = 0
  BY <1>2 DEF Init, OpenNodes
<1> QED
  BY <1>2, <1>3 DEF ValuesFlow, CallersExecuteTheType, InitialsArePassedOn, ValuesAreProduced,
     ResultIsProduced, InputsAreOfPredecessors

(* The block that is entered takes what comes before it. *)
LEMMA EnteredInput ==
    ASSUME AllSingleStart, FlowInv, EnterBlock,
           \A k \in 1..(Len(frames) - 1) : stack'[k] = stack[k],
           stack'[Len(frames)] = Current(Top),
           NEW value, value = InputValue(Top)
    PROVE  ComesFromPredecessor(Len(frames), value)'
<1> DEFINE pipes == PipesOf(Top.container)
           block == Current(Top)
<1>0. PICK n \in Nat \ {0} : n = Len(frames)
  BY TopFacts DEF FlowInv, RunInv
<1>1. /\ ~failed /\ phase = "next" /\ UNCHANGED program
      /\ Top.index <= Len(Top.order) /\ DOMAIN frames = 1..n /\ frames[n] = Top
      /\ Top.container = PIPELINE <=> n = 1
      /\ program.home[stack'[n]] = Top.container /\ stack'[n] = block
      /\ OpenNodes = n - 1 /\ Len(frames)' = n
  BY <1>0, StackFacts, TopFacts, FrameFacts DEF FlowInv, RunInv, EnterBlock, OpenNodes, Top, TypeOK
<1>2. HasParents(n)' <=> ParentBlocks(pipes, block) # {}
  BY <1>1 DEF HasParents, PipesOf
<1>3. CASE ParentBlocks(pipes, block) # {}
  <2>1. PICK parent : parent = FirstParent(pipes, block)
    OBVIOUS
  <2>2. PICK k \in DOMAIN Top.order : k < Top.index /\ Top.order[k] = parent
    <3>1. parent \in ParentBlocks(pipes, block)
      BY <1>1, <1>3, <2>1, TopPosition, FirstParentIsParent DEF FlowInv
    <3> QED
      BY <1>1, <3>1, TopPosition, ParentsAreBefore DEF FlowInv, Current
  <2>3. PICK out : out = Top.values[parent]
    OBVIOUS
  <2>4. IsProducedBy(n, parent, out)
    BY <1>0, <1>1, <2>2, <2>3, StoredIsProduced
  <2>5. out \notin {NONE, NULL}
    BY <2>4 DEF IsProducedBy
  <2>6. value = out
    BY <1>3, <2>1, <2>3, <2>5 DEF InputValue
  <2>7. IsProducedBy(n, parent, value)'
    BY <1>0, <1>1, <2>4, <2>6, KeepsProduced
  <2>8. FirstParent(PipesOf(program.home[stack[n]]), stack[n])' = parent
    BY <1>1, <2>1 DEF FirstParent, PipesOf, IngoingPipes
  <2>9. IsProducedBy(n, FirstParent(PipesOf(program.home[stack[n]]), stack[n]), value)'
    BY <2>7, <2>8 DEF IsProducedBy
  <2>10. n \in 1..n /\ \A j \in (n + 1)..n : ~HasParents(j)'
    OBVIOUS
  <2>11. ComesFromPredecessor(n, value)'
    BY <1>2, <1>3, <2>9, <2>10 DEF ComesFromPredecessor
  <2> QED
    BY <1>0, <1>1, <2>11 DEF ComesFromPredecessor
<1>4. CASE ParentBlocks(pipes, block) = {} /\ n = 1
  <2>1. Top.initial = NONE
    BY <1>1, <1>4 DEF FlowInv, ValuesFlow, InitialsArePassedOn
  <2>2. value = NONE
    BY <1>4, <2>1 DEF InputValue
  <2>3. \A k \in 1..n : ~HasParents(k)'
    BY <1>2, <1>4
  <2> QED
    BY <1>0, <1>1, <2>2, <2>3 DEF ComesFromPredecessor
<1>5. CASE ParentBlocks(pipes, block) = {} /\ n # 1
  <2>1. Top.index = 1
    BY <1>1, <1>5, OnlyFirstHasNoParents DEF FlowInv
  <2>2. value = Top.initial
    BY <1>5, <2>1 DEF InputValue
  <2>3. n - 1 \in 1..OpenNodes /\ n - 1 \in Nat /\ n \in DOMAIN frames
    BY <1>1, <1>5
  <2>4. value = frames[n - 1].input
    BY <1>1, <1>5, <2>2, <2>3 DEF FlowInv, ValuesFlow, InitialsArePassedOn
  <2>5. ComesFromPredecessor(n - 1, value)
    BY <1>1, <2>3, <2>4 DEF FlowInv, ValuesFlow, InputsAreOfPredecessors
  <2>6. ComesFromPredecessor(n - 1, value)'
    BY <1>0, <1>1, <2>3, <2>5, KeepsPredecessor
  <2>7. ~HasParents(n)'
    BY <1>2, <1>5
  <2>8. CASE value = NONE /\ \A k \in 1..(n - 1) : ~HasParents(k)'
    <3>1. \A k \in 1..n : k = n \/ k \in 1..(n - 1)
      OBVIOUS
    <3>2. \A k \in 1..n : ~HasParents(k)'
      BY <2>7, <2>8, <3>1
    <3>3. ComesFromPredecessor(n, value)'
      BY <2>8, <3>2 DEF ComesFromPredecessor
    <3> QED
      BY <1>0, <1>1, <3>3 DEF ComesFromPredecessor
  <2>9. ASSUME NEW k \in 1..(n - 1), HasParents(k)', \A j \in (k + 1)..(n - 1) : ~HasParents(j)',
               IsProducedBy(k, FirstParent(PipesOf(program.home[stack[k]]), stack[k]), value)'
        PROVE  ComesFromPredecessor(Len(frames), value)'
    <3>1. k \in 1..n /\ \A j \in (k + 1)..n : j = n \/ j \in (k + 1)..(n - 1)
      OBVIOUS
    <3>2. \A j \in (k + 1)..n : ~HasParents(j)'
      BY <2>7, <2>9, <3>1
    <3>3. ComesFromPredecessor(n, value)'
      BY <2>9, <3>1, <3>2 DEF ComesFromPredecessor
    <3> QED
      BY <1>0, <1>1, <3>3 DEF ComesFromPredecessor
  <2> QED
    BY <2>6, <2>8, <2>9 DEF ComesFromPredecessor
<1> QED
  BY <1>3, <1>4, <1>5

LEMMA EnterFlow ==
    ASSUME AllSingleStart, FlowInv, EnterBlock
    PROVE  ValuesFlow'
<1>0. PICK n \in Nat \ {0} : n = Len(frames)
  BY TopFacts DEF FlowInv, RunInv
<1> DEFINE frame == [Top EXCEPT !.input = InputValue(Top)]
<1>1. /\ ~failed /\ phase = "next" /\ phase' = "execute" /\ UNCHANGED <<program, failed>>
      /\ frames' = [frames EXCEPT ![n] = frame]
      /\ DOMAIN frames = 1..n /\ frames[n] = Top /\ Top \in Frame
      /\ Len(stack) = n - 1 /\ OpenNodes = n - 1
  BY <1>0, StackFacts, TopFacts DEF FlowInv, RunInv, EnterBlock, OpenNodes, Top
<1>2. /\ DOMAIN frames' = 1..n /\ frames'[n] = frame
      /\ \A i \in 1..n : i # n => frames'[i] = frames[i]
  BY <1>1
<1>3. /\ frame.container = Top.container /\ frame.order = Top.order /\ frame.index = Top.index
      /\ frame.values = Top.values /\ frame.initial = Top.initial
      /\ frame.input = InputValue(Top)
  BY <1>1 DEF Frame
<1> HIDE DEF frame
<1>4. \A i \in 1..n : /\ frames'[i].container = frames[i].container
                      /\ frames'[i].order = frames[i].order
                      /\ frames'[i].index = frames[i].index
                      /\ frames'[i].values = frames[i].values
                      /\ frames'[i].initial = frames[i].initial
                      /\ i # n => frames'[i].input = frames[i].input
  BY <1>1, <1>2, <1>3
<1>5. /\ stack'[n] = Current(Top) /\ \A k \in 1..(n - 1) : stack'[k] = stack[k]
  <2>1. stack' = Append(stack, Current(Top)) /\ Current(Top) \in Blocks
    BY TopFacts DEF EnterBlock, FlowInv, RunInv
  <2>2. stack \in Seq(Blocks) /\ Len(stack) + 1 = n /\ 1..Len(stack) = 1..(n - 1)
    BY <1>0, <1>1 DEF FlowInv, RunInv, TypeOK
  <2> QED
    BY <2>1, <2>2, AppendMembers
<1>6. OpenNodes' = n
  <2>1. frames \in Seq(Frame)
    BY DEF FlowInv, RunInv, TypeOK
  <2>2. Len(frames') = n
    BY <1>0, <1>1, <2>1
  <2> QED
    BY <1>1, <2>2 DEF OpenNodes
<1>7. CallersExecuteTheType' /\ InitialsArePassedOn'
  <2>1. ASSUME NEW i \in 1..n, i # 1
        PROVE  i - 1 \in 1..n /\ i - 1 # n
    BY <2>1
  <2>2. CallersExecuteTheType'
    BY <1>1, <1>2, <1>4, <2>1 DEF FlowInv, ValuesFlow, CallersExecuteTheType, Current
  <2>3. InitialsArePassedOn'
    BY <1>1, <1>2, <1>4, <2>1 DEF FlowInv, ValuesFlow, InitialsArePassedOn
  <2> QED
    BY <2>2, <2>3
<1>8. ValuesAreProduced'
  <2>1. ASSUME NEW i \in 1..n, NEW k \in 1..(frames[i].index - 1)
        PROVE  IsProducedBy(i, frames[i].order[k], frames[i].values[frames[i].order[k]])'
    <3>1. \A j \in 1..(i - 1) : stack'[j] = stack[j]
      BY <1>5
    <3> QED
      BY <1>1, <1>4, <2>1, <3>1, KeepsStored
  <2>2. \A i \in DOMAIN frames' : i \in 1..n /\ 1..(frames'[i].index - 1) = 1..(frames[i].index - 1)
    BY <1>2, <1>4
  <2> QED
    BY <2>1, <2>2 DEF ValuesAreProduced
<1>9. InputsAreOfPredecessors'
  <2>1. ASSUME NEW i \in 1..n PROVE ComesFromPredecessor(i, frames[i].input)'
    <3>1. CASE i = n
      <4>1. PICK value : value = InputValue(Top)
        OBVIOUS
      <4>2. ComesFromPredecessor(Len(frames), value)'
        BY <1>0, <1>5, <4>1, EnteredInput
      <4>3. Len(frames)' = n
        BY <1>1, <1>6 DEF OpenNodes
      <4>4. ComesFromPredecessor(n, value)'
        BY <4>2, <4>3 DEF ComesFromPredecessor
      <4>5. frames'[n].input = value
        BY <1>2, <1>3, <4>1
      <4>6. ComesFromPredecessor(n, frames[n].input)'
        BY <4>4, <4>5, PredecessorOfInput
      <4> QED
        BY <3>1, <4>6
    <3>2. CASE i # n
      <4>1. i \in 1..OpenNodes /\ \A j \in 1..i : stack'[j] = stack[j]
        BY <1>1, <1>5, <3>2
      <4> QED
        BY <1>1, <1>4, <3>2, <4>1, KeepsInput
    <3> QED
      BY <3>1, <3>2
  <2> QED
    BY <1>6, <2>1 DEF InputsAreOfPredecessors
<1>10. ResultIsProduced'
  BY <1>1 DEF ResultIsProduced
<1> QED
  BY <1>7, <1>8, <1>9, <1>10 DEF ValuesFlow

(* Steps that keep the activations and the nodes. *)
LEMMA QuietFlow ==
    ASSUME FlowInv, UNCHANGED <<program, frames, stack>>, OpenNodes' = OpenNodes,
           failed => failed', ResultIsProduced'
    PROVE  ValuesFlow'
<1>1. CallersExecuteTheType' /\ InitialsArePassedOn'
  BY DEF FlowInv, ValuesFlow, CallersExecuteTheType, InitialsArePassedOn, Current
<1>2. ValuesAreProduced'
  <2>1. ASSUME ~failed, NEW i \in DOMAIN frames, NEW k \in 1..(frames[i].index - 1)
        PROVE  IsProducedBy(i, frames[i].order[k], frames[i].values[frames[i].order[k]])'
    BY <2>1, KeepsStored
  <2> QED
    BY <2>1 DEF ValuesAreProduced
<1>3. InputsAreOfPredecessors'
  <2>1. ASSUME ~failed, NEW i \in 1..OpenNodes
        PROVE  ComesFromPredecessor(i, frames[i].input)'
    BY <2>1, KeepsInput
  <2> QED
    BY <2>1 DEF InputsAreOfPredecessors
<1> QED
  BY <1>1, <1>2, <1>3 DEF ValuesFlow

LEMMA BuiltinFlow ==
    ASSUME AllSingleStart, FlowInv, ExecuteBuiltin
    PROVE  ValuesFlow'
<1>1. /\ ~failed /\ phase = "execute" /\ phase' = "result"
      /\ UNCHANGED <<program, frames, stack>> /\ OpenNodes' = OpenNodes
      /\ program.type[Current(Top)] = BUILTIN
  BY StackFacts DEF FlowInv, RunInv, ExecuteBuiltin, OpenNodes
<1>2. ASSUME ~failed'
      PROVE  IsProducedBy(Len(stack), Current(Top), result.value)'
  <2>1. result' = Ok(stack)
    BY <1>2 DEF ExecuteBuiltin, ExecutorResults, AllSingleStart
  <2>2. PICK n \in Nat \ {0} : n = Len(frames)
    BY TopFacts DEF FlowInv, RunInv
  <2>3. /\ stack \in Seq(Blocks) /\ Len(stack) = n /\ stack[n] = Current(Top)
    <3>1. OpenNodes = n /\ n \in 1..n /\ Top = frames[n]
      BY <1>1, <2>2 DEF OpenNodes, Top
    <3> QED
      BY <1>1, <3>1, StackFacts DEF FlowInv, RunInv
  <2>4. stack \notin {NONE, NULL}
    BY <2>3, MarkersAssumption
  <2>5. /\ result'.value = stack /\ Len(stack') = n
        /\ Current(Top)' = stack[n]
    BY <1>1, <2>1, <2>3 DEF Ok, Top, Current
  <2> QED
    BY <1>1, <2>3, <2>4, <2>5 DEF IsProducedBy
<1>3. ResultIsProduced'
  BY <1>2 DEF ResultIsProduced
<1> QED
  BY <1>1, <1>3, QuietFlow

LEMMA BindFlow ==
    ASSUME FlowInv, BindProperty
    PROVE  ValuesFlow'
<1>1. /\ ~failed /\ phase = "execute" /\ UNCHANGED <<program, frames, stack>>
      /\ phase' \in {"execute", "result"}
      /\ phase' = "result" => failed'
  BY StackFacts DEF FlowInv, RunInv, BindProperty, CallsComposite
<1>2. OpenNodes' = OpenNodes /\ ResultIsProduced'
  BY <1>1 DEF OpenNodes, ResultIsProduced
<1> QED
  BY <1>1, <1>2, QuietFlow

LEMMA CallFlow ==
    ASSUME FlowInv, CallComposite
    PROVE  ValuesFlow'
<1>0. PICK n \in Nat \ {0} : n = Len(frames)
  BY TopFacts DEF FlowInv, RunInv
<1> DEFINE block == Current(Top)
           type == program.type[block]
<1>1. /\ ~failed /\ phase = "execute" /\ UNCHANGED <<program, stack>>
      /\ DOMAIN frames = 1..n /\ frames[n] = Top /\ OpenNodes = n
  BY <1>0, StackFacts DEF FlowInv, RunInv, CallComposite, CallsComposite, Top, OpenNodes
<1>2. CASE Cyclic(PipesOf(type))
  <2>1. UNCHANGED frames /\ phase' = "result" /\ failed'
    BY <1>2 DEF CallComposite
  <2>2. OpenNodes' = OpenNodes /\ ResultIsProduced'
    BY <1>1, <2>1 DEF OpenNodes, ResultIsProduced
  <2> QED
    BY <1>1, <2>1, <2>2, QuietFlow
<1>3. CASE ~Cyclic(PipesOf(type))
  <2>1. PICK order : frames' = Append(frames, Activation(type, order, Top.input))
    BY <1>3 DEF CallComposite
  <2>2. UNCHANGED failed /\ phase' = "next"
    BY <1>3 DEF CallComposite
  <2> DEFINE new == Activation(type, order, Top.input)
  <2>3. new.container = type /\ new.index = 1 /\ new.initial = Top.input
    BY DEF Activation
  <2>4. /\ DOMAIN frames' = 1..(n + 1) /\ Len(frames') = n + 1 /\ frames'[n + 1] = new
        /\ \A i \in 1..n : frames'[i] = frames[i]
    <3>1. frames \in Seq(Frame)
      BY DEF FlowInv, RunInv, TypeOK
    <3>2. frames \in Seq(Frame \cup {new}) /\ new \in Frame \cup {new}
      BY <3>1
    <3>3. frames' = Append(frames, new)
      BY <2>1
    <3> HIDE DEF new
    <3> QED
      BY <1>0, <1>1, <3>2, <3>3, AppendMembers
  <2> HIDE DEF new
  <2>5. \A i \in 1..(n + 1) : i = n + 1 \/ i \in 1..n
    OBVIOUS
  <2>6. \A i \in 1..(n + 1) : i # 1 => i - 1 \in 1..n
    OBVIOUS
  <2>7. CallersExecuteTheType'
    <3>1. ASSUME NEW i \in 1..(n + 1), i # 1
          PROVE  program.type[Current(frames'[i - 1])] = frames'[i].container
      <4>1. frames'[i - 1] = frames[i - 1]
        BY <2>4, <2>6, <3>1
      <4>2. CASE i = n + 1
        <5>1. i - 1 = n
          BY <4>2
        <5> QED
          BY <1>1, <2>3, <2>4, <4>1, <4>2, <5>1
      <4>3. CASE i \in 1..n
        BY <1>1, <2>4, <3>1, <4>1, <4>3 DEF FlowInv, ValuesFlow, CallersExecuteTheType
      <4> QED
        BY <2>5, <4>2, <4>3
    <3> QED
      BY <1>1, <2>4, <3>1 DEF CallersExecuteTheType, Current
  <2>8. InitialsArePassedOn'
    <3>1. ASSUME NEW i \in 1..(n + 1)
          PROVE  frames'[i].initial = IF i = 1 THEN NONE ELSE frames'[i - 1].input
      <4>1. i # 1 => frames'[i - 1] = frames[i - 1]
        BY <2>4, <2>6, <3>1
      <4>2. CASE i = n + 1
        <5>1. i - 1 = n /\ i # 1
          BY <4>2
        <5> QED
          BY <1>1, <2>3, <2>4, <4>1, <4>2, <5>1
      <4>3. CASE i \in 1..n
        BY <1>1, <2>4, <3>1, <4>1, <4>3 DEF FlowInv, ValuesFlow, InitialsArePassedOn
      <4> QED
        BY <2>5, <4>2, <4>3
    <3> QED
      BY <2>4, <3>1 DEF InitialsArePassedOn
  <2>9. ValuesAreProduced'
    <3>1. ASSUME NEW i \in 1..(n + 1), NEW k \in 1..(frames'[i].index - 1)
          PROVE  IsProducedBy(i, frames[i].order[k], frames[i].values[frames[i].order[k]])'
      <4>1. CASE i = n + 1
        BY <2>3, <2>4, <3>1, <4>1
      <4>2. CASE i \in 1..n
        BY <1>1, <2>4, <3>1, <4>2, KeepsStored
      <4> QED
        BY <2>5, <4>1, <4>2
    <3> QED
      BY <2>4, <3>1 DEF ValuesAreProduced
  <2>10. OpenNodes' = n
    BY <2>2, <2>4 DEF OpenNodes
  <2>11. InputsAreOfPredecessors'
    <3>1. ASSUME NEW i \in 1..n PROVE ComesFromPredecessor(i, frames[i].input)'
      BY <1>1, <2>4, <3>1, KeepsInput
    <3> QED
      BY <2>10, <3>1 DEF InputsAreOfPredecessors
  <2>12. ResultIsProduced'
    BY <2>2 DEF ResultIsProduced
  <2> QED
    BY <2>7, <2>8, <2>9, <2>11, <2>12 DEF ValuesFlow
<1> QED
  BY <1>2, <1>3

LEMMA ExitFlow ==
    ASSUME AllHealthy, FlowInv, ExitBlock
    PROVE  ValuesFlow'
<1>0. PICK n \in Nat \ {0} : n = Len(frames)
  BY TopFacts DEF FlowInv, RunInv
<1> DEFINE frame == Stored(Top, result.value)
<1>1. /\ ~failed /\ phase = "result" /\ phase' = "next" /\ UNCHANGED <<program, failed>>
      /\ frames' = [frames EXCEPT ![n] = frame]
      /\ stack' = SubSeq(stack, 1, Len(stack) - 1)
  BY <1>0, ExitUndisturbed DEF FlowInv, ExitBlock
<1>2. /\ DOMAIN frames = 1..n /\ frames[n] = Top /\ Top \in Frame /\ frames \in Seq(Frame)
      /\ OpenNodes = n /\ Len(stack) = n /\ stack \in Seq(Blocks)
      /\ Top.index <= Len(Top.order) /\ Current(Top) \in Blocks
  BY <1>0, <1>1, StackFacts, TopFacts DEF FlowInv, RunInv, OpenNodes, Top, Nested, IndexInRange, TypeOK
<1>3. /\ DOMAIN frames' = 1..n /\ Len(frames') = n /\ frames'[n] = frame
      /\ \A i \in 1..n : i # n => frames'[i] = frames[i]
  BY <1>0, <1>1, <1>2
<1>4. /\ frame.container = Top.container /\ frame.order = Top.order
      /\ frame.index = Top.index + 1 /\ Top.index \in Nat
      /\ frame.initial = Top.initial /\ frame.input = Top.input
      /\ frame.values = [Top.values EXCEPT ![Current(Top)] = result.value]
      /\ Current(Top) \in DOMAIN Top.values
  BY <1>2 DEF Frame, Stored
<1> HIDE DEF frame
<1>5. \A i \in 1..n : /\ frames'[i].container = frames[i].container
                      /\ frames'[i].order = frames[i].order
                      /\ frames'[i].initial = frames[i].initial
                      /\ frames'[i].input = frames[i].input
                      /\ i # n => /\ frames'[i].index = frames[i].index
                                  /\ frames'[i].values = frames[i].values
  BY <1>2, <1>3, <1>4
<1>6. \A k \in 1..(n - 1) : stack'[k] = stack[k]
  <2>1. Len(stack) - 1 = n - 1 /\ n - 1 \in 0..Len(stack)
    BY <1>2
  <2> QED
    BY <1>1, <1>2, <2>1
<1>7. OpenNodes' = n - 1
  BY <1>1, <1>3 DEF OpenNodes
<1>8. CallersExecuteTheType' /\ InitialsArePassedOn'
  <2>1. ASSUME NEW i \in 1..n, i # 1
        PROVE  i - 1 \in 1..n /\ i - 1 # n
    BY <2>1
  <2>2. ASSUME NEW i \in 1..n, i # 1
        PROVE  Current(frames'[i - 1]) = Current(frames[i - 1])
    BY <1>3, <2>1, <2>2
  <2>3. CallersExecuteTheType'
    BY <1>1, <1>2, <1>3, <1>5, <2>2 DEF FlowInv, ValuesFlow, CallersExecuteTheType, Current
  <2>4. InitialsArePassedOn'
    BY <1>2, <1>3, <1>5, <2>1 DEF FlowInv, ValuesFlow, InitialsArePassedOn
  <2> QED
    BY <2>3, <2>4
<1>9. ValuesAreProduced'
  <2>1. ASSUME NEW i \in 1..n, NEW k \in 1..(frames'[i].index - 1)
        PROVE  IsProducedBy(i, frames[i].order[k], frames[i].values[frames[i].order[k]])'
    <3>1. \A j \in 1..(i - 1) : stack'[j] = stack[j]
      BY <1>6
    <3>2. CASE i # n
      BY <1>1, <1>2, <1>5, <2>1, <3>1, <3>2, KeepsStored
    <3>3. CASE i = n
      <4>1. PICK block, value : block = Top.order[k] /\ value = frames'[n].values[block]
        OBVIOUS
      <4>2. k \in DOMAIN Top.order /\ (k = Top.index \/ k < Top.index)
        BY <1>2, <1>3, <1>4, <2>1, <3>3, TopPosition DEF FlowInv
      <4>5. IsProducedBy(n, block, value)
        <5>1. CASE k = Top.index
          <6>1. block = Current(Top) /\ value = result.value
            BY <1>3, <1>4, <4>1, <5>1 DEF Current
          <6> QED
            BY <1>1, <1>2, <6>1 DEF FlowInv, ValuesFlow, ResultIsProduced
        <5>2. CASE k < Top.index
          <6>1. block # Current(Top)
            BY <1>2, <4>1, <4>2, <5>2, TopPosition DEF FlowInv, Current
          <6>2. Top.values \in [Blocks -> Value] /\ block \in Blocks
            BY <1>2, <4>1, <4>2 DEF Frame
          <6>3. value = Top.values[block]
            BY <1>3, <1>4, <4>1, <6>1, <6>2
          <6> QED
            BY <1>0, <1>1, <4>1, <4>2, <5>2, <6>3, StoredIsProduced
        <5> QED
          BY <4>2, <5>1, <5>2
      <4>6. IsProducedBy(n, block, value)'
        BY <1>1, <1>6, <4>5, KeepsProduced
      <4>7. frames'[n].order[k] = block /\ frames'[n].values[block] = value
        BY <1>2, <1>5, <4>1
      <4> QED
        BY <3>3, <4>6, <4>7 DEF IsProducedBy
    <3> QED
      BY <3>2, <3>3
  <2> QED
    BY <1>3, <2>1 DEF ValuesAreProduced
<1>10. InputsAreOfPredecessors'
  <2>1. ASSUME NEW i \in 1..(n - 1) PROVE ComesFromPredecessor(i, frames[i].input)'
    <3>1. i \in 1..OpenNodes /\ i \in 1..n /\ \A j \in 1..i : stack'[j] = stack[j]
      BY <1>2, <1>6
    <3> QED
      BY <1>1, <1>5, <3>1, KeepsInput
  <2> QED
    BY <1>7, <2>1 DEF InputsAreOfPredecessors
<1>11. ResultIsProduced'
  BY <1>1 DEF ResultIsProduced
<1> QED
  BY <1>8, <1>9, <1>10, <1>11 DEF ValuesFlow

(* A composite block emits what the last block of its type has produced. *)
LEMMA FinishFlow ==
    ASSUME AllHealthy, FlowInv, FinishBlocks
    PROVE  ValuesFlow'
<1>0. PICK n \in Nat \ {0} : n = Len(frames)
  BY TopFacts DEF FlowInv, RunInv
<1>1. /\ ~failed /\ phase = "next" /\ UNCHANGED <<program, stack>>
      /\ Top.index > Len(Top.order)
      /\ DOMAIN frames = 1..n /\ frames[n] = Top /\ Top \in Frame
      /\ OpenNodes = n - 1 /\ Len(stack) = n - 1
      /\ \A i \in 1..(n - 1) : stack[i] = Current(frames[i])
      /\ program \in Programs
  BY <1>0, StackFacts, TopFacts DEF FlowInv, RunInv, FinishBlocks, Top, OpenNodes, TypeOK
<1>2. CASE Top.container = PIPELINE
  <2>1. UNCHANGED <<frames, failed>> /\ phase' = "done"
    BY <1>2 DEF FinishBlocks
  <2>2. OpenNodes' = OpenNodes /\ ResultIsProduced'
    BY <1>1, <2>1 DEF OpenNodes, ResultIsProduced
  <2> QED
    BY <1>1, <2>1, <2>2, QuietFlow
<1>3. CASE Top.container # PIPELINE
  <2> DEFINE last == program.output[Top.container]
  <2>1. /\ frames' = SubSeq(frames, 1, Len(frames) - 1)
        /\ scopes' = SubSeq(scopes, 1, Len(scopes) - 1)
        /\ phase' = "result"
    BY <1>3 DEF FinishBlocks, ReturnToCaller
  <2>2. result' = Ok(Top.values[last]) /\ last \in Members(Top.order)
    BY <1>3, FinishUndisturbed DEF FlowInv
  <2>3. n # 1
    BY <1>0, <1>3, FrameFacts DEF FlowInv, RunInv
  <2>4. /\ Len(frames') = n - 1 /\ DOMAIN frames' = 1..(n - 1)
        /\ \A i \in 1..(n - 1) : frames'[i] = frames[i] /\ i \in DOMAIN frames
    BY <1>0, <1>1, <2>1, <2>3, PopFrameType DEF FlowInv, RunInv
  <2>5. OpenNodes' = n - 1
    BY <2>1, <2>4 DEF OpenNodes
  <2>6. \A i \in 1..(n - 1) : i # 1 => i - 1 \in 1..(n - 1)
    OBVIOUS
  <2>7. CallersExecuteTheType' /\ InitialsArePassedOn'
    <3>1. CallersExecuteTheType'
      BY <1>1, <2>4, <2>6 DEF FlowInv, ValuesFlow, CallersExecuteTheType, Current
    <3>2. InitialsArePassedOn'
      BY <2>4, <2>6 DEF FlowInv, ValuesFlow, InitialsArePassedOn
    <3> QED
      BY <3>1, <3>2
  <2>8. ValuesAreProduced'
    <3>1. ASSUME NEW i \in 1..(n - 1), NEW k \in 1..(frames[i].index - 1)
          PROVE  IsProducedBy(i, frames[i].order[k], frames[i].values[frames[i].order[k]])'
      BY <1>1, <2>4, <3>1, KeepsStored
    <3> QED
      BY <2>4, <3>1 DEF ValuesAreProduced
  <2>9. InputsAreOfPredecessors'
    <3>1. ASSUME NEW i \in 1..(n - 1) PROVE ComesFromPredecessor(i, frames[i].input)'
      BY <1>1, <2>4, <3>1, KeepsInput
    <3> QED
      BY <2>5, <3>1 DEF InputsAreOfPredecessors
  <2>10. ResultIsProduced'
    <3>1. PICK value : value = Top.values[last]
      OBVIOUS
    <3>2. PICK m \in Nat \ {0} : m = n - 1
      BY <2>3
    <3>3. PICK caller : caller = Current(frames[m])
      OBVIOUS
    <3>4. PICK k \in DOMAIN Top.order : Top.order[k] = last
      BY <2>2 DEF Members
    <3>5. k < Top.index
      BY <1>1, <3>4 DEF Frame
    <3>6. IsProducedBy(n, last, value)
      BY <1>0, <1>1, <3>1, <3>4, <3>5, StoredIsProduced
    <3>7. program.type[caller] = Top.container /\ Top.container # BUILTIN
      <4>1. n \in DOMAIN frames /\ n # 1 /\ m = n - 1
        BY <1>1, <2>3, <3>2
      <4>2. Top.container \in CompositeTypes
        BY <1>1, <1>3 DEF Frame, Containers
      <4> QED
        BY <1>1, <3>3, <4>1, <4>2, MarkersAssumption DEF FlowInv, ValuesFlow, CallersExecuteTheType
    <3>8. IsProducedBy(m, caller, value)
      <4>1. /\ value \notin {NONE, NULL} /\ Len(value) >= n /\ value[n] = last
            /\ \A j \in 1..(n - 1) : value[j] = stack[j]
            /\ \A j \in n..(Len(value) - 1) :
                  /\ program.type[value[j]] # BUILTIN
                  /\ value[j + 1] = program.output[program.type[value[j]]]
            /\ program.type[value[Len(value)]] = BUILTIN
        BY <3>6 DEF IsProducedBy
      <4>2. Len(value) >= m /\ value[m] = caller
        <5>1. m \in 1..(n - 1)
          BY <3>2
        <5> QED
          BY <1>1, <3>2, <3>3, <4>1, <5>1
      <4>3. \A j \in 1..(m - 1) : value[j] = stack[j]
        BY <3>2, <4>1
      <4>4. ASSUME NEW j \in m..(Len(value) - 1)
            PROVE  /\ program.type[value[j]] # BUILTIN
                   /\ value[j + 1] = program.output[program.type[value[j]]]
        <5>1. CASE j = m
          <6>1. j + 1 = n
            BY <3>2, <5>1
          <6> QED
            BY <3>7, <4>1, <4>2, <5>1, <6>1
        <5>2. CASE j # m
          <6>1. j \in n..(Len(value) - 1)
            BY <3>2, <5>2
          <6> QED
            BY <4>1, <6>1
        <5> QED
          BY <5>1, <5>2
      <4> QED
        BY <4>1, <4>2, <4>3, <4>4 DEF IsProducedBy
    <3>9. IsProducedBy(m, caller, value)'
      BY <1>1, <3>8, KeepsProduced
    <3>10. Len(stack') = m /\ Current(Top)' = caller /\ result'.value = value
      <4>1. Top' = frames[m]
        BY <2>4, <3>2 DEF Top
      <4>2. Current(Top)' = Current(frames[m])
        BY <4>1 DEF Current
      <4> QED
        BY <1>1, <2>2, <3>1, <3>2, <3>3, <4>2 DEF Ok
    <3>11. IsProducedBy(Len(stack), Current(Top), result.value)'
      BY <3>9, <3>10 DEF IsProducedBy
    <3> QED
      BY <3>11 DEF ResultIsProduced
  <2> QED
    BY <2>7, <2>8, <2>9, <2>10 DEF ValuesFlow
<1> QED
  BY <1>2, <1>3

LEMMA FailFlow ==
    ASSUME AllHealthy, FlowInv, FailBlocks
    PROVE  ValuesFlow'
<1>1. /\ UNCHANGED <<program, frames, stack, failed>> /\ phase = "result" /\ phase' = "done"
      /\ failed
  BY FailUndisturbed DEF FlowInv, FailBlocks, RunInv, Unwinding, ErrorIsFailure
<1>2. CallersExecuteTheType' /\ InitialsArePassedOn'
  BY <1>1 DEF FlowInv, ValuesFlow, CallersExecuteTheType, InitialsArePassedOn, Current
<1> QED
  BY <1>1, <1>2 DEF ValuesFlow, ValuesAreProduced, ResultIsProduced, InputsAreOfPredecessors

LEMMA ValuesFlowStep ==
    AllHealthy /\ AllSingleStart /\ FlowInv /\ [Next]_vars => ValuesFlow'
<1> SUFFICES ASSUME AllHealthy, AllSingleStart, FlowInv, [Next]_vars PROVE ValuesFlow'
  OBVIOUS
<1>1. CASE UNCHANGED vars
  <2>1. UNCHANGED <<program, frames, stack, phase, result, failed>>
    BY <1>1 DEF vars
  <2>2. OpenNodes' = OpenNodes
    BY <2>1 DEF OpenNodes
  <2>3. ResultIsProduced'
    BY <2>1 DEF FlowInv, ValuesFlow, ResultIsProduced, IsProducedBy, Top, Current
  <2> QED
    BY <2>1, <2>2, <2>3, QuietFlow
<1>2. ~NoExecutor
  BY HealthyFacts DEF FlowInv, RunInv, TypeOK
<1> QED
  BY <1>1, <1>2, EnterFlow, BuiltinFlow, BindFlow, CallFlow, ExitFlow, FinishFlow, FailFlow DEF Next

(* In healthy programs whose composite types have a single first block, and *)
(* whose executors emit values: a built-in block gets the value of the      *)
(* block before it in the pipeline in which every composite block is        *)
(* replaced by the blocks it holds, at any depth.                           *)
THEOREM InputComesFromPredecessorHolds ==
    AllHealthy /\ AllSingleStart => (Spec => []InputComesFromPredecessor)
<1> SUFFICES ASSUME AllHealthy, AllSingleStart PROVE Spec => []InputComesFromPredecessor
  OBVIOUS
<1>1. Init => ValuesFlow
  BY ValuesFlowInit
<1>2. RunInv /\ Undisturbed /\ ValuesFlow /\ [Next]_vars => ValuesFlow'
  BY ValuesFlowStep DEF FlowInv
<1>3. Spec => [](RunInv /\ Undisturbed)
  BY UndisturbedInvariant
<1>4. ASSUME RunInv, ValuesFlow PROVE InputComesFromPredecessor
  <2>1. ASSUME phase = "execute", ~failed
        PROVE  ComesFromPredecessor(Len(stack), Top.input)
    <3>1. OpenNodes = Len(frames) /\ Top = frames[Len(frames)]
      BY <2>1 DEF OpenNodes, Top
    <3>2. Len(stack) = OpenNodes /\ Len(frames) \in 1..OpenNodes
      BY <1>4, <2>1, <3>1, StackFacts DEF RunInv
    <3> QED
      BY <1>4, <2>1, <3>1, <3>2 DEF ValuesFlow, InputsAreOfPredecessors
  <2> QED
    BY <2>1 DEF InputComesFromPredecessor
<1> QED
  BY <1>1, <1>2, <1>3, <1>4, PTL DEF Spec

=============================================================================
