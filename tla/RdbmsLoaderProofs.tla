-------------------------- MODULE RdbmsLoaderProofs --------------------------
(***************************************************************************)
(* Proofs about RdbmsLoader, for any number of loaders, tables and layouts: *)
(* type correctness, that connections are closed, and what may be found in *)
(* a table if statements fail on the PostgreSQL side only.                 *)
(***************************************************************************)
EXTENDS RdbmsLoader, SequenceTheorems, TLAPS

Step == {"start", "drop", "create", "insert", "close", "done"}

-----------------------------------------------------------------------------
(* Types, and the connections *)

LEMMA JobTypes ==
    ASSUME TypeOK, NEW l \in Loaders
    PROVE  /\ job[l] \in Job
           /\ TableOf(l) \in Tables
           /\ job[l].layout \in Layouts
           /\ job[l].database \in {"postgres", "sqlite"}
BY LoaderAssumption DEF TypeOK, Job, TableOf

LEMMA ContentTypes ==
    /\ \A layout \in Layouts : [layout |-> layout, rows |-> << >>] \in Content
    /\ \A content \in Content, l \in Loaders :
          /\ Inserted(content, l) \in Content
          /\ Inserted(content, l).layout = content.layout
          /\ Inserted(content, l).rows = Append(content.rows, l)
    /\ {NOTABLE} \cup [layout : Layouts, rows : {<<OLD>>}]
          \subseteq {NOTABLE} \cup Content
<1>1. << >> \in Seq(Loaders \cup {OLD}) /\ <<OLD>> \in Seq(Loaders \cup {OLD})
  OBVIOUS
<1>2. ASSUME NEW content \in Content, NEW l \in Loaders
      PROVE  /\ Inserted(content, l) \in Content
             /\ Inserted(content, l).layout = content.layout
             /\ Inserted(content, l).rows = Append(content.rows, l)
  <2>1. Append(content.rows, l) \in Seq(Loaders \cup {OLD})
    BY AppendProperties DEF Content
  <2> QED
    BY <2>1 DEF Inserted, Content
<1>3. \A layout \in Layouts : [layout |-> layout, rows |-> << >>] \in Content
  BY <1>1 DEF Content
<1>4. [layout : Layouts, rows : {<<OLD>>}] \subseteq Content
  BY <1>1 DEF Content
<1> QED
  BY <1>2, <1>3, <1>4

(* What an answer does to the loader that awaits it. *)
LEMMA AnswerType ==
    ASSUME TypeOK, NEW l \in Loaders, NEW ok \in BOOLEAN,
           NEW next \in {"create", "insert", "close"}, Answer(l, ok, next)
    PROVE  /\ \E s \in {"create", "insert", "close"} : step' = [step EXCEPT ![l] = s]
           /\ result' \in [Loaders -> {"none", "ok", "err"}]
           /\ \A m \in Loaders \ {l} : result'[m] = result[m]
           /\ result'[l] # "ok" \/ result'[l] = result[l] \/ step'[l] = "close"
BY DEF Answer, PostgresAnswer, SqliteAnswer, TypeOK

LEMMA ExecuteType ==
    ASSUME TypeOK, NEW l \in Loaders, NEW content \in {NOTABLE} \cup Content,
           NEW next \in {"create", "insert", "close"}, Execute(l, content, next)
    PROVE  /\ stored' \in [Tables -> {NOTABLE} \cup Content]
           /\ stored' \in {stored, [stored EXCEPT ![TableOf(l)] = content]}
           /\ \E ok \in BOOLEAN : Answer(l, ok, next)
           /\ UNCHANGED <<job, connection, overlapped>>
BY JobTypes DEF Execute, TypeOK

(* A loader has no connection before its first step, none that is open      *)
(* after its last.                                                         *)
ConnectionFollowsStep ==
    /\ ConnectionsAreClosed
    /\ \A l \in Loaders : step[l] = "start" => connection[l] = "none"

LEMMA TypeInit == Init => TypeOK /\ ConnectionFollowsStep
<1> SUFFICES ASSUME Init PROVE TypeOK /\ ConnectionFollowsStep
  OBVIOUS
<1>1. stored \in [Tables -> {NOTABLE} \cup Content]
  BY ContentTypes DEF Init
<1> QED
  BY <1>1 DEF Init, TypeOK, ConnectionFollowsStep, ConnectionsAreClosed

LEMMA StartType ==
    ASSUME TypeOK, NEW l \in Loaders, Start(l)
    PROVE  overlapped' \subseteq Loaders \X Loaders
BY DEF TypeOK, Start

LEMMA StatementType ==
    ASSUME TypeOK, NEW l \in Loaders, DropTable(l) \/ CreateTable(l) \/ InsertValues(l)
    PROVE  /\ TypeOK'
           /\ \E s \in {"create", "insert", "close"} : step' = [step EXCEPT ![l] = s]
           /\ UNCHANGED <<job, connection, overlapped>>
<1>1. CASE DropTable(l)
  BY <1>1, ExecuteType, AnswerType DEF DropTable, TypeOK
<1>2. CASE CreateTable(l)
  <2>1. Created(stored[TableOf(l)], job[l].layout) \in {NOTABLE} \cup Content
    BY JobTypes, ContentTypes DEF Created, TypeOK
  <2> QED
    BY <1>2, <2>1, ExecuteType, AnswerType DEF CreateTable, TypeOK
<1>3. CASE InsertValues(l)
  <2>1. CASE CanInsert(stored[TableOf(l)], job[l])
    <3>1. Inserted(stored[TableOf(l)], l) \in Content
      BY <2>1, JobTypes, ContentTypes DEF CanInsert, TypeOK
    <3> QED
      BY <1>3, <2>1, <3>1, ExecuteType, AnswerType DEF InsertValues, TypeOK
  <2>2. CASE ~CanInsert(stored[TableOf(l)], job[l])
    <3>1. Answer(l, FALSE, "close") /\ UNCHANGED <<job, stored, connection, inserted, overlapped>>
      BY <1>3, <2>2 DEF InsertValues
    <3>2. PICK s \in {"create", "insert", "close"} : step' = [step EXCEPT ![l] = s]
      BY <3>1, AnswerType
    <3>3. result' \in [Loaders -> {"none", "ok", "err"}]
      BY <3>1, AnswerType
    <3> QED
      BY <3>1, <3>2, <3>3 DEF TypeOK
  <2> QED
    BY <2>1, <2>2
<1> QED
  BY <1>1, <1>2, <1>3

LEMMA TypeStep ==
    ASSUME TypeOK, ConnectionFollowsStep, [Next]_vars
    PROVE  TypeOK' /\ ConnectionFollowsStep'
<1> USE DEF ConnectionFollowsStep, ConnectionsAreClosed
<1>1. ASSUME NEW l \in Loaders, PostgresConnect(l)
      PROVE  TypeOK' /\ ConnectionFollowsStep'
  BY <1>1, StartType DEF PostgresConnect, TypeOK
<1>2. ASSUME NEW l \in Loaders, SqliteOpen(l)
      PROVE  TypeOK' /\ ConnectionFollowsStep'
  BY <1>2, StartType DEF SqliteOpen, TypeOK
<1>3. ASSUME NEW l \in Loaders, DropTable(l) \/ CreateTable(l) \/ InsertValues(l)
      PROVE  TypeOK' /\ ConnectionFollowsStep'
  <2>1. PICK s \in {"create", "insert", "close"} : step' = [step EXCEPT ![l] = s]
    BY <1>3, StatementType
  <2>2. TypeOK' /\ connection' = connection /\ step[l] \in {"drop", "create", "insert"}
    BY <1>3, StatementType DEF DropTable, CreateTable, InsertValues
  <2>3. step'[l] = s /\ \A m \in Loaders \ {l} : step'[m] = step[m]
    BY <2>1 DEF TypeOK
  <2> QED
    BY <2>2, <2>3
<1>4. ASSUME NEW l \in Loaders, PostgresEnd(l)
      PROVE  TypeOK' /\ ConnectionFollowsStep'
  BY <1>4 DEF PostgresEnd, TypeOK
<1>5. ASSUME NEW l \in Loaders, SqliteClose(l)
      PROVE  TypeOK' /\ ConnectionFollowsStep'
  BY <1>5 DEF SqliteClose, TypeOK
<1>6. CASE UNCHANGED vars
  BY <1>6 DEF vars, TypeOK
<1> QED
  BY <1>1, <1>2, <1>3, <1>4, <1>5, <1>6 DEF Next, Advance

(* Every variable keeps its type, whatever fails. *)
THEOREM RdbmsLoaderTypeCorrect == Spec => []TypeOK
<1>1. Init => TypeOK /\ ConnectionFollowsStep
  BY TypeInit
<1>2. TypeOK /\ ConnectionFollowsStep /\ [Next]_vars => TypeOK' /\ ConnectionFollowsStep'
  BY TypeStep
<1> QED
  BY <1>1, <1>2, PTL DEF Spec

(* A loader that has ended leaves no connection open, whatever failed. *)
THEOREM ConnectionsAreClosedHolds == Spec => []ConnectionsAreClosed
<1>1. Init => TypeOK /\ ConnectionFollowsStep
  BY TypeInit
<1>2. TypeOK /\ ConnectionFollowsStep /\ [Next]_vars => TypeOK' /\ ConnectionFollowsStep'
  BY TypeStep
<1>3. ConnectionFollowsStep => ConnectionsAreClosed
  BY DEF ConnectionFollowsStep
<1> QED
  BY <1>1, <1>2, <1>3, PTL DEF Spec

-----------------------------------------------------------------------------
(* What a step of one loader does to the others *)

LEMMA OthersStay ==
    ASSUME TypeOK, NEW l \in Loaders, Advance(l)
    PROVE  /\ job' = job
           /\ step[l] # "done" /\ step'[l] # "start"
           /\ \A m \in Loaders \ {l} : step'[m] = step[m] /\ result'[m] = result[m]
           /\ \A t \in Tables \ {TableOf(l)} : stored'[t] = stored[t]
           /\ IF step[l] = "start" THEN Start(l) ELSE overlapped' = overlapped
<1>1. CASE PostgresConnect(l) \/ SqliteOpen(l)
  BY <1>1 DEF PostgresConnect, SqliteOpen, TypeOK
<1>2. CASE DropTable(l) \/ CreateTable(l) \/ InsertValues(l)
  <2>1. PICK s \in {"create", "insert", "close"} : step' = [step EXCEPT ![l] = s]
    BY <1>2, StatementType
  <2>2. \A t \in Tables \ {TableOf(l)} : stored'[t] = stored[t]
    BY <1>2 DEF DropTable, CreateTable, InsertValues, Execute, TypeOK
  <2>3. \E ok \in BOOLEAN, next \in {"create", "insert", "close"} : Answer(l, ok, next)
    BY <1>2 DEF DropTable, CreateTable, InsertValues, Execute
  <2>4. \A m \in Loaders \ {l} : result'[m] = result[m]
    BY <2>3, AnswerType
  <2>5. step[l] \in {"drop", "create", "insert"}
    BY <1>2 DEF DropTable, CreateTable, InsertValues
  <2>6. UNCHANGED <<job, overlapped>>
    BY <1>2, StatementType
  <2>7. step'[l] = s /\ \A m \in Loaders \ {l} : step'[m] = step[m]
    BY <2>1 DEF TypeOK
  <2> QED
    BY <2>2, <2>4, <2>5, <2>6, <2>7
<1>3. CASE PostgresEnd(l) \/ SqliteClose(l)
  BY <1>3 DEF PostgresEnd, SqliteClose, TypeOK
<1> QED
  BY <1>1, <1>2, <1>3 DEF Advance

(* Rows come by an INSERT only, and are those of the loader. *)
LEMMA RowsAreInserted ==
    ASSUME TypeOK, NEW l \in Loaders, Advance(l), NEW t \in Tables, NEW x, Holds(t, x)'
    PROVE  Holds(t, x) \/ (x = l /\ t = TableOf(l) /\ step[l] = "insert")
<1>1. CASE stored'[t] = stored[t]
  BY <1>1 DEF Holds
<1>2. CASE stored'[t] # stored[t]
  <2>1. t = TableOf(l)
    BY <1>2, OthersStay
  <2>2. DropTable(l) \/ CreateTable(l) \/ InsertValues(l)
    BY <1>2 DEF Advance, PostgresConnect, SqliteOpen, PostgresEnd, SqliteClose
  <2>3. stored'[t] # NOTABLE
    BY DEF Holds
  <2>4. CASE DropTable(l)
    BY <1>2, <2>1, <2>3, <2>4 DEF DropTable, Execute, TypeOK
  <2>5. CASE CreateTable(l)
    <3>1. stored'[t] = Created(stored[t], job[l].layout)
      BY <1>2, <2>1, <2>5 DEF CreateTable, Execute, TypeOK
    <3>2. stored'[t].rows = << >>
      BY <1>2, <3>1 DEF Created
    <3> QED
      BY <3>2 DEF Holds
  <2>6. CASE InsertValues(l)
    <3>1. /\ stored'[t] = Inserted(stored[t], l)
          /\ stored[t] # NOTABLE /\ step[l] = "insert"
      BY <1>2, <2>1, <2>6 DEF InsertValues, Execute, CanInsert, TypeOK
    <3>2. stored[t] \in Content
      BY <3>1 DEF TypeOK
    <3>3. stored'[t].rows = Append(stored[t].rows, l) /\ stored[t].rows \in Seq(Loaders \cup {OLD})
      BY <3>1, <3>2, ContentTypes DEF Content
    <3>4. PICK i \in DOMAIN stored'[t].rows : stored'[t].rows[i] = x
      BY DEF Holds
    <3>5. x = l \/ (i \in DOMAIN stored[t].rows /\ stored[t].rows[i] = x)
      BY <3>3, <3>4
    <3> QED
      BY <2>1, <3>1, <3>5 DEF Holds
  <2> QED
    BY <2>2, <2>4, <2>5, <2>6
<1> QED
  BY <1>1, <1>2

(* A loader that drops its table gets past the DROP when the table is gone. *)
PastDrop(l) == Drops(job[l]) /\ step[l] \in {"create", "insert"}

LEMMA DropEmpties ==
    ASSUME TypeOK, "sqlite" \notin MayFail, NEW l \in Loaders, Advance(l), PastDrop(l)'
    PROVE  PastDrop(l) \/ \A x : ~Holds(TableOf(l), x)'
<1>1. /\ Drops(job[l]) /\ job' = job
      /\ step'[l] \in {"create", "insert"}
  BY OthersStay DEF PastDrop
<1>2. CASE PostgresConnect(l) \/ SqliteOpen(l)
  BY <1>1, <1>2 DEF PostgresConnect, SqliteOpen, Drops, TypeOK
<1>3. CASE DropTable(l)
  <2>1. ~ (Failing(l) /\ job[l].database = "sqlite")
    BY DEF Failing
  <2>2. job[l].database \in {"postgres", "sqlite"} /\ TableOf(l) \in Tables
    BY JobTypes
  <2>3. stored'[TableOf(l)] = NOTABLE
    BY <1>1, <1>3, <2>1, <2>2
    DEF DropTable, Execute, Answer, PostgresAnswer, TypeOK
  <2>4. TableOf(l)' = TableOf(l)
    BY <1>1 DEF TableOf
  <2> QED
    BY <2>3, <2>4 DEF Holds
<1>4. CASE CreateTable(l) \/ InsertValues(l)
  BY <1>1, <1>4 DEF CreateTable, InsertValues, PastDrop
<1>5. CASE PostgresEnd(l) \/ SqliteClose(l)
  BY <1>1, <1>5 DEF PostgresEnd, SqliteClose, TypeOK
<1> QED
  BY <1>2, <1>3, <1>4, <1>5 DEF Advance

-----------------------------------------------------------------------------
(* Whose rows are found together *)

(* A table of which every loader drops it. *)
AllDrop(t) == \A l \in Loaders : TableOf(l) = t => Drops(job[l])

(* Once a loader is past its DROP, the rows from before are gone for good. *)
OldRowsAreDropped ==
    \A l \in Loaders :
        AllDrop(TableOf(l)) /\ PastDrop(l) => ~Holds(TableOf(l), OLD)

(* overlapped is what its name says, and symmetric. *)
OverlapsAreKnown ==
    /\ \A l, m \in Loaders : l # m /\ Running(l) /\ Running(m) => <<l, m>> \in overlapped
    /\ \A l, m \in Loaders : <<l, m>> \in overlapped => <<m, l>> \in overlapped

(* A table holds rows of its loaders, and while one of them is past its     *)
(* DROP no rows of a loader that did not run beside it.                    *)
RowsBesideAreOverlaps ==
    /\ \A t \in Tables, l \in Loaders : Holds(t, l) => t = TableOf(l)
    /\ \A l, m \in Loaders :
          /\ l # m /\ TableOf(l) = TableOf(m)
          /\ PastDrop(m) /\ Holds(TableOf(m), l)
          => <<l, m>> \in overlapped

MixInvariant ==
    /\ NothingMixesWithOldRows /\ OldRowsAreDropped
    /\ OverlapsAreKnown /\ RowsBesideAreOverlaps /\ OnlyConcurrentLoadsMix

LEMMA OldRowsStep ==
    ASSUME TypeOK, "sqlite" \notin MayFail, MixInvariant, NEW a \in Loaders, Advance(a)
    PROVE  NothingMixesWithOldRows' /\ OldRowsAreDropped'
<1>1. /\ job' = job
      /\ \A l \in Loaders : TableOf(l)' = TableOf(l) /\ TableOf(l) \in Tables
      /\ \A t \in Tables : AllDrop(t)' = AllDrop(t)
      /\ \A l \in Loaders \ {a} : PastDrop(l)' = PastDrop(l)
  BY OthersStay, JobTypes DEF TableOf, AllDrop, PastDrop
<1>2. \A t \in Tables : Holds(t, OLD)' => Holds(t, OLD)
  BY RowsAreInserted, LoaderAssumption
<1>3. ASSUME NEW t \in Tables, AllDrop(t)', NEW l \in Loaders, Holds(t, OLD)', Holds(t, l)'
      PROVE  FALSE
  <2>1. AllDrop(t) /\ Holds(t, OLD)
    BY <1>1, <1>2, <1>3
  <2>2. l = a /\ t = TableOf(a) /\ step[a] = "insert"
    <3>1. ~Holds(t, l)
      BY <2>1 DEF MixInvariant, NothingMixesWithOldRows, AllDrop
    <3> QED
      BY <1>3, <3>1, RowsAreInserted
  <2>3. PastDrop(a)
    BY <2>1, <2>2 DEF AllDrop, PastDrop
  <2> QED
    BY <2>1, <2>2, <2>3 DEF MixInvariant, OldRowsAreDropped
<1>4. NothingMixesWithOldRows'
  BY <1>3 DEF NothingMixesWithOldRows, AllDrop
<1>5. ASSUME NEW l \in Loaders, AllDrop(TableOf(l))', PastDrop(l)'
      PROVE  ~Holds(TableOf(l), OLD)'
  <2>1. CASE PastDrop(l)
    BY <1>1, <1>2, <1>5, <2>1 DEF MixInvariant, OldRowsAreDropped
  <2>2. CASE ~PastDrop(l)
    <3>1. l = a
      BY <1>1, <1>5, <2>2
    <3> QED
      BY <1>5, <2>2, <3>1, DropEmpties
  <2> QED
    BY <2>1, <2>2
<1>6. OldRowsAreDropped'
  BY <1>5 DEF OldRowsAreDropped
<1> QED
  BY <1>4, <1>6

LEMMA OverlapsStep ==
    ASSUME TypeOK, OverlapsAreKnown, NEW a \in Loaders, Advance(a)
    PROVE  OverlapsAreKnown' /\ overlapped \subseteq overlapped'
<1>1. /\ step[a] # "done" /\ step'[a] # "start"
      /\ \A l \in Loaders \ {a} : Running(l)' = Running(l)
      /\ Running(a)' => step[a] = "start" \/ Running(a)
  BY OthersStay DEF Running
<1>2. CASE step[a] = "start"
  <2>1. overlapped' = overlapped \cup {<<a, m>> : m \in {n \in Loaders : Running(n)}}
                                 \cup {<<m, a>> : m \in {n \in Loaders : Running(n)}}
    BY <1>2, OthersStay DEF Start
  <2>2. \A l \in Loaders \ {a} : Running(l) => <<l, a>> \in overlapped' /\ <<a, l>> \in overlapped'
    BY <2>1
  <2>3. \A l, m \in Loaders : l # m /\ Running(l)' /\ Running(m)' => <<l, m>> \in overlapped'
    BY <1>1, <2>1, <2>2 DEF OverlapsAreKnown
  <2>4. \A l, m \in Loaders : <<l, m>> \in overlapped' => <<m, l>> \in overlapped'
    BY <2>1 DEF OverlapsAreKnown
  <2> QED
    BY <2>1, <2>2, <2>3, <2>4 DEF OverlapsAreKnown
<1>3. CASE step[a] # "start"
  <2>1. overlapped' = overlapped
    BY <1>3, OthersStay
  <2>2. Running(a)
    BY <1>1, <1>3 DEF Running
  <2> QED
    BY <1>1, <2>1, <2>2 DEF OverlapsAreKnown
<1> QED
  BY <1>2, <1>3

LEMMA MixStep ==
    ASSUME TypeOK, "sqlite" \notin MayFail, MixInvariant, NEW a \in Loaders, Advance(a)
    PROVE  OnlyConcurrentLoadsMix' /\ RowsBesideAreOverlaps'
<1>1. /\ job' = job
      /\ \A l \in Loaders : TableOf(l)' = TableOf(l) /\ TableOf(l) \in Tables
      /\ \A l \in Loaders \ {a} : PastDrop(l)' = PastDrop(l)
      /\ \A l \in Loaders : PastDrop(l) => Running(l)
  BY OthersStay, JobTypes DEF TableOf, PastDrop, Running
<1>2. /\ overlapped \subseteq overlapped'
      /\ \A l, m \in Loaders : <<l, m>> \in overlapped' => <<m, l>> \in overlapped'
  BY OverlapsStep DEF MixInvariant, OverlapsAreKnown
<1>3. ASSUME NEW t \in Tables, NEW l \in Loaders, Holds(t, l)'
      PROVE  /\ t = TableOf(l)
             /\ Holds(t, l) \/ (l = a /\ step[a] = "insert")
  BY <1>3, RowsAreInserted DEF MixInvariant, RowsBesideAreOverlaps
<1>4. ASSUME NEW l \in Loaders, NEW m \in Loaders, l # m, TableOf(l) = TableOf(m),
             PastDrop(m)', Holds(TableOf(m), l)'
      PROVE  <<l, m>> \in overlapped'
  <2>1. CASE PastDrop(m) /\ Holds(TableOf(m), l)
    BY <1>2, <1>4, <2>1 DEF MixInvariant, RowsBesideAreOverlaps
  <2>2. CASE ~PastDrop(m)
    <3>1. m = a
      BY <1>1, <1>4, <2>2
    <3> QED
      BY <1>1, <1>4, <2>2, <3>1, DropEmpties
  <2>3. CASE PastDrop(m) /\ ~Holds(TableOf(m), l)
    <3>1. l = a /\ Running(a)
      BY <1>1, <1>3, <1>4, <2>3 DEF Running
    <3> QED
      BY <1>1, <1>2, <1>4, <2>3, <3>1 DEF MixInvariant, OverlapsAreKnown
  <2> QED
    BY <2>1, <2>2, <2>3
<1>5. RowsBesideAreOverlaps'
  BY <1>1, <1>3, <1>4 DEF RowsBesideAreOverlaps
<1>6. ASSUME NEW l \in Loaders, NEW m \in Loaders, l # m, Drops(job[l]), Drops(job[m]),
             Holds(TableOf(l), l)', Holds(TableOf(l), m)'
      PROVE  <<l, m>> \in overlapped'
  <2>1. TableOf(l) = TableOf(m)
    BY <1>1, <1>3, <1>6
  <2>2. CASE Holds(TableOf(l), l) /\ Holds(TableOf(l), m)
    BY <1>2, <1>6, <2>2 DEF MixInvariant, OnlyConcurrentLoadsMix
  <2>3. CASE ~Holds(TableOf(l), l)
    <3>1. l = a /\ PastDrop(l)
      BY <1>1, <1>3, <1>6, <2>3 DEF PastDrop
    <3>2. Holds(TableOf(l), m)
      BY <1>1, <1>3, <1>6, <3>1
    <3> QED
      BY <1>2, <1>6, <2>1, <3>1, <3>2 DEF MixInvariant, RowsBesideAreOverlaps
  <2>4. CASE ~Holds(TableOf(l), m)
    <3>1. m = a /\ PastDrop(m)
      BY <1>1, <1>3, <1>6, <2>4 DEF PastDrop
    <3>2. Holds(TableOf(m), l)
      BY <1>1, <1>3, <1>6, <2>1, <3>1
    <3> QED
      BY <1>2, <1>6, <2>1, <3>1, <3>2 DEF MixInvariant, RowsBesideAreOverlaps
  <2> QED
    BY <2>2, <2>3, <2>4
<1>7. OnlyConcurrentLoadsMix'
  BY <1>1, <1>6 DEF OnlyConcurrentLoadsMix
<1> QED
  BY <1>5, <1>7

-----------------------------------------------------------------------------
(* What a success means *)

HasTheTable(l) ==
    \A m \in Loaders \ {l} : TableOf(m) = TableOf(l) => step[m] = "start"

(* How far a PostgresLoader has come; what it has done to a table it has    *)
(* for itself.                                                             *)
Follows(l) ==
    /\ step[l] \in {"start", "drop", "create", "insert"} => result[l] # "ok"
    /\ HasTheTable(l) =>
          /\ step[l] = "create" => stored[TableOf(l)] = NOTABLE
          /\ step[l] = "insert" =>
                stored[TableOf(l)] = [layout |-> job[l].layout, rows |-> << >>]
          /\ result[l] = "ok" =>
                stored[TableOf(l)] = [layout |-> job[l].layout, rows |-> <<l>>]

TableFollowsStep == \A l \in Loaders : job[l].database = "postgres" => Follows(l)

LEMMA OwnStatement ==
    ASSUME TypeOK, NEW l \in Loaders, job[l].database = "postgres", Advance(l), Follows(l)
    PROVE  Follows(l)'
<1>1. /\ job' = job /\ TableOf(l)' = TableOf(l) /\ TableOf(l) \in Tables
      /\ HasTheTable(l)' = HasTheTable(l)
  BY OthersStay, JobTypes DEF TableOf, HasTheTable
<1>2. CASE PostgresConnect(l)
  BY <1>1, <1>2 DEF PostgresConnect, Follows, TypeOK
<1>3. CASE DropTable(l)
  BY <1>1, <1>3 DEF DropTable, Execute, Answer, PostgresAnswer, Follows, TypeOK
<1>4. CASE CreateTable(l)
  BY <1>1, <1>4 DEF CreateTable, Created, Execute, Answer, PostgresAnswer, Follows, TypeOK
<1>5. CASE InsertValues(l)
  <2>1. step[l] = "insert" /\ result[l] # "ok"
    BY <1>5 DEF InsertValues, Follows
  <2>2. step'[l] = "close" /\ result'[l] \in {"ok", "err"}
    BY <1>5, <2>1 DEF InsertValues, Execute, Answer, PostgresAnswer, TypeOK
  <2>3. ASSUME HasTheTable(l), result'[l] = "ok"
        PROVE  stored'[TableOf(l)] = [layout |-> job[l].layout, rows |-> <<l>>]
    <3>1. stored[TableOf(l)] = [layout |-> job[l].layout, rows |-> << >>]
      BY <2>1, <2>3 DEF Follows
    <3>2. stored'[TableOf(l)] = Inserted(stored[TableOf(l)], l)
      BY <1>1, <1>5, <2>1, <2>3 DEF InsertValues, Execute, Answer, PostgresAnswer, TypeOK
    <3>3. Append(<< >>, l) = <<l>>
      OBVIOUS
    <3> QED
      BY <3>1, <3>2, <3>3 DEF Inserted
  <2> QED
    BY <1>1, <2>2, <2>3 DEF Follows
<1>6. CASE PostgresEnd(l)
  BY <1>1, <1>6 DEF PostgresEnd, Follows, TypeOK
<1>7. CASE SqliteOpen(l) \/ SqliteClose(l)
  BY <1>7 DEF SqliteOpen, SqliteClose
<1> QED
  BY <1>2, <1>3, <1>4, <1>5, <1>6, <1>7 DEF Advance

LEMMA SuccessStep ==
    ASSUME TypeOK, TableFollowsStep, NEW a \in Loaders, Advance(a)
    PROVE  TableFollowsStep'
<1> SUFFICES ASSUME NEW l \in Loaders, job[l].database = "postgres" PROVE Follows(l)'
  BY OthersStay DEF TableFollowsStep
<1>1. Follows(l)
  BY OthersStay DEF TableFollowsStep
<1>2. CASE l = a
  BY <1>1, <1>2, OwnStatement
<1>3. CASE l # a
  <2>1. /\ job' = job /\ TableOf(l)' = TableOf(l) /\ TableOf(a)' = TableOf(a)
        /\ step'[l] = step[l] /\ result'[l] = result[l]
        /\ step'[a] # "start"
    BY <1>3, OthersStay DEF TableOf
  <2>2. CASE TableOf(a) = TableOf(l)
    <3>1. ~HasTheTable(l)'
      BY <1>3, <2>1, <2>2 DEF HasTheTable
    <3> QED
      BY <1>1, <2>1, <3>1 DEF Follows
  <2>3. CASE TableOf(a) # TableOf(l)
    <3>1. stored'[TableOf(l)] = stored[TableOf(l)]
      BY <2>3, OthersStay, JobTypes
    <3>2. HasTheTable(l)' => HasTheTable(l)
      <4>1. ASSUME NEW m \in Loaders \ {l}, TableOf(m) = TableOf(l), HasTheTable(l)'
            PROVE  step[m] = "start"
        <5>1. m # a /\ TableOf(m)' = TableOf(l)'
          BY <2>1, <2>3, <4>1 DEF TableOf
        <5> QED
          BY <4>1, <5>1, OthersStay DEF HasTheTable
      <4> QED
        BY <4>1 DEF HasTheTable
    <3> QED
      BY <1>1, <2>1, <3>1, <3>2 DEF Follows
  <2> QED
    BY <2>2, <2>3
<1> QED
  BY <1>2, <1>3

LoaderInvariant ==
    TypeOK /\ ConnectionFollowsStep /\ MixInvariant /\ TableFollowsStep

LEMMA LoaderInit == Init => LoaderInvariant
<1> SUFFICES ASSUME Init PROVE LoaderInvariant
  OBVIOUS
<1>1. TypeOK /\ ConnectionFollowsStep
  BY TypeInit
<1>2. ASSUME NEW t \in Tables, NEW l \in Loaders PROVE ~Holds(t, l)
  <2>1. stored[t] # NOTABLE => stored[t].rows = <<OLD>>
    BY DEF Init
  <2> QED
    BY <2>1, LoaderAssumption DEF Holds
<1>3. /\ \A l \in Loaders : step[l] = "start" /\ result[l] = "none"
      /\ overlapped = {}
  BY DEF Init
<1>4. \A l \in Loaders : ~Running(l) /\ ~PastDrop(l)
  BY <1>3 DEF Running, PastDrop
<1>5. MixInvariant
  BY <1>1, <1>2, <1>3, <1>4, JobTypes DEF MixInvariant, NothingMixesWithOldRows, OldRowsAreDropped,
     OverlapsAreKnown, RowsBesideAreOverlaps, OnlyConcurrentLoadsMix
<1>6. TableFollowsStep
  BY <1>3 DEF TableFollowsStep, Follows
<1> QED
  BY <1>1, <1>5, <1>6 DEF LoaderInvariant

LEMMA LoaderStep ==
    ASSUME "sqlite" \notin MayFail, LoaderInvariant, [Next]_vars
    PROVE  LoaderInvariant'
<1> USE DEF LoaderInvariant
<1>1. TypeOK' /\ ConnectionFollowsStep'
  BY TypeStep
<1>2. CASE Next
  <2>1. PICK a \in Loaders : Advance(a)
    BY <1>2 DEF Next
  <2>2. NothingMixesWithOldRows' /\ OldRowsAreDropped'
    BY <2>1, OldRowsStep
  <2>3. OverlapsAreKnown'
    BY <2>1, OverlapsStep DEF MixInvariant
  <2>4. OnlyConcurrentLoadsMix' /\ RowsBesideAreOverlaps'
    BY <2>1, MixStep
  <2>5. TableFollowsStep'
    BY <2>1, SuccessStep
  <2> QED
    BY <1>1, <2>2, <2>3, <2>4, <2>5 DEF MixInvariant
<1>3. CASE UNCHANGED vars
  <2>1. UNCHANGED <<job, stored, step, result, inserted, overlapped>>
    BY <1>3 DEF vars
  <2>2. NothingMixesWithOldRows' /\ OldRowsAreDropped' /\ OverlapsAreKnown'
    BY <2>1 DEF MixInvariant, NothingMixesWithOldRows, OldRowsAreDropped, OverlapsAreKnown,
       AllDrop, PastDrop, Running, Holds, TableOf
  <2>3. RowsBesideAreOverlaps' /\ OnlyConcurrentLoadsMix'
    BY <2>1 DEF MixInvariant, RowsBesideAreOverlaps, OnlyConcurrentLoadsMix,
       AllDrop, PastDrop, Running, Holds, TableOf
  <2>4. TableFollowsStep'
    BY <2>1 DEF TableFollowsStep, Follows, HasTheTable, Holds, TableOf
  <2> QED
    BY <1>1, <2>2, <2>3, <2>4 DEF MixInvariant
<1> QED
  BY <1>2, <1>3 DEF Next

(* If no statement fails in SQLite, where SQLiteLoader would not notice,    *)
(* tables hold what the loaders account for: no row from before beside     *)
(* loaded ones if all loaders drop the table, rows of two loaders that     *)
(* drop it only if they overlapped, and exactly the rows of a              *)
(* PostgresLoader that had the table for itself and reports success.       *)
THEOREM TableIsAccountedForHolds ==
    ASSUME "sqlite" \notin MayFail
    PROVE  Spec => []TableIsAccountedFor
<1>1. Init => LoaderInvariant
  BY LoaderInit
<1>2. LoaderInvariant /\ [Next]_vars => LoaderInvariant'
  BY LoaderStep
<1>3. LoaderInvariant => TableIsAccountedFor
  <2> SUFFICES ASSUME LoaderInvariant PROVE TableIsAccountedFor
    OBVIOUS
  <2>1. SuccessReplacesTheTable
    BY DEF LoaderInvariant, TableFollowsStep, Follows, HasTheTable, SuccessReplacesTheTable
  <2> QED
    BY <2>1 DEF LoaderInvariant, MixInvariant, TableIsAccountedFor
<1> QED
  BY <1>1, <1>2, <1>3, PTL DEF Spec

=============================================================================
