-------------------------- MODULE InterpreterProofs --------------------------
(***************************************************************************)
(* Proofs about Interpreter, for any number of concurrent calls, folders    *)
(* and pipelines: type correctness, which folders a call finds, and what   *)
(* an exit code says.                                                      *)
(***************************************************************************)
EXTENDS Interpreter, TLAPS

-----------------------------------------------------------------------------
(* The inductive invariant *)

(* A folder that initializeWorkspace may miss was added while it ran. *)
MissedAreLate ==
    \A c \in Calls : pc[c] = "initializing" => workspaces \subseteq passed[c] \cup late

(* The flag says that the folders are loaded, but for those that were       *)
(* missed: adding a folder resets it.                                      *)
FlagIsTrue == initialized => workspaces \subseteq loaded \cup late

(* Folders are never removed. *)
FoldersStay ==
    \A c \in Calls : /\ passed[c] \subseteq workspaces
                     /\ known[c] \subseteq workspaces

WorkspaceInvariant ==
    TypeOK /\ MissedAreLate /\ FlagIsTrue /\ FoldersStay /\ FoldersAddedInTimeAreLoaded

(* Runs exist from StartPipelines on; while they are awaited there is no    *)
(* answer, and none of them was rejected.                                  *)
RunsFollowTheCall ==
    \A c \in Calls :
        /\ pc[c] # "settled" => answer[c] = "none"
        /\ pc[c] \notin {"await", "settled"} => \A p \in Pipelines : runs[c][p] = "none"
        /\ pc[c] = "await" => \A p \in Pipelines : runs[c][p] # "rejected"

AnswerInvariant == TypeOK /\ RunsFollowTheCall /\ ExitCodeIsOfAllPipelines

-----------------------------------------------------------------------------
(* Types *)

LEMMA TypeInit == Init => TypeOK /\ FoldersStay
<1> SUFFICES ASSUME Init PROVE TypeOK /\ FoldersStay
  OBVIOUS
<1>1. [c \in Calls |-> {}] \in [Calls -> SUBSET Folders]
  OBVIOUS
<1>2. [c \in Calls |-> [p \in Pipelines |-> "none"]]
         \in [Calls -> [Pipelines -> {"none", "running"} \cup Ended]]
  OBVIOUS
<1> QED
  BY <1>1, <1>2 DEF Init, TypeOK, FoldersStay

LEMMA PrepareType ==
    ASSUME TypeOK, FoldersStay, NEW c \in Calls, NEW next \in AfterPreparation, Prepare(c, next)
    PROVE  /\ pc' \in [Calls -> AfterPreparation \cup {"idle", "initializing", "await", "settled"}]
           /\ target' \in [Calls -> AfterPreparation \cup {"idle"}]
           /\ passed' \in [Calls -> SUBSET Folders]
           /\ \A d \in Calls : passed'[d] \subseteq workspaces
           /\ UNCHANGED initialized
BY DEF Prepare, TypeOK, FoldersStay

LEMMA SettleType ==
    ASSUME TypeOK, NEW c \in Calls, NEW with \in Ended, Settle(c, with)
    PROVE  /\ pc' \in [Calls -> AfterPreparation \cup {"idle", "initializing", "await", "settled"}]
           /\ answer' \in [Calls -> {"none"} \cup Ended]
BY DEF Settle, TypeOK

LEMMA TypeStep ==
    ASSUME TypeOK, FoldersStay, [Next]_vars
    PROVE  TypeOK' /\ FoldersStay'
<1>1. ASSUME NEW folder \in Folders, AddWorkspace(folder)
      PROVE  TypeOK' /\ FoldersStay'
  BY <1>1 DEF AddWorkspace, TypeOK, FoldersStay
<1>2. ASSUME NEW c \in Calls, Call(c)
      PROVE  TypeOK' /\ FoldersStay'
  <2>1. PICK next \in AfterPreparation : Prepare(c, next)
    BY <1>2 DEF Call, AfterPreparation
  <2> QED
    BY <1>2, <2>1, PrepareType DEF Call, TypeOK, FoldersStay
<1>3. ASSUME NEW c \in Calls, InitializeWorkspace(c)
      PROVE  TypeOK' /\ FoldersStay'
  BY <1>3 DEF InitializeWorkspace, TypeOK, FoldersStay
<1>4. ASSUME NEW c \in Calls, RejectInitialization(c)
      PROVE  TypeOK' /\ FoldersStay'
  BY <1>4, SettleType DEF RejectInitialization, TypeOK, FoldersStay, Ended
<1>5. ASSUME NEW c \in Calls, ParseModel(c)
      PROVE  TypeOK' /\ FoldersStay'
  <2>1. PICK next \in AfterPreparation : Prepare(c, next)
    BY <1>5 DEF ParseModel, AfterPreparation
  <2> QED
    BY <1>5, <2>1, PrepareType DEF ParseModel, TypeOK, FoldersStay
<1>6. ASSUME NEW c \in Calls, RefuseModel(c)
      PROVE  TypeOK' /\ FoldersStay'
  BY <1>6, SettleType DEF RefuseModel, TypeOK, FoldersStay, Ended
<1>7. ASSUME NEW c \in Calls, AcceptModel(c)
      PROVE  TypeOK' /\ FoldersStay'
  <2>1. CASE pc[c] = "extract"
    BY <1>7, <2>1, SettleType DEF AcceptModel, TypeOK, FoldersStay, Ended
  <2>2. CASE pc[c] # "extract"
    <3>1. Prepare(c, "interpret") /\ "interpret" \in AfterPreparation
      BY <1>7, <2>2 DEF AcceptModel, AfterPreparation
    <3> QED
      BY <1>7, <2>2, <3>1, PrepareType DEF AcceptModel, TypeOK, FoldersStay
  <2> QED
    BY <2>1, <2>2
<1>8. ASSUME NEW c \in Calls, StartPipelines(c)
      PROVE  TypeOK' /\ FoldersStay'
  BY <1>8 DEF StartPipelines, TypeOK, FoldersStay
<1>9. ASSUME NEW c \in Calls, ReturnExitCode(c)
      PROVE  TypeOK' /\ FoldersStay'
  <2>1. PICK with \in Ended : Settle(c, with)
    BY <1>9 DEF ReturnExitCode, Ended
  <2> QED
    BY <1>9, <2>1, SettleType DEF ReturnExitCode, TypeOK, FoldersStay
<1>10. ASSUME NEW c \in Calls, NEW p \in Pipelines, EndPipeline(c, p)
       PROVE  TypeOK' /\ FoldersStay'
  <2>1. PICK outcome \in Ended :
          /\ runs' = [runs EXCEPT ![c][p] = outcome]
          /\ IF outcome = "rejected" /\ pc[c] = "await"
             THEN Settle(c, "rejected")
             ELSE UNCHANGED <<pc, answer>>
    BY <1>10 DEF EndPipeline
  <2>2. runs' \in [Calls -> [Pipelines -> {"none", "running"} \cup Ended]]
    BY <2>1 DEF TypeOK
  <2> QED
    BY <1>10, <2>1, <2>2, SettleType DEF EndPipeline, TypeOK, FoldersStay, Ended
<1>11. CASE UNCHANGED vars
  BY <1>11 DEF vars, TypeOK, FoldersStay
<1> QED
  BY <1>1, <1>2, <1>3, <1>4, <1>5, <1>6, <1>7, <1>8, <1>9, <1>10, <1>11 DEF Next, Advance

(* Every variable keeps its type, whatever calls interleave. *)
THEOREM InterpreterTypeCorrect == Spec => [](TypeOK /\ FoldersStay)
<1>1. Init => TypeOK /\ FoldersStay
  BY TypeInit
<1>2. TypeOK /\ FoldersStay /\ [Next]_vars => TypeOK' /\ FoldersStay'
  BY TypeStep
<1> QED
  BY <1>1, <1>2, PTL DEF Spec

-----------------------------------------------------------------------------
(* The folders that are loaded *)

LEMMA PrepareFolders ==
    ASSUME WorkspaceInvariant, NEW c \in Calls, NEW next \in AfterPreparation, Prepare(c, next),
           UNCHANGED <<workspaces, loaded, late>>,
           known' = known \/ known' = [known EXCEPT ![c] = workspaces],
           Prepared(c) => known' = known
    PROVE  MissedAreLate' /\ FlagIsTrue' /\ FoldersAddedInTimeAreLoaded'
<1> USE DEF WorkspaceInvariant
<1>1. MissedAreLate'
  BY DEF MissedAreLate, Prepare, TypeOK, AfterPreparation
<1>2. FlagIsTrue'
  BY DEF FlagIsTrue, Prepare
<1>3. ASSUME NEW d \in Calls, Prepared(d)'
      PROVE  known'[d] \ late' \subseteq loaded'
  <2>1. CASE d # c
    BY <1>3, <2>1 DEF Prepare, Prepared, TypeOK, FoldersAddedInTimeAreLoaded
  <2>2. CASE d = c
    <3>1. initialized
      BY <1>3, <2>2 DEF Prepare, Prepared, TypeOK, AfterPreparation
    <3>2. known'[d] \subseteq workspaces
      BY DEF FoldersStay, TypeOK
    <3> QED
      BY <3>1, <3>2 DEF FlagIsTrue
  <2> QED
    BY <2>1, <2>2
<1> QED
  BY <1>1, <1>2, <1>3 DEF FoldersAddedInTimeAreLoaded

(* A step that leaves the workspace alone prepares no call. *)
LEMMA FoldersUndisturbed ==
    ASSUME WorkspaceInvariant, NEW c \in Calls, NEW state,
           pc' = pc \/ pc' = [pc EXCEPT ![c] = state],
           state # "initializing", state \in AfterPreparation \cup {"await"} => Prepared(c),
           UNCHANGED <<workspaces, initialized, loaded, known, late>>,
           \A d \in Calls : pc'[d] = "initializing" => passed'[d] = passed[d]
    PROVE  MissedAreLate' /\ FlagIsTrue' /\ FoldersAddedInTimeAreLoaded'
BY DEF WorkspaceInvariant, MissedAreLate, FlagIsTrue, FoldersAddedInTimeAreLoaded,
       Prepared, TypeOK

LEMMA FoldersStep ==
    ASSUME WorkspaceInvariant, [Next]_vars
    PROVE  MissedAreLate' /\ FlagIsTrue' /\ FoldersAddedInTimeAreLoaded'
<1> USE DEF WorkspaceInvariant
<1>1. ASSUME NEW folder \in Folders, AddWorkspace(folder)
      PROVE  MissedAreLate' /\ FlagIsTrue' /\ FoldersAddedInTimeAreLoaded'
  <2>1. MissedAreLate'
    BY <1>1 DEF AddWorkspace, MissedAreLate, Initializing
  <2>2. FoldersAddedInTimeAreLoaded' /\ FlagIsTrue'
    BY <1>1 DEF AddWorkspace, FoldersAddedInTimeAreLoaded, Prepared, FlagIsTrue
  <2> QED
    BY <2>1, <2>2
<1>2. ASSUME NEW c \in Calls, Call(c)
      PROVE  MissedAreLate' /\ FlagIsTrue' /\ FoldersAddedInTimeAreLoaded'
  <2>1. PICK next \in AfterPreparation : Prepare(c, next)
    BY <1>2 DEF Call, AfterPreparation
  <2>2. ~Prepared(c)
    BY <1>2 DEF Call, Prepared, AfterPreparation
  <2> QED
    BY <1>2, <2>1, <2>2, PrepareFolders DEF Call
<1>3. ASSUME NEW c \in Calls, InitializeWorkspace(c)
      PROVE  MissedAreLate' /\ FlagIsTrue' /\ FoldersAddedInTimeAreLoaded'
  <2>1. workspaces \subseteq passed[c] \cup late /\ passed[c] \subseteq loaded'
    BY <1>3 DEF InitializeWorkspace, MissedAreLate
  <2>2. MissedAreLate'
    BY <1>3 DEF InitializeWorkspace, MissedAreLate, TypeOK, AfterPreparation
  <2>3. FlagIsTrue' /\ FoldersAddedInTimeAreLoaded'
    BY <1>3, <2>1 DEF InitializeWorkspace, FlagIsTrue, FoldersAddedInTimeAreLoaded,
       FoldersStay
  <2> QED
    BY <2>2, <2>3
<1>4. ASSUME NEW c \in Calls, RejectInitialization(c)
      PROVE  MissedAreLate' /\ FlagIsTrue' /\ FoldersAddedInTimeAreLoaded'
  <2>1. /\ pc' = [pc EXCEPT ![c] = "settled"]
        /\ "settled" \notin AfterPreparation \cup {"await"}
        /\ \A d \in Calls : pc'[d] = "initializing" => passed'[d] = passed[d]
    BY <1>4 DEF RejectInitialization, Settle, TypeOK, AfterPreparation
  <2> QED
    BY <1>4, <2>1, FoldersUndisturbed DEF RejectInitialization
<1>5. ASSUME NEW c \in Calls, ParseModel(c)
      PROVE  MissedAreLate' /\ FlagIsTrue' /\ FoldersAddedInTimeAreLoaded'
  <2>1. PICK next \in AfterPreparation : Prepare(c, next)
    BY <1>5 DEF ParseModel, AfterPreparation
  <2> QED
    BY <1>5, <2>1, PrepareFolders DEF ParseModel
<1>6. ASSUME NEW c \in Calls, RefuseModel(c)
      PROVE  MissedAreLate' /\ FlagIsTrue' /\ FoldersAddedInTimeAreLoaded'
  <2>1. "settled" \notin AfterPreparation \cup {"await", "initializing"}
    BY DEF AfterPreparation
  <2> QED
    BY <1>6, <2>1, FoldersUndisturbed DEF RefuseModel, Settle
<1>7. ASSUME NEW c \in Calls, AcceptModel(c)
      PROVE  MissedAreLate' /\ FlagIsTrue' /\ FoldersAddedInTimeAreLoaded'
  <2>1. CASE pc[c] = "extract"
    <3>1. "settled" \notin AfterPreparation \cup {"await", "initializing"}
      BY DEF AfterPreparation
    <3> QED
      BY <1>7, <2>1, <3>1, FoldersUndisturbed DEF AcceptModel, Settle
  <2>2. CASE pc[c] # "extract"
    <3>1. Prepare(c, "interpret") /\ "interpret" \in AfterPreparation
      BY <1>7, <2>2 DEF AcceptModel, AfterPreparation
    <3> QED
      BY <1>7, <2>2, <3>1, PrepareFolders DEF AcceptModel
  <2> QED
    BY <2>1, <2>2
<1>8. ASSUME NEW c \in Calls, StartPipelines(c)
      PROVE  MissedAreLate' /\ FlagIsTrue' /\ FoldersAddedInTimeAreLoaded'
  <2>1. Prepared(c) /\ pc' = [pc EXCEPT ![c] = "await"]
    BY <1>8 DEF StartPipelines, Prepared, AfterPreparation
  <2> QED
    BY <1>8, <2>1, FoldersUndisturbed DEF StartPipelines
<1>9. ASSUME NEW c \in Calls, ReturnExitCode(c)
      PROVE  MissedAreLate' /\ FlagIsTrue' /\ FoldersAddedInTimeAreLoaded'
  <2>1. "settled" \notin AfterPreparation \cup {"await", "initializing"}
    BY DEF AfterPreparation
  <2> QED
    BY <1>9, <2>1, FoldersUndisturbed DEF ReturnExitCode, Settle
<1>10. ASSUME NEW c \in Calls, NEW p \in Pipelines, EndPipeline(c, p)
       PROVE  MissedAreLate' /\ FlagIsTrue' /\ FoldersAddedInTimeAreLoaded'
  <2>1. /\ pc' = pc \/ pc' = [pc EXCEPT ![c] = "settled"]
        /\ "settled" \notin AfterPreparation \cup {"await", "initializing"}
    BY <1>10 DEF EndPipeline, Settle, AfterPreparation
  <2> QED
    BY <1>10, <2>1, FoldersUndisturbed DEF EndPipeline
<1>11. CASE UNCHANGED vars
  BY <1>11 DEF vars, MissedAreLate, FlagIsTrue, FoldersAddedInTimeAreLoaded, Prepared
<1> QED
  BY <1>1, <1>2, <1>3, <1>4, <1>5, <1>6, <1>7, <1>8, <1>9, <1>10, <1>11 DEF Next, Advance

(* Every folder added before a call, and not while the workspace was        *)
(* initialized, is loaded when the call extracts its document or runs a     *)
(* model.                                                                  *)
THEOREM FoldersAddedInTimeAreLoadedHolds == Spec => []FoldersAddedInTimeAreLoaded
<1>1. Init => WorkspaceInvariant
  <2> SUFFICES ASSUME Init PROVE WorkspaceInvariant
    OBVIOUS
  <2>1. MissedAreLate /\ FlagIsTrue /\ FoldersAddedInTimeAreLoaded
    BY DEF Init, MissedAreLate, FlagIsTrue, FoldersAddedInTimeAreLoaded
  <2> QED
    BY <2>1, TypeInit DEF WorkspaceInvariant
<1>2. WorkspaceInvariant /\ [Next]_vars => WorkspaceInvariant'
  BY TypeStep, FoldersStep DEF WorkspaceInvariant
<1>3. WorkspaceInvariant => FoldersAddedInTimeAreLoaded
  BY DEF WorkspaceInvariant
<1> QED
  BY <1>1, <1>2, <1>3, PTL DEF Spec

-----------------------------------------------------------------------------
(* The exit codes *)

LEMMA PrepareRuns ==
    ASSUME AnswerInvariant, NEW c \in Calls, NEW next \in AfterPreparation, Prepare(c, next),
           pc[c] \notin {"await", "settled"}, UNCHANGED <<runs, answer>>
    PROVE  RunsFollowTheCall' /\ ExitCodeIsOfAllPipelines'
<1>1. \E state \in AfterPreparation \cup {"initializing"} : pc' = [pc EXCEPT ![c] = state]
  BY DEF Prepare
<1>2. /\ "settled" \notin AfterPreparation \cup {"initializing"}
      /\ "await" \notin AfterPreparation \cup {"initializing"}
  BY DEF AfterPreparation
<1>3. RunsFollowTheCall'
  BY <1>1, <1>2 DEF AnswerInvariant, RunsFollowTheCall, TypeOK
<1>4. ExitCodeIsOfAllPipelines'
  BY DEF AnswerInvariant, ExitCodeIsOfAllPipelines, SuccessMeansAllSucceeded,
     NoPipelineOutlivesItsCall, RunsThat
<1> QED
  BY <1>3, <1>4

(* An answer for which the runs account. *)
LEMMA SettleRuns ==
    ASSUME AnswerInvariant, NEW c \in Calls, NEW with \in Ended, Settle(c, with),
           runs' \in [Calls -> [Pipelines -> {"none", "running"} \cup Ended]],
           \A d \in Calls \ {c} : runs'[d] = runs[d],
           with = "success" => \A p \in Pipelines : runs'[c][p] \in {"none", "success"},
           with \in {"success", "failure"} => \A p \in Pipelines : runs'[c][p] # "running"
    PROVE  RunsFollowTheCall' /\ ExitCodeIsOfAllPipelines'
<1>1. /\ \A d \in Calls \ {c} : pc'[d] = pc[d] /\ answer'[d] = answer[d]
      /\ pc'[c] = "settled" /\ answer'[c] = with
  BY DEF AnswerInvariant, Settle, TypeOK
<1>2. RunsFollowTheCall'
  BY <1>1 DEF AnswerInvariant, RunsFollowTheCall
<1>3. SuccessMeansAllSucceeded'
  BY <1>1 DEF AnswerInvariant, ExitCodeIsOfAllPipelines, SuccessMeansAllSucceeded
<1>4. NoPipelineOutlivesItsCall'
  BY <1>1 DEF AnswerInvariant, ExitCodeIsOfAllPipelines, NoPipelineOutlivesItsCall, RunsThat
<1> QED
  BY <1>2, <1>3, <1>4 DEF ExitCodeIsOfAllPipelines

LEMMA AnswerStep ==
    ASSUME AnswerInvariant, [Next]_vars
    PROVE  RunsFollowTheCall' /\ ExitCodeIsOfAllPipelines'
<1> DEFINE NoRuns(c) == \A p \in Pipelines : runs[c][p] = "none"
<1>1. ASSUME NEW folder \in Folders, AddWorkspace(folder)
      PROVE  RunsFollowTheCall' /\ ExitCodeIsOfAllPipelines'
  BY <1>1 DEF AddWorkspace, AnswerInvariant, RunsFollowTheCall, ExitCodeIsOfAllPipelines,
     SuccessMeansAllSucceeded, NoPipelineOutlivesItsCall, RunsThat
<1>2. ASSUME NEW c \in Calls, Call(c)
      PROVE  RunsFollowTheCall' /\ ExitCodeIsOfAllPipelines'
  <2>1. PICK next \in AfterPreparation : Prepare(c, next)
    BY <1>2 DEF Call, AfterPreparation
  <2> QED
    BY <1>2, <2>1, PrepareRuns DEF Call
<1>3. ASSUME NEW c \in Calls, InitializeWorkspace(c)
      PROVE  RunsFollowTheCall' /\ ExitCodeIsOfAllPipelines'
  <2>1. /\ pc' = [pc EXCEPT ![c] = target[c]]
        /\ target[c] \notin {"await", "settled"}
        /\ pc[c] \notin {"await", "settled"}
        /\ UNCHANGED <<runs, answer>>
    BY <1>3 DEF InitializeWorkspace, AnswerInvariant, TypeOK, AfterPreparation
  <2>2. RunsFollowTheCall'
    BY <2>1 DEF AnswerInvariant, RunsFollowTheCall, TypeOK
  <2>3. ExitCodeIsOfAllPipelines'
    BY <2>1 DEF AnswerInvariant, ExitCodeIsOfAllPipelines, SuccessMeansAllSucceeded,
       NoPipelineOutlivesItsCall, RunsThat
  <2> QED
    BY <2>2, <2>3
<1>4. ASSUME NEW c \in Calls, RejectInitialization(c)
      PROVE  RunsFollowTheCall' /\ ExitCodeIsOfAllPipelines'
  BY <1>4, SettleRuns DEF RejectInitialization, AnswerInvariant, TypeOK, Ended
<1>5. ASSUME NEW c \in Calls, ParseModel(c)
      PROVE  RunsFollowTheCall' /\ ExitCodeIsOfAllPipelines'
  <2>1. PICK next \in AfterPreparation : Prepare(c, next)
    BY <1>5 DEF ParseModel, AfterPreparation
  <2> QED
    BY <1>5, <2>1, PrepareRuns DEF ParseModel
<1>6. ASSUME NEW c \in Calls, RefuseModel(c)
      PROVE  RunsFollowTheCall' /\ ExitCodeIsOfAllPipelines'
  <2>1. NoRuns(c)
    BY <1>6 DEF RefuseModel, Extracting, AnswerInvariant, RunsFollowTheCall
  <2> QED
    BY <1>6, <2>1, SettleRuns DEF RefuseModel, AnswerInvariant, TypeOK, Ended
<1>7. ASSUME NEW c \in Calls, AcceptModel(c)
      PROVE  RunsFollowTheCall' /\ ExitCodeIsOfAllPipelines'
  <2>1. NoRuns(c) /\ pc[c] \notin {"await", "settled"}
    BY <1>7 DEF AcceptModel, Extracting, AnswerInvariant, RunsFollowTheCall
  <2>2. CASE pc[c] = "extract"
    BY <1>7, <2>1, <2>2, SettleRuns DEF AcceptModel, AnswerInvariant, TypeOK, Ended
  <2>3. CASE pc[c] # "extract"
    <3>1. Prepare(c, "interpret") /\ "interpret" \in AfterPreparation
      BY <1>7, <2>3 DEF AcceptModel, AfterPreparation
    <3> QED
      BY <1>7, <2>1, <2>3, <3>1, PrepareRuns DEF AcceptModel
  <2> QED
    BY <2>2, <2>3
<1>8. ASSUME NEW c \in Calls, StartPipelines(c)
      PROVE  RunsFollowTheCall' /\ ExitCodeIsOfAllPipelines'
  <2>1. /\ \A d \in Calls \ {c} : pc'[d] = pc[d] /\ runs'[d] = runs[d]
        /\ pc'[c] = "await" /\ answer' = answer /\ answer[c] = "none"
        /\ \A p \in Pipelines : runs'[c][p] \in {"none", "running"}
    BY <1>8 DEF StartPipelines, AnswerInvariant, RunsFollowTheCall, TypeOK
  <2>2. RunsFollowTheCall'
    BY <2>1 DEF AnswerInvariant, RunsFollowTheCall
  <2>3. ExitCodeIsOfAllPipelines'
    BY <2>1 DEF AnswerInvariant, ExitCodeIsOfAllPipelines, SuccessMeansAllSucceeded,
       NoPipelineOutlivesItsCall, RunsThat
  <2> QED
    BY <2>2, <2>3
<1>9. ASSUME NEW c \in Calls, ReturnExitCode(c)
      PROVE  RunsFollowTheCall' /\ ExitCodeIsOfAllPipelines'
  <2>1. /\ runs' = runs
        /\ \A p \in Pipelines : runs[c][p] \notin {"running", "rejected"}
    BY <1>9 DEF ReturnExitCode, RunsThat, AnswerInvariant, RunsFollowTheCall
  <2>2. CASE RunsThat(c, "failure") # {}
    BY <1>9, <2>1, <2>2, SettleRuns DEF ReturnExitCode, AnswerInvariant, TypeOK, Ended
  <2>3. CASE RunsThat(c, "failure") = {}
    <3>1. \A p \in Pipelines : runs[c][p] \in {"none", "success"}
      BY <2>1, <2>3 DEF RunsThat, AnswerInvariant, TypeOK, Ended
    <3> QED
      BY <1>9, <2>1, <2>3, <3>1, SettleRuns DEF ReturnExitCode, AnswerInvariant, TypeOK, Ended
  <2> QED
    BY <2>2, <2>3
<1>10. ASSUME NEW c \in Calls, NEW p \in Pipelines, EndPipeline(c, p)
       PROVE  RunsFollowTheCall' /\ ExitCodeIsOfAllPipelines'
  <2>1. PICK outcome \in Ended :
          /\ runs' = [runs EXCEPT ![c][p] = outcome]
          /\ IF outcome = "rejected" /\ pc[c] = "await"
             THEN Settle(c, "rejected")
             ELSE UNCHANGED <<pc, answer>>
    BY <1>10 DEF EndPipeline
  <2>2. runs[c][p] = "running"
    BY <1>10 DEF EndPipeline
  <2>3. /\ runs' \in [Calls -> [Pipelines -> {"none", "running"} \cup Ended]]
        /\ \A d \in Calls \ {c} : runs'[d] = runs[d]
        /\ runs'[c][p] = outcome
        /\ \A q \in Pipelines \ {p} : runs'[c][q] = runs[c][q]
    BY <2>1 DEF AnswerInvariant, TypeOK
  <2>4. CASE outcome = "rejected" /\ pc[c] = "await"
    BY <2>1, <2>3, <2>4, SettleRuns DEF Ended
  <2>5. CASE ~(outcome = "rejected" /\ pc[c] = "await")
    <3>1. pc' = pc /\ answer' = answer
      BY <2>1, <2>5
    <3>2. pc[c] \in {"await", "settled"} /\ answer[c] \notin {"success", "failure"}
      BY <2>2 DEF AnswerInvariant, RunsFollowTheCall, ExitCodeIsOfAllPipelines,
         NoPipelineOutlivesItsCall, RunsThat
    <3>3. RunsFollowTheCall'
      BY <2>3, <2>5, <3>1, <3>2 DEF AnswerInvariant, RunsFollowTheCall
    <3>4. ExitCodeIsOfAllPipelines'
      BY <2>3, <3>1, <3>2 DEF AnswerInvariant, ExitCodeIsOfAllPipelines,
         SuccessMeansAllSucceeded, NoPipelineOutlivesItsCall, RunsThat
    <3> QED
      BY <3>3, <3>4
  <2> QED
    BY <2>4, <2>5
<1>11. CASE UNCHANGED vars
  BY <1>11 DEF vars, AnswerInvariant, RunsFollowTheCall, ExitCodeIsOfAllPipelines,
     SuccessMeansAllSucceeded, NoPipelineOutlivesItsCall, RunsThat
<1> QED
  BY <1>1, <1>2, <1>3, <1>4, <1>5, <1>6, <1>7, <1>8, <1>9, <1>10, <1>11 DEF Next, Advance

(* An exit code is the outcome of all pipelines a call ran: it is there     *)
(* when all of them have ended, and it is success if all of them succeeded. *)
THEOREM ExitCodeIsOfAllPipelinesHolds == Spec => []ExitCodeIsOfAllPipelines
<1>1. Init => AnswerInvariant /\ FoldersStay
  <2> SUFFICES ASSUME Init PROVE AnswerInvariant /\ FoldersStay
    OBVIOUS
  <2>1. \A c \in Calls : /\ answer[c] = "none"
                         /\ \A p \in Pipelines : runs[c][p] = "none"
                         /\ pc[c] = "idle"
    BY DEF Init
  <2>2. RunsFollowTheCall /\ ExitCodeIsOfAllPipelines
    BY <2>1 DEF RunsFollowTheCall, ExitCodeIsOfAllPipelines, SuccessMeansAllSucceeded,
       NoPipelineOutlivesItsCall
  <2> QED
    BY <2>2, TypeInit DEF AnswerInvariant
<1>2. AnswerInvariant /\ FoldersStay /\ [Next]_vars => AnswerInvariant' /\ FoldersStay'
  BY TypeStep, AnswerStep DEF AnswerInvariant
<1>3. AnswerInvariant => ExitCodeIsOfAllPipelines
  BY DEF AnswerInvariant
<1> QED
  BY <1>1, <1>2, <1>3, PTL DEF Spec

=============================================================================
