---------------------------- MODULE Interpreter ----------------------------
(***************************************************************************)
(* DefaultJayveeInterpreter: calls of its methods by a program that may    *)
(* make several at a time, the workspace they share, and the pipelines of  *)
(* a model, which run concurrently.  A step is what runs without an await; *)
(* how a pipeline runs is the subject of BlockExecution.                   *)
(*                                                                         *)
(* A call is of interpretFile, interpretString, interpretModel with a      *)
(* model the caller has, or parseModel with a file; its first await tells. *)
(***************************************************************************)

CONSTANTS
    Calls,
    Folders,      \* directories, each with the files of a workspace
    Pipelines     \* the pipelines of every model

(* How executeBlocks may end a pipeline's run. *)
Ended == {"success", "failure", "rejected"}

VARIABLES
    workspaces,   \* the folders added
    initialized,  \* isWorkspaceInitialized
    loaded,       \* the folders whose files langium has loaded
    pc,           \* where each call is
    target,       \* where it goes on when the workspace is initialized,
    passed,       \* and the folders when it called initializeWorkspace
    runs,         \* the state of the pipelines it runs
    answer,       \* what its promise is settled with
    known,        \* history: the folders added before the call
    late          \* history: the folders added during an initialization

vars == <<workspaces, initialized, loaded, pc, target, passed,
          runs, answer, known, late>>

Init ==
    /\ workspaces = {}
    /\ initialized = FALSE
    /\ loaded = {}
    /\ pc = [c \in Calls |-> "idle"]
    /\ target = [c \in Calls |-> "idle"]
    /\ passed = [c \in Calls |-> {}]
    /\ runs = [c \in Calls |-> [p \in Pipelines |-> "none"]]
    /\ answer = [c \in Calls |-> "none"]
    /\ known = [c \in Calls |-> {}]
    /\ late = {}

Initializing == {c \in Calls : pc[c] = "initializing"}

AddWorkspace(folder) ==
    /\ folder \notin workspaces
    /\ initialized' = FALSE
    /\ workspaces' = workspaces \cup {folder}
    /\ late' = IF Initializing = {} THEN late ELSE late \cup {folder}
    /\ UNCHANGED <<loaded, pc, target, passed, runs, answer, known>>

Settle(c, with) ==
    /\ pc' = [pc EXCEPT ![c] = "settled"]
    /\ answer' = [answer EXCEPT ![c] = with]

-----------------------------------------------------------------------------
(* The workspace *)

(* Mutant of Prepare: the flag is set before the await. *)
PrepareWithFlagFirst(c, next) ==
    /\ IF initialized
       THEN pc' = [pc EXCEPT ![c] = next] /\ UNCHANGED <<target, passed>>
       ELSE /\ pc' = [pc EXCEPT ![c] = "initializing"]
            /\ target' = [target EXCEPT ![c] = next]
            /\ passed' = [passed EXCEPT ![c] = workspaces]
    /\ initialized' = TRUE

(* prepareInterpretation up to its await, by a call that goes on at next. *)
Prepare(c, next) ==
    /\ IF initialized
       THEN pc' = [pc EXCEPT ![c] = next] /\ UNCHANGED <<target, passed>>
       ELSE /\ pc' = [pc EXCEPT ![c] = "initializing"]
            /\ target' = [target EXCEPT ![c] = next]
            /\ passed' = [passed EXCEPT ![c] = workspaces]
    /\ UNCHANGED initialized

Call(c) ==
    /\ pc[c] = "idle"
    /\ known' = [known EXCEPT ![c] = workspaces]
    /\ \/ Prepare(c, "parseFile")      \* interpretFile
       \/ Prepare(c, "parseString")    \* interpretString
       \/ Prepare(c, "extract")        \* parseModel
       \/ Prepare(c, "interpret")      \* interpretModel
    /\ UNCHANGED <<workspaces, loaded, runs, answer, late>>

(* initializeWorkspace is passed the array itself, so that it may find      *)
(* folders that have been added to it since.                                *)
InitializeWorkspace(c) ==
    /\ pc[c] = "initializing"
    /\ \E found \in SUBSET (workspaces \ passed[c]) :
          loaded' = loaded \cup passed[c] \cup found
    /\ initialized' = TRUE
    /\ pc' = [pc EXCEPT ![c] = target[c]]
    /\ target' = [target EXCEPT ![c] = "idle"]
    /\ passed' = [passed EXCEPT ![c] = {}]
    /\ UNCHANGED <<workspaces, runs, answer, known, late>>

(* A folder cannot be read: the flag is not set, and every method rejects.  *)
RejectInitialization(c) ==
    /\ pc[c] = "initializing"
    /\ workspaces # {}
    /\ Settle(c, "rejected")
    /\ target' = [target EXCEPT ![c] = "idle"]
    /\ passed' = [passed EXCEPT ![c] = {}]
    /\ UNCHANGED <<workspaces, initialized, loaded, runs, known, late>>

-----------------------------------------------------------------------------
(* The calls *)

ParseModel(c) ==
    /\ \/ pc[c] = "parseFile" /\ Prepare(c, "extractFile")
       \/ pc[c] = "parseString" /\ Prepare(c, "extractString")
    /\ UNCHANGED <<workspaces, loaded, runs, answer, known, late>>

Extracting(c) == pc[c] \in {"extractFile", "extractString", "extract"}

(* The file is not a loaded document, or the document has errors:           *)
(* parseModel catches the rejection and returns undefined.  (A string's     *)
(* document initializes langium's workspace with no folder, which adds      *)
(* none and leaves isWorkspaceInitialized alone.)                           *)
RefuseModel(c) ==
    /\ Extracting(c)
    /\ Settle(c, "failure")
    /\ UNCHANGED <<workspaces, initialized, loaded, target, passed,
                   runs, known, late>>

(* A valid document, of a loaded folder if it is a file's: interpretFile    *)
(* and interpretString go on with interpretModel.                           *)
AcceptModel(c) ==
    /\ Extracting(c)
    /\ pc[c] # "extractString" => loaded # {}
    /\ IF pc[c] = "extract"
       THEN Settle(c, "success") /\ UNCHANGED <<initialized, target, passed>>
       ELSE Prepare(c, "interpret") /\ UNCHANGED answer
    /\ UNCHANGED <<workspaces, loaded, runs, known, late>>

(* interpretJayveeModel starts the pipelines the matcher selects. *)
StartPipelines(c) ==
    /\ pc[c] = "interpret"
    /\ \E selected \in SUBSET Pipelines :
          runs' = [runs EXCEPT ![c] =
                      [p \in Pipelines |-> IF p \in selected THEN "running" ELSE "none"]]
    /\ pc' = [pc EXCEPT ![c] = "await"]
    /\ UNCHANGED <<workspaces, initialized, loaded, target, passed,
                   answer, known, late>>

(* Mutant of EndPipeline: the call is settled by its first failure. *)
EndPipelineFailingFast(c, p) ==
    /\ runs[c][p] = "running"
    /\ \E outcome \in Ended :
          /\ runs' = [runs EXCEPT ![c][p] = outcome]
          /\ IF outcome # "success" /\ pc[c] = "await"
             THEN Settle(c, outcome)
             ELSE UNCHANGED <<pc, answer>>
    /\ UNCHANGED <<workspaces, initialized, loaded, target, passed,
                   known, late>>

(* A pipeline's run ends; Promise.all rejects with the first that rejects. *)
EndPipeline(c, p) ==
    /\ runs[c][p] = "running"
    /\ \E outcome \in Ended :
          /\ runs' = [runs EXCEPT ![c][p] = outcome]
          /\ IF outcome = "rejected" /\ pc[c] = "await"
             THEN Settle(c, "rejected")
             ELSE UNCHANGED <<pc, answer>>
    /\ UNCHANGED <<workspaces, initialized, loaded, target, passed,
                   known, late>>

RunsThat(c, state) == {p \in Pipelines : runs[c][p] = state}

(* Mutant of ReturnExitCode: it is returned on success only. *)
ReturnExitCodeOfSuccess(c) ==
    /\ pc[c] = "await"
    /\ \A p \in Pipelines : runs[c][p] \in {"none", "success"}
    /\ Settle(c, "success")
    /\ UNCHANGED <<workspaces, initialized, loaded, target, passed,
                   runs, known, late>>

(* All runs are resolved, and one failure makes the call fail. *)
ReturnExitCode(c) ==
    /\ pc[c] = "await"
    /\ RunsThat(c, "running") = {}
    /\ Settle(c, IF RunsThat(c, "failure") # {} THEN "failure" ELSE "success")
    /\ UNCHANGED <<workspaces, initialized, loaded, target, passed,
                   runs, known, late>>

Advance(c) ==
    \/ InitializeWorkspace(c) \/ RejectInitialization(c)
    \/ ParseModel(c) \/ RefuseModel(c) \/ AcceptModel(c)
    \/ StartPipelines(c) \/ ReturnExitCode(c)
    \/ \E p \in Pipelines : EndPipeline(c, p)

Next ==
    \/ \E folder \in Folders : AddWorkspace(folder)
    \/ \E c \in Calls : Call(c) \/ Advance(c)

(* What is awaited ends; nobody has to make a call or to add a folder. *)
Spec == Init /\ [][Next]_vars /\ \A c \in Calls : WF_vars(Advance(c))

-----------------------------------------------------------------------------
(* Properties *)

AfterPreparation ==
    {"parseFile", "parseString", "extractFile", "extractString", "extract", "interpret"}

(* Every variable has its type. *)
TypeOK ==
    /\ workspaces \subseteq Folders
    /\ initialized \in BOOLEAN
    /\ loaded \subseteq workspaces
    /\ pc \in [Calls -> AfterPreparation \cup {"idle", "initializing", "await", "settled"}]
    /\ target \in [Calls -> AfterPreparation \cup {"idle"}]
    /\ passed \in [Calls -> SUBSET Folders]
    /\ runs \in [Calls -> [Pipelines -> {"none", "running"} \cup Ended]]
    /\ answer \in [Calls -> {"none"} \cup Ended]
    /\ known \in [Calls -> SUBSET Folders]
    /\ late \subseteq workspaces

Prepared(c) == pc[c] \in AfterPreparation \cup {"await"}

(* Every folder added before a call is loaded when the call extracts its   *)
(* document or runs a model, whatever other calls there are, unless it was *)
(* added while the workspace was initialized.                              *)
FoldersAddedInTimeAreLoaded ==
    \A c \in Calls : Prepared(c) => known[c] \ late \subseteq loaded

(* The exit code is success only if every pipeline selected succeeded.     *)
SuccessMeansAllSucceeded ==
    \A c \in Calls :
        answer[c] = "success" =>
            \A p \in Pipelines : runs[c][p] \in {"none", "success"}

(* The exit code is there when every pipeline has ended, not before: the    *)
(* interpreter's process exits with it.  Only a rejected run, for which    *)
(* there is no exit code, settles the call while others are running.       *)
NoPipelineOutlivesItsCall ==
    \A c \in Calls :
        answer[c] \in {"success", "failure"} => RunsThat(c, "running") = {}

(* An exit code is the outcome of all pipelines, whatever interleaves. *)
ExitCodeIsOfAllPipelines == SuccessMeansAllSucceeded /\ NoPipelineOutlivesItsCall

(* A call that is made is answered. *)
CallsAreAnswered == \A c \in Calls : (pc[c] # "idle") ~> (pc[c] = "settled")

=============================================================================
