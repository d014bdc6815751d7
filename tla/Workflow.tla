------------------------------ MODULE Workflow ------------------------------
(***************************************************************************)
(* The workflow engine of a runner (workflow/simple_engine.py, its graph   *)
(* variant workflow/langgraph_engine.py, and workflow/store.py).  A run is *)
(* a row per job with the input of its first start, one row per finished   *)
(* step, and at the end an outcome; every write is committed at once.      *)
(*                                                                         *)
(* A step's handler and the row that records it are two steps here: the    *)
(* process may crash, or the handler overrun its time, in between.  The    *)
(* lease may be lost, cancelled or taken anew, and the pull request's head *)
(* may move, at any time; the engine looks at both before a step only.     *)
(***************************************************************************)
EXTENDS Naturals, FiniteSets, Sequences

CONSTANTS StepNames, WfHeads, MaxInterruptions, NoRun

\* STEP_NAMES is a tuple of different names.
ASSUME WorkflowAssumption ==
    /\ MaxInterruptions \in Nat
    /\ StepNames \in Seq({StepNames[i] : i \in DOMAIN StepNames}) /\ Len(StepNames) > 0
    /\ \A i, k \in DOMAIN StepNames : StepNames[i] = StepNames[k] => i = k

VARIABLES
    wfKind,            \* Which engine is installed.
    wfRow, wfRecorded, \* The store: the run's row, the set of recorded steps.
    wfEngine,          \* The call in progress: its input, position and stage.
    wfLease, wfLive,   \* What a heartbeat answers; the head GitHub reports.
    wfRan, wfLost,     \* Handler executions per step, and the unrecorded ones.
    wfInterruptions

wfVars == <<wfKind, wfRow, wfRecorded, wfEngine, wfLease, wfLive, wfRan, wfLost,
            wfInterruptions>>
wfStore == <<wfRow, wfRecorded>>
wfWorld == <<wfKind, wfLease, wfLive>>
wfHistory == <<wfRan, wfLost, wfInterruptions>>

Steps == {StepNames[i] : i \in DOMAIN StepNames}
Resting == [stage |-> "idle"]
Running(stage) == wfEngine.stage = stage

\* Insert or ignore: a later start keeps the first start's input.
EnsureRun(head) ==
    wfRow' = IF wfRow = NoRun THEN [head |-> head, outcome |-> "none"] ELSE wfRow

\* A finished run answers from its row; another one goes through its steps with
\* the steps recorded by now.
Advance(row, head) ==
    wfEngine' = IF row.outcome # "none"
                THEN [stage |-> "returned", result |-> row.outcome]
                ELSE [stage |-> "at", head |-> head, at |-> 1, outputs |-> wfRecorded]

\* A job taken from the queue names its own head.
Run(head) ==
    /\ Running("idle")
    /\ EnsureRun(head)
    /\ Advance(wfRow', head)
    /\ UNCHANGED <<wfRecorded, wfWorld, wfHistory>>

\* After a restart, with the stored input.
Resume ==
    /\ Running("idle") /\ wfRow # NoRun
    /\ Advance(wfRow, wfRow.head)
    /\ UNCHANGED <<wfStore, wfWorld, wfHistory>>

\* The reason to stop before a step, or "none".
Checkpoint(head) ==
    CASE wfLease = "cancelled" -> "cancelled"
      [] wfLease = "invalid_or_expired" -> "failed"
      [] OTHER -> IF wfLive # head THEN "cancelled" ELSE "none"

\* An engine that runs every step again.
SkipFault(name) == FALSE

Skip(name) == name \in wfEngine.outputs

AtStep == Running("at") /\ wfEngine.at <= Len(StepNames)
Name == StepNames[wfEngine.at]

NextStep == wfEngine' = [wfEngine EXCEPT !.at = @ + 1]

SkipStep ==
    /\ AtStep /\ Skip(Name)
    /\ NextStep
    /\ UNCHANGED <<wfStore, wfWorld, wfHistory>>

\* The simple engine returns at once; the graph passes the result through its
\* remaining nodes, which run nothing, and returns it at its end.
Stop ==
    /\ AtStep /\ ~Skip(Name)
    /\ LET stopped == Checkpoint(wfEngine.head)
       IN /\ stopped # "none"
          /\ wfRow' = [wfRow EXCEPT !.outcome = stopped]
          /\ wfEngine' = IF wfKind = "simple"
                         THEN [stage |-> "returned", result |-> stopped]
                         ELSE [stage |-> "passing", result |-> stopped, at |-> wfEngine.at]
    /\ UNCHANGED <<wfRecorded, wfWorld, wfHistory>>

PassThrough ==
    /\ Running("passing")
    /\ wfEngine' = IF wfEngine.at < Len(StepNames)
                   THEN [wfEngine EXCEPT !.at = @ + 1]
                   ELSE [stage |-> "returned", result |-> wfEngine.result]
    /\ UNCHANGED <<wfStore, wfWorld, wfHistory>>

RunHandler ==
    /\ AtStep /\ ~Skip(Name)
    /\ Checkpoint(wfEngine.head) = "none"
    /\ wfEngine' = [wfEngine EXCEPT !.stage = "ran"]
    /\ wfRan' = [wfRan EXCEPT ![Name] = @ + 1]
    /\ UNCHANGED <<wfStore, wfWorld, wfLost, wfInterruptions>>

\* The row, the event, and on to the next step.
MarkStepCompleted ==
    /\ Running("ran")
    /\ wfRecorded' = wfRecorded \union {Name}
    /\ wfEngine' = [wfEngine EXCEPT !.stage = "at", !.at = @ + 1,
                                    !.outputs = @ \union {Name}]
    /\ UNCHANGED <<wfRow, wfWorld, wfHistory>>

\* A run whose outcome is set before its steps are through.
AllStepsPassedFault == Running("at") /\ wfEngine.at >= Len(StepNames)

AllStepsPassed == Running("at") /\ wfEngine.at > Len(StepNames)

SetOutcomeCompleted ==
    /\ AllStepsPassed
    /\ wfRow' = [wfRow EXCEPT !.outcome = "completed"]
    /\ wfEngine' = [stage |-> "returned", result |-> "completed"]
    /\ UNCHANGED <<wfRecorded, wfWorld, wfHistory>>

\* The acknowledgement is built from the result and the daemon goes on.
Acknowledge ==
    /\ Running("returned")
    /\ wfEngine' = Resting
    /\ UNCHANGED <<wfStore, wfWorld, wfHistory>>

\* A crash of the process, or the error of a handler that failed or took too long.
Interrupt ==
    /\ ~Running("idle") /\ wfInterruptions < MaxInterruptions
    /\ wfInterruptions' = wfInterruptions + 1
    /\ wfLost' = IF Running("ran") THEN [wfLost EXCEPT ![Name] = @ + 1] ELSE wfLost
    /\ wfEngine' = Resting
    /\ UNCHANGED <<wfStore, wfWorld, wfRan>>

\* Hosted plane and GitHub. A job that is claimed again has an active lease.
LeaseBecomes(state) ==
    /\ wfLease # state
    /\ wfLease' = state
    /\ UNCHANGED <<wfKind, wfLive, wfStore, wfEngine, wfHistory>>

HeadMoves(head) ==
    /\ wfLive # head
    /\ wfLive' = head
    /\ UNCHANGED <<wfKind, wfLease, wfStore, wfEngine, wfHistory>>

WfInit ==
    /\ wfKind \in {"simple", "langgraph"}
    /\ wfRow = NoRun /\ wfRecorded = {} /\ wfEngine = Resting
    /\ wfLease = "active" /\ wfLive \in WfHeads
    /\ wfRan = [s \in Steps |-> 0] /\ wfLost = [s \in Steps |-> 0]
    /\ wfInterruptions = 0

WfNext ==
    \/ \E head \in WfHeads : Run(head) \/ HeadMoves(head)
    \/ Resume \/ SkipStep \/ Stop \/ PassThrough \/ RunHandler \/ MarkStepCompleted
    \/ SetOutcomeCompleted \/ Acknowledge \/ Interrupt
    \/ \E state \in {"active", "cancelled", "invalid_or_expired"} : LeaseBecomes(state)

WfSpec == WfInit /\ [][WfNext]_wfVars

-----------------------------------------------------------------------------
\* Whatever crashes and restarts there were, the recorded steps are the first ones of
\* the list, a handler ran once for each of them and once more only for an execution
\* that was interrupted before it was recorded, and a run is completed only with all
\* its steps recorded.
StepsOnceInOrder ==
    /\ \A i, k \in DOMAIN StepNames :
           i < k /\ StepNames[k] \in wfRecorded => StepNames[i] \in wfRecorded
    /\ \A s \in Steps :
           wfRan[s] = wfLost[s] + (IF s \in wfRecorded THEN 1 ELSE 0)
                        + (IF Running("ran") /\ Name = s THEN 1 ELSE 0)
    /\ (wfRow # NoRun /\ wfRow.outcome = "completed") => wfRecorded = Steps
=============================================================================
