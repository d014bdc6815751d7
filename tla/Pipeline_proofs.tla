---------------------------- MODULE Pipeline_proofs ----------------------------
(***************************************************************************)
(* Proofs about the parts of a review that do not share state with each    *)
(* other: the workflow engine, what leaves the runner, the retries of a    *)
(* call, the audited calls to GitHub and the surfaces for other agents.    *)
(* Each is proved for its own specification and every value of its         *)
(* constants.                                                              *)
(***************************************************************************)
EXTENDS Workflow, ReviewOutput, ModelCalls, GitHubConnector, AgentSurfaces,
        FiniteSetTheorems, TLAPS

-----------------------------------------------------------------------------
(* The workflow engine.                                                    *)

Last == Len(StepNames)
Outcomes == {"completed", "cancelled", "failed"}
RunRow == [head : WfHeads, outcome : Outcomes \union {"none"}]
Engine ==
    [stage : {"idle"}] \union [stage : {"returned"}, result : Outcomes]
      \union [stage : {"passing"}, result : Outcomes, at : 1..Last]
      \union [stage : {"at", "ran"}, head : WfHeads, at : 1..(Last + 1), outputs : SUBSET Steps]

WfTypeOK ==
    /\ wfKind \in {"simple", "langgraph"}
    /\ wfRow \in RunRow \union {NoRun}
    /\ wfRecorded \subseteq Steps
    /\ wfEngine \in Engine
    /\ wfLease \in {"active", "cancelled", "invalid_or_expired"} /\ wfLive \in WfHeads
    /\ wfRan \in [Steps -> Nat] /\ wfLost \in [Steps -> Nat]

\* A call on its way through the steps has a row to write its outcome to, knows
\* exactly the recorded steps, has all the steps it passed among them, and runs a
\* handler only for a step that is not.
EngineOnItsWay ==
    Running("at") \/ Running("ran") =>
        /\ wfRow \in RunRow
        /\ wfEngine.outputs = wfRecorded
        /\ \A i \in 1..Last : i < wfEngine.at => StepNames[i] \in wfRecorded
        /\ Running("ran") => wfEngine.at \in 1..Last /\ Name \notin wfRecorded

WfInv == WfTypeOK /\ EngineOnItsWay /\ StepsOnceInOrder

LEMMA StepNamesFacts ==
    /\ Last \in Nat \ {0} /\ DOMAIN StepNames = 1..Last
    /\ \A i \in 1..Last : StepNames[i] \in Steps
    /\ \A i, k \in 1..Last : StepNames[i] = StepNames[k] => i = k
    /\ \A s \in Steps : \E i \in 1..Last : s = StepNames[i]
  BY WorkflowAssumption DEF Last, Steps

LEMMA EngineFields ==
    ASSUME wfEngine \in Engine
    PROVE  /\ Running("at") \/ Running("ran") =>
                 wfEngine \in [stage : {"at", "ran"}, head : WfHeads, at : 1..(Last + 1),
                               outputs : SUBSET Steps]
           /\ Running("passing") =>
                 wfEngine \in [stage : {"passing"}, result : Outcomes, at : 1..Last]
           /\ Running("returned") => wfEngine.result \in Outcomes
  BY DEF Engine, Running

LEMMA WfInitInv == WfInit => WfInv
  <1> SUFFICES ASSUME WfInit PROVE WfInv
    OBVIOUS
  <1>1. Resting \in Engine /\ Resting.stage = "idle"
    BY DEF Resting, Engine
  <1>2. WfTypeOK
    BY <1>1 DEF WfInit, WfTypeOK
  <1>3. EngineOnItsWay
    BY <1>1 DEF WfInit, EngineOnItsWay, Running
  <1>4. StepsOnceInOrder
    BY <1>1 DEF WfInit, StepsOnceInOrder, Running
  <1> QED
    BY <1>2, <1>3, <1>4 DEF WfInv

\* Steps that neither run nor record a handler leave the counts as they are.
LEMMA CountsKept ==
    ASSUME StepsOnceInOrder, UNCHANGED <<wfRecorded, wfRan, wfLost>>,
           ~Running("ran"), ~Running("ran")',
           (wfRow' # NoRun /\ wfRow'.outcome = "completed") =>
               (wfRow # NoRun /\ wfRow.outcome = "completed") \/ wfRecorded = Steps
    PROVE  StepsOnceInOrder'
  BY DEF StepsOnceInOrder

\* A call that sets out: with a fresh row or with the stored one.
LEMMA SetsOut ==
    ASSUME WfInv, Resume \/ \E head \in WfHeads : Run(head)
    PROVE  WfInv'
  <1>1. wfRow' \in RunRow /\ (wfRow # NoRun => wfRow' = wfRow)
             /\ (wfRow = NoRun => wfRow'.outcome = "none")
    BY DEF Run, Resume, EnsureRun, WfInv, WfTypeOK, RunRow, wfStore
  <1>2. PICK h \in WfHeads :
            wfEngine' = IF wfRow'.outcome # "none"
                        THEN [stage |-> "returned", result |-> wfRow'.outcome]
                        ELSE [stage |-> "at", head |-> h, at |-> 1, outputs |-> wfRecorded]
    BY <1>1 DEF Run, Resume, Advance, RunRow, wfStore
  <1>3. UNCHANGED <<wfRecorded, wfKind, wfLease, wfLive, wfRan, wfLost, wfInterruptions>>
    BY DEF Run, Resume, wfWorld, wfHistory, wfStore
  <1>4. ~Running("ran") /\ ~Running("ran")'
    BY <1>2 DEF Run, Resume, Running
  <1>5. wfEngine' \in Engine
    <2>1. CASE wfRow'.outcome # "none"
      BY <1>1, <1>2, <2>1 DEF Engine, RunRow
    <2>2. CASE wfRow'.outcome = "none"
      <3>1. [stage |-> "at", head |-> h, at |-> 1, outputs |-> wfRecorded]
              \in [stage : {"at", "ran"}, head : WfHeads, at : 1..(Last + 1), outputs : SUBSET Steps]
        BY StepNamesFacts DEF WfInv, WfTypeOK
      <3> QED
        BY <1>2, <2>2, <3>1 DEF Engine
    <2> QED
      BY <2>1, <2>2
  <1>6. WfTypeOK'
    BY <1>1, <1>3, <1>5 DEF WfInv, WfTypeOK
  <1>7. EngineOnItsWay'
    <2>1. CASE wfRow'.outcome # "none"
      BY <1>2, <2>1 DEF EngineOnItsWay, Running
    <2>2. CASE wfRow'.outcome = "none"
      BY <1>1, <1>2, <1>3, <1>4, <2>2 DEF EngineOnItsWay, Running
    <2> QED
      BY <2>1, <2>2
  <1>8. StepsOnceInOrder'
    BY <1>1, <1>3, <1>4, CountsKept DEF WfInv
  <1> QED
    BY <1>6, <1>7, <1>8 DEF WfInv

\* What the engine knows at a step.
LEMMA AtStepFacts ==
    ASSUME WfInv, Running("at") \/ Running("ran")
    PROVE  /\ wfEngine \in [stage : {"at", "ran"}, head : WfHeads, at : 1..(Last + 1),
                            outputs : SUBSET Steps]
           /\ wfRow \in RunRow /\ wfEngine.outputs = wfRecorded
           /\ \A i \in 1..Last : i < wfEngine.at => StepNames[i] \in wfRecorded
           /\ wfEngine.at <= Last =>
                 Name \in Steps /\ wfEngine.at \in 1..Last /\ wfEngine.at + 1 \in 1..(Last + 1)
  <1>1. wfEngine \in [stage : {"at", "ran"}, head : WfHeads, at : 1..(Last + 1), outputs : SUBSET Steps]
    BY EngineFields DEF WfInv, WfTypeOK
  <1>2. wfEngine.at \in 1..(Last + 1)
    BY <1>1
  <1> QED
    BY <1>1, <1>2, StepNamesFacts DEF WfInv, EngineOnItsWay, Name

LEMMA SkipInv ==
    ASSUME WfInv, SkipStep
    PROVE  WfInv'
  <1>1. wfEngine.at <= Last /\ Running("at") /\ Name \in wfRecorded
    BY AtStepFacts DEF SkipStep, AtStep, Skip, Last
  <1> DEFINE e == [wfEngine EXCEPT !.at = wfEngine.at + 1]
  <1>2. /\ e \in [stage : {"at", "ran"}, head : WfHeads, at : 1..(Last + 1), outputs : SUBSET Steps]
        /\ e.stage = "at" /\ e.at = wfEngine.at + 1 /\ e.outputs = wfEngine.outputs
    BY <1>1, AtStepFacts DEF Running
  <1>3. wfEngine' = e
    BY DEF SkipStep, NextStep
  <1>4. UNCHANGED <<wfRow, wfRecorded, wfKind, wfLease, wfLive, wfRan, wfLost, wfInterruptions>>
    BY DEF SkipStep, wfStore, wfWorld, wfHistory
  <1> HIDE DEF e
  <1>5. wfEngine' \in Engine
    BY <1>2, <1>3 DEF Engine
  <1>6. WfTypeOK'
    BY <1>4, <1>5 DEF WfInv, WfTypeOK
  <1>7. EngineOnItsWay'
    <2>1. ASSUME NEW i \in 1..Last, i < wfEngine.at + 1 PROVE StepNames[i] \in wfRecorded
      <3>1. i < wfEngine.at \/ i = wfEngine.at
        BY <1>1, <2>1, AtStepFacts, StepNamesFacts
      <3> QED
        BY <1>1, <3>1, AtStepFacts DEF Name
    <2> QED
      BY <1>1, <1>2, <1>3, <1>4, <2>1, AtStepFacts DEF EngineOnItsWay, Running
  <1>8. StepsOnceInOrder'
    BY <1>1, <1>2, <1>3, <1>4, CountsKept DEF WfInv, Running
  <1> QED
    BY <1>6, <1>7, <1>8 DEF WfInv

\* The steps that end a call or pass its result on.
LEMMA EndingInv ==
    ASSUME WfInv, Stop \/ PassThrough \/ SetOutcomeCompleted \/ Acknowledge
    PROVE  WfInv'
  <1>1. UNCHANGED <<wfRecorded, wfKind, wfLease, wfLive, wfRan, wfLost, wfInterruptions>>
    BY DEF Stop, PassThrough, SetOutcomeCompleted, Acknowledge, wfStore, wfWorld, wfHistory
  <1>2. ~Running("ran")
    BY DEF Stop, PassThrough, SetOutcomeCompleted, Acknowledge, AtStep, AllStepsPassed, Running
  <1>3. ASSUME NEW head PROVE Checkpoint(head) \in {"cancelled", "failed", "none"}
    BY DEF Checkpoint, WfInv, WfTypeOK
  <1>4. /\ wfEngine' \in Engine /\ wfEngine'.stage \in {"idle", "returned", "passing"}
        /\ wfRow' \in RunRow \union {NoRun}
        /\ (wfRow' # NoRun /\ wfRow'.outcome = "completed") =>
               (wfRow # NoRun /\ wfRow.outcome = "completed") \/ wfRecorded = Steps
    <2>1. CASE Stop
      <3>1. PICK stopped \in {"cancelled", "failed"} :
               /\ wfRow' = [wfRow EXCEPT !.outcome = stopped]
               /\ wfEngine' = IF wfKind = "simple"
                              THEN [stage |-> "returned", result |-> stopped]
                              ELSE [stage |-> "passing", result |-> stopped, at |-> wfEngine.at]
        BY <1>3, <2>1 DEF Stop
      <3>2. wfRow \in RunRow /\ wfEngine.at \in 1..Last
        BY <2>1, AtStepFacts DEF Stop, AtStep, Last
      <3>3. wfRow' \in RunRow /\ wfRow'.outcome = stopped
        BY <3>1, <3>2 DEF RunRow, Outcomes
      <3>4. CASE wfKind = "simple"
        BY <3>1, <3>3, <3>4 DEF Engine, Outcomes
      <3>5. CASE wfKind # "simple"
        <4>1. wfEngine' \in [stage : {"passing"}, result : Outcomes, at : 1..Last]
          BY <3>1, <3>2, <3>5 DEF Outcomes
        <4> QED
          BY <3>3, <4>1 DEF Engine
      <3> QED
        BY <3>4, <3>5
    <2>2. CASE PassThrough
      <3>1. wfEngine \in [stage : {"passing"}, result : Outcomes, at : 1..Last]
        BY <2>2, EngineFields DEF PassThrough, WfInv, WfTypeOK
      <3>2. CASE wfEngine.at < Last
        <4>1. [wfEngine EXCEPT !.at = @ + 1] \in [stage : {"passing"}, result : Outcomes, at : 1..Last]
          BY <3>1, <3>2, StepNamesFacts
        <4> QED
          BY <2>2, <3>2, <4>1 DEF PassThrough, Engine, Last, wfStore, WfInv, WfTypeOK
      <3>3. CASE ~(wfEngine.at < Last)
        BY <2>2, <3>1, <3>3 DEF PassThrough, Engine, Last, wfStore, WfInv, WfTypeOK
      <3> QED
        BY <3>2, <3>3
    <2>3. CASE SetOutcomeCompleted
      <3>1. Running("at") /\ wfEngine.at > Last
        BY <2>3 DEF SetOutcomeCompleted, AllStepsPassed, Last
      <3>2. wfRow' \in RunRow
        BY <2>3, <3>1, AtStepFacts DEF SetOutcomeCompleted, RunRow, Outcomes
      <3>3. wfRecorded = Steps
        <4>1. \A i \in 1..Last : StepNames[i] \in wfRecorded
          BY <3>1, AtStepFacts, StepNamesFacts
        <4>2. Steps \subseteq wfRecorded
          BY <4>1, StepNamesFacts
        <4>3. wfRecorded \subseteq Steps
          BY DEF WfInv, WfTypeOK
        <4> QED
          BY <4>2, <4>3
      <3> QED
        BY <2>3, <3>2, <3>3 DEF SetOutcomeCompleted, Engine, Outcomes
    <2>4. CASE Acknowledge
      BY <2>4 DEF Acknowledge, Resting, Engine, wfStore, WfInv, WfTypeOK
    <2> QED
      BY <2>1, <2>2, <2>3, <2>4
  <1>5. WfTypeOK'
    BY <1>1, <1>4 DEF WfInv, WfTypeOK
  <1>6. EngineOnItsWay'
    BY <1>4 DEF EngineOnItsWay, Running
  <1>7. StepsOnceInOrder'
    BY <1>1, <1>2, <1>4, CountsKept DEF WfInv, Running
  <1> QED
    BY <1>5, <1>6, <1>7 DEF WfInv

\* The count of one step, apart from the rest of StepsOnceInOrder.
LEMMA OnceInOrderParts ==
    StepsOnceInOrder <=>
        /\ \A i, k \in 1..Last : i < k /\ StepNames[k] \in wfRecorded => StepNames[i] \in wfRecorded
        /\ \A s \in Steps :
               wfRan[s] = wfLost[s] + (IF s \in wfRecorded THEN 1 ELSE 0)
                            + (IF Running("ran") /\ Name = s THEN 1 ELSE 0)
        /\ (wfRow # NoRun /\ wfRow.outcome = "completed") => wfRecorded = Steps
  BY StepNamesFacts DEF StepsOnceInOrder

LEMMA HandlerInv ==
    ASSUME WfInv, RunHandler
    PROVE  WfInv'
  <1>1. Running("at") /\ wfEngine.at <= Last /\ Name \notin wfRecorded
    BY AtStepFacts DEF RunHandler, AtStep, Skip, Last
  <1>2. Name \in Steps /\ wfEngine.at \in 1..Last
    BY <1>1, AtStepFacts
  <1> DEFINE e == [wfEngine EXCEPT !.stage = "ran"]
  <1>3. /\ e \in [stage : {"at", "ran"}, head : WfHeads, at : 1..(Last + 1), outputs : SUBSET Steps]
        /\ e.stage = "ran" /\ e.at = wfEngine.at /\ e.outputs = wfEngine.outputs
    BY <1>1, AtStepFacts
  <1>4. /\ wfEngine' = e /\ wfRan' = [wfRan EXCEPT ![Name] = @ + 1]
        /\ UNCHANGED <<wfRow, wfRecorded, wfKind, wfLease, wfLive, wfLost, wfInterruptions>>
    BY DEF RunHandler, wfStore, wfWorld
  <1> HIDE DEF e
  <1>5. wfEngine' \in Engine
    BY <1>3, <1>4 DEF Engine
  <1>6. WfTypeOK'
    BY <1>2, <1>4, <1>5 DEF WfInv, WfTypeOK
  <1>7. Name' = Name /\ Running("ran")' /\ ~Running("ran")
    BY <1>1, <1>3, <1>4 DEF Name, Running
  <1>8. EngineOnItsWay'
    BY <1>1, <1>2, <1>3, <1>4, <1>7, AtStepFacts DEF EngineOnItsWay, Running
  <1>9. StepsOnceInOrder'
    <2>1. ASSUME NEW s \in Steps
          PROVE  wfRan'[s] = wfLost[s] + (IF s \in wfRecorded THEN 1 ELSE 0) + (IF Name = s THEN 1 ELSE 0)
      <3>1. wfRan[s] = wfLost[s] + (IF s \in wfRecorded THEN 1 ELSE 0)
        BY <1>7, OnceInOrderParts DEF WfInv, WfTypeOK
      <3>2. wfLost[s] \in Nat /\ wfRan'[s] = wfRan[s] + (IF Name = s THEN 1 ELSE 0)
        BY <1>2, <1>4 DEF WfInv, WfTypeOK
      <3> QED
        BY <3>1, <3>2
    <2> QED
      BY <1>4, <1>7, <2>1 DEF StepsOnceInOrder, WfInv
  <1> QED
    BY <1>6, <1>8, <1>9 DEF WfInv

LEMMA MarkInv ==
    ASSUME WfInv, MarkStepCompleted
    PROVE  WfInv'
  <1>1. /\ Running("ran") /\ wfEngine.at \in 1..Last /\ Name \notin wfRecorded
        /\ wfEngine.outputs = wfRecorded /\ wfRow \in RunRow
    BY DEF MarkStepCompleted, WfInv, EngineOnItsWay
  <1>2. Name \in Steps /\ wfEngine.at + 1 \in 1..(Last + 1)
    BY <1>1, AtStepFacts, StepNamesFacts
  <1> DEFINE e == [wfEngine EXCEPT !.stage = "at", !.at = wfEngine.at + 1,
                                   !.outputs = wfEngine.outputs \union {Name}]
  <1>3. /\ e \in [stage : {"at", "ran"}, head : WfHeads, at : 1..(Last + 1), outputs : SUBSET Steps]
        /\ e.stage = "at" /\ e.at = wfEngine.at + 1 /\ e.outputs = wfEngine.outputs \union {Name}
    BY <1>1, <1>2, AtStepFacts
  <1>4. /\ wfEngine' = e /\ wfRecorded' = wfRecorded \union {Name}
        /\ UNCHANGED <<wfRow, wfKind, wfLease, wfLive, wfRan, wfLost, wfInterruptions>>
    BY DEF MarkStepCompleted, wfWorld, wfHistory
  <1> HIDE DEF e
  <1>5. wfEngine' \in Engine
    BY <1>3, <1>4 DEF Engine
  <1>6. WfTypeOK'
    BY <1>2, <1>4, <1>5 DEF WfInv, WfTypeOK
  <1>7. ~Running("ran")'
    BY <1>3, <1>4 DEF Running
  <1>8. ASSUME NEW i \in 1..Last, i < wfEngine.at + 1 PROVE StepNames[i] \in wfRecorded'
    <2>1. i < wfEngine.at \/ i = wfEngine.at
      BY <1>1, <1>8, StepNamesFacts
    <2> QED
      BY <1>1, <1>4, <2>1, AtStepFacts DEF Name
  <1>9. EngineOnItsWay'
    BY <1>1, <1>3, <1>4, <1>7, <1>8 DEF EngineOnItsWay, Running
  <1>10. StepsOnceInOrder'
    <2>1. ASSUME NEW i \in 1..Last, NEW k \in 1..Last, i < k, StepNames[k] \in wfRecorded'
          PROVE  StepNames[i] \in wfRecorded'
      <3>1. CASE StepNames[k] \in wfRecorded
        BY <1>4, <2>1, <3>1, OnceInOrderParts DEF WfInv
      <3>2. CASE StepNames[k] = Name
        <4>1. k = wfEngine.at
          BY <1>1, <3>2, StepNamesFacts DEF Name
        <4> QED
          BY <1>1, <1>8, <2>1, <4>1
      <3> QED
        BY <1>4, <2>1, <3>1, <3>2
    <2>2. ASSUME NEW s \in Steps
          PROVE  wfRan[s] = wfLost[s] + (IF s \in wfRecorded' THEN 1 ELSE 0)
      <3>1. /\ wfLost[s] \in Nat
            /\ wfRan[s] = wfLost[s] + (IF s \in wfRecorded THEN 1 ELSE 0) + (IF Name = s THEN 1 ELSE 0)
        BY <1>1, OnceInOrderParts DEF WfInv, WfTypeOK
      <3> QED
        BY <1>1, <1>4, <3>1
    <2>3. ASSUME wfRow # NoRun, wfRow.outcome = "completed" PROVE wfRecorded' = Steps
      BY <1>2, <1>4, <2>3, OnceInOrderParts DEF WfInv
    <2>4. \A s \in Steps : wfLost[s] \in Nat
      BY DEF WfInv, WfTypeOK
    <2> QED
      BY <1>4, <1>7, <2>1, <2>2, <2>3, <2>4, StepNamesFacts DEF StepsOnceInOrder
  <1> QED
    BY <1>6, <1>9, <1>10 DEF WfInv

\* A crash loses what ran and was not recorded, and counts it.
LEMMA InterruptInv ==
    ASSUME WfInv, Interrupt
    PROVE  WfInv'
  <1>1. /\ wfEngine' \in Engine /\ wfEngine'.stage = "idle"
        /\ UNCHANGED <<wfRow, wfRecorded, wfKind, wfLease, wfLive, wfRan>>
    BY DEF Interrupt, Resting, Engine, wfStore, wfWorld
  <1>2. /\ wfLost' \in [Steps -> Nat]
        /\ \A s \in Steps : wfLost'[s] = wfLost[s] + (IF Running("ran") /\ Name = s THEN 1 ELSE 0)
    <2>1. CASE Running("ran")
      <3>1. Name \in Steps
        BY <2>1, AtStepFacts DEF WfInv, EngineOnItsWay
      <3> QED
        BY <2>1, <3>1 DEF Interrupt, WfInv, WfTypeOK
    <2>2. CASE ~Running("ran")
      BY <2>2 DEF Interrupt, WfInv, WfTypeOK
    <2> QED
      BY <2>1, <2>2
  <1>3. WfTypeOK'
    BY <1>1, <1>2 DEF WfInv, WfTypeOK
  <1>4. EngineOnItsWay' /\ ~Running("ran")'
    BY <1>1 DEF EngineOnItsWay, Running
  <1>5. ASSUME NEW s \in Steps
        PROVE  wfRan[s] = wfLost'[s] + (IF s \in wfRecorded THEN 1 ELSE 0)
    <2>1. /\ wfLost[s] \in Nat
          /\ wfRan[s] = wfLost[s] + (IF s \in wfRecorded THEN 1 ELSE 0)
                          + (IF Running("ran") /\ Name = s THEN 1 ELSE 0)
      BY OnceInOrderParts DEF WfInv, WfTypeOK
    <2> QED
      BY <1>2, <2>1
  <1>6. \A s \in Steps : wfLost'[s] \in Nat
    BY <1>2
  <1>7. StepsOnceInOrder'
    BY <1>1, <1>4, <1>5, <1>6 DEF StepsOnceInOrder, WfInv
  <1> QED
    BY <1>3, <1>4, <1>7 DEF WfInv

LEMMA WorldInv ==
    ASSUME WfInv,
           \/ \E state \in {"active", "cancelled", "invalid_or_expired"} : LeaseBecomes(state)
           \/ \E head \in WfHeads : HeadMoves(head)
           \/ UNCHANGED wfVars
    PROVE  WfInv'
  <1>1. /\ UNCHANGED <<wfKind, wfRow, wfRecorded, wfEngine, wfRan, wfLost>>
        /\ wfLease' \in {"active", "cancelled", "invalid_or_expired"} /\ wfLive' \in WfHeads
    BY DEF LeaseBecomes, HeadMoves, wfVars, wfStore, wfHistory, WfInv, WfTypeOK
  <1> QED
    BY <1>1 DEF WfInv, WfTypeOK, EngineOnItsWay, StepsOnceInOrder, Running, Name

\* Through any number of crashes, restarts, lost leases and moved heads, and for
\* any list of steps, the engine records the steps in order, runs a handler again
\* only when its last run was cut off, and completes only a whole run.
THEOREM WorkflowOnceInOrder == WfSpec => []StepsOnceInOrder
  <1>1. ASSUME WfInv, [WfNext]_wfVars PROVE WfInv'
    BY <1>1, SetsOut, SkipInv, EndingInv, HandlerInv, MarkInv, InterruptInv, WorldInv DEF WfNext
  <1>2. WfInv => StepsOnceInOrder
    BY DEF WfInv
  <1> QED
    BY <1>1, <1>2, WfInitInv, PTL DEF WfSpec

-----------------------------------------------------------------------------
(* What leaves the runner.                                                 *)

Poster ==
    [stage : {"idle"}] \union [stage : {"submitting", "timed_out"}, head : OutHeads]
      \union [stage : {"posted"}, head : OutHeads, inline : BOOLEAN]

OutTypeOK ==
    /\ finding \in Findings
    /\ live \in OutHeads /\ recordedPosts \subseteq OutHeads
    /\ posts \in [OutHeads -> Nat] /\ onWire \in [OutHeads -> Nat] /\ late \in [OutHeads -> Nat]
    /\ poster \in Poster
    /\ sender \in [pending : SUBSET OutChannels, revoked : SUBSET OutChannels]
    /\ revokedChannels \subseteq OutChannels /\ seen \subseteq OutChannels
    /\ sent \in [OutChannels -> Nat] /\ unsure \in [OutChannels -> Nat]

Goes == IsPublic(finding, RouteFinding(finding))

\* A submission is under way only for a head without a review, but for those that
\* came late since it was looked for; what is about to be recorded is on GitHub.
PostsCounted ==
    \A h \in OutHeads :
        /\ late[h] <= posts[h] /\ posts[h] <= 1 + late[h]
        /\ h \in recordedPosts => posts[h] > 0
        /\ (Posting("submitting") /\ poster.head = h) => posts[h] = late[h]
        /\ (Posting("posted") /\ poster.head = h) => posts[h] > 0

\* What is on GitHub, on its way there or about to be is public.
OnlyPublic ==
    /\ Posting("submitting") => Goes
    /\ \A h \in OutHeads : posts[h] > 0 \/ onWire[h] > 0 => Goes

SendsCounted == \A c \in OutChannels : sent[c] = unsure[c] + (IF c \in seen THEN 1 ELSE 0)

\* A fan-out of a restricted finding stays in the restricted channels.
OnlyRestricted ==
    Private(finding) =>
        /\ sender.pending \subseteq RestrictedChannels
        /\ \A c \in OutChannels \ RestrictedChannels : sent[c] = 0

OutInv == OutTypeOK /\ PostsCounted /\ OnlyPublic /\ SendsCounted /\ OnlyRestricted

LEMMA GoesMeans ==
    ASSUME Goes
    PROVE  ~Private(finding) /\ finding.verified
  <1>1. /\ RouteFinding(finding).confidentiality # "restricted"
        /\ RouteFinding(finding).allowPublicPost
    BY DEF Goes, IsPublic
  <1>2. ~Private(finding)
    BY <1>1 DEF RouteFinding
  <1>3. finding.verified
    BY <1>1 DEF RouteFinding
  <1> QED
    BY <1>2, <1>3

LEMMA OutInvMeans == OutInv => OncePerKey /\ PrivateStaysPrivate
  <1> SUFFICES ASSUME OutInv PROVE OncePerKey /\ PrivateStaysPrivate
    OBVIOUS
  <1>1. OncePerKey
    BY DEF OutInv, PostsCounted, SendsCounted, OncePerKey
  <1>2. Private(finding) <=> finding.security /\ (finding.critical \/ ~finding.publicSafe)
    BY DEF Private
  <1>3. PrivateStaysPrivate
    BY <1>2, GoesMeans DEF OutInv, OnlyPublic, OnlyRestricted, PrivateStaysPrivate
  <1> QED
    BY <1>1, <1>3

LEMMA OutInitInv == OutInit => OutInv
  <1> SUFFICES ASSUME OutInit PROVE OutInv
    OBVIOUS
  <1>1. OutTypeOK
    BY DEF OutInit, OutTypeOK, Poster, Waiting
  <1>2. ~Posting("submitting") /\ ~Posting("posted")
    BY DEF OutInit, Waiting, Posting
  <1>3. PostsCounted /\ OnlyPublic
    BY <1>2 DEF OutInit, PostsCounted, OnlyPublic
  <1>4. SendsCounted /\ OnlyRestricted
    BY DEF OutInit, SendsCounted, OnlyRestricted
  <1> QED
    BY <1>1, <1>3, <1>4 DEF OutInv

LEMMA PosterFields ==
    ASSUME poster \in Poster
    PROVE  /\ Posting("submitting") \/ Posting("timed_out") \/ Posting("posted") => poster.head \in OutHeads
  BY DEF Poster, Posting

\* A step of the poster alone: GitHub does not change, what it turns to fits.
LEMMA PosterTurns ==
    ASSUME OutInv, UNCHANGED <<finding, policy, githubVars, sendVars>>,
           poster' \in Poster, recordedPosts' \subseteq OutHeads,
           \A h \in recordedPosts' : posts[h] > 0,
           poster'.stage = "submitting" => Goes /\ posts[poster'.head] = 0,
           poster'.stage = "posted" => posts[poster'.head] > 0
    PROVE  OutInv'
  <1>1. /\ UNCHANGED <<finding, policy, live, posts, onWire, late>>
        /\ UNCHANGED <<revokedChannels, sender, seen, sent, unsure>>
    BY DEF githubVars, sendVars
  <1>2. OutTypeOK'
    BY <1>1 DEF OutInv, OutTypeOK
  <1>3. Goes' = Goes
    BY <1>1 DEF Goes, RouteFinding
  <1>4. PostsCounted'
    <2>1. \A h \in OutHeads : late[h] \in Nat /\ posts[h] \in Nat
      BY DEF OutInv, OutTypeOK
    <2> QED
      BY <1>1, <2>1 DEF OutInv, PostsCounted, Posting
  <1>5. OnlyPublic'
    BY <1>1, <1>3 DEF OutInv, OnlyPublic, Posting
  <1>6. SendsCounted' /\ OnlyRestricted'
    BY <1>1 DEF OutInv, SendsCounted, OnlyRestricted
  <1> QED
    BY <1>2, <1>4, <1>5, <1>6 DEF OutInv

LEMMA PostInv ==
    ASSUME OutInv, \E h \in OutHeads : PostReview(h)
    PROVE  OutInv'
  <1>1. PICK h \in OutHeads : PostReview(h)
    OBVIOUS
  <1>2. UNCHANGED <<finding, policy, githubVars, recordedPosts, sendVars>>
    BY <1>1 DEF PostReview
  <1>3. recordedPosts \subseteq OutHeads /\ \A k \in recordedPosts : posts[k] > 0
    BY DEF OutInv, OutTypeOK, PostsCounted
  <1>4. CASE poster' = Waiting
    BY <1>2, <1>3, <1>4, PosterTurns DEF Waiting, Poster
  <1>5. CASE poster' # Waiting
    <2>1. poster' = [stage |-> "submitting", head |-> h] /\ ~Existing(h) /\ Goes
      BY <1>1, <1>5 DEF PostReview, Goes
    <2>2. posts[h] = 0
      BY <2>1 DEF Existing, OutInv, OutTypeOK
    <2>3. poster' \in Poster /\ poster'.stage = "submitting" /\ poster'.head = h
      BY <2>1 DEF Poster
    <2> QED
      BY <1>2, <1>3, <2>1, <2>2, <2>3, PosterTurns
  <1> QED
    BY <1>4, <1>5

LEMMA RecoverInv ==
    ASSUME OutInv, RecoverPost \/ RecordPost \/ CrashPoster
    PROVE  OutInv'
  <1>1. UNCHANGED <<finding, policy, githubVars, sendVars>>
    BY DEF RecoverPost, RecordPost, CrashPoster
  <1>2. recordedPosts \subseteq OutHeads /\ \A k \in recordedPosts : posts[k] > 0
    BY DEF OutInv, OutTypeOK, PostsCounted
  <1>3. CASE RecoverPost
    <2>1. poster.head \in OutHeads /\ UNCHANGED recordedPosts
      BY <1>3, PosterFields DEF RecoverPost, OutInv, OutTypeOK
    <2>2. CASE Existing(poster.head)
      <3>1. poster' = [stage |-> "posted", head |-> poster.head, inline |-> Anchored(finding)]
        BY <1>3, <2>2 DEF RecoverPost
      <3>2. Anchored(finding) \in BOOLEAN
        BY DEF OutInv, OutTypeOK, Findings, Anchored
      <3>3. poster' \in Poster /\ poster'.stage = "posted" /\ poster'.head = poster.head
        BY <2>1, <3>1, <3>2 DEF Poster
      <3>4. posts[poster.head] > 0
        BY <1>2, <2>2 DEF Existing
      <3> QED
        BY <1>1, <1>2, <2>1, <3>3, <3>4, PosterTurns
    <2>3. CASE ~Existing(poster.head)
      BY <1>1, <1>2, <1>3, <2>1, <2>3, PosterTurns DEF RecoverPost, Waiting, Poster
    <2> QED
      BY <2>2, <2>3
  <1>4. CASE RecordPost
    <2>1. poster.head \in OutHeads /\ posts[poster.head] > 0
      BY <1>4, PosterFields DEF RecordPost, OutInv, OutTypeOK, PostsCounted
    <2>2. recordedPosts' = recordedPosts \union {poster.head} /\ poster' = Waiting
      BY <1>4 DEF RecordPost
    <2> QED
      BY <1>1, <1>2, <2>1, <2>2, PosterTurns DEF Waiting, Poster
  <1>5. CASE CrashPoster
    BY <1>1, <1>2, <1>5, PosterTurns DEF CrashPoster, Waiting, Poster
  <1> QED
    BY <1>3, <1>4, <1>5

\* One counter of several goes up.
LEMMA CounterUp ==
    ASSUME NEW S, NEW f \in [S -> Nat], NEW k \in S, NEW n \in Nat, NEW g,
           g = [f EXCEPT ![k] = f[k] + n]
    PROVE  /\ g \in [S -> Nat] /\ g[k] = f[k] + n
           /\ \A h \in S : h # k => g[h] = f[h]
  <1>1. f[k] + n \in Nat
    OBVIOUS
  <1> QED
    BY <1>1

\* GitHub answers a submission, or does not.
LEMMA SubmitInv ==
    ASSUME OutInv, NEW result \in Results, Submit(result)
    PROVE  OutInv'
  <1> DEFINE k == poster.head
             more == IF result \in {"accepted", "accepted_unanswered"} THEN 1 ELSE 0
  <1>1. Posting("submitting") /\ k \in OutHeads /\ Goes /\ posts[k] = late[k]
    BY PosterFields DEF Submit, OutInv, OutTypeOK, OnlyPublic, PostsCounted
  <1>2. /\ UNCHANGED <<finding, policy, live, late, recordedPosts>>
        /\ UNCHANGED <<revokedChannels, sender, seen, sent, unsure>>
    BY DEF Submit, sendVars
  <1>3. /\ posts' \in [OutHeads -> Nat] /\ posts'[k] = posts[k] + more
        /\ \A h \in OutHeads : h # k => posts'[h] = posts[h]
    <2>1. posts \in [OutHeads -> Nat]
      BY DEF OutInv, OutTypeOK
    <2>2. CASE result \in {"accepted", "accepted_unanswered"}
      <3>1. posts' = [posts EXCEPT ![k] = posts[k] + 1] /\ more = 1
        BY <2>2 DEF Submit
      <3> HIDE DEF k, more
      <3> QED
        BY <1>1, <2>1, <3>1, CounterUp
    <2>3. CASE result \notin {"accepted", "accepted_unanswered"}
      <3>1. posts' = posts /\ more = 0
        BY <2>3 DEF Submit
      <3> HIDE DEF k, more
      <3>2. posts[k] \in Nat
        BY <1>1, <2>1
      <3> QED
        BY <2>1, <3>1, <3>2
    <2> QED
      BY <2>2, <2>3
  <1>4. onWire' \in [OutHeads -> Nat]
    <2>1. onWire \in [OutHeads -> Nat]
      BY DEF OutInv, OutTypeOK
    <2>2. CASE result = "late"
      <3>1. onWire' = [onWire EXCEPT ![k] = onWire[k] + 1]
        BY <2>2 DEF Submit
      <3> HIDE DEF k
      <3> QED
        BY <1>1, <2>1, <3>1, CounterUp
    <2>3. CASE result # "late"
      BY <2>1, <2>3 DEF Submit
    <2> QED
      BY <2>2, <2>3
  <1>5. /\ poster' \in Poster /\ poster'.head = k
        /\ poster'.stage \in {"posted", "timed_out"}
        /\ poster'.stage = "posted" => more = 1
    <2>1. Anchored(finding) \in BOOLEAN
      BY DEF OutInv, OutTypeOK, Findings, Anchored
    <2>2. CASE result = "accepted"
      BY <1>1, <2>1, <2>2 DEF Submit, Poster
    <2>3. CASE result # "accepted"
      BY <1>1, <2>3 DEF Submit, Poster
    <2> QED
      BY <2>2, <2>3
  <1>6. more \in {0, 1}
    OBVIOUS
  <1> HIDE DEF more, k
  <1>7. OutTypeOK'
    BY <1>2, <1>3, <1>4, <1>5 DEF OutInv, OutTypeOK
  <1>8. PostsCounted'
    <2> SUFFICES ASSUME NEW h \in OutHeads
                 PROVE  /\ late[h] <= posts'[h] /\ posts'[h] <= 1 + late[h]
                        /\ h \in recordedPosts => posts'[h] > 0
                        /\ (poster'.stage = "posted" /\ k = h) => posts'[h] > 0
      BY <1>2, <1>5 DEF PostsCounted, Posting, k
    <2>1. /\ late[h] \in Nat /\ posts[h] \in Nat /\ late[h] <= posts[h] /\ posts[h] <= 1 + late[h]
          /\ h \in recordedPosts => posts[h] > 0
      BY DEF OutInv, OutTypeOK, PostsCounted
    <2>2. CASE h = k
      <3>1. posts'[h] = late[h] + more /\ posts'[h] >= posts[h]
        BY <1>1, <1>3, <1>6, <2>1, <2>2
      <3>2. late[h] <= posts'[h] /\ posts'[h] <= 1 + late[h]
        BY <1>6, <2>1, <3>1
      <3>3. h \in recordedPosts => posts'[h] > 0
        BY <1>6, <2>1, <3>1
      <3>4. poster'.stage = "posted" => posts'[h] > 0
        BY <1>5, <2>1, <3>1
      <3> QED
        BY <3>2, <3>3, <3>4
    <2>3. CASE h # k
      BY <1>3, <2>1, <2>3
    <2> QED
      BY <2>2, <2>3
  <1>9. OnlyPublic'
    <2>1. Goes'
      BY <1>1, <1>2 DEF Goes, RouteFinding
    <2> QED
      BY <2>1 DEF OnlyPublic
  <1>10. SendsCounted' /\ OnlyRestricted'
    BY <1>2 DEF OutInv, SendsCounted, OnlyRestricted
  <1> QED
    BY <1>7, <1>8, <1>9, <1>10 DEF OutInv

LEMMA AcceptLateInv ==
    ASSUME OutInv, NEW k \in OutHeads, AcceptLate(k)
    PROVE  OutInv'
  <1>1. /\ UNCHANGED <<finding, policy, live, poster, recordedPosts>>
        /\ UNCHANGED <<revokedChannels, sender, seen, sent, unsure>>
    BY DEF AcceptLate, posterVars, sendVars
  <1>2. /\ posts' \in [OutHeads -> Nat] /\ late' \in [OutHeads -> Nat]
        /\ \A h \in OutHeads : /\ posts'[h] = posts[h] + (IF h = k THEN 1 ELSE 0)
                               /\ late'[h] = late[h] + (IF h = k THEN 1 ELSE 0)
    BY DEF AcceptLate, OutInv, OutTypeOK
  <1>3. onWire' \in [OutHeads -> Nat]
    <2>1. onWire[k] - 1 \in Nat
      BY DEF AcceptLate, OutInv, OutTypeOK
    <2> QED
      BY <2>1 DEF AcceptLate, OutInv, OutTypeOK
  <1>4. OutTypeOK'
    BY <1>1, <1>2, <1>3 DEF OutInv, OutTypeOK
  <1>5. PostsCounted'
    <2> SUFFICES ASSUME NEW h \in OutHeads
                 PROVE  /\ late'[h] <= posts'[h] /\ posts'[h] <= 1 + late'[h]
                        /\ h \in recordedPosts => posts'[h] > 0
                        /\ (Posting("submitting") /\ poster.head = h) => posts'[h] = late'[h]
                        /\ (Posting("posted") /\ poster.head = h) => posts'[h] > 0
      BY <1>1 DEF PostsCounted, Posting
    <2>1. /\ late[h] \in Nat /\ posts[h] \in Nat /\ late[h] <= posts[h] /\ posts[h] <= 1 + late[h]
          /\ h \in recordedPosts => posts[h] > 0
          /\ (Posting("submitting") /\ poster.head = h) => posts[h] = late[h]
          /\ (Posting("posted") /\ poster.head = h) => posts[h] > 0
      BY DEF OutInv, OutTypeOK, PostsCounted
    <2> QED
      BY <1>2, <2>1
  <1>6. OnlyPublic'
    <2>1. Goes
      BY DEF AcceptLate, OutInv, OnlyPublic
    <2>2. Goes'
      BY <1>1, <2>1 DEF Goes, RouteFinding
    <2> QED
      BY <2>2 DEF OnlyPublic
  <1>7. SendsCounted' /\ OnlyRestricted'
    BY <1>1 DEF OutInv, SendsCounted, OnlyRestricted
  <1> QED
    BY <1>4, <1>5, <1>6, <1>7 DEF OutInv

\* Steps that leave the reviews, the poster and the notifications alone.
LEMMA OutQuiet ==
    ASSUME OutInv, UNCHANGED <<finding, policy, posts, onWire, late, posterVars, seen, sent, unsure>>,
           live' \in OutHeads, revokedChannels' \subseteq OutChannels,
           sender' \in [pending : SUBSET OutChannels, revoked : SUBSET OutChannels],
           Private(finding) => sender'.pending \subseteq RestrictedChannels
    PROVE  OutInv'
  <1>1. UNCHANGED <<poster, recordedPosts>>
    BY DEF posterVars
  <1>2. OutTypeOK'
    BY <1>1 DEF OutInv, OutTypeOK
  <1>3. PostsCounted'
    BY <1>1 DEF OutInv, PostsCounted, Posting
  <1>4. OnlyPublic'
    <2>1. Goes' = Goes
      BY DEF Goes, RouteFinding
    <2> QED
      BY <1>1, <2>1 DEF OutInv, OnlyPublic, Posting
  <1>5. SendsCounted' /\ OnlyRestricted'
    BY DEF OutInv, SendsCounted, OnlyRestricted
  <1> QED
    BY <1>2, <1>3, <1>4, <1>5 DEF OutInv

LEMMA DispatchInv ==
    ASSUME OutInv, \/ \E h \in OutHeads : PushHead(h)
                   \/ \E channels \in SUBSET OutChannels : DispatchNotifications(channels)
                   \/ \E c \in OutChannels : RevokeChannel(c)
                   \/ UNCHANGED outVars
    PROVE  OutInv'
  <1>1. CASE \E h \in OutHeads : PushHead(h)
    BY <1>1, OutQuiet DEF PushHead, sendVars, OutInv, OutTypeOK, OnlyRestricted
  <1>2. ASSUME NEW channels \in SUBSET OutChannels, DispatchNotifications(channels)
        PROVE  OutInv'
    <2>1. /\ sender' = [pending |-> channels, revoked |-> revokedChannels]
          /\ UNCHANGED <<finding, policy, githubVars, posterVars, revokedChannels, seen, sent, unsure>>
          /\ ~Refused(channels)
      BY <1>2 DEF DispatchNotifications
    <2>2. UNCHANGED <<live, posts, onWire, late>>
      BY <2>1 DEF githubVars
    <2>3. Private(finding) => RouteFinding(finding).confidentiality = "restricted"
      BY DEF RouteFinding
    <2>4. Private(finding) => sender'.pending \subseteq RestrictedChannels
      BY <2>1, <2>3 DEF Refused
    <2> QED
      BY <2>1, <2>2, <2>4, OutQuiet DEF OutInv, OutTypeOK
  <1>3. CASE \E c \in OutChannels : RevokeChannel(c)
    BY <1>3, OutQuiet DEF RevokeChannel, githubVars, OutInv, OutTypeOK, OnlyRestricted
  <1>4. CASE UNCHANGED outVars
    BY <1>4, OutQuiet DEF outVars, githubVars, sendVars, OutInv, OutTypeOK, OnlyRestricted
  <1> QED
    BY <1>1, <1>2, <1>3, <1>4

LEMMA SendInv ==
    ASSUME OutInv, NEW c \in OutChannels, NEW result \in {"ok", "failed", "raised_after_delivery"},
           SendTo(c, result)
    PROVE  OutInv'
  <1>1. /\ UNCHANGED <<finding, policy, live, posts, onWire, late, poster, recordedPosts, revokedChannels>>
        /\ c \in sender.pending
        /\ sender' = [sender EXCEPT !.pending = @ \ {c}]
    BY DEF SendTo, githubVars, posterVars
  <1>2. /\ sender' \in [pending : SUBSET OutChannels, revoked : SUBSET OutChannels]
        /\ sender'.pending \subseteq sender.pending
    BY <1>1 DEF OutInv, OutTypeOK
  <1>3. CASE c \in sender.revoked \/ c \in seen
    <2>1. UNCHANGED <<seen, sent, unsure>>
      BY <1>3 DEF SendTo
    <2> QED
      BY <1>1, <1>2, <2>1, OutQuiet DEF posterVars, OutInv, OutTypeOK, OnlyRestricted
  <1>4. CASE ~(c \in sender.revoked \/ c \in seen)
    <2> DEFINE delivered == IF result \in {"ok", "raised_after_delivery"} THEN 1 ELSE 0
               doubtful == IF result = "raised_after_delivery" THEN 1 ELSE 0
               kept == IF result = "ok" THEN 1 ELSE 0
    <2>1. /\ delivered \in Nat /\ doubtful \in Nat /\ kept \in Nat
          /\ delivered = doubtful + kept
      OBVIOUS
    <2>10. sent' = [sent EXCEPT ![c] = sent[c] + delivered]
      BY <1>4 DEF SendTo
    <2>11. unsure' = [unsure EXCEPT ![c] = unsure[c] + doubtful]
      <3>1. unsure \in [OutChannels -> Nat]
        BY DEF OutInv, OutTypeOK
      <3>2. CASE result = "raised_after_delivery"
        BY <1>4, <3>2 DEF SendTo
      <3>3. CASE result # "raised_after_delivery"
        <4>1. unsure' = unsure /\ doubtful = 0
          BY <1>4, <3>3 DEF SendTo
        <4> HIDE DEF doubtful
        <4> QED
          BY <3>1, <4>1
      <3> QED
        BY <3>2, <3>3
    <2>12. /\ seen' \subseteq OutChannels
           /\ \A d \in OutChannels : d # c => (d \in seen' <=> d \in seen)
           /\ c \notin seen /\ kept = IF c \in seen' THEN 1 ELSE 0
      <3>1. seen' = IF result = "ok" THEN seen \union {c} ELSE seen
        BY <1>4 DEF SendTo, Remembers
      <3> QED
        BY <1>4, <3>1 DEF OutInv, OutTypeOK
    <2> HIDE DEF delivered, doubtful, kept
    <2>2. /\ sent' \in [OutChannels -> Nat] /\ sent'[c] = sent[c] + delivered
          /\ \A d \in OutChannels : d # c => sent'[d] = sent[d]
      BY <2>1, <2>10, CounterUp DEF OutInv, OutTypeOK
    <2>13. /\ unsure' \in [OutChannels -> Nat] /\ unsure'[c] = unsure[c] + doubtful
           /\ \A d \in OutChannels : d # c => unsure'[d] = unsure[d]
      BY <2>1, <2>11, CounterUp DEF OutInv, OutTypeOK
    <2>3. OutTypeOK'
      BY <1>1, <1>2, <2>2, <2>13, <2>12 DEF OutInv, OutTypeOK
    <2>4. PostsCounted'
      BY <1>1 DEF OutInv, PostsCounted, Posting
    <2>5. OnlyPublic'
      <3>1. Goes' = Goes
        BY <1>1 DEF Goes, RouteFinding
      <3> QED
        BY <1>1, <3>1 DEF OutInv, OnlyPublic, Posting
    <2>6. SendsCounted'
      <3> SUFFICES ASSUME NEW d \in OutChannels
                   PROVE  sent'[d] = unsure'[d] + (IF d \in seen' THEN 1 ELSE 0)
        BY DEF SendsCounted
      <3>1. /\ sent[d] = unsure[d] + (IF d \in seen THEN 1 ELSE 0)
            /\ sent[d] \in Nat /\ unsure[d] \in Nat
        BY DEF OutInv, SendsCounted, OutTypeOK
      <3>2. CASE d # c
        BY <2>2, <2>13, <2>12, <3>1, <3>2
      <3>3. CASE d = c
        <4>0. d \notin seen
          BY <2>12, <3>3
        <4>1. sent[c] = unsure[c]
          BY <3>1, <3>3, <4>0
        <4>2. sent'[c] = unsure'[c] + kept
          BY <2>1, <2>2, <2>13, <3>1, <3>3, <4>1
        <4>3. kept = IF d \in seen' THEN 1 ELSE 0
          BY <2>12, <3>3
        <4> QED
          BY <3>3, <4>2, <4>3
      <3> QED
        BY <3>2, <3>3
    <2>7. OnlyRestricted'
      <3> SUFFICES ASSUME Private(finding)
                   PROVE  /\ sender'.pending \subseteq RestrictedChannels
                          /\ \A d \in OutChannels \ RestrictedChannels : sent'[d] = 0
        BY <1>1 DEF OnlyRestricted
      <3>1. c \in RestrictedChannels
        BY <1>1 DEF OutInv, OnlyRestricted
      <3> QED
        BY <1>2, <2>2, <3>1 DEF OutInv, OnlyRestricted
    <2> QED
      BY <2>3, <2>4, <2>5, <2>6, <2>7 DEF OutInv
  <1> QED
    BY <1>3, <1>4

LEMMA OutNextInv == OutInv /\ [PostNext \/ SendNext]_outVars => OutInv'
  <1>1. ASSUME OutInv, PostNext PROVE OutInv'
    BY <1>1, PostInv, SubmitInv, RecoverInv, AcceptLateInv, DispatchInv DEF PostNext
  <1>2. ASSUME OutInv, SendNext PROVE OutInv'
    BY <1>2, SendInv, DispatchInv DEF SendNext
  <1> QED
    BY <1>1, <1>2, DispatchInv

\* At most one review per head and one notification per channel, but for late
\* acceptances and sends that raised after delivery, for any number of heads,
\* channels and tries, with the poster and the sender running beside each other.
THEOREM OutputOncePerKey == OutSpec => []OncePerKey
  <1>1. OutInv => OncePerKey
    BY OutInvMeans
  <1> QED
    BY <1>1, OutInitInv, OutNextInv, PTL DEF OutSpec

\* A private finding reaches neither GitHub nor an ordinary channel, and nothing
\* unverified reaches GitHub, whatever times out, crashes or arrives late.
THEOREM OutputStaysPrivate == OutSpec => []PrivateStaysPrivate
  <1>1. OutInv => PrivateStaysPrivate
    BY OutInvMeans
  <1> QED
    BY <1>1, OutInitInv, OutNextInv, PTL DEF OutSpec

-----------------------------------------------------------------------------
(* The retry loops.                                                        *)

Ended == {"answered", "failed", "gave_up"}
CallRow ==
    [stage : {"loop", "attempting", "sleeping"} \union Ended, attempt : Nat, start : Int,
     delay : Int, due : Int]

CallTypeOK == loop \in {"provider", "guarded"} /\ clock \in Int /\ call \in CallRow

\* A loop sleeps with an attempt left and for as long as it was asked to, and comes
\* out of its sleep no earlier.
CallOnItsWay ==
    /\ call.stage \notin Ended => call.attempt \in 1..MaxAttempts
    /\ call.stage = "sleeping" => /\ call.attempt # MaxAttempts
                                  /\ call.due <= Elapsed(clock) + call.delay
    /\ call.stage = "loop" => call.due <= Elapsed(clock)

CallInv == CallTypeOK /\ CallOnItsWay /\ RetryWithinLimits

LEMMA CallInitInv == CallInit => CallInv
  <1> SUFFICES ASSUME CallInit PROVE CallInv
    OBVIOUS
  <1>1. CallTypeOK
    BY CallAssumption DEF CallInit, CallTypeOK, CallRow
  <1>2. Elapsed(clock) >= 0
    BY CallAssumption DEF CallInit, Elapsed
  <1>3. CallOnItsWay
    BY <1>2, CallAssumption DEF CallInit, CallOnItsWay, Ended
  <1>4. RetryWithinLimits
    BY DEF CallInit, RetryWithinLimits
  <1> QED
    BY <1>1, <1>3, <1>4 DEF CallInv

LEMMA StartAttemptInv ==
    ASSUME CallInv, StartAttempt
    PROVE  CallInv'
  <1>1. UNCHANGED <<loop, clock>> /\ call.stage = "loop"
    BY DEF StartAttempt
  <1>2. /\ call \in CallRow /\ clock \in Int /\ loop \in {"provider", "guarded"}
        /\ call.attempt \in 1..MaxAttempts /\ call.due <= Elapsed(clock)
        /\ \A a \in attempts : /\ a.number <= MaxAttempts
                               /\ a.number > 1 \/ loop = "guarded" => a.at < MaxElapsed
                               /\ a.at >= a.due
    BY <1>1 DEF CallInv, CallTypeOK, CallOnItsWay, RetryWithinLimits, Ended
  <1>3. Elapsed(clock) \in Int /\ call.due \in Int /\ call.attempt \in Int
    BY <1>2 DEF CallRow, Elapsed
  <1>4. /\ call' \in CallRow /\ call'.attempt = call.attempt
        /\ call'.stage \in {"gave_up", "attempting"}
    BY <1>2 DEF StartAttempt, CallRow, Ended
  <1>5. CallTypeOK' /\ CallOnItsWay'
    BY <1>1, <1>2, <1>4 DEF CallTypeOK, CallOnItsWay, Ended
  <1>6. RetryWithinLimits'
    <2>1. CASE OutOfTime
      BY <1>1, <1>2, <1>4, <2>1 DEF StartAttempt, RetryWithinLimits
    <2>2. CASE ~OutOfTime
      <3> DEFINE new == [number |-> call.attempt, at |-> Elapsed(clock), due |-> call.due]
      <3>1. attempts' = attempts \union {new}
        BY <2>2 DEF StartAttempt
      <3>2. call.attempt > 1 \/ loop = "guarded" => Elapsed(clock) < MaxElapsed
        BY <1>2, <1>3, <2>2, CallAssumption DEF OutOfTime
      <3>3. /\ new.number <= MaxAttempts /\ new.at >= new.due
            /\ new.number > 1 \/ loop = "guarded" => new.at < MaxElapsed
        BY <1>2, <1>3, <3>2, CallAssumption
      <3> HIDE DEF new
      <3>4. \A a \in attempts' : /\ a.number <= MaxAttempts
                                 /\ a.number > 1 \/ loop = "guarded" => a.at < MaxElapsed
                                 /\ a.at >= a.due
        BY <1>2, <3>1, <3>3
      <3> QED
        BY <1>1, <1>4, <3>4 DEF RetryWithinLimits
    <2> QED
      BY <2>1, <2>2
  <1> QED
    BY <1>5, <1>6 DEF CallInv

\* A power of two is the number of subsets of a finite set.
LEMMA PowerOfTwo == ASSUME NEW k \in Nat PROVE 2 ^ k \in Nat
  <1>1. IsFiniteSet(1..k) /\ Cardinality(1..k) = k
    BY FS_Interval
  <1>2. IsFiniteSet(SUBSET (1..k)) /\ Cardinality(SUBSET (1..k)) = 2 ^ k
    BY <1>1, FS_SUBSET
  <1> QED
    BY <1>2, FS_CardinalityType

\* Both loops sleep at least as long as a failure asks for.
LEMMA DelayGrantsWait ==
    ASSUME loop \in {"provider", "guarded"},
           NEW f, f.retryAfter \in {NoRetryAfter} \union (0..MaxElapsed), NEW n \in Nat \ {0}
    PROVE  /\ Delay(f, n) \in Int /\ AskedFor(f) \in Int
           /\ AskedFor(f) <= Delay(f, n)
  <1>1. Doubled(n) \in Int /\ Doubled(n) >= 0 /\ Doubled(1) \in Int
    <2>1. ASSUME NEW k \in Nat \ {0} PROVE Doubled(k) \in Int
      BY <2>1 DEF Doubled
    <2>2. Doubled(n) \in Nat
      BY PowerOfTwo DEF Doubled
    <2> QED
      BY <2>1, <2>2
  <1>2. Backoff(n) \in Int /\ Backoff(n) >= 0
    BY <1>1, CallAssumption DEF Backoff, Least
  <1>3. CASE f.retryAfter = NoRetryAfter
    BY <1>2, <1>3 DEF AskedFor, Delay, RetryDelay, NextBackoff
  <1>4. CASE f.retryAfter # NoRetryAfter
    <2>1. f.retryAfter \in Int
      BY <1>4, CallAssumption DEF NoRetryAfter
    <2>2. AskedFor(f) = Delay(f, n)
      BY <1>4 DEF AskedFor, Delay, RetryDelay, NextBackoff
    <2>3. Delay(f, n) \in Int
      BY <1>4, <2>1, CallAssumption DEF Delay, RetryDelay, NextBackoff, Least
    <2> QED
      BY <2>2, <2>3
  <1> QED
    BY <1>3, <1>4

\* An attempt that ends leaves what was started as it is.
LEMMA EndInv ==
    ASSUME CallInv, UNCHANGED <<loop, attempts>>, clock' \in Int, call' \in CallRow,
           call'.stage \in Ended
    PROVE  CallInv'
  BY DEF CallInv, CallTypeOK, CallOnItsWay, RetryWithinLimits, Ended

LEMMA SucceededInv ==
    ASSUME CallInv, NEW took \in 0..MaxElapsed, Succeeded(took)
    PROVE  CallInv'
  <1>1. call \in CallRow /\ clock \in Int /\ took \in Int
    BY CallAssumption DEF CallInv, CallTypeOK
  <1>2. call' \in CallRow /\ call'.stage \in Ended /\ clock' \in Int
    BY <1>1 DEF Succeeded, CallRow, Ended
  <1> QED
    BY <1>2, EndInv DEF Succeeded

LEMMA FailedInv ==
    ASSUME CallInv, NEW took \in 0..MaxElapsed, NEW f,
           f.retryAfter \in {NoRetryAfter} \union (0..MaxElapsed), Failed(f, took)
    PROVE  CallInv'
  <1> DEFINE elapsed == Elapsed(clock + took)
             delay == Delay(f, call.attempt)
             due == elapsed + AskedFor(f)
  <1>1. /\ UNCHANGED <<loop, attempts>> /\ clock' = clock + took /\ call.stage = "attempting"
    BY DEF Failed
  <1>2. /\ call \in CallRow /\ clock \in Int /\ took \in Int /\ loop \in {"provider", "guarded"}
        /\ call.attempt \in 1..MaxAttempts
    BY <1>1, CallAssumption DEF CallInv, CallTypeOK, CallOnItsWay, Ended
  <1>3. clock' \in Int
    BY <1>1, <1>2
  <1>4. /\ delay \in Int /\ AskedFor(f) \in Int /\ AskedFor(f) <= delay
    BY <1>2, DelayGrantsWait, CallAssumption
  <1>5. elapsed \in Int
    BY <1>2 DEF Elapsed, CallRow
  <1>6. \/ call' = [call EXCEPT !.stage = "failed"]
        \/ /\ call' = [call EXCEPT !.stage = "sleeping", !.delay = delay, !.due = due]
           /\ call.attempt # MaxAttempts /\ ~TooLong(delay, MaxElapsed - elapsed)
    BY DEF Failed
  <1>7. CASE call' = [call EXCEPT !.stage = "failed"]
    <2>1. call' \in CallRow /\ call'.stage \in Ended
      BY <1>2, <1>7 DEF CallRow, Ended
    <2> QED
      BY <1>1, <1>3, <2>1, EndInv
  <1>8. CASE /\ call' = [call EXCEPT !.stage = "sleeping", !.delay = delay, !.due = due]
             /\ call.attempt # MaxAttempts /\ ~TooLong(delay, MaxElapsed - elapsed)
    <2>1. due \in Int /\ due <= elapsed + delay
      BY <1>4, <1>5
    <2>2. elapsed + delay <= MaxElapsed
      BY <1>4, <1>5, <1>8, CallAssumption DEF TooLong
    <2> HIDE DEF elapsed, delay, due
    <2>3. /\ call' \in CallRow /\ call'.stage = "sleeping" /\ call'.attempt = call.attempt
          /\ call'.delay = delay /\ call'.due = due /\ call'.start = call.start
      BY <1>2, <1>4, <1>8, <2>1 DEF CallRow
    <2>4. Elapsed(clock)' = elapsed
      BY <1>1, <2>3 DEF Elapsed, elapsed
    <2>5. CallTypeOK'
      BY <1>1, <1>2, <1>3, <2>3 DEF CallTypeOK
    <2>6. CallOnItsWay'
      BY <1>2, <1>8, <2>1, <2>3, <2>4 DEF CallOnItsWay
    <2>7. RetryWithinLimits'
      BY <1>1, <2>2, <2>3, <2>4 DEF CallInv, RetryWithinLimits
    <2> QED
      BY <2>5, <2>6, <2>7 DEF CallInv
  <1> QED
    BY <1>6, <1>7, <1>8

LEMMA WakeInv ==
    ASSUME CallInv, NEW l \in 0..1, Wake(l)
    PROVE  CallInv'
  <1>1. UNCHANGED <<loop, attempts>> /\ call.stage = "sleeping"
    BY DEF Wake
  <1>2. /\ call \in CallRow /\ clock \in Int /\ loop \in {"provider", "guarded"}
        /\ call.attempt \in 1..MaxAttempts /\ call.attempt # MaxAttempts
        /\ call.due <= Elapsed(clock) + call.delay
    BY <1>1 DEF CallInv, CallTypeOK, CallOnItsWay, Ended
  <1>3. call.delay \in Int /\ call.start \in Int /\ call.due \in Int
    BY <1>2 DEF CallRow
  <1>4. clock' = clock + call.delay + l
    BY DEF Wake
  <1>5. /\ call' \in CallRow /\ call'.stage = "loop" /\ call'.attempt \in 1..MaxAttempts
        /\ call'.due = call.due /\ call'.start = call.start
    <2>1. call.attempt + 1 \in 1..MaxAttempts /\ call.attempt + 1 \in Nat
      BY <1>2, CallAssumption
    <2>2. call' = [call EXCEPT !.stage = "loop", !.attempt = call.attempt + 1]
      BY DEF Wake
    <2> QED
      BY <1>2, <2>1, <2>2 DEF CallRow
  <1>6. clock' \in Int /\ call'.due <= Elapsed(clock)'
    BY <1>1, <1>2, <1>3, <1>4, <1>5 DEF Elapsed
  <1>7. CallTypeOK' /\ CallOnItsWay'
    BY <1>1, <1>2, <1>5, <1>6 DEF CallTypeOK, CallOnItsWay, Ended
  <1>8. RetryWithinLimits'
    BY <1>1, <1>5 DEF CallInv, RetryWithinLimits
  <1> QED
    BY <1>7, <1>8 DEF CallInv

LEMMA FailuresWait ==
    \A f \in ProviderFailures \union Errors : f.retryAfter \in {NoRetryAfter} \union (0..MaxElapsed)
  BY DEF ProviderFailures, Errors, RetryAfterSeconds

LEMMA CallNextInv == CallInv /\ [CallNext]_callVars => CallInv'
  <1>1. ASSUME CallInv, CallNext PROVE CallInv'
    BY <1>1, StartAttemptInv, SucceededInv, FailedInv, WakeInv, FailuresWait DEF CallNext
  <1>2. ASSUME CallInv, UNCHANGED callVars PROVE CallInv'
    BY <1>2 DEF callVars, CallInv, CallTypeOK, CallOnItsWay, RetryWithinLimits, Elapsed
  <1> QED
    BY <1>1, <1>2

\* Both loops keep to their attempts, to their time and to the wait a failure asked for,
\* for every limit and every time that attempts and sleeps take.
THEOREM RetriesStayWithinLimits == CallSpec => []RetryWithinLimits
  <1>1. CallInv => RetryWithinLimits
    BY DEF CallInv
  <1> QED
    BY <1>1, CallInitInv, CallNextInv, PTL DEF CallSpec

-----------------------------------------------------------------------------
(* The audited calls to GitHub.                                            *)

Answered == {"raised", "to_record", "returned", "record_failed"}
AnsweredCall ==
    [stage : Answered, op : Operations, recorded : BOOLEAN, reply : Replies,
     result : {Wrapped(op, reply) : op \in Operations, reply \in Replies}]
CnCall ==
    {NotCalled} \union [stage : {"waiting", "died"}, op : Operations, recorded : BOOLEAN]
      \union AnsweredCall

CnTypeOK ==
    /\ cnCall \in [ConnectorCallers -> CnCall]
    /\ cnDone \subseteq ConnectorCallers
    /\ \A run \in cnRuns : run.call \in ConnectorCallers

\* What an answered caller holds is the wrapper's result for the reply; it was raised
\* at exactly when the reply was broken; and a returned recorded call has its row.
AnswerKept(c) ==
    cnCall[c].stage \in Answered =>
        /\ cnCall[c].result = Wrapped(cnCall[c].op, cnCall[c].reply)
        /\ cnCall[c].stage = "raised" => cnCall[c].reply = "broken"
        /\ cnCall[c].stage = "returned" /\ cnCall[c].recorded =>
               \E run \in cnRuns : run.call = c

\* What took effect was answered, or its caller died.
EffectAnswered(c) == c \in cnDone => cnCall[c].stage \in Answered \union {"died"}

\* A row is that of a recorded call whose caller was answered.
RowAsTold(run) == cnCall[run.call].stage = "returned" /\ cnCall[run.call].recorded

CnInv ==
    /\ CnTypeOK
    /\ \A c \in ConnectorCallers : AnswerKept(c) /\ EffectAnswered(c)
    /\ \A run \in cnRuns : RowAsTold(run)

\* A wrapper raises only for a broken answer.
LEMMA WrappedFacts ==
    ASSUME NEW op, NEW reply \in Replies
    PROVE  Wrapped(op, reply) = Raises => reply = "broken"
  BY DEF Wrapped, CreateInstallationToken, AuditedFetchPullRequest, CreatePullRequestReview,
         ConnectorResult, Raises, Timeout, HttpError, Replies

LEMMA CnInitInv == CnInit => CnInv
  BY DEF CnInit, CnInv, CnTypeOK, CnCall, AnswerKept, EffectAnswered, NotCalled, Answered

LEMMA CnInvMeans == CnInv => AuditMatchesAnswers
  <1> SUFFICES ASSUME CnInv PROVE AuditMatchesAnswers
    OBVIOUS
  <1>1. ASSUME NEW c \in cnDone
        PROVE  \/ ~cnCall[c].recorded \/ cnCall[c].stage \in {"to_record", "record_failed", "died"}
               \/ cnCall[c].reply = "broken" /\ cnCall[c].stage = "raised"
               \/ \E run \in cnRuns : run.call = c
    <2>1. c \in ConnectorCallers
      BY DEF CnInv, CnTypeOK
    <2> QED
      BY <2>1 DEF CnInv, AnswerKept, EffectAnswered, Answered
  <1>2. ASSUME NEW run \in cnRuns
        PROVE  run.call \in {c \in ConnectorCallers : cnCall[c].stage = "returned" /\ cnCall[c].recorded}
    BY DEF CnInv, CnTypeOK, RowAsTold
  <1>3. ASSUME NEW c \in ConnectorCallers, cnCall[c].stage = "returned", cnCall[c].recorded
        PROVE  \E run \in cnRuns : run.call = c
    BY <1>3 DEF CnInv, AnswerKept, Answered
  <1> QED
    BY <1>1, <1>2, <1>3 DEF AuditMatchesAnswers

\* The calls of the other callers, and what was recorded of them, stay as they were.
LEMMA OthersKeep ==
    ASSUME CnInv, NEW c \in ConnectorCallers, NEW row \in CnCall,
           cnCall' = [cnCall EXCEPT ![c] = row], cnRuns \subseteq cnRuns',
           \A d \in ConnectorCallers : d # c => (d \in cnDone' <=> d \in cnDone),
           cnDone' \subseteq ConnectorCallers
    PROVE  /\ cnCall' \in [ConnectorCallers -> CnCall] /\ cnCall'[c] = row
           /\ \A d \in ConnectorCallers : d # c => AnswerKept(d)' /\ EffectAnswered(d)'
           /\ \A run \in cnRuns : run.call # c => RowAsTold(run)'
  <1>1. /\ cnCall' \in [ConnectorCallers -> CnCall] /\ cnCall'[c] = row
        /\ \A d \in ConnectorCallers : d # c => cnCall'[d] = cnCall[d]
    BY DEF CnInv, CnTypeOK
  <1>2. \A d \in ConnectorCallers : d # c => AnswerKept(d)' /\ EffectAnswered(d)'
    BY <1>1 DEF CnInv, AnswerKept, EffectAnswered
  <1>3. \A run \in cnRuns : run.call # c => RowAsTold(run)'
    BY <1>1 DEF CnInv, CnTypeOK, RowAsTold
  <1> QED
    BY <1>1, <1>2, <1>3

LEMMA StartCallInv ==
    ASSUME CnInv, NEW c \in ConnectorCallers, NEW op \in Operations,
           NEW record \in BOOLEAN, NEW traced \in BOOLEAN, StartCall(c, op, record, traced)
    PROVE  CnInv'
  <1> DEFINE row == [stage |-> "waiting", op |-> op, recorded |-> record /\ traced]
  <1>1. /\ cnCall[c] = NotCalled /\ cnCall' = [cnCall EXCEPT ![c] = row]
        /\ cnDone' = cnDone /\ cnRuns' = cnRuns
    BY DEF StartCall
  <1>2. row \in CnCall /\ row.stage = "waiting"
    BY DEF CnCall
  <1> HIDE DEF row
  <1>3. c \notin cnDone /\ \A run \in cnRuns : run.call # c
    BY <1>1 DEF CnInv, EffectAnswered, RowAsTold, NotCalled, Answered
  <1>4. /\ cnCall' \in [ConnectorCallers -> CnCall] /\ cnCall'[c] = row
        /\ \A d \in ConnectorCallers : d # c => AnswerKept(d)' /\ EffectAnswered(d)'
        /\ \A run \in cnRuns : run.call # c => RowAsTold(run)'
    BY <1>1, <1>2, OthersKeep DEF CnInv, CnTypeOK
  <1>5. AnswerKept(c)' /\ EffectAnswered(c)'
    BY <1>1, <1>2, <1>3, <1>4 DEF AnswerKept, EffectAnswered, Answered
  <1> QED
    BY <1>1, <1>3, <1>4, <1>5 DEF CnInv, CnTypeOK

LEMMA RepliesInv ==
    ASSUME CnInv, NEW c \in ConnectorCallers, NEW reply \in Replies, NEW done \in BOOLEAN,
           GithubReplies(c, reply, done)
    PROVE  CnInv'
  <1> DEFINE result == Wrapped(cnCall[c].op, reply)
             row == [stage |-> IF result = Raises THEN "raised" ELSE "to_record",
                     op |-> cnCall[c].op, recorded |-> cnCall[c].recorded,
                     reply |-> reply, result |-> result]
  <1>0. cnCall[c] \in CnCall /\ cnCall \in [ConnectorCallers -> CnCall]
    BY DEF CnInv, CnTypeOK
  <1>1. /\ cnCall[c].stage = "waiting" /\ cnCall' = [cnCall EXCEPT ![c] = row]
        /\ cnDone' = IF TakesEffect(cnCall[c].op, reply, done) THEN cnDone \cup {c} ELSE cnDone
        /\ cnRuns' = cnRuns
    BY <1>0 DEF GithubReplies
  <1>2. cnCall[c].op \in Operations /\ cnCall[c].recorded \in BOOLEAN
    BY <1>0, <1>1 DEF CnCall, AnsweredCall, NotCalled, Answered
  <1>3. row \in CnCall
    <2>1. result \in {Wrapped(op, r) : op \in Operations, r \in Replies}
      BY <1>2
    <2>2. row \in AnsweredCall
      <3> HIDE DEF result
      <3> QED
        BY <1>2, <2>1 DEF AnsweredCall, Answered
    <2> QED
      BY <2>2 DEF CnCall
  <1>4. /\ row.stage \in {"raised", "to_record"} /\ (row.stage = "raised" => reply = "broken")
        /\ row.reply = reply /\ row.result = Wrapped(row.op, row.reply)
    <2>1. result = Raises => reply = "broken"
      BY WrappedFacts
    <2> HIDE DEF result
    <2>2. /\ row.stage \in {"raised", "to_record"} /\ (row.stage = "raised" => reply = "broken")
          /\ row.reply = reply /\ row.result = result /\ row.op = cnCall[c].op
      BY <2>1
    <2> QED
      BY <2>2 DEF result
  <1> HIDE DEF row, result
  <1>5. \A run \in cnRuns : run.call # c
    BY <1>1 DEF CnInv, RowAsTold
  <1>7. /\ cnDone' \subseteq ConnectorCallers
        /\ \A d \in ConnectorCallers : d # c => (d \in cnDone' <=> d \in cnDone)
    BY <1>1 DEF CnInv, CnTypeOK
  <1>8. /\ cnCall' \in [ConnectorCallers -> CnCall] /\ cnCall'[c] = row
        /\ \A d \in ConnectorCallers : d # c => AnswerKept(d)' /\ EffectAnswered(d)'
        /\ \A run \in cnRuns : run.call # c => RowAsTold(run)'
    BY <1>1, <1>3, <1>7, OthersKeep
  <1>9. AnswerKept(c)' /\ EffectAnswered(c)'
    BY <1>4, <1>8 DEF AnswerKept, EffectAnswered, Answered
  <1> QED
    BY <1>1, <1>5, <1>7, <1>8, <1>9 DEF CnInv, CnTypeOK

LEMMA RecordInv ==
    ASSUME CnInv, NEW c \in ConnectorCallers, RecordAndReturn(c) \/ RecordFails(c)
    PROVE  CnInv'
  <1> DEFINE end == IF RecordAndReturn(c) THEN "returned" ELSE "record_failed"
             row == [cnCall[c] EXCEPT !.stage = end]
  <1>0. /\ cnCall[c].stage = "to_record" /\ cnDone' = cnDone
        /\ cnCall' = [cnCall EXCEPT ![c] = row]
    BY DEF RecordAndReturn, RecordFails, CnInv, CnTypeOK
  <1>1. cnCall[c] \in AnsweredCall
    BY <1>0 DEF CnInv, CnTypeOK, CnCall, NotCalled
  <1>2. /\ row \in AnsweredCall /\ row.stage = end
        /\ row.op = cnCall[c].op /\ row.recorded = cnCall[c].recorded
        /\ row.reply = cnCall[c].reply /\ row.result = cnCall[c].result
    BY <1>1 DEF AnsweredCall, Answered
  <1>3. row \in CnCall
    BY <1>2 DEF CnCall
  <1> HIDE DEF row
  <1> PICK audit : audit = ConnectorAudit(c)
    OBVIOUS
  <1>4. \/ cnRuns' = cnRuns /\ (end = "record_failed" \/ ~cnCall[c].recorded)
        \/ cnRuns' = cnRuns \cup {audit} /\ end = "returned" /\ cnCall[c].recorded
    BY DEF RecordAndReturn, RecordFails, RecordConnectorRun, MaybeRecord
  <1>5. audit.call = c
    BY DEF ConnectorAudit
  <1>6. \A run \in cnRuns : run.call # c
    BY <1>0 DEF CnInv, RowAsTold
  <1>7. /\ cnCall' \in [ConnectorCallers -> CnCall] /\ cnCall'[c] = row
        /\ \A d \in ConnectorCallers : d # c => AnswerKept(d)' /\ EffectAnswered(d)'
        /\ \A run \in cnRuns : run.call # c => RowAsTold(run)'
    BY <1>0, <1>3, <1>4, OthersKeep DEF CnInv, CnTypeOK
  <1>8. AnswerKept(c)' /\ EffectAnswered(c)'
    <2>1. cnCall[c].result = Wrapped(cnCall[c].op, cnCall[c].reply)
      BY <1>0 DEF CnInv, AnswerKept, Answered
    <2>2. cnCall[c].recorded /\ end = "returned" => \E run \in cnRuns' : run.call = c
      BY <1>4, <1>5
    <2> QED
      BY <1>0, <1>2, <1>7, <2>1, <2>2 DEF AnswerKept, EffectAnswered, Answered
  <1>9. \A run \in cnRuns' : RowAsTold(run)' /\ run.call \in ConnectorCallers
    <2>1. end = "returned" /\ cnCall[c].recorded => RowAsTold(audit)'
      BY <1>2, <1>5, <1>7 DEF RowAsTold
    <2> QED
      BY <1>4, <1>5, <1>6, <1>7, <2>1 DEF CnInv, CnTypeOK
  <1> QED
    BY <1>0, <1>7, <1>8, <1>9 DEF CnInv, CnTypeOK

LEMMA CallerDiesInv ==
    ASSUME CnInv, NEW c \in ConnectorCallers, NEW done \in BOOLEAN, CallerDies(c, done)
    PROVE  CnInv'
  <1> DEFINE row == [stage |-> "died", op |-> cnCall[c].op, recorded |-> cnCall[c].recorded]
  <1>0. cnCall[c] \in CnCall /\ cnCall \in [ConnectorCallers -> CnCall]
    BY DEF CnInv, CnTypeOK
  <1>1. /\ cnCall[c].stage \in {"waiting", "to_record"} /\ cnCall' = [cnCall EXCEPT ![c] = row]
        /\ cnRuns' = cnRuns /\ cnDone' \in {cnDone, cnDone \cup {c}}
    BY <1>0 DEF CallerDies
  <1>2. row \in CnCall /\ row.stage = "died"
    <2>1. cnCall[c].op \in Operations /\ cnCall[c].recorded \in BOOLEAN
      BY <1>0, <1>1 DEF CnCall, AnsweredCall, NotCalled
    <2> QED
      BY <2>1 DEF CnCall
  <1> HIDE DEF row
  <1>3. \A run \in cnRuns : run.call # c
    BY <1>1 DEF CnInv, RowAsTold
  <1>4. /\ cnDone' \subseteq ConnectorCallers
        /\ \A d \in ConnectorCallers : d # c => (d \in cnDone' <=> d \in cnDone)
    BY <1>1 DEF CnInv, CnTypeOK
  <1>5. /\ cnCall' \in [ConnectorCallers -> CnCall] /\ cnCall'[c] = row
        /\ \A d \in ConnectorCallers : d # c => AnswerKept(d)' /\ EffectAnswered(d)'
        /\ \A run \in cnRuns : run.call # c => RowAsTold(run)'
    BY <1>1, <1>2, <1>4, OthersKeep
  <1>6. AnswerKept(c)' /\ EffectAnswered(c)'
    BY <1>2, <1>5 DEF AnswerKept, EffectAnswered, Answered
  <1> QED
    BY <1>1, <1>3, <1>4, <1>5, <1>6 DEF CnInv, CnTypeOK

LEMMA CnNextInv == CnInv /\ [CnNext]_cnVars => CnInv'
  <1>1. ASSUME CnInv, CnNext PROVE CnInv'
    BY <1>1, StartCallInv, RepliesInv, RecordInv, CallerDiesInv DEF CnNext
  <1>2. ASSUME CnInv, UNCHANGED cnVars PROVE CnInv'
    BY <1>2 DEF cnVars, CnInv, CnTypeOK, AnswerKept, EffectAnswered, RowAsTold
  <1> QED
    BY <1>1, <1>2

\* For any number of callers, the audit table tells what GitHub was made to do and
\* which calls were answered, through time-outs, HTTP errors after the fact, broken
\* answers, failed inserts and callers that die.
THEOREM AuditAlwaysMatches == CnSpec => []AuditMatchesAnswers
  <1> QED
    BY CnInvMeans, CnInitInv, CnNextInv, PTL DEF CnSpec

-----------------------------------------------------------------------------
(* The surfaces for other agents.                                          *)

Lists == {"list_findings", "list_remediation_prompts"}
Answering == {"result", "task", "exit"}

\* The client was told of exactly the reviews the backend keeps, with their findings,
\* and none was made without the token and the key.
ToldAsKept ==
    /\ agReviews \in Seq(SUBSET SurfaceFindings)
    /\ DOMAIN agTold = DOMAIN agReviews
    /\ \A id \in DOMAIN agReviews : agTold[id] = agReviews[id]
    /\ DOMAIN agTold # {} => agEnv.github /\ agEnv.key

AgInv == ToldAsKept /\ ListedAsReviewed

\* What an answer to a command may say of the reviews.
FaithfulAnswer(c, answer) ==
    /\ answer.status = "ok" /\ answer.id # 0 =>
           /\ c.command \notin Lists /\ agEnv.github /\ agEnv.key
           /\ answer.id = Len(agReviews) + 1 /\ answer.findings = c.outcome.findings
    /\ c.command \in Lists =>
           /\ answer.status = "ok" =>
                  answer.id = 0 /\ c.id \in DOMAIN agReviews /\ answer.findings = agReviews[c.id]
           /\ answer.code = "unknown_review" => c.id \notin DOMAIN agReviews

LEMMA CallFields ==
    ASSUME NEW c \in Calls
    PROVE  c.command \in Commands /\ c.outcome.findings \in SUBSET SurfaceFindings
  BY DEF Calls, ReviewOutcomes, Quiet, Commands

LEMMA ErrorCodes == \A error : ErrorFromException(error) # "unknown_review"
  BY DEF ErrorFromException

LEMMA FailureFaithful == ASSUME NEW c, NEW error PROVE FaithfulAnswer(c, Failure(ErrorFromException(error)))
  <1>1. /\ Failure(ErrorFromException(error)).status = "error"
        /\ Failure(ErrorFromException(error)).code = ErrorFromException(error)
    BY DEF Failure
  <1> QED
    BY <1>1, ErrorCodes DEF FaithfulAnswer

LEMMA DispatchFaithful == ASSUME NEW c \in Calls PROVE FaithfulAnswer(c, Dispatch(c))
  <1>1. CASE c.command = "unknown" \/ ~c.valid
    BY <1>1, FailureFaithful DEF Dispatch
  <1>2. CASE ~(c.command = "unknown" \/ ~c.valid) /\ ~agEnv.github
    <2>1. Dispatch(c) = Refusal("github_not_connected")
      BY <1>2 DEF Dispatch, RequireGithub
    <2> QED
      BY <2>1 DEF Refusal, FaithfulAnswer
  <1>3. CASE ~(c.command = "unknown" \/ ~c.valid) /\ agEnv.github /\ c.command = "review_pull_request"
    <2>1. Dispatch(c) = StartReview(c.outcome) /\ c.command \notin Lists
      BY <1>3 DEF Dispatch, RequireGithub, Lists
    <2>2. CASE ~agEnv.key
      BY <2>1, <2>2 DEF StartReview, Refusal, FaithfulAnswer
    <2>3. CASE agEnv.key /\ c.outcome.raised # "none"
      BY <2>1, <2>3, FailureFaithful DEF StartReview
    <2>4. CASE agEnv.key /\ c.outcome.raised = "none"
      <3>1. Dispatch(c) = Ok(Len(agReviews) + 1, c.outcome.findings)
        BY <2>1, <2>4 DEF StartReview
      <3> QED
        BY <1>3, <2>1, <2>4, <3>1 DEF Ok, FaithfulAnswer
    <2> QED
      BY <2>2, <2>3, <2>4
  <1>4. CASE ~(c.command = "unknown" \/ ~c.valid) /\ agEnv.github /\ c.command # "review_pull_request"
    <2>1. Dispatch(c) = ExistingReview(c.id)
      BY <1>4 DEF Dispatch, RequireGithub
    <2>2. CASE c.id \in DOMAIN agReviews
      BY <2>1, <2>2 DEF ExistingReview, Ok, FaithfulAnswer
    <2>3. CASE c.id \notin DOMAIN agReviews
      BY <2>1, <2>3 DEF ExistingReview, Refusal, FaithfulAnswer
    <2> QED
      BY <2>2, <2>3
  <1> QED
    BY <1>1, <1>2, <1>3, <1>4

LEMMA AnswerInv ==
    ASSUME AgInv, NEW c \in Calls, NEW reply, Answer(reply),
           \/ reply.kind \notin Answering
           \/ reply.asked = c /\ FaithfulAnswer(c, reply.answer)
    PROVE  AgInv'
  <1>0. /\ agReviews \in Seq(SUBSET SurfaceFindings) /\ Len(agReviews) \in Nat
        /\ DOMAIN agReviews = 1..Len(agReviews) /\ DOMAIN agTold = DOMAIN agReviews
        /\ \A id \in DOMAIN agReviews : agTold[id] = agReviews[id]
        /\ DOMAIN agTold # {} => agEnv.github /\ agEnv.key
    BY DEF AgInv, ToldAsKept
  <1>1. agReply' = reply /\ agEnv' = agEnv
    BY DEF Answer
  <1>2. CASE IsReview(reply)
    <2>1. /\ reply.asked = c /\ c.command \notin Lists /\ agEnv.github /\ agEnv.key
          /\ reply.answer.id = Len(agReviews) + 1 /\ reply.answer.findings = c.outcome.findings
      BY <1>2 DEF IsReview, FaithfulAnswer, Answering
    <2>2. c.outcome.findings \in SUBSET SurfaceFindings
      BY CallFields
    <2> DEFINE found == c.outcome.findings
               n == Len(agReviews) + 1
    <2>3. agReviews' = Append(agReviews, found)
      BY <1>2, <2>1 DEF Answer
    <2>4. agTold' = [id \in DOMAIN agTold \cup {n} |-> IF id = n THEN found ELSE agTold[id]]
      BY <1>2, <2>1 DEF Answer
    <2> HIDE DEF found
    <2>5. found \in SUBSET SurfaceFindings
      BY <2>2 DEF found
    <2>6. /\ agReviews' \in Seq(SUBSET SurfaceFindings)
          /\ DOMAIN agReviews' = 1..n /\ agReviews'[n] = found
          /\ \A id \in 1..Len(agReviews) : agReviews'[id] = agReviews[id]
      BY <1>0, <2>3, <2>5
    <2>7. DOMAIN agTold' = 1..n /\ agTold'[n] = found
      BY <1>0, <2>4
    <2>8. \A id \in 1..Len(agReviews) : agTold'[id] = agTold[id]
      BY <1>0, <2>4
    <2>9. \A id \in 1..n : id = n \/ id \in 1..Len(agReviews)
      BY <1>0
    <2>10. ToldAsKept'
      BY <1>0, <1>1, <2>1, <2>6, <2>7, <2>8, <2>9 DEF ToldAsKept
    <2>11. ListedAsReviewed'
      BY <1>1, <2>1, <2>10 DEF ListedAsReviewed, ToldAsKept, Lists
    <2> QED
      BY <2>10, <2>11 DEF AgInv
  <1>3. CASE ~IsReview(reply)
    <2>1. agReviews' = agReviews /\ agTold' = agTold
      BY <1>3 DEF Answer
    <2>2. ToldAsKept'
      BY <1>0, <1>1, <2>1 DEF ToldAsKept
    <2>3. ListedAsReviewed'
      <3>1. DOMAIN agTold' # {} => agEnv'.github /\ agEnv'.key
        BY <1>0, <1>1, <2>1
      <3>2. reply.kind \in Answering /\ reply.asked.command \in Lists =>
               /\ reply.answer.status = "ok" => reply.answer.findings = agTold[reply.asked.id]
               /\ reply.answer.code = "unknown_review" => reply.asked.id \notin DOMAIN agTold
        BY <1>0 DEF FaithfulAnswer
      <3> QED
        BY <1>1, <2>1, <3>1, <3>2 DEF ListedAsReviewed, Lists, Answering
    <2> QED
      BY <2>2, <2>3 DEF AgInv
  <1> QED
    BY <1>2, <1>3

LEMMA ServeInv ==
    ASSUME AgInv, NEW form \in Forms, NEW c \in Calls, ServeLine(form, c)
    PROVE  AgInv'
  <1> DEFINE handled == CASE agSurface = "mcp" -> McpReply(form, c)
                          [] agSurface = "acp" -> AcpReply(form, c)
                          [] OTHER -> A2aReply(form, c)
  <1>1. Answer(StdioReply(form, handled))
    BY DEF ServeLine
  <1>2. \A code : RpcError(code).kind \notin Answering
    BY DEF RpcError, Answering
  <1>3. Listing.kind \notin Answering
    BY DEF Listing, Answering
  <1>4. /\ Result(c, Dispatch(c)).asked = c /\ Result(c, Dispatch(c)).answer = Dispatch(c)
        /\ \A answer : Task(c, answer).asked = c /\ Task(c, answer).answer = answer
    BY DEF Result, Task
  <1>5. \/ StdioReply(form, handled) = Listing
        \/ \E code : StdioReply(form, handled) = RpcError(code)
        \/ StdioReply(form, handled) = Result(c, Dispatch(c))
        \/ StdioReply(form, handled) = Task(c, Dispatch(c))
        \/ StdioReply(form, handled) = Task(c, Failure(ErrorFromException("ValueError")))
    BY DEF StdioReply, McpReply, AcpReply, A2aReply, Forms
  <1> HIDE DEF handled
  <1> QED
    BY <1>1, <1>2, <1>3, <1>4, <1>5, AnswerInv, DispatchFaithful, FailureFaithful

LEMMA OneShotInv ==
    ASSUME AgInv, NEW c \in Calls, ReviewMain(c) \/ JsonCliMain(c)
    PROVE  AgInv'
  <1>1. \A code, answer : Exit(c, code, answer).asked = c /\ Exit(c, code, answer).answer = answer
    BY DEF Exit
  <1>2. \E code, answer : Answer(Exit(c, code, answer)) /\ FaithfulAnswer(c, answer)
    BY DispatchFaithful, FailureFaithful DEF ReviewMain, JsonCliMain
  <1> QED
    BY <1>1, <1>2, AnswerInv

LEMMA AgInitInv == AgInit => AgInv
  <1> SUFFICES ASSUME AgInit PROVE AgInv
    OBVIOUS
  <1>1. /\ agReviews = <<>> /\ agTold = <<>> /\ agReply.kind = "none"
    BY DEF AgInit, NoReply
  <1>2. DOMAIN agReviews = {}
    BY <1>1
  <1> QED
    BY <1>1, <1>2 DEF AgInv, ToldAsKept, ListedAsReviewed

LEMMA AgNextInv == AgInv /\ [AgNext]_agVars => AgInv'
  <1>1. ASSUME AgInv, UNCHANGED <<agEnv, agReviews, agReply, agTold>> PROVE AgInv'
    BY <1>1 DEF AgInv, ToldAsKept, ListedAsReviewed
  <1>2. ASSUME AgInv, AgNext PROVE AgInv'
    BY <1>1, <1>2, ServeInv, OneShotInv DEF AgNext, CloseInput
  <1> QED
    BY <1>1, <1>2 DEF agVars

\* Findings are listed as they were reviewed, over sessions of any length and in every
\* surface, and no review comes without the token and the key.
THEOREM AlwaysListedAsReviewed == AgSpec => []ListedAsReviewed
  <1>1. AgInv => ListedAsReviewed
    BY DEF AgInv
  <1> QED
    BY <1>1, AgInitInv, AgNextInv, PTL DEF AgSpec

=============================================================================
