-------------------------- MODULE DevelopmentProofs --------------------------
(***************************************************************************)
(* What holds of every development, whatever the limits, the plan's length *)
(* and the number of restarts: the row keeps its type, and no handler,     *)
(* answer or request ever asks for a transition the orchestrator refuses.  *)
(* The second is not inductive on its own: a retry and a carry-on go to a  *)
(* state the row remembers, so the invariant says what it remembers.  And  *)
(* a pause leads back to its place, and a deleted development stays put.   *)
(*                                                                         *)
(* Up to the first restart, what the development was agreed to, built and  *)
(* reviewed for is also what it has moved past: PlanInv, in the second     *)
(* half, claims it of every state a retry, a carry-on or a decision can    *)
(* lead back to, and the six properties of the plan follow from it.        *)
(***************************************************************************)
EXTENDS Development, TLAPS

FailureHasAStep == state = "failed" => failed_from \in Working

\* A paused row knows its place, as does one being paused; and whatever is asked
\* of it leads there, to the Architect's reading or to the end.
PauseKnowsItsPlace ==
  /\ "paused" \in {state, moving} => data.pause_from \in Pausable
  /\ state = "paused" =>
       moving \in {Idle, data.pause_from, "reconcile", "cancelled"}

HistoryOK ==
  /\ milestones \subseteq {"plan", "cases", "written", "tests", "deploy", "reran"}
  /\ built \subseteq Nat /\ written \in Nat

Core ==
  /\ DataType(data)
  /\ state \in JobState /\ moving \in JobState \cup {Idle}
  /\ failed_from \in Working \cup {Idle}
  /\ builder \in BOOLEAN
  /\ crashes \in 0..MaxCrashes /\ steers \in 0..MaxSteers
  /\ StepsAreLegal /\ FailureHasAStep /\ PauseKnowsItsPlace

Inv == Core /\ HistoryOK /\ interventions \in 0..MaxInterventions

-----------------------------------------------------------------------------
(***************************************************************************)
(* The transition table                                                    *)
(***************************************************************************)
\* A step that goes wrong can always say so.
LEMMA WorkingCanStop ==
  \A s \in Working : Legal(s, "failed") /\ Legal(s, "awaiting_decision")
BY DEF Legal, Allowed

\* The transitions the handlers and the answers name.
LEMMA NamedEdges ==
  /\ Legal("created", "backlog")
  /\ Legal("backlog", "awaiting_backlog_approval") /\ Legal("backlog", "architecture")
  /\ Legal("awaiting_backlog_approval", "architecture")
  /\ Legal("awaiting_backlog_approval", "backlog")
  /\ Legal("architecture", "awaiting_architecture_approval")
  /\ Legal("awaiting_architecture_approval", "architecture")
  /\ Legal("awaiting_architecture_approval", "design")
  /\ Legal("awaiting_architecture_approval", "developing")
  /\ Legal("design", "developing")
  /\ Legal("developing", "build_gate") /\ Legal("developing", "awaiting_builder")
  /\ Legal("developing", "awaiting_design_approval")
  /\ Legal("awaiting_design_approval", "developing")
  /\ Legal("awaiting_design_approval", "design")
  /\ Legal("build_gate", "developing") /\ Legal("build_gate", "review")
  /\ Legal("build_gate", "qa") /\ Legal("build_gate", "done")
  /\ Legal("build_gate", "awaiting_builder") /\ Legal("build_gate", "architecture")
  /\ Legal("review", "developing") /\ Legal("review", "qa")
  /\ Legal("review", "awaiting_review_approval")
  /\ Legal("awaiting_review_approval", "developing")
  /\ Legal("awaiting_review_approval", "qa")
  /\ Legal("qa", "awaiting_test_approval")
  /\ Legal("awaiting_test_approval", "qa") /\ Legal("awaiting_test_approval", "devops")
  /\ Legal("devops", "awaiting_deploy_approval") /\ Legal("devops", "done")
  /\ Legal("awaiting_deploy_approval", "devops")
  /\ Legal("reconcile", "awaiting_reconcile_approval")
  /\ Legal("awaiting_reconcile_approval", "developing")
  /\ Legal("awaiting_reconcile_approval", "qa")
  /\ Legal("awaiting_reconcile_approval", "reconcile")
BY DEF Legal, Allowed, Forward

\* The transitions whose far end the row remembers, or any of many may take.
LEMMA RememberedEdges ==
  /\ \A s \in Working : Legal("awaiting_decision", s) /\ Legal("failed", s)
  /\ \A s \in Pausable : Legal("paused", s) /\ Legal(s, "paused")
  /\ \A s \in Redirectable : Legal(s, "architecture")
  /\ \A s \in JobState \ Terminal : Legal(s, "cancelled")
<1>1. \A s \in Working : Legal("awaiting_decision", s) /\ Legal("failed", s)
  BY DEF Legal, Allowed, Forward
<1>2. \A s \in Pausable : Legal("paused", s) /\ Legal(s, "paused")
  BY DEF Legal, Allowed, Forward
<1>3. \A s \in Redirectable : Legal(s, "architecture")
  BY DEF Legal, Allowed, Forward, Redirectable, Working
<1>4. \A s \in JobState \ Terminal : Legal(s, "cancelled")
  BY DEF Legal, Allowed
<1> QED BY <1>1, <1>2, <1>3, <1>4

-----------------------------------------------------------------------------
(***************************************************************************)
(* How a step ends                                                         *)
(***************************************************************************)
\* Persisting a well-typed row and asking for a legal move keeps the core.
LEMMA StepKeepsCore ==
  ASSUME Core, NEW to \in JobState \cup {Idle}, NEW d, DataType(d),
         to # Idle => Legal(state, to),
         state = "paused" => /\ d.pause_from = data.pause_from
                             /\ to \in {Idle, d.pause_from, "reconcile", "cancelled"},
         to = "paused" => d.pause_from \in Pausable,
         Step(to, d)
  PROVE  Core'
<1>1. DataType(data)'
  BY DEF Step, DataType
<1>2. /\ state' = state /\ failed_from' = failed_from /\ moving' = to
      /\ builder' = builder /\ crashes' = crashes /\ steers' = steers
      /\ data' = d
  BY DEF Step, environment
<1>3. StepsAreLegal' /\ FailureHasAStep' /\ PauseKnowsItsPlace'
  BY <1>2 DEF Core, StepsAreLegal, FailureHasAStep, PauseKnowsItsPlace, Legal
<1> QED BY <1>1, <1>2, <1>3 DEF Core

\* The same for a step that leaves what was built and agreed alone.
LEMMA GoKeepsInv ==
  ASSUME Core, HistoryOK, NEW to \in JobState \cup {Idle}, NEW d, DataType(d),
         to # Idle => Legal(state, to),
         state = "paused" => /\ d.pause_from = data.pause_from
                             /\ to \in {Idle, d.pause_from, "reconcile", "cancelled"},
         to = "paused" => d.pause_from \in Pausable,
         Go(to, d)
  PROVE  Core' /\ HistoryOK'
<1>1. Core' BY StepKeepsCore DEF Go
<1>2. HistoryOK' BY DEF Go, history, HistoryOK
<1> QED BY <1>1, <1>2

\* From a working state a handler may give up, or stop for a person.
LEMMA FailureKeepsInv ==
  ASSUME Core, HistoryOK, state \in Working, NEW d, DataType(d),
         InvocationFailed(d)
  PROVE  Core' /\ HistoryOK'
<1>1. state # "paused" BY DEF Working
<1>2. Legal(state, "failed") /\ Legal(state, "awaiting_decision") BY WorkingCanStop
<1>3. CASE Go("failed", d)
  BY <1>1, <1>2, <1>3, GoKeepsInv DEF JobState, Terminal
<1>4. CASE Go("awaiting_decision", [d EXCEPT !.resume_state = state])
  <2>1. DataType([d EXCEPT !.resume_state = state]) BY DEF DataType, Fields
  <2> QED BY <1>1, <1>2, <1>4, <2>1, GoKeepsInv DEF JobState, Gates
<1> QED BY <1>3, <1>4 DEF InvocationFailed

\* A re-plan is asked for wherever the table lets the Architect be reached.
LEMMA ReplanKeepsInv ==
  ASSUME Core, HistoryOK, NEW i \in Nat, NEW d, DataType(d), state # "paused",
         Legal(state, "architecture"), ReplanFrom(i, d)
  PROVE  Core' /\ HistoryOK'
<1> DEFINE e == [d EXCEPT !.replan_from = i, !.index = i, !.build_attempts = 0,
                          !.violations = FALSE, !.review_rounds = 0,
                          !.phase_budget = FALSE]
<1>1. DataType(e) BY DEF DataType, Fields
<1>2. Go("architecture", e) BY DEF ReplanFrom
<1> QED BY <1>1, <1>2, GoKeepsInv DEF JobState, Working
-----------------------------------------------------------------------------
(***************************************************************************)
(* The handlers                                                            *)
(***************************************************************************)
\* The Product Owner's step.
LEMMA BacklogStep ==
  ASSUME Core, HistoryOK, Backlog PROVE Core' /\ HistoryOK'
<1> DEFINE d == [data EXCEPT !.worktree = TRUE]
           e == [d EXCEPT !.backlog = TRUE]
<1>1. state = "backlog" /\ state \in Working BY DEF Backlog, At, Working
<1>2. DataType(data) /\ DataType(d) /\ DataType(e) BY DEF Core, DataType, Fields
<1>3. CASE Go("failed", data)
  BY <1>1, <1>2, <1>3, GoKeepsInv, WorkingCanStop DEF JobState, Terminal
<1>4. CASE InvocationFailed(d) BY <1>1, <1>2, <1>4, FailureKeepsInv
<1>5. CASE Go("architecture", e)
  BY <1>1, <1>2, <1>5, GoKeepsInv, NamedEdges DEF JobState, Working
<1>6. CASE Go("awaiting_backlog_approval", e)
  BY <1>1, <1>2, <1>6, GoKeepsInv, NamedEdges DEF JobState, Gates
<1> QED BY <1>3, <1>4, <1>5, <1>6 DEF Backlog

\* A plan of the Architect's is a sequence of kinds.
LEMMA PlansAreSequences ==
  ASSUME DevelopmentAssumption, DataType(data), NEW p \in Plans
  PROVE  p \in Seq(Kinds) /\ Kept \in Nat
<1>1. Kept \in Nat BY DEF Kept, DataType, NoPhase
<1>2. PICK n \in (Kept + 1)..MaxPhases : p \in [1..n -> Kinds] BY DEF Plans
<1>3. n \in Nat BY <1>1, <1>2
<1>4. p \in Seq(Kinds) BY <1>2, <1>3
<1> QED BY <1>1, <1>4

\* The Architect's step, which replaces the plan.
LEMMA ArchitectureStep ==
  ASSUME DevelopmentAssumption, Core, HistoryOK, Architecture
  PROVE  Core' /\ HistoryOK'
<1>1. state = "architecture" /\ state \in Working BY DEF Architecture, At, Working
<1>2. DataType(data) BY DEF Core
<1>3. CASE Go("failed", data)
  BY <1>1, <1>2, <1>3, GoKeepsInv, WorkingCanStop DEF JobState, Terminal
<1>4. CASE InvocationFailed(data) BY <1>1, <1>2, <1>4, FailureKeepsInv
<1>5. ASSUME NEW p \in Plans, NEW cases \in BOOLEAN,
             Step("awaiting_architecture_approval",
                  [data EXCEPT !.plan = p, !.index = Kept,
                               !.build_attempts = 0, !.test_cases = cases]),
             built' = built \cap 1..Kept,
             milestones' = milestones \cap {"reran"}, written' = 0
      PROVE  Core' /\ HistoryOK'
  <2> DEFINE d == [data EXCEPT !.plan = p, !.index = Kept,
                               !.build_attempts = 0, !.test_cases = cases]
  <2>1. DataType(d) BY <1>2, PlansAreSequences DEF DataType, Fields
  <2>2. Core' BY <1>1, <1>5, <2>1, StepKeepsCore, NamedEdges DEF JobState, Gates
  <2>3. HistoryOK' BY <1>5 DEF HistoryOK
  <2> QED BY <2>2, <2>3
<1> QED BY <1>3, <1>4, <1>5 DEF Architecture

\* The Designer's step.
LEMMA DesignStep ==
  ASSUME Core, HistoryOK, Design PROVE Core' /\ HistoryOK'
<1>1. state = "design" /\ state \in Working BY DEF Design, At, Working
<1>2. DataType(data) BY DEF Core
<1>3. CASE Go("developing", data)
  BY <1>1, <1>2, <1>3, GoKeepsInv, NamedEdges DEF JobState, Working
<1>4. CASE InvocationFailed(data) BY <1>1, <1>2, <1>4, FailureKeepsInv
<1>5. ASSUME NEW drawn \in {"none", "pending", "approved"},
             Go("developing", [data EXCEPT !.screens = drawn, !.sent_back = FALSE])
      PROVE  Core' /\ HistoryOK'
  <2>1. DataType([data EXCEPT !.screens = drawn, !.sent_back = FALSE])
    BY <1>2 DEF DataType, Fields
  <2> QED BY <1>1, <1>5, <2>1, GoKeepsInv, NamedEdges DEF JobState, Working
<1> QED BY <1>3, <1>4, <1>5 DEF Design

\* Waiting for a machine, from the specialist or from the build.
LEMMA WaitKeepsInv ==
  ASSUME Core, HistoryOK, NEW d, DataType(d), state \in {"developing", "build_gate"},
         WaitForBuilder(d, state)
  PROVE  Core' /\ HistoryOK'
<1>1. DataType([d EXCEPT !.builder_resume = state]) BY DEF DataType, Fields
<1>2. Go("awaiting_builder", [d EXCEPT !.builder_resume = state]) BY DEF WaitForBuilder
<1> QED BY <1>1, <1>2, GoKeepsInv, NamedEdges DEF JobState

\* The specialists' step: a phase is written, waited for or asked about.
LEMMA DevelopSteps ==
  ASSUME Core, HistoryOK, DevelopNothing \/ DevelopLater \/ Develop
  PROVE  Core' /\ HistoryOK'
<1>1. state = "developing" /\ state \in Working
  BY DEF DevelopNothing, DevelopLater, Develop, At, Working
<1>2. DataType(data) BY DEF Core
<1>3. CASE DevelopNothing
  BY <1>1, <1>2, <1>3, GoKeepsInv, WorkingCanStop DEF DevelopNothing, JobState, Terminal
<1>4. CASE DevelopLater BY <1>1, <1>2, <1>4, WaitKeepsInv DEF DevelopLater
<1>5. CASE Develop
  <2>1. PICK p \in [1..Planned -> Kinds] :
          LET d == [data EXCEPT !.plan = p] IN
            \/ Go("awaiting_design_approval", d)
            \/ InvocationFailed(d)
            \/ Go("awaiting_decision", [d EXCEPT !.phase_budget = TRUE,
                                                 !.resume_state = "developing"])
            \/ /\ Step("build_gate", d)
               /\ written' = data.index + 1
               /\ UNCHANGED <<milestones, built>>
    BY <1>5 DEF Develop
  <2> DEFINE d == [data EXCEPT !.plan = p]
             e == [d EXCEPT !.phase_budget = TRUE, !.resume_state = "developing"]
  <2>2. p \in Seq(Kinds)
    <3>1. Planned \in Nat BY <1>2 DEF DataType, Planned
    <3> QED BY <3>1
  <2>3. DataType(d) /\ DataType(e) BY <1>2, <2>2 DEF DataType, Fields, Working
  <2>4. CASE Go("awaiting_design_approval", d)
    BY <1>1, <2>3, <2>4, GoKeepsInv, NamedEdges DEF JobState, Gates
  <2>5. CASE InvocationFailed(d) BY <1>1, <2>3, <2>5, FailureKeepsInv
  <2>6. CASE Go("awaiting_decision", e)
    BY <1>1, <2>3, <2>6, GoKeepsInv, WorkingCanStop DEF JobState, Gates
  <2>7. ASSUME Step("build_gate", d), written' = data.index + 1,
               UNCHANGED <<milestones, built>>
        PROVE  Core' /\ HistoryOK'
    <3>1. Core' BY <1>1, <2>3, <2>7, StepKeepsCore, NamedEdges DEF JobState, Working
    <3>2. HistoryOK' BY <1>2, <2>7 DEF HistoryOK, DataType
    <3> QED BY <3>1, <3>2
  <2> QED BY <2>1, <2>4, <2>5, <2>6, <2>7
<1> QED BY <1>3, <1>4, <1>5

\* A green build moves the plan on.
LEMMA GatePassesStep ==
  ASSUME Core, HistoryOK, GatePasses PROVE Core' /\ HistoryOK'
<1> DEFINE green == [data EXCEPT !.build_attempts = 0]
           next  == [green EXCEPT !.index = @ + 1]
           off   == [green EXCEPT !.rerun_only = FALSE]
<1>1. state = "build_gate" /\ state \in Working BY DEF GatePasses, At, Working
<1>2. DataType(green) /\ DataType(next) /\ DataType(off)
  BY DEF Core, DataType, Fields
<1>3. CASE Go("done", off)
  BY <1>1, <1>2, <1>3, GoKeepsInv, NamedEdges DEF JobState, Terminal
<1>4. ASSUME steers < MaxSteers, steers' = steers + 1,
             data' = green, moving' = "developing",
             UNCHANGED <<state, failed_from, history, builder, crashes>>
      PROVE  Core' /\ HistoryOK'
  <2>1. DataType(data)' BY <1>2, <1>4 DEF DataType
  <2>2. steers' \in 0..MaxSteers BY <1>4, DevelopmentAssumption DEF Core
  <2>3. StepsAreLegal' /\ FailureHasAStep' /\ PauseKnowsItsPlace'
    BY <1>1, <1>4, NamedEdges DEF StepsAreLegal, FailureHasAStep,
       PauseKnowsItsPlace, Legal
  <2>4. Core' BY <1>4, <2>1, <2>2, <2>3 DEF Core, JobState, Working
  <2>5. HistoryOK' BY <1>4 DEF HistoryOK, history
  <2> QED BY <2>4, <2>5
<1>5. ASSUME Step(IF ReviewMode = "off" THEN AfterPhase(next) ELSE "review", next),
             built' = IF written = next.index THEN built \cup {next.index} ELSE built,
             UNCHANGED <<milestones, written>>
      PROVE  Core' /\ HistoryOK'
  <2> DEFINE to == IF ReviewMode = "off" THEN AfterPhase(next) ELSE "review"
  <2>1. to \in {"review", "qa", "developing"} BY DEF AfterPhase
  <2>2. to \in JobState /\ to # "paused" /\ Legal(state, to)
    BY <1>1, <2>1, NamedEdges DEF JobState, Working
  <2>3. Core'
    <3>1. Step(to, next) /\ DataType(next) BY <1>2, <1>5
    <3> HIDE DEF to, next
    <3> QED BY <1>1, <2>2, <3>1, StepKeepsCore
  <2>4. HistoryOK' BY <1>2, <1>5 DEF HistoryOK, DataType
  <2> QED BY <2>3, <2>4
<1> QED BY <1>3, <1>4, <1>5 DEF GatePasses

\* A red build counts an attempt, and a lost machine waits.
LEMMA GateFailsStep ==
  ASSUME Core, HistoryOK, GateFails \/ BuilderLost
  PROVE  Core' /\ HistoryOK'
<1> DEFINE red == [data EXCEPT !.build_attempts = @ + 1, !.rerun_only = FALSE]
           asks == [red EXCEPT !.resume_state = "developing"]
<1>1. state = "build_gate" /\ state \in Working
  BY DEF GateFails, BuilderLost, At, Working
<1>2. DataType(data) /\ DataType(red) /\ DataType(asks)
  BY DEF Core, DataType, Fields, Working
<1>3. CASE BuilderLost BY <1>1, <1>2, <1>3, WaitKeepsInv DEF BuilderLost
<1>4. CASE Go("failed", red)
  BY <1>1, <1>2, <1>4, GoKeepsInv, WorkingCanStop DEF JobState, Terminal
<1>5. CASE Go("developing", red)
  BY <1>1, <1>2, <1>5, GoKeepsInv, NamedEdges DEF JobState, Working
<1>6. CASE ReplanFrom(data.index, red)
  <2>1. data.index \in Nat BY <1>2 DEF DataType
  <2> QED BY <1>1, <1>2, <1>6, <2>1, ReplanKeepsInv, NamedEdges
<1>7. CASE Go("awaiting_decision", asks)
  BY <1>1, <1>2, <1>7, GoKeepsInv, WorkingCanStop DEF JobState, Gates
<1> QED BY <1>3, <1>4, <1>5, <1>6, <1>7 DEF GateFails

\* The standards review: a phase passes, is reworked, or waits for a person.
LEMMA ReviewStep ==
  ASSUME Core, HistoryOK, Review PROVE Core' /\ HistoryOK'
<1> DEFINE clean == [data EXCEPT !.violations = FALSE, !.review_rounds = 0]
           back  == [data EXCEPT !.violations = TRUE, !.index = @ - 1,
                                 !.review_rounds = @ + 1]
           found == [data EXCEPT !.violations = TRUE]
<1>1. state = "review" /\ state \in Working BY DEF Review, At, Working
<1>2. DataType(data) /\ DataType(clean) /\ DataType(found)
  BY DEF Core, DataType, Fields
<1>3. CASE Go("failed", data)
  BY <1>1, <1>2, <1>3, GoKeepsInv, WorkingCanStop DEF JobState, Terminal
<1>4. CASE InvocationFailed(data) BY <1>1, <1>2, <1>4, FailureKeepsInv
<1>5. CASE Go(AfterPhase(data), clean)
  <2>1. AfterPhase(data) \in {"qa", "developing"} BY DEF AfterPhase
  <2> QED BY <1>1, <1>2, <1>5, <2>1, GoKeepsInv, NamedEdges DEF JobState, Working
<1>6. CASE data.index \in 1..Planned /\ Go("developing", back)
  <2>1. data.index - 1 \in Nat BY <1>6, <1>2 DEF DataType, Planned
  <2>2. DataType(back) BY <1>2, <2>1 DEF DataType, Fields
  <2> QED BY <1>1, <1>6, <2>2, GoKeepsInv, NamedEdges DEF JobState, Working
<1>7. CASE Go("awaiting_review_approval", found)
  BY <1>1, <1>2, <1>7, GoKeepsInv, NamedEdges DEF JobState, Gates
<1> QED BY <1>3, <1>4, <1>5, <1>6, <1>7 DEF Review

\* QA's two stages.
LEMMA QaSteps ==
  ASSUME DevelopmentAssumption, Core, HistoryOK, QaPropose \/ QaWrite
  PROVE  Core' /\ HistoryOK'
<1>1. state = "qa" /\ state \in Working BY DEF QaPropose, QaWrite, At, Working
<1>2. DataType(data) BY DEF Core
<1>3. CASE InvocationFailed(data) BY <1>1, <1>2, <1>3, FailureKeepsInv
<1>4. CASE Go("awaiting_test_approval", [data EXCEPT !.test_cases = TRUE])
  <2>1. DataType([data EXCEPT !.test_cases = TRUE]) BY <1>2 DEF DataType, Fields
  <2> QED BY <1>1, <1>4, <2>1, GoKeepsInv, NamedEdges DEF JobState, Gates
<1>5. ASSUME NEW n \in data.build_attempts..(MaxBuildAttempts - 1),
             InvocationFailed([data EXCEPT !.build_attempts = n])
      PROVE  Core' /\ HistoryOK'
  <2>1. n \in Nat BY <1>2, <1>5 DEF DataType, DevelopmentAssumption
  <2>2. DataType([data EXCEPT !.build_attempts = n]) BY <1>2, <2>1 DEF DataType, Fields
  <2> QED BY <1>1, <1>5, <2>2, FailureKeepsInv
<1>6. CASE Go("failed", [data EXCEPT !.build_attempts = MaxBuildAttempts])
  <2>1. DataType([data EXCEPT !.build_attempts = MaxBuildAttempts])
    BY <1>2 DEF DataType, Fields, DevelopmentAssumption
  <2> QED BY <1>1, <1>6, <2>1, GoKeepsInv, WorkingCanStop DEF JobState, Terminal
<1>7. ASSUME Step("awaiting_test_approval", [data EXCEPT !.build_attempts = 0]),
             milestones' = milestones \cup {"written"}, UNCHANGED <<built, written>>
      PROVE  Core' /\ HistoryOK'
  <2>1. DataType([data EXCEPT !.build_attempts = 0]) BY <1>2 DEF DataType, Fields
  <2>2. Core' BY <1>1, <1>7, <2>1, StepKeepsCore, NamedEdges DEF JobState, Gates
  <2>3. HistoryOK' BY <1>7 DEF HistoryOK
  <2> QED BY <2>2, <2>3
<1> QED BY <1>3, <1>4, <1>5, <1>6, <1>7 DEF QaPropose, QaWrite

\* The pull request, reached with the deployment agreed to or waved through.
LEMMA DeliverStep ==
  ASSUME DevelopmentAssumption, Core, HistoryOK, state = "devops",
         NEW d, DataType(d), NEW m \in SUBSET {"deploy"}, Deliver(d, m)
  PROVE  Core' /\ HistoryOK'
<1>1. state \in Working BY DEF Working
<1>2. HistoryOK' BY DEF Deliver, HistoryOK
<1>3. ASSUME NEW to \in {"failed", "awaiting_decision", "done"}, NEW e, DataType(e),
             Step(to, IF to = "awaiting_decision"
                      THEN [e EXCEPT !.resume_state = state] ELSE e)
      PROVE  Core'
  <2>1. Legal(state, to) /\ to \in JobState
    BY <1>1, <1>3, WorkingCanStop, NamedEdges DEF JobState, Gates, Terminal
  <2>2. DataType([e EXCEPT !.resume_state = state]) BY <1>1, <1>3 DEF DataType, Fields
  <2> QED BY <1>3, <2>1, <2>2, StepKeepsCore
<1>4. ASSUME NEW n \in d.ci_attempts..(MaxCiAttempts + 1)
      PROVE  DataType([d EXCEPT !.pr = TRUE, !.ci_attempts = n])
  <2>1. n \in Nat BY <1>4 DEF DataType, DevelopmentAssumption
  <2> QED BY <2>1 DEF DataType, Fields
<1>5. \A n \in (d.ci_attempts + 1)..MaxCiAttempts :
        n \in d.ci_attempts..(MaxCiAttempts + 1)
  BY DEF DataType, DevelopmentAssumption
<1>6. Core' BY <1>3, <1>4, <1>5 DEF Deliver
<1> QED BY <1>2, <1>6

\* DevOps: the scripts, the pull request and its CI.
LEMMA DevopsStep ==
  ASSUME DevelopmentAssumption, Core, HistoryOK, Devops
  PROVE  Core' /\ HistoryOK'
<1>1. state = "devops" /\ state \in Working BY DEF Devops, At, Working
<1>2. DataType(data) BY DEF Core
<1>3. ASSUME NEW d, DataType(d), DeployGate(d)
      PROVE  Core' /\ HistoryOK'
  <2>1. CASE InvocationFailed(d) BY <1>1, <1>3, <2>1, FailureKeepsInv
  <2>2. CASE Go("awaiting_deploy_approval", [d EXCEPT !.scripts = TRUE])
    <3>1. DataType([d EXCEPT !.scripts = TRUE]) BY <1>3 DEF DataType, Fields
    <3> QED BY <1>1, <2>2, <3>1, GoKeepsInv, NamedEdges DEF JobState, Gates
  <2>3. CASE Deliver([d EXCEPT !.scripts = FALSE, !.devops_stage = 2], {"deploy"})
    <3>1. DataType([d EXCEPT !.scripts = FALSE, !.devops_stage = 2])
      BY <1>3 DEF DataType, Fields
    <3> QED BY <1>1, <2>3, <3>1, DeliverStep
  <2> QED BY <1>3, <2>1, <2>2, <2>3 DEF DeployGate
<1>4. CASE InvocationFailed(data) BY <1>1, <1>2, <1>4, FailureKeepsInv
<1>5. CASE Deliver(data, {}) BY <1>1, <1>2, <1>5, DeliverStep
<1>6. CASE Deliver([data EXCEPT !.deploy_written = TRUE], {})
  <2>1. DataType([data EXCEPT !.deploy_written = TRUE]) BY <1>2 DEF DataType, Fields
  <2> QED BY <1>1, <1>6, <2>1, DeliverStep
<1>7. CASE DeployGate([data EXCEPT !.devops_stage = 1])
  <2>1. DataType([data EXCEPT !.devops_stage = 1]) BY <1>2 DEF DataType, Fields
  <2> QED BY <1>3, <1>7, <2>1
<1> QED BY <1>2, <1>3, <1>4, <1>5, <1>6, <1>7 DEF Devops

\* The Architect's reading of what was pushed.
LEMMA ReconcileStep ==
  ASSUME Core, HistoryOK, Reconcile PROVE Core' /\ HistoryOK'
<1> DEFINE start == IF data.pause_index < Planned THEN data.pause_index ELSE Planned
<1>1. state = "reconcile" /\ state \in Working BY DEF Reconcile, At, Working
<1>2. DataType(data) BY DEF Core
<1>3. CASE InvocationFailed(data) BY <1>1, <1>2, <1>3, FailureKeepsInv
<1>4. ASSUME NEW resume \in start..Planned,
             Go("awaiting_reconcile_approval", [data EXCEPT !.resume_phase = resume])
      PROVE  Core' /\ HistoryOK'
  <2>1. resume \in Nat BY <1>2 DEF DataType, Planned
  <2>2. DataType([data EXCEPT !.resume_phase = resume])
    BY <1>2, <2>1 DEF DataType, Fields
  <2> QED BY <1>1, <1>4, <2>2, GoKeepsInv, NamedEdges DEF JobState, Gates
<1> QED BY <1>3, <1>4 DEF Reconcile

\* Every handler of the run loop keeps the core and the history.
LEMMA HandlersKeepInv ==
  ASSUME Core, HistoryOK, Handlers PROVE Core' /\ HistoryOK'
<1>1. CASE HandlerRaises
  <2>1. DataType(data) /\ state \in Working /\ state # "paused"
    BY <1>1 DEF HandlerRaises, Core, Working
  <2> QED BY <1>1, <2>1, GoKeepsInv, WorkingCanStop DEF HandlerRaises, JobState, Terminal
<1>2. CASE Backlog BY <1>2, BacklogStep
<1>3. CASE Architecture BY <1>3, ArchitectureStep, DevelopmentAssumption
<1>4. CASE Design BY <1>4, DesignStep
<1>5. CASE DevelopNothing \/ DevelopLater \/ Develop BY <1>5, DevelopSteps
<1>6. CASE GatePasses BY <1>6, GatePassesStep
<1>7. CASE GateFails \/ BuilderLost BY <1>7, GateFailsStep
<1>8. CASE Review BY <1>8, ReviewStep
<1>9. CASE QaPropose \/ QaWrite BY <1>9, QaSteps, DevelopmentAssumption
<1>10. CASE Devops BY <1>10, DevopsStep, DevelopmentAssumption
<1>11. CASE Reconcile BY <1>11, ReconcileStep
<1> QED
  BY <1>1, <1>2, <1>3, <1>4, <1>5, <1>6, <1>7, <1>8, <1>9, <1>10, <1>11
  DEF Handlers

-----------------------------------------------------------------------------
(***************************************************************************)
(* What people do                                                          *)
(***************************************************************************)
\* A yes: the count of rejections starts again.
LEMMA YesKeepsInv ==
  ASSUME Core, HistoryOK, NEW to \in Working, NEW d, DataType(d),
         Legal(state, to), state # "paused", Yes(to, d)
  PROVE  Core' /\ HistoryOK'
<1>1. DataType([d EXCEPT !.reject_rounds = 0]) BY DEF DataType, Fields
<1>2. to \in JobState /\ to # "paused" BY DEF JobState, Working
<1> QED BY <1>1, <1>2, GoKeepsInv DEF Yes

\* A yes that agrees on something, which the history then remembers.
LEMMA AgreedKeepsInv ==
  ASSUME Core, HistoryOK, NEW to \in Working, NEW d, DataType(d),
         NEW m \in {"plan", "cases", "tests", "deploy"},
         Legal(state, to), state # "paused", Agreed(to, d, m)
  PROVE  Core' /\ HistoryOK'
<1>1. DataType([d EXCEPT !.reject_rounds = 0]) BY DEF DataType, Fields
<1>2. to \in JobState /\ to # "paused" BY DEF JobState, Working
<1>3. Core' BY <1>1, <1>2, StepKeepsCore DEF Agreed
<1>4. HistoryOK' BY DEF Agreed, HistoryOK
<1> QED BY <1>3, <1>4

\* What a stopped development goes on with is always a step.
LEMMA ResumeIsWork ==
  ASSUME NEW d, DataType(d) PROVE Resume(d) \in Working
BY DEF DataType, Resume, Working, Idle

\* Every yes at every gate keeps the core and the history.
LEMMA ApprovalsKeepInv ==
  ASSUME Core, HistoryOK, Approvals PROVE Core' /\ HistoryOK'
<1>1. DataType(data) BY DEF Core
<1>2. CASE ApproveBacklog
  BY <1>1, <1>2, YesKeepsInv, NamedEdges DEF ApproveBacklog, At, JobState, Working
<1>3. CASE ApproveArchitecture
  <2>1. PICK to \in {"design", "developing"} :
          Agreed(to, [data EXCEPT !.replan_from = NoPhase], "plan")
    BY <1>3 DEF ApproveArchitecture
  <2>2. DataType([data EXCEPT !.replan_from = NoPhase]) BY <1>1 DEF DataType, Fields
  <2>3. state = "awaiting_architecture_approval" BY <1>3 DEF ApproveArchitecture, At
  <2> QED BY <2>1, <2>2, <2>3, AgreedKeepsInv, NamedEdges DEF JobState, Working
<1>4. CASE ApproveDesign
  <2> DEFINE d == [data EXCEPT !.screens = "approved", !.sent_back = FALSE]
  <2>1. DataType(d) BY <1>1 DEF DataType, Fields
  <2> QED BY <1>4, <2>1, YesKeepsInv, NamedEdges DEF ApproveDesign, At, JobState, Working
<1>5. CASE ApproveReview
  <2> DEFINE d == [data EXCEPT !.violations = FALSE, !.review_rounds = 0]
  <2>1. DataType(d) BY <1>1 DEF DataType, Fields
  <2>2. AfterPhase(data) \in {"qa", "developing"} BY DEF AfterPhase
  <2> QED BY <1>5, <2>1, <2>2, YesKeepsInv, NamedEdges
          DEF ApproveReview, At, JobState, Working
<1>6. CASE ApproveCases
  <2> DEFINE d == [data EXCEPT !.qa_stage = 2, !.build_attempts = 0]
  <2>1. DataType(d) BY <1>1 DEF DataType, Fields
  <2> QED BY <1>6, <2>1, AgreedKeepsInv, NamedEdges DEF ApproveCases, At, JobState, Working
<1>7. CASE ApproveTests \/ SkipTests
  BY <1>1, <1>7, AgreedKeepsInv, NamedEdges
  DEF ApproveTests, SkipTests, At, JobState, Working
<1>8. CASE ApproveDeploy
  <2>1. DataType([data EXCEPT !.devops_stage = 2]) BY <1>1 DEF DataType, Fields
  <2> QED BY <1>8, <2>1, AgreedKeepsInv, NamedEdges DEF ApproveDeploy, At, JobState, Working
<1>9. CASE SkipDeployment
  <2> DEFINE d == [data EXCEPT !.deploy_skipped = TRUE, !.devops_stage = 2]
  <2>1. DataType(d) BY <1>1 DEF DataType, Fields
  <2> QED BY <1>9, <2>1, AgreedKeepsInv, NamedEdges DEF SkipDeployment, At, JobState, Working
<1>10. CASE ApproveReconcile
  <2>1. PICK resume \in Nat :
          /\ Step(IF resume >= Planned THEN "qa" ELSE "developing",
                  [data EXCEPT !.index = resume, !.build_attempts = 0,
                               !.review_rounds = 0, !.reject_rounds = 0,
                               !.violations = FALSE])
          /\ built' = built \cup (data.pause_index + 1)..resume
          /\ UNCHANGED <<milestones, written>>
    <3> DEFINE r == IF Reading < Planned THEN Reading ELSE Planned
    <3>1. r \in Nat BY <1>1 DEF DataType, Planned, Reading, NoPhase
    <3> QED BY <1>10, <3>1 DEF ApproveReconcile
  <2> DEFINE d == [data EXCEPT !.index = resume, !.build_attempts = 0,
                               !.review_rounds = 0, !.reject_rounds = 0,
                               !.violations = FALSE]
             to == IF resume >= Planned THEN "qa" ELSE "developing"
  <2>2. DataType(d) BY <1>1, <2>1 DEF DataType, Fields
  <2>3. state = "awaiting_reconcile_approval" BY <1>10 DEF ApproveReconcile, At
  <2>4. to \in JobState /\ to # "paused" /\ Legal(state, to)
    BY <2>3, NamedEdges DEF JobState, Working
  <2>5. Step(to, d) BY <2>1
  <2>6. Core'
    <3> HIDE DEF to, d
    <3> QED BY <2>2, <2>3, <2>4, <2>5, StepKeepsCore
  <2>7. HistoryOK' BY <1>1, <2>1 DEF HistoryOK, DataType
  <2> QED BY <2>6, <2>7
<1>11. CASE ApproveDecision
  <2>1. DataType([data EXCEPT !.resume_state = Idle]) BY <1>1 DEF DataType, Fields
  <2>2. Resume(data) \in Working BY <1>1, ResumeIsWork
  <2> QED BY <1>11, <2>1, <2>2, YesKeepsInv, RememberedEdges
          DEF ApproveDecision, At, JobState
<1> QED
  BY <1>2, <1>3, <1>4, <1>5, <1>6, <1>7, <1>8, <1>9, <1>10, <1>11 DEF Approvals

\* So does every no.
LEMMA RejectionsKeepInv ==
  ASSUME Core, HistoryOK, Rejections PROVE Core' /\ HistoryOK'
<1>1. DataType(data) BY DEF Core
<1>2. CASE Reject
  <2>1. PICK gate \in {"awaiting_backlog_approval", "awaiting_architecture_approval",
                       "awaiting_test_approval", "awaiting_deploy_approval",
                       "awaiting_reconcile_approval"} :
          /\ At(gate)
          /\ Go(ApprovalEdge[gate][2], [data EXCEPT !.reject_rounds = OneMoreRejection])
    BY <1>2 DEF Reject
  <2> DEFINE to == ApprovalEdge[gate][2]
             d  == [data EXCEPT !.reject_rounds = OneMoreRejection]
  <2>2. DataType(d) BY <1>1 DEF DataType, Fields, OneMoreRejection
  <2>3. state = gate BY <2>1 DEF At
  <2>4. /\ to \in JobState /\ to # "paused" /\ Legal(gate, to)
    BY NamedEdges DEF ApprovalEdge, JobState, Working
  <2>5. Go(to, d) BY <2>1
  <2> HIDE DEF to, d
  <2> QED BY <2>2, <2>3, <2>4, <2>5, GoKeepsInv
<1>3. CASE RejectReview
  <2> DEFINE d == [data EXCEPT !.index = IF @ = 0 THEN 0 ELSE @ - 1, !.review_rounds = 0]
  <2>1. DataType(d) BY <1>1 DEF DataType, Fields
  <2> QED BY <1>3, <2>1, YesKeepsInv, NamedEdges DEF RejectReview, At, JobState, Working
<1>4. CASE RejectDesign
  <2> DEFINE d == [data EXCEPT !.sent_back = (data.screens = "pending")]
  <2>1. DataType(d) BY <1>1 DEF DataType, Fields
  <2> QED BY <1>4, <2>1, YesKeepsInv, NamedEdges DEF RejectDesign, At, JobState, Working
<1>5. CASE RejectDecision
  <2> DEFINE d == [data EXCEPT !.resume_state = Idle, !.phase_budget = FALSE,
                               !.build_attempts = IF data.phase_budget THEN 0 ELSE @]
  <2>1. DataType(d) BY <1>1 DEF DataType, Fields
  <2>2. Resume(data) \in Working BY <1>1, ResumeIsWork
  <2> QED BY <1>5, <2>1, <2>2, YesKeepsInv, RememberedEdges
          DEF RejectDecision, At, JobState
<1>6. CASE ReviewScreen
  <2> DEFINE yes == [data EXCEPT !.screens = "approved", !.sent_back = FALSE]
             no  == [data EXCEPT !.screens = "pending", !.sent_back = TRUE]
  <2>1. DataType(yes) /\ DataType(no) BY <1>1 DEF DataType, Fields
  <2>2. state = "awaiting_design_approval" BY <1>6 DEF ReviewScreen, At
  <2>3. CASE Go("developing", yes)
    BY <2>1, <2>2, <2>3, GoKeepsInv, NamedEdges DEF JobState, Working
  <2>4. CASE Go("design", no)
    BY <2>1, <2>2, <2>4, GoKeepsInv, NamedEdges DEF JobState, Working
  <2> QED BY <1>6, <2>3, <2>4 DEF ReviewScreen
<1> QED BY <1>2, <1>3, <1>4, <1>5, <1>6 DEF Rejections

\* What people ask for outside the gates, and the place a pause remembers.
LEMMA InterventionsKeepInv ==
  ASSUME Core, HistoryOK, Interventions PROVE Core' /\ HistoryOK'
<1>1. DataType(data) /\ state \in JobState BY DEF Core
<1>2. CASE ReplanPhase
  <2> DEFINE d == [data EXCEPT !.resume_state = Idle]
  <2>1. DataType(d) /\ data.index \in Nat BY <1>1 DEF DataType, Fields
  <2> QED BY <1>2, <2>1, ReplanKeepsInv, RememberedEdges DEF ReplanPhase, At, Working
<1>3. CASE Redirect
  <2> DEFINE d == [data EXCEPT !.resume_state = Idle]
             i == IF Built(data) THEN Planned ELSE data.index
  <2>1. DataType(d) /\ i \in Nat BY <1>1 DEF DataType, Fields, Planned
  <2> QED BY <1>3, <2>1, ReplanKeepsInv, RememberedEdges DEF Redirect, Redirectable
<1>4. CASE Retry
  <2> DEFINE d == [data EXCEPT !.build_attempts = 0, !.review_rounds = 0, !.ci_attempts = 0]
             to == IF failed_from = "build_gate" THEN "developing" ELSE failed_from
  <2>1. DataType(d) BY <1>1 DEF DataType, Fields
  <2>2. state = "failed" /\ Yes(to, d) BY <1>4 DEF Retry, At
  <2>3. to \in Working BY <2>2 DEF Core, FailureHasAStep, Working
  <2> HIDE DEF d, to
  <2> QED BY <2>1, <2>2, <2>3, YesKeepsInv, RememberedEdges DEF JobState
<1>5. CASE Replan
  <2> DEFINE d == [data EXCEPT !.replan_from = NoPhase, !.index = 0, !.build_attempts = 0,
                               !.review_rounds = 0, !.ci_attempts = 0,
                               !.violations = FALSE, !.qa_stage = 1]
  <2>1. DataType(d) BY <1>1 DEF DataType, Fields
  <2> QED BY <1>5, <2>1, YesKeepsInv, RememberedEdges DEF Replan, At, JobState, Working
<1>6. CASE Rerun
  <2>1. PICK back \in {"qa", "build_gate", "devops"} :
          Step(IF Legal(state, back) THEN back ELSE Idle,
               [data EXCEPT !.build_attempts = 0, !.ci_attempts = 0,
                            !.rerun_only = (back = "build_gate"),
                            !.qa_stage = IF back = "qa" THEN 1 ELSE @,
                            !.pr = @ /\ back # "devops"])
    BY <1>6 DEF Rerun
  <2> DEFINE d == [data EXCEPT !.build_attempts = 0, !.ci_attempts = 0,
                               !.rerun_only = (back = "build_gate"),
                               !.qa_stage = IF back = "qa" THEN 1 ELSE @,
                               !.pr = @ /\ back # "devops"]
             to == IF Legal(state, back) THEN back ELSE Idle
  <2>2. DataType(d) BY <1>1 DEF DataType, Fields
  <2>3. /\ to \in JobState \cup {Idle} /\ to # "paused"
        /\ to # Idle => Legal(state, to)
    BY DEF JobState, Working, Idle
  <2>4. Step(to, d) /\ state # "paused" BY <1>6, <2>1 DEF Rerun
  <2>5. Core'
    <3> HIDE DEF d, to
    <3> QED BY <2>2, <2>3, <2>4, StepKeepsCore
  <2>6. HistoryOK' BY <1>6 DEF Rerun, HistoryOK
  <2> QED BY <2>5, <2>6
<1>7. CASE Cancel
  BY <1>1, <1>7, GoKeepsInv, RememberedEdges DEF Cancel, JobState, Terminal
<1>8. CASE Pause
  <2> DEFINE d == [data EXCEPT !.pause_from = state, !.pause_index = data.index,
                               !.pulled = FALSE]
  <2>1. state \in Pausable /\ state # "paused" BY <1>8 DEF Pause, Pausable
  <2>2. DataType(d) /\ d.pause_from \in Pausable BY <1>1, <2>1 DEF DataType, Fields
  <2>3. Go("paused", d) BY <1>8 DEF Pause
  <2> HIDE DEF d
  <2> QED BY <2>1, <2>2, <2>3, GoKeepsInv, RememberedEdges DEF JobState
<1>9. CASE CarryOn
  <2> DEFINE d == [data EXCEPT !.pulled = TRUE]
             e == [d EXCEPT !.resume_phase = NoPhase]
  <2>1. state = "paused" /\ data.pause_from \in Pausable
    BY <1>9 DEF CarryOn, At, Core, PauseKnowsItsPlace
  <2>2. /\ data.pause_from \in JobState /\ data.pause_from # "paused"
        /\ Legal(state, data.pause_from) /\ Legal(state, "reconcile")
    BY <2>1, RememberedEdges DEF Pausable, JobState, Working, Terminal
  <2>3. /\ DataType(d) /\ d.pause_from = data.pause_from
        /\ DataType(e) /\ e.pause_from = data.pause_from
    BY <1>1 DEF DataType, Fields
  <2>4. \/ Go(data.pause_from, data) \/ Go("reconcile", e) \/ Go(data.pause_from, d)
    BY <1>9 DEF CarryOn
  <2>5. "reconcile" \in JobState BY DEF JobState, Working
  <2> HIDE DEF d, e
  <2>6. CASE Go(data.pause_from, data) BY <1>1, <2>1, <2>2, <2>6, GoKeepsInv
  <2>7. CASE Go("reconcile", e) BY <2>1, <2>2, <2>3, <2>5, <2>7, GoKeepsInv
  <2>8. CASE Go(data.pause_from, d) BY <2>1, <2>2, <2>3, <2>8, GoKeepsInv
  <2> QED BY <2>4, <2>6, <2>7, <2>8
<1>10. CASE Remove
  <2> DEFINE d  == [data EXCEPT !.removed = TRUE]
             to == IF state = "paused" THEN "cancelled" ELSE Idle
  <2>1. DataType(d) /\ d.pause_from = data.pause_from BY <1>1 DEF DataType, Fields
  <2>2. /\ to \in JobState \cup {Idle} /\ to # "paused" /\ to \in {Idle, "cancelled"}
        /\ to # Idle => Legal(state, to)
    BY RememberedEdges DEF JobState, Terminal, Idle
  <2>3. Go(to, d) BY <1>10 DEF Remove
  <2> HIDE DEF d, to
  <2> QED BY <2>1, <2>2, <2>3, GoKeepsInv
<1> QED
  BY <1>2, <1>3, <1>4, <1>5, <1>6, <1>7, <1>8, <1>9, <1>10 DEF Interventions

-----------------------------------------------------------------------------
(***************************************************************************)
(* The second commit of a step, the restarts and the machines              *)
(***************************************************************************)
\* Only work can fail, so the failure the history remembers is of a step.
LEMMA OnlyWorkFails ==
  \A s \in JobState : Legal(s, "failed") => s \in Working
BY DEF Legal, Allowed, Forward, JobState, Working, Gates, Terminal, Pausable

\* The move a step asked for is made: what it remembers still holds there.
LEMMA TransitionStep ==
  ASSUME Core, HistoryOK, Transition PROVE Core' /\ HistoryOK'
<1>1. /\ moving \in JobState /\ state' = moving /\ moving' = Idle
      /\ data' = data /\ Legal(state, moving)
      /\ failed_from' = IF moving = "failed" THEN state ELSE failed_from
      /\ UNCHANGED <<history, environment>>
  BY DEF Transition, Core
<1>2. DataType(data)' BY <1>1 DEF Core, DataType
<1>3. moving = "failed" => state \in Working BY <1>1, OnlyWorkFails DEF Core
<1>4. failed_from' \in Working \cup {Idle} BY <1>1, <1>3 DEF Core
<1>5. FailureHasAStep' BY <1>1, <1>3 DEF FailureHasAStep
<1>6. StepsAreLegal' BY <1>1 DEF StepsAreLegal
<1>7. PauseKnowsItsPlace'
  BY <1>1 DEF Core, PauseKnowsItsPlace, Idle, JobState, Working, Gates, Terminal
<1>8. Core' BY <1>1, <1>2, <1>4, <1>5, <1>6, <1>7 DEF Core, environment
<1>9. HistoryOK' BY <1>1 DEF HistoryOK, history
<1> QED BY <1>8, <1>9

\* A restart loses the step under way and nothing that was persisted.
LEMMA CrashStep ==
  ASSUME Core, HistoryOK, Crash PROVE Core' /\ HistoryOK'
<1>1. DataType(data)' BY DEF Crash, Core, DataType
<1>2. crashes' \in 0..MaxCrashes BY DevelopmentAssumption DEF Crash, Core
<1>3. StepsAreLegal' /\ FailureHasAStep' /\ PauseKnowsItsPlace'
  BY DEF Crash, Core, StepsAreLegal, FailureHasAStep, PauseKnowsItsPlace, Idle
<1>4. Core' BY <1>1, <1>2, <1>3 DEF Crash, Core
<1>5. HistoryOK' BY DEF Crash, HistoryOK, history
<1> QED BY <1>4, <1>5

\* A machine that builds what the phase needs ends the wait for one.
LEMMA BuilderReadyStep ==
  ASSUME Core, HistoryOK, BuilderReady PROVE Core' /\ HistoryOK'
<1> DEFINE d == [data EXCEPT !.builder_resume = Idle]
<1>1. /\ state = "awaiting_builder" /\ moving = Idle /\ data' = d
      /\ state' = IF data.builder_resume = Idle THEN "developing"
                                               ELSE data.builder_resume
      /\ UNCHANGED <<failed_from, moving, history, environment>>
  BY DEF BuilderReady, At
<1>2. DataType(d) BY DEF Core, DataType, Fields
<1>3. DataType(data)' BY <1>1, <1>2 DEF DataType
<1>4. state' \in {"developing", "build_gate"} BY <1>1 DEF Core, DataType
<1>5. StepsAreLegal' /\ FailureHasAStep' /\ PauseKnowsItsPlace'
  BY <1>1, <1>4 DEF StepsAreLegal, FailureHasAStep, PauseKnowsItsPlace, Idle
<1>6. Core' BY <1>1, <1>3, <1>4, <1>5 DEF Core, environment, JobState, Working
<1>7. HistoryOK' BY <1>1 DEF HistoryOK, history
<1> QED BY <1>6, <1>7

\* The machines come and go as they like.
LEMMA BuilderStep ==
  ASSUME Core, HistoryOK, BuilderComesOrGoes PROVE Core' /\ HistoryOK'
<1>1. DataType(data)' BY DEF BuilderComesOrGoes, Core, DataType
<1>2. builder' \in BOOLEAN BY DEF BuilderComesOrGoes, Core
<1>3. StepsAreLegal' /\ FailureHasAStep' /\ PauseKnowsItsPlace'
  BY DEF BuilderComesOrGoes, Core, StepsAreLegal, FailureHasAStep,
         PauseKnowsItsPlace, Legal
<1>4. Core' BY <1>1, <1>2, <1>3 DEF BuilderComesOrGoes, Core
<1>5. HistoryOK' BY DEF BuilderComesOrGoes, HistoryOK, history
<1> QED BY <1>4, <1>5

\* Pressing start.
LEMMA StartStep ==
  ASSUME Core, HistoryOK, Start PROVE Core' /\ HistoryOK'
<1>1. state = "created" /\ Go("backlog", data) /\ DataType(data)
  BY DEF Start, At, Core
<1> QED BY <1>1, GoKeepsInv, NamedEdges DEF JobState, Working

-----------------------------------------------------------------------------
(***************************************************************************)
(* The specification                                                       *)
(***************************************************************************)
\* A request nobody has started is a row of the right type.
LEMMA InitKeeps == Init => Inv
<1> SUFFICES ASSUME Init PROVE Inv OBVIOUS
<1>1. DataType(data)
  BY DEF Init, DataType, Fields, NoPhase, Idle
<1>2. /\ state \in JobState /\ moving \in JobState \cup {Idle}
      /\ failed_from \in Working \cup {Idle} /\ builder \in BOOLEAN
      /\ crashes \in 0..MaxCrashes /\ steers \in 0..MaxSteers
      /\ interventions \in 0..MaxInterventions
  BY DevelopmentAssumption DEF Init, JobState
<1>3. StepsAreLegal /\ FailureHasAStep /\ PauseKnowsItsPlace
  BY DEF Init, StepsAreLegal, FailureHasAStep, PauseKnowsItsPlace, Idle
<1>4. HistoryOK BY DEF Init, HistoryOK
<1> QED BY <1>1, <1>2, <1>3, <1>4 DEF Inv, Core

\* Every step of the run loop, of a person and of the machines keeps it.
LEMMA NextKeeps == Inv /\ [Next]_vars => Inv'
<1> SUFFICES ASSUME Inv, [Next]_vars PROVE Inv' OBVIOUS
<1>1. Core /\ HistoryOK /\ interventions \in 0..MaxInterventions BY DEF Inv
<1>2. CASE RunLoop
  <2>1. CASE Handlers BY <1>1, <1>2, <2>1, HandlersKeepInv DEF RunLoop, Inv
  <2>2. CASE Transition BY <1>1, <1>2, <2>2, TransitionStep DEF RunLoop, Inv
  <2> QED BY <1>2, <2>1, <2>2 DEF RunLoop
<1>3. CASE Intervene
  <2>1. Interventions /\ interventions' \in 0..MaxInterventions
    BY <1>1, <1>3, DevelopmentAssumption DEF Intervene
  <2> QED BY <1>1, <2>1, InterventionsKeepInv DEF Inv
<1>4. CASE Answers /\ UNCHANGED interventions
  <2>1. CASE Start BY <1>1, <1>4, <2>1, StartStep DEF Inv
  <2>2. CASE Approvals BY <1>1, <1>4, <2>2, ApprovalsKeepInv DEF Inv
  <2>3. CASE Rejections BY <1>1, <1>4, <2>3, RejectionsKeepInv DEF Inv
  <2> QED BY <1>4, <2>1, <2>2, <2>3 DEF Answers
<1>5. CASE Environment /\ UNCHANGED interventions
  <2>1. CASE Crash BY <1>1, <1>5, <2>1, CrashStep DEF Inv
  <2>2. CASE BuilderReady BY <1>1, <1>5, <2>2, BuilderReadyStep DEF Inv
  <2>3. CASE BuilderComesOrGoes BY <1>1, <1>5, <2>3, BuilderStep DEF Inv
  <2> QED BY <1>5, <2>1, <2>2, <2>3 DEF Environment
<1>6. CASE UNCHANGED vars
  <2>1. /\ UNCHANGED <<state, data, failed_from, moving, interventions>>
        /\ UNCHANGED <<history, environment>>
    BY <1>6 DEF vars
  <2>2. DataType(data)' BY <1>1, <2>1 DEF Core, DataType
  <2>3. StepsAreLegal' /\ FailureHasAStep' /\ PauseKnowsItsPlace'
    BY <1>1, <2>1 DEF Core, StepsAreLegal, FailureHasAStep, PauseKnowsItsPlace, Legal
  <2>4. Core' BY <1>1, <2>1, <2>2, <2>3 DEF Core, environment
  <2>5. HistoryOK' BY <1>1, <2>1 DEF HistoryOK, history
  <2> QED BY <1>1, <2>1, <2>4, <2>5 DEF Inv
<1> QED BY <1>2, <1>3, <1>4, <1>5, <1>6 DEF Next

\* The invariant holds of every development, for all values of the constants.
THEOREM InvHolds == Spec => []Inv
<1>1. Init => Inv BY InitKeeps
<1>2. Inv /\ [Next]_vars => Inv' BY NextKeeps
<1> QED BY <1>1, <1>2, PTL DEF Spec

\* Every field of the row, and of what is kept beside it, keeps its type.
THEOREM TypeCorrect == Spec => []TypeOK
<1>1. Inv => TypeOK BY DEF Inv, Core, HistoryOK, TypeOK
<1> QED BY <1>1, InvHolds, PTL

\* No handler, answer or request asks for a move the orchestrator refuses: a
\* refusal never strikes between the two commits of a step.
THEOREM NoStepIsRefused == Spec => []StepsAreLegal
<1>1. Inv => StepsAreLegal BY DEF Inv, Core
<1> QED BY <1>1, InvHolds, PTL

\* A handler asks for a move and never makes it.
LEMMA HandlersMoveNothing == Handlers => state' = state
<1> USE DEF Go, Step, InvocationFailed
<1>1. Backlog => state' = state BY DEF Backlog
<1>2. Architecture => state' = state BY DEF Architecture
<1>3. Design => state' = state BY DEF Design
<1>4. DevelopNothing \/ DevelopLater => state' = state
  BY DEF DevelopNothing, DevelopLater, WaitForBuilder
<1>5. Develop => state' = state BY DEF Develop
<1>6. GatePasses => state' = state BY DEF GatePasses
<1>7. GateFails \/ BuilderLost => state' = state
  BY DEF GateFails, BuilderLost, WaitForBuilder, ReplanFrom
<1>8. Review => state' = state BY DEF Review
<1>9. QaPropose \/ QaWrite => state' = state BY DEF QaPropose, QaWrite
<1>10. Devops => state' = state
  <2>1. ASSUME NEW d, NEW m, Deliver(d, m) PROVE state' = state
    BY <2>1 DEF Deliver
  <2> QED BY <2>1 DEF Devops, DeployGate
<1>11. Reconcile \/ HandlerRaises => state' = state
  BY DEF Reconcile, HandlerRaises
<1> QED BY <1>1, <1>2, <1>3, <1>4, <1>5, <1>6, <1>7, <1>8, <1>9, <1>10, <1>11
        DEF Handlers

\* Nor does what a person asks for.
LEMMA PeopleMoveNothing == Answers \/ Interventions => state' = state
<1> USE DEF Go, Step, Yes, Agreed
<1>1. Start => state' = state BY DEF Start
<1>2. Approvals => state' = state
  BY DEF Approvals, ApproveBacklog, ApproveArchitecture, ApproveDesign,
         ApproveReview, ApproveCases, ApproveTests, ApproveDeploy,
         ApproveReconcile, ApproveDecision, SkipTests, SkipDeployment
<1>3. Rejections => state' = state
  BY DEF Rejections, Reject, RejectReview, RejectDesign, RejectDecision, ReviewScreen
<1>4. Interventions => state' = state
  BY DEF Interventions, ReplanPhase, Redirect, ReplanFrom, Retry, Replan, Rerun,
         Cancel, Pause, CarryOn, Remove
<1> QED BY <1>1, <1>2, <1>3, <1>4 DEF Answers

\* A paused development goes back to its place, to the reading or to its end.
THEOREM PauseLeadsBack == Spec => PausedOnlyResumes
<1>1. Inv /\ [Next]_vars =>
        [state = "paused" =>
           state' \in {"paused", data.pause_from, "reconcile", "cancelled"}]_vars
  <2> SUFFICES ASSUME Inv, Next, state = "paused"
               PROVE  state' \in {"paused", data.pause_from, "reconcile", "cancelled"}
    BY DEF vars
  <2>1. moving \in {Idle, data.pause_from, "reconcile", "cancelled"}
    BY DEF Inv, Core, PauseKnowsItsPlace
  <2>2. state' = state \/ (moving # Idle /\ state' = moving)
    <3>1. CASE RunLoop
      BY <3>1, HandlersMoveNothing DEF RunLoop, Transition
    <3>2. CASE Intervene BY <3>2, PeopleMoveNothing DEF Intervene
    <3>3. CASE Answers BY <3>3, PeopleMoveNothing
    <3>4. CASE Environment
      BY <3>4 DEF Environment, Crash, BuilderReady, BuilderComesOrGoes, At
    <3> QED BY <3>1, <3>2, <3>3, <3>4 DEF Next
  <2> QED BY <2>1, <2>2
<1> QED BY <1>1, InvHolds, PTL DEF Spec, PausedOnlyResumes

-----------------------------------------------------------------------------
(***************************************************************************)
(* A deleted development is over, or paused on its way to its end.         *)
(***************************************************************************)
RemovedIsOver ==
  data.removed => /\ state \in Terminal \cup {"paused"}
                  /\ moving \in {Idle, "cancelled"}

\* No handler runs a development that is not working, nor deletes it.
LEMMA HandlersRemoveNothing ==
  ASSUME DataType(data), Handlers
  PROVE  state \in Working /\ data'.removed = data.removed
<1> USE DEF At, Go, Step, InvocationFailed, Working, DataType, Fields
<1>1. CASE Backlog BY <1>1 DEF Backlog
<1>2. CASE Architecture BY <1>2 DEF Architecture
<1>3. CASE Design BY <1>3 DEF Design
<1>4. CASE DevelopNothing \/ DevelopLater
  BY <1>4 DEF DevelopNothing, DevelopLater, WaitForBuilder
<1>5. CASE Develop BY <1>5 DEF Develop
<1>6. CASE GatePasses BY <1>6 DEF GatePasses
<1>7. CASE GateFails \/ BuilderLost
  BY <1>7 DEF GateFails, BuilderLost, WaitForBuilder, ReplanFrom
<1>8. CASE Review BY <1>8 DEF Review
<1>9. CASE QaPropose \/ QaWrite BY <1>9 DEF QaPropose, QaWrite
<1>10. CASE Devops
  <2>1. ASSUME NEW d, NEW m, DOMAIN d = Fields, Deliver(d, m)
        PROVE  data'.removed = d.removed
    BY <2>1 DEF Deliver
  <2>2. ASSUME NEW d, DOMAIN d = Fields, DeployGate(d)
        PROVE  data'.removed = d.removed
    <3>1. CASE Deliver([d EXCEPT !.scripts = FALSE, !.devops_stage = 2], {"deploy"})
      <4>1. /\ DOMAIN [d EXCEPT !.scripts = FALSE, !.devops_stage = 2] = Fields
            /\ [d EXCEPT !.scripts = FALSE, !.devops_stage = 2].removed = d.removed
        BY <2>2
      <4> QED BY <2>1, <3>1, <4>1
    <3> QED BY <2>2, <3>1 DEF DeployGate
  <2> QED BY <1>10, <2>1, <2>2 DEF Devops
<1>11. CASE Reconcile \/ HandlerRaises BY <1>11 DEF Reconcile, HandlerRaises
<1> QED BY <1>1, <1>2, <1>3, <1>4, <1>5, <1>6, <1>7, <1>8, <1>9, <1>10, <1>11
        DEF Handlers

\* Nor is there a gate to answer once it was deleted.
LEMMA AnswersRemoveNothing ==
  ASSUME DataType(data), Answers
  PROVE  state \in Gates \cup {"created"} /\ data'.removed = data.removed
<1> USE DEF At, Go, Step, Yes, Agreed, Gates, DataType, Fields
<1>1. CASE Start BY <1>1 DEF Start
<1>2. CASE Approvals
  BY <1>2 DEF Approvals, ApproveBacklog, ApproveArchitecture, ApproveDesign,
         ApproveReview, ApproveCases, ApproveTests, ApproveDeploy,
         ApproveReconcile, ApproveDecision, SkipTests, SkipDeployment
<1>3. CASE Rejections
  BY <1>3 DEF Rejections, Reject, RejectReview, RejectDesign, RejectDecision, ReviewScreen
<1> QED BY <1>1, <1>2, <1>3 DEF Answers

\* Every request but a stop asks first whether it was deleted, or is only for
\* states a deleted development is not in.
LEMMA RequestsLeaveItAlone ==
  ASSUME DataType(data), RemovedIsOver, Interventions
  PROVE  RemovedIsOver' /\ (data.removed => data'.removed)
<1> USE DEF At, Go, Step, Yes, DataType, Fields, RemovedIsOver, Terminal
<1>1. CASE ReplanPhase \/ Redirect
  BY <1>1 DEF ReplanPhase, Redirect, ReplanFrom, Redirectable
<1>2. CASE Retry \/ Replan BY <1>2 DEF Retry, Replan
<1>3. CASE Rerun BY <1>3 DEF Rerun
<1>4. CASE Cancel BY <1>4 DEF Cancel
<1>5. CASE Pause BY <1>5 DEF Pause, Pausable
<1>6. CASE CarryOn BY <1>6 DEF CarryOn
<1>7. CASE Remove BY <1>7 DEF Remove
<1> QED BY <1>1, <1>2, <1>3, <1>4, <1>5, <1>6, <1>7 DEF Interventions

LEMMA DeletedStays ==
  ASSUME Inv, RemovedIsOver, [Next]_vars
  PROVE  /\ RemovedIsOver'
         /\ data.removed => data'.removed /\ state' \in {state, "cancelled"}
<1>1. DataType(data) BY DEF Inv, Core
<1>2. CASE Handlers
  BY <1>1, <1>2, HandlersRemoveNothing DEF RemovedIsOver, Working, Terminal
<1>3. CASE Transition BY <1>3 DEF Transition, RemovedIsOver, Terminal, Idle
<1>4. CASE Interventions
  BY <1>1, <1>4, RequestsLeaveItAlone, PeopleMoveNothing
<1>5. CASE Answers
  BY <1>1, <1>5, AnswersRemoveNothing DEF RemovedIsOver, Gates, Terminal
<1>6. CASE Crash BY <1>6 DEF Crash, RemovedIsOver
<1>7. CASE BuilderReady
  BY <1>1, <1>7 DEF BuilderReady, At, RemovedIsOver, Terminal, DataType, Fields
<1>8. CASE BuilderComesOrGoes BY <1>8 DEF BuilderComesOrGoes, RemovedIsOver
<1>9. CASE UNCHANGED vars BY <1>9 DEF vars, RemovedIsOver
<1> QED BY <1>2, <1>3, <1>4, <1>5, <1>6, <1>7, <1>8, <1>9
        DEF Next, RunLoop, Intervene, Environment

\* Nothing brings a deleted development back to work, whatever is pressed and
\* wherever the server was restarted (remove_job, engine.py).
THEOREM DeletedStaysPut == Spec => RemovedStaysPut
<1>1. Init => RemovedIsOver BY DEF Init, RemovedIsOver
<1>2. Inv /\ RemovedIsOver /\ [Next]_vars => RemovedIsOver' BY DeletedStays
<1>3. Inv /\ RemovedIsOver /\ [Next]_vars =>
        [data.removed => data'.removed /\ state' \in {state, "cancelled"}]_vars
  BY DeletedStays
<1> QED BY <1>1, <1>2, <1>3, InvHolds, PTL DEF Spec, RemovedStaysPut

-----------------------------------------------------------------------------
(***************************************************************************)
(* Where a development is, and where it would go back to.  The properties  *)
(* of the plan are not inductive: a retry, a decision and a carry-on go to *)
(* a state the row or its history remembers, so what is claimed of the     *)
(* state it is in has to hold of every state it can be brought back to.    *)
(* A restart between the two commits of a step breaks the claims (the      *)
(* `restart` run): they are proved up to the first one.                    *)
(*                                                                         *)
(* The predicates are written over the state s, where the development is   *)
(* heading h, where it failed f, and its data d, milestones m, phases      *)
(* built b and phase written w, so that each handler's step is a fact of   *)
(* first-order logic about what it leaves.                                 *)
(***************************************************************************)
Uninterrupted == crashes = 0

Heading  == IF moving = Idle THEN state ELSE moving
FailedAt == IF moving = "failed" THEN state ELSE failed_from

\* A decision is open, or was when the development was paused.
Asking(h, d) ==
  h = "awaiting_decision" \/ (h = "paused" /\ d.pause_from = "awaiting_decision")

\* Where it is heading, and where a retry, a carry-on or a decision leads.
Ways(h, f, d) ==
  {h} \cup (IF h = "failed" THEN {IF f = "build_gate" THEN "developing" ELSE f} ELSE {})
      \cup (IF h = "paused" THEN {d.pause_from} ELSE {})
      \cup (IF Asking(h, d) THEN {Resume(d)} ELSE {})

Tested    == {"qa", "awaiting_test_approval"} \cup Delivering
Reconciling == {"reconcile", "awaiting_reconcile_approval"}
OfPhases(m) == "reran" \notin m \/ "platform" \notin Kinds

\* Unless a step was re-run by hand: s is in a plan that was agreed to, its
\* tests too if it delivers, and QA comes after the last phase and its review.
AgreedAt(s, d, m) ==
  "reran" \notin m =>
    /\ s \in FromThePlan \cup Delivering \cup Reconciling => "plan" \in m
    /\ s \in Delivering => "tests" \in m
    /\ s \in Tested => Built(d) /\ ~d.violations

\* The build at s, or the one a machine owes at s, is of the phase the plan is
\* at; and the place a pause remembers is one the plan had reached.
PlacedAt(s, d, m, b, w) ==
  /\ OfPhases(m) /\ s \in Reconciling \cup {"paused"} => 1..d.pause_index \subseteq b
  /\ OfPhases(m) /\ ~d.rerun_only
       /\ (s = "build_gate" \/ (s = "awaiting_builder" /\ d.builder_resume = "build_gate"))
     => w = d.index + 1
  /\ s = "awaiting_builder" => "platform" \in Kinds

Sound(s, d, m, b, w) == AgreedAt(s, d, m) /\ PlacedAt(s, d, m, b, w)

\* The phases passed, and those a re-plan keeps, are accounted for.
Counted(d, m, b) ==
  OfPhases(m) => /\ 1..d.index \subseteq b
                 /\ d.replan_from # NoPhase => 1..d.replan_from \subseteq b

Whole(s, h, f, d, m, b, w) ==
  /\ Counted(d, m, b)
  /\ AgreedAt(s, d, m)
  /\ \A p \in Ways(h, f, d) : Sound(p, d, m, b, w)
  /\ Asking(h, d) => d.resume_state # Idle
  /\ d.rerun_only => "reran" \in m
  /\ ReviewMode # "blocking" => ~d.violations

PlanInv ==
  Uninterrupted => Whole(state, Heading, FailedAt, data, milestones, built, written)

-----------------------------------------------------------------------------
\* What the predicates look at in the data; violations may have been answered.
Alike(d, e) ==
  /\ e.index = d.index /\ Len(e.plan) = Len(d.plan) /\ e.pause_index = d.pause_index
  /\ e.rerun_only = d.rerun_only /\ (e.violations => d.violations)
  /\ e.replan_from = d.replan_from

\* They look at nothing else, but for a wait's way back.
LEMMA AlikeSound ==
  ASSUME NEW s, NEW d, NEW e, NEW m, NEW b, NEW w, Sound(s, d, m, b, w), Alike(d, e),
         s # "awaiting_builder"
  PROVE  Sound(s, e, m, b, w)
BY DEF Sound, AgreedAt, PlacedAt, Alike, Built

\* Going on to a state that is no end, no pause and no question.
LEMMA Onward ==
  ASSUME NEW s, NEW f, NEW g, NEW d, NEW e, NEW to, NEW m, NEW b, NEW w,
         Whole(s, s, f, d, m, b, w), Alike(d, e),
         to \notin {"failed", "paused", "awaiting_decision"},
         Sound(to, e, m, b, w)
  PROVE  Whole(s, to, g, e, m, b, w)
<1>1. Ways(to, g, e) = {to} /\ ~Asking(to, e) BY DEF Ways, Asking
<1>2. AgreedAt(s, e, m) BY DEF Whole, AgreedAt, Alike, Built
<1>3. Counted(e, m, b) BY DEF Whole, Counted, Alike
<1> QED BY <1>1, <1>2, <1>3 DEF Whole, Alike

\* A step that fails leaves the development where a retry takes it up.
LEMMA Failing ==
  ASSUME NEW s \in Working, NEW f, NEW d, NEW e, NEW m, NEW b, NEW w,
         Whole(s, s, f, d, m, b, w), Alike(d, e)
  PROVE  Whole(s, "failed", s, e, m, b, w)
<1> DEFINE r == IF s = "build_gate" THEN "developing" ELSE s
<1>1. Ways("failed", s, e) = {"failed", r} /\ ~Asking("failed", e)
  BY DEF Ways, Asking
<1>2. Sound(s, d, m, b, w) BY DEF Whole, Ways
<1>3. Sound(s, e, m, b, w) BY <1>2, AlikeSound DEF Working
<1>4. Sound(r, e, m, b, w)
  BY <1>3 DEF Sound, AgreedAt, PlacedAt, FromThePlan, Delivering, Reconciling, Tested
<1>5. Sound("failed", e, m, b, w)
  BY DEF Sound, AgreedAt, PlacedAt, FromThePlan, Delivering, Reconciling, Tested
<1>6. AgreedAt(s, e, m) BY <1>3 DEF Sound
<1>7. Counted(e, m, b) BY DEF Whole, Counted, Alike
<1> QED BY <1>1, <1>4, <1>5, <1>6, <1>7 DEF Whole, Alike

\* A step that stops for a person leaves it where the answer takes it up.
LEMMA Stopping ==
  ASSUME NEW s \in Working, NEW f, NEW g, NEW d, NEW e, NEW m, NEW b, NEW w,
         Whole(s, s, f, d, m, b, w), Alike(d, e),
         \/ e.resume_state = s
         \/ s \in {"developing", "build_gate"} /\ e.resume_state = "developing"
  PROVE  Whole(s, "awaiting_decision", g, e, m, b, w)
<1>1. Ways("awaiting_decision", g, e) = {"awaiting_decision", e.resume_state}
  BY DEF Ways, Asking, Resume, Working, Idle
<1>2. Sound(s, d, m, b, w) BY DEF Whole, Ways
<1>3. Sound(s, e, m, b, w) BY <1>2, AlikeSound DEF Working
<1>4. Sound(e.resume_state, e, m, b, w)
  BY <1>3 DEF Sound, AgreedAt, PlacedAt, FromThePlan, Delivering, Reconciling, Tested
<1>5. Sound("awaiting_decision", e, m, b, w)
  BY DEF Sound, AgreedAt, PlacedAt, FromThePlan, Delivering, Reconciling, Tested
<1>6. AgreedAt(s, e, m) BY <1>3 DEF Sound
<1>7. Counted(e, m, b) BY DEF Whole, Counted, Alike
<1>8. e.resume_state # Idle BY DEF Working, Idle
<1> QED BY <1>1, <1>4, <1>5, <1>6, <1>7, <1>8 DEF Whole, Alike

\* Going on with what the step changed, where nothing else is at stake.
LEMMA OnwardWith ==
  ASSUME NEW s, NEW f, NEW g, NEW d, NEW e, NEW to, NEW m, NEW b, NEW w, NEW a, NEW v,
         Whole(s, s, f, d, m, a, v),
         to \notin {"failed", "paused", "awaiting_decision"},
         Counted(e, m, b), AgreedAt(s, e, m), Sound(to, e, m, b, w),
         e.rerun_only => d.rerun_only, ReviewMode # "blocking" => ~e.violations
  PROVE  Whole(s, to, g, e, m, b, w)
<1>1. Ways(to, g, e) = {to} /\ ~Asking(to, e) BY DEF Ways, Asking
<1> QED BY <1>1 DEF Whole

\* What is agreed to stays agreed to, as long as nobody re-runs a step.
LEMMA Growing ==
  ASSUME NEW s, NEW h, NEW f, NEW d, NEW m, NEW n, NEW b, NEW w,
         Whole(s, h, f, d, m, b, w), m \subseteq n, "reran" \in n => "reran" \in m
  PROVE  Whole(s, h, f, d, n, b, w)
<1>1. ASSUME NEW p, AgreedAt(p, d, m) PROVE AgreedAt(p, d, n)
  BY <1>1 DEF AgreedAt
<1>2. ASSUME NEW p, PlacedAt(p, d, m, b, w) PROVE PlacedAt(p, d, n, b, w)
  BY <1>2 DEF PlacedAt, OfPhases
<1>3. Counted(d, n, b) BY DEF Whole, Counted, OfPhases
<1> QED BY <1>1, <1>2, <1>3 DEF Whole, Sound

\* A re-plan keeps no more than the phases passed, and goes to the Architect.
LEMMA Replanning ==
  ASSUME NEW s, NEW f, NEW g, NEW d, NEW e, NEW m, NEW b, NEW w,
         Whole(s, s, f, d, m, b, w), s \notin Tested, d.index \in Nat,
         e.index \in 0..d.index, e.replan_from = e.index, ~e.violations,
         e.rerun_only => d.rerun_only
  PROVE  Whole(s, "architecture", g, e, m, b, w)
<1>1. Counted(e, m, b) BY DEF Whole, Counted
<1>2. AgreedAt(s, e, m) BY DEF Whole, AgreedAt
<1>3. Sound("architecture", e, m, b, w)
  BY DEF Sound, AgreedAt, PlacedAt, FromThePlan, Delivering, Reconciling, Tested
<1> QED BY <1>1, <1>2, <1>3, OnwardWith

\* From a step's own words: what it leaves, when nothing crashed before.
LEMMA Arrives ==
  ASSUME NEW to, NEW d, Step(to, d), to # Idle, Uninterrupted,
         Whole(state, to, IF to = "failed" THEN state ELSE failed_from, d,
               milestones', built', written')
  PROVE  PlanInv'
<1>1. /\ Heading' = to /\ data' = d /\ state' = state
      /\ FailedAt' = IF to = "failed" THEN state ELSE failed_from
  BY DEF Step, Heading, FailedAt
<1> QED BY <1>1 DEF PlanInv

\* A development at rest is heading where it is.
LEMMA AtRest ==
  ASSUME NEW s, At(s), PlanInv, Uninterrupted
  PROVE  Whole(s, s, failed_from, data, milestones, built, written)
<1>1. moving = Idle /\ state = s /\ Heading = s BY DEF At, Heading
<1>2. FailedAt = failed_from BY <1>1 DEF FailedAt, Idle
<1> QED BY <1>1, <1>2 DEF PlanInv

\* A call that did not work fails the step, or stops it for a person.
LEMMA FailureIsSound ==
  ASSUME NEW s \in Working, At(s), PlanInv, Uninterrupted, NEW d, DataType(d),
         Alike(data, d), InvocationFailed(d)
  PROVE  PlanInv'
<1>1. Whole(s, s, failed_from, data, milestones, built, written) BY AtRest
<1>2. state = s BY DEF At
<1>3. CASE Go("failed", d)
  <2>1. Whole(s, "failed", s, d, milestones, built, written) BY <1>1, Failing
  <2> QED BY <1>2, <1>3, <2>1, Arrives DEF Go, history, Idle
<1>4. CASE Go("awaiting_decision", [d EXCEPT !.resume_state = state])
  <2> DEFINE e == [d EXCEPT !.resume_state = state]
  <2>1. Alike(data, e) /\ e.resume_state = s BY <1>2 DEF Alike, DataType, Fields
  <2>2. Step("awaiting_decision", e) /\ UNCHANGED history BY <1>4 DEF Go
  <2> HIDE DEF e
  <2>3. Whole(s, "awaiting_decision", failed_from, e, milestones, built, written)
    BY <1>1, <2>1, Stopping
  <2> QED BY <1>2, <2>2, <2>3, Arrives DEF history, Idle
<1> QED BY <1>3, <1>4 DEF InvocationFailed

\* A step that goes on, from a development at rest.
LEMMA GoesOn ==
  ASSUME NEW s, At(s), PlanInv, Uninterrupted, NEW d, NEW to, Alike(data, d),
         to \notin {"failed", "paused", "awaiting_decision", Idle},
         Sound(to, d, milestones, built, written), Go(to, d)
  PROVE  PlanInv'
<1>1. Whole(s, s, failed_from, data, milestones, built, written) BY AtRest
<1>2. Whole(s, to, failed_from, d, milestones, built, written) BY <1>1, Onward
<1> QED BY <1>2, Arrives DEF Go, history, At

\* A step that fails, wherever it had come to.
LEMMA Fails ==
  ASSUME NEW s \in Working, At(s), PlanInv, Uninterrupted, NEW d, Alike(data, d),
         Go("failed", d)
  PROVE  PlanInv'
<1>1. Whole(s, s, failed_from, data, milestones, built, written) BY AtRest
<1>2. Whole(s, "failed", s, d, milestones, built, written) BY <1>1, Failing
<1> QED BY <1>2, Arrives DEF Go, history, Idle, At

-----------------------------------------------------------------------------
(***************************************************************************)
(* The handlers                                                            *)
(***************************************************************************)
\* What holds at a state holds along the plan from it: the specialists' states
\* ask only for an agreed plan.
LEMMA SoundHere ==
  ASSUME NEW s, At(s), PlanInv, Uninterrupted
  PROVE  Sound(s, data, milestones, built, written)
BY AtRest DEF Whole, Ways

Specialists == {"design", "awaiting_design_approval", "developing", "review",
                "awaiting_review_approval"}

LEMMA SoundAmongSpecialists ==
  ASSUME NEW s \in FromThePlan \cup Delivering \cup Reconciling, NEW to \in Specialists,
         NEW d, NEW e, NEW m, NEW a, NEW b, NEW v, NEW w, Sound(s, d, m, a, v)
  PROVE  Sound(to, e, m, b, w)
BY DEF Sound, AgreedAt, PlacedAt, Specialists, FromThePlan, Delivering, Reconciling, Tested

\* Nothing is claimed of the states before the plan is agreed to, nor of an end.
Claimless == {"created", "backlog", "awaiting_backlog_approval", "architecture",
              "awaiting_architecture_approval", "failed", "cancelled",
              "awaiting_decision"}

LEMMA SoundUnclaimed ==
  ASSUME NEW to \in Claimless, NEW d, NEW m, NEW b, NEW w
  PROVE  Sound(to, d, m, b, w)
BY DEF Sound, AgreedAt, PlacedAt, Claimless, FromThePlan, Delivering, Reconciling, Tested

\* The Product Owner's step.
LEMMA BacklogPlan ==
  ASSUME Core, PlanInv, Uninterrupted, Backlog PROVE PlanInv'
<1> DEFINE d == [data EXCEPT !.worktree = TRUE]
           e == [d EXCEPT !.backlog = TRUE]
<1>1. At("backlog") /\ "backlog" \in Working BY DEF Backlog, Working
<1>2. DataType(d) /\ Alike(data, data) /\ Alike(data, d) /\ Alike(data, e)
  BY DEF Core, DataType, Fields, Alike
<1>3. CASE Go("failed", data) BY <1>1, <1>2, <1>3, Fails
<1>4. CASE InvocationFailed(d) BY <1>1, <1>2, <1>4, FailureIsSound
<1>5. ASSUME NEW to \in {"architecture", "awaiting_backlog_approval"}, Go(to, e)
      PROVE  PlanInv'
  <2>1. Sound(to, e, milestones, built, written) BY SoundUnclaimed DEF Claimless
  <2> HIDE DEF e
  <2> QED BY <1>1, <1>2, <1>5, <2>1, GoesOn DEF Idle
<1> QED BY <1>3, <1>4, <1>5 DEF Backlog

\* A plan made again keeps the phases a re-plan names, and is not agreed to.
LEMMA ArchitecturePlan ==
  ASSUME DevelopmentAssumption, Core, PlanInv, Uninterrupted, Architecture
  PROVE  PlanInv'
<1>1. At("architecture") /\ "architecture" \in Working BY DEF Architecture, Working
<1>2. DataType(data) /\ Alike(data, data) BY DEF Core, Alike
<1>3. CASE Go("failed", data) BY <1>1, <1>2, <1>3, Fails
<1>4. CASE InvocationFailed(data) BY <1>1, <1>2, <1>4, FailureIsSound
<1>5. ASSUME NEW p \in Plans, NEW cases \in BOOLEAN,
             Step("awaiting_architecture_approval",
                  [data EXCEPT !.plan = p, !.index = Kept,
                               !.build_attempts = 0, !.test_cases = cases]),
             built' = built \cap 1..Kept,
             milestones' = milestones \cap {"reran"}, written' = 0
      PROVE  PlanInv'
  <2> DEFINE d == [data EXCEPT !.plan = p, !.index = Kept,
                               !.build_attempts = 0, !.test_cases = cases]
             to == "awaiting_architecture_approval"
  <2>1. Whole("architecture", "architecture", failed_from, data, milestones, built, written)
    BY <1>1, AtRest
  <2>2. /\ d.index = Kept /\ d.replan_from = data.replan_from
        /\ d.rerun_only = data.rerun_only /\ d.violations = data.violations
    BY <1>2 DEF DataType, Fields
  <2>3. OfPhases(milestones') <=> OfPhases(milestones) BY <1>5 DEF OfPhases
  <2>4. Kept \in Nat /\ (Kept # 0 => /\ Kept = data.replan_from
                                    /\ data.replan_from # NoPhase)
    <3>1. data.replan_from \in Nat \cup {NoPhase} BY <1>2 DEF DataType
    <3> QED BY <3>1 DEF Kept
  <2>5. OfPhases(milestones) => 1..Kept \subseteq built
    BY <2>1, <2>4 DEF Whole, Counted
  <2>6. Counted(d, milestones', built')
    BY <1>5, <2>2, <2>3, <2>4, <2>5 DEF Counted, Kept
  <2>7. AgreedAt("architecture", d, milestones')
    BY DEF AgreedAt, FromThePlan, Delivering, Reconciling, Tested
  <2>8. Ways(to, failed_from, d) = {to} /\ ~Asking(to, d) BY DEF Ways, Asking
  <2>9. Sound(to, d, milestones', built', written') BY SoundUnclaimed DEF Claimless
  <2>10. Whole("architecture", to, failed_from, d, milestones', built', written')
    BY <1>5, <2>1, <2>2, <2>6, <2>7, <2>8, <2>9 DEF Whole
  <2> HIDE DEF d
  <2> QED BY <1>1, <1>5, <2>10, Arrives DEF At, Idle, d
<1> QED BY <1>3, <1>4, <1>5 DEF Architecture

\* The Designer's step.
LEMMA DesignPlan ==
  ASSUME Core, PlanInv, Uninterrupted, Design PROVE PlanInv'
<1>1. At("design") /\ "design" \in Working BY DEF Design, Working
<1>2. DataType(data) /\ Alike(data, data) BY DEF Core, Alike
<1>3. CASE InvocationFailed(data) BY <1>1, <1>2, <1>3, FailureIsSound
<1>4. ASSUME NEW d, Alike(data, d), Go("developing", d) PROVE PlanInv'
  <2>1. Sound("developing", d, milestones, built, written)
    BY <1>1, SoundHere, SoundAmongSpecialists DEF Specialists, FromThePlan
  <2> QED BY <1>1, <1>4, <2>1, GoesOn DEF Idle
<1>5. \A drawn : Alike(data, [data EXCEPT !.screens = drawn, !.sent_back = FALSE])
  BY <1>2 DEF DataType, Fields, Alike
<1> QED BY <1>1, <1>2, <1>3, <1>4, <1>5 DEF Design

\* Waiting for a machine: the phase whose build it owes stays the one written.
LEMMA WaitPlan ==
  ASSUME Core, PlanInv, Uninterrupted, NEW s \in {"developing", "build_gate"}, At(s),
         "platform" \in Kinds, WaitForBuilder(data, s)
  PROVE  PlanInv'
<1> DEFINE e == [data EXCEPT !.builder_resume = s]
<1>1. Alike(data, e) /\ e.builder_resume = s BY DEF Core, DataType, Fields, Alike
<1>2. Go("awaiting_builder", e) BY DEF WaitForBuilder
<1>3. Sound(s, data, milestones, built, written) BY SoundHere
<1> HIDE DEF e
<1>4. Sound("awaiting_builder", e, milestones, built, written)
  BY <1>1, <1>3 DEF Sound, AgreedAt, PlacedAt, Alike, FromThePlan, Delivering,
     Reconciling, Tested
<1> QED BY <1>1, <1>2, <1>4, GoesOn DEF Idle

\* Phases wait only where some need a machine.
LEMMA UnbuildableIsPlatform ==
  ASSUME Core, NEW i \in 1..Planned, ~Buildable(data.plan[i])
  PROVE  "platform" \in Kinds
BY DEF Core, DataType, Planned, Buildable

\* The specialists' step: what is written is the phase the plan is at.
LEMMA DevelopPlan ==
  ASSUME Core, PlanInv, Uninterrupted, DevelopNothing \/ DevelopLater \/ Develop
  PROVE  PlanInv'
<1>1. At("developing") /\ "developing" \in Working
  BY DEF DevelopNothing, DevelopLater, Develop, Working
<1>2. DataType(data) /\ Alike(data, data) BY DEF Core, Alike
<1>3. CASE DevelopNothing BY <1>1, <1>2, <1>3, Fails DEF DevelopNothing
<1>4. CASE DevelopLater
  <2>1. data.index + 1 \in 1..Planned /\ ~Buildable(data.plan[data.index + 1])
    BY <1>2, <1>4 DEF DevelopLater, Built, DataType, Planned
  <2>2. "platform" \in Kinds BY <2>1, UnbuildableIsPlatform
  <2> QED BY <1>1, <1>4, <2>2, WaitPlan DEF DevelopLater
<1>5. CASE Develop
  <2>1. PICK p \in [1..Planned -> Kinds] :
          LET d == [data EXCEPT !.plan = p] IN
            \/ Go("awaiting_design_approval", d)
            \/ InvocationFailed(d)
            \/ Go("awaiting_decision", [d EXCEPT !.phase_budget = TRUE,
                                                 !.resume_state = "developing"])
            \/ /\ Step("build_gate", d)
               /\ written' = data.index + 1
               /\ UNCHANGED <<milestones, built>>
    BY <1>5 DEF Develop
  <2> DEFINE d == [data EXCEPT !.plan = p]
             e == [d EXCEPT !.phase_budget = TRUE, !.resume_state = "developing"]
  <2>2. p \in Seq(Kinds) /\ Len(p) = Planned
    <3>1. Planned \in Nat BY <1>2 DEF DataType, Planned
    <3> QED BY <3>1
  <2>3. DataType(d) BY <1>2, <2>2 DEF DataType, Fields
  <2>4. Alike(data, d) /\ Alike(data, e) /\ e.resume_state = "developing"
    BY <1>2, <2>2 DEF DataType, Fields, Alike, Planned
  <2>5. Sound("developing", data, milestones, built, written) BY <1>1, SoundHere
  <2>6. CASE Go("awaiting_design_approval", d)
    <3> HIDE DEF d
    <3>1. Sound("awaiting_design_approval", d, milestones, built, written)
      BY <2>5, SoundAmongSpecialists DEF Specialists, FromThePlan
    <3> QED BY <1>1, <2>4, <2>6, <3>1, GoesOn DEF Idle
  <2>7. CASE InvocationFailed(d) BY <1>1, <2>3, <2>4, <2>7, FailureIsSound
  <2>8. CASE Go("awaiting_decision", e)
    <3> HIDE DEF e
    <3>1. Whole("developing", "awaiting_decision", failed_from, e, milestones, built, written)
      BY <1>1, <2>4, AtRest, Stopping
    <3> QED BY <1>1, <2>8, <3>1, Arrives DEF Go, history, Idle, At
  <2>9. ASSUME Step("build_gate", d), written' = data.index + 1,
               UNCHANGED <<milestones, built>>
        PROVE  PlanInv'
    <3> HIDE DEF d
    <3>1. Whole("developing", "developing", failed_from, data, milestones, built, written)
      BY <1>1, AtRest
    <3>2. Sound("build_gate", d, milestones, built, data.index + 1)
      BY <2>4, <2>5 DEF Sound, AgreedAt, PlacedAt, Alike, FromThePlan, Delivering,
         Reconciling, Tested
    <3>3. Sound("developing", data, milestones, built, data.index + 1)
      BY <2>5, SoundAmongSpecialists DEF Specialists, FromThePlan
    <3>4. Whole("developing", "developing", failed_from, data, milestones, built,
                data.index + 1)
      BY <3>1, <3>3 DEF Whole, Ways, Asking
    <3>5. Whole("developing", "build_gate", failed_from, d, milestones, built,
                data.index + 1)
      BY <2>4, <3>2, <3>4, Onward
    <3> QED BY <1>1, <2>9, <3>5, Arrives DEF At, Idle
  <2> QED BY <2>1, <2>6, <2>7, <2>8, <2>9
<1> QED BY <1>3, <1>4, <1>5

\* A green build: the phase it was of is one more built, and QA comes only
\* after the last; a build that was re-run by hand ends there.
LEMMA GatePassesPlan ==
  ASSUME Core, PlanInv, Uninterrupted, GatePasses PROVE PlanInv'
<1> DEFINE green == [data EXCEPT !.build_attempts = 0]
           next  == [green EXCEPT !.index = @ + 1]
           off   == [green EXCEPT !.rerun_only = FALSE]
<1>1. At("build_gate") BY DEF GatePasses
<1>2. DataType(data) BY DEF Core
<1>3. Whole("build_gate", "build_gate", failed_from, data, milestones, built, written)
  BY <1>1, AtRest
<1>4. Sound("build_gate", data, milestones, built, written) BY <1>1, SoundHere
<1>5. CASE data.rerun_only /\ Go("done", off)
  <2>1. /\ off.index = data.index /\ off.replan_from = data.replan_from
        /\ off.violations = data.violations /\ ~off.rerun_only
    BY <1>2 DEF DataType, Fields
  <2>2. Step("done", off) /\ UNCHANGED history BY <1>5 DEF Go
  <2> HIDE DEF off
  <2>3. "reran" \in milestones BY <1>3, <1>5 DEF Whole
  <2>4. Counted(off, milestones, built) BY <1>3, <2>1 DEF Whole, Counted
  <2>5. AgreedAt("build_gate", off, milestones) BY <2>3 DEF AgreedAt
  <2>6. Sound("done", off, milestones, built, written)
    BY <2>3 DEF Sound, AgreedAt, PlacedAt, Reconciling
  <2>7. ReviewMode # "blocking" => ~off.violations BY <1>3, <2>1 DEF Whole
  <2>8. Whole("build_gate", "done", failed_from, off, milestones, built, written)
    BY <1>3, <2>1, <2>4, <2>5, <2>6, <2>7, OnwardWith
  <2> QED BY <1>1, <2>2, <2>8, Arrives DEF history, At, Idle
<1>6. ASSUME data' = green, moving' = "developing",
             UNCHANGED <<state, failed_from, history, builder, crashes>>
      PROVE  PlanInv'
  <2>1. Alike(data, green) BY <1>2 DEF DataType, Fields, Alike
  <2> HIDE DEF green
  <2>2. Sound("developing", green, milestones, built, written)
    BY <1>4, SoundAmongSpecialists DEF Specialists, FromThePlan
  <2>3. Whole("build_gate", "developing", failed_from, green, milestones, built, written)
    BY <1>3, <2>1, <2>2, Onward
  <2>4. Heading' = "developing" /\ FailedAt' = failed_from /\ state' = "build_gate"
    BY <1>1, <1>6 DEF Heading, FailedAt, At, Idle
  <2> QED BY <1>6, <2>3, <2>4 DEF PlanInv, history
<1>7. ASSUME ~data.rerun_only,
             Step(IF ReviewMode = "off" THEN AfterPhase(next) ELSE "review", next),
             built' = IF written = next.index THEN built \cup {next.index} ELSE built,
             UNCHANGED <<milestones, written>>
      PROVE  PlanInv'
  <2> DEFINE to == IF ReviewMode = "off" THEN AfterPhase(next) ELSE "review"
  <2>1. /\ next.index = data.index + 1 /\ next.replan_from = data.replan_from
        /\ next.violations = data.violations /\ next.rerun_only = data.rerun_only
        /\ data.index \in Nat
    BY <1>2 DEF DataType, Fields
  <2>2. Step(to, next) BY <1>7
  <2>3. /\ to \in {"review", "qa", "developing"}
        /\ to = "qa" => Built(next) /\ ReviewMode = "off"
    BY DEF AfterPhase
  <2> HIDE DEF to, next
  <2>4. OfPhases(milestones) => written = data.index + 1
    BY <1>4, <1>7 DEF Sound, PlacedAt
  <2>5. Counted(next, milestones, built')
    <3>1. OfPhases(milestones) => built' = built \cup {data.index + 1}
      BY <1>7, <2>1, <2>4
    <3>2. 1..(data.index + 1) \subseteq (1..data.index) \cup {data.index + 1} BY <2>1
    <3> QED BY <1>3, <2>1, <3>1, <3>2 DEF Whole, Counted
  <2>6. AgreedAt("build_gate", next, milestones)
    BY <1>4 DEF Sound, AgreedAt, Tested, Delivering
  <2>7. Sound(to, next, milestones, built', written')
    BY <1>3, <1>4, <2>1, <2>3 DEF Whole, Sound, AgreedAt, PlacedAt, FromThePlan, Delivering,
       Reconciling, Tested
  <2>8. ReviewMode # "blocking" => ~next.violations BY <1>3, <2>1 DEF Whole
  <2>9. Whole("build_gate", to, failed_from, next, milestones, built', written')
    BY <1>3, <2>1, <2>3, <2>5, <2>6, <2>7, <2>8, OnwardWith
  <2> QED BY <1>1, <1>7, <2>2, <2>3, <2>9, Arrives DEF At, Idle
<1> QED BY <1>5, <1>6, <1>7 DEF GatePasses

\* A red build goes back to the specialist, by whatever way: what was re-run by
\* hand is the specialist's work again.
LEMMA LeavingTheGate ==
  ASSUME NEW f, NEW d, NEW e, NEW to, NEW m, NEW b, NEW w,
         Whole("build_gate", "build_gate", f, d, m, b, w),
         e.index = d.index, e.replan_from = d.replan_from,
         e.violations = d.violations, ~e.rerun_only,
         \/ to \in {"failed", "developing"}
         \/ to = "awaiting_decision" /\ e.resume_state = "developing"
  PROVE  Whole("build_gate", to, IF to = "failed" THEN "build_gate" ELSE f, e, m, b, w)
<1>1. Ways(to, IF to = "failed" THEN "build_gate" ELSE f, e) \subseteq {to, "developing"}
  BY DEF Ways, Asking, Resume, Idle
<1>2. AgreedAt("build_gate", d, m) BY DEF Whole
<1>3. AgreedAt("build_gate", e, m) BY <1>2 DEF AgreedAt, Tested, Delivering
<1>4. Sound("developing", e, m, b, w) /\ Sound(to, e, m, b, w)
  BY <1>2 DEF Sound, AgreedAt, PlacedAt, FromThePlan, Delivering, Reconciling, Tested
<1>5. Counted(e, m, b) BY DEF Whole, Counted
<1>6. Asking(to, e) => e.resume_state # Idle BY DEF Asking, Idle
<1> QED BY <1>1, <1>3, <1>4, <1>5, <1>6 DEF Whole

LEMMA GateFailsPlan ==
  ASSUME Core, PlanInv, Uninterrupted, GateFails \/ BuilderLost PROVE PlanInv'
<1> DEFINE red  == [data EXCEPT !.build_attempts = @ + 1, !.rerun_only = FALSE]
           asks == [red EXCEPT !.resume_state = "developing"]
           from == [red EXCEPT !.replan_from = data.index, !.index = data.index,
                               !.build_attempts = 0, !.violations = FALSE,
                               !.review_rounds = 0, !.phase_budget = FALSE]
<1>1. At("build_gate") BY DEF GateFails, BuilderLost
<1>2. DataType(data) BY DEF Core
<1>3. Whole("build_gate", "build_gate", failed_from, data, milestones, built, written)
  BY <1>1, AtRest
<1>4. CASE BuilderLost
  <2>1. "platform" \in Kinds
    BY <1>2, <1>4 DEF BuilderLost, Built, DataType
  <2> QED BY <1>1, <1>4, <2>1, WaitPlan DEF BuilderLost
<1>5. /\ red.index = data.index /\ red.replan_from = data.replan_from
      /\ red.violations = data.violations /\ ~red.rerun_only
      /\ asks.index = data.index /\ asks.replan_from = data.replan_from
      /\ asks.violations = data.violations /\ ~asks.rerun_only
      /\ asks.resume_state = "developing"
      /\ from.index = data.index /\ from.replan_from = data.index /\ data.index \in Nat
      /\ ~from.violations /\ ~from.rerun_only
  BY <1>2 DEF DataType, Fields
<1> HIDE DEF red, asks, from
<1>6. ASSUME NEW to \in {"failed", "developing"}, Go(to, red) PROVE PlanInv'
  <2>1. Whole("build_gate", to, IF to = "failed" THEN "build_gate" ELSE failed_from,
              red, milestones, built, written)
    BY <1>3, <1>5, LeavingTheGate
  <2> QED BY <1>1, <1>6, <2>1, Arrives DEF Go, history, At, Idle
<1>7. CASE Go("awaiting_decision", asks)
  <2>1. Whole("build_gate", "awaiting_decision", failed_from, asks, milestones, built, written)
    BY <1>3, <1>5, LeavingTheGate
  <2> QED BY <1>1, <1>7, <2>1, Arrives DEF Go, history, At, Idle
<1>8. CASE Go("architecture", from)
  <2>1. Whole("build_gate", "architecture", failed_from, from, milestones, built, written)
    BY <1>3, <1>5, Replanning DEF Tested, Delivering
  <2> QED BY <1>1, <1>8, <2>1, Arrives DEF Go, history, At, Idle
<1> QED BY <1>4, <1>6, <1>7, <1>8 DEF GateFails, ReplanFrom, red, asks, from

\* The standards review: what it found is on the record until it is answered,
\* and the phase it sends back is no longer counted.
LEMMA ReviewPlan ==
  ASSUME Core, PlanInv, Uninterrupted, Review PROVE PlanInv'
<1> DEFINE clean == [data EXCEPT !.violations = FALSE, !.review_rounds = 0]
           back  == [data EXCEPT !.violations = TRUE, !.index = @ - 1,
                                 !.review_rounds = @ + 1]
           found == [data EXCEPT !.violations = TRUE]
<1>1. At("review") /\ "review" \in Working BY DEF Review, Working
<1>2. DataType(data) /\ Alike(data, data) BY DEF Core, Alike
<1>3. Whole("review", "review", failed_from, data, milestones, built, written)
  BY <1>1, AtRest
<1>4. Sound("review", data, milestones, built, written) BY <1>1, SoundHere
<1>5. CASE Go("failed", data) BY <1>1, <1>2, <1>5, Fails
<1>6. CASE InvocationFailed(data) BY <1>1, <1>2, <1>6, FailureIsSound
<1>7. CASE Go(AfterPhase(data), clean)
  <2>1. Alike(data, clean) /\ ~clean.violations /\ clean.index = data.index
    BY <1>2 DEF DataType, Fields, Alike
  <2> HIDE DEF clean
  <2>2. /\ AfterPhase(data) \in {"qa", "developing"}
        /\ AfterPhase(data) = "qa" => Built(clean)
    BY <2>1 DEF AfterPhase, Built, Alike
  <2>3. Sound(AfterPhase(data), clean, milestones, built, written)
    BY <1>4, <2>1, <2>2 DEF Sound, AgreedAt, PlacedAt, FromThePlan, Delivering,
       Reconciling, Tested
  <2> QED BY <1>1, <1>7, <2>1, <2>2, <2>3, GoesOn DEF Idle
<1>8. ASSUME NEW e, NEW to, e.index \in 0..data.index, e.replan_from = data.replan_from,
             e.rerun_only = data.rerun_only, ReviewMode = "blocking",
             to \in {"developing", "awaiting_review_approval"}, Go(to, e)
      PROVE  PlanInv'
  <2>1. data.index \in Nat BY <1>2 DEF DataType
  <2>2. Counted(e, milestones, built) BY <1>3, <1>8, <2>1 DEF Whole, Counted
  <2>3. AgreedAt("review", e, milestones)
    BY <1>4 DEF Sound, AgreedAt, Tested, Delivering
  <2>4. Sound(to, e, milestones, built, written)
    BY <1>4, <1>8, SoundAmongSpecialists DEF Specialists, FromThePlan
  <2>5. Whole("review", to, failed_from, e, milestones, built, written)
    BY <1>3, <1>8, <2>2, <2>3, <2>4, OnwardWith
  <2> QED BY <1>1, <1>8, <2>5, Arrives DEF Go, history, At, Idle
<1>9. /\ found.index = data.index /\ found.replan_from = data.replan_from
      /\ found.rerun_only = data.rerun_only
      /\ back.index = data.index - 1 /\ back.replan_from = data.replan_from
      /\ back.rerun_only = data.rerun_only /\ data.index \in Nat
  BY <1>2 DEF DataType, Fields
<1>10. CASE ReviewMode = "blocking" /\ Go("awaiting_review_approval", found)
  <2> HIDE DEF found
  <2> QED BY <1>8, <1>9, <1>10
<1>11. CASE ReviewMode = "blocking" /\ data.index \in 1..Planned /\ Go("developing", back)
  <2> HIDE DEF back
  <2>1. back.index \in 0..data.index BY <1>9, <1>11
  <2> QED BY <1>8, <1>9, <1>11, <2>1
<1> QED BY <1>5, <1>6, <1>7, <1>10, <1>11 DEF Review

\* QA's two stages, and what DevOps has agreed to, stay with the whole plan.
LEMMA SoundAmongTested ==
  ASSUME NEW s \in Tested, NEW to \in Tested, NEW d, NEW e, NEW m, NEW b, NEW w,
         Sound(s, d, m, b, w), Alike(d, e), to \in Delivering => s \in Delivering
  PROVE  Sound(to, e, m, b, w)
BY DEF Sound, AgreedAt, PlacedAt, Alike, Built, FromThePlan, Delivering, Reconciling, Tested

LEMMA QaPlan ==
  ASSUME DevelopmentAssumption, Core, PlanInv, Uninterrupted, QaPropose \/ QaWrite
  PROVE  PlanInv'
<1>1. At("qa") /\ "qa" \in Working BY DEF QaPropose, QaWrite, Working
<1>2. DataType(data) /\ Alike(data, data) BY DEF Core, Alike
<1>3. Sound("qa", data, milestones, built, written) BY <1>1, SoundHere
<1>4. CASE InvocationFailed(data) BY <1>1, <1>2, <1>4, FailureIsSound
<1>5. CASE Go("awaiting_test_approval", [data EXCEPT !.test_cases = TRUE])
  <2> DEFINE d == [data EXCEPT !.test_cases = TRUE]
  <2>1. Alike(data, d) BY <1>2 DEF DataType, Fields, Alike
  <2> HIDE DEF d
  <2>2. Sound("awaiting_test_approval", d, milestones, built, written)
    BY <1>3, <2>1, SoundAmongTested DEF Tested, Delivering
  <2>3. Go("awaiting_test_approval", d) BY <1>5 DEF d
  <2> QED BY <1>1, <2>1, <2>2, <2>3, GoesOn DEF Idle
<1>6. ASSUME NEW n \in data.build_attempts..(MaxBuildAttempts - 1),
             InvocationFailed([data EXCEPT !.build_attempts = n])
      PROVE  PlanInv'
  <2>1. n \in Nat BY <1>2, <1>6 DEF DataType, DevelopmentAssumption
  <2>2. /\ DataType([data EXCEPT !.build_attempts = n])
        /\ Alike(data, [data EXCEPT !.build_attempts = n])
    BY <1>2, <2>1 DEF DataType, Fields, Alike
  <2> QED BY <1>1, <1>6, <2>2, FailureIsSound
<1>7. CASE Go("failed", [data EXCEPT !.build_attempts = MaxBuildAttempts])
  <2>1. Alike(data, [data EXCEPT !.build_attempts = MaxBuildAttempts])
    BY <1>2 DEF DataType, Fields, Alike
  <2> QED BY <1>1, <1>7, <2>1, Fails
<1>8. ASSUME Step("awaiting_test_approval", [data EXCEPT !.build_attempts = 0]),
             milestones' = milestones \cup {"written"}, UNCHANGED <<built, written>>
      PROVE  PlanInv'
  <2> DEFINE d == [data EXCEPT !.build_attempts = 0]
  <2>1. Alike(data, d) BY <1>2 DEF DataType, Fields, Alike
  <2> HIDE DEF d
  <2>2. Sound("awaiting_test_approval", d, milestones, built, written)
    BY <1>3, <2>1, SoundAmongTested DEF Tested, Delivering
  <2>3. Whole("qa", "awaiting_test_approval", failed_from, d, milestones, built, written)
    BY <1>1, <2>1, <2>2, AtRest, Onward
  <2>4. Whole("qa", "awaiting_test_approval", failed_from, d, milestones', built', written')
    BY <1>8, <2>3, Growing
  <2>5. Step("awaiting_test_approval", d) BY <1>8 DEF d
  <2> QED BY <1>1, <2>4, <2>5, Arrives DEF At, Idle
<1> QED BY <1>4, <1>5, <1>6, <1>7, <1>8 DEF QaPropose, QaWrite

\* The pull request, whatever comes of it.
LEMMA DeliverPlan ==
  ASSUME Core, PlanInv, Uninterrupted, At("devops"), NEW d, DataType(d), Alike(data, d),
         NEW m \in SUBSET {"deploy"}, Deliver(d, m)
  PROVE  PlanInv'
<1>1. Whole("devops", "devops", failed_from, data, milestones, built, written) BY AtRest
<1>2. Sound("devops", data, milestones, built, written) BY SoundHere
<1>3. milestones' = milestones \cup m /\ UNCHANGED <<built, written>> BY DEF Deliver
<1>4. state = "devops" BY DEF At
<1>5. ASSUME NEW to \in {"failed", "awaiting_decision", "done"}, NEW e,
             DOMAIN e = Fields, Alike(data, e),
             Step(to, IF to = "awaiting_decision"
                      THEN [e EXCEPT !.resume_state = state] ELSE e)
      PROVE  PlanInv'
  <2> DEFINE a == [e EXCEPT !.resume_state = state]
             x == IF to = "awaiting_decision" THEN a ELSE e
             f == IF to = "failed" THEN "devops" ELSE failed_from
  <2>1. Alike(data, a) /\ a.resume_state = "devops" BY <1>4, <1>5 DEF Alike, Fields
  <2>2. Step(to, x) BY <1>5
  <2> HIDE DEF a
  <2>3. Whole("devops", to, f, x, milestones, built, written)
    <3>1. CASE to = "failed" BY <1>1, <1>5, <3>1, Failing DEF Working
    <3>2. CASE to = "awaiting_decision" BY <1>1, <2>1, <3>2, Stopping DEF Working
    <3>3. CASE to = "done"
      <4>1. Sound("done", e, milestones, built, written)
        BY <1>2, <1>5, SoundAmongTested DEF Tested, Delivering
      <4> QED BY <1>1, <1>5, <3>3, <4>1, Onward
    <3> QED BY <3>1, <3>2, <3>3
  <2>4. Whole("devops", to, f, x, milestones', built', written')
    BY <1>3, <2>3, Growing
  <2> HIDE DEF x
  <2> QED BY <1>4, <1>5, <2>2, <2>4, Arrives DEF Idle
<1>6. ASSUME NEW n
      PROVE  LET e == [d EXCEPT !.pr = TRUE, !.ci_attempts = n]
             IN  Alike(data, e) /\ DOMAIN e = Fields
  BY DEF DataType, Fields, Alike
<1>7. DOMAIN d = Fields BY DEF DataType
<1> QED BY <1>5, <1>6, <1>7 DEF Deliver

\* DevOps: the scripts, the pull request and its CI.
LEMMA DevopsPlan ==
  ASSUME Core, PlanInv, Uninterrupted, Devops PROVE PlanInv'
<1>1. At("devops") /\ "devops" \in Working BY DEF Devops, Working
<1>2. DataType(data) /\ Alike(data, data) BY DEF Core, Alike
<1>3. Sound("devops", data, milestones, built, written) BY <1>1, SoundHere
<1>4. ASSUME NEW d, DataType(d), Alike(data, d), DeployGate(d) PROVE PlanInv'
  <2>1. CASE InvocationFailed(d) BY <1>1, <1>4, <2>1, FailureIsSound
  <2>2. CASE Go("awaiting_deploy_approval", [d EXCEPT !.scripts = TRUE])
    <3> DEFINE e == [d EXCEPT !.scripts = TRUE]
    <3>1. Alike(data, e) BY <1>4 DEF DataType, Fields, Alike
    <3>2. Go("awaiting_deploy_approval", e) BY <2>2
    <3> HIDE DEF e
    <3>3. Sound("awaiting_deploy_approval", e, milestones, built, written)
      BY <1>3, <3>1, SoundAmongTested DEF Tested, Delivering
    <3> QED BY <1>1, <3>1, <3>2, <3>3, GoesOn DEF Idle
  <2>3. CASE Deliver([d EXCEPT !.scripts = FALSE, !.devops_stage = 2], {"deploy"})
    <3>1. /\ DataType([d EXCEPT !.scripts = FALSE, !.devops_stage = 2])
          /\ Alike(data, [d EXCEPT !.scripts = FALSE, !.devops_stage = 2])
      BY <1>4 DEF DataType, Fields, Alike
    <3> QED BY <1>1, <2>3, <3>1, DeliverPlan
  <2> QED BY <1>4, <2>1, <2>2, <2>3 DEF DeployGate
<1>5. CASE InvocationFailed(data) BY <1>1, <1>2, <1>5, FailureIsSound
<1>6. CASE Deliver(data, {}) BY <1>1, <1>2, <1>6, DeliverPlan
<1>7. CASE Deliver([data EXCEPT !.deploy_written = TRUE], {})
  <2>1. /\ DataType([data EXCEPT !.deploy_written = TRUE])
        /\ Alike(data, [data EXCEPT !.deploy_written = TRUE])
    BY <1>2 DEF DataType, Fields, Alike
  <2> QED BY <1>1, <1>7, <2>1, DeliverPlan
<1>8. CASE DeployGate([data EXCEPT !.devops_stage = 1])
  <2>1. /\ DataType([data EXCEPT !.devops_stage = 1])
        /\ Alike(data, [data EXCEPT !.devops_stage = 1])
    BY <1>2 DEF DataType, Fields, Alike
  <2> QED BY <1>4, <1>8, <2>1
<1> QED BY <1>2, <1>4, <1>5, <1>6, <1>7, <1>8 DEF Devops

\* The Architect's reading of what was pushed.
LEMMA ReconcilePlan ==
  ASSUME Core, PlanInv, Uninterrupted, Reconcile PROVE PlanInv'
<1>1. At("reconcile") /\ "reconcile" \in Working BY DEF Reconcile, Working
<1>2. DataType(data) /\ Alike(data, data) BY DEF Core, Alike
<1>3. CASE InvocationFailed(data) BY <1>1, <1>2, <1>3, FailureIsSound
<1>4. ASSUME NEW resume,
             Go("awaiting_reconcile_approval", [data EXCEPT !.resume_phase = resume])
      PROVE  PlanInv'
  <2> DEFINE d == [data EXCEPT !.resume_phase = resume]
  <2>1. Alike(data, d) BY <1>2 DEF DataType, Fields, Alike
  <2>2. Go("awaiting_reconcile_approval", d) BY <1>4
  <2> HIDE DEF d
  <2>3. Sound("awaiting_reconcile_approval", d, milestones, built, written)
    BY <1>1, <2>1, SoundHere DEF Sound, AgreedAt, PlacedAt, Alike, FromThePlan,
       Delivering, Reconciling, Tested
  <2> QED BY <1>1, <2>1, <2>2, <2>3, GoesOn DEF Idle
<1> QED BY <1>3, <1>4 DEF Reconcile

\* Every handler of the run loop.
LEMMA HandlersPlan ==
  ASSUME Core, PlanInv, Uninterrupted, Handlers PROVE PlanInv'
<1>1. CASE HandlerRaises
  <2>1. state \in Working /\ At(state) /\ Alike(data, data) /\ Go("failed", data)
    BY <1>1 DEF HandlerRaises, At, Alike
  <2> QED BY <2>1, Fails
<1>2. CASE Backlog BY <1>2, BacklogPlan
<1>3. CASE Architecture BY <1>3, ArchitecturePlan, DevelopmentAssumption
<1>4. CASE Design BY <1>4, DesignPlan
<1>5. CASE DevelopNothing \/ DevelopLater \/ Develop BY <1>5, DevelopPlan
<1>6. CASE GatePasses BY <1>6, GatePassesPlan
<1>7. CASE GateFails \/ BuilderLost BY <1>7, GateFailsPlan
<1>8. CASE Review BY <1>8, ReviewPlan
<1>9. CASE QaPropose \/ QaWrite BY <1>9, QaPlan, DevelopmentAssumption
<1>10. CASE Devops BY <1>10, DevopsPlan
<1>11. CASE Reconcile BY <1>11, ReconcilePlan
<1> QED
  BY <1>1, <1>2, <1>3, <1>4, <1>5, <1>6, <1>7, <1>8, <1>9, <1>10, <1>11
  DEF Handlers

-----------------------------------------------------------------------------
(***************************************************************************)
(* What a person answers, and asks for                                     *)
(***************************************************************************)
Elsewhere == {"failed", "paused", "awaiting_decision", "awaiting_builder", Idle}

\* An answer that leaves the plan as it is.
LEMMA YesPlan ==
  ASSUME NEW s, At(s), PlanInv, Uninterrupted, NEW d, DOMAIN d = Fields, Alike(data, d),
         NEW to, to \notin Elsewhere, Sound(to, d, milestones, built, written), Yes(to, d)
  PROVE  PlanInv'
<1> DEFINE e == [d EXCEPT !.reject_rounds = 0]
<1>1. Alike(d, e) /\ Alike(data, e) BY DEF Alike, Fields
<1>2. Go(to, e) BY DEF Yes
<1> HIDE DEF e
<1>3. Sound(to, e, milestones, built, written) BY <1>1, AlikeSound DEF Elsewhere
<1> QED BY <1>1, <1>2, <1>3, GoesOn DEF Elsewhere

\* An agreement, which may be what the next state asks for.
LEMMA AgreedPlan ==
  ASSUME NEW s, At(s), PlanInv, Uninterrupted, NEW d, DOMAIN d = Fields, Alike(data, d),
         NEW to, to \notin Elsewhere, NEW milestone, milestone # "reran",
         Sound(to, d, milestones \cup {milestone}, built, written),
         Agreed(to, d, milestone)
  PROVE  PlanInv'
<1> DEFINE e == [d EXCEPT !.reject_rounds = 0]
           m == milestones \cup {milestone}
<1>1. Alike(d, e) /\ Alike(data, e) BY DEF Alike, Fields
<1>2. Step(to, e) /\ milestones' = m /\ UNCHANGED <<built, written>> BY DEF Agreed
<1>3. Whole(s, s, failed_from, data, milestones, built, written) BY AtRest
<1>4. Whole(s, s, failed_from, data, m, built, written) BY <1>3, Growing
<1> HIDE DEF e, m
<1>5. Sound(to, e, m, built, written) BY <1>1, AlikeSound DEF Elsewhere, m
<1>6. Whole(s, to, failed_from, e, m, built, written) BY <1>1, <1>4, <1>5, Onward DEF Elsewhere
<1> QED BY <1>2, <1>6, Arrives DEF At, Elsewhere

\* The plan is agreed to, and what a re-plan kept is kept.
LEMMA ApproveArchitecturePlan ==
  ASSUME Core, PlanInv, Uninterrupted, ApproveArchitecture PROVE PlanInv'
<1> DEFINE s == "awaiting_architecture_approval"
           d == [data EXCEPT !.replan_from = NoPhase]
           e == [d EXCEPT !.reject_rounds = 0]
           m == milestones \cup {"plan"}
<1>1. At(s) /\ DataType(data) BY DEF ApproveArchitecture, Core
<1>2. PICK to \in {"design", "developing"} : Agreed(to, d, "plan")
  BY DEF ApproveArchitecture
<1>3. Step(to, e) /\ milestones' = m /\ UNCHANGED <<built, written>> BY <1>2 DEF Agreed
<1>4. /\ e.index = data.index /\ e.replan_from = NoPhase
      /\ e.rerun_only = data.rerun_only /\ e.violations = data.violations
  BY <1>1 DEF DataType, Fields
<1>5. Whole(s, s, failed_from, data, milestones, built, written) BY <1>1, AtRest
<1>6. Whole(s, s, failed_from, data, m, built, written) BY <1>5, Growing
<1> HIDE DEF e, m
<1>7. Counted(e, m, built) BY <1>4, <1>6 DEF Whole, Counted
<1>8. AgreedAt(s, e, m)
  BY DEF AgreedAt, FromThePlan, Delivering, Reconciling, Tested
<1>9. Sound(to, e, m, built, written)
  BY <1>2 DEF Sound, AgreedAt, PlacedAt, FromThePlan, Delivering, Reconciling, Tested, m
<1>10. ReviewMode # "blocking" => ~e.violations BY <1>4, <1>6 DEF Whole
<1>11. Whole(s, to, failed_from, e, m, built, written)
  BY <1>2, <1>4, <1>6, <1>7, <1>8, <1>9, <1>10, OnwardWith
<1> QED BY <1>1, <1>2, <1>3, <1>11, Arrives DEF At, Idle

\* What the reading found finished by hand is counted from the pause on.
LEMMA ApproveReconcilePlan ==
  ASSUME Core, PlanInv, Uninterrupted, ApproveReconcile PROVE PlanInv'
<1> DEFINE s == "awaiting_reconcile_approval"
<1>1. At(s) /\ DataType(data) BY DEF ApproveReconcile, Core
<1>2. PICK resume \in Nat :
        /\ Step(IF resume >= Planned THEN "qa" ELSE "developing",
                [data EXCEPT !.index = resume, !.build_attempts = 0,
                             !.review_rounds = 0, !.reject_rounds = 0,
                             !.violations = FALSE])
        /\ built' = built \cup (data.pause_index + 1)..resume
        /\ UNCHANGED <<milestones, written>>
  <2> DEFINE r == IF Reading < Planned THEN Reading ELSE Planned
  <2>1. r \in Nat BY <1>1 DEF DataType, Planned, Reading, NoPhase
  <2> QED BY <2>1 DEF ApproveReconcile
<1> DEFINE e == [data EXCEPT !.index = resume, !.build_attempts = 0,
                             !.review_rounds = 0, !.reject_rounds = 0,
                             !.violations = FALSE]
           to == IF resume >= Planned THEN "qa" ELSE "developing"
<1>3. Step(to, e) BY <1>2
<1>4. /\ e.index = resume /\ e.replan_from = data.replan_from /\ e.plan = data.plan
      /\ e.rerun_only = data.rerun_only /\ ~e.violations
  BY <1>1 DEF DataType, Fields
<1>5. to \in {"qa", "developing"} /\ (to = "qa" => Built(e))
  BY <1>4 DEF Built, Planned
<1> HIDE DEF e, to
<1>6. Whole(s, s, failed_from, data, milestones, built, written) BY <1>1, AtRest
<1>7. Sound(s, data, milestones, built, written) BY <1>1, SoundHere
<1>8. Counted(e, milestones, built')
  <2>1. data.pause_index \in Nat BY <1>1 DEF DataType
  <2>2. 1..resume \subseteq 1..data.pause_index \cup (data.pause_index + 1)..resume
    BY <1>2, <2>1
  <2>3. OfPhases(milestones) => 1..data.pause_index \subseteq built
    BY <1>7 DEF Sound, PlacedAt, Reconciling
  <2> QED BY <1>2, <1>4, <1>6, <2>2, <2>3 DEF Whole, Counted
<1>9. AgreedAt(s, e, milestones)
  BY <1>7 DEF Sound, AgreedAt, Tested, Delivering
<1>10. Sound(to, e, milestones, built', written)
  BY <1>4, <1>5, <1>7 DEF Sound, AgreedAt, PlacedAt, FromThePlan, Delivering,
     Reconciling, Tested
<1>11. Whole(s, to, failed_from, e, milestones, built', written)
  BY <1>4, <1>5, <1>6, <1>8, <1>9, <1>10, OnwardWith
<1> QED BY <1>1, <1>2, <1>3, <1>5, <1>11, Arrives DEF At, Idle

\* A decision goes back to where the work was, which the row remembers.
LEMMA DecisionPlan ==
  ASSUME Core, PlanInv, Uninterrupted, At("awaiting_decision"),
         NEW d, DOMAIN d = Fields, Alike(data, d), Yes(Resume(data), d)
  PROVE  PlanInv'
<1>1. Resume(data) \in Working BY ResumeIsWork DEF Core
<1>2. Resume(data) \notin Elsewhere BY <1>1 DEF Working, Elsewhere, Idle
<1>3. Whole("awaiting_decision", "awaiting_decision", failed_from, data, milestones,
            built, written)
  BY AtRest
<1>4. Sound(Resume(data), data, milestones, built, written)
  BY <1>3 DEF Whole, Ways, Asking
<1>5. Sound(Resume(data), d, milestones, built, written)
  BY <1>2, <1>4, AlikeSound DEF Elsewhere
<1> QED BY <1>2, <1>5, YesPlan

\* Every yes, and what is waved through.
LEMMA ApprovalsPlan ==
  ASSUME Core, PlanInv, Uninterrupted, Approvals PROVE PlanInv'
<1>1. DataType(data) /\ DOMAIN data = Fields /\ Alike(data, data)
  BY DEF Core, DataType, Alike
<1>2. CASE ApproveBacklog
  <2>1. At("awaiting_backlog_approval") /\ Yes("architecture", data)
    BY <1>2 DEF ApproveBacklog
  <2>2. Sound("architecture", data, milestones, built, written)
    BY SoundUnclaimed DEF Claimless
  <2> QED BY <1>1, <2>1, <2>2, YesPlan DEF Elsewhere, Idle
<1>3. CASE ApproveArchitecture BY <1>3, ApproveArchitecturePlan
<1>4. CASE ApproveDesign
  <2> DEFINE d == [data EXCEPT !.screens = "approved", !.sent_back = FALSE]
  <2>1. DOMAIN d = Fields /\ Alike(data, d) BY <1>1 DEF DataType, Fields, Alike
  <2>2. At("awaiting_design_approval") /\ Yes("developing", d) BY <1>4 DEF ApproveDesign
  <2> HIDE DEF d
  <2>3. Sound("developing", d, milestones, built, written)
    BY <2>2, SoundHere, SoundAmongSpecialists DEF Specialists, FromThePlan
  <2> QED BY <2>1, <2>2, <2>3, YesPlan DEF Elsewhere, Idle
<1>5. CASE ApproveReview
  <2> DEFINE d == [data EXCEPT !.violations = FALSE, !.review_rounds = 0]
             to == AfterPhase(data)
  <2>1. /\ DOMAIN d = Fields /\ Alike(data, d)
        /\ ~d.violations /\ d.index = data.index /\ d.plan = data.plan
    BY <1>1 DEF DataType, Fields, Alike
  <2>2. At("awaiting_review_approval") /\ Yes(to, d) BY <1>5 DEF ApproveReview
  <2>3. to \in {"qa", "developing"} /\ (to = "qa" => Built(d))
    BY <2>1 DEF AfterPhase, Built
  <2>4. Sound("awaiting_review_approval", data, milestones, built, written)
    BY <2>2, SoundHere
  <2> HIDE DEF d, to
  <2>5. Sound(to, d, milestones, built, written)
    BY <2>1, <2>3, <2>4 DEF Sound, AgreedAt, PlacedAt, FromThePlan, Delivering,
       Reconciling, Tested
  <2> QED BY <2>1, <2>2, <2>3, <2>5, YesPlan DEF Elsewhere, Idle
<1>6. CASE ApproveCases
  <2> DEFINE d == [data EXCEPT !.qa_stage = 2, !.build_attempts = 0]
  <2>1. DOMAIN d = Fields /\ Alike(data, d) BY <1>1 DEF DataType, Fields, Alike
  <2>2. At("awaiting_test_approval") /\ Agreed("qa", d, "cases") BY <1>6 DEF ApproveCases
  <2> HIDE DEF d
  <2>3. Sound("qa", d, milestones, built, written)
    BY <2>1, <2>2, SoundHere, SoundAmongTested DEF Tested, Delivering
  <2>4. Sound("qa", d, milestones \cup {"cases"}, built, written)
    BY <2>3 DEF Sound, AgreedAt, PlacedAt, OfPhases
  <2> QED BY <2>1, <2>2, <2>4, AgreedPlan DEF Elsewhere, Idle
<1>7. ASSUME NEW d, DOMAIN d = Fields, Alike(data, d), NEW milestone \in {"tests", "deploy"},
             \/ At("awaiting_test_approval") /\ milestone = "tests"
             \/ At("awaiting_deploy_approval"),
             Agreed("devops", d, milestone)
      PROVE  PlanInv'
  <2>1. PICK s \in {"awaiting_test_approval", "awaiting_deploy_approval"} :
          At(s) /\ (s = "awaiting_test_approval" => milestone = "tests")
    BY <1>7
  <2>2. Sound(s, data, milestones, built, written) BY <2>1, SoundHere
  <2>3. Sound("devops", d, milestones \cup {milestone}, built, written)
    BY <1>7, <2>1, <2>2 DEF Sound, AgreedAt, PlacedAt, Alike, Built, FromThePlan,
       Delivering, Reconciling, Tested
  <2> QED BY <1>7, <2>1, <2>3, AgreedPlan DEF Elsewhere, Idle
<1>8. CASE ApproveTests \/ SkipTests
  BY <1>1, <1>7, <1>8 DEF ApproveTests, SkipTests
<1>9. CASE ApproveDeploy
  <2>1. /\ DOMAIN [data EXCEPT !.devops_stage = 2] = Fields
        /\ Alike(data, [data EXCEPT !.devops_stage = 2])
    BY <1>1 DEF DataType, Fields, Alike
  <2> QED BY <1>7, <1>9, <2>1 DEF ApproveDeploy
<1>10. CASE SkipDeployment
  <2>1. /\ DOMAIN [data EXCEPT !.deploy_skipped = TRUE, !.devops_stage = 2] = Fields
        /\ Alike(data, [data EXCEPT !.deploy_skipped = TRUE, !.devops_stage = 2])
    BY <1>1 DEF DataType, Fields, Alike
  <2> QED BY <1>7, <1>10, <2>1 DEF SkipDeployment
<1>11. CASE ApproveReconcile BY <1>11, ApproveReconcilePlan
<1>12. CASE ApproveDecision
  <2>1. /\ DOMAIN [data EXCEPT !.resume_state = Idle] = Fields
        /\ Alike(data, [data EXCEPT !.resume_state = Idle])
    BY <1>1 DEF DataType, Fields, Alike
  <2> QED BY <1>12, <2>1, DecisionPlan DEF ApproveDecision
<1> QED
  BY <1>2, <1>3, <1>4, <1>5, <1>6, <1>8, <1>9, <1>10, <1>11, <1>12 DEF Approvals

\* Every no.
LEMMA RejectionsPlan ==
  ASSUME Core, PlanInv, Uninterrupted, Rejections PROVE PlanInv'
<1>1. DataType(data) BY DEF Core
<1>2. CASE Reject
  <2>1. PICK gate \in {"awaiting_backlog_approval", "awaiting_architecture_approval",
                       "awaiting_test_approval", "awaiting_deploy_approval",
                       "awaiting_reconcile_approval"} :
          /\ At(gate)
          /\ Go(ApprovalEdge[gate][2], [data EXCEPT !.reject_rounds = OneMoreRejection])
    BY <1>2 DEF Reject
  <2> DEFINE to == ApprovalEdge[gate][2]
             d  == [data EXCEPT !.reject_rounds = OneMoreRejection]
  <2>2. Alike(data, d) BY <1>1 DEF DataType, Fields, Alike
  <2>3. Go(to, d) BY <2>1
  <2>4. Sound(gate, data, milestones, built, written) BY <2>1, SoundHere
  <2> HIDE DEF d
  <2>5. Sound(gate, d, milestones, built, written) BY <2>2, <2>4, AlikeSound
  <2>6. /\ to \in {"backlog", "architecture", "qa", "devops", "reconcile"}
        /\ to = "qa" => gate = "awaiting_test_approval"
        /\ to = "devops" => gate = "awaiting_deploy_approval"
        /\ to = "reconcile" => gate = "awaiting_reconcile_approval"
    BY DEF ApprovalEdge
  <2> HIDE DEF to
  <2>7. Sound(to, d, milestones, built, written)
    BY <2>5, <2>6 DEF Sound, AgreedAt, PlacedAt, FromThePlan, Delivering,
       Reconciling, Tested
  <2> QED BY <2>1, <2>2, <2>3, <2>6, <2>7, GoesOn DEF Idle
<1>3. CASE RejectReview
  <2> DEFINE s == "awaiting_review_approval"
             d == [data EXCEPT !.index = IF @ = 0 THEN 0 ELSE @ - 1, !.review_rounds = 0]
             e == [d EXCEPT !.reject_rounds = 0]
  <2>1. At(s) /\ Go("developing", e) BY <1>3 DEF RejectReview, Yes
  <2>2. /\ e.index \in 0..data.index /\ e.replan_from = data.replan_from
        /\ e.rerun_only = data.rerun_only /\ e.violations = data.violations
    BY <1>1 DEF DataType, Fields
  <2> HIDE DEF d, e
  <2>3. Whole(s, s, failed_from, data, milestones, built, written) BY <2>1, AtRest
  <2>4. Counted(e, milestones, built)
    <3>1. data.index \in Nat BY <1>1 DEF DataType
    <3> QED BY <2>2, <2>3, <3>1 DEF Whole, Counted
  <2>5. AgreedAt(s, e, milestones) BY <2>3 DEF Whole, AgreedAt, Tested, Delivering
  <2>6. Sound("developing", e, milestones, built, written)
    BY <2>1, SoundHere, SoundAmongSpecialists DEF Specialists, FromThePlan
  <2>7. ReviewMode # "blocking" => ~e.violations BY <2>2, <2>3 DEF Whole
  <2>8. Whole(s, "developing", failed_from, e, milestones, built, written)
    BY <2>2, <2>3, <2>4, <2>5, <2>6, <2>7, OnwardWith
  <2> QED BY <2>1, <2>8, Arrives DEF Go, history, At, Idle
<1>4. CASE RejectDesign
  <2> DEFINE d == [data EXCEPT !.sent_back = (data.screens = "pending")]
  <2>1. DOMAIN d = Fields /\ Alike(data, d) BY <1>1 DEF DataType, Fields, Alike
  <2>2. At("awaiting_design_approval") /\ Yes("design", d) BY <1>4 DEF RejectDesign
  <2> HIDE DEF d
  <2>3. Sound("design", d, milestones, built, written)
    BY <2>2, SoundHere, SoundAmongSpecialists DEF Specialists, FromThePlan
  <2> QED BY <2>1, <2>2, <2>3, YesPlan DEF Elsewhere, Idle
<1>5. CASE RejectDecision
  <2> DEFINE d == [data EXCEPT !.resume_state = Idle, !.phase_budget = FALSE,
                               !.build_attempts = IF data.phase_budget THEN 0 ELSE @]
  <2>1. DOMAIN d = Fields /\ Alike(data, d) BY <1>1 DEF DataType, Fields, Alike
  <2> QED BY <1>5, <2>1, DecisionPlan DEF RejectDecision
<1>6. CASE ReviewScreen
  <2> DEFINE yes == [data EXCEPT !.screens = "approved", !.sent_back = FALSE]
             no  == [data EXCEPT !.screens = "pending", !.sent_back = TRUE]
  <2>1. Alike(data, yes) /\ Alike(data, no) BY <1>1 DEF DataType, Fields, Alike
  <2>2. At("awaiting_design_approval") BY <1>6 DEF ReviewScreen
  <2>3. ASSUME NEW to \in {"developing", "design"}, NEW d, Alike(data, d), Go(to, d)
        PROVE  PlanInv'
    <3>1. Sound(to, d, milestones, built, written)
      BY <2>2, SoundHere, SoundAmongSpecialists DEF Specialists, FromThePlan
    <3> QED BY <2>2, <2>3, <3>1, GoesOn DEF Idle
  <2> QED BY <1>6, <2>1, <2>3 DEF ReviewScreen
<1> QED BY <1>2, <1>3, <1>4, <1>5, <1>6 DEF Rejections

\* Back to the Architect, by a person.
LEMMA ReplanFromPlan ==
  ASSUME Core, PlanInv, Uninterrupted, NEW s, At(s), s \notin Tested,
         NEW i \in 0..data.index, ReplanFrom(i, [data EXCEPT !.resume_state = Idle])
  PROVE  PlanInv'
<1> DEFINE d == [data EXCEPT !.resume_state = Idle]
           e == [d EXCEPT !.replan_from = i, !.index = i, !.build_attempts = 0,
                          !.violations = FALSE, !.review_rounds = 0,
                          !.phase_budget = FALSE]
<1>1. DataType(data) BY DEF Core
<1>2. Go("architecture", e) BY DEF ReplanFrom
<1>3. /\ e.index = i /\ e.replan_from = i /\ ~e.violations
      /\ e.rerun_only = data.rerun_only /\ data.index \in Nat
  BY <1>1 DEF DataType, Fields
<1> HIDE DEF d, e
<1>4. Whole(s, s, failed_from, data, milestones, built, written) BY AtRest
<1>5. Whole(s, "architecture", failed_from, e, milestones, built, written)
  BY <1>3, <1>4, Replanning
<1> QED BY <1>2, <1>5, Arrives DEF Go, history, At, Idle

\* A retry goes back to the step that failed, which the history remembers.
LEMMA RetryPlan ==
  ASSUME Core, PlanInv, Uninterrupted, Retry PROVE PlanInv'
<1> DEFINE d  == [data EXCEPT !.build_attempts = 0, !.review_rounds = 0, !.ci_attempts = 0]
           to == IF failed_from = "build_gate" THEN "developing" ELSE failed_from
<1>1. At("failed") /\ Yes(to, d) BY DEF Retry
<1>2. DOMAIN d = Fields /\ Alike(data, d) BY DEF Core, DataType, Fields, Alike
<1>3. to \in Working BY <1>1 DEF Core, FailureHasAStep, Working, At
<1>4. to \notin Elsewhere BY <1>3 DEF Elsewhere, Working, Idle
<1>5. Whole("failed", "failed", failed_from, data, milestones, built, written)
  BY <1>1, AtRest
<1>6. Sound(to, data, milestones, built, written) BY <1>5 DEF Whole, Ways
<1> HIDE DEF d, to
<1>7. Sound(to, d, milestones, built, written)
  BY <1>2, <1>4, <1>6, AlikeSound DEF Elsewhere
<1> QED BY <1>1, <1>2, <1>4, <1>7, YesPlan

\* From the backlog again: the plan starts over, nothing counted.
LEMMA ReplanPlan ==
  ASSUME Core, PlanInv, Uninterrupted, Replan PROVE PlanInv'
<1> DEFINE d == [data EXCEPT !.replan_from = NoPhase, !.index = 0, !.build_attempts = 0,
                             !.review_rounds = 0, !.ci_attempts = 0,
                             !.violations = FALSE, !.qa_stage = 1]
           e == [d EXCEPT !.reject_rounds = 0]
<1>1. At("failed") /\ Go("backlog", e) BY DEF Replan, Yes
<1>2. /\ e.index = 0 /\ e.replan_from = NoPhase /\ ~e.violations
      /\ e.rerun_only = data.rerun_only
  BY DEF Core, DataType, Fields
<1> HIDE DEF d, e
<1>3. Whole("failed", "failed", failed_from, data, milestones, built, written)
  BY <1>1, AtRest
<1>4. Counted(e, milestones, built) BY <1>2 DEF Counted
<1>5. AgreedAt("failed", e, milestones) BY SoundUnclaimed DEF Sound, Claimless
<1>6. Sound("backlog", e, milestones, built, written) BY SoundUnclaimed DEF Claimless
<1>7. Whole("failed", "backlog", failed_from, e, milestones, built, written)
  BY <1>2, <1>3, <1>4, <1>5, <1>6, OnwardWith
<1> QED BY <1>1, <1>7, Arrives DEF Go, history, At, Idle

\* The same row, but for what the predicates do not look at.
LEMMA SameRow ==
  ASSUME NEW s, NEW h, NEW f, NEW d, NEW e, NEW m, NEW b, NEW w,
         Whole(s, h, f, d, m, b, w), Alike(d, e), e.violations = d.violations,
         e.builder_resume = d.builder_resume, e.resume_state = d.resume_state,
         e.pause_from = d.pause_from
  PROVE  Whole(s, h, f, e, m, b, w)
<1>1. Ways(h, f, e) = Ways(h, f, d) /\ (Asking(h, e) <=> Asking(h, d))
  BY DEF Ways, Asking, Resume
<1>2. ASSUME NEW p, AgreedAt(p, d, m) PROVE AgreedAt(p, e, m)
  BY <1>2 DEF AgreedAt, Alike, Built
<1>3. ASSUME NEW p, PlacedAt(p, d, m, b, w) PROVE PlacedAt(p, e, m, b, w)
  BY <1>3 DEF PlacedAt, Alike
<1>4. Counted(e, m, b) BY DEF Whole, Counted, Alike
<1> QED BY <1>1, <1>2, <1>3, <1>4 DEF Whole, Sound, Alike

\* A request that is on the record and moves nothing.
LEMMA Stays ==
  ASSUME moving = Idle, NEW d, Step(Idle, d), Uninterrupted,
         Whole(state, state, failed_from, d, milestones', built', written')
  PROVE  PlanInv'
<1>1. Heading' = state /\ data' = d /\ state' = state /\ FailedAt' = failed_from
  BY DEF Step, Heading, FailedAt, Idle
<1> QED BY <1>1 DEF PlanInv

\* A step re-run by hand: nothing more is claimed of what was agreed to.
LEMMA RerunPlan ==
  ASSUME Core, PlanInv, Uninterrupted, Rerun PROVE PlanInv'
<1>1. PICK back \in {"qa", "build_gate", "devops"} :
        Step(IF Legal(state, back) THEN back ELSE Idle,
             [data EXCEPT !.build_attempts = 0, !.ci_attempts = 0,
                          !.rerun_only = (back = "build_gate"),
                          !.qa_stage = IF back = "qa" THEN 1 ELSE @,
                          !.pr = @ /\ back # "devops"])
  BY DEF Rerun
<1> DEFINE d == [data EXCEPT !.build_attempts = 0, !.ci_attempts = 0,
                             !.rerun_only = (back = "build_gate"),
                             !.qa_stage = IF back = "qa" THEN 1 ELSE @,
                             !.pr = @ /\ back # "devops"]
           m == milestones \cup {"reran"}
<1>2. Step(IF Legal(state, back) THEN back ELSE Idle, d) BY <1>1
<1>3. /\ At(state) /\ moving = Idle /\ state \notin Working \cup {"paused"}
      /\ milestones' = m /\ UNCHANGED <<built, written>>
  BY DEF Rerun, At
<1>4. /\ d.index = data.index /\ d.replan_from = data.replan_from
      /\ d.violations = data.violations /\ d.rerun_only = (back = "build_gate")
  BY DEF Core, DataType, Fields
<1> HIDE DEF d
<1>5. Whole(state, state, failed_from, data, milestones, built, written)
  BY <1>3, AtRest
<1>6. \A p : AgreedAt(p, d, m) BY DEF AgreedAt
<1>7. Counted(d, m, built) BY <1>4, <1>5 DEF Whole, Counted, OfPhases
<1>8. "reran" \in m OBVIOUS
<1>9. ReviewMode # "blocking" => ~d.violations BY <1>4, <1>5 DEF Whole
<1> HIDE DEF m
<1>10. CASE Legal(state, back)
  <2>1. PlacedAt(back, d, m, built, written)
    BY <1>4 DEF PlacedAt, Reconciling
  <2>2. Ways(back, failed_from, d) = {back} /\ ~Asking(back, d) BY DEF Ways, Asking
  <2>3. Whole(state, back, failed_from, d, m, built, written)
    BY <1>6, <1>7, <1>8, <1>9, <2>1, <2>2 DEF Whole, Sound
  <2> QED BY <1>2, <1>3, <1>10, <2>3, Arrives DEF Idle
<1>11. CASE ~Legal(state, back)
  <2>1. state \notin {"failed", "awaiting_decision"} /\ back \in Working
    BY <1>11, RememberedEdges DEF Working
  <2>2. Ways(state, failed_from, d) = {state} /\ ~Asking(state, d)
    BY <1>3, <2>1 DEF Ways, Asking
  <2>3. Sound(state, data, milestones, built, written) BY <1>3, SoundHere
  <2>4. state # "build_gate" BY <1>3 DEF Working
  <2>5. data.pause_index = d.pause_index BY DEF d, Core, DataType, Fields
  <2>6. PlacedAt(state, d, m, built, written)
    BY <2>3, <2>4, <2>5, <1>8 DEF Sound, PlacedAt, OfPhases
  <2>7. Whole(state, state, failed_from, d, m, built, written)
    BY <1>6, <1>7, <1>8, <1>9, <2>2, <2>6 DEF Whole, Sound
  <2> QED BY <1>2, <1>3, <1>11, <2>7, Stays
<1> QED BY <1>10, <1>11

\* A pause remembers the state and the place in the plan it was asked at.
LEMMA PausePlan ==
  ASSUME Core, PlanInv, Uninterrupted, Pause PROVE PlanInv'
<1> DEFINE e == [data EXCEPT !.pause_from = state, !.pause_index = data.index,
                             !.pulled = FALSE]
<1>1. At(state) /\ state \in Pausable /\ Go("paused", e) BY DEF Pause, At
<1>2. /\ e.index = data.index /\ e.plan = data.plan /\ e.replan_from = data.replan_from
      /\ e.violations = data.violations /\ e.rerun_only = data.rerun_only
      /\ e.resume_state = data.resume_state /\ e.builder_resume = data.builder_resume
      /\ e.pause_index = data.index /\ e.pause_from = state
  BY DEF Core, DataType, Fields
<1> HIDE DEF e
<1>3. Whole(state, state, failed_from, data, milestones, built, written)
  BY <1>1, AtRest
<1>4. Counted(e, milestones, built) BY <1>2, <1>3 DEF Whole, Counted
<1>5. ASSUME NEW p, AgreedAt(p, data, milestones) PROVE AgreedAt(p, e, milestones)
  BY <1>2, <1>5 DEF AgreedAt, Built
<1>6. ASSUME NEW p \in Ways(state, failed_from, data)
      PROVE  Sound(p, e, milestones, built, written)
  <2>1. Sound(p, data, milestones, built, written) BY <1>3, <1>6 DEF Whole
  <2>2. PlacedAt(p, e, milestones, built, written)
    BY <1>2, <1>4, <2>1 DEF Sound, PlacedAt, Counted
  <2> QED BY <1>5, <2>1, <2>2 DEF Sound
<1>7. Sound("paused", e, milestones, built, written)
  BY <1>2, <1>4 DEF Sound, AgreedAt, PlacedAt, Counted, FromThePlan, Delivering,
     Reconciling, Tested
<1>8. Asking("paused", e) <=> Asking(state, data)
  BY <1>1, <1>2 DEF Asking, Pausable
<1>9. Ways("paused", failed_from, e) \subseteq {"paused"} \cup Ways(state, failed_from, data)
  BY <1>2, <1>8 DEF Ways, Resume
<1>10. Whole(state, "paused", failed_from, e, milestones, built, written)
  BY <1>2, <1>3, <1>4, <1>5, <1>6, <1>7, <1>8, <1>9 DEF Whole
<1> QED BY <1>1, <1>10, Arrives DEF Go, history, Idle

\* From a pause, back to its place or through the reading of what was pushed.
LEMMA CarryOnPlan ==
  ASSUME Core, PlanInv, Uninterrupted, CarryOn PROVE PlanInv'
<1> DEFINE d == [data EXCEPT !.pulled = TRUE]
           e == [d EXCEPT !.resume_phase = NoPhase]
<1>1. At("paused") /\ data.pause_from \in Pausable
  BY DEF CarryOn, At, Core, PauseKnowsItsPlace
<1>2. Whole("paused", "paused", failed_from, data, milestones, built, written)
  BY <1>1, AtRest
<1>3. ASSUME NEW x, Alike(data, x), x.violations = data.violations,
             x.builder_resume = data.builder_resume, x.resume_state = data.resume_state,
             x.pause_from = data.pause_from, Go(data.pause_from, x)
      PROVE  PlanInv'
  <2> DEFINE h == data.pause_from
  <2>1. Whole("paused", "paused", failed_from, x, milestones, built, written)
    BY <1>2, <1>3, SameRow
  <2>2. h \notin {"failed", "paused", Idle}
    BY <1>1 DEF Pausable, Terminal, Idle, JobState, Working, Gates
  <2>3. /\ Ways(h, failed_from, x) \subseteq Ways("paused", failed_from, x)
        /\ Asking(h, x) => Asking("paused", x)
    BY <1>3, <2>2 DEF Ways, Asking
  <2>4. Whole("paused", h, failed_from, x, milestones, built, written)
    BY <2>1, <2>3 DEF Whole
  <2> QED BY <1>1, <1>3, <2>2, <2>4, Arrives DEF Go, history, At
<1>4. CASE PausedBuilding /\ Go("reconcile", e)
  <2>1. Alike(data, e) BY DEF Core, DataType, Fields, Alike
  <2> HIDE DEF d, e
  <2>2. PICK p \in Ways("paused", failed_from, data) : p \in Building
    BY <1>4 DEF PausedBuilding, Ways, Asking
  <2>3. AgreedAt(p, data, milestones) BY <1>2, <2>2 DEF Whole, Sound
  <2>4. "reran" \notin milestones => "plan" \in milestones
    BY <2>2, <2>3 DEF AgreedAt, Building, FromThePlan, Reconciling
  <2>5. Sound("paused", data, milestones, built, written) BY <1>1, SoundHere
  <2>6. Sound("reconcile", e, milestones, built, written)
    BY <2>1, <2>4, <2>5 DEF Sound, AgreedAt, PlacedAt, Alike, FromThePlan, Delivering,
       Reconciling, Tested
  <2> QED BY <1>1, <1>4, <2>1, <2>6, GoesOn DEF Idle
<1>5. /\ Alike(data, d) /\ d.violations = data.violations
      /\ d.builder_resume = data.builder_resume /\ d.resume_state = data.resume_state
      /\ d.pause_from = data.pause_from /\ Alike(data, data)
  BY DEF Core, DataType, Fields, Alike
<1>6. \/ Go(data.pause_from, data) \/ Go(data.pause_from, d)
      \/ PausedBuilding /\ Go("reconcile", e)
  BY DEF CarryOn
<1> HIDE DEF d, e
<1> QED BY <1>3, <1>4, <1>5, <1>6

\* A deleted development keeps its row, and its place.
LEMMA RemovePlan ==
  ASSUME Core, PlanInv, Uninterrupted, Remove PROVE PlanInv'
<1> DEFINE d  == [data EXCEPT !.removed = TRUE]
           to == IF state = "paused" THEN "cancelled" ELSE Idle
<1>1. Go(to, d) /\ At(state) /\ moving = Idle BY DEF Remove, At
<1>2. /\ Alike(data, d) /\ d.violations = data.violations
      /\ d.builder_resume = data.builder_resume /\ d.resume_state = data.resume_state
      /\ d.pause_from = data.pause_from
  BY DEF Core, DataType, Fields, Alike
<1> HIDE DEF d
<1>3. CASE state = "paused"
  <2>1. Sound("cancelled", d, milestones, built, written) BY SoundUnclaimed DEF Claimless
  <2> QED BY <1>1, <1>2, <1>3, <2>1, GoesOn DEF Idle
<1>4. CASE state # "paused"
  <2>1. Whole(state, state, failed_from, d, milestones, built, written)
    BY <1>1, <1>2, AtRest, SameRow
  <2> QED BY <1>1, <1>4, <2>1, Stays DEF Go, history
<1> QED BY <1>3, <1>4

\* What people ask for outside the gates.
LEMMA InterventionsPlan ==
  ASSUME Core, PlanInv, Uninterrupted, Interventions PROVE PlanInv'
<1>1. data.index \in Nat /\ Planned \in Nat BY DEF Core, DataType, Planned
<1>2. CASE ReplanPhase
  <2>1. data.index \in 0..data.index BY <1>1
  <2> QED BY <1>2, <2>1, ReplanFromPlan DEF ReplanPhase, Tested, Delivering
<1>3. CASE Redirect
  <2> DEFINE i == IF Built(data) THEN Planned ELSE data.index
  <2>1. i \in 0..data.index BY <1>1 DEF Built, Planned
  <2>2. At(state) /\ state \notin Tested
    BY <1>3 DEF Redirect, Redirectable, At, Tested, Delivering
  <2>3. ReplanFrom(i, [data EXCEPT !.resume_state = Idle]) BY <1>3 DEF Redirect
  <2> HIDE DEF i
  <2> QED BY <2>1, <2>2, <2>3, ReplanFromPlan
<1>4. CASE Retry BY <1>4, RetryPlan
<1>5. CASE Replan BY <1>5, ReplanPlan
<1>6. CASE Rerun BY <1>6, RerunPlan
<1>7. CASE Cancel
  <2>1. At(state) /\ Go("cancelled", data) /\ Alike(data, data)
    BY <1>7 DEF Cancel, At, Alike
  <2>2. Sound("cancelled", data, milestones, built, written)
    BY SoundUnclaimed DEF Claimless
  <2> QED BY <2>1, <2>2, GoesOn DEF Idle
<1>8. CASE Pause BY <1>8, PausePlan
<1>9. CASE CarryOn BY <1>9, CarryOnPlan
<1>10. CASE Remove BY <1>10, RemovePlan
<1> QED
  BY <1>2, <1>3, <1>4, <1>5, <1>6, <1>7, <1>8, <1>9, <1>10 DEF Interventions

-----------------------------------------------------------------------------
(***************************************************************************)
(* The second commit of a step, the machines, and the specification        *)
(***************************************************************************)
\* What is claimed of where it was heading holds of it there.
LEMMA TransitionPlan ==
  ASSUME Core, PlanInv, Uninterrupted, Transition PROVE PlanInv'
<1>1. /\ moving # Idle /\ state' = moving /\ moving' = Idle
      /\ data' = data /\ UNCHANGED history
      /\ failed_from' = IF moving = "failed" THEN state ELSE failed_from
  BY DEF Transition
<1>2. Heading = moving /\ Heading' = moving /\ FailedAt' = FailedAt
  BY <1>1 DEF Heading, FailedAt, Idle
<1>3. Whole(state, moving, FailedAt, data, milestones, built, written)
  BY <1>2 DEF PlanInv
<1>4. AgreedAt(moving, data, milestones) BY <1>3 DEF Whole, Ways, Sound
<1>5. Whole(moving, moving, FailedAt, data, milestones, built, written)
  BY <1>3, <1>4 DEF Whole
<1> QED BY <1>1, <1>2, <1>5 DEF PlanInv, history

\* The machine that comes builds the phase whose build it owes.
LEMMA BuilderReadyPlan ==
  ASSUME Core, PlanInv, Uninterrupted, BuilderReady PROVE PlanInv'
<1> DEFINE e  == [data EXCEPT !.builder_resume = Idle]
           to == IF data.builder_resume = Idle THEN "developing" ELSE data.builder_resume
<1>1. /\ At("awaiting_builder") /\ moving = Idle /\ data' = e /\ state' = to
      /\ UNCHANGED <<failed_from, moving, history>>
  BY DEF BuilderReady, At
<1>2. Alike(data, e) BY DEF Core, DataType, Fields, Alike
<1>3. /\ to \in {"developing", "build_gate"}
      /\ to = "build_gate" => data.builder_resume = "build_gate"
  BY DEF Core, DataType
<1>4. Whole("awaiting_builder", "awaiting_builder", failed_from, data, milestones,
            built, written)
  BY <1>1, AtRest
<1>5. Sound("awaiting_builder", data, milestones, built, written) BY <1>1, SoundHere
<1> HIDE DEF e, to
<1>6. Sound(to, e, milestones, built, written)
  BY <1>2, <1>3, <1>5 DEF Sound, AgreedAt, PlacedAt, Alike, FromThePlan, Delivering,
     Reconciling, Tested
<1>7. Whole("awaiting_builder", to, failed_from, e, milestones, built, written)
  BY <1>2, <1>3, <1>4, <1>6, Onward
<1>8. Whole(to, to, failed_from, e, milestones, built, written)
  BY <1>6, <1>7 DEF Whole, Sound
<1>9. Heading' = to /\ FailedAt' = failed_from
  BY <1>1 DEF Heading, FailedAt, Idle
<1> QED BY <1>1, <1>8, <1>9 DEF PlanInv, history

\* Only a restart counts as one.
LEMMA OnlyCrashesCount ==
  Handlers \/ Transition \/ Answers \/ Interventions => crashes' = crashes
<1> USE DEF Go, Step, InvocationFailed, Yes, Agreed, environment
<1>1. Backlog \/ Architecture \/ Design => crashes' = crashes
  BY DEF Backlog, Architecture, Design
<1>2. DevelopNothing \/ DevelopLater => crashes' = crashes
  BY DEF DevelopNothing, DevelopLater, WaitForBuilder
<1>3. Develop => crashes' = crashes BY DEF Develop
<1>4. GatePasses => crashes' = crashes BY DEF GatePasses
<1>5. GateFails \/ BuilderLost => crashes' = crashes
  BY DEF GateFails, BuilderLost, WaitForBuilder, ReplanFrom
<1>6. Review => crashes' = crashes BY DEF Review
<1>7. QaPropose \/ QaWrite => crashes' = crashes BY DEF QaPropose, QaWrite
<1>8. Devops => crashes' = crashes
  <2>1. ASSUME NEW d, NEW m, Deliver(d, m) PROVE crashes' = crashes
    BY <2>1 DEF Deliver
  <2> QED BY <2>1 DEF Devops, DeployGate
<1>9. Reconcile \/ HandlerRaises => crashes' = crashes
  BY DEF Reconcile, HandlerRaises
<1>10. Handlers => crashes' = crashes
  BY <1>1, <1>2, <1>3, <1>4, <1>5, <1>6, <1>7, <1>8, <1>9 DEF Handlers
<1>11. Start \/ Approvals => crashes' = crashes
  BY DEF Start, Approvals, ApproveBacklog, ApproveArchitecture, ApproveDesign,
         ApproveReview, ApproveCases, ApproveTests, ApproveDeploy,
         ApproveReconcile, ApproveDecision, SkipTests, SkipDeployment
<1>12. Rejections => crashes' = crashes
  BY DEF Rejections, Reject, RejectReview, RejectDesign, RejectDecision, ReviewScreen
<1>13. Interventions => crashes' = crashes
  BY DEF Interventions, ReplanPhase, Redirect, ReplanFrom, Retry, Replan, Rerun,
         Cancel, Pause, CarryOn, Remove
<1>14. Transition => crashes' = crashes BY DEF Transition
<1> QED BY <1>10, <1>11, <1>12, <1>13, <1>14 DEF Answers

\* A request nobody has started has passed nothing.
LEMMA InitPlan == Init => PlanInv
<1> SUFFICES ASSUME Init PROVE PlanInv OBVIOUS
<1>1. /\ state = "created" /\ Heading = "created" /\ FailedAt = failed_from
      /\ data.index = 0 /\ data.replan_from = NoPhase /\ ~data.rerun_only
      /\ ~data.violations
  BY DEF Init, Heading, FailedAt, Idle
<1>2. Ways("created", failed_from, data) = {"created"} /\ ~Asking("created", data)
  BY DEF Ways, Asking
<1>3. Counted(data, milestones, built) BY <1>1 DEF Counted
<1>4. Sound("created", data, milestones, built, written)
  BY SoundUnclaimed DEF Claimless
<1> QED BY <1>1, <1>2, <1>3, <1>4 DEF PlanInv, Whole, Sound

\* Every step keeps it, up to the first restart.
LEMMA PlanInvKept == Inv /\ PlanInv /\ [Next]_vars => PlanInv'
<1> SUFFICES ASSUME Inv, PlanInv, [Next]_vars, Uninterrupted' PROVE PlanInv'
  BY DEF PlanInv
<1>1. Core BY DEF Inv
<1>2. CASE RunLoop
  <2>1. Handlers \/ Transition BY <1>2 DEF RunLoop
  <2>2. Uninterrupted BY <2>1, OnlyCrashesCount DEF Uninterrupted
  <2> QED BY <1>1, <2>1, <2>2, HandlersPlan, TransitionPlan, DevelopmentAssumption
<1>3. CASE Intervene
  <2>1. Interventions BY <1>3 DEF Intervene
  <2>2. Uninterrupted BY <2>1, OnlyCrashesCount DEF Uninterrupted
  <2> QED BY <1>1, <2>1, <2>2, InterventionsPlan
<1>4. CASE Answers
  <2>1. Uninterrupted BY <1>4, OnlyCrashesCount DEF Uninterrupted
  <2>2. CASE Start
    <3>1. At("created") /\ Go("backlog", data) /\ Alike(data, data)
      BY <2>2 DEF Start, Alike
    <3>2. Sound("backlog", data, milestones, built, written)
      BY SoundUnclaimed DEF Claimless
    <3> QED BY <2>1, <3>1, <3>2, GoesOn DEF Idle
  <2> QED BY <1>1, <1>4, <2>1, <2>2, ApprovalsPlan, RejectionsPlan DEF Answers
<1>5. CASE Environment
  <2>1. CASE Crash
    <3>1. crashes' = crashes + 1 /\ crashes \in Nat BY <1>1, <2>1 DEF Crash, Core
    <3> QED BY <3>1 DEF Uninterrupted
  <2>2. CASE BuilderReady
    <3>1. Uninterrupted BY <2>2 DEF BuilderReady, environment, Uninterrupted
    <3> QED BY <1>1, <2>2, <3>1, BuilderReadyPlan
  <2>3. CASE BuilderComesOrGoes
    <3>1. UNCHANGED <<state, data, failed_from, moving, history, crashes>>
      BY <2>3 DEF BuilderComesOrGoes
    <3> QED BY <3>1 DEF PlanInv, Uninterrupted, Heading, FailedAt, history
  <2> QED BY <1>5, <2>1, <2>2, <2>3 DEF Environment
<1>6. CASE UNCHANGED vars
  BY <1>6 DEF vars, PlanInv, Uninterrupted, Heading, FailedAt, history, environment
<1> QED BY <1>2, <1>3, <1>4, <1>5, <1>6 DEF Next

\* Up to the first restart the plan's invariant holds of every development.
LEMMA PlanInvHolds == Spec => []PlanInv
<1>1. Init => PlanInv BY InitPlan
<1>2. Inv /\ PlanInv /\ [Next]_vars => PlanInv' BY PlanInvKept
<1> QED BY <1>1, <1>2, InvHolds, PTL DEF Spec

\* Until a restart, no phase is passed over: every one the plan has moved past
\* was built, kept from the plan before it, or found finished by hand.
THEOREM EveryPhaseIsAccountedFor == Spec => [](Uninterrupted => PhasesAccountedFor)
<1>1. PlanInv => (Uninterrupted => PhasesAccountedFor)
  BY DEF PlanInv, Whole, Counted, OfPhases, PhasesAccountedFor, BuildsAreOfPhases
<1> QED BY <1>1, PlanInvHolds, PTL

\* Until a restart, nothing is built that nobody agreed to, nor delivered untested.
THEOREM NothingUnagreed == Spec => [](Uninterrupted => PlanAndTestsAgreed)
<1>1. PlanInv => (Uninterrupted => PlanAndTestsAgreed)
  BY DEF PlanInv, Whole, AgreedAt, PlanAndTestsAgreed
<1> QED BY <1>1, PlanInvHolds, PTL

\* Until a restart, QA and DevOps see every phase of the plan built.
THEOREM QaComesLast == Spec => [](Uninterrupted => QaSeesTheWholePlan)
<1>1. PlanInv => (Uninterrupted => QaSeesTheWholePlan)
  BY DEF PlanInv, Whole, AgreedAt, Tested, QaSeesTheWholePlan
<1> QED BY <1>1, PlanInvHolds, PTL

\* Until a restart, no violation of the standards reaches QA unanswered.
THEOREM NoViolationSlipsBy == Spec => [](Uninterrupted => ViolationsAnswered)
<1>1. PlanInv => (Uninterrupted => ViolationsAnswered)
  BY DEF PlanInv, Whole, AgreedAt, Tested, ViolationsAnswered, At
<1> QED BY <1>1, PlanInvHolds, PTL

\* Until a restart, an open decision knows the step it goes back to.
THEOREM DecisionsKnowTheirPlace == Spec => [](Uninterrupted => DecisionKeepsItsPlace)
<1>1. PlanInv => (Uninterrupted => DecisionKeepsItsPlace)
  BY DEF PlanInv, Whole, Asking, Heading, At, DecisionKeepsItsPlace
<1> QED BY <1>1, PlanInvHolds, PTL

\* Until a restart, the build gate builds the phase the plan is at.
THEOREM TheGateBuildsItsPhase == Spec => [](Uninterrupted => GateRunsOverItsPhase)
<1>1. PlanInv => (Uninterrupted => GateRunsOverItsPhase)
  BY DEF PlanInv, Whole, Ways, Sound, PlacedAt, OfPhases, BuildsAreOfPhases, Heading,
         At, GateRunsOverItsPhase
<1> QED BY <1>1, PlanInvHolds, PTL
=============================================================================
