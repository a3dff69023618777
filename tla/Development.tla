----------------------------- MODULE Development -----------------------------
(***************************************************************************)
(* One development, from its request to its pull request: what each step's *)
(* handler does with the agents' answers, what a person may do at every    *)
(* point, and what is persisted when the server dies in between.           *)
(*                                                                         *)
(* A handler (and an answer to a gate) persists its data and then moves    *)
(* the development in a second commit, so a step here is two actions: the  *)
(* handler, which leaves `moving` at the state it is about to enter, and   *)
(* Transition.  Crash loses `moving`.  What a model answers, what a build  *)
(* says and what a person wants are existential choices.                   *)
(*                                                                         *)
(* The phases here declare no `depends_on`, so none is set aside and none  *)
(* is written ahead.  Requests that run beside the run loop, or beside     *)
(* each other, are module RunControl's.                                    *)
(***************************************************************************)
EXTENDS Lifecycle, Integers, Sequences

CONSTANTS
  MaxPhases,         \* bound: the longest plan
  Kinds,             \* what the Architect may plan: "code", "screen" (drawn
                     \* for first), "platform" (needs a machine that builds it)
  MaxBuildAttempts, MaxReviewRounds, MaxRejectRounds, MaxCiAttempts,
  ReviewMode,        \* the project's standards review
  Supervised,        \* whether the project's gates have a supervisor
  Combined,          \* whether backlog and plan are one gate
  MaxCrashes,        \* bound: restarts that lose a step under way
  MaxSteers,         \* bound: green builds handed back for a person's words
  MaxInterventions   \* bound: what people ask for outside the gates

ASSUME DevelopmentAssumption ==
  /\ MaxPhases \in Nat \ {0}
  /\ Kinds \subseteq {"code", "screen", "platform"} /\ Kinds # {}
  /\ MaxBuildAttempts \in Nat \ {0}
  /\ MaxReviewRounds \in Nat /\ MaxRejectRounds \in Nat
  /\ MaxCiAttempts \in Nat /\ MaxCrashes \in Nat /\ MaxSteers \in Nat
  /\ MaxInterventions \in Nat
  /\ ReviewMode \in {"off", "advisory", "blocking"}
  /\ Supervised \in BOOLEAN /\ Combined \in BOOLEAN

VARIABLES
  state,        \* the job row's state
  data,         \* the job row's data, the fields control depends on
  failed_from,  \* the history's last failure: the state it was in
  moving,       \* the state the step under way is about to enter, or Idle
  builder,      \* whether a machine that builds the platform phases is there
  milestones,   \* what has been agreed and written for the plan as it stands
  built,        \* the phases of the plan that passed their gate, or were
                \* finished by hand
  written,      \* the phase whose code the checkout holds
  crashes, steers, interventions

history == <<milestones, built, written>>
environment == <<builder, crashes, steers>>
vars == <<state, data, failed_from, moving, history, environment, interventions>>

Idle == "none"
NoPhase == -1

Init ==
  /\ state = "created"
  /\ data = [ plan |-> <<>>, index |-> 0, backlog |-> FALSE,
              worktree |-> FALSE, removed |-> FALSE,
              build_attempts |-> 0, review_rounds |-> 0, reject_rounds |-> 0,
              ci_attempts |-> 0, violations |-> FALSE,
              screens |-> "none", sent_back |-> FALSE,
              replan_from |-> NoPhase, resume_state |-> Idle,
              phase_budget |-> FALSE, builder_resume |-> Idle,
              pause_from |-> Idle, pause_index |-> 0, pulled |-> FALSE,
              resume_phase |-> NoPhase,
              qa_stage |-> 1, test_cases |-> FALSE,
              devops_stage |-> 1, scripts |-> FALSE, deploy_written |-> FALSE,
              deploy_skipped |-> FALSE, pr |-> FALSE, rerun_only |-> FALSE ]
  /\ failed_from = Idle /\ moving = Idle
  /\ builder \in BOOLEAN /\ (builder => "platform" \in Kinds)
  /\ milestones = {} /\ built = {} /\ written = 0
  /\ crashes = 0 /\ steers = 0 /\ interventions = 0

(***************************************************************************)
(* How a step ends                                                         *)
(***************************************************************************)
\* Persist d, then go to `to`.
Step(to, d) ==
  /\ data' = d /\ moving' = to
  /\ UNCHANGED <<state, failed_from, environment>>

Go(to, d) == Step(to, d) /\ UNCHANGED history

At(s) == state = s /\ moving = Idle

Transition ==
  /\ moving # Idle /\ Legal(state, moving)
  /\ state' = moving /\ moving' = Idle
  /\ failed_from' = IF moving = "failed" THEN state ELSE failed_from
  /\ UNCHANGED <<data, history, environment>>

\* The server dies after the first commit of a step and before the second.
Crash ==
  /\ moving # Idle /\ crashes < MaxCrashes
  /\ moving' = Idle /\ crashes' = crashes + 1
  /\ UNCHANGED <<state, data, failed_from, history, builder, steers>>

Planned == Len(data.plan)
Built(d) == d.index >= Len(d.plan)

\* Mutant: a stopped development always goes on with the specialist.
InvocationFailedDeveloping(d) ==
  Go("failed", d) \/ Go("awaiting_decision", [d EXCEPT !.resume_state = "developing"])

\* Mutant: where it was is not recorded.
InvocationFailedForgets(d) == Go("failed", d) \/ Go("awaiting_decision", d)

\* A call that did not work: an error or a spent budget fails the job; the same
\* answer twice stops it for a person, to go on from where it was.
InvocationFailed(d) ==
  \/ Go("failed", d)
  \/ Go("awaiting_decision", [d EXCEPT !.resume_state = state])

\* Any handler may raise, and the run loop fails the job where it stood.
HandlerRaises == state \in Working /\ moving = Idle /\ Go("failed", data)

\* Back to the Architect from phase i on, the phases before it kept.
ReplanFrom(i, d) ==
  Go("architecture",
     [d EXCEPT !.replan_from = i, !.index = i, !.build_attempts = 0,
               !.violations = FALSE, !.review_rounds = 0,
               !.phase_budget = FALSE])

(***************************************************************************)
(* Product Owner, Architect, Designer                                      *)
(***************************************************************************)
TooManyRejections == data.reject_rounds > MaxRejectRounds

Backlog ==
  /\ At("backlog")
  /\ \/ TooManyRejections /\ Go("failed", data)
     \/ /\ ~TooManyRejections
        /\ LET d == [data EXCEPT !.worktree = TRUE] IN
           \/ InvocationFailed(d)
           \/ Go(IF Combined THEN "architecture" ELSE "awaiting_backlog_approval",
                 [d EXCEPT !.backlog = TRUE])

Kept == IF data.replan_from = NoPhase THEN 0 ELSE data.replan_from

\* The phases kept, and the ones the Architect plans after them.
Plans ==
  UNION { { p \in [1..n -> Kinds] :
              \A i \in 1..Kept : i \in 1..Planned => p[i] = data.plan[i] } :
          n \in (Kept + 1)..MaxPhases }

Architecture ==
  /\ At("architecture")
  /\ \/ (TooManyRejections \/ ~data.backlog) /\ Go("failed", data)
     \/ ~TooManyRejections /\ data.backlog /\ InvocationFailed(data)
     \/ /\ ~TooManyRejections /\ data.backlog
        /\ \E p \in Plans, cases \in BOOLEAN :
             /\ cases => Combined \/ data.test_cases
             /\ data.test_cases => cases
             /\ Step("awaiting_architecture_approval",
                     [data EXCEPT !.plan = p, !.index = Kept,
                                  !.build_attempts = 0, !.test_cases = cases])
        /\ built' = built \cap 1..Kept
        /\ milestones' = milestones \cap {"reran"}
        /\ written' = 0

Design ==
  /\ At("design")
  /\ \/ ~data.sent_back /\ data.screens # "none" /\ Go("developing", data)
     \/ InvocationFailed(data)
     \/ \E drawn \in {"none", "pending", "approved"} :
          /\ drawn = "approved" => data.screens # "none"
          /\ Go("developing", [data EXCEPT !.screens = drawn, !.sent_back = FALSE])

(***************************************************************************)
(* The specialists, phase by phase                                         *)
(***************************************************************************)
Buildable(kind) == kind = "platform" => builder

\* The phases still to build, those nothing here can build moved last.
PutUnbuildableLast ==
  LET rest  == SubSeq(data.plan, data.index + 1, Planned)
      ready == SelectSeq(rest, Buildable)
      Unbuildable(kind) == ~Buildable(kind)
      later == SelectSeq(rest, Unbuildable)
  IN  SubSeq(data.plan, 1, data.index) \o ready \o later

DevelopNothing == At("developing") /\ Built(data) /\ Go("failed", data)

WaitForBuilder(d, resume) ==
  Go("awaiting_builder", [d EXCEPT !.builder_resume = resume])

DevelopLater ==
  /\ At("developing") /\ ~Built(data)
  /\ \A i \in (data.index + 1)..Planned : ~Buildable(data.plan[i])
  /\ WaitForBuilder(data, "developing")

Develop ==
  /\ At("developing") /\ ~Built(data)
  /\ \E p \in [1..Planned -> Kinds] :
       LET d == [data EXCEPT !.plan = p] IN
       /\ p = IF Buildable(data.plan[data.index + 1]) THEN data.plan
                                                      ELSE PutUnbuildableLast
       /\ Buildable(p[data.index + 1])
       /\ \/ /\ p[data.index + 1] = "screen" /\ data.screens = "pending"
             /\ Go("awaiting_design_approval", d)
          \/ /\ ~(p[data.index + 1] = "screen" /\ data.screens = "pending")
             /\ \/ InvocationFailed(d)
                \/ Go("awaiting_decision",   \* the phase's own budget is spent
                      [d EXCEPT !.phase_budget = TRUE,
                                !.resume_state = "developing"])
                \/ /\ Step("build_gate", d)
                   /\ written' = data.index + 1
                   /\ UNCHANGED <<milestones, built>>

\* Mutant: the number of the phase is compared, not how many are built.
AfterPhaseEarly(d) == IF d.index + 1 >= Len(d.plan) THEN "qa" ELSE "developing"

AfterPhase(d) == IF Built(d) THEN "qa" ELSE "developing"

GatePasses ==
  LET green == [data EXCEPT !.build_attempts = 0]
      next  == [green EXCEPT !.index = @ + 1]
  IN
  /\ At("build_gate")
  /\ \/ data.rerun_only /\ Go("done", [green EXCEPT !.rerun_only = FALSE])
     \/ /\ ~data.rerun_only /\ ~Built(data)      \* a person wrote meanwhile
        /\ steers < MaxSteers /\ steers' = steers + 1
        /\ data' = green /\ moving' = "developing"
        /\ UNCHANGED <<state, failed_from, history, builder, crashes>>
     \/ /\ ~data.rerun_only /\ data.index <= MaxPhases
        /\ Step(IF ReviewMode = "off" THEN AfterPhase(next) ELSE "review", next)
        /\ built' = IF written = next.index THEN built \cup {next.index} ELSE built
        /\ UNCHANGED <<milestones, written>>

\* Mutant: the attempt is not counted.
GateFailsUncounted == At("build_gate") /\ Go("developing", data)

GateFails ==
  LET red == [data EXCEPT !.build_attempts = @ + 1, !.rerun_only = FALSE] IN
  /\ At("build_gate")
  /\ \/ red.build_attempts >= MaxBuildAttempts /\ Go("failed", red)
     \/ /\ red.build_attempts < MaxBuildAttempts
        /\ \/ Supervised /\ Built(data) /\ Go("failed", red) \* phases[index]
           \/ ~(Supervised /\ Built(data)) /\ Go("developing", red)
           \/ Supervised /\ ~Built(data) /\ ReplanFrom(data.index, red)
           \/ /\ Supervised /\ ~Built(data)
              /\ Go("awaiting_decision",
                    [red EXCEPT !.resume_state = "developing"])

BuilderLost ==
  /\ At("build_gate") /\ ~Built(data)
  /\ data.plan[data.index + 1] = "platform"
  /\ WaitForBuilder(data, "build_gate")

\* Mutant: out of rounds, the phase passes with what was found.
ReviewGivesUp ==
  /\ At("review") /\ data.index \in 1..Planned
  /\ Go(AfterPhase(data), [data EXCEPT !.violations = TRUE])

Review ==
  /\ At("review")
  /\ \/ data.index \notin 1..Planned /\ Go("failed", data)
     \/ data.index \in 1..Planned /\ InvocationFailed(data)
     \/ /\ data.index \in 1..Planned
        /\ Go(AfterPhase(data), [data EXCEPT !.violations = FALSE, !.review_rounds = 0])
     \/ /\ data.index \in 1..Planned /\ ReviewMode = "blocking"
        /\ data.review_rounds < MaxReviewRounds
        /\ Go("developing", [data EXCEPT !.violations = TRUE, !.index = @ - 1,
                                         !.review_rounds = @ + 1])
     \/ /\ data.index \in 1..Planned /\ ReviewMode = "blocking"
        /\ data.review_rounds >= MaxReviewRounds
        /\ Go("awaiting_review_approval", [data EXCEPT !.violations = TRUE])

(***************************************************************************)
(* QA and DevOps                                                           *)
(***************************************************************************)
QaPropose ==
  /\ At("qa") /\ data.qa_stage = 1
  /\ \/ InvocationFailed(data)
     \/ Go("awaiting_test_approval", [data EXCEPT !.test_cases = TRUE])

QaWrite ==
  /\ At("qa") /\ data.qa_stage = 2
  /\ \/ \E n \in data.build_attempts..(MaxBuildAttempts - 1) :
          InvocationFailed([data EXCEPT !.build_attempts = n])
     \/ Go("failed", [data EXCEPT !.build_attempts = MaxBuildAttempts])
     \/ /\ Step("awaiting_test_approval", [data EXCEPT !.build_attempts = 0])
        /\ milestones' = milestones \cup {"written"}
        /\ UNCHANGED <<built, written>>

\* The pull request and its CI, m the milestones reached on the way.
Deliver(d, m) ==
  LET End(to, e) == Step(to, IF to = "awaiting_decision"
                             THEN [e EXCEPT !.resume_state = state] ELSE e)
  IN
  /\ UNCHANGED <<built, written>> /\ milestones' = milestones \cup m
  /\ \/ /\ ~d.pr                               \* "done": there is nowhere to push
        /\ \E to \in {"failed", "awaiting_decision", "done"} : End(to, d)
     \/ \E n \in d.ci_attempts..(MaxCiAttempts + 1), to \in {"failed", "done"} :
          /\ to = "done" => n <= MaxCiAttempts
          /\ End(to, [d EXCEPT !.pr = TRUE, !.ci_attempts = n])
     \/ \E n \in (d.ci_attempts + 1)..MaxCiAttempts :
          End("awaiting_decision", [d EXCEPT !.pr = TRUE, !.ci_attempts = n])

DeployGate(d) ==
  \/ InvocationFailed(d)
  \/ Go("awaiting_deploy_approval", [d EXCEPT !.scripts = TRUE])
  \/ Deliver([d EXCEPT !.scripts = FALSE, !.devops_stage = 2], {"deploy"})

ToWrite == data.scripts /\ ~data.deploy_written /\ ~data.deploy_skipped

Devops ==
  /\ At("devops")
  /\ \/ data.devops_stage = 1 /\ ~data.pr /\ DeployGate(data)
     \/ /\ data.devops_stage = 2 \/ data.pr
        /\ \/ ~ToWrite /\ Deliver(data, {})
           \/ ToWrite /\ InvocationFailed(data)
           \/ ToWrite /\ Deliver([data EXCEPT !.deploy_written = TRUE], {})
           \/ ToWrite /\ DeployGate([data EXCEPT !.devops_stage = 1])

\* The Architect reads what was pushed during a pause: the unbroken run of
\* phases finished by hand ends before phase resume + 1.
Reconcile ==
  LET start == IF data.pause_index < Planned THEN data.pause_index ELSE Planned IN
  /\ At("reconcile")
  /\ \/ InvocationFailed(data)
     \/ \E resume \in start..Planned :
          Go("awaiting_reconcile_approval", [data EXCEPT !.resume_phase = resume])

Handlers ==
  \/ Backlog \/ Architecture \/ Design
  \/ DevelopNothing \/ DevelopLater \/ Develop
  \/ GatePasses \/ GateFails \/ BuilderLost \/ Review
  \/ QaPropose \/ QaWrite \/ Devops \/ Reconcile \/ HandlerRaises

(***************************************************************************)
(* What a person may do.  A supervisor that approves a gate itself calls   *)
(* the same operations.                                                    *)
(***************************************************************************)
Start == At("created") /\ Go("backlog", data)

\* An answer starts the count of rejections again.
Yes(to, d) == Go(to, [d EXCEPT !.reject_rounds = 0])

Agreed(to, d, milestone) ==
  /\ Step(to, [d EXCEPT !.reject_rounds = 0])
  /\ milestones' = milestones \cup {milestone}
  /\ UNCHANGED <<built, written>>

ApproveBacklog == At("awaiting_backlog_approval") /\ Yes("architecture", data)

\* Whether the Designer has anything to draw for the plan: a new task may need
\* screens when others have theirs.
NeedsDrawing ==
  IF "screen" \notin {data.plan[i] : i \in 1..Planned} THEN {FALSE}
  ELSE IF data.screens = "none" THEN {TRUE} ELSE BOOLEAN

ApproveArchitecture ==
  /\ At("awaiting_architecture_approval")
  /\ \E draw \in NeedsDrawing :
       Agreed(IF draw THEN "design" ELSE "developing",
              [data EXCEPT !.replan_from = NoPhase], "plan")

ApproveDesign ==
  /\ At("awaiting_design_approval") /\ data.screens = "pending"
  /\ Yes("developing", [data EXCEPT !.screens = "approved", !.sent_back = FALSE])

ApproveReview ==
  /\ At("awaiting_review_approval")
  /\ Yes(AfterPhase(data), [data EXCEPT !.violations = FALSE, !.review_rounds = 0])

ApproveCases ==
  /\ At("awaiting_test_approval") /\ data.qa_stage = 1 /\ data.test_cases
  /\ Agreed("qa", [data EXCEPT !.qa_stage = 2, !.build_attempts = 0], "cases")

ApproveTests ==
  /\ At("awaiting_test_approval") /\ data.qa_stage = 2
  /\ Agreed("devops", data, "tests")

ApproveDeploy ==
  /\ At("awaiting_deploy_approval") /\ data.scripts
  /\ Agreed("devops", [data EXCEPT !.devops_stage = 2], "deploy")

\* The phases the reading found finished; with no reading on the record, none.
Reading == IF data.resume_phase = NoPhase THEN 0 ELSE data.resume_phase

\* Mutant: the number of the phase is taken for its index.
ApproveReconcileOffByOne ==
  /\ At("awaiting_reconcile_approval")
  /\ Step(IF data.resume_phase + 1 >= Planned THEN "qa" ELSE "developing",
          [data EXCEPT !.index = data.resume_phase + 1, !.build_attempts = 0])
  /\ built' = built \cup (data.pause_index + 1)..data.resume_phase
  /\ UNCHANGED <<milestones, written>>

ApproveReconcile ==
  LET resume == IF Reading < Planned THEN Reading ELSE Planned IN
  /\ At("awaiting_reconcile_approval")
  /\ Step(IF resume >= Planned THEN "qa" ELSE "developing",
          [data EXCEPT !.index = resume, !.build_attempts = 0,
                       !.review_rounds = 0, !.reject_rounds = 0,
                       !.violations = FALSE])
  /\ built' = built \cup (data.pause_index + 1)..resume
  /\ UNCHANGED <<milestones, written>>

Resume(d) == IF d.resume_state = Idle THEN "developing" ELSE d.resume_state

\* A phase that spent its budget is answered in words only.
ApproveDecision ==
  /\ At("awaiting_decision") /\ ~data.phase_budget
  /\ Yes(Resume(data), [data EXCEPT !.resume_state = Idle])

SkipTests ==
  /\ At("awaiting_test_approval") /\ data.qa_stage = 1
  /\ Agreed("devops", data, "tests")

SkipDeployment ==
  /\ At("awaiting_deploy_approval")
  /\ Agreed("devops", [data EXCEPT !.deploy_skipped = TRUE, !.devops_stage = 2],
            "deploy")

Approvals ==
  \/ ApproveBacklog \/ ApproveArchitecture \/ ApproveDesign \/ ApproveReview
  \/ ApproveCases \/ ApproveTests \/ ApproveDeploy \/ ApproveReconcile
  \/ ApproveDecision \/ SkipTests \/ SkipDeployment

\* The count matters only past its limit.
OneMoreRejection ==
  IF TooManyRejections THEN data.reject_rounds ELSE data.reject_rounds + 1

Reject ==
  \E gate \in {"awaiting_backlog_approval", "awaiting_architecture_approval",
               "awaiting_test_approval", "awaiting_deploy_approval",
               "awaiting_reconcile_approval"} :
    /\ At(gate)
    /\ Go(ApprovalEdge[gate][2], [data EXCEPT !.reject_rounds = OneMoreRejection])

RejectReview ==
  /\ At("awaiting_review_approval")
  /\ Yes("developing",
         [data EXCEPT !.index = IF @ = 0 THEN 0 ELSE @ - 1, !.review_rounds = 0])

RejectDesign ==
  /\ At("awaiting_design_approval")
  /\ Yes("design", [data EXCEPT !.sent_back = (data.screens = "pending")])

RejectDecision ==
  /\ At("awaiting_decision")
  /\ Yes(Resume(data),
         [data EXCEPT !.resume_state = Idle, !.phase_budget = FALSE,
                      !.build_attempts = IF data.phase_budget THEN 0 ELSE @])

\* One screen at a time: the last yes goes on, a no redraws that screen.
ReviewScreen ==
  /\ At("awaiting_design_approval") /\ data.screens # "none"
  /\ \/ Go("developing", [data EXCEPT !.screens = "approved", !.sent_back = FALSE])
     \/ Go("design", [data EXCEPT !.screens = "pending", !.sent_back = TRUE])

Rejections == Reject \/ RejectReview \/ RejectDesign \/ RejectDecision \/ ReviewScreen

ReplanPhase ==
  /\ At("awaiting_decision") /\ data.phase_budget
  /\ ReplanFrom(data.index, [data EXCEPT !.resume_state = Idle])

\* Mutant: any development with a plan can be planned again.
RedirectAnywhere ==
  /\ state \notin Terminal /\ moving = Idle /\ Planned > 0
  /\ ReplanFrom(IF Built(data) THEN Planned ELSE data.index,
                [data EXCEPT !.resume_state = Idle])

Redirect ==
  /\ state \in Redirectable /\ moving = Idle /\ Planned > 0
  /\ ReplanFrom(IF Built(data) THEN Planned ELSE data.index,
                [data EXCEPT !.resume_state = Idle])

Retry ==
  /\ At("failed") /\ ~data.removed
  /\ Yes(IF failed_from = "build_gate" THEN "developing" ELSE failed_from,
         [data EXCEPT !.build_attempts = 0, !.review_rounds = 0, !.ci_attempts = 0])

Replan ==
  /\ At("failed") /\ ~data.removed
  /\ Yes("backlog",
         [data EXCEPT !.replan_from = NoPhase, !.index = 0, !.build_attempts = 0,
                      !.review_rounds = 0, !.ci_attempts = 0,
                      !.violations = FALSE, !.qa_stage = 1])

\* What a re-run asks for is saved before it is known to be possible.
Rerun ==
  /\ state \notin Working \cup {"paused"} /\ moving = Idle
  /\ data.worktree /\ ~data.removed
  /\ \E back \in {"qa", "build_gate", "devops"} :
       LET d == [data EXCEPT !.build_attempts = 0, !.ci_attempts = 0,
                             !.rerun_only = (back = "build_gate"),
                             !.qa_stage = IF back = "qa" THEN 1 ELSE @,
                             !.pr = @ /\ back # "devops"]
       IN  Step(IF Legal(state, back) THEN back ELSE Idle, d)
  /\ milestones' = milestones \cup {"reran"} /\ UNCHANGED <<built, written>>

Cancel == state \notin Terminal /\ moving = Idle /\ Go("cancelled", data)

Pause ==
  /\ state \in Pausable /\ moving = Idle
  /\ Go("paused", [data EXCEPT !.pause_from = state, !.pause_index = data.index,
                               !.pulled = FALSE])

\* Paused with phases still to build, so that what was pulled may move its place.
PausedBuilding ==
  /\ (IF data.pause_from = "awaiting_decision" THEN Resume(data) ELSE data.pause_from)
       \in Building
  /\ data.pause_index < Planned

CarryOn ==
  /\ At("paused") /\ ~data.removed
  /\ \/ Go(data.pause_from, data)               \* nothing was pushed meanwhile
     \/ /\ data.worktree                        \* commits were pulled in
        /\ LET d == [data EXCEPT !.pulled = TRUE] IN
           IF PausedBuilding THEN Go("reconcile", [d EXCEPT !.resume_phase = NoPhase])
                             ELSE Go(data.pause_from, d)

\* Deleting takes it off its host and keeps the row to be read.
Remove ==
  /\ state \in Terminal \cup {"paused"} /\ moving = Idle /\ ~data.removed
  /\ Go(IF state = "paused" THEN "cancelled" ELSE Idle, [data EXCEPT !.removed = TRUE])

Answers == Start \/ Approvals \/ Rejections

Interventions ==
  \/ ReplanPhase \/ Redirect \/ Retry \/ Replan \/ Rerun
  \/ Cancel \/ Pause \/ CarryOn \/ Remove

(***************************************************************************)
(* The machines that build, and the specification                          *)
(***************************************************************************)
\* Mutant: a builder is only ever owed a build.
BuilderReadyBuilds ==
  /\ At("awaiting_builder") /\ ~Built(data) /\ Buildable(data.plan[data.index + 1])
  /\ state' = "build_gate"
  /\ data' = [data EXCEPT !.builder_resume = Idle]
  /\ UNCHANGED <<failed_from, moving, history, environment>>

\* The one wait nobody approves: the run loop, woken, finds a builder there.
BuilderReady ==
  /\ At("awaiting_builder") /\ ~Built(data) /\ Buildable(data.plan[data.index + 1])
  /\ state' = IF data.builder_resume = Idle THEN "developing" ELSE data.builder_resume
  /\ data' = [data EXCEPT !.builder_resume = Idle]
  /\ UNCHANGED <<failed_from, moving, history, environment>>

BuilderComesOrGoes ==
  /\ "platform" \in Kinds /\ builder' = ~builder
  /\ UNCHANGED <<state, data, failed_from, moving, history, crashes, steers>>

Environment == Crash \/ BuilderReady \/ BuilderComesOrGoes

Intervene ==
  /\ interventions < MaxInterventions /\ interventions' = interventions + 1
  /\ Interventions

RunLoop == (Handlers \/ Transition) /\ UNCHANGED interventions

Next ==
  \/ RunLoop \/ Intervene
  \/ (Answers \/ Environment) /\ UNCHANGED interventions

Spec == Init /\ [][Next]_vars

\* The run loop calls one handler after another until the development leaves
\* its working states, and every handler returns: it waits on no person.
FairSpec == Spec /\ WF_vars(RunLoop)

(***************************************************************************)
(* Properties                                                              *)
(***************************************************************************)
Fields ==
  {"plan", "index", "backlog", "worktree", "removed", "build_attempts",
   "review_rounds", "reject_rounds", "ci_attempts", "violations", "screens",
   "sent_back", "replan_from", "resume_state", "phase_budget",
   "builder_resume", "pause_from", "pause_index", "pulled", "resume_phase",
   "qa_stage", "test_cases", "devops_stage", "scripts", "deploy_written",
   "deploy_skipped", "pr", "rerun_only"}

\* Every field keeps its type, and the two places a stop is resumed at are
\* states of their kind.
DataType(d) ==
  /\ DOMAIN d = Fields
  /\ d.plan \in Seq(Kinds)
  /\ d.index \in Nat /\ d.pause_index \in Nat
  /\ d.replan_from \in Nat \cup {NoPhase}
  /\ d.resume_phase \in Nat \cup {NoPhase}
  /\ d.build_attempts \in Nat /\ d.review_rounds \in Nat
  /\ d.reject_rounds \in Nat /\ d.ci_attempts \in Nat
  /\ d.qa_stage \in {1, 2} /\ d.devops_stage \in {1, 2}
  /\ d.screens \in {"none", "pending", "approved"}
  /\ d.resume_state \in Working \cup {Idle}
  /\ d.builder_resume \in {"developing", "build_gate", Idle}
  /\ d.pause_from \in Pausable \cup {Idle}
  /\ d.backlog \in BOOLEAN /\ d.worktree \in BOOLEAN
  /\ d.removed \in BOOLEAN /\ d.violations \in BOOLEAN
  /\ d.sent_back \in BOOLEAN /\ d.phase_budget \in BOOLEAN
  /\ d.pulled \in BOOLEAN /\ d.test_cases \in BOOLEAN
  /\ d.scripts \in BOOLEAN /\ d.deploy_written \in BOOLEAN
  /\ d.deploy_skipped \in BOOLEAN /\ d.pr \in BOOLEAN
  /\ d.rerun_only \in BOOLEAN

\* The type invariant: the persisted row, and what the model keeps beside it.
TypeOK ==
  /\ DataType(data)
  /\ state \in JobState /\ moving \in JobState \cup {Idle}
  /\ failed_from \in Working \cup {Idle}
  /\ builder \in BOOLEAN
  /\ milestones \subseteq {"plan", "cases", "written", "tests", "deploy", "reran"}
  /\ built \subseteq Nat /\ written \in Nat
  /\ crashes \in 0..MaxCrashes /\ steers \in 0..MaxSteers
  /\ interventions \in 0..MaxInterventions

\* No handler, answer or person's request ever asks the orchestrator for a
\* transition it refuses: the refusal would be raised after the step's data
\* had been saved.  (A re-run is checked against the table in its own guard.)
StepsAreLegal == moving # Idle => Legal(state, moving)

\* Approve at the decision gate "resumes the interrupted state": the state is
\* still on the record for as long as the gate is open.
DecisionKeepsItsPlace == At("awaiting_decision") => data.resume_state # Idle

\* Nobody re-ran a step by hand where a phase may wait for a machine: there a
\* re-run that is refused is on the record nonetheless, and the build the machine
\* makes when it comes is then no longer known for a re-run (rerun, engine.py:3050).
BuildsAreOfPhases == "reran" \notin milestones \/ "platform" \notin Kinds

\* Every phase the development has moved past was written and passed its build
\* gate under this plan, or was kept from the plan before it, or was found
\* finished by hand: none is skipped.
PhasesAccountedFor == BuildsAreOfPhases => 1..data.index \subseteq built

\* Nothing is built from a plan nobody agreed to, and nothing is delivered
\* whose tests were not read, or waved through, by a person -- since the plan
\* last changed, and unless a person re-ran a step by hand, which skips gates.
FromThePlan == {"design", "awaiting_design_approval", "developing", "build_gate",
                "review", "awaiting_review_approval", "awaiting_builder", "qa",
                "awaiting_test_approval"}
Delivering == {"devops", "awaiting_deploy_approval", "done"}
PlanAndTestsAgreed ==
  "reran" \notin milestones =>
    /\ state \in FromThePlan \cup Delivering => "plan" \in milestones
    /\ state \in Delivering => "tests" \in milestones

\* QA and DevOps see a whole plan: no phase is left when QA proposes its cases,
\* however often the plan changed and the work was stopped on the way.
QaSeesTheWholePlan ==
  "reran" \notin milestones =>
    (state \in {"qa", "awaiting_test_approval"} \cup Delivering => Built(data))

\* Under a blocking review no phase's violations are carried to QA: they were
\* reworked, or a person accepted them as they stand.
ViolationsAnswered ==
  "reran" \notin milestones =>
    (At("qa") \/ state \in Delivering => ~data.violations)

\* The build gate builds the code of the phase the plan is at, whatever was
\* reordered, waited for or done by hand since it was written.
GateRunsOverItsPhase ==
  BuildsAreOfPhases /\ At("build_gate") /\ ~data.rerun_only =>
    written = data.index + 1

\* A deleted development is never moved again, whatever is pressed.
RemovedStaysPut ==
  [][data.removed => data'.removed /\ state' \in {state, "cancelled"}]_vars

\* From a pause the only ways on are back to its place, through the Architect's
\* reading of what was pushed, or to the end.
PausedOnlyResumes ==
  [][state = "paused" =>
       state' \in {"paused", data.pause_from, "reconcile", "cancelled"}]_vars

\* The agents never work for ever without a person: the fix rounds of a phase,
\* green builds handed back for a person's words, review rounds and the re-plans a
\* supervisor asks for all come to a gate, a wait or an end (_build_gate, _review).
\* The rounds of QA's own tests and of CI pass within one handler.
WorkEnds == state \in Working ~> state \notin Working

(***************************************************************************)
(* What the documentation says and the code does not do                    *)
(***************************************************************************)
\* "Stop the server mid-development and start it again: running work carries
\* on" (README): no phase is lost to the restart.
EveryPhaseBuilt == At("qa") => 1..Planned \subseteq built
==============================================================================
