# Slipwright, verified

Slipwright turns a request into a pull request.  A *development* goes through a Product Owner, an
Architect, a Designer, specialists who write one phase of the plan after another, a build gate
and a review after each phase, QA, and DevOps; people answer at the gates in between, and may
stop, pause, redirect, re-run or retry it at any moment.  One server process runs all of it: a
run loop per development, request threads beside it, an SQL store, and machines that somebody
lends, which poll the server for phases to write and builds to make.  Around it are the chats in
which people are asked, the inbox through which they talk to the agents, the move of an account
from one server to another, and the installation's own update.

This directory holds TLA+ models of that control, translated from the source under
`src/slipwright/`, the TLC runs that check them on small instances, and proofs by TLAPS of what
holds for every instance.  `PROJECT.json` lists the runs, the lines of code each definition
stands for (`map`), the hazards, and where code and documentation disagree (`findings`).  Line
numbers below are of files under `src/slipwright/`.

| module | models | checked by | proofs |
|---|---|---|---|
| `Lifecycle` | the states, the transition table, the fixed approval edges | with `Development` | |
| `Development` | one development: every step, gate and intervention, crashes between a step's two commits | `plan`, `gates`, `restart` | `DevelopmentProofs` |
| `RunControl` | the threads around one development: run loop, lock, stop flag, stale copies | `threads` | `EngineProofs` |
| `PhaseOrder` (`MCPhaseOrder`) | the order of phases: set aside, written ahead, moved last, planned again | `order` | `EngineProofs` |
| `OneAnswer` | the promise a lent machine makes to a waiting run loop (abstract) | `wait` | |
| `MachineCalls` | the table of model calls: wait, polls, claims, reports, removals, restarts | `wait` | `MachineCallsProofs` |
| `MachineBuilds` | the queue of builds, the wait beside it, the waking of developments | `builds`, `asleep` | `MachineBuildsProofs` |
| `Prompts` (`MCPrompts`) | questions in people's chats, their accounts, presses, reasons | `chat` | `PromptsProofs` |
| `Inbox` | what is said to the agents, who reads it, what the answers cost | `inbox` | `InboxProofs` |
| `Transfer` | an account that moves from one server to another | `move` | `TransferProofs` |
| `SelfUpdate` (`MCSelfUpdate`) | the installation that replaces itself | `update` | `SelfUpdateProofs` |

## 1. The system's parts

**Orchestrator** (`orchestrator/__init__.py`).  State: none of its own; it checks a requested
transition against `LEGAL_TRANSITIONS` and has the store write it.  Hard: it checks the *caller's
copy* of the job.  Correct when no handler is ever refused half way (`StepsAreLegal`).

**Engine: steps, gates, interventions** (`engine.py`, `schemas/job.py`).  State: the job row: a
state, and a record (`data`) of about thirty fields that control depends on:  the plan, the index
of the phase, counters of fix, review, rejection and CI rounds, where a decision, a wait for a
builder or a pause goes back to, the stages of QA and DevOps.  Operations: one handler per
working state, one answer per gate, and start, retry, replan, redirect, rerun, cancel, pause,
resume, remove.  Hard: long sequences of legal requests; a handler saves its data and transitions
in *two* commits; phases are known by their number, and phases move.  Correct when no phase is
skipped, nothing is built or delivered unagreed, no phase gets another's work, and the agents run
out of rounds in the end.

**Engine: run loop, lock, stop flag** (`engine.py:637`, `2697`-`3240`, `4080`-`4160`).  State: in
memory, per development a lock and a flag; in each thread, a copy of the row.  Operations:
`_run`, and every taker of the lock or the flag.  Hard: all of it is interleaving.  Correct when
a step is never run twice at once, work never lies without a thread to run it, and stops land
between calls.

**Job store** (`store/sqlite.py`).  `save` writes data and refuses when the row's state differs
from the copy's; `update_state` writes state and history without asking.

**Lent machines: model calls** (`providers/machine.py`, `store/workers.py`, `api/workers.py`).
State: the table `worker_calls`, the machines' last-seen times.  Operations: enqueue, look, take
back, claim, say "still at it", answer, fail, remove a machine.  Hard: the wait's time-outs race
answers; polls outlive a removal; the server restarts under a call; a stop ends a wait like a
time-out does, and time-outs are retried.  Correct when the first answer stands, a call has one
holder, a stop is the end, and no run loop waits for ever.

**Lent machines: builds** (`worker_agent.py`, `workers.py`, `building.py`,
`Engine._remote_gate`).  State: the table `worker_tasks`; the developments that wait for a
machine.  Operations: queue, poll, report, take back from a silent machine, drop, wake.  Hard: a
take-back against a late report, a machine that comes against the move into the wait.  Correct
when a build is taken back once at most, and nobody waits for ever, or beside a machine that
polls.

**Chats** (`notify/`, `store/chat.py`).  State: links between accounts and people, link codes,
the questions (`chat_prompts`).  Operations: ask everybody who may answer, press, type a reason,
link, unlink, settle.  Hard: listeners' threads read, claim and decide in transactions of their
own, beside the web page and the run loop.  Correct when a question decides once, as whom it was
put to, and is neither lost nor closed while it stands.

**Inbox and talk** (`store/messages.py`, `roles/talk.py`, `engine.py`).  State: rows of
instructions and questions, copied into every job that is read and merged into every job that is
saved.  Hard: whole rows are saved from copies hours old; an answer's cost is saved and marked in
two transactions.  Correct when what is said in time is read before its phase is left, by one
answer, and a cost is counted once.

**Transfer between servers** (`transfer/`).  State: at the receiver, codes and transfers in
memory, parts on its disk; at the sender, a thread.  Operations: offer, pair, send a part,
import, delete at the sender.  Hard: parts and answers lost, late, doubled; people work on at
both ends; the desk's lock is not the transfer's.  Correct when no development that was there is
lost, and nothing is deleted that was not written.

**Self-update** (`update.py`, `cli.py`, `store/migrate.py`).  State: containers and their names,
a helper container, the database's revision and its copies.  Hard: the server and the helper know
of each other through a daemon that may refuse; either may die at any step.  Correct when two
servers never run over one database, and one that works is left.

**Not modelled**: providers and invocation (`invoke.py`, `providers/`), roles (`roles/`), build
gates and workspaces (`gates/`, `workspace/`), relay (`relay/`), accounts, teams and sign-in
(`accounts.py`, `auth.py`, `teams.py`, `twofactor.py`), the Jira mirror (`jira*.py`), costs and
quotas, projections for the pages, sources and hosts, standards, attachments, the database layer,
the command line, and the pages: section 5 says why.

How they meet: a request thread calls the engine; the engine takes the development's lock (or
leaves a flag), writes through the store and the orchestrator, and becomes the run loop.  The run
loop calls the model (through `invoke`, perhaps by way of the table of calls), the build gate
(here, or by way of the table of builds) and git.  Machines come in through the API and touch the
store alone; a builder's poll wakes the developments that wait for it.  Chat listeners call the
engine as the web page does.  On start-up the API resumes what was working, and the updater looks
at what became of its helper.

## 2. The models

Every action is a stretch of code between two moments at which somebody else can get in:  a
commit, a request over the network, a call of the daemon, the taking or the release of a lock.
What a model answers, the colour of a gate, a refused call, a person's wish are existential
choices.  Names are the code's where TLA+ allows it.

### Lifecycle and Development

`Lifecycle` is the table (`schemas/job.py`, `orchestrator/__init__.py`), constant definitions
only.  `Development` is one development.

| variable | in the code |
|---|---|
| `state` | `Job.state`, the row's column |
| `data` | `Job.data`, the fields control depends on |
| `failed_from` | the last entry of the history that led to `failed` |
| `moving` | not stored: between a handler's `store.save` and its `orchestrator.transition`, the state it is about to ask for |
| `builder` | whether a machine that builds the platform phases is there |
| `milestones`, `built`, `written` | history variables: what people agreed to for the plan as it stands, which phases passed their gate, which phase's code is checked out |
| `crashes`, `steers`, `interventions` | bounds |

Each handler of the code is an action (or, where its paths differ in their guards, a few:
`DevelopNothing`, `DevelopLater`, `Develop`; `GatePasses`, `GateFails`, `BuilderLost`;
`QaPropose`, `QaWrite`) that leaves `moving` set; `Transition` is the second commit and `Crash`
the server's death between the two.  The run loop then calls the same handler again, as
`_resume_all` does after a restart.  Answers at gates and interventions are shaped the same way,
since the code saves and then transitions there too.  A plan is a sequence of kinds: `code`,
`screen` (waits for the Designer's drawings), `platform` (needs a lent builder).

### RunControl

| variable | in the code |
|---|---|
| `row` | the stored development, reduced to where it is and in which step |
| `lock` | `Engine._locks[job.id]` |
| `stopping` | `Engine._stopping[job.id]` |
| `pc[t]`, `my[t]` | where thread `t` is, and what it holds: its copy of the row, the row it will write, the calls its step may still make |

`Save` and `Move` are the store's two writes, which every path goes through: `Save` refuses when
the row is not in the copy's state, `Move` does not look at the row.  `SameState` says what "the
same state" means here: the code compares the state column, which tells steps apart, while a
pause or an end looks the same whatever came before.  Requests (`Start`, `Answer`, `Stop`,
`CarryOn`, `Maintain`) read the row and work on the copy; `StopNow` has the free lock,
`StopLater` and `Flag` leave a flag for whoever holds it.  The run loop is `Enter`, `BeginStep`,
`BeginCall`, `CallAgain`, `EndStep`, `Fail`, `StepEnded`, `AskSupervisor`, `Supervise`,
`LastLook`, `Leave`.  `Maintain` stands for the other holders of the lock: billing an answer, the
tracker's sweep, a deletion.  `AskSupervisor` and `Supervise` are the supervisor, who is asked
before a gate is left to a person: a stop that was asked for by then, or that comes before the
second attempt of its call, ends the call by `_Stopped` (4867), which at 4143 is outside the
`try`: the thread is gone, its lock released, the row where it was and the flag still up.  A
restart, which ends every thread and forgets the flag, is left out, and so are phases written
ahead: those calls never move the row.

### PhaseOrder

The code knows a phase by its number, and phases move: here each has an identity, which is what
the properties speak of.  `plan`, `index`, `attempts`, `calls`, `parked` (the records and patches
of phases set aside), `resume` and `asked` are fields of the row; `ahead` is `Engine._ahead`, in
memory; `told` is the phase a person's unread words are about; `draft` and `done` are history:
whose work the checkout holds, and what was built.  `Develop` is the whole of `_develop`: what
cannot be built is put last (`PutLast`), what is set aside is taken up (`Unpark`), others are
written ahead (`WrittenAhead`), an answer is asked for or was there, and over its budget a phase
is set aside (`Park`) or put to the person (`BudgetStop`).  `GatePasses`, `GateFails`,
`BuilderLost`, `Approve`, `Replan`, `StartOver`, `Architecture`, `Restart` are the rest.  `Park`
moves the records of phases set aside earlier as the code does, which finds them by `id()` of
dicts (5834-5844) of which `_reorder` has made new ones for every phase that states its needs
(5773-5778): the record of a phase that does not say what it needs follows it, any other is gone,
with its patch and its counters.  `Numbered` is what `_reorder` takes for granted, that every
number a phase needs is in the plan; where a shorter re-plan has broken it for a phase that was
kept, the move raises and the step fails (`ParkFails`, `MoveFails`).  Both kinds of move give the
phases new numbers by `Places`: a phase stands behind as many as come before it, those put back
behind the others and each group in its own order.  `NeedsIt` is what needs a phase, directly or
through others, with every phase that does not say what it needs.  The specification is
`OrderSpec`, and `FairOrder` with the loop's fairness: names apart from `RunControl`'s, since one
module proves about both.

### OneAnswer and MachineCalls

`OneAnswer` is the abstract promise: a question is asked, then settled once.  `MachineCalls` is
the table: `calls` (the rows of `worker_calls`), `asked` (their number), and per run loop its
place, its call and its attempts; per machine the queued call its poll has read (`seen`: reading
the queue and claiming are two statements), whether it was removed, and whether a poll from
before that is still kept open.  A look at the row and the take-back are two transactions, and so
two actions.  The refinement maps question *c* to `Given(c)`: what the waiting run loop made of
it, or else what the table says.  Nothing is asked of a machine: it may report what it holds and
never has to.  A lost reply, a machine asleep and a machine switched off are the same silence.
`Retries` counts attempts after the first, and so also the attempts the code makes for a smaller
part after a truncated answer, more than the code itself allows.

### MachineBuilds

| variable | in the code |
|---|---|
| `at`, `owed`, `attempts` | the row: its state, `builder_resume`, `build_attempts` |
| `loop`, `build`, `look`, `taken`, `late` | the locals of `_remote_gate` and what it read last |
| `threads`, `waking` | threads that wait for the lock, and those `carry_on_waiting` starts |
| `rows`, `queued` | `worker_tasks` |
| `heard`, `removed`, `agent` | who was seen within 90 s, who was taken away, what each machine's program is at |

The look at a silent machine's row, the requeue and the next look are actions of their own, as
are the machine's poll, claim, build and report.

### Prompts

`prompts` are the rows of `chat_prompts`, `link` and `code` the accounts and link codes, `place`
and `visits` the development (a question's `marker` is the visit it is about), `run` the run loop
that asks one chat after another, and `hand[h]` what listener `h` has read and not yet acted on.
A press is `Press` (reads), `AskReason` or `Claim` (one conditional update), then the engine:
`Decide` reads the row, `Save` saves what it made of it and `Move` transitions, or `TooLate` or
`Refused` ends it; then `Tell`.  `Save` raises when the row is no longer at the gate it was read
at (`store/sqlite.py:629`); a retry is then given back, an answer ends there, claimed and
undecided, since `on_press` (`notify/core.py:579`) catches other errors only.  A press on a
question that is past is `Settle`.  `late` remembers that a question was closed by a press that
had read an older row.

### Inbox

`state`, `index`, `counted` and `kept` are the row, `status`, `to`, `asked` and `bill` the table;
`sees`, `knows`, `knowsRead` are the copies that each thread will save whole.  The threads are
the run, one per question, and one person at a time who answers at a gate without the lock.
`MergeInbox` is `save`'s union of the copy's inbox with the table.  `shown`, `late` and `clashed`
are history: how many answers had an instruction in front of them; what was written after the
green gate had asked; and that a bill and a person's answer were saved over each other.

### Transfer

`snd[s]` is the sender's thread, `rec[s]` the transfer at the receiver: whether the desk still
has it (`listed`), whether a newer one has taken its place (`replaced`), what it expects next
(`seq`), what is staged, and how far the thread that took `finish` is.  A pairing is `Pair`, then
under the desk's lock `Replace`, which fails what was arriving for the account, and `Register`,
which sweeps its files and lists the new one; or `Refuse`, when one is being written.  The import
is `ImportBegins` (the state becomes "importing", under the transfer's own lock), `ImportRefused`
or `ImportReads`, `Write`, and `Settle` or `ImportFails`; between the look at the state (252) and
"importing" (283) the desk may have failed the transfer, and the import goes on.  Parts are
`manifest`, `projects`, `jobs`, `finish`; the code's other parts (files, blobs, settings) are
staged like `jobs`.  `home`, `there`, `jobs`, `running` are the rows of both sides, `born` and
`wrote` history, `blind` the transfers whose staged rows were swept away before they were
written.

### SelfUpdate

`image`, `name`, `running`, `healthy` are what the daemon knows of each container: the release it
was made from, and its name, counted by how often `-previous` stands behind it.  `at`, `me`,
`state`, `latest`, `thread` are the memory of each server's `Updater`, of which there may be two;
`helper[n]` and `task[n]` the helper that goes by name *n* and the locals of its `replace`;
`schema` and `copies` the database's revision and its copies.  A server that came up under its
`-previous` name, as one does that its restart policy starts after a roll-back that could not
name it back, finds itself under that name and may start a helper of its own.  `Reconcile` ends
at once when the daemon refuses to say how the helper is (`update.py:770`).  History: `proven`;
`loose`, whether a server took up its work while a helper was at work on it; `unkept`, whether
the pruning dropped the copy just made.  `Knows` says which revision each release brings, `Sorts`
where its copies stand when their names are sorted.

## 3. The runs

Distinct states; each run takes between ten seconds and a little over three minutes with two
workers.

| run | states | what it shows |
|---|---|---|
| `plan` | 4,716,447 | two phases that need screens through every step, gate and intervention of a supervised project: no refused transition, no skipped phase, nothing built or delivered unagreed, a decision keeps its place |
| `gates` | 1,662,742 | phases of code and of a machine, supervised, under a blocking review, with rejections, review rounds, two build attempts and steered green gates: the gate builds the phase the plan is at, no violation reaches QA unanswered, and with a fair run loop the agents come to rest at a gate, a wait or an end |
| `restart` | violation | a server dies between the two commits of a green gate: finding |
| `threads` | 363,916 | three threads, three requests: one at a time makes calls or asks the supervisor, stops land between calls, nothing lies unrun, work comes to rest |
| `order` | 1,543,364 | four plans whose phases need each other, or a machine, set aside, written ahead, moved last and planned again |
| `wait` | 242,012 | a development, two machines, a retry, a restart, a stop: `OneAnswer` is implemented, a stop is the end, no question waits for ever |
| `builds` | 328,297 | two machines that fall asleep, report late, are removed; a restart: taken back once, nobody waits for ever or beside a machine that polls |
| `asleep` | violation | the machine that builds falls asleep while the phase is written: finding |
| `chat` | 4,080,988 | two listeners, the run loop, the page and people who change accounts, a restart |
| `inbox` | 365,990 | an instruction and a question against parts, gates, an answer at a gate and two restarts |
| `move` | 547,044 | two transfers of two projects, one of which another account has at the receiver; parts lost, late, doubled; restarts; people at work |
| `update` | 244,438 | three releases, some bad, some that migrate; refused calls, crashes, deaths |

### Bounds, and why they are enough

- *Development.*  At most 2 phases: the index can be before, between and after phases; a re-plan
  can keep none or one; a pull can finish none, one or all; a reordering has two to swap.  `plan`
  has the kind with a gate of its own, `screen`; `gates` has `code` and `platform`, so that the
  builder's wait and the reordering happen.  Both are supervised, so that every failure may also
  end in a re-plan or a question.  Each limit (`MaxBuildAttempts`, `MaxReviewRounds`,
  `MaxRejectRounds`, `MaxCiAttempts`) is a setting of the code, at a value that lets it be
  reached and, in some run, passed: two build attempts are a red gate that is fixed and one that
  is the last, and `MaxSteers` is one green gate handed back because a person wrote meanwhile,
  which with them is how the loop of writing and building goes round.  CI's rounds and QA's own
  test runs pass within one handler of the code, which makes them one step here; what differs
  between them is an outcome of it.  `MaxInterventions` (2 in `plan`, 1 in `gates`) bounds what
  people ask for outside the gates; two are enough for a pause with its resumption, a failure
  retried twice, a redirect followed by a rerun.  `MaxCrashes` is 0 where the property is about
  control alone, 1 in `restart`: the properties of `plan` and `gates` that speak of phases do not
  survive a crash, as `restart` shows.  The proofs have none of the other bounds: any number of
  phases, rounds and interventions.  Six of them, those that speak of phases, hold until the
  first crash; the others hold across crashes.
- *RunControl.*  3 threads: one that runs, one that asks it to stop, one that comes from the
  side.  3 steps: the plan, one that builds, the delivery.  2 calls, so that a stop can fall
  before, between and after calls.
- *PhaseOrder.*  A plan with two independent phases and one that needs the first; one whose first
  phase does not say what it needs; four phases of which three need a machine and the last needs
  the third of them, so that a shorter re-plan lacks a number it needs; one with a phase that
  needs a machine's phase.  3 phases in parallel, so that all can be written ahead; a budget of 2
  calls, so that a phase is set aside with work in the tree; two attempts; one re-plan.
- *MachineCalls.*  One asker: what askers share is the queue and the count of free machines,
  which decide how long a call waits and whether a machine is tried at all; both are free choices
  here.  3 calls: both attempts before a restart and one after it.
- *MachineBuilds.*  One development, two machines, of which one can be removed: a take-back needs
  somebody else to claim.  2 builds and a restart: the row a crash left behind and the one made
  again.
- *Prompts.*  Two accounts on one service, an owner and a member, so that an account can change
  hands and two people can be asked; 2 visits, so that a press can be late; 2 handlers, so that
  presses race; one link code or restart, which are not wanted together.  The page's own requests
  are one step each:  what their three steps do to another's is in `RunControl`.
- *Inbox.*  2 phases, one instruction, one question, an answer at a gate, two restarts.  Run by
  hand: 2 instructions (2.4 million states), 2 questions with 2 presses (580,000).
- *Transfer.*  2 sendings, so that a second can be paired while the first writes; 2 codes; one
  project in which work is begun meanwhile, one that is another account's.  The receiver restarts
  any number of times.
- *SelfUpdate.*  3 releases and containers: one to start with, one that may be bad, one more to
  recover with; 2 presses; names of up to two suffixes, so that a server under its `-previous`
  name can be replaced too; 2 troubles, so that a roll-back can itself be refused; one copy is
  kept, and the copies' names sort otherwise than the releases, as text does at 1.2.10.  By hand,
  `ProvenKept` with 4 containers and 3 troubles (766,976 states).

Deadlock is not checked where the system may really stop: a development that is done or
cancelled, one that waits for a person, a table nobody asks, no newer release.

### Fairness

No person, machine, network or crash is ever fair.  What is:

- `Development`: `WF(RunLoop)`.  The loop calls one handler after another while the state is a
  working one, and every handler returns: model calls and builds have time-outs; git commands
  have none and are taken to return.
- `RunControl`: `WF(Go(t))` for each thread that has work: threads the operating system
  schedules, locks whose holders are themselves fair, calls with time-outs.
- `MachineCalls`: `WF(Step(a))` for each waiting run loop: the wait wakes every second and has
  three limits (`CLAIM_S`, `QUIET_S`, the call's time-out), and the server's own model has a
  time-out too.
- `MachineBuilds`: the loop's steps, its deadline (a clock) and, for each machine, what the
  *server* does once a request of it has arrived.
- `Inbox`: each question's thread; its model call has a time-out.
- `Transfer`: the sender's thread, and the request it has open at the receiver: `WF` for each
  sending; the client gives up on a part after fifteen minutes.
- `SelfUpdate`: each helper's process, and a server that boots.
- `PhaseOrder`'s `FairOrder` is used by no run: the liveness one would wish for fails (below).
- `Prompts` states no liveness: a press needs a person, and a failed message is not sent again.

### Where code and words disagree

Two are runs that expect a violation, with the words quoted in `PROJECT.json`.

1. `restart`: a green build gate commits the next phase's index before the transition.  A server
   that dies in between runs that next phase's gate over the old code: it is green, and the phase
   is never written.
2. `asleep`: whether a phase can be built here is asked before it is written and again at its
   gate; a machine that fell asleep in between leaves the platform's commands to the server, and
   the phase is charged a red build.

The others were met while modelling.  The models do what the code does; properties are stated so
that they say what holds, with the exception named.

- *Development.*  A redirect from a decision gate inside QA's second stage leaves `qa_stage` at
  2: the new plan's cases are never proposed.  A rerun saves `rerun_only` before asking for a
  transition that may be refused; the next green gate then ends the development.  The other way
  round, tests re-run by hand whose machine is lost wait for it, and another rerun that is
  refused there has cleared the flag (`engine.py:3050`): when the machine comes, a phase that may
  never have been written counts as built.  Nor does the flag die with its run, though
  `tests/test_phase9_hardening.py:799` says that it never outlives it: when the re-run gate ends
  in an error, it is retried by way of the specialist, and the first green gate ends the
  development, whatever phases are left.  An approved decision clears `resume_state` before its
  transition (`engine.py:2278`-`2291`): a server that dies in between forgets where the decision
  led, and the next approval goes to the specialist.  A pause while the Architect reads what was
  pulled overwrites the record of the pull.
- *RunControl.*  A stop that finds the lock held by something other than the loop, or by the
  loop's tail, leaves a flag nobody looks at.  An answer that read the row before a cancel was
  committed brings the cancelled development back: the orchestrator checks the caller's copy.  A
  stop that comes before the supervisor's call, or between its attempts, ends the run loop's
  thread (`engine.py:4143`, `4867`) and not the development: it stays where it was until somebody
  runs it, and then the flag that was left ends it.
- *MachineCalls.*  A restart leaves the waiting run loop's row open, and its machine counted as
  busy, for good.
- *MachineBuilds.*  The queued copy of a build stays after a crash and may be built for nobody.
  The requeue has no holder in its condition.  A lost reply to a poll leaves its row held until
  the deadline.  A removed machine may still claim within a poll kept open.
- *PhaseOrder.*  "A phase set aside earlier moves too: its record follows it to its new number"
  (`engine.py:5833`): it does so only if the phase does not state its needs, since `_reorder`
  makes a new dict of one that does, and the record was to be found by the old one's `id()`.  Its
  patch and its counters are lost and it is begun afresh: `SetAsideIsKept` is stated and fails.
  So two phases that need nothing of each other set each other aside, over budget, in turns, and
  nobody is asked until the development's own budget of calls or money ends it, which this module
  leaves out: `MovesComeToRest`, stated, fails too.  A re-plan may keep a phase that needs a
  number the new plan does not have; the next move then fails the development with a `KeyError`.
  That no phase needs a machine's is told to the Architect in a prompt (`5892`) and checked
  nowhere: one that does is put before it, the exception in `NeedsComeFirst`.  An instruction to
  a phase set aside is never read when the phase's answer was written ahead (`5509`, `5680`
  against `4552`): `WordsAreRead`, which is stated and fails.  Moving what cannot be built last
  (`5889`) renumbers the plan, but not the records of phases set aside nor the answers written
  ahead; a started phase whose machine went during a fix round is moved with its counters and its
  code.  A re-plan keeps what was set aside for the old plan; `replan()` (`3490`) keeps what was
  written ahead too.  `OwnWork` and `AskedLast` are therefore stated for developments without
  such moves (`Straight`).
- *Prompts.*  The visit is compared before the question is claimed and the gate decided: a late
  press decides a gate its presser has not seen (`notify/core.py:13` says it cannot).  A settle
  by an older row closes live questions.  Two redeems of one code can both succeed.  A typed
  reason goes to the newest question.  A restart between claim and decision leaves a question
  "approved" that decided nothing; so does the page's answer that moves the row in between, since
  the engine's save then raises `ValueError` (`store/sqlite.py:629`), which `on_press`
  (`notify/core.py:579`) does not catch.  `NoPressIsLost` is therefore stated for as long as the
  development waits at the visit the question was about: there, only a restart loses a press.
- *Inbox.*  Words written between the green gate's look and its move are never read, though the
  page says they were sent.  A bill's whole-row save and a person's answer at a gate, which takes
  no lock, overwrite each other.  A crash between the save and its mark bills twice.  An answer
  that lands while the lock is held past the run's last bill waits unbilled until the next run,
  and is not counted by the budget meanwhile.  An instruction consumed by an answer whose edits
  did not fit is not shown again.
- *Transfer.*  `incoming.py:21` promises that nothing is lost unasked; what may not be replaced
  is looked up before the import writes, minutes earlier, and work started at the receiver in
  between is deleted with its project; work started at the sender after its rows were read goes
  with the deletion there.  The sweep removes the staged parts of a transfer that is still
  importing (`blind`).  `Desk.pair` means to leave one transfer per account: but a thread that
  looked at the state (`incoming.py:252`) before its transfer was marked failed (214) goes on to
  call it importing (283), and writes what is still staged beside the newer one: `OneWriter`
  holds of transfers that were not replaced.  A sign-in that cannot be put in place reports as
  failed what was written.
- *SelfUpdate.*  `CostsARestart` ("a bad release costs a restart, not the installation") is
  stated and fails: a release that migrated the database before it failed leaves an old one that
  cannot boot.  Copies are pruned in the order of their names, as text, not of their age: at
  1.2.10 the copy just made goes first (`unkept`).  A refused inspect ends the wait for the
  helper (`update.py:770`): the server takes up its work under it, the button can be pressed, and
  `_install` (747) removes the helper by force, at whatever step it was.  A server that came up
  under its `-previous` name looks for a helper of that name, and may start a second one beside
  the first.  From either, two servers may run over one database: `OneServes`,
  `HelperUndisturbed` and `CopiedBeforeItChanges` say what holds until then, and fail without the
  exception `loose`; the last also without `unkept`.  A helper that fails before the stop leaves
  the server "restarting" until it is restarted.  A failed last removal is reported as a failed
  update, and the next one trips over the name.

## 4. The proofs

The proofs hold for every value of the constants that meets the modules' named assumptions:
limits are natural numbers, positive where the code divides or counts by them; the markers that
stand for nobody (`"nobody"`, `"run"`, ...) are not names of threads, machines or questions; the
sets that are chosen from are what they are called (`Theirs` are projects, `MemberGates` are
gates).  Where a variable counts (visits, builds, crashes), its bound is a constant like any
other.

Each module of proofs states an inductive invariant `Inv`, proves it of the initial states and,
action by action, of every step, and gets the theorems from it.  Why the invariants are stronger
than what they prove:

**DevelopmentProofs.**  `TypeCorrect`, `NoStepIsRefused` (`StepsAreLegal`) and `PauseLeadsBack`
(`PausedOnlyResumes`), restarts included.  A retry goes to `failed_from`, a carry-on to
`pause_from`, an approved decision to `resume_state`; `Inv` adds that a failed row has a working
state on record, that a paused row (or one about to pause) knows a pausable place, and that
whatever is asked of a paused row leads there, to the reading or to the end.  The table enters
through three lemmas (`WorkingCanStop`, `NamedEdges`, `RememberedEdges`).  `DeletedStaysPut`
(`RemovedStaysPut`) rests on a second invariant, `RemovedIsOver`: a deleted development is over,
or paused and about to be cancelled.

Six theorems are about phases: `EveryPhaseIsAccountedFor` (`PhasesAccountedFor`),
`NothingUnagreed` (`PlanAndTestsAgreed`), `QaComesLast` (`QaSeesTheWholePlan`),
`NoViolationSlipsBy` (`ViolationsAnswered`), `DecisionsKnowTheirPlace` (`DecisionKeepsItsPlace`)
and `TheGateBuildsItsPhase` (`GateRunsOverItsPhase`).  Each holds until the first crash
(`Uninterrupted`), for any number of phases, limits, rounds and interventions; that they need
this is what the run `restart` shows.  Their common invariant is `PlanInv`.  What the properties
say of the state alone is not inductive, because a failed, paused or deciding development comes
back to a place that is not its state.  `Ways` is therefore the set of places it may come to:
where it heads, and where a retry, a carry-on or a decision would lead.  `Whole` claims of every
one of them that it is `Sound`: if it is in a plan, the plan was agreed to; if it delivers, the
tests were too, and every phase is built and no violation is open (`AgreedAt`); if it builds,
what is checked out is the phase the index is at (`PlacedAt`).  `Counted` says that the phases
before the index, and those a re-plan keeps, passed their gates.  Once a step was re-run by hand
nothing is claimed of agreements, as in the properties; and nothing of phases if the plan may
have platform phases as well (`BuildsAreOfPhases`), for the reason given in section 3.

**EngineProofs, RunControl.**  The supervisor's calls count as calls.  `CallsExcludeEachOther`
(`OneCallAtATime`) and `StopsLandBetweenCalls` (`NothingStopsUnderACall`).  `Inv` says that
whoever is in the loop, or is about to write a stop or a pause, holds the lock: a request that
will write a stop took the free lock first, so no call is out.  `NoWorkIsStranded`
(`NoStrandedWork`) needs no lock but `WorkIsTaken`: when the row is working, some thread is about
to enter the loop, or is in it with a copy that is still the row.

**EngineProofs, PhaseOrder.**  For any plans whose phases need earlier ones only (the named
assumption, which `dependency_problem` checks), machines' phases or not, any budget, limits and
number of re-plans: `NeedsStayFirst` (`NeedsComeFirst`), `WhatIsBuiltStays` (`BuiltStaysPut`),
`OnlyMachinesAreWaitedFor` (`WaitsForMachinesAlone`), and, for developments without machines'
phases and until a re-plan (`Straight`, part of the properties), `EveryPhaseKeepsItsWork`
(`OwnWork`) and `NobodyIsAskedEarly` (`AskedLast`).  The argument has three layers.

- *A move is a permutation.*  `NeedsIt` is the least set with the phase and whatever needs one of
  it (well-founded induction on the numbers).  `Places` gives each number once, in the order
  `Before`, by counting, and leaves what is built where it is.  What is put back takes along
  whatever needs it (`Follows`), so needs stay in front (`Backward`).  `PutLast` takes nothing
  along: what needs a machine goes behind what may need it, which is the one exception
  (`Excused`).
- *The plan* (`Ordered`).  Each phase has a name of its own, the built ones are those that were
  built, in that order, and while a new plan is being made every name in the old one is an old
  one.
- *What is kept by number* (`Owned`, `Asks`).  A record that survives a move is its phase's own,
  and so is what is written ahead or staged (`AheadOwn`, `ParkedOwn`, `DraftOwn`); a phase has
  both records only while its turn is coming (`OnTurn`).  Nothing is claimed of the records a
  move loses.  That a person is asked last needs more than is true of each phase set aside.
  `Covered` speaks of them together: each was ripe when it was set aside, those that do not say
  what they need stand last, and whatever comes after one of them needs it, or needs another that
  stands no earlier.  So once the first phase left is one of them, there is nothing else to do.
  A move keeps the records of those that do not say (`Silent`) and makes one (`Joined`);
  `ParkCovers` is that these are covered again, whatever was lost.

**MachineCallsProofs.**  `TypeCorrect`, `OneHolderHolds`, `StopEndsIt` (`StopIsTheEnd`), and
`ImplementsOneAnswer`: `Spec => KeepsThePromise`, the refinement.  `Inv` says that the table is
filled from the front, that a running or answered row has a machine, that a waiting run loop has
a row of its own which has come to nothing yet, and that one that was stopped still has its flag
up when it is about to try again.  The last is why a stop is final although it is reported as a
time-out and time-outs are retried.

**MachineBuildsProofs.**  `TakenBackOnceHolds`, `WrittenPhasesAreBuilt`, `ReportedBuildsStand`.
The heart is a count: a row keeps how often it was claimed, whoever puts it back, so a build that
was taken back is on its second claim when it runs again, and a second claim is given up.

**PromptsProofs.**  `DecidesOnceHolds`, `AskedDecide`, `PressesAreCarriedOut` (for as long as the
development waits at the visit that was asked about), `QuestionsStand`.  `Carries` says that what
a listener has read and not yet acted on still fits: its question has the person and the marker
it had, its status is the one this listener gave it, nobody has decided it, and the gate it read
is the one the development waits at, if that is still the visit in question: there its save is
not refused.  No two listeners are in the middle of one question (`Alone`, `Busy`); two presses
of one are kept apart by the conditional update alone, which is why the status has to be in the
invariant.  That a question closed as too late was not about where the development is needs that
a retry is only of a failure (`to = "retried"` when the marker is a failure's) and that no two
visits have one marker.

**InboxProofs.**  `WordsInTime`, `OneAnswerReads`, `SpendCountsOnce`, `WordsAreKept`.  `Places`
says where the holder of the lock is; `AskedFor`, that what the green gate asked is still true
when it commits, but for words that came late; `Shown`, how often an instruction can have been in
front of an answer at each point of a call; `Spent` and `Billing`, what the spend in the row and
in every copy of it may be while a bill is between its save and its mark.

**TransferProofs.**  `OldWorkIsKept`, `OneWriterHolds`, `OnlyWrittenIsDeleted`.  `Survival` says
of each project that its first development is at one of the two ends, and, which makes it
inductive, that what a transfer wrote is still at the receiver and that the rows about to be
written have it (`Moves`):  this holds of replaced transfers too, any number of which may write
at a time.  `Link` ties each sending to its transfer, to the thread that imports it and to what
that has written; of those not replaced, at most one takes parts, writes or is being listed
(`Active`).

**SelfUpdateProofs.**  `OneServesHolds`, `ProvenKeptHolds`, `HelperIsLeftAlone`,
`CopiesComeFirst` (`CopiedBeforeItChanges`), for any number of containers, names, refusals and
presses.  `Inv` is `Sound`, which holds whatever servers and helpers do, and `loose \/ Strict`:
until a server takes up its work under a helper at work on it, one server runs (`Single`), what
runs has the lowest name (`Names`), a server offers nothing before it has looked after the last
attempt (`Orderly`), and of the one helper at work its step says which container has which name
and which may run, while every server waits (`Helped`).  So the refused inspect is one of the
steps covered, and what it makes possible is what the properties except.  `ProvenKeptHolds` has
the exception, though the run finds none needed.  `CopyInv` says that from the copying on, until
the new one has started, there is a copy of the database as it is (`Migrates`, `Copied`), unless
the pruning dropped it at once: the order the names sort in is any.

**Model-checked only.**  Liveness (`WorkEnds`, `WorkComesToRest`, `NoQuestionWaitsForEver`,
`BuildsAreNotAwaitedForEver`, `NobodyWaitsBesideABuilder`, `QuestionsEnd`, `SendingsEnd`,
`ServesAgain`), which is out of the prover's reach, and `ProvenKept` past a server that took up
its work under a helper.  Every other property of a passing run is stated by a theorem.
`WordsAreRead`, `SetAsideIsKept`, `MovesComeToRest` and `CostsARestart` are stated and fail, as
section 3 says.

## 5. What is not modelled

Within the modelled parts: edits of a proposal at its gate, the undo of an automatic approval,
briefs and test runs (`Development`); restarts, and the row's data beyond its place
(`RunControl`); a crash between `_park`'s reset of the tree and its save (`PhaseOrder`); pairing
codes and the clocks of heartbeats (`MachineCalls`: each limit may run out at any moment); the
triage of a red gate by QA, several platforms of one project (`MachineBuilds`); one-way
announcements, the services' wire formats, the conversations of `notify/ask.py` (`Prompts`); the
text of talks, re-plans asked from one, which renumber phases under waiting instructions
(`Inbox`); how servers find each other and the channel's cryptography, whose only effect here is
that a part out of place does not open (`Transfer`); Postgres, and installations that are not
containers (`SelfUpdate`).

Not modelled, though they keep state: the relay's rooms and reconnection, sessions, invitations
and two factors, the Jira mirror's queue, the slots and retries of the providers, quotas.  Each
is a component of its own beside the developments; the lock that the mirror's sweep takes is in
`RunControl`, the retries of a call on a lent machine are in `MachineCalls`, and a spent budget
is a choice in `Development` and a count in `PhaseOrder`.  They come next, the relay and the
mirror first: both lose, repeat and reorder what they carry.

Left out for good, unless it grows state: prompts and answer schemas, projections for the pages,
HTTP to the code hosts, git and subprocesses, text search, rendering.  They are pure functions or
I/O, whose outcomes the models choose freely.
