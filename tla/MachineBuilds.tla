---------------------------- MODULE MachineBuilds ----------------------------
(***************************************************************************)
(* The builds a server cannot do itself -- an app that needs a Mac -- and  *)
(* the machines an account lent for them.  The run loop of a development   *)
(* queues the build of the phase it wrote and waits beside the queue; a    *)
(* machine polls for it, builds it and reports.  A machine that is not     *)
(* heard from has its build taken back once; after that, or when no        *)
(* machine is there, the development waits for one to connect, and the     *)
(* next poll of any machine carries it on.                                 *)
(*                                                                         *)
(* Machines fall asleep and wake, are removed, lose the answers to their   *)
(* requests; the server restarts.  Every machine builds what every         *)
(* development needs, and the server itself never can.                     *)
(***************************************************************************)
EXTENDS Integers, FiniteSets

CONSTANTS
  Jobs,          \* developments of one account
  Machines,      \* machines it lent
  Removable,     \* bound: the machines a person may take away
  MaxFixes,      \* red builds of a phase that a fix may answer
  MaxBuilds,     \* bound: builds queued
  MaxCrashes     \* bound: restarts of the server

ASSUME MachineBuildsAssumption ==
  Removable \subseteq Machines /\ {MaxFixes, MaxBuilds, MaxCrashes} \subseteq Nat

VARIABLES
  at,        \* the state on a development's row
  owed,      \* what it picks up at when a machine connects
  attempts,  \* red builds charged to its phase
  written,   \* whether its phase is written and its build owed
  loop,      \* what the thread holding its lock is at
  threads,   \* the threads that wait for its lock, or have just left it
  build,     \* the queued build the loop waits for, 0 none
  look,      \* what the loop last read of that build
  taken,     \* how often it took the build back
  late,      \* whether its deadline has passed
  rows, queued,           \* the queue, and how many builds ever were on it
  heard, removed,   \* machines seen within the last 90 s, and taken away
  agent,     \* what each machine is at
  waking,    \* developments a thread was started for
  crashes

job     == <<at, owed, attempts, written>>
runLoop == <<loop, build, look, taken, late>>
queue   == <<rows, queued>>
machine == <<heard, removed, agent>>
vars    == <<job, runLoop, threads, queue, machine, waking, crashes>>

Ids     == 1..MaxBuilds
NoRow   == [state |-> "none", by |-> "nobody", tries |-> 0]
Idle    == [does |-> "idle", task |-> 0]
Online  == heard \ removed
There   == Online # {}            \* remote_platforms, asked now
Working == {"developing", "gate", "final"}
Waiting == {"look", "judge", "requeue"}

\* Every development has been started; the machines are paired and awake.
Init ==
  /\ at = [j \in Jobs |-> "developing"] /\ owed = [j \in Jobs |-> "developing"]
  /\ attempts = [j \in Jobs |-> 0] /\ written = [j \in Jobs |-> FALSE]
  /\ loop = [j \in Jobs |-> "none"]
  /\ threads = [j \in Jobs |-> {"start"}]
  /\ build = [j \in Jobs |-> 0] /\ look = [j \in Jobs |-> NoRow]
  /\ taken = [j \in Jobs |-> 0] /\ late = [j \in Jobs |-> FALSE]
  /\ rows = [c \in Ids |-> NoRow] /\ queued = 0
  /\ heard = {} /\ removed = {}
  /\ agent = [m \in Machines |-> Idle]
  /\ waking = {} /\ crashes = 0

(***************************************************************************)
(* The run loop                                                            *)
(***************************************************************************)
GoesOn(j, to) == loop' = [loop EXCEPT ![j] = to]
IsAt(j, state) == at' = [at EXCEPT ![j] = state]

\* One thread at a time; one that finds a machine there carries on.
Enter(j, t) ==
  /\ loop[j] = "none" /\ t \in threads[j]
  /\ threads' = [threads EXCEPT ![j] = @ \ {t}]
  /\ GoesOn(j, "run")
  /\ IF at[j] = "awaiting" /\ There THEN IsAt(j, owed[j]) ELSE UNCHANGED at
  /\ UNCHANGED <<owed, attempts, written, build, look, taken, late, queue, machine, waking, crashes>>

Leave(j) ==
  /\ loop[j] = "run" /\ at[j] \notin Working /\ GoesOn(j, "none")
  /\ UNCHANGED <<job, build, look, taken, late, threads, queue, machine, waking, crashes>>

\* A thread that a poll started takes the development off its list at the end.
Discard(j) ==
  /\ j \in waking /\ loop[j] = "none" /\ "wake" \notin threads[j] /\ waking' = waking \ {j}
  /\ UNCHANGED <<job, runLoop, threads, queue, machine, crashes>>

\* A phase nothing here can build is not written yet.
Develop(j) ==
  /\ loop[j] = "run" /\ at[j] = "developing"
  /\ IF There THEN /\ IsAt(j, "gate") /\ written' = [written EXCEPT ![j] = TRUE]
                   /\ UNCHANGED loop
              ELSE GoesOn(j, "park") /\ UNCHANGED <<at, written>>
  /\ UNCHANGED <<owed, attempts, build, look, taken, late, threads, queue, machine, waking, crashes>>

\* The tests of it all are written: a machine that is not there is said, not
\* failed.
FinalGate(j) ==
  /\ loop[j] = "run" /\ at[j] = "final"
  /\ IF There THEN GoesOn(j, "gate") /\ UNCHANGED at ELSE IsAt(j, "over") /\ UNCHANGED loop
  /\ UNCHANGED <<owed, attempts, written, build, look, taken, late, threads, queue, machine, waking, crashes>>

\* What a build that was run makes of the development: the next phase or the
\* tests of it all, or a fix, or the end.
Green(j) ==
  /\ attempts' = [attempts EXCEPT ![j] = 0] /\ written' = [written EXCEPT ![j] = FALSE]
  /\ IF at[j] = "final" THEN IsAt(j, "over") ELSE \E next \in {"developing", "final"} : IsAt(j, next)

Red(j) ==
  /\ written' = [written EXCEPT ![j] = FALSE]
  /\ IF at[j] = "final" \/ attempts[j] >= MaxFixes
       THEN IsAt(j, "over") ELSE IsAt(j, "developing")
  /\ attempts' = [attempts EXCEPT ![j] = IF at[j] = "final" THEN @ ELSE @ + 1]

\* A copy of the worktree goes on the queue.
QueueBuild(j) ==
  /\ There /\ queued < MaxBuilds /\ queued' = queued + 1
  /\ rows' = [rows EXCEPT ![queued + 1] = [NoRow EXCEPT !.state = "queued"]]
  /\ build' = [build EXCEPT ![j] = queued + 1]
  /\ taken' = [taken EXCEPT ![j] = 0] /\ late' = [late EXCEPT ![j] = FALSE]
  /\ GoesOn(j, "look") /\ UNCHANGED <<at, attempts, written>>

\* With nobody there now the commands are run here, where they cannot but fail.
BuildHere(j) ==
  ~There /\ Red(j) /\ GoesOn(j, "run") /\ UNCHANGED <<build, taken, late, queue>>

\* Where it is built is asked again.
RunGate(j) ==
  /\ loop[j] = "gate" \/ (loop[j] = "run" /\ at[j] = "gate")
  /\ QueueBuild(j) \/ BuildHere(j)
  /\ UNCHANGED <<owed, look, threads, machine, waking, crashes>>

\* Both commands have had their whole time, and a margin.
Deadline(j) ==
  /\ loop[j] \in Waiting /\ ~late[j] /\ late' = [late EXCEPT ![j] = TRUE]
  /\ UNCHANGED <<job, loop, build, look, taken, threads, queue, machine, waking, crashes>>

Look(j) ==
  /\ loop[j] = "look" /\ look' = [look EXCEPT ![j] = rows[build[j]]] /\ GoesOn(j, "judge")
  /\ UNCHANGED <<job, build, taken, late, threads, queue, machine, waking, crashes>>

Silent(j) == look[j].state = "running" /\ look[j].by \notin Online

\* Mutant: a build is taken back as often as its machines fall silent.
JudgeAgain(j) ==
  /\ loop[j] = "judge"
  /\ \/ look[j].state = "done" /\ GoesOn(j, "done")
     \/ Silent(j) /\ GoesOn(j, "requeue")
     \/ look[j].state # "done" /\ ~Silent(j) /\ late[j] /\ GoesOn(j, "lost")
     \/ look[j].state # "done" /\ ~Silent(j) /\ ~late[j] /\ GoesOn(j, "look")
  /\ look' = [look EXCEPT ![j] = NoRow]
  /\ UNCHANGED <<job, build, taken, late, threads, queue, machine, waking, crashes>>

\* Mutant: only a build nobody has claimed is given up.
JudgeQueued(j) ==
  /\ loop[j] = "judge"
  /\ \/ look[j].state = "done" /\ GoesOn(j, "done")
     \/ Silent(j) /\ GoesOn(j, IF look[j].tries >= 2 THEN "lost" ELSE "requeue")
     \/ look[j].state = "queued" /\ late[j] /\ GoesOn(j, "lost")
     \/ look[j].state # "done" /\ ~Silent(j) /\ GoesOn(j, "look")
  /\ look' = [look EXCEPT ![j] = NoRow]
  /\ UNCHANGED <<job, build, taken, late, threads, queue, machine, waking, crashes>>

\* It is done; or its machine is gone, the first time or the second; or nobody
\* has been there for as long as a machine may be silent; or the time is up.
Judge(j) ==
  /\ loop[j] = "judge"
  /\ \/ look[j].state = "done" /\ GoesOn(j, "done")
     \/ Silent(j) /\ GoesOn(j, IF look[j].tries >= 2 THEN "lost" ELSE "requeue")
     \/ /\ look[j].state = "queued" /\ ~There /\ GoesOn(j, "lost")
     \/ /\ look[j].state # "done" /\ ~Silent(j)
        /\ GoesOn(j, IF late[j] THEN "lost" ELSE "look")
  /\ look' = [look EXCEPT ![j] = NoRow]
  /\ UNCHANGED <<job, build, taken, late, threads, queue, machine, waking, crashes>>

\* If it is still held -- by whichever machine holds it now.
Requeue(j) ==
  /\ loop[j] = "requeue" /\ GoesOn(j, IF late[j] THEN "lost" ELSE "look")
  /\ LET held == rows[build[j]].state = "running" IN
     /\ rows' = IF held THEN [rows EXCEPT ![build[j]] = [@ EXCEPT !.state = "queued", !.by = "nobody"]]
                        ELSE rows
     /\ taken' = IF held THEN [taken EXCEPT ![j] = @ + 1] ELSE taken
  /\ UNCHANGED <<job, build, look, late, threads, queued, machine, waking, crashes>>

\* Whatever came of it, the copy of the worktree goes first.
Drop(j) ==
  /\ rows' = [rows EXCEPT ![build[j]] = NoRow] /\ build' = [build EXCEPT ![j] = 0]
  /\ taken' = [taken EXCEPT ![j] = 0] /\ late' = [late EXCEPT ![j] = FALSE]

Answered(j) ==
  /\ loop[j] = "done" /\ Drop(j) /\ (Green(j) \/ Red(j)) /\ GoesOn(j, "run")
  /\ UNCHANGED <<owed, look, threads, queued, machine, waking, crashes>>

Unanswered(j) ==
  /\ loop[j] = "lost" /\ Drop(j)
  /\ IF at[j] = "final" THEN IsAt(j, "over") /\ GoesOn(j, "run")
                        ELSE GoesOn(j, "park") /\ UNCHANGED at
  /\ UNCHANGED <<owed, attempts, written, look, threads, queued, machine, waking, crashes>>

\* Waiting for a machine: the phase itself, or only its build, is owed.
Park(j) ==
  /\ loop[j] = "park" /\ owed' = [owed EXCEPT ![j] = at[j]]
  /\ IsAt(j, "awaiting") /\ GoesOn(j, "run")
  /\ UNCHANGED <<attempts, written, build, look, taken, late, threads, queue, machine, waking, crashes>>

(***************************************************************************)
(* The machines, and the server's side of their requests                   *)
(***************************************************************************)
Does(m, what, task) == agent' = [agent EXCEPT ![m] = [does |-> what, task |-> task]]
Holds(m, c) == rows[c].state = "running" /\ rows[c].by = m

\* A thread for each of them, never two for one development.
Wake(found) ==
  /\ waking' = waking \cup found
  /\ threads' = [j \in Jobs |-> IF j \in found \ waking THEN threads[j] \cup {"wake"} ELSE threads[j]]

\* Mutant: only a machine that was away wakes what waits.
PollReturning(m) ==
  /\ agent[m].does = "idle"
  /\ \/ m \in removed /\ Does(m, "ended", 0) /\ UNCHANGED <<heard, waking, threads>>
     \/ /\ m \notin removed /\ Does(m, "polls", 0) /\ heard' = heard \cup {m}
        /\ Wake({j \in Jobs : m \notin heard /\ at[j] = "awaiting"})
  /\ UNCHANGED <<job, runLoop, queue, removed, crashes>>

\* Whose token it is, is asked once.  A poll is also the sign that it is there,
\* and carries on what waits for a machine.
Poll(m) ==
  /\ agent[m].does = "idle"
  /\ \/ m \in removed /\ Does(m, "ended", 0) /\ UNCHANGED <<heard, waking, threads>>
     \/ /\ m \notin removed /\ Does(m, "polls", 0) /\ heard' = heard \cup {m}
        /\ Wake({j \in Jobs : at[j] = "awaiting"})
  /\ UNCHANGED <<job, runLoop, queue, removed, crashes>>

\* The oldest build; the machine may never get the answer.  A machine removed
\* while its poll is kept may still be given one.
Claim(m) ==
  /\ agent[m].does = "polls"
  /\ \E c \in Ids :
       /\ rows[c].state = "queued" /\ \A d \in Ids : rows[d].state = "queued" => c <= d
       /\ rows' = [rows EXCEPT ![c] = [state |-> "running", by |-> m, tries |-> @.tries + 1]]
       /\ Does(m, "builds", c) \/ agent' = [agent EXCEPT ![m] = Idle]
  /\ UNCHANGED <<job, runLoop, threads, queued, heard, removed, waking, crashes>>

\* Nothing to do within the time of a poll, which touched it every second.
PollEnds(m) ==
  /\ agent[m].does = "polls"
  /\ \A c \in Ids : rows[c].state # "queued"
  /\ agent' = [agent EXCEPT ![m] = Idle]
  /\ heard' = heard \cup {m}
  /\ UNCHANGED <<job, runLoop, threads, queue, removed, waking, crashes>>

Heartbeat(m) ==
  /\ m \notin removed /\ agent[m].does = "builds" /\ m \notin heard
  /\ heard' = heard \cup {m}
  /\ UNCHANGED <<job, runLoop, threads, queue, removed, agent, waking, crashes>>

\* The worktree is given to, and what was built taken from, the machine that
\* holds the build; either request may be lost, and a refused one is not repeated.
Report(m) ==
  /\ agent[m].does = "builds"
  /\ \/ m \in removed /\ Does(m, "ended", 0) /\ UNCHANGED rows
     \/ /\ m \notin removed /\ Holds(m, agent[m].task) /\ agent' = [agent EXCEPT ![m] = Idle]
        /\ rows' = [rows EXCEPT ![agent[m].task].state = "done"]
     \/ m \notin removed /\ agent' = [agent EXCEPT ![m] = Idle] /\ UNCHANGED rows
  /\ UNCHANGED <<job, runLoop, threads, queued, heard, removed, waking, crashes>>

\* Asleep, switched off or cut off: ninety seconds without a word.  A poll the
\* server still keeps is a word.
GoSilent(m) ==
  /\ m \in heard /\ agent[m].does # "polls" /\ heard' = heard \ {m}
  /\ UNCHANGED <<job, runLoop, threads, queue, removed, agent, waking, crashes>>

\* A person takes a machine away: what it builds goes back on the queue.
Revoke(m) ==
  /\ m \in Removable \ removed /\ removed' = removed \cup {m}
  /\ rows' = [c \in Ids |-> IF Holds(m, c) THEN [rows[c] EXCEPT !.state = "queued", !.by = "nobody"]
                                           ELSE rows[c]]
  /\ UNCHANGED <<job, runLoop, threads, queued, heard, agent, waking, crashes>>

\* The server dies and starts: every development is resumed, and the builds that
\* were waited for stay on the queue for whoever polls.
Crash ==
  /\ crashes < MaxCrashes /\ crashes' = crashes + 1
  /\ loop' = [j \in Jobs |-> "none"]
  /\ threads' = [j \in Jobs |-> {"start"}] /\ waking' = {}
  /\ build' = [j \in Jobs |-> 0] /\ look' = [j \in Jobs |-> NoRow]
  /\ taken' = [j \in Jobs |-> 0] /\ late' = [j \in Jobs |-> FALSE]
  /\ agent' = [m \in Machines |-> IF agent[m].does = "polls" THEN Idle ELSE agent[m]]
  /\ UNCHANGED <<job, queue, heard, removed>>

LoopStep(j) ==
  \/ Enter(j, "start") \/ Enter(j, "wake") \/ Leave(j) \/ Discard(j)
  \/ Develop(j) \/ FinalGate(j) \/ RunGate(j) \/ Look(j) \/ Judge(j) \/ Requeue(j)
  \/ Answered(j) \/ Unanswered(j) \/ Park(j)
Server(m) == Claim(m) \/ PollEnds(m)
Agent(m) == Poll(m) \/ Heartbeat(m) \/ Report(m)

Next ==
  \/ \E j \in Jobs : LoopStep(j) \/ Deadline(j)
  \/ \E m \in Machines :
       Agent(m) \/ Server(m) \/ GoSilent(m) \/ Revoke(m)
  \/ Crash

\* The server's threads run and time passes.  Nothing obliges a machine.
Fairness ==
  /\ \A j \in Jobs : WF_vars(LoopStep(j)) /\ WF_vars(Deadline(j))
  /\ \A m \in Machines : WF_vars(Server(m))

Spec     == Init /\ [][Next]_vars
FairSpec == Spec /\ Fairness

(***************************************************************************)
(* Properties                                                              *)
(***************************************************************************)
\* What a row of the queue may hold.
Rows == [state : {"none", "queued", "running", "done"},
         by : Machines \cup {"nobody"}, tries : Nat]

\* Every variable holds what it is meant to hold.
TypeOK ==
  /\ at \in [Jobs -> Working \cup {"awaiting", "over"}]
  /\ owed \in [Jobs -> {"developing", "gate"}]
  /\ attempts \in [Jobs -> 0..MaxFixes + 1] /\ written \in [Jobs -> BOOLEAN]
  /\ loop \in [Jobs -> Waiting \cup {"none", "run", "gate", "done", "lost", "park"}]
  /\ threads \in [Jobs -> SUBSET {"start", "wake"}]
  /\ build \in [Jobs -> 0..MaxBuilds] /\ late \in [Jobs -> BOOLEAN]
  /\ rows \in [Ids -> Rows] /\ look \in [Jobs -> Rows] /\ taken \in [Jobs -> Nat]
  /\ queued \in 0..MaxBuilds
  /\ heard \subseteq Machines /\ removed \subseteq Machines
  /\ agent \in [Machines -> [does : {"idle", "polls", "builds", "ended"}, task : 0..MaxBuilds]]
  /\ waking \subseteq Jobs

\* A build is taken back from a machine that fell silent once, whatever the
\* machines and the person who removes them do meanwhile; the second time it is
\* given up (_remote_gate).
TakenBackOnce == \A j \in Jobs : taken[j] <= 1

\* A phase that is written is never written again because its machine went
\* away: the development waits, and picks up, at the build (_wait_for_builder).
OnlyTheBuildIsOwed ==
  \A j \in Jobs : written[j] => \/ at[j] = "gate"
                                \/ at[j] = "awaiting" /\ owed[j] = "gate"

\* What a machine reported stands until the loop has read it and dropped the
\* build: no silence, removal or taking back makes it be built again.
DoneStaysDone ==
  [][\A c \in Ids : rows[c].state = "done" => rows'[c].state \in {"done", "none"}]_vars

\* No development waits for ever for a build: its machine may be asleep, or think
\* it holds nothing, or nobody may come.
BuildsAreNotAwaitedForEver ==
  \A j \in Jobs : loop[j] \in Waiting ~> loop[j] \notin Waiting

\* While some machine stays there and goes on polling, no development stays
\* waiting for one, whatever it read before that machine polled, and although a
\* development somebody was started for is not started again (_wake).
NobodyWaitsBesideABuilder ==
  (\E m \in Machines : <>[](m \in Online) /\ []<><<Poll(m)>>_vars)
    => \A j \in Jobs : []<>(at[j] # "awaiting")

\* A red build is charged for what a machine built and reported, never for a
\* machine that is asleep.
SleepIsNotARedBuild ==
  [][\A j \in Jobs : attempts'[j] > attempts[j] => build[j] # 0]_vars
=============================================================================
