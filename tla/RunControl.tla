------------------------------ MODULE RunControl ------------------------------
(***************************************************************************)
(* The threads of the server around one development: the run loop and its  *)
(* lock, the flag that asks it to stop, and the requests that read the row *)
(* first and write it later.  What the steps do is module Development's:   *)
(* here a step makes some calls, one after another, and leads to its gate, *)
(* to the next step or to an end.  What a step has written ahead for the   *)
(* phases after it is left out: those calls never move the row.            *)
(*                                                                         *)
(* Every thread may serve a request and, when that moved the development,  *)
(* go on to run it.  A request works on the copy of the row it read: only  *)
(* `save` compares it with the row, the transition looks at the copy.      *)
(***************************************************************************)
EXTENDS Integers

CONSTANTS
  Threads,      \* request threads, which become run loops
  Steps,        \* the steps of a development; those between the first (the
                \* plan) and the last (the delivery) build it
  Supervised,   \* whether a supervisor may answer a gate inside the loop
  MaxCalls,     \* bound: the model calls of one step
  MaxRequests   \* bound: what is asked of the development

ASSUME RunControlAssumption ==
  /\ Steps \in Nat \ {0, 1}
  /\ MaxCalls \in Nat /\ MaxRequests \in Nat
  /\ Supervised \in BOOLEAN
  /\ "nobody" \notin Threads

VARIABLES
  row,       \* the stored development: where it is, in which step
  lock,      \* the thread that holds the development's lock
  stopping,  \* what the run loop was asked for, or "none"
  pc,        \* where each thread is
  my,        \* what each thread holds while it is not idle
  requests

vars == <<row, lock, stopping, pc, my, requests>>

Points == {"idle", "save", "move", "try lock", "flag", "enter", "loop", "call",
           "in flight", "crashed", "after", "supervise", "asking", "end"}

Place == {"created", "working", "gate", "paused", "done", "failed", "cancelled"}
Row == [at : Place, step : 1..Steps, was : Place \cup {"none"}]

RowAt(at, step) == [at |-> at, step |-> step, was |-> "none"]
Working(step)   == RowAt("working", step)
Paused(r)       == [r EXCEPT !.at = "paused", !.was = r.at]
Ended(r)        == r.at \in {"done", "failed", "cancelled"}
Redirectable(r) == r.at \in {"working", "gate"} /\ r.step \in 2..(Steps - 1)

\* The transitions of the table that a flag or a late request may ask for in vain.
Legal(r, d) ==
  /\ d.at = "cancelled" => ~Ended(r)
  /\ d.at = "paused" => r.at \in {"working", "gate"}

Blank ==
  [ job    |-> RowAt("created", 1),  \* the copy of the row it works on
    target |-> RowAt("created", 1),  \* the row its transition will write
    after  |-> "idle",               \* where it goes on after the transition
    left   |-> 0,                    \* the calls its step may still make
    asks   |-> "none" ]              \* what its request asks for

Init ==
  /\ row = RowAt("created", 1)
  /\ lock = "nobody" /\ stopping = "none"
  /\ pc = [t \in Threads |-> "idle"]
  /\ my = [t \in Threads |-> Blank]
  /\ requests = 0

(***************************************************************************)
(* The store and the orchestrator                                          *)
(***************************************************************************)
Released(t) == IF lock = t THEN "nobody" ELSE lock

\* Thread t, with copy r, is about to write d; then it goes on at `next`.
WillMove(t, at, r, d, next) ==
  /\ pc' = [pc EXCEPT ![t] = at]
  /\ my' = [my EXCEPT ![t] = [Blank EXCEPT !.job = r, !.target = d, !.after = next]]

\* It goes on with copy r and nothing else.
GoesWith(t, at, r) ==
  /\ pc' = [pc EXCEPT ![t] = at]
  /\ my' = [my EXCEPT ![t] = [Blank EXCEPT !.job = r]]

Goes(t, at) ==
  IF at \in {"idle", "enter", "end"} THEN GoesWith(t, at, Blank.job)
                                     ELSE pc' = [pc EXCEPT ![t] = at] /\ UNCHANGED my

\* An exception: the run loop fails the job when a handler raised it; any other
\* ends the thread, and its lock with it.
Raise(t) ==
  IF my[t].after = "after" THEN Goes(t, "crashed") /\ UNCHANGED lock
                           ELSE Goes(t, "idle") /\ lock' = Released(t)

\* The state is compared and nothing else of the row: that of a step is its own,
\* a pause and an end are the same whatever came before.
SameState(r, s) == r.at = s.at /\ (r.at \in {"working", "gate"} => r.step = s.step)

\* Refused when the row is not in the state the copy was read in.
Save(t) ==
  /\ pc[t] = "save"
  /\ IF SameState(row, my[t].job) THEN Goes(t, "move") /\ UNCHANGED lock ELSE Raise(t)
  /\ UNCHANGED <<row, stopping, requests>>

\* Checked against the copy, written whatever the row has become.
Move(t) ==
  /\ pc[t] = "move"
  /\ LET next == my[t].after IN
     \/ ~Legal(my[t].job, my[t].target) /\ Raise(t) /\ UNCHANGED row
     \/ /\ Legal(my[t].job, my[t].target)
        /\ row' = my[t].target
        /\ lock' = IF next \in {"idle", "enter"} THEN Released(t) ELSE lock
        /\ IF next \in {"loop", "after"} THEN GoesWith(t, next, my[t].target)
                                        ELSE Goes(t, next)
  /\ UNCHANGED <<stopping, requests>>

(***************************************************************************)
(* Requests                                                                *)
(***************************************************************************)
Request(t) ==
  /\ pc[t] = "idle" /\ requests < MaxRequests /\ requests' = requests + 1

NextStep(step) == IF step < Steps THEN step + 1 ELSE Steps

Start(t) ==
  /\ Request(t) /\ row.at = "created"
  /\ WillMove(t, "move", row, Working(1), "enter")
  /\ UNCHANGED <<row, lock, stopping>>

\* A yes or a no at a gate, a retry of what failed.
Answer(t) ==
  /\ Request(t)
  /\ \E step \in {row.step, NextStep(row.step)} :
       /\ row.at = "gate" \/ (row.at = "failed" /\ step = row.step)
       /\ WillMove(t, "save", row, Working(step), "enter")
  /\ UNCHANGED <<row, lock, stopping>>

Stop(t) ==
  /\ Request(t)
  /\ \E kind \in {"cancel", "pause", "redirect"} :
       /\ kind = "cancel" => ~Ended(row)
       /\ kind = "pause" => ~Ended(row) /\ row.at \notin {"paused", "created"}
       /\ kind = "redirect" => Redirectable(row)
       /\ my' = [my EXCEPT ![t] = [Blank EXCEPT !.job = row, !.asks = kind]]
  /\ pc' = [pc EXCEPT ![t] = "try lock"]
  /\ UNCHANGED <<row, lock, stopping>>

\* Mutant: whether it is running is not asked.
StopNowUnasked(t) ==
  /\ pc[t] = "try lock" /\ my[t].asks = "cancel"
  /\ stopping' = "none"
  /\ WillMove(t, "move", my[t].job, [my[t].job EXCEPT !.at = "cancelled"], "idle")
  /\ UNCHANGED <<row, lock, requests>>

\* Mutant: the new plan is asked for and nobody is sent to make it.
StopNowUnrun(t) ==
  /\ pc[t] = "try lock" /\ lock = "nobody" /\ lock' = t
  /\ my[t].asks = "redirect" /\ Redirectable(row)
  /\ WillMove(t, "save", row, Working(1), "idle")
  /\ UNCHANGED <<row, stopping, requests>>

\* Nothing is running it: the request does the work itself, holding the lock.
\* A stop and a pause act on the copy read before the lock was taken.
StopNow(t) ==
  /\ pc[t] = "try lock" /\ lock = "nobody"
  /\ \/ /\ my[t].asks = "cancel" /\ lock' = t /\ stopping' = "none"
        /\ WillMove(t, "move", my[t].job, [my[t].job EXCEPT !.at = "cancelled"], "idle")
     \/ /\ my[t].asks = "pause" /\ lock' = t /\ stopping' = "none"
        /\ WillMove(t, "save", my[t].job, Paused(my[t].job), "idle")
     \/ /\ my[t].asks = "redirect" /\ Redirectable(row) /\ lock' = t
        /\ WillMove(t, "save", row, Working(1), "enter")
        /\ UNCHANGED stopping
     \/ /\ my[t].asks = "redirect" /\ ~Redirectable(row)      \* it has moved on
        /\ Goes(t, "enter") /\ UNCHANGED <<lock, stopping>>
  /\ UNCHANGED <<row, requests>>

\* Somebody holds the lock: the run loop is left a flag.  A stop outranks the
\* rest, as far as the flag was looked at.
StopLater(t) ==
  /\ pc[t] = "try lock" /\ lock # "nobody"
  /\ Goes(t, IF my[t].asks # "cancel" /\ stopping = "cancel" THEN "idle" ELSE "flag")
  /\ UNCHANGED <<row, lock, stopping, requests>>

Flag(t) ==
  /\ pc[t] = "flag" /\ stopping' = my[t].asks /\ Goes(t, "idle")
  /\ UNCHANGED <<row, lock, requests>>

\* Back to its place, or to work when the pause does not say which it was.
CarryOn(t) ==
  /\ Request(t) /\ row.at = "paused" /\ lock = "nobody" /\ lock' = t
  /\ WillMove(t, "save", row,
              RowAt(IF row.was = "none" THEN "working" ELSE row.was, row.step), "enter")
  /\ UNCHANGED <<row, stopping>>

\* Others hold the lock for a moment: the sweep of the issue tracker, the
\* billing of an answered question, a deletion.
Maintain(t) ==
  /\ Request(t) /\ lock = "nobody" /\ lock' = t /\ Goes(t, "end")
  /\ UNCHANGED <<row, stopping>>

(***************************************************************************)
(* The run loop                                                            *)
(***************************************************************************)
\* Mutant: the lock is not waited for.
EnterUnlocked(t) ==
  /\ pc[t] = "enter" /\ lock' = t
  /\ GoesWith(t, "loop", row)
  /\ UNCHANGED <<row, stopping, requests>>

\* A second caller waits, then reads the row again.
Enter(t) ==
  /\ pc[t] = "enter" /\ lock = "nobody" /\ lock' = t
  /\ GoesWith(t, "loop", row)
  /\ UNCHANGED <<row, stopping, requests>>

\* The flag is taken and carried out on copy r; `next` is where a stop leads.
Obey(t, r, next) ==
  /\ stopping' = "none"
  /\ \/ /\ stopping = "cancel"
        /\ WillMove(t, "move", r, [r EXCEPT !.at = "cancelled"], next)
     \/ stopping = "pause" /\ WillMove(t, "save", r, Paused(r), next)
     \/ /\ stopping = "redirect" /\ Redirectable(r)
        /\ WillMove(t, "save", r, Working(1), "loop")
     \/ /\ stopping = "redirect" /\ ~Redirectable(r)
        /\ IF r.at = "working" THEN GoesWith(t, "loop", r) ELSE Goes(t, "end")

BeginStep(t) ==
  /\ pc[t] = "loop" /\ my[t].job.at = "working"
  /\ \/ stopping # "none" /\ Obey(t, my[t].job, "idle")
     \/ /\ stopping = "none"
        /\ pc' = [pc EXCEPT ![t] = "call"]
        /\ my' = [my EXCEPT ![t].left = MaxCalls]
        /\ UNCHANGED stopping
  /\ UNCHANGED <<row, lock, requests>>

\* Every call, a retry included, first looks for a stop, and then reads the row
\* again to carry it out.
BeginCall(t) ==
  /\ pc[t] = "call"
  /\ \/ stopping # "none" /\ Obey(t, row, "idle")
     \/ /\ stopping = "none" /\ my[t].left > 0
        /\ pc' = [pc EXCEPT ![t] = "in flight"]
        /\ my' = [my EXCEPT ![t].left = @ - 1]
        /\ UNCHANGED stopping
  /\ UNCHANGED <<row, lock, requests>>

CallAgain(t) ==
  /\ pc[t] = "in flight" /\ my[t].left > 0 /\ Goes(t, "call")
  /\ UNCHANGED <<row, lock, stopping, requests>>

Outcomes(step) ==
  {RowAt("gate", step), RowAt("failed", step),
   IF step < Steps THEN Working(step + 1) ELSE RowAt("done", step)}

\* The handler saves what it has and asks for its transition, or raises.
EndStep(t) ==
  /\ pc[t] \in {"call", "in flight"} /\ (pc[t] = "call" => stopping = "none")
  /\ \/ \E d \in Outcomes(my[t].job.step) : WillMove(t, "save", my[t].job, d, "after")
     \/ Goes(t, "crashed")
  /\ UNCHANGED <<row, lock, stopping, requests>>

\* The failed step ends the loop there and then; the flag is not looked at.
Fail(t) ==
  /\ pc[t] = "crashed"
  /\ WillMove(t, "move", my[t].job, RowAt("failed", my[t].job.step), "idle")
  /\ UNCHANGED <<row, lock, stopping, requests>>

StepEnded(t) ==
  /\ pc[t] = "after"
  /\ Goes(t, IF Supervised /\ my[t].job.at = "gate" THEN "supervise" ELSE "loop")
  /\ UNCHANGED <<row, lock, stopping, requests>>

\* A call is not begun once a stop is asked for.  Nobody catches that here: the
\* thread ends with its lock, the development waits at its gate, the flag stays.
AskSupervisor(t) ==
  /\ pc[t] = "supervise"
  /\ \/ stopping # "none" /\ Goes(t, "idle") /\ lock' = Released(t)
     \/ stopping = "none" /\ Goes(t, "asking") /\ UNCHANGED lock
  /\ UNCHANGED <<row, stopping, requests>>

\* The supervisor is asked again after a failed answer, which a stop forbids; or
\* it has answered: its record is saved over the row it was asked about, and it
\* may approve as a person would.
Supervise(t) ==
  /\ pc[t] = "asking"
  /\ \/ stopping # "none" /\ Goes(t, "idle") /\ lock' = Released(t)
     \/ ~SameState(row, my[t].job) /\ Goes(t, "idle") /\ lock' = Released(t)
     \/ SameState(row, my[t].job) /\ Goes(t, "loop") /\ UNCHANGED lock
     \/ /\ SameState(row, my[t].job) /\ UNCHANGED lock
        /\ WillMove(t, "save", row, Working(NextStep(row.step)), "loop")
  /\ UNCHANGED <<row, stopping, requests>>

\* The last look at the flag.  A development that has ended drops it.
LastLook(t) ==
  /\ pc[t] = "loop" /\ my[t].job.at # "working"
  /\ \/ stopping # "none" /\ ~Ended(my[t].job) /\ Obey(t, my[t].job, "end")
     \/ /\ stopping = "none" \/ Ended(my[t].job)
        /\ stopping' = "none" /\ Goes(t, "end")
  /\ UNCHANGED <<row, lock, requests>>

\* Mutant: the lock is kept.
LeaveLocked(t) ==
  pc[t] = "end" /\ Goes(t, "idle") /\ UNCHANGED <<lock, row, stopping, requests>>

\* What answers cost is billed and the outcome told, then the lock is let go.
Leave(t) ==
  /\ pc[t] = "end" /\ Goes(t, "idle") /\ lock' = Released(t)
  /\ UNCHANGED <<row, stopping, requests>>

Ask(t) == Start(t) \/ Answer(t) \/ Stop(t) \/ CarryOn(t) \/ Maintain(t)

Go(t) ==
  \/ Save(t) \/ Move(t) \/ StopNow(t) \/ StopLater(t) \/ Flag(t)
  \/ Enter(t) \/ BeginStep(t) \/ BeginCall(t) \/ CallAgain(t) \/ EndStep(t)
  \/ Fail(t) \/ StepEnded(t) \/ AskSupervisor(t) \/ Supervise(t) \/ LastLook(t)
  \/ Leave(t)

Next == \E t \in Threads : Ask(t) \/ Go(t)

Spec == Init /\ [][Next]_vars

\* A thread that has work goes on with it, and every call returns: each has a
\* timeout.  Nobody is obliged to ask for anything.
FairSpec == Spec /\ \A t \in Threads : WF_vars(Go(t))

(***************************************************************************)
(* Properties                                                              *)
(***************************************************************************)
\* Every thread is somewhere its code can be, with a copy of some row.
TypeOK ==
  /\ row \in Row /\ lock \in Threads \cup {"nobody"}
  /\ stopping \in {"none", "cancel", "pause", "redirect"}
  /\ pc \in [Threads -> Points]
  /\ my \in [Threads -> [job : Row, target : Row, left : 0..MaxCalls,
                         after : {"idle", "enter", "loop", "after", "end"},
                         asks : {"none", "cancel", "pause", "redirect"}]]
  /\ requests \in 0..MaxRequests

\* However many requests set it going, one thread at a time makes the calls of
\* its steps and asks its supervisor.
Calling(t) == pc[t] \in {"in flight", "asking"}

OneCallAtATime == \A t, u \in Threads : Calling(t) /\ Calling(u) => t = u

\* A development left in a working state always has a thread that will run it:
\* none is stranded by a stop, a re-plan or an answer that raced the loop's end.
NoStrandedWork == (\A t \in Threads : pc[t] = "idle") => row.at # "working"

\* A stop and a pause never move the row under a call in flight: they land
\* between calls, whoever asks and whenever.
NothingStopsUnderACall ==
  [][(\E t \in Threads : Calling(t)) =>
       (row' = row \/ row'.at \notin {"cancelled", "paused"})]_vars

\* Work that is due is run, and comes to a gate, a pause or an end.
WorkComesToRest == row.at = "working" ~> row.at # "working"
===============================================================================
