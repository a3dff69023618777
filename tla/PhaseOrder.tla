----------------------------- MODULE PhaseOrder -----------------------------
(***************************************************************************)
(* The order a plan's phases are built in.  A phase is known by where it   *)
(* stands in the plan, and phases move: one that spent its budget of model *)
(* calls is set aside behind those that do not need it, with its work as a *)
(* patch; those nothing here can build go last; a re-plan replaces all     *)
(* that is not built.  Meanwhile phases that need nothing still to be      *)
(* built have their answers written ahead of their turn.                   *)
(*                                                                         *)
(* Each phase has an identity here, which the code does not give it: it is *)
(* what the properties speak of.  Reviews, screens and the gates on the    *)
(* way to an approved plan are in Development.                             *)
(***************************************************************************)
EXTENDS Integers, Sequences, FiniteSets, Functions, TLC

CONSTANTS
  Plans,        \* what the Architect may answer: sequences of phases
  Parallel,     \* max_parallel_phases, at least 1
  Budget,       \* max_phase_calls
  MaxAttempts,  \* max_build_attempts
  MaxReplans    \* bound: how often the plan is made again

\* Nothing is planned that needs a later phase (dependency_problem).
ASSUME PhaseOrderAssumption ==
  /\ {Parallel, Budget, MaxAttempts} \subseteq Nat \ {0} /\ MaxReplans \in Nat
  /\ Plans \subseteq Seq([needs : SUBSET Nat, tells : BOOLEAN, platform : BOOLEAN]) \ {<<>>}
  /\ \A q \in Plans : \A n \in DOMAIN q : q[n].needs \subseteq 1..(n - 1)

VARIABLES
  at,        \* the state on the row
  plan,      \* the phases, in the order they stand
  index,     \* how many are built
  attempts,  \* red gates of the phase it is on
  calls,     \* model calls made for phase number calls.of
  parked,    \* the records of the phases set aside, by number
  ahead,     \* whose answer is written ahead, by number: in memory only
  builder,   \* a machine that builds the platform is there
  resume,    \* where a wait for it goes back to
  asked,     \* what a decision is about
  told,      \* the phase a person's unread words are about
  draft,     \* history: whose work the checkout holds, uncommitted
  done,      \* history: the phases built, in order
  replans

phases  == <<plan, index>>
phase   == <<attempts, calls>>
aside   == <<parked, ahead>>
waiting == <<resume, asked, told>>
orderVars    == <<at, phases, phase, aside, builder, waiting, draft, done, replans>>

Empty    == [n \in {} |-> n]
Nobody   == <<>>
Number   == index + 1               \* the phase it is on
Current  == plan[Number].id
Fresh    == [of |-> 0, made |-> 0]
Spent    == calls.of = Number /\ calls.made >= Budget

\* A plan as it is on the record: the phases kept, then those that are new, each
\* with a name of its own and the names of those it needs.
Planned(kept, q, made) ==
  LET name[n \in DOMAIN q] == IF n <= Len(kept) THEN kept[n].id ELSE <<made, n>>
  IN  [n \in DOMAIN q |->
         IF n <= Len(kept) THEN kept[n]
         ELSE [id |-> name[n], needs |-> q[n].needs, tells |-> q[n].tells,
               platform |-> q[n].platform, wants |-> {name[m] : m \in q[n].needs}]]

OrderInit ==
  /\ \E q \in Plans : plan = Planned(<<>>, q, 0)
  /\ at = "developing" /\ index = 0
  /\ attempts = 0 /\ calls = Fresh
  /\ parked = Empty /\ ahead = Empty
  /\ builder \in BOOLEAN
  /\ resume = "developing" /\ asked = "nothing" /\ told = Nobody
  /\ draft = {} /\ done = <<>> /\ replans = 0

(***************************************************************************)
(* Moving phases                                                           *)
(***************************************************************************)
Buildable(f) == f.platform => builder
Later(p)     == {n \in DOMAIN p : n >= Number}

\* The number each phase gets when those in back go behind the others; each group
\* keeps its own order.
Places(p, back) ==
  [n \in DOMAIN p |-> IF n \in back
                      THEN Cardinality(DOMAIN p \ back) + Cardinality((1..n) \cap back)
                      ELSE Cardinality((1..n) \ back)]

\* Which phase stands at number i then.
Standing(place, i) == CHOOSE n \in DOMAIN place : place[n] = i

\* Mutant: the numbers a phase needs stay what they were.
ReorderKeepsNeeds(p, place) == [i \in DOMAIN p |-> p[Standing(place, i)]]

\* The numbers a phase needs move with the phases.
Reorder(p, place) ==
  [i \in DOMAIN p |-> [p[Standing(place, i)] EXCEPT !.needs = {place[d] : d \in @}]]

\* What needs phase n, itself included; a phase that does not say needs all before it.
NeedsIt(p, n) ==
  LET needs[m \in n..Len(p)] ==
        m = n \/ ~p[m].tells \/ \E d \in p[m].needs : d \in n..(m - 1) /\ needs[d]
  IN  {m \in n..Len(p) : needs[m]}

\* Whether _reorder finds every number a phase needs: one that a re-plan kept may need
\* a number the new plan, being shorter, does not have.
Numbered(p) == \A n \in DOMAIN p : p[n].needs \subseteq DOMAIN p

\* The phase it is on cannot be built here, another that is left can.
Misplaced == ~Buildable(plan[Number]) /\ \E n \in Later(plan) : Buildable(plan[n])

\* Mutant: a phase that nothing here can build stays where it stands.
PutLastNever == plan

\* _put_unbuildable_last: the plan is put in a new order, and nothing else.
PutLast ==
  IF Misplaced
  THEN Reorder(plan, Places(plan, {n \in Later(plan) : ~Buildable(plan[n])}))
  ELSE plan

\* Mutant: the records of the phases set aside before stay where they are.
ParkAlone(p, work) ==
  LET place  == Places(p, NeedsIt(p, Number))
      record == [of |-> p[Number].id, draft |-> work, attempts |-> attempts]
  IN  /\ Numbered(p)
      /\ plan' = Reorder(p, place)
      /\ parked' = place[Number] :> record @@ parked
      /\ ahead' = Empty
      /\ attempts' = 0 /\ calls' = Fresh /\ draft' = {}
      /\ UNCHANGED <<at, index, builder, waiting, done, replans>>

\* _park: the work of the phase becomes a patch, and it waits behind those that do
\* not need it.  Of the phases set aside before, the record of one that does not say
\* what it needs goes with it; the others, which _reorder has made new, are not found
\* again, and what was kept of them is gone.
Park(p, work) ==
  /\ Numbered(p)
  /\ \E back \in {NeedsIt(p, Number)} :
    LET place  == Places(p, back)
        record == [of |-> p[Number].id, draft |-> work, attempts |-> attempts]
        moving == {n \in DOMAIN parked \cap Later(p) : ~p[n].tells} \cup {Number}
        held   == [n \in DOMAIN parked \cup {Number} |-> IF n = Number THEN record ELSE parked[n]]
    IN  /\ plan' = Reorder(p, place)
        /\ parked' = [n \in {place[m] : m \in moving} \cup (DOMAIN parked \ Later(p)) |->
                        held[IF n \in Later(p) THEN Standing(place, n) ELSE n]]
        /\ ahead' = Empty
        /\ attempts' = 0 /\ calls' = Fresh /\ draft' = {}
        /\ UNCHANGED <<at, index, builder, waiting, done, replans>>

Leads(to) == at' = to

\* _reorder raises: the checkout is back at the last commit, what was written ahead is
\* dropped, and the step has failed.
ParkFails(p) ==
  /\ ~Numbered(p)
  /\ Leads("failed") /\ plan' = p
  /\ ahead' = Empty /\ draft' = {} /\ calls' = [of |-> Number, made |-> Budget]
  /\ UNCHANGED <<index, attempts, parked, builder, waiting, done, replans>>

(***************************************************************************)
(* A phase's turn: _develop                                                *)
(***************************************************************************)

\* The person is asked about the phase, on words alone.
AskAbout(what) == Leads("decision") /\ asked' = what /\ UNCHANGED <<resume, told>>

\* Mutant: a phase that others need is not set aside.
BudgetStopAlone(p, work, written) ==
  IF NeedsIt(p, Number) = {Number} /\ Later(p) # {Number}
  THEN Park(p, work) \/ ParkFails(p)
  ELSE /\ plan' = p /\ draft' = work /\ ahead' = written
       /\ calls' = [of |-> Number, made |-> Budget]
       /\ AskAbout("budget")
       /\ UNCHANGED <<index, attempts, parked, builder, done, replans>>

\* _phase_budget_stop: others go on if any can, else the person is asked now.
BudgetStop(p, work, written) ==
  IF NeedsIt(p, Number) # Later(p)
  THEN Park(p, work) \/ ParkFails(p)
  ELSE /\ plan' = p /\ draft' = work /\ ahead' = written
       /\ calls' = [of |-> Number, made |-> Budget]
       /\ AskAbout("budget")
       /\ UNCHANGED <<index, attempts, parked, builder, done, replans>>

\* The model calls a phase takes are counted by its number, never past the budget.
Called ==
  LET made == IF calls.of = Number THEN calls.made ELSE 0
  IN  calls' \in [of : {Number}, made : {m \in 1..Budget : m > made \/ m = Budget}]

\* Phases whose answer may be written now: they need nothing still to be built.
Ready(p) ==
  {n \in Later(p) \ {Number} : /\ n \notin DOMAIN ahead
                               /\ p[n].tells /\ p[n].needs \subseteq 1..index
                               /\ Buildable(p[n])}

\* _write_ahead: the first of them, as many as there is room for beside those
\* still being written; busy is how many of the earlier ones are.
WrittenAhead(p, busy) ==
  LET first == {n \in Ready(p) : Cardinality({m \in Ready(p) : m < n}) + busy < Parallel - 1}
  IN  [n \in first \cup DOMAIN ahead |-> IF n \in first THEN p[n].id ELSE ahead[n]]

\* The phase set aside is put back as it was, unless its patch no longer fits.
Unpark ==
  /\ at = "developing" /\ Number \in DOMAIN parked
  /\ LET record == parked[Number]
     IN  /\ parked' = Restrict(parked, DOMAIN parked \ {Number})
         /\ draft' \in {draft, draft \cup record.draft}
         /\ attempts' = record.attempts
         /\ calls' = [of |-> Number, made |-> Budget]
  /\ AskAbout("budget")
  /\ UNCHANGED <<plan, index, ahead, builder, done, replans>>

\* Everything left needs a machine that is not there: _wait_for_builder.
WaitForBuilder(from) ==
  /\ Leads("builder") /\ resume' = from
  /\ UNCHANGED <<index, phase, aside, builder, asked, told, draft, done, replans>>

\* The turn of a phase that was not set aside, in the order the phases then have.
Turn == /\ at = "developing" /\ Number \in DOMAIN plan \ DOMAIN parked
        /\ Misplaced => Numbered(plan)

\* The phases nothing here can build cannot be put last: _reorder raises.
MoveFails ==
  /\ at = "developing" /\ Number \in DOMAIN plan \ DOMAIN parked
  /\ Misplaced /\ ~Numbered(plan)
  /\ Leads("failed")
  /\ UNCHANGED <<phases, phase, aside, builder, waiting, draft, done, replans>>

DevelopWaits ==
  /\ Turn
  /\ plan' = PutLast /\ ~Buildable(PutLast[Number])
  /\ WaitForBuilder("developing")

\* The phase is written: with the answer that was written ahead of its turn if
\* this is its first attempt, or else by asking, in as many parts as it takes.
\* The answer may fail, say what it said before, or be cut short by the budget.
Develop ==
  /\ Turn /\ Buildable(PutLast[Number])
  /\ \E busy \in 0..Cardinality(DOMAIN ahead) :
       LET p     == PutLast
           known == WrittenAhead(p, busy)
           fresh == attempts = 0
           rest  == IF fresh THEN Restrict(known, DOMAIN known \ {Number}) ELSE known
           own   == draft \cup {p[Number].id}
       IN  \/ /\ fresh /\ Number \in DOMAIN ahead
              /\ \/ draft' = draft \cup {ahead[Number]} /\ UNCHANGED told
                 \/ draft' = own \cup {ahead[Number]} /\ told' = Nobody
              /\ Leads("gate") /\ Called /\ ahead' = rest /\ plan' = p
              /\ UNCHANGED <<index, attempts, parked, builder, resume, asked, done, replans>>
           \/ /\ ~Spent
              /\ draft' = own /\ told' = Nobody
              /\ Leads("gate") /\ Called /\ ahead' = rest /\ plan' = p
              /\ UNCHANGED <<index, attempts, parked, builder, resume, asked, done, replans>>
           \/ /\ ~Spent
              /\ draft' \in {draft, own}
              /\ \/ Leads("failed") /\ UNCHANGED waiting
                 \/ AskAbout("choice")
              /\ Called /\ ahead' = rest /\ plan' = p
              /\ UNCHANGED <<index, attempts, parked, builder, done, replans>>
           \/ BudgetStop(p, IF Spent THEN draft ELSE own, rest)

(***************************************************************************)
(* Its gate: _build_gate                                                   *)
(***************************************************************************)
GatePasses ==
  /\ at = "gate"
  /\ done' = Append(done, Current)
  /\ Leads(IF Number = Len(plan) THEN "built" ELSE "developing")
  /\ index' = Number /\ attempts' = 0 /\ draft' = {}
  /\ UNCHANGED <<plan, calls, aside, builder, waiting, replans>>

\* A red gate: QA may read it first, the supervisor may want a person to look.
GateFails ==
  /\ at = "gate"
  /\ attempts' = attempts + 1
  /\ Called \/ UNCHANGED calls
  /\ IF attempts' = MaxAttempts
     THEN Leads("failed") /\ UNCHANGED waiting
     ELSE \/ Leads("developing") /\ UNCHANGED waiting
          \/ AskAbout("choice")
  /\ UNCHANGED <<phases, aside, builder, draft, done, replans>>

BuilderLost ==
  /\ at = "gate" /\ plan[Number].platform
  /\ UNCHANGED plan /\ WaitForBuilder("gate")

BuilderReady ==
  /\ at = "builder" /\ Buildable(plan[Number])
  /\ Leads(resume) /\ resume' = "developing"
  /\ UNCHANGED <<phases, phase, aside, builder, asked, told, draft, done, replans>>

BuilderComesOrGoes ==
  /\ \E n \in DOMAIN plan : plan[n].platform     \* others do not look at it
  /\ builder' = ~builder
  /\ UNCHANGED <<at, phases, phase, aside, waiting, draft, done, replans>>

(***************************************************************************)
(* People, plans and restarts                                              *)
(***************************************************************************)
\* At a budget's end only words will do; they are for the next attempt.
Instruct ==
  /\ at = "decision"
  /\ Leads("developing") /\ told' = Current /\ asked' = "nothing"
  /\ IF asked = "budget" THEN attempts' = 0 /\ calls' = [calls EXCEPT !.made = 0]
                         ELSE UNCHANGED phase
  /\ UNCHANGED <<phases, aside, builder, resume, draft, done, replans>>

Approve ==
  /\ at = "decision" /\ asked = "choice"
  /\ Leads("developing") /\ asked' = "nothing"
  /\ UNCHANGED <<phases, phase, aside, builder, resume, told, draft, done, replans>>

Retry ==
  /\ at = "failed"
  /\ Leads("developing") /\ attempts' = 0 /\ told' \in {told, Current}
  /\ UNCHANGED <<phases, calls, aside, builder, resume, asked, draft, done, replans>>

\* _replan_from, on the supervisor's word, a person's, or at the budget's end:
\* what is built is kept, what was written ahead is dropped.
Replan ==
  /\ at \in {"developing", "gate", "builder", "decision"} /\ replans < MaxReplans
  /\ Leads("architecture") /\ asked' = "nothing"
  /\ attempts' = 0 /\ calls' = [calls EXCEPT !.made = 0] /\ ahead' = Empty
  /\ replans' = replans + 1
  /\ UNCHANGED <<phases, parked, builder, resume, told, draft, done>>

\* replan: a failed development is planned again from the first phase.
StartOver ==
  /\ at = "failed" /\ replans < MaxReplans
  /\ Leads("architecture") /\ index' = 0 /\ attempts' = 0 /\ done' = <<>>
  /\ replans' = replans + 1
  /\ UNCHANGED <<plan, calls, aside, builder, waiting, draft>>

\* The Architect answers, and the plan is approved.
Architecture ==
  /\ at = "architecture"
  /\ \E q \in Plans :
       /\ Len(q) > index
       /\ plan' = Planned(SubSeq(plan, 1, index), q, replans)
  /\ Leads("developing") /\ attempts' = 0 /\ told' = Nobody
  /\ UNCHANGED <<index, calls, aside, builder, resume, asked, draft, done, replans>>

\* What was being written ahead is gone with the server that asked for it.
Restart ==
  /\ ahead # Empty /\ ahead' = Empty
  /\ UNCHANGED <<at, phases, phase, parked, builder, waiting, draft, done, replans>>

RunLoop == Unpark \/ MoveFails \/ DevelopWaits \/ Develop \/ GatePasses \/ GateFails \/ BuilderLost
OrderNext ==
  \/ RunLoop \/ BuilderReady \/ BuilderComesOrGoes
  \/ Instruct \/ Approve \/ Retry \/ Replan \/ StartOver \/ Architecture \/ Restart

OrderSpec     == OrderInit /\ [][OrderNext]_orderVars
FairOrder == OrderSpec /\ WF_orderVars(RunLoop)

(***************************************************************************)
(* Properties                                                              *)
(***************************************************************************)
\* However the phases are moved, each that is left stands behind all it was planned to need, and
\* the numbers on it still name those (_reorder).  Only one that needs a machine's
\* phase without being one may come before it: nothing checks what the Architect is
\* told, and those that cannot be built go last (_put_unbuildable_last).
NeedsComeFirst ==
  at # "architecture" => \A n \in Later(plan) :
    /\ plan[n].needs \subseteq DOMAIN plan
    /\ {plan[m].id : m \in plan[n].needs} = plan[n].wants
    /\ \A d \in plan[n].needs : d < n \/ (plan[d].platform /\ ~plan[n].platform)

\* No move loses a phase or doubles one, and what is built stays where it was
\* built: the numbers its commit and the history speak of stay true.
BuiltStaysPut ==
  /\ \A m, n \in DOMAIN plan : plan[m].id = plan[n].id => m = n
  /\ Len(done) = index /\ \A n \in 1..index : done[n] = plan[n].id

\* A development waits for a machine only when every phase left needs one:
\* "Everything left needs a machine this is not" (engine.py:5923).
WaitsForMachinesAlone ==
  [][at = "developing" /\ at' = "builder" => \A n \in Later(plan') : plan'[n].platform]_orderVars

\* Plans no machine is needed for, until they are made again.  Outside these the
\* next two do not hold: records and answers are kept by number, and a move of
\* the phases nothing here can build, or a re-plan, changes whose number it is.
Straight == replans = 0 /\ \A n \in DOMAIN plan : ~plan[n].platform

\* What is set aside, written ahead, staged or committed as a phase's is that
\* phase's own, through any number of phases set aside, taken up and failed.
OwnWork ==
  Straight => /\ \A n \in DOMAIN parked : n \in Later(plan) /\ parked[n].of = plan[n].id
              /\ \A n \in DOMAIN ahead : n \in Later(plan) /\ ahead[n] = plan[n].id
              /\ at # "built" => draft \subseteq {Current}
              /\ at = "gate" => draft = {Current}

\* The person is asked about a phase over its budget "once nothing else can
\* run" (engine.py:5802): every phase left was set aside too or needs one that was.
AskedLast ==
  Straight /\ at = "decision" /\ asked = "budget" =>
    Later(plan) = UNION {NeedsIt(plan, n) : n \in (DOMAIN parked \cap Later(plan)) \cup {Number}}

\* "a phase set aside earlier moves too: its record follows it to its new number"
\* (engine.py:5833), until the person is asked.  It does not when the phase says what it
\* needs: its work is gone, and at its turn it is begun afresh.
SetAsideIsKept ==
  [][\A n \in DOMAIN parked : \/ \E m \in DOMAIN parked' : parked'[m] = parked[n]
                             \/ at' = "decision"]_orderVars

\* The agents come to rest, at a person, a machine or the end.  They do not: two phases
\* that need nothing of each other lose each other's records and take turns for ever.
MovesComeToRest == []<>(at \notin {"developing", "gate"})

\* "the text reaches the developer as the instruction for the next attempt"
\* (engine.py:4552): what is built next was written by somebody who read it.
WordsAreRead == at = "gate" => told # Current
=============================================================================
