--------------------------------- MODULE Inbox ---------------------------------
(***************************************************************************)
(* What people say to the agents of a development while it is built.  An   *)
(* instruction is a row of its own, put in front of the next call it is    *)
(* for and marked read by the save after that call; a question is answered *)
(* beside the run by a thread of its own, and what the answer cost is      *)
(* added to the development by whoever holds its lock next.  Everybody     *)
(* else saves a whole copy of the row: the run, a thread that bills, a     *)
(* person's answer at a gate, which takes no lock.                         *)
(*                                                                         *)
(* One development; one person at a time answers at its gates.  While it   *)
(* works, the run's copy of the row is the row but for the inbox.          *)
(***************************************************************************)
EXTENDS Integers, FiniteSets

CONSTANTS
  Phases,      \* how many phases the plan has
  MaxMessages, \* bound: the instructions that may be written, numbered in that order
  Questions,   \* the questions that may be asked
  MaxParts,    \* max_phase_parts
  MaxPresses,  \* bound: answers at a gate
  MaxCrashes   \* bound: restarts of the server

ASSUME InboxAssumption ==
  /\ Phases \in Nat \ {0} /\ MaxParts \in Nat \ {0}
  /\ MaxMessages \in Nat /\ MaxPresses \in Nat /\ MaxCrashes \in Nat
  /\ {"run", "person", "nobody"} \cap Questions = {}

Anyone   == 0
Messages == 1..MaxMessages
Threads  == {"run", "person"} \cup Questions

VARIABLES
  state, index,        \* the row: where the development is, and at which phase
  counted,             \* the row: how often each answer is in its spend
  kept,                \* the row: how many answers at gates it has the effects of
  status, to,          \* the table: the instructions, and the phase each is for
  asked, bill,         \* the table: the questions, and whether their cost is in the spend
  lock,                \* who holds the development's lock
  at,                  \* where each thread is
  sees,                \* the copy of the row each holds
  knows, knowsRead,    \* the inbox of that copy
  owed,                \* the answers each is billing
  role,                \* whose call the run is making
  pend,                \* what is in front of that call
  part, allowed,       \* which part of the phase it is, of how many
  steered,             \* one was added for words that came late
  wanted,              \* a thread was started to run the development
  sending,             \* instructions allowed and not yet written
  \* what happened, for the properties
  shown,               \* how many answers had each instruction in front of them
  late,                \* the instructions written once their phase was past its check
  clashed,             \* a person's answer and a bill were saved over each other
  presses, crashes

row     == <<state, index, counted, kept>>
table   == <<status, to, asked, bill>>
copies  == <<sees, knows, knowsRead, owed>>
parts   == <<part, allowed, steered>>
call    == <<role, pend, parts>>
history == <<shown, late, clashed, presses, crashes>>
vars    == <<row, table, lock, at, copies, call, wanted, sending, history>>

Nothing == [q \in Questions |-> 0]
Row     == [state |-> state, counted |-> counted, kept |-> kept]

Blank == [state |-> "developing", counted |-> Nothing, kept |-> 0]

Init ==
  /\ state = "developing" /\ index = 1 /\ counted = Nothing /\ kept = 0
  /\ status = [m \in Messages |-> "none"] /\ to = [m \in Messages |-> Anyone]
  /\ asked = [q \in Questions |-> "none"] /\ bill = [q \in Questions |-> "none"]
  /\ lock = "nobody" /\ at = [t \in Threads |-> "off"]
  /\ sees = [t \in Threads |-> Blank]
  /\ knows = [t \in Threads |-> {}] /\ knowsRead = [t \in Threads |-> {}]
  /\ owed = [t \in Threads |-> {}]
  /\ role = "writer" /\ pend = {} /\ part = 1 /\ allowed = MaxParts /\ steered = FALSE
  /\ wanted = TRUE /\ sending = [m \in Messages |-> FALSE]
  /\ shown = [m \in Messages |-> 0] /\ late = {} /\ clashed = FALSE
  /\ presses = 0 /\ crashes = 0

Goes(t, from, next) == at[t] = from /\ at' = [at EXCEPT ![t] = next]

(***************************************************************************)
(* The store.                                                              *)
(***************************************************************************)
Written == {m \in Messages : status[m] # "none"}
Pending == {m \in Messages : status[m] = "pending"}
Read    == {m \in Messages : status[m] = "read"}

\* A thread reads the row, and the inbox with it.
Gets(t) ==
  /\ sees' = [sees EXCEPT ![t] = Row]
  /\ knows' = [knows EXCEPT ![t] = Written]
  /\ knowsRead' = [knowsRead EXCEPT ![t] = Read]

\* Mutant: the table becomes what the copy says.
MergeInboxReplaces(known, read) ==
  [m \in Messages |->
     IF m \in read THEN "read" ELSE IF m \in known THEN "pending" ELSE "none"]

\* The copy adds what the table does not have and marks read what it read.
MergeInbox(known, read) ==
  [m \in Messages |->
     IF m \in read THEN "read"
     ELSE IF m \in known /\ status[m] = "none" THEN "pending" ELSE status[m]]

\* A thread that ends holds nothing any more.
Drops(t) ==
  /\ sees' = [sees EXCEPT ![t] = Blank] /\ owed' = [owed EXCEPT ![t] = {}]
  /\ knows' = [knows EXCEPT ![t] = {}] /\ knowsRead' = [knowsRead EXCEPT ![t] = {}]

SavesInbox(t) == status' = MergeInbox(knows[t], knowsRead[t])

\* The whole row, over whatever was written since the copy was read.
Saves(t, newCounted, newKept) ==
  /\ sees[t].state = state
  /\ counted' = newCounted /\ kept' = newKept

Unbilled == {q \in Questions : bill[q] = "owed"}
Added(spend, qs) == [q \in Questions |-> spend[q] + (IF q \in qs THEN 1 ELSE 0)]

MarkBilled(t) ==
  bill' = [q \in Questions |-> IF q \in owed[t] THEN "billed" ELSE bill[q]]

(***************************************************************************)
(* The run: it holds the lock, and works while there is work.              *)
(***************************************************************************)
Enter ==
  /\ wanted /\ lock = "nobody" /\ Goes("run", "off", "step")
  /\ lock' = "run" /\ wanted' = FALSE
  /\ knows' = [knows EXCEPT !["run"] = Written]
  /\ knowsRead' = [knowsRead EXCEPT !["run"] = Read]
  /\ UNCHANGED <<row, table, sees, owed, call, sending, history>>

FirstPart == part' = 1 /\ allowed' = MaxParts /\ steered' = FALSE

\* Develop begins: a specialist's call, part by part.
Develop ==
  /\ state = "developing" /\ Goes("run", "step", "bill")
  /\ role' = "writer"
  /\ UNCHANGED <<row, table, lock, copies, pend, parts, wanted, sending, history>>

\* Before every call: the answers given since the last one are added to the spend,
\* saved, and only then marked as billed.
BillAnswers ==
  /\ at["run"] = "bill"
  /\ \/ /\ Unbilled = {} /\ Goes("run", "bill", "read")
        /\ UNCHANGED <<counted, status, owed>>
     \/ /\ Unbilled # {} /\ Goes("run", "bill", "mark")
        /\ owed' = [owed EXCEPT !["run"] = Unbilled]
        /\ counted' = Added(counted, Unbilled) /\ SavesInbox("run")
  /\ UNCHANGED <<state, index, kept, to, asked, bill, lock, sees, knows, knowsRead, call,
                 wanted, sending, history>>

Billed ==
  /\ Goes("run", "mark", "read") /\ MarkBilled("run")
  /\ UNCHANGED <<row, status, to, asked, lock, copies, call, wanted, sending, history>>

\* An instruction about a phase is its specialist's; one to nobody is for whoever calls.
ForCall(m, who) == to[m] = Anyone \/ (who = "writer" /\ to[m] = index)

\* The inbox is read again, not trusted from the copy.
ReadInbox ==
  /\ Goes("run", "read", "call")
  /\ pend' = {m \in Pending : ForCall(m, role)}
  /\ knows' = [knows EXCEPT !["run"] = Read \cup pend']
  /\ knowsRead' = [knowsRead EXCEPT !["run"] = Read]
  /\ UNCHANGED <<row, table, lock, sees, owed, role, parts, wanted, sending, history>>

Forgets ==
  /\ knows' = [knows EXCEPT !["run"] = Written']
  /\ knowsRead' = [knowsRead EXCEPT !["run"] = Read']

\* A call that failed, or said the same twice, or was not made for want of budget, read
\* nothing; a person is asked.  QA's look at a red gate is given up instead.
CallFails ==
  /\ SavesInbox("run") /\ Forgets /\ pend' = {}
  /\ \/ role = "writer" /\ Goes("run", "call", "step") /\ state' = "waiting" /\ FirstPart
     \/ role = "qa" /\ Goes("run", "call", "red") /\ UNCHANGED <<state, parts>>
  /\ role' = "writer"
  /\ UNCHANGED <<index, counted, kept, to, asked, bill, lock, sees, owed, wanted, sending,
                 history>>

\* The answer is there, and its account saved, before what it read is marked.
CallAnswers ==
  /\ Goes("run", "call", "consume") /\ SavesInbox("run")
  /\ shown' = [m \in Messages |-> shown[m] + (IF m \in pend THEN 1 ELSE 0)]
  /\ UNCHANGED <<row, to, asked, bill, lock, copies, call, wanted, sending, late, clashed,
                 presses, crashes>>

\* Mutant: what was in front of the call is not marked.
ConsumeNothing ==
  /\ \/ role = "writer" /\ Goes("run", "consume", "part")
     \/ role = "qa" /\ Goes("run", "consume", "red")
  /\ UNCHANGED <<row, table, lock, sees, owed, role, parts, wanted, sending, history>>
  /\ pend' = {} /\ Forgets

Consume ==
  /\ \/ role = "writer" /\ Goes("run", "consume", "part")
     \/ role = "qa" /\ Goes("run", "consume", "red")
  /\ status' = MergeInbox(knows["run"], knowsRead["run"] \cup pend)
  /\ pend' = {} /\ Forgets
  /\ UNCHANGED <<row, to, asked, bill, lock, sees, owed, role, parts, wanted, sending,
                 history>>

\* Somebody wrote to the specialist about this phase and was not read.
Steered == \E m \in Pending : to[m] = index

\* An answer that says the phase is done is the last, unless somebody wrote meanwhile:
\* then one more part, once.  Changes that did not fit are asked for again.
Part ==
  /\ at["run"] = "part"
  /\ \E fits, complete \in BOOLEAN :
       LET last   == (fits /\ complete) \/ part = allowed
           isLate == fits /\ last /\ ~ steered /\ Steered
       IN  \/ /\ isLate \/ ~ last
              /\ Goes("run", "part", "bill") /\ UNCHANGED state
              /\ part' = part + 1 /\ steered' = (steered \/ isLate)
              /\ allowed' = IF part = allowed THEN part + 1 ELSE allowed
           \/ /\ last /\ ~ isLate
              /\ Goes("run", "part", "step") /\ FirstPart
              /\ state' = IF fits THEN "gate" ELSE "waiting"
  /\ UNCHANGED <<index, counted, kept, table, lock, copies, role, pend, wanted, sending,
                 history>>

\* The build is made and tested; if it is red QA may look at it first.
BuildGate ==
  /\ state = "gate" /\ at["run"] = "step"
  /\ \/ Goes("run", "step", "green") /\ UNCHANGED role
     \/ Goes("run", "step", "red") /\ UNCHANGED role
     \/ Goes("run", "step", "bill") /\ role' = "qa"
  /\ UNCHANGED <<row, table, lock, copies, pend, parts, wanted, sending, history>>

\* A red gate is sent back to be fixed or put to a person; QA may have found its own
\* test wrong and corrected it, and the gate runs again.
Red ==
  /\ Goes("run", "red", "step") /\ SavesInbox("run") /\ role' = "writer"
  /\ \/ state' \in {"developing", "waiting"}
     \/ role = "qa" /\ UNCHANGED state
  /\ UNCHANGED <<index, counted, kept, to, asked, bill, lock, copies, pend, parts, wanted,
                 sending, history>>

\* Mutant: a green phase is committed, whoever wrote meanwhile.
GreenUnasked ==
  /\ Goes("run", "green", "commit")
  /\ UNCHANGED <<row, table, lock, copies, call, wanted, sending, history>>

\* A green gate is asked for words nobody has read before the phase is committed.
Green ==
  /\ at["run"] = "green"
  /\ \/ /\ Steered /\ Goes("run", "green", "step")
        /\ SavesInbox("run") /\ state' = "developing"
     \/ ~ Steered /\ Goes("run", "green", "commit") /\ UNCHANGED <<state, status>>
  /\ UNCHANGED <<index, counted, kept, to, asked, bill, lock, copies, call, wanted, sending,
                 history>>

Commit ==
  /\ Goes("run", "commit", "moved") /\ index' = index + 1 /\ SavesInbox("run")
  /\ UNCHANGED <<state, counted, kept, to, asked, bill, lock, copies, call, wanted, sending,
                 history>>

\* On to the next phase, to its review's gate, or to the end.
Moved ==
  /\ Goes("run", "moved", "step")
  /\ state' \in {"waiting", IF index > Phases THEN "done" ELSE "developing"}
  /\ UNCHANGED <<index, counted, kept, table, lock, copies, call, wanted, sending, history>>

(***************************************************************************)
(* Billing beside the run's own calls: at the end of a run, and by the     *)
(* thread that answered when nobody holds the lock.  A development that    *)
(* moved since it was read refuses the save, and the next call bills.      *)
(***************************************************************************)
Rests ==
  /\ state \in {"waiting", "done"} /\ Goes("run", "step", "get")
  /\ UNCHANGED <<row, table, lock, copies, call, wanted, sending, history>>

TakesLock(q) ==
  /\ \/ lock = "nobody" /\ lock' = q /\ Goes(q, "answered", "get")
     \/ lock # "nobody" /\ Goes(q, "answered", "off") /\ UNCHANGED lock
  /\ UNCHANGED <<row, table, copies, call, wanted, sending, history>>

Leaves(t) == Drops(t) /\ lock' = IF lock = t THEN "nobody" ELSE lock

GetsForBill(t) ==
  /\ \/ Unbilled = {} /\ Goes(t, "get", "off") /\ Leaves(t)
     \/ /\ Unbilled # {} /\ Goes(t, "get", "save") /\ UNCHANGED lock
        /\ Gets(t) /\ owed' = [owed EXCEPT ![t] = Unbilled]
  /\ UNCHANGED <<row, table, call, wanted, sending, history>>

\* Mutant: a refused save is not noticed.
SavesBillUnheard(t) ==
  /\ Goes(t, "save", "billed") /\ UNCHANGED <<lock, copies>>
  /\ \/ /\ Saves(t, Added(sees[t].counted, owed[t]), sees[t].kept) /\ SavesInbox(t)
        /\ clashed' = (clashed \/ sees[t].kept # kept)
     \/ sees[t].state # state /\ UNCHANGED <<counted, kept, status, clashed>>
  /\ UNCHANGED <<state, index, to, asked, bill, call, wanted, sending, shown, late,
                 presses, crashes>>

SavesBill(t) ==
  /\ \/ /\ Saves(t, Added(sees[t].counted, owed[t]), sees[t].kept) /\ SavesInbox(t)
        /\ Goes(t, "save", "billed") /\ UNCHANGED <<lock, copies>>
        /\ clashed' = (clashed \/ sees[t].kept # kept)
     \/ /\ sees[t].state # state /\ Goes(t, "save", "off") /\ Leaves(t)
        /\ UNCHANGED <<counted, kept, status, clashed>>
  /\ UNCHANGED <<state, index, to, asked, bill, call, wanted, sending, shown, late,
                 presses, crashes>>

EndsBill(t) ==
  /\ Goes(t, "billed", "off") /\ MarkBilled(t) /\ Leaves(t)
  /\ UNCHANGED <<row, status, to, asked, call, wanted, sending, history>>

(***************************************************************************)
(* Questions: each has a thread from the moment it is asked.               *)
(***************************************************************************)
Ask(q) ==
  /\ asked[q] = "none" /\ asked' = [asked EXCEPT ![q] = "answering"]
  /\ Goes(q, "off", "think")
  /\ UNCHANGED <<row, status, to, bill, lock, copies, call, wanted, sending, history>>

\* No question is put for want of budget; or it is, and what comes back is an answer or
\* a reason why there is none, that may have cost something too.
Answer(q) ==
  /\ at[q] = "think"
  /\ \E said \in {"answered", "failed"}, cost \in {"none", "owed"} :
       /\ said = "answered" => cost = "owed"
       /\ asked' = [asked EXCEPT ![q] = said] /\ bill' = [bill EXCEPT ![q] = cost]
  /\ \/ bill'[q] = "none" /\ Goes(q, "think", "off")
     \/ Goes(q, "think", "answered")
  /\ UNCHANGED <<row, status, to, lock, copies, call, wanted, sending, history>>

(***************************************************************************)
(* People.                                                                 *)
(***************************************************************************)
NextMessage(m) == \A n \in 1..m : n < m <=> (status[n] # "none" \/ sending[n])

\* An instruction for the agent on a phase still to finish.
Steer(m) ==
  /\ NextMessage(m) /\ state # "done"
  /\ \E p \in index..Phases : to' = [to EXCEPT ![m] = p]
  /\ sending' = [sending EXCEPT ![m] = TRUE]
  /\ UNCHANGED <<row, status, asked, bill, lock, at, copies, call, wanted, history>>

\* The old steering box: for whoever calls next.
MessageBox(m) ==
  /\ NextMessage(m)
  /\ to' = [to EXCEPT ![m] = Anyone] /\ sending' = [sending EXCEPT ![m] = TRUE]
  /\ UNCHANGED <<row, status, asked, bill, lock, at, copies, call, wanted, history>>

\* A phase takes no more words once its green gate has asked for them.
Closed(p) == p < index \/ (p = index /\ at["run"] = "commit")

Message(m) ==
  /\ sending[m] /\ sending' = [sending EXCEPT ![m] = FALSE]
  /\ status' = [status EXCEPT ![m] = "pending"]
  /\ late' = IF to[m] # Anyone /\ Closed(to[m]) THEN late \cup {m} ELSE late
  /\ UNCHANGED <<row, to, asked, bill, lock, at, copies, call, wanted, shown, clashed,
                 presses, crashes>>

\* An answer at a gate: the row is read, saved with what the answer changes, and moved.
Look ==
  /\ state = "waiting" /\ Goes("person", "off", "save") /\ Gets("person")
  /\ presses < MaxPresses
  /\ UNCHANGED <<row, table, lock, owed, call, wanted, sending, history>>

\* What they wrote with it goes to whoever calls next.
Press ==
  /\ Saves("person", sees["person"].counted, sees["person"].kept + 1)
  /\ Goes("person", "save", "move") /\ presses' = presses + 1 /\ Drops("person")
  /\ clashed' = (clashed \/ sees["person"].counted # counted)
  /\ \/ SavesInbox("person") /\ UNCHANGED to
     \/ \E m \in Messages :
          /\ NextMessage(m) /\ to' = [to EXCEPT ![m] = Anyone]
          /\ status' = MergeInbox(knows["person"] \cup {m}, knowsRead["person"])
  /\ UNCHANGED <<state, index, asked, bill, lock, call, wanted, sending, shown, late,
                 crashes>>

Approved ==
  /\ Goes("person", "move", "off") /\ wanted' = TRUE
  /\ state' = IF index > Phases THEN "done" ELSE "developing"
  /\ UNCHANGED <<index, counted, kept, table, lock, copies, call, sending, history>>

(***************************************************************************)
(* The server stops and starts.                                            *)
(***************************************************************************)
Stopped ==
  /\ crashes < MaxCrashes /\ crashes' = crashes + 1
  /\ at' = [t \in Threads |-> "off"] /\ lock' = "nobody" /\ wanted' = TRUE
  /\ sending' = [m \in Messages |-> FALSE]
  /\ sees' = [t \in Threads |-> Blank] /\ owed' = [t \in Threads |-> {}]
  /\ knows' = [t \in Threads |-> {}] /\ knowsRead' = [t \in Threads |-> {}]
  /\ role' = "writer" /\ pend' = {} /\ FirstPart
  /\ UNCHANGED <<row, status, to, shown, late, clashed, presses>>

\* Mutant: the questions of the last process are not looked at.
RestartForgets == Stopped /\ UNCHANGED <<asked, bill>>

\* No thread is left to write an answer: the questions say so.
Restart ==
  /\ Stopped /\ UNCHANGED bill
  /\ asked' = [q \in Questions |-> IF asked[q] = "answering" THEN "failed" ELSE asked[q]]

Run ==
  \/ Enter \/ Develop \/ BillAnswers \/ Billed \/ ReadInbox \/ CallFails \/ CallAnswers
  \/ Consume \/ Part \/ BuildGate \/ Red \/ Green \/ Commit \/ Moved \/ Rests
  \/ GetsForBill("run") \/ SavesBill("run") \/ EndsBill("run")

AnswerThread(q) ==
  Answer(q) \/ TakesLock(q) \/ GetsForBill(q) \/ SavesBill(q) \/ EndsBill(q)

People ==
  \/ \E q \in Questions : Ask(q)
  \/ \E m \in Messages : Steer(m) \/ MessageBox(m) \/ Message(m)
  \/ Look \/ Press \/ Approved

Next == Run \/ (\E q \in Questions : AnswerThread(q)) \/ People \/ Restart

Spec == Init /\ [][Next]_vars

\* A model call ends, if only by its timeout, and a thread goes on.
FairSpec == Spec /\ \A q \in Questions : WF_vars(AnswerThread(q))

(***************************************************************************)
(* Properties.                                                             *)
(***************************************************************************)
\* Every variable holds what it is meant to hold.
TypeOK ==
  /\ state \in {"developing", "gate", "waiting", "done"} /\ index \in Nat \ {0}
  /\ counted \in [Questions -> Nat] /\ kept \in Nat
  /\ status \in [Messages -> {"none", "pending", "read"}] /\ to \in [Messages -> 0..Phases]
  /\ asked \in [Questions -> {"none", "answering", "answered", "failed"}]
  /\ bill \in [Questions -> {"none", "owed", "billed"}]
  /\ lock \in {"nobody", "run"} \cup Questions
  /\ at \in [Threads -> {"off", "step", "bill", "mark", "read", "call", "consume", "part",
                         "green", "red", "commit", "moved", "get", "save", "billed",
                         "think", "answered", "move"}]
  /\ sees \in [Threads -> [state : {"developing", "gate", "waiting", "done"},
                           counted : [Questions -> Nat], kept : Nat]]
  /\ knows \in [Threads -> SUBSET Messages] /\ knowsRead \in [Threads -> SUBSET Messages]
  /\ owed \in [Threads -> SUBSET Questions]
  /\ role \in {"writer", "qa"} /\ pend \subseteq Messages
  /\ part \in Nat /\ allowed \in Nat /\ steered \in BOOLEAN /\ wanted \in BOOLEAN
  /\ sending \in [Messages -> BOOLEAN] /\ shown \in [Messages -> Nat]
  /\ late \subseteq Messages /\ clashed \in BOOLEAN /\ presses \in Nat /\ crashes \in Nat

\* Nothing moves past a phase while words to its specialist wait unread, but for those
\* written once the green gate had asked for them (_build_gate, _steered).
WordsAreReadInTime ==
  \A m \in Pending : to[m] \in 1..(index - 1) => m \in late

\* An instruction is in front of one answer, more only over a restart, and nothing is
\* read that no answer had in front of it (_invoke).
ReadByOneAnswer ==
  \A m \in Messages :
    shown[m] <= 1 + crashes /\ (status[m] = "read" => shown[m] > 0)

\* Whatever older copy of the development is saved, nothing that was written is gone and
\* nothing that was read is unread (_merge_inbox).
NothingIsTakenBack ==
  [][ \A m \in Messages :
        status[m] # "none" => status'[m] = status[m] \/ status'[m] = "read" ]_vars

\* What an answer cost is in the spend once, twice only over a restart; and it is not
\* said to be there when it is not, unless a person's answer at a gate was saved over it
\* or under it (_bill_answers).
CountedOnce ==
  \A q \in Questions :
    /\ counted[q] <= 1 + crashes
    /\ bill[q] = "billed" /\ ~ clashed => counted[q] > 0

\* Every question gets an answer or the reason why there is none (answer,
\* fail_unanswered).
QuestionsEnd ==
  \A q \in Questions : asked[q] = "answering" ~> asked[q] \in {"answered", "failed"}
=============================================================================
