----------------------------- MODULE MachineCalls -----------------------------
(***************************************************************************)
(* A phase written on a machine somebody lent.  The run loop (an asker)    *)
(* puts its question in the table of calls and looks at the row every      *)
(* second; a machine claims it in a long poll, says now and then that it   *)
(* is still at it, and answers or gives up.  Whoever is not answered in    *)
(* time takes the call back and asks the server's own model.               *)
(*                                                                         *)
(* The look and the take-back are two transactions, and so are reading the *)
(* queue and claiming from it: everything may happen between them.  The    *)
(* machines are not in this repository: what they may ask, and lose, is    *)
(* taken from what the server answers.                                     *)
(***************************************************************************)
EXTENDS Integers, FiniteSets

CONSTANTS
  Askers,      \* developments, each in a run loop of its own
  Machines,    \* the account's machines that write the phase's domain
  Retries,     \* bound: attempts after the first, the retries and those that ask
               \* for a smaller part
  MaxCalls,    \* bound: rows of the table; an attempt past it is not made
  MaxCrashes   \* bound: restarts of the server

Ids == 1..MaxCalls

ASSUME MachineCallsAssumption ==
  /\ Retries \in Nat /\ MaxCalls \in Nat /\ MaxCrashes \in Nat
  /\ "nobody" \notin Machines /\ "server" \notin Machines
  /\ {"none", "lost", "asked", "unasked"} \cap Machines = {}

VARIABLES
  calls,     \* the table: of each call its state and the machine that claimed it
  asked,     \* how many rows there are: the last is the youngest
  got,       \* what the wait for each call has come to
  pc,        \* where each run loop is
  mine,      \* the call it waits for
  tries,     \* the attempts it has made
  lent,      \* whether there was a machine to ask when it began
  stop,      \* the developments that were told to stop
  seen,      \* the queued call a machine's poll has read and will try to claim
  removed,   \* the machines taken off the account
  lastPoll,  \* those whose long poll began before they were
  crashes

local   == <<mine, tries, lent>>
asker   == <<pc, mine, tries, lent>>
machine == <<seen, removed, lastPoll>>
vars    == <<calls, asked, got, asker, stop, machine, crashes>>

Points == {"begin", "ready", "waiting", "take back", "server", "stop seen", "ended"}
CallState == {"none", "queued", "running", "done", "failed", "cancelled"}

IsOpen(c)  == calls[c].state \in {"queued", "running"}
Open       == {c \in Ids : IsOpen(c)}
HeldBy(c, m) == calls[c].state = "running" /\ calls[c].by = m

Init ==
  /\ calls = [c \in Ids |-> [state |-> "none", by |-> "nobody"]]
  /\ asked = 0
  /\ got = [c \in Ids |-> "none"]
  /\ pc = [a \in Askers |-> "begin"] /\ mine = [a \in Askers |-> 0]
  /\ tries = [a \in Askers |-> 0] /\ lent = [a \in Askers |-> FALSE]
  /\ stop = {}
  /\ seen = [m \in Machines |-> 0]
  /\ removed = {} /\ lastPoll = {}
  /\ crashes = 0

Goes(a, at) == pc' = [pc EXCEPT ![a] = at]
Becomes(c, state) == calls' = [calls EXCEPT ![c].state = state]

\* The attempts are over: nothing of them is kept, and what becomes of a stop
\* nobody looked at is the run loop's affair.
Ends(a) ==
  /\ Goes(a, "ended") /\ stop' = stop \ {a}
  /\ mine' = [mine EXCEPT ![a] = 0] /\ tries' = [tries EXCEPT ![a] = 0]
  /\ lent' = [lent EXCEPT ![a] = FALSE]

\* What an attempt brought is good, or it is asked again, or that was the last.
\* A stop that ended it is one more attempt that brought nothing.
Verdict(a, good) ==
  IF good \/ tries[a] > Retries THEN Ends(a)
                                ELSE Goes(a, "ready") /\ UNCHANGED <<local, stop>>

(***************************************************************************)
(* The run loop                                                            *)
(***************************************************************************)
\* One machine more than there are open calls must be there.  Whether those
\* that are paired were heard from just now is not known here.
Begin(a) ==
  /\ pc[a] = "begin" /\ Goes(a, "ready")
  /\ \E there \in SUBSET (Machines \ removed) :
       lent' = [lent EXCEPT ![a] = Cardinality(there) > Cardinality(Open)]
  /\ UNCHANGED <<calls, asked, got, mine, tries, stop, machine, crashes>>

\* Mutant: an attempt after the first does not look for a stop.
AttemptBlind(a) ==
  /\ pc[a] = "ready" /\ lent[a] /\ (a \in stop => tries[a] > 0)
  /\ asked < MaxCalls /\ asked' = asked + 1 /\ Becomes(asked + 1, "queued")
  /\ mine' = [mine EXCEPT ![a] = asked + 1] /\ tries' = [tries EXCEPT ![a] = @ + 1]
  /\ Goes(a, "waiting")
  /\ UNCHANGED <<got, lent, stop, machine, crashes>>

\* Every attempt first looks for a stop.
Attempt(a) ==
  /\ pc[a] = "ready"
  /\ \/ a \in stop /\ Ends(a) /\ UNCHANGED <<calls, asked>>
     \/ /\ a \notin stop /\ ~lent[a] /\ Goes(a, "server")
        /\ tries' = [tries EXCEPT ![a] = @ + 1]
        /\ UNCHANGED <<calls, asked, mine, lent, stop>>
     \/ /\ a \notin stop /\ lent[a] /\ asked < MaxCalls
        /\ asked' = asked + 1
        /\ Becomes(asked + 1, "queued")
        /\ mine' = [mine EXCEPT ![a] = asked + 1]
        /\ tries' = [tries EXCEPT ![a] = @ + 1]
        /\ Goes(a, "waiting") /\ UNCHANGED <<lent, stop>>
  /\ UNCHANGED <<got, machine, crashes>>

\* A call that was given up by its machine, or with its machine, goes to the
\* server's model whether or not there is a stop.
Look(a) ==
  /\ pc[a] = "waiting"
  /\ LET c == mine[a] IN
     \/ /\ calls[c].state = "done"
        /\ got' = [got EXCEPT ![c] = calls[c].by]
        /\ \E good \in BOOLEAN : Verdict(a, good)
     \/ /\ calls[c].state \in {"failed", "cancelled"}
        /\ got' = [got EXCEPT ![c] = "server"]
        /\ Goes(a, "server") /\ UNCHANGED <<local, stop>>
     \* a stop, or else: not claimed, not heard from, too long; each may run out
     \/ /\ IsOpen(c) /\ Goes(a, IF a \in stop THEN "stop seen" ELSE "take back")
        /\ UNCHANGED <<got, local, stop>>
  /\ UNCHANGED <<calls, asked, machine, crashes>>

\* Mutant: the call is closed even when it was answered a moment ago.
TakeBackBlind(a) ==
  /\ pc[a] = "take back"
  /\ Becomes(mine[a], "cancelled")
  /\ got' = [got EXCEPT ![mine[a]] = "server"] /\ Goes(a, "server")
  /\ UNCHANGED <<asked, mine, tries, lent, stop, machine, crashes>>

\* Mutant: it is taken back and looked at again.
TakeBackWaits(a) ==
  /\ pc[a] = "take back" /\ Goes(a, "waiting")
  /\ UNCHANGED <<calls, asked, got, mine, tries, lent, stop, machine, crashes>>

\* Only an open call is taken back: an answer that landed meanwhile is read.
TakeBack(a) ==
  /\ pc[a] \in {"take back", "stop seen"}
  /\ LET c == mine[a] IN
     \/ ~IsOpen(c) /\ Goes(a, "waiting") /\ UNCHANGED <<calls, got, local, stop>>
     \/ /\ IsOpen(c) /\ Becomes(c, "cancelled") /\ pc[a] = "take back"
        /\ got' = [got EXCEPT ![c] = "server"]
        /\ Goes(a, "server") /\ UNCHANGED <<local, stop>>
     \/ /\ IsOpen(c) /\ Becomes(c, "cancelled") /\ pc[a] = "stop seen"
        /\ got' = [got EXCEPT ![c] = "nobody"] /\ Verdict(a, FALSE)
  /\ UNCHANGED <<asked, machine, crashes>>

ServerAnswers(a) ==
  /\ pc[a] = "server" /\ \E good \in BOOLEAN : Verdict(a, good)
  /\ UNCHANGED <<calls, asked, got, machine, crashes>>

(***************************************************************************)
(* The machines, as the server answers them                                *)
(***************************************************************************)
\* Whose token it is, is asked once, when the poll begins; the queue is read
\* again and again for as long as the poll is kept.
Polls(m) == m \notin removed \/ m \in lastPoll

\* The oldest first.
ReadQueue(m) ==
  /\ Polls(m) /\ seen[m] = 0
  /\ LET queued == {c \in Ids : calls[c].state = "queued"} IN
       \E c \in queued : (\A d \in queued : c <= d) /\ seen' = [seen EXCEPT ![m] = c]
  /\ UNCHANGED <<calls, asked, got, asker, stop, removed, lastPoll, crashes>>

\* If it is still queued; otherwise the next one is tried.
Claim(m) ==
  /\ seen[m] # 0 /\ seen' = [seen EXCEPT ![m] = 0]
  /\ \/ /\ calls[seen[m]].state = "queued"
        /\ calls' = [calls EXCEPT ![seen[m]] = [state |-> "running", by |-> m]]
        /\ lastPoll' = lastPoll \ {m}
     \/ calls[seen[m]].state # "queued" /\ UNCHANGED <<calls, lastPoll>>
  /\ UNCHANGED <<asked, got, asker, stop, removed, crashes>>

\* An answer or a failure is taken from the machine that holds the call, once.
\* Nothing obliges it: it may have been closed, be asleep, or never have got the
\* reply to its poll.  What it says of a call it does not hold is refused.
Report(m) ==
  /\ m \notin removed
  /\ \E c \in Ids, state \in {"done", "failed"} : HeldBy(c, m) /\ Becomes(c, state)
  /\ UNCHANGED <<asked, got, asker, stop, machine, crashes>>

(***************************************************************************)
(* People, and the server itself                                           *)
(***************************************************************************)
Stop(a) ==
  /\ a \notin stop /\ pc[a] # "ended" /\ stop' = stop \cup {a}
  /\ UNCHANGED <<calls, asked, got, asker, machine, crashes>>

\* What it was writing is taken back with it.
Remove(m) ==
  /\ m \notin removed /\ removed' = removed \cup {m}
  /\ lastPoll' = lastPoll \cup {m}
  /\ calls' = [c \in Ids |-> IF IsOpen(c) /\ calls[c].by = m
                               THEN [calls[c] EXCEPT !.state = "cancelled"]
                               ELSE calls[c]]
  /\ UNCHANGED <<asked, got, asker, stop, seen, crashes>>

\* The table survives.  The run loops begin their steps again, and a stop that
\* was only flagged is forgotten.
Restart ==
  /\ crashes < MaxCrashes /\ crashes' = crashes + 1
  /\ \E a \in Askers : pc[a] # "ended"
  /\ got' = [c \in Ids |->
               IF \E a \in Askers : mine[a] = c /\ pc[a] \in {"waiting", "take back", "stop seen"}
                 THEN "lost" ELSE got[c]]
  /\ pc' = [a \in Askers |-> IF pc[a] = "ended" THEN "ended" ELSE "begin"]
  /\ tries' = [a \in Askers |-> 0] /\ mine' = [a \in Askers |-> 0]
  /\ lent' = [a \in Askers |-> FALSE]
  /\ stop' = {} /\ lastPoll' = {} /\ seen' = [m \in Machines |-> 0]
  /\ UNCHANGED <<calls, asked, removed>>

Step(a) == Begin(a) \/ Attempt(a) \/ Look(a) \/ TakeBack(a) \/ ServerAnswers(a)

Serve(m) == ReadQueue(m) \/ Claim(m) \/ Report(m)

Next ==
  \/ \E a \in Askers : Step(a) \/ Stop(a)
  \/ \E m \in Machines : Serve(m) \/ Remove(m)
  \/ Restart

Spec == Init /\ [][Next]_vars

\* A run loop goes on: each of its waits has a limit, and so has a model's
\* call.  Of the machines nothing at all is assumed.
FairSpec == Spec /\ \A a \in Askers : WF_vars(Step(a))

(***************************************************************************)
(* Properties                                                              *)
(***************************************************************************)
\* Every run loop, call and machine is somewhere the code can bring it.
TypeOK ==
  /\ calls \in [Ids -> [state : CallState, by : Machines \cup {"nobody"}]]
  /\ asked \in 0..MaxCalls
  /\ got \in [Ids -> Machines \cup {"none", "server", "nobody", "lost"}]
  /\ pc \in [Askers -> Points] /\ mine \in [Askers -> 0..MaxCalls]
  /\ tries \in [Askers -> 0..(Retries + 1)] /\ lent \in [Askers -> BOOLEAN]
  /\ stop \subseteq Askers
  /\ removed \subseteq Machines /\ lastPoll \subseteq removed
  /\ seen \in [Machines -> 0..MaxCalls]
  /\ crashes \in 0..MaxCrashes

\* What a call has come to: an answer counts from the moment it landed, not from
\* the moment it is read.
Given(c) ==
  IF got[c] # "none" THEN got[c]
  ELSE CASE calls[c].state = "done" -> calls[c].by
         [] calls[c].state = "none" -> "unasked"
         [] OTHER                   -> "asked"

Promise == INSTANCE OneAnswer WITH Questions <- Ids, answer <- [c \in Ids |-> Given(c)]

\* A question is answered once and the first answer stands: one that landed is
\* never thrown away for the server's, nor asked of a second machine, however the
\* take-back, the claims and the answer fall.
KeepsThePromise == Promise!Spec

\* The run loop is not held up by a machine that went away, was removed,
\* or was told it is not its call any more.
NoQuestionWaitsForEver == Promise!EveryQuestionEnds

\* A call is written by the machine that claimed it and by no other: two polls
\* that read the same queue do not both get it, and it is never given again.
OneHolder ==
  [][\A c \in Ids : calls[c].by # "nobody" => calls'[c].by = calls[c].by]_vars

\* A stop is the end of it: a development whose call was taken back for a stop puts
\* no other question, to a machine or to the server, whatever is left of its
\* attempts.
StopIsTheEnd ==
  [][\A a \in Askers : (mine[a] # 0 /\ got[mine[a]] = "nobody") =>
       mine'[a] \in {mine[a], 0} /\ pc'[a] # "server"]_vars
===============================================================================
