-------------------------- MODULE MachineCallsProofs --------------------------
(***************************************************************************)
(* What MachineCalls keeps for any number of developments, machines, calls *)
(* and restarts: its types, that a call has one holder, that a stop is the *)
(* end of the attempts, and that it implements OneAnswer.  Liveness is     *)
(* TLC's.                                                                  *)
(***************************************************************************)
EXTENDS MachineCalls, TLAPS

InWait == {"waiting", "take back", "stop seen"}

\* The table is filled from the front; a call is nobody's until it is claimed,
\* and what runs or is answered has its machine.
Rows ==
  \A c \in Ids :
    /\ calls[c].state = "none" <=> c > asked
    /\ c > asked => got[c] = "none"
    /\ calls[c].state \in {"none", "queued"} => calls[c].by = "nobody"
    /\ calls[c].state \in {"running", "done"} => calls[c].by \in Machines

\* Who waits, waits for a call that is in the table and has come to nothing yet;
\* who was stopped still has the flag up; who is about to ask may ask once more.
Waiting(a) ==
  /\ mine[a] <= asked
  /\ pc[a] \in InWait => mine[a] # 0 /\ got[mine[a]] = "none"
  /\ pc[a] = "stop seen" => a \in stop
  /\ mine[a] # 0 /\ got[mine[a]] = "nobody" => pc[a] = "ready" /\ a \in stop
  /\ pc[a] \in {"begin", "ready"} => tries[a] <= Retries

Waits == \A a \in Askers : Waiting(a)

\* No two run loops have the same call.
Apart == \A a, b \in Askers : a # b /\ mine[a] # 0 => mine[a] # mine[b]

\* The type invariant, in the parts the actions disturb.
TableType == /\ calls \in [Ids -> [state : CallState, by : Machines \cup {"nobody"}]]
             /\ asked \in 0..MaxCalls
             /\ got \in [Ids -> Machines \cup {"none", "server", "nobody", "lost"}]
AskerType == /\ pc \in [Askers -> Points] /\ mine \in [Askers -> 0..MaxCalls]
             /\ tries \in [Askers -> 0..(Retries + 1)] /\ lent \in [Askers -> BOOLEAN]
             /\ stop \subseteq Askers
MachineType == /\ removed \subseteq Machines /\ lastPoll \subseteq removed
               /\ seen \in [Machines -> 0..MaxCalls] /\ crashes \in 0..MaxCrashes

Inv == TableType /\ AskerType /\ MachineType /\ Rows /\ Waits /\ Apart

\* The assumption on the constants, as the provers use it best.
LEMMA Numbers == Retries \in Nat /\ MaxCalls \in Nat /\ MaxCrashes \in Nat
  BY MachineCallsAssumption DEF MachineCallsAssumption

LEMMA Names ==
  \A m \in Machines : m \notin {"none", "server", "nobody", "lost", "asked", "unasked"}
  BY MachineCallsAssumption DEF MachineCallsAssumption

USE Numbers DEF Ids

-------------------------------------------------------------------------------
(***************************************************************************)
(* The invariant                                                           *)
(***************************************************************************)
LEMMA InvTypes == Inv => TypeOK
  BY DEF Inv, TypeOK, TableType, AskerType, MachineType

LEMMA InitInv == Init => Inv
  BY DEF Init, Inv, TableType, AskerType, MachineType, Rows, Waits, Waiting, Apart,
         Points, CallState, InWait

\* What the end of the attempts leaves.
LEMMA EndsKeeps ==
  ASSUME AskerType, NEW a \in Askers, Ends(a)
  PROVE  /\ AskerType' /\ pc'[a] = "ended" /\ mine'[a] = 0
         /\ \A b \in Askers : b # a =>
              /\ pc'[b] = pc[b] /\ mine'[b] = mine[b] /\ tries'[b] = tries[b]
              /\ b \in stop => b \in stop'
<1>1. pc' \in [Askers -> Points] BY DEF AskerType, Ends, Goes, Points
<1>2. mine' \in [Askers -> 0..MaxCalls] BY DEF AskerType, Ends
<1>3. tries' \in [Askers -> 0..(Retries + 1)] BY DEF AskerType, Ends
<1>4. lent' \in [Askers -> BOOLEAN] /\ stop' \subseteq Askers BY DEF AskerType, Ends
<1>5. pc'[a] = "ended" /\ mine'[a] = 0 BY DEF AskerType, Ends, Goes
<1>6. \A b \in Askers : b # a =>
        /\ pc'[b] = pc[b] /\ mine'[b] = mine[b] /\ tries'[b] = tries[b]
        /\ b \in stop => b \in stop'
  BY DEF AskerType, Ends, Goes
<1>. QED BY <1>1, <1>2, <1>3, <1>4, <1>5, <1>6 DEF AskerType

\* What the verdict on an attempt leaves: it is over, or it is asked again.
LEMMA VerdictKeeps ==
  ASSUME AskerType, NEW a \in Askers, NEW good \in BOOLEAN, Verdict(a, good)
  PROVE  /\ AskerType'
         /\ \A b \in Askers : b # a =>
              /\ pc'[b] = pc[b] /\ mine'[b] = mine[b] /\ tries'[b] = tries[b]
              /\ b \in stop => b \in stop'
         /\ \/ pc'[a] = "ended" /\ mine'[a] = 0
            \/ /\ pc'[a] = "ready" /\ mine'[a] = mine[a] /\ stop' = stop
               /\ tries'[a] <= Retries
<1>1. CASE Ends(a)  BY <1>1, EndsKeeps
<1>2. CASE ~(good \/ tries[a] > Retries) /\ Goes(a, "ready") /\ UNCHANGED <<local, stop>>
  <2>1. mine' = mine /\ tries' = tries /\ lent' = lent /\ stop' = stop
    BY <1>2 DEF local
  <2>2. pc' = [pc EXCEPT ![a] = "ready"] /\ tries[a] <= Retries
    BY <1>2 DEF Goes, AskerType
  <2>3. AskerType' BY <2>1, <2>2 DEF Points, AskerType
  <2>. QED BY <2>1, <2>2, <2>3 DEF AskerType
<1>. QED BY <1>1, <1>2 DEF Verdict

\* A run loop goes on to another point and keeps all else it has.
LEMMA GoesKeeps ==
  ASSUME AskerType, NEW a \in Askers, NEW at \in Points, Goes(a, at),
         mine' = mine, tries' = tries, lent' = lent, stop' = stop
  PROVE  AskerType' /\ pc'[a] = at /\ \A b \in Askers : b # a => pc'[b] = pc[b]
  BY DEF AskerType, Goes

\* What is known of one run loop and its call.
LEMMA OneAsker ==
  ASSUME Inv, NEW b \in Askers
  PROVE  /\ mine[b] \in Nat /\ tries[b] \in Nat /\ asked \in Nat /\ mine[b] <= asked
         /\ mine[b] # 0 => mine[b] \in Ids
         /\ Waiting(b)
<1>1. mine[b] \in 0..MaxCalls /\ tries[b] \in 0..(Retries + 1) BY DEF Inv, AskerType
<1>2. asked \in 0..MaxCalls BY DEF Inv, TableType
<1>3. Waiting(b) BY DEF Inv, Waits
<1>4. mine[b] <= asked BY <1>3 DEF Waiting
<1>. QED BY <1>1, <1>2, <1>3, <1>4

\* Who is not concerned by a step goes on waiting for the same call.
LEMMA OthersWait ==
  ASSUME Inv, NEW b \in Askers, pc'[b] = pc[b], mine'[b] = mine[b], tries'[b] = tries[b],
         b \in stop => b \in stop', asked' \in 0..MaxCalls, asked <= asked',
         mine[b] # 0 => got'[mine[b]] = got[mine[b]]
  PROVE  Waiting(b)'
<1>1. Waiting(b) /\ mine[b] \in Nat /\ asked \in Nat /\ mine[b] <= asked BY OneAsker
<1>2. mine'[b] <= asked' BY <1>1
<1>3. CASE mine[b] = 0 BY <1>1, <1>2, <1>3 DEF Waiting
<1>4. CASE mine[b] # 0 BY <1>1, <1>2, <1>4 DEF Waiting
<1>. QED BY <1>3, <1>4

LEMMA BeginKeeps == ASSUME Inv, NEW a \in Askers, Begin(a) PROVE Inv'
<1>. USE DEF Inv
<1>1. /\ pc[a] = "begin" /\ pc' = [pc EXCEPT ![a] = "ready"]
      /\ lent' \in [Askers -> BOOLEAN]
      /\ UNCHANGED <<calls, asked, got, mine, tries, stop, seen, removed, lastPoll, crashes>>
  BY DEF AskerType, Begin, Goes, machine
<1>2. TableType' /\ MachineType' BY <1>1 DEF TableType, MachineType
<1>3. AskerType' BY <1>1 DEF AskerType, Points
<1>4. Rows' /\ Apart'  BY <1>1 DEF Rows, Apart
<1>5. Waits'
  <2>1. ASSUME NEW b \in Askers, b # a PROVE Waiting(b)'
    BY <1>1, <2>1, OthersWait DEF AskerType, TableType
  <2>2. Waiting(a)' BY <1>1 DEF AskerType, Waits, Waiting, InWait
  <2>. QED BY <2>1, <2>2 DEF Waits
<1>. QED BY <1>2, <1>3, <1>4, <1>5

LEMMA AttemptKeeps == ASSUME Inv, NEW a \in Askers, Attempt(a) PROVE Inv'
<1>. USE DEF Inv
<1>0. /\ pc[a] = "ready" /\ tries[a] \in 0..Retries /\ asked \in Nat
      /\ UNCHANGED <<got, seen, removed, lastPoll, crashes>> /\ MachineType'
  <2>1. pc[a] = "ready" /\ UNCHANGED <<got, seen, removed, lastPoll, crashes>>
    BY DEF Attempt, machine
  <2>2. asked \in Nat /\ MachineType' BY <2>1 DEF MachineType, TableType
  <2>3. tries[a] \in Nat /\ tries[a] <= Retries
    <3>1. tries[a] \in Nat /\ Waiting(a) BY OneAsker
    <3>. QED BY <2>1, <3>1 DEF Waiting
  <2>. QED BY <2>1, <2>2, <2>3
<1>1. CASE Ends(a) /\ UNCHANGED <<calls, asked>>
  <2>1. TableType' /\ AskerType' BY <1>0, <1>1, EndsKeeps DEF TableType
  <2>2. Rows' BY <1>0, <1>1 DEF Rows
  <2>3. ASSUME NEW b \in Askers, b # a PROVE Waiting(b)'
    BY <1>0, <1>1, <2>3, EndsKeeps, OthersWait DEF TableType
  <2>4. Waiting(a)'
    <3>1. pc'[a] = "ended" /\ mine'[a] = 0 /\ asked' = asked BY <1>1, EndsKeeps
    <3>. QED BY <1>0, <3>1 DEF Waiting, InWait
  <2>5. Apart' BY <1>0, <1>1, EndsKeeps DEF Apart
  <2>. QED BY <1>0, <2>1, <2>2, <2>3, <2>4, <2>5 DEF Waits
<1>2. CASE /\ a \notin stop /\ Goes(a, "server") /\ tries' = [tries EXCEPT ![a] = @ + 1]
           /\ UNCHANGED <<calls, asked, mine, lent, stop>>
  <2>1. pc' = [pc EXCEPT ![a] = "server"] /\ tries' \in [Askers -> 0..(Retries + 1)]
    BY <1>0, <1>2 DEF AskerType, Goes
  <2>2. TableType' /\ AskerType' BY <1>0, <1>2, <2>1 DEF TableType, AskerType, Points
  <2>3. Rows' /\ Apart' BY <1>0, <1>2 DEF Rows, Apart
  <2>4. ASSUME NEW b \in Askers, b # a PROVE Waiting(b)'
    BY <1>0, <1>2, <2>1, <2>4, OthersWait DEF TableType, AskerType
  <2>5. Waiting(a)'
    BY <1>0, <1>2, <2>1 DEF AskerType, Waits, Waiting, InWait
  <2>. QED BY <1>0, <2>2, <2>3, <2>4, <2>5 DEF Waits
<1>3. CASE /\ a \notin stop /\ asked < MaxCalls /\ asked' = asked + 1
           /\ Becomes(asked + 1, "queued")
           /\ mine' = [mine EXCEPT ![a] = asked + 1]
           /\ tries' = [tries EXCEPT ![a] = @ + 1]
           /\ Goes(a, "waiting") /\ UNCHANGED <<lent, stop>>
  <2>0. asked + 1 \in Ids /\ asked + 1 # 0 /\ asked' \in 0..MaxCalls
    BY <1>0, <1>3 DEF TableType
  <2>1. pc' \in [Askers -> Points] BY <1>3 DEF AskerType, Goes, Points
  <2>2. mine' \in [Askers -> 0..MaxCalls] BY <1>3, <2>0 DEF AskerType
  <2>3. tries' \in [Askers -> 0..(Retries + 1)] BY <1>0, <1>3 DEF AskerType
  <2>4. AskerType' BY <1>3, <2>1, <2>2, <2>3 DEF AskerType
  <2>5. /\ calls' \in [Ids -> [state : CallState, by : Machines \cup {"nobody"}]]
        /\ calls'[asked + 1] = [calls[asked + 1] EXCEPT !.state = "queued"]
        /\ \A c \in Ids : c # asked + 1 => calls'[c] = calls[c]
    BY <1>3, <2>0 DEF TableType, Becomes, CallState
  <2>6. TableType' BY <1>0, <2>0, <2>5 DEF TableType
  <2>7. Rows'
    <3>1. ASSUME NEW c \in Ids, c = asked + 1
          PROVE  /\ calls'[c].state = "queued" /\ calls'[c].by = "nobody"
                 /\ ~(c > asked')
      BY <1>3, <2>0, <2>5, <3>1 DEF TableType, Rows
    <3>2. ASSUME NEW c \in Ids, c # asked + 1
          PROVE  calls'[c] = calls[c] /\ got'[c] = got[c] /\ (c > asked' <=> c > asked)
      BY <1>0, <1>3, <2>0, <2>5, <3>2
    <3>. QED BY <3>1, <3>2 DEF Rows
  <2>8. ASSUME NEW b \in Askers, b # a PROVE Waiting(b)'
    <3>1. pc'[b] = pc[b] /\ mine'[b] = mine[b] /\ tries'[b] = tries[b]
      BY <1>3, <2>8 DEF AskerType, Goes
    <3>. QED BY <1>0, <1>3, <2>0, <3>1, OthersWait
  <2>9. Waiting(a)'
    <3>1. pc'[a] = "waiting" /\ mine'[a] = asked + 1 /\ got[asked + 1] = "none"
      BY <1>0, <1>3, <2>0 DEF AskerType, Rows, Goes
    <3>. QED BY <1>0, <1>3, <2>0, <3>1 DEF Waiting, InWait
  <2>10. Apart'
    <3>1. \A b \in Askers : mine[b] # asked + 1
      <4>1. \A b \in Askers : mine[b] \in Nat /\ mine[b] <= asked
        BY OneAsker
      <4>. QED BY <1>0, <4>1
    <3>. QED BY <1>3, <2>0, <3>1 DEF AskerType, Apart
  <2>. QED BY <1>0, <2>4, <2>6, <2>7, <2>8, <2>9, <2>10 DEF Waits
<1>. QED BY <1>1, <1>2, <1>3 DEF Attempt

\* What a wait comes to concerns nobody else.
LEMMA OthersGot ==
  ASSUME Inv, NEW a \in Askers, NEW b \in Askers, b # a, NEW w, mine[a] # 0,
         got' = [got EXCEPT ![mine[a]] = w]
  PROVE  mine[b] # 0 => got'[mine[b]] = got[mine[b]]
<1>1. mine[b] # 0 => mine[b] \in Ids /\ mine[b] # mine[a]
  BY OneAsker DEF Inv, Apart
<1>. QED BY <1>1 DEF Inv, TableType

\* The verdict keeps the order among the run loops, whatever the attempt came to.
LEMMA VerdictWaits ==
  ASSUME Inv, NEW a \in Askers, NEW good \in BOOLEAN, Verdict(a, good), asked' = asked,
         \A b \in Askers : b # a /\ mine[b] # 0 => got'[mine[b]] = got[mine[b]],
         mine[a] # 0 /\ got'[mine[a]] = "nobody" => a \in stop
  PROVE  AskerType' /\ Waits' /\ Apart'
<1>0. AskerType /\ asked' \in 0..MaxCalls /\ asked \in Nat BY DEF Inv, TableType
<1>1. AskerType' BY <1>0, VerdictKeeps
<1>2. ASSUME NEW b \in Askers, b # a PROVE Waiting(b)'
  <2>1. /\ pc'[b] = pc[b] /\ mine'[b] = mine[b] /\ tries'[b] = tries[b]
        /\ b \in stop => b \in stop'
    BY <1>0, <1>2, VerdictKeeps
  <2>. QED BY <1>0, <1>2, <2>1, OthersWait
<1>3. Waiting(a)'
  <2>1. CASE pc'[a] = "ended" /\ mine'[a] = 0 BY <1>0, <2>1 DEF Waiting, InWait
  <2>2. CASE pc'[a] = "ready" /\ mine'[a] = mine[a] /\ stop' = stop /\ tries'[a] <= Retries
    <3>1. mine[a] <= asked BY OneAsker
    <3>. QED BY <1>0, <2>2, <3>1 DEF Waiting, InWait
  <2>. QED BY <1>0, <2>1, <2>2, VerdictKeeps
<1>4. Apart' BY <1>0, VerdictKeeps DEF Inv, Apart
<1>. QED BY <1>1, <1>2, <1>3, <1>4 DEF Waits

LEMMA AskedStays == ASSUME Inv, asked' = asked PROVE asked <= asked'
  BY DEF Inv, TableType

\* So does going on to the next point, with the same call.
LEMMA GoesWaits ==
  ASSUME Inv, NEW a \in Askers, NEW at \in {"waiting", "take back", "stop seen", "server"},
         Goes(a, at), UNCHANGED <<mine, tries, lent, stop, asked>>,
         \A b \in Askers : b # a /\ mine[b] # 0 => got'[mine[b]] = got[mine[b]],
         mine[a] # 0 => got'[mine[a]] # "nobody",
         at # "server" => mine[a] # 0 /\ got'[mine[a]] = "none",
         at = "stop seen" => a \in stop
  PROVE  AskerType' /\ Waits' /\ Apart'
<1>0. AskerType /\ at \in Points /\ asked' \in 0..MaxCalls /\ asked \in Nat
  <2>1. at \in Points BY DEF Points
  <2>2. AskerType BY DEF Inv
  <2>3. asked \in 0..MaxCalls BY DEF Inv, TableType
  <2>4. asked' \in 0..MaxCalls BY <2>3, Zenon
  <2>5. asked \in Nat BY OneAsker, Zenon
  <2>. QED BY <2>1, <2>2, <2>4, <2>5
<1>1. AskerType' /\ pc'[a] = at /\ \A b \in Askers : b # a => pc'[b] = pc[b]
  BY <1>0, GoesKeeps
<1>2. ASSUME NEW b \in Askers, b # a PROVE Waiting(b)'
  <2>1. mine'[b] = mine[b] /\ tries'[b] = tries[b] /\ (b \in stop => b \in stop')
    OBVIOUS
  <2>2. pc'[b] = pc[b] /\ (mine[b] # 0 => got'[mine[b]] = got[mine[b]])
    BY <1>1, <1>2
  <2>3. asked <= asked' BY AskedStays, Zenon
  <2>. QED BY <1>0, <2>1, <2>2, <2>3, OthersWait
<1>3. Waiting(a)'
  <2>1. mine[a] <= asked BY OneAsker
  <2>. QED BY <1>0, <1>1, <2>1 DEF Waiting, InWait
<1>. QED BY <1>1, <1>2, <1>3 DEF Waits, Apart, Inv

\* A row that is closed stays what else it was.
LEMMA RowCloses ==
  ASSUME Inv, NEW c \in Ids, NEW s \in {"done", "failed", "cancelled"}, IsOpen(c),
         Becomes(c, s), s = "done" => calls[c].by \in Machines, asked' = asked,
         got' \in [Ids -> Machines \cup {"none", "server", "nobody", "lost"}],
         \A d \in Ids : d > asked => got'[d] = got[d]
  PROVE  /\ TableType' /\ Rows'
         /\ calls'[c].state = s /\ calls'[c].by = calls[c].by
         /\ \A d \in Ids : d # c => calls'[d] = calls[d]
<1>1. /\ calls' \in [Ids -> [state : CallState, by : Machines \cup {"nobody"}]]
      /\ calls'[c].state = s /\ calls'[c].by = calls[c].by
      /\ \A d \in Ids : d # c => calls'[d] = calls[d]
  BY DEF Inv, TableType, Becomes, CallState
<1>2. TableType' BY <1>1 DEF Inv, TableType
<1>3. Rows' BY <1>1 DEF Inv, Rows, IsOpen
<1>. QED BY <1>1, <1>2, <1>3

LEMMA LookKeeps == ASSUME Inv, NEW a \in Askers, Look(a) PROVE Inv'
<1> DEFINE c == mine[a]
<1>1. /\ pc[a] = "waiting" /\ c \in Ids /\ c # 0 /\ c <= asked /\ got[c] = "none"
      /\ UNCHANGED <<calls, asked, seen, removed, lastPoll, crashes>>
  <2>1. pc[a] = "waiting" /\ UNCHANGED <<calls, asked, seen, removed, lastPoll, crashes>>
    BY DEF Look, machine
  <2>. QED BY <2>1, OneAsker DEF Waiting, InWait
<1>2. MachineType' BY <1>1 DEF Inv, MachineType
<1>3. ASSUME NEW w \in Machines \cup {"server"}, got' = [got EXCEPT ![c] = w]
      PROVE  /\ TableType' /\ Rows' /\ got'[c] = w
             /\ \A b \in Askers : b # a /\ mine[b] # 0 => got'[mine[b]] = got[mine[b]]
  <2>1. TableType' /\ got'[c] = w BY <1>1, <1>3 DEF Inv, TableType
  <2>2. Rows' BY <1>1, <1>3 DEF Inv, TableType, Rows
  <2>. QED BY <1>1, <1>3, <2>1, <2>2, OthersGot
<1>4. CASE /\ calls[c].state = "done" /\ got' = [got EXCEPT ![c] = calls[c].by]
           /\ \E good \in BOOLEAN : Verdict(a, good)
  <2>1. calls[c].by \in Machines BY <1>1, <1>4 DEF Inv, Rows
  <2>2. PICK good \in BOOLEAN : Verdict(a, good) BY <1>4
  <2>3. TableType' /\ Rows' /\ got'[c] # "nobody" BY <1>3, <1>4, <2>1, Names
  <2>4. AskerType' /\ Waits' /\ Apart'
    BY <1>1, <1>3, <1>4, <2>1, <2>2, <2>3, VerdictWaits
  <2>. QED BY <1>2, <2>3, <2>4 DEF Inv
<1>5. CASE /\ got' = [got EXCEPT ![c] = "server"]
           /\ Goes(a, "server") /\ UNCHANGED <<local, stop>>
  <2>1. mine' = mine /\ tries' = tries /\ lent' = lent /\ stop' = stop BY <1>5 DEF local
  <2>2. TableType' /\ Rows' /\ got'[c] = "server" BY <1>3, <1>5
  <2>3. AskerType' /\ Waits' /\ Apart' BY <1>1, <1>3, <1>5, <2>1, <2>2, GoesWaits
  <2>. QED BY <1>2, <2>2, <2>3 DEF Inv
<1>6. CASE /\ Goes(a, IF a \in stop THEN "stop seen" ELSE "take back")
           /\ UNCHANGED <<got, local, stop>>
  <2>1. /\ mine' = mine /\ tries' = tries /\ lent' = lent /\ stop' = stop /\ got' = got
    BY <1>6 DEF local
  <2>2. TableType' /\ Rows' BY <1>1, <2>1 DEF Inv, TableType, Rows
  <2>3. AskerType' /\ Waits' /\ Apart' BY <1>1, <1>6, <2>1, GoesWaits
  <2>. QED BY <1>2, <2>2, <2>3 DEF Inv
<1>. QED BY <1>4, <1>5, <1>6 DEF Look

LEMMA TakeBackKeeps == ASSUME Inv, NEW a \in Askers, TakeBack(a) PROVE Inv'
<1> DEFINE c == mine[a]
<1>1. /\ pc[a] \in {"take back", "stop seen"} /\ c \in Ids /\ c # 0 /\ c <= asked
      /\ got[c] = "none" /\ (pc[a] = "stop seen" => a \in stop)
      /\ UNCHANGED <<asked, seen, removed, lastPoll, crashes>>
  <2>1. /\ pc[a] \in {"take back", "stop seen"}
        /\ UNCHANGED <<asked, seen, removed, lastPoll, crashes>>
    BY DEF TakeBack, machine
  <2>. QED BY <2>1, OneAsker DEF Waiting, InWait
<1>0. \A d \in Ids : d > asked => d # c
  <2>1. asked \in Nat /\ c \in Nat /\ c <= asked BY OneAsker
  <2>. QED BY <2>1
<1>2. MachineType' BY <1>1 DEF Inv, MachineType
<1>3. ASSUME NEW w \in {"server", "nobody"}, got' = [got EXCEPT ![c] = w],
             IsOpen(c), Becomes(c, "cancelled")
      PROVE  /\ TableType' /\ Rows' /\ got'[c] = w
             /\ \A b \in Askers : b # a /\ mine[b] # 0 => got'[mine[b]] = got[mine[b]]
  <2>1. /\ got' \in [Ids -> Machines \cup {"none", "server", "nobody", "lost"}]
        /\ got'[c] = w /\ \A d \in Ids : d # c => got'[d] = got[d]
    BY <1>1, <1>3 DEF Inv, TableType
  <2>2. \A d \in Ids : d > asked => got'[d] = got[d] BY <1>0, <2>1, Zenon
  <2>3. asked' = asked BY <1>1
  <2>4. TableType' /\ Rows' BY <1>1, <1>3, <2>1, <2>2, <2>3, RowCloses
  <2>. QED BY <1>1, <1>3, <2>1, <2>4, OthersGot
<1>4. CASE Goes(a, "waiting") /\ UNCHANGED <<calls, got, local, stop>>
  <2>1. /\ mine' = mine /\ tries' = tries /\ lent' = lent /\ stop' = stop
        /\ got' = got /\ calls' = calls
    BY <1>4 DEF local
  <2>2. TableType' /\ Rows' BY <1>1, <2>1 DEF Inv, TableType, Rows
  <2>3. AskerType' /\ Waits' /\ Apart' BY <1>1, <1>4, <2>1, GoesWaits
  <2>. QED BY <1>2, <2>2, <2>3 DEF Inv
<1>5. CASE /\ IsOpen(c) /\ Becomes(c, "cancelled") /\ got' = [got EXCEPT ![c] = "server"]
           /\ Goes(a, "server") /\ UNCHANGED <<local, stop>>
  <2>1. mine' = mine /\ tries' = tries /\ lent' = lent /\ stop' = stop BY <1>5 DEF local
  <2>2. /\ TableType' /\ Rows' /\ got'[c] = "server"
        /\ \A b \in Askers : b # a /\ mine[b] # 0 => got'[mine[b]] = got[mine[b]]
    BY <1>3, <1>5
  <2>3. AskerType' /\ Waits' /\ Apart' BY <1>1, <1>5, <2>1, <2>2, GoesWaits
  <2>. QED BY <1>2, <2>2, <2>3 DEF Inv
<1>6. CASE /\ IsOpen(c) /\ Becomes(c, "cancelled") /\ pc[a] = "stop seen"
           /\ got' = [got EXCEPT ![c] = "nobody"] /\ Verdict(a, FALSE)
  <2>1. TableType' /\ Rows' BY <1>3, <1>6
  <2>2. \A b \in Askers : b # a /\ mine[b] # 0 => got'[mine[b]] = got[mine[b]]
    BY <1>3, <1>6
  <2>3. AskerType' /\ Waits' /\ Apart' BY <1>1, <1>6, <2>2, VerdictWaits
  <2>. QED BY <1>2, <2>1, <2>3 DEF Inv
<1>. QED BY <1>4, <1>5, <1>6 DEF TakeBack

LEMMA ServerAnswersKeeps == ASSUME Inv, NEW a \in Askers, ServerAnswers(a) PROVE Inv'
<1>1. pc[a] = "server" /\ UNCHANGED <<calls, asked, got, seen, removed, lastPoll, crashes>>
  BY DEF ServerAnswers, machine
<1>2. PICK good \in BOOLEAN : Verdict(a, good) BY DEF ServerAnswers
<1>3. TableType' /\ MachineType' /\ Rows' BY <1>1 DEF Inv, TableType, MachineType, Rows
<1>4. mine[a] # 0 => got[mine[a]] # "nobody" BY <1>1, OneAsker DEF Waiting
<1>5. AskerType' /\ Waits' /\ Apart' BY <1>1, <1>2, <1>4, VerdictWaits
<1>. QED BY <1>3, <1>5 DEF Inv

\* The machines and the people leave the run loops alone; only a row may change,
\* and only one that is in the table.
LEMMA AskersAlone ==
  ASSUME Inv, UNCHANGED <<asked, got, asker>>, stop \subseteq stop', stop' \subseteq Askers
  PROVE  AskerType' /\ Waits' /\ Apart'
<1>1. UNCHANGED <<pc, mine, tries, lent, got, asked>> BY DEF asker
<1>2. AskerType' /\ Apart' BY <1>1 DEF Inv, AskerType, Apart
<1>3. ASSUME NEW b \in Askers PROVE Waiting(b)'
  <2>1. Waiting(b) BY OneAsker
  <2>. QED BY <1>1, <2>1 DEF Waiting
<1>. QED BY <1>2, <1>3 DEF Waits

LEMMA ServeKeeps == ASSUME Inv, NEW m \in Machines, Serve(m) PROVE Inv'
<1>0. UNCHANGED <<asked, got, asker, stop, removed, crashes>>
  BY DEF Serve, ReadQueue, Claim, Report, machine
<1>1. AskerType' /\ Waits' /\ Apart' BY <1>0, AskersAlone DEF Inv, AskerType
<1>2. CASE ReadQueue(m)
  <2>1. UNCHANGED <<calls, lastPoll>> /\ seen' \in [Machines -> 0..MaxCalls]
    BY <1>2 DEF ReadQueue, Inv, MachineType
  <2>2. TableType' /\ MachineType' /\ Rows'
    BY <1>0, <2>1 DEF Inv, TableType, MachineType, Rows
  <2>. QED BY <1>1, <2>2 DEF Inv
<1>3. CASE Claim(m)
  <2>1. seen[m] \in Ids /\ seen' \in [Machines -> 0..MaxCalls] /\ lastPoll' \subseteq lastPoll
    BY <1>3 DEF Claim, Inv, MachineType
  <2>2. MachineType' BY <1>0, <2>1 DEF Inv, MachineType
  <2>3. CASE calls' = calls
    BY <1>0, <1>1, <2>2, <2>3 DEF Inv, TableType, Rows
  <2>4. CASE /\ calls[seen[m]].state = "queued"
             /\ calls' = [calls EXCEPT ![seen[m]] = [state |-> "running", by |-> m]]
    <3>1. TableType' BY <1>0, <2>1, <2>4 DEF Inv, TableType, CallState
    <3>2. Rows' BY <1>0, <2>1, <2>4 DEF Inv, TableType, Rows
    <3>. QED BY <1>1, <2>2, <3>1, <3>2 DEF Inv
  <2>. QED BY <1>3, <2>3, <2>4 DEF Claim
<1>4. CASE Report(m)
  <2>1. MachineType' BY <1>4 DEF Report, machine, Inv, MachineType
  <2>2. PICK c \in Ids, s \in {"done", "failed"} : HeldBy(c, m) /\ Becomes(c, s)
    BY <1>4 DEF Report
  <2>3. IsOpen(c) /\ calls[c].by \in Machines BY <2>2 DEF HeldBy, IsOpen
  <2>4. /\ got' \in [Ids -> Machines \cup {"none", "server", "nobody", "lost"}]
        /\ asked' = asked /\ \A d \in Ids : d > asked => got'[d] = got[d]
    BY <1>0 DEF Inv, TableType
  <2>5. TableType' /\ Rows' BY <2>2, <2>3, <2>4, RowCloses
  <2>. QED BY <1>1, <2>1, <2>5 DEF Inv
<1>. QED BY <1>2, <1>3, <1>4 DEF Serve

LEMMA StopKeeps == ASSUME Inv, NEW a \in Askers, Stop(a) PROVE Inv'
<1>1. /\ UNCHANGED <<calls, asked, got, asker, seen, removed, lastPoll, crashes>>
      /\ stop' = stop \cup {a}
  BY DEF Stop, machine
<1>2. AskerType' /\ Waits' /\ Apart' BY <1>1, AskersAlone DEF Inv, AskerType
<1>3. TableType' /\ MachineType' /\ Rows' BY <1>1 DEF Inv, TableType, MachineType, Rows
<1>. QED BY <1>2, <1>3 DEF Inv

LEMMA RemoveKeeps == ASSUME Inv, NEW m \in Machines, Remove(m) PROVE Inv'
<1>1. /\ UNCHANGED <<asked, got, asker, stop, seen, crashes>>
      /\ removed' = removed \cup {m} /\ lastPoll' = lastPoll \cup {m}
      /\ calls' = [c \in Ids |-> IF IsOpen(c) /\ calls[c].by = m
                                   THEN [calls[c] EXCEPT !.state = "cancelled"]
                                   ELSE calls[c]]
  BY DEF Remove
<1>2. AskerType' /\ Waits' /\ Apart' BY <1>1, AskersAlone DEF Inv, AskerType
<1>3. MachineType' BY <1>1 DEF Inv, MachineType
<1>4. TableType' BY <1>1 DEF Inv, TableType, CallState
<1>5. Rows' BY <1>1 DEF Inv, TableType, Rows, IsOpen
<1>. QED BY <1>2, <1>3, <1>4, <1>5 DEF Inv

LEMMA RestartKeeps == ASSUME Inv, Restart PROVE Inv'
<1>1. /\ crashes < MaxCrashes /\ crashes' = crashes + 1
      /\ pc' = [a \in Askers |-> IF pc[a] = "ended" THEN "ended" ELSE "begin"]
      /\ tries' = [a \in Askers |-> 0] /\ mine' = [a \in Askers |-> 0]
      /\ lent' = [a \in Askers |-> FALSE] /\ stop' = {} /\ lastPoll' = {}
      /\ seen' = [m \in Machines |-> 0] /\ UNCHANGED <<calls, asked, removed>>
  BY DEF Restart
<1>2. /\ got' \in [Ids -> Machines \cup {"none", "server", "nobody", "lost"}]
      /\ \A c \in Ids : c > asked => got'[c] = "none"
  <2>1. \A a \in Askers : mine[a] <= asked BY OneAsker
  <2>2. asked \in Nat /\ \A a \in Askers : mine[a] \in Nat
    BY DEF Inv, TableType, AskerType
  <2> DEFINE Dropped(c) == \E a \in Askers : /\ mine[a] = c
                                            /\ pc[a] \in {"waiting", "take back", "stop seen"}
  <2>3. got' = [c \in Ids |-> IF Dropped(c) THEN "lost" ELSE got[c]] BY DEF Restart
  <2>4. ASSUME NEW c \in Ids, Dropped(c) PROVE ~(c > asked)
    <3>1. PICK a \in Askers : mine[a] = c BY <2>4
    <3>. QED BY <2>1, <2>2, <3>1
  <2>5. \A c \in Ids : c > asked => got[c] = "none" BY DEF Inv, Rows
  <2>6. got \in [Ids -> Machines \cup {"none", "server", "nobody", "lost"}]
    BY DEF Inv, TableType
  <2> HIDE DEF Dropped
  <2>. QED BY <2>3, <2>4, <2>5, <2>6
<1>3. TableType' BY <1>1, <1>2 DEF Inv, TableType
<1>4. AskerType'
  <2>1. pc' \in [Askers -> Points] BY <1>1 DEF Points
  <2>2. mine' \in [Askers -> 0..MaxCalls] /\ tries' \in [Askers -> 0..(Retries + 1)]
    BY <1>1
  <2>. QED BY <1>1, <2>1, <2>2 DEF AskerType
<1>5. MachineType' BY <1>1 DEF Inv, MachineType
<1>6. Rows' BY <1>1, <1>2 DEF Inv, Rows
<1>7. ASSUME NEW a \in Askers PROVE Waiting(a)'
  <2>1. mine'[a] = 0 /\ tries'[a] = 0 /\ pc'[a] \in {"begin", "ended"} BY <1>1
  <2>2. asked' \in Nat BY <1>1 DEF Inv, TableType
  <2>3. mine'[a] <= asked' /\ tries'[a] <= Retries BY <2>1, <2>2
  <2>4. ~(pc'[a] \in InWait) BY <2>1 DEF InWait
  <2>. QED BY <2>1, <2>3, <2>4 DEF Waiting
<1>8. Apart' BY <1>1 DEF Apart
<1>. QED BY <1>3, <1>4, <1>5, <1>6, <1>7, <1>8 DEF Inv, Waits

-------------------------------------------------------------------------------
(***************************************************************************)
(* Theorems                                                                *)
(***************************************************************************)
LEMMA NextInv == Inv /\ [Next]_vars => Inv'
<1>. SUFFICES ASSUME Inv, [Next]_vars PROVE Inv' OBVIOUS
<1>1. CASE UNCHANGED vars
  <2>1. UNCHANGED <<calls, asked, got, asker, stop, seen, removed, lastPoll, crashes>>
    BY <1>1 DEF vars, machine
  <2>2. AskerType' /\ Waits' /\ Apart' BY <2>1, AskersAlone DEF Inv, AskerType
  <2>3. TableType' /\ MachineType' /\ Rows'
    BY <2>1 DEF Inv, TableType, MachineType, Rows
  <2>. QED BY <2>2, <2>3 DEF Inv
<1>2. ASSUME NEW a \in Askers, Step(a) PROVE Inv'
  BY <1>2, BeginKeeps, AttemptKeeps, LookKeeps, TakeBackKeeps, ServerAnswersKeeps DEF Step
<1>. QED BY <1>1, <1>2, StopKeeps, ServeKeeps, RemoveKeeps, RestartKeeps DEF Next

\* A claimed row keeps its machine, whatever step is taken.
LEMMA HolderStays ==
  ASSUME Inv, [Next]_vars, NEW c \in Ids, calls[c].by # "nobody"
  PROVE  calls'[c].by = calls[c].by
<1>1. calls \in [Ids -> [state : CallState, by : Machines \cup {"nobody"}]]
  BY DEF Inv, TableType
<1>2. ASSUME NEW d \in Ids, NEW s, Becomes(d, s) PROVE calls'[c].by = calls[c].by
  BY <1>1, <1>2 DEF Becomes
<1>3. CASE calls' = calls BY <1>3
<1>4. ASSUME NEW a \in Askers, Step(a) PROVE calls'[c].by = calls[c].by
  <2>1. mine[a] # 0 => mine[a] \in Ids BY OneAsker
  <2>2. CASE Attempt(a)
    <3>1. CASE calls' = calls BY <3>1
    <3>2. CASE Becomes(asked + 1, "queued") /\ asked < MaxCalls
      <4>1. asked + 1 \in Ids BY <3>2, OneAsker
      <4>. QED BY <1>2, <3>2, <4>1
    <3>. QED BY <2>2, <3>1, <3>2 DEF Attempt
  <2>3. CASE TakeBack(a)
    <3>1. mine[a] \in Ids BY <2>1, <2>3, OneAsker DEF TakeBack, Waiting, InWait
    <3>2. calls' = calls \/ Becomes(mine[a], "cancelled") BY <2>3 DEF TakeBack
    <3>. QED BY <1>2, <3>1, <3>2
  <2>4. CASE Begin(a) \/ Look(a) \/ ServerAnswers(a)
    BY <1>3, <2>4 DEF Begin, Look, ServerAnswers
  <2>. QED BY <1>4, <2>2, <2>3, <2>4 DEF Step
<1>5. ASSUME NEW m \in Machines, Serve(m) PROVE calls'[c].by = calls[c].by
  <2>1. CASE ReadQueue(m) BY <1>3, <2>1 DEF ReadQueue
  <2>2. CASE Claim(m)
    <3>1. seen[m] \in 0..MaxCalls BY DEF Inv, MachineType
    <3>2. calls[c].state # "queued" BY DEF Inv, Rows
    <3>. QED BY <1>1, <1>3, <2>2, <3>2 DEF Claim
  <2>3. CASE Report(m) BY <1>2, <2>3 DEF Report
  <2>. QED BY <1>5, <2>1, <2>2, <2>3 DEF Serve
<1>6. ASSUME NEW m \in Machines, Remove(m) PROVE calls'[c].by = calls[c].by
  BY <1>1, <1>6 DEF Remove
<1>7. CASE UNCHANGED vars \/ Restart \/ \E a \in Askers : Stop(a)
  BY <1>3, <1>7 DEF vars, Restart, Stop
<1>. QED BY <1>4, <1>5, <1>6, <1>7 DEF Next

\* A run loop that was stopped can only end.
LEMMA StoppedEnds ==
  ASSUME Inv, [Next]_vars, NEW a \in Askers, mine[a] # 0, got[mine[a]] = "nobody"
  PROVE  mine'[a] \in {mine[a], 0} /\ pc'[a] # "server"
<1>1. pc[a] = "ready" /\ a \in stop BY OneAsker DEF Waiting
<1>2. CASE UNCHANGED <<pc, mine>> BY <1>1, <1>2
<1>3. CASE Step(a)
  <2>1. Attempt(a) BY <1>1, <1>3 DEF Step, Begin, Look, TakeBack, ServerAnswers
  <2>2. Ends(a) BY <1>1, <2>1 DEF Attempt
  <2>. QED BY <2>2, EndsKeeps DEF Inv
<1>4. ASSUME NEW b \in Askers, b # a, Step(b) PROVE pc'[a] = pc[a] /\ mine'[a] = mine[a]
  <2>1. AskerType BY DEF Inv
  <2>2. CASE Begin(b) BY <1>4, <2>1, <2>2 DEF Begin, Goes, AskerType
  <2>3. CASE Attempt(b) BY <1>4, <2>1, <2>3, EndsKeeps DEF Attempt, Goes, AskerType
  <2>4. CASE \E good \in BOOLEAN : Verdict(b, good) BY <1>4, <2>1, <2>4, VerdictKeeps
  <2>5. CASE \E at : Goes(b, at) /\ UNCHANGED <<local, stop>>
    BY <1>4, <2>1, <2>5 DEF Goes, local, AskerType
  <2>6. CASE Look(b) BY <2>4, <2>5, <2>6 DEF Look
  <2>7. CASE TakeBack(b) BY <2>4, <2>5, <2>7 DEF TakeBack
  <2>8. CASE ServerAnswers(b) BY <2>4, <2>8 DEF ServerAnswers
  <2>. QED BY <1>4, <2>2, <2>3, <2>6, <2>7, <2>8 DEF Step
<1>5. CASE Restart
  BY <1>5 DEF Restart
<1>6. CASE UNCHANGED vars \/ \E b \in Askers : Stop(b)
  BY <1>2, <1>6 DEF vars, asker, Stop
<1>7. CASE \E m \in Machines : Serve(m) \/ Remove(m)
  BY <1>2, <1>7 DEF Serve, ReadQueue, Claim, Report, Remove, asker
<1>. QED BY <1>1, <1>3, <1>4, <1>5, <1>6, <1>7 DEF Next

\* The table, the run loops and what they hold fit together in every state.
THEOREM InvHolds == Spec => []Inv
<1>. QED BY InitInv, NextInv, PTL DEF Spec

\* Every run loop, call and machine is always somewhere the code can bring it.
THEOREM TypeCorrect == Spec => []TypeOK
<1>. QED BY InvHolds, InvTypes, PTL

\* A call is written by the machine that claimed it and by no other.
THEOREM OneHolderHolds == Spec => OneHolder
<1>1. Inv /\ [Next]_vars =>
        [\A c \in Ids : calls[c].by # "nobody" => calls'[c].by = calls[c].by]_vars
  BY HolderStays
<1>. QED BY <1>1, InvHolds, PTL DEF Spec, OneHolder

\* A development whose call was taken back for a stop asks nothing more.
THEOREM StopEndsIt == Spec => StopIsTheEnd
<1>1. Inv /\ [Next]_vars =>
        [\A a \in Askers : (mine[a] # 0 /\ got[mine[a]] = "nobody") =>
           mine'[a] \in {mine[a], 0} /\ pc'[a] # "server"]_vars
  BY StoppedEnds
<1>. QED BY <1>1, InvHolds, PTL DEF Spec, StopIsTheEnd

-------------------------------------------------------------------------------
(***************************************************************************)
(* The refinement                                                          *)
(***************************************************************************)
answers == [c \in Ids |-> Given(c)]

\* What a call has come to, case by case, before a step and after it.
LEMMA GivenIs ==
  ASSUME NEW c \in Ids
  PROVE  /\ got[c] # "none" => Given(c) = got[c]
         /\ got[c] = "none" /\ calls[c].state = "done" => Given(c) = calls[c].by
         /\ got[c] = "none" /\ calls[c].state = "none" => Given(c) = "unasked"
         /\ got[c] = "none" /\ calls[c].state \notin {"none", "done"} => Given(c) = "asked"
  BY DEF Given

LEMMA GivenBecomes ==
  ASSUME NEW c \in Ids
  PROVE  /\ got'[c] # "none" => Given(c)' = got'[c]
         /\ got'[c] = "none" /\ calls'[c].state = "done" => Given(c)' = calls'[c].by
         /\ got'[c] = "none" /\ calls'[c].state = "none" => Given(c)' = "unasked"
         /\ got'[c] = "none" /\ calls'[c].state \notin {"none", "done"} => Given(c)' = "asked"
  BY DEF Given

LEMMA SameGiven ==
  ASSUME NEW c \in Ids, got'[c] = got[c],
         \/ calls'[c] = calls[c]
         \/ IsOpen(c) /\ calls'[c].state \in {"running", "failed", "cancelled"}
  PROVE  Given(c)' = Given(c)
<1>1. CASE got[c] # "none" BY <1>1, GivenIs, GivenBecomes
<1>2. CASE got[c] = "none" /\ calls'[c] = calls[c] BY <1>2 DEF Given
<1>3. CASE /\ got[c] = "none" /\ IsOpen(c)
           /\ calls'[c].state \in {"running", "failed", "cancelled"}
  BY <1>3, GivenIs, GivenBecomes DEF IsOpen
<1>. QED BY <1>1, <1>2, <1>3

LEMMA Stutters ==
  ASSUME \A c \in Ids : Given(c)' = Given(c) PROVE UNCHANGED answers
  BY DEF answers

LEMMA Settles ==
  ASSUME NEW q \in Ids, Given(q) = "asked", Given(q)' \in Machines \cup {"server", "nobody"},
         \A c \in Ids : c # q => Given(c)' = Given(c)
  PROVE  Promise!Next
<1>1. answers' = [answers EXCEPT ![q] = Given(q)'] BY DEF answers
<1>2. answers[q] = "asked" BY DEF answers
<1>. QED BY <1>1, <1>2 DEF Promise!Next, Promise!Settle, Promise!Answerers, answers

LEMMA InitPromise == Init => Promise!Init
  BY DEF Init, Promise!Init, Given

LEMMA AskerPromise ==
  ASSUME Inv, NEW a \in Askers, Step(a) PROVE Promise!Next \/ UNCHANGED answers
<1>0. /\ calls \in [Ids -> [state : CallState, by : Machines \cup {"nobody"}]]
      /\ got \in [Ids -> Machines \cup {"none", "server", "nobody", "lost"}]
  BY DEF Inv, TableType
<1>1. CASE UNCHANGED <<calls, got>> BY <1>1, SameGiven, Stutters
\* A wait that comes to something closes the call it is about, open or not.
<1>2. ASSUME NEW c \in Ids, got[c] = "none", NEW w \in {"server", "nobody"},
             got' = [got EXCEPT ![c] = w], calls[c].state \notin {"none", "done"},
             calls' = calls \/ Becomes(c, "cancelled")
      PROVE  Promise!Next
  <2>1. Given(c) = "asked" BY <1>2, GivenIs
  <2>2. Given(c)' = w
    <3>1. got'[c] = w BY <1>0, <1>2
    <3>. QED BY <1>2, <3>1, GivenBecomes
  <2>3. ASSUME NEW d \in Ids, d # c PROVE Given(d)' = Given(d)
    <3>1. got'[d] = got[d] BY <1>0, <1>2, <2>3
    <3>2. calls'[d] = calls[d] BY <1>0, <1>2, <2>3 DEF Becomes
    <3>. QED BY <3>1, <3>2, SameGiven
  <2>. QED BY <1>2, <2>1, <2>2, <2>3, Settles
<1>3. CASE Attempt(a)
  <2>1. CASE /\ asked < MaxCalls /\ Becomes(asked + 1, "queued") /\ got' = got
    <3>1. PICK n \in Ids : n = asked + 1 /\ n > asked
      <4>1. asked + 1 \in Ids /\ asked + 1 > asked BY <2>1, OneAsker
      <4>. QED BY <4>1
    <3>2. calls[n].state = "none" /\ got[n] = "none" BY <3>1 DEF Inv, Rows
    <3>3. calls'[n].state = "queued" BY <1>0, <2>1, <3>1 DEF Becomes
    <3>4. Given(n) = "unasked" BY <3>1, <3>2, GivenIs
    <3>5. Given(n)' = "asked" BY <2>1, <3>1, <3>2, <3>3, GivenBecomes
    <3>6. ASSUME NEW d \in Ids, d # n PROVE Given(d)' = Given(d)
      <4>1. calls'[d] = calls[d] BY <1>0, <2>1, <3>1, <3>6 DEF Becomes
      <4>. QED BY <2>1, <4>1, SameGiven
    <3>7. /\ answers[n] = "unasked"
          /\ answers' = [answers EXCEPT ![n] = "asked"]
      BY <3>1, <3>4, <3>5, <3>6 DEF answers
    <3>. QED BY <3>1, <3>7 DEF Promise!Next, Promise!Ask, answers
  <2>. QED BY <1>1, <1>3, <2>1 DEF Attempt
<1>4. CASE Look(a)
  <2>1. PICK c \in Ids : c = mine[a] /\ got[c] = "none"
    BY <1>4, OneAsker DEF Look, Waiting, InWait
  <2>2. CASE /\ calls[c].state = "done" /\ got' = [got EXCEPT ![c] = calls[c].by]
             /\ calls' = calls
    <3>1. calls[c].by \in Machines BY <2>1, <2>2 DEF Inv, Rows
    <3>2. got'[c] = calls[c].by /\ got'[c] # "none" BY <1>0, <2>1, <2>2, <3>1, Names
    <3>3. Given(c)' = Given(c) BY <2>1, <2>2, <3>2, GivenIs, GivenBecomes
    <3>4. ASSUME NEW d \in Ids, d # c PROVE Given(d)' = Given(d)
      BY <1>0, <2>2, <3>4, SameGiven
    <3>. QED BY <3>3, <3>4, Stutters
  <2>3. CASE /\ calls[c].state \in {"failed", "cancelled"}
             /\ got' = [got EXCEPT ![c] = "server"] /\ calls' = calls
    BY <1>2, <2>1, <2>3
  <2>. QED BY <1>1, <1>4, <2>1, <2>2, <2>3 DEF Look
<1>5. CASE TakeBack(a)
  <2>1. PICK c \in Ids : c = mine[a] /\ got[c] = "none"
    BY <1>5, OneAsker DEF TakeBack, Waiting, InWait
  <2>2. CASE /\ IsOpen(c) /\ Becomes(c, "cancelled")
             /\ \E w \in {"server", "nobody"} : got' = [got EXCEPT ![c] = w]
    BY <1>2, <2>1, <2>2 DEF IsOpen
  <2>. QED BY <1>1, <1>5, <2>1, <2>2 DEF TakeBack
<1>6. CASE Begin(a) \/ ServerAnswers(a) BY <1>1, <1>6 DEF Begin, ServerAnswers
<1>. QED BY <1>3, <1>4, <1>5, <1>6 DEF Step

LEMMA MachinePromise ==
  ASSUME Inv, NEW m \in Machines, Serve(m) \/ Remove(m)
  PROVE  Promise!Next \/ UNCHANGED answers
<1>0. calls \in [Ids -> [state : CallState, by : Machines \cup {"nobody"}]] /\ got' = got
  BY DEF Inv, TableType, Serve, ReadQueue, Claim, Report, Remove
<1>1. ASSUME \A c \in Ids : \/ calls'[c] = calls[c]
                            \/ IsOpen(c) /\ calls'[c].state \in {"running", "failed", "cancelled"}
      PROVE  UNCHANGED answers
  BY <1>0, <1>1, SameGiven, Stutters
<1>2. CASE ReadQueue(m) BY <1>1, <1>2 DEF ReadQueue
<1>3. CASE Claim(m) BY <1>0, <1>1, <1>3 DEF Claim, IsOpen
<1>4. CASE Remove(m) BY <1>0, <1>1, <1>4 DEF Remove, IsOpen
<1>5. CASE Report(m)
  <2>1. PICK c \in Ids, s \in {"done", "failed"} : HeldBy(c, m) /\ Becomes(c, s)
    BY <1>5 DEF Report
  <2>2. /\ IsOpen(c) /\ calls'[c].state = s /\ calls'[c].by = m
        /\ \A d \in Ids : d # c => calls'[d] = calls[d]
    BY <1>0, <2>1 DEF Becomes, HeldBy, IsOpen
  <2>3. CASE s = "failed" BY <1>1, <2>2, <2>3
  <2>4. CASE s = "done" /\ got[c] # "none"
    <3>1. Given(c)' = Given(c) BY <1>0, <2>4, GivenIs, GivenBecomes
    <3>2. ASSUME NEW d \in Ids, d # c PROVE Given(d)' = Given(d)
      BY <1>0, <2>2, <3>2, SameGiven
    <3>. QED BY <3>1, <3>2, Stutters
  <2>5. CASE s = "done" /\ got[c] = "none"
    <3>1. Given(c) = "asked" BY <2>2, <2>5, GivenIs DEF IsOpen
    <3>2. Given(c)' = m BY <1>0, <2>2, <2>5, GivenBecomes
    <3>3. ASSUME NEW d \in Ids, d # c PROVE Given(d)' = Given(d)
      BY <1>0, <2>2, <3>3, SameGiven
    <3>. QED BY <3>1, <3>2, <3>3, Settles
  <2>. QED BY <2>3, <2>4, <2>5
<1>. QED BY <1>2, <1>3, <1>4, <1>5 DEF Serve

LEMMA RestartPromise == ASSUME Inv, Restart PROVE Promise!Next
<1> DEFINE Dropped(c) == \E a \in Askers : /\ mine[a] = c
                                          /\ pc[a] \in {"waiting", "take back", "stop seen"}
<1> DEFINE Q == {c \in Ids : Dropped(c)}
<1>1. got' = [c \in Ids |-> IF Dropped(c) THEN "lost" ELSE got[c]] /\ calls' = calls
  BY DEF Restart
<1>2. ASSUME NEW c \in Ids, Dropped(c)
      PROVE  Given(c) \in Machines \cup {"asked"} /\ Given(c)' = "lost"
  <2>1. PICK a \in Askers : mine[a] = c /\ pc[a] \in InWait BY <1>2 DEF InWait
  <2>2. got[c] = "none" /\ ~(c > asked)
    <3>1. got[c] = "none" /\ c <= asked BY <2>1, OneAsker DEF Waiting
    <3>2. asked \in Nat /\ c \in Nat BY <2>1, OneAsker
    <3>. QED BY <3>1, <3>2
  <2>3. calls[c].state # "none" /\ (calls[c].state = "done" => calls[c].by \in Machines)
    BY <2>2 DEF Inv, Rows
  <2>4. Given(c) \in Machines \cup {"asked"} BY <2>2, <2>3, GivenIs
  <2>5. got'[c] = "lost" BY <1>1, <1>2
  <2>. QED BY <2>4, <2>5, GivenBecomes
<1>3. ASSUME NEW c \in Ids, ~Dropped(c) PROVE Given(c)' = Given(c)
  BY <1>1, <1>3, SameGiven
<1> HIDE DEF Dropped
<1>4. /\ \A c \in Q : answers[c] \in Machines \cup {"asked"}
      /\ answers' = [c \in Ids |-> IF c \in Q THEN "lost" ELSE answers[c]]
  BY <1>2, <1>3 DEF answers
<1>. QED BY <1>4 DEF Promise!Next, Promise!Lose, answers

LEMMA NextPromise == Inv /\ [Next]_vars => [Promise!Next]_answers
<1>. SUFFICES ASSUME Inv, [Next]_vars PROVE Promise!Next \/ UNCHANGED answers
  OBVIOUS
<1>1. CASE UNCHANGED vars \/ \E a \in Askers : Stop(a)
  BY <1>1, SameGiven, Stutters DEF vars, Stop
<1>. QED BY <1>1, AskerPromise, MachinePromise, RestartPromise DEF Next

\* The table of calls, with its looks, claims, take-backs, removals and restarts,
\* implements a question that is answered once.
THEOREM ImplementsOneAnswer == Spec => KeepsThePromise
<1>1. Inv /\ [Next]_vars => [Promise!Next]_([c \in Ids |-> Given(c)])
  BY NextPromise DEF answers
<1>. QED BY <1>1, InitPromise, InvHolds, PTL DEF Spec, KeepsThePromise, Promise!Spec
===============================================================================
