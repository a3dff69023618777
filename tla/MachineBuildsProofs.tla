------------------------- MODULE MachineBuildsProofs -------------------------
(***************************************************************************)
(* What holds of the queue of builds for any number of developments,       *)
(* machines, builds and restarts.  The heart of it is a count: a row keeps *)
(* how often it was claimed, whoever puts it back on the queue, so a build *)
(* that was taken back once is on its second claim when it runs again, and *)
(* a second claim is given up and not taken back.                          *)
(***************************************************************************)
EXTENDS MachineBuilds, TLAPS

Building == Waiting \cup {"done", "lost"}

\* Where the development stands while its loop is somewhere, and what it owes.
Placed ==
  \A j \in Jobs :
    /\ loop[j] \in Building => at[j] \in {"gate", "final"}
    /\ loop[j] = "gate" => at[j] = "final"
    /\ loop[j] = "park" => at[j] \in {"developing", "gate"}
    /\ attempts[j] > MaxFixes => at[j] = "over"

\* A loop that waits has a build of its own, which was put on the queue.
Owned ==
  /\ \A j \in Jobs : /\ build[j] # 0 <=> loop[j] \in Building
                     /\ build[j] <= queued
  /\ \A i, j \in Jobs : build[i] = build[j] /\ build[i] # 0 => i = j
  /\ \A c \in Ids : c > queued => rows[c].state = "none"

\* How often a build was claimed is enough to know that it was taken back.
Counted ==
  /\ \A c \in Ids : rows[c].state = "running" => rows[c].tries >= 1
  /\ \A j \in Jobs :
       /\ taken[j] <= 1
       /\ build[j] = 0 \/ loop[j] = "requeue" => taken[j] = 0
       /\ build[j] # 0 /\ taken[j] = 1 =>
            /\ rows[build[j]].tries >= 1
            /\ rows[build[j]].state = "running" => rows[build[j]].tries >= 2
       /\ loop[j] = "judge" /\ taken[j] = 1 /\ look[j].state = "running" => look[j].tries >= 2

Inv == TypeOK /\ Placed /\ Owned /\ Counted /\ OnlyTheBuildIsOwed

-----------------------------------------------------------------------------
LEMMA Bounds == Removable \subseteq Machines /\ MaxFixes \in Nat /\ MaxBuilds \in Nat
BY MachineBuildsAssumption

\* What the code makes of a row is a row.
LEMMA RowsAreRows ==
  /\ NoRow \in Rows /\ [NoRow EXCEPT !.state = "queued"] \in Rows
  /\ \A r \in Rows : /\ [r EXCEPT !.state = "queued", !.by = "nobody"] \in Rows
                     /\ [r EXCEPT !.state = "done"] \in Rows
                     /\ \A m \in Machines :
                          [state |-> "running", by |-> m, tries |-> r.tries + 1] \in Rows
<1>1. NoRow \in Rows /\ [NoRow EXCEPT !.state = "queued"] \in Rows
  BY DEF NoRow, Rows
<1>2. ASSUME NEW r \in Rows
      PROVE  /\ [r EXCEPT !.state = "queued", !.by = "nobody"] \in Rows
             /\ [r EXCEPT !.state = "done"] \in Rows
  BY DEF Rows
<1>3. ASSUME NEW r \in Rows, NEW m \in Machines
      PROVE  [state |-> "running", by |-> m, tries |-> r.tries + 1] \in Rows
  BY DEF Rows
<1> QED BY <1>1, <1>2, <1>3

\* A loop that only goes on to another place keeps its build, or has none yet.
LEMMA LoopGoesOn ==
  ASSUME Inv, NEW j \in Jobs, NEW to, loop' = [loop EXCEPT ![j] = to],
         loop[j] \in Building <=> to \in Building,
         UNCHANGED <<build, rows, queued>>
  PROVE  Owned'
BY DEF Inv, TypeOK, Owned

\* What a build that was run makes of a development.
LEMMA BuildsAreCharged ==
  ASSUME Inv, NEW j \in Jobs, at[j] \in {"gate", "final"}, Green(j) \/ Red(j)
  PROVE  /\ at' \in [Jobs -> Working \cup {"awaiting", "over"}]
         /\ attempts' \in [Jobs -> 0..MaxFixes + 1] /\ written' \in [Jobs -> BOOLEAN]
         /\ \A i \in Jobs : attempts'[i] > MaxFixes => at'[i] = "over"
         /\ \A i \in Jobs \ {j} : at'[i] = at[i] /\ written'[i] = written[i]
         /\ at'[j] \in {"developing", "final", "over"} /\ ~written'[j]
<1> USE Bounds DEF Inv, TypeOK, Placed, Working
<1>1. CASE Green(j) BY <1>1 DEF Green, IsAt
<1>2. CASE Red(j) BY <1>2 DEF Red, IsAt
<1> QED BY <1>1, <1>2

\* The machines, and whoever takes one away, only ever claim a row once more, put it
\* back or finish it.
LEMMA QueueGoesOn ==
  ASSUME Inv, UNCHANGED <<job, runLoop, queued>>, rows' \in [Ids -> Rows],
         \A c \in Ids : /\ rows[c].state = "none" => rows'[c].state = "none"
                        /\ rows'[c].tries >= rows[c].tries
                        /\ rows'[c].state = "running" =>
                             \/ rows'[c].tries = rows[c].tries /\ rows[c].state = "running"
                             \/ rows'[c].tries = rows[c].tries + 1
  PROVE  Placed' /\ Owned' /\ Counted' /\ OnlyTheBuildIsOwed'
<1> USE DEF Inv
<1>1. Placed' /\ OnlyTheBuildIsOwed'
  BY DEF Placed, OnlyTheBuildIsOwed, job, runLoop
<1>2. Owned' BY DEF Owned, runLoop
<1>3. ASSUME NEW c \in Ids, rows'[c].state = "running" PROVE rows'[c].tries >= 1
  BY <1>3 DEF TypeOK, Counted, Rows
<1>4. ASSUME NEW j \in Jobs, build[j] # 0, taken[j] = 1
      PROVE  /\ rows'[build[j]].tries >= 1
             /\ rows'[build[j]].state = "running" => rows'[build[j]].tries >= 2
  <2>1. build[j] \in Ids BY <1>4 DEF TypeOK, Ids
  <2> QED BY <1>4, <2>1 DEF TypeOK, Counted, Rows
<1>5. Counted' BY <1>3, <1>4 DEF Inv, Counted, runLoop
<1> QED BY <1>1, <1>2, <1>5

\* No step of a run loop breaks it.
LEMMA LoopKeeps ==
  ASSUME Inv, NEW j \in Jobs, LoopStep(j) \/ Deadline(j)
  PROVE  Inv'
<1> USE Bounds DEF Inv, job, runLoop, queue, machine
<1>1. CASE Enter(j, "start")
  <2>1. TypeOK' BY <1>1 DEF TypeOK, Rows, Ids, Idle, NoRow, Working, Waiting, Enter, IsAt, GoesOn
  <2>2. Placed' BY <1>1 DEF TypeOK, Placed, Building, Working, Waiting, Enter, IsAt, GoesOn
  <2>3. Owned' BY <1>1 DEF TypeOK, Placed, Owned, Building, Waiting, Working, Rows, Ids, NoRow,
       Enter, IsAt, GoesOn
  <2>4. Counted' BY <1>1 DEF TypeOK, Owned, Counted, Building, Waiting, Working, Rows, Ids,
       NoRow, Enter, IsAt, GoesOn
  <2>5. OnlyTheBuildIsOwed' BY <1>1 DEF TypeOK, Placed, OnlyTheBuildIsOwed, Building, Working,
       Waiting, Enter, IsAt, GoesOn
  <2> QED BY <2>1, <2>2, <2>3, <2>4, <2>5
<1>2. CASE Enter(j, "wake")
  <2>1. TypeOK' BY <1>2 DEF TypeOK, Rows, Ids, Idle, NoRow, Working, Waiting, Enter, IsAt, GoesOn
  <2>2. Placed' BY <1>2 DEF TypeOK, Placed, Building, Working, Waiting, Enter, IsAt, GoesOn
  <2>3. Owned' BY <1>2 DEF TypeOK, Placed, Owned, Building, Waiting, Working, Rows, Ids, NoRow,
       Enter, IsAt, GoesOn
  <2>4. Counted' BY <1>2 DEF TypeOK, Owned, Counted, Building, Waiting, Working, Rows, Ids,
       NoRow, Enter, IsAt, GoesOn
  <2>5. OnlyTheBuildIsOwed' BY <1>2 DEF TypeOK, Placed, OnlyTheBuildIsOwed, Building, Working,
       Waiting, Enter, IsAt, GoesOn
  <2> QED BY <2>1, <2>2, <2>3, <2>4, <2>5
<1>3. CASE Leave(j)
  <2>1. TypeOK' BY <1>3 DEF TypeOK, Rows, Ids, Idle, NoRow, Working, Waiting, Leave, GoesOn
  <2>2. Placed' BY <1>3 DEF TypeOK, Placed, Building, Working, Waiting, Leave, GoesOn
  <2>3. Owned' BY <1>3 DEF TypeOK, Placed, Owned, Building, Waiting, Working, Rows, Ids, NoRow,
       Leave, GoesOn
  <2>4. Counted' BY <1>3 DEF TypeOK, Owned, Counted, Building, Waiting, Working, Rows, Ids,
       NoRow, Leave, GoesOn
  <2>5. OnlyTheBuildIsOwed' BY <1>3 DEF TypeOK, Placed, OnlyTheBuildIsOwed, Building, Working,
       Waiting, Leave, GoesOn
  <2> QED BY <2>1, <2>2, <2>3, <2>4, <2>5
<1>4. CASE Discard(j)
  <2>1. TypeOK' BY <1>4 DEF TypeOK, Rows, Ids, Idle, NoRow, Working, Waiting, Discard
  <2>2. Placed' BY <1>4 DEF TypeOK, Placed, Building, Working, Waiting, Discard
  <2>3. Owned' BY <1>4 DEF TypeOK, Placed, Owned, Building, Waiting, Working, Rows, Ids, NoRow,
       Discard
  <2>4. Counted' BY <1>4 DEF TypeOK, Owned, Counted, Building, Waiting, Working, Rows, Ids,
       NoRow, Discard
  <2>5. OnlyTheBuildIsOwed' BY <1>4 DEF TypeOK, Placed, OnlyTheBuildIsOwed, Building, Working,
       Waiting, Discard
  <2> QED BY <2>1, <2>2, <2>3, <2>4, <2>5
<1>5. CASE Develop(j)
  <2>1. TypeOK' BY <1>5 DEF TypeOK, Rows, Ids, Idle, NoRow, Working, Waiting, Develop, IsAt, GoesOn
  <2>2. Placed' BY <1>5 DEF TypeOK, Placed, Building, Working, Waiting, Develop, IsAt, GoesOn
  <2>3. Owned'
    <3>1. CASE There BY <1>5, <3>1, LoopGoesOn DEF Owned, Building, Waiting, Develop, IsAt, GoesOn
    <3>2. CASE ~There BY <1>5, <3>2, LoopGoesOn DEF Owned, Building, Waiting, Develop, IsAt, GoesOn
    <3> QED BY <3>1, <3>2
  <2>4. Counted' BY <1>5 DEF TypeOK, Owned, Counted, Building, Waiting, Working, Rows, Ids,
       NoRow, Develop, IsAt, GoesOn
  <2>5. OnlyTheBuildIsOwed' BY <1>5 DEF TypeOK, Placed, OnlyTheBuildIsOwed, Building, Working,
       Waiting, Develop, IsAt, GoesOn
  <2> QED BY <2>1, <2>2, <2>3, <2>4, <2>5
<1>6. CASE FinalGate(j)
  <2>1. TypeOK' BY <1>6 DEF TypeOK, Rows, Ids, Idle, NoRow, Working, Waiting, FinalGate, IsAt,
       GoesOn
  <2>2. Placed' BY <1>6 DEF TypeOK, Placed, Building, Working, Waiting, FinalGate, IsAt, GoesOn
  <2>3. Owned'
    <3>1. CASE There BY <1>6, <3>1, LoopGoesOn DEF Owned, Building, Waiting, FinalGate, IsAt, GoesOn
    <3>2. CASE ~There BY <1>6, <3>2, LoopGoesOn DEF Owned, Building, Waiting, FinalGate, IsAt,
         GoesOn
    <3> QED BY <3>1, <3>2
  <2>4. Counted' BY <1>6 DEF TypeOK, Owned, Counted, Building, Waiting, Working, Rows, Ids,
       NoRow, FinalGate, IsAt, GoesOn
  <2>5. OnlyTheBuildIsOwed' BY <1>6 DEF TypeOK, Placed, OnlyTheBuildIsOwed, Building, Working,
       Waiting, FinalGate, IsAt, GoesOn
  <2> QED BY <2>1, <2>2, <2>3, <2>4, <2>5
<1>7. CASE RunGate(j)
  <2>1. CASE QueueBuild(j)
    <3>1. \A i \in Jobs : build[i] # queued + 1 BY DEF TypeOK, Owned
    <3>2. rows' \in [Ids -> Rows] /\ queued + 1 \in Ids
      <4>1. queued + 1 \in Ids BY <2>1 DEF TypeOK, QueueBuild, Ids
      <4>2. [NoRow EXCEPT !.state = "queued"] \in Rows BY RowsAreRows
      <4> QED BY <2>1, <4>1, <4>2 DEF TypeOK, QueueBuild
    <3>3. TypeOK' BY <1>7, <2>1, <3>2 DEF TypeOK, Ids, Working, Waiting, RunGate, QueueBuild, GoesOn
    <3>4. Placed' BY <1>7, <2>1 DEF TypeOK, Placed, Building, Waiting, RunGate, QueueBuild, GoesOn
    <3>5. Owned'
      <4>1. \A i \in Jobs : /\ build'[i] # 0 <=> loop'[i] \in Building
                            /\ build'[i] <= queued'
        BY <2>1 DEF TypeOK, Owned, QueueBuild, GoesOn, Building, Waiting
      <4>2. \A i, k \in Jobs : build'[i] = build'[k] /\ build'[i] # 0 => i = k
        BY <2>1, <3>1 DEF TypeOK, Owned, QueueBuild
      <4>3. \A c \in Ids : c > queued' => rows'[c].state = "none"
        BY <2>1 DEF TypeOK, Owned, QueueBuild, Ids
      <4> QED BY <4>1, <4>2, <4>3 DEF Owned
    <3>6. Counted'
      <4>1. \A c \in Ids \ {queued + 1} : rows'[c] = rows[c]
        BY <2>1 DEF TypeOK, QueueBuild
      <4>2. rows'[queued + 1].state = "queued" BY <2>1, <3>2 DEF TypeOK, QueueBuild, NoRow
      <4>3. \A i \in Jobs \ {j} : build[i] # 0 => build[i] \in Ids \ {queued + 1}
        BY <3>1 DEF TypeOK, Ids
      <4> QED BY <1>7, <2>1, <4>1, <4>2, <4>3, <3>2 DEF TypeOK, Counted, RunGate, QueueBuild, GoesOn
    <3>7. OnlyTheBuildIsOwed' BY <1>7, <2>1 DEF OnlyTheBuildIsOwed, RunGate, QueueBuild
    <3> QED BY <3>3, <3>4, <3>5, <3>6, <3>7
  <2>2. CASE BuildHere(j)
    <3>1. at[j] \in {"gate", "final"} BY <1>7 DEF Placed, RunGate
    <3>2. build[j] = 0 BY <1>7 DEF Owned, Building, Waiting, RunGate
    <3>3. TypeOK' BY <1>7, <2>2, <3>1, BuildsAreCharged DEF TypeOK, RunGate, BuildHere, GoesOn
    <3>4. Placed'
      BY <1>7, <2>2, <3>1, BuildsAreCharged DEF TypeOK, Placed, Building, Waiting, RunGate,
           BuildHere, GoesOn
    <3>5. Owned'
      BY <1>7, <2>2, LoopGoesOn DEF Building, Waiting, RunGate, BuildHere, GoesOn
    <3>6. Counted' BY <1>7, <2>2, <3>2 DEF TypeOK, Counted, RunGate, BuildHere, GoesOn
    <3>7. OnlyTheBuildIsOwed'
      BY <1>7, <2>2, <3>1, BuildsAreCharged DEF OnlyTheBuildIsOwed, RunGate, BuildHere
    <3> QED BY <3>3, <3>4, <3>5, <3>6, <3>7
  <2> QED BY <1>7, <2>1, <2>2 DEF RunGate
<1>8. CASE Deadline(j)
  <2>1. TypeOK' BY <1>8 DEF TypeOK, Rows, Ids, Idle, NoRow, Working, Waiting, Deadline
  <2>2. Placed' BY <1>8 DEF TypeOK, Placed, Building, Working, Waiting, Deadline
  <2>3. Owned' BY <1>8 DEF TypeOK, Placed, Owned, Building, Waiting, Working, Rows, Ids, NoRow,
       Deadline
  <2>4. Counted' BY <1>8 DEF TypeOK, Owned, Counted, Building, Waiting, Working, Rows, Ids,
       NoRow, Deadline
  <2>5. OnlyTheBuildIsOwed' BY <1>8 DEF TypeOK, Placed, OnlyTheBuildIsOwed, Building, Working,
       Waiting, Deadline
  <2> QED BY <2>1, <2>2, <2>3, <2>4, <2>5
<1>9. CASE Look(j)
  <2>1. TypeOK'
    <3>1. rows[build[j]] \in Rows
      BY <1>9 DEF TypeOK, Owned, Building, Waiting, Ids, Look
    <3> QED BY <1>9, <3>1 DEF TypeOK, Ids, Working, Waiting, Look, GoesOn
  <2>2. Placed' BY <1>9 DEF TypeOK, Placed, Building, Working, Waiting, Look, GoesOn
  <2>3. Owned' BY <1>9 DEF TypeOK, Placed, Owned, Building, Waiting, Working, Rows, Ids, NoRow,
       Look, GoesOn
  <2>4. Counted' BY <1>9 DEF TypeOK, Owned, Counted, Building, Waiting, Working, Rows, Ids,
       NoRow, Look, GoesOn
  <2>5. OnlyTheBuildIsOwed' BY <1>9 DEF TypeOK, Placed, OnlyTheBuildIsOwed, Building, Working,
       Waiting, Look, GoesOn
  <2> QED BY <2>1, <2>2, <2>3, <2>4, <2>5
<1>10. CASE Judge(j)
  <2>1. TypeOK' BY <1>10 DEF TypeOK, Rows, Ids, Idle, NoRow, Working, Waiting, Judge, Silent, GoesOn
  <2>2. Placed' BY <1>10 DEF TypeOK, Placed, Building, Working, Waiting, Judge, Silent, GoesOn
  <2>3. Owned' BY <1>10, LoopGoesOn DEF Building, Waiting, Judge, Silent, GoesOn
  <2>4. Counted' BY <1>10 DEF TypeOK, Owned, Counted, Building, Waiting, Working, Rows, Ids,
       NoRow, Judge, Silent, GoesOn
  <2>5. OnlyTheBuildIsOwed' BY <1>10 DEF TypeOK, Placed, OnlyTheBuildIsOwed, Building, Working,
       Waiting, Judge, Silent, GoesOn
  <2> QED BY <2>1, <2>2, <2>3, <2>4, <2>5
<1>11. CASE Requeue(j)
  <2>1. TypeOK'
    <3>1. rows' \in [Ids -> Rows] BY <1>11, RowsAreRows DEF TypeOK, Requeue
    <3> QED BY <1>11, <3>1 DEF TypeOK, Ids, Working, Waiting, Requeue, GoesOn
  <2>2. Placed' BY <1>11 DEF TypeOK, Placed, Building, Working, Waiting, Requeue, GoesOn
  <2>3. Owned' BY <1>11 DEF TypeOK, Placed, Owned, Building, Waiting, Working, Rows, Ids, NoRow,
       Requeue, GoesOn
  <2>4. Counted' BY <1>11 DEF TypeOK, Owned, Counted, Building, Waiting, Working, Rows, Ids,
       NoRow, Requeue, GoesOn
  <2>5. OnlyTheBuildIsOwed' BY <1>11 DEF TypeOK, Placed, OnlyTheBuildIsOwed, Building, Working,
       Waiting, Requeue, GoesOn
  <2> QED BY <2>1, <2>2, <2>3, <2>4, <2>5
<1>12. CASE Answered(j)
  <2>1. at[j] \in {"gate", "final"} /\ build[j] # 0 /\ build[j] \in Ids
    BY <1>12 DEF TypeOK, Placed, Owned, Building, Answered, Ids
  <2>2. rows' \in [Ids -> Rows] BY <1>12, RowsAreRows DEF TypeOK, Answered, Drop
  <2>3. TypeOK'
    BY <1>12, <2>1, <2>2, BuildsAreCharged DEF TypeOK, Answered, Drop, GoesOn
  <2>4. Placed'
    BY <1>12, <2>1, BuildsAreCharged DEF TypeOK, Placed, Building, Waiting, Answered, GoesOn
  <2>5. Owned'
    BY <1>12, <2>1 DEF TypeOK, Owned, Building, Waiting, NoRow, Answered, Drop, GoesOn
  <2>6. Counted'
    <3>1. \A c \in Ids \ {build[j]} : rows'[c] = rows[c] BY <1>12 DEF TypeOK, Answered, Drop
    <3>2. rows'[build[j]].state = "none" BY <1>12, <2>1 DEF TypeOK, Answered, Drop, NoRow
    <3>3. \A i \in Jobs \ {j} : build[i] # 0 => build[i] \in Ids \ {build[j]}
      BY <2>1 DEF TypeOK, Owned, Ids
    <3> QED BY <1>12, <2>1, <3>1, <3>2, <3>3 DEF TypeOK, Counted, Answered, Drop, GoesOn
  <2>7. OnlyTheBuildIsOwed'
    BY <1>12, <2>1, BuildsAreCharged DEF OnlyTheBuildIsOwed, Answered
  <2> QED BY <2>3, <2>4, <2>5, <2>6, <2>7
<1>13. CASE Unanswered(j)
  <2>1. TypeOK'
    <3>1. rows' \in [Ids -> Rows] BY <1>13, RowsAreRows DEF TypeOK, Unanswered, Drop
    <3>2. at' \in [Jobs -> Working \cup {"awaiting", "over"}]
      BY <1>13 DEF TypeOK, Working, Unanswered, IsAt
    <3>3. loop' \in [Jobs -> Waiting \cup {"none", "run", "gate", "done", "lost", "park"}]
      BY <1>13 DEF TypeOK, Unanswered, GoesOn
    <3>4. build' \in [Jobs -> 0..MaxBuilds] /\ taken' \in [Jobs -> Nat] /\ late' \in [Jobs ->
         BOOLEAN]
      BY <1>13 DEF TypeOK, Unanswered, Drop
    <3> QED BY <1>13, <3>1, <3>2, <3>3, <3>4 DEF TypeOK, Unanswered
  <2>2. Placed' BY <1>13 DEF TypeOK, Placed, Building, Working, Waiting, Unanswered, Drop, IsAt,
       GoesOn
  <2>3. Owned' BY <1>13 DEF TypeOK, Placed, Owned, Building, Waiting, Working, Rows, Ids, NoRow,
       Unanswered, Drop, IsAt, GoesOn
  <2>4. Counted' BY <1>13 DEF TypeOK, Owned, Counted, Building, Waiting, Working, Rows, Ids,
       NoRow, Unanswered, Drop, IsAt, GoesOn
  <2>5. OnlyTheBuildIsOwed' BY <1>13 DEF TypeOK, Placed, OnlyTheBuildIsOwed, Building, Working,
       Waiting, Unanswered, Drop, IsAt, GoesOn
  <2> QED BY <2>1, <2>2, <2>3, <2>4, <2>5
<1>14. CASE Park(j)
  <2>1. TypeOK'
    <3>1. at[j] \in {"developing", "gate"} BY <1>14 DEF Placed, Park
    <3> QED BY <1>14, <3>1 DEF TypeOK, Ids, Working, Waiting, Park, IsAt, GoesOn
  <2>2. Placed' BY <1>14 DEF TypeOK, Placed, Building, Working, Waiting, Park, IsAt, GoesOn
  <2>3. Owned' BY <1>14 DEF TypeOK, Placed, Owned, Building, Waiting, Working, Rows, Ids, NoRow,
       Park, IsAt, GoesOn
  <2>4. Counted' BY <1>14 DEF TypeOK, Owned, Counted, Building, Waiting, Working, Rows, Ids,
       NoRow, Park, IsAt, GoesOn
  <2>5. OnlyTheBuildIsOwed' BY <1>14 DEF TypeOK, Placed, OnlyTheBuildIsOwed, Building, Working,
       Waiting, Park, IsAt, GoesOn
  <2> QED BY <2>1, <2>2, <2>3, <2>4, <2>5
<1> QED BY <1>1, <1>2, <1>3, <1>4, <1>5, <1>6, <1>7, <1>8, <1>9, <1>10, <1>11, <1>12, <1>13,
     <1>14 DEF LoopStep

\* Nothing a machine does, or is done to it, breaks it.
LEMMA MachineKeeps ==
  ASSUME Inv, NEW m \in Machines, Agent(m) \/ Server(m) \/ GoSilent(m) \/ Revoke(m)
  PROVE  Inv'
<1> USE Bounds DEF Inv, job, runLoop, queue, machine
<1>1. CASE Heartbeat(m)
  <2>1. TypeOK' BY <1>1 DEF TypeOK, Rows, Ids, Idle, NoRow, Working, Waiting, Heartbeat
  <2>2. Placed' /\ Owned' /\ Counted' /\ OnlyTheBuildIsOwed'
    BY <1>1, QueueGoesOn DEF TypeOK, Rows, Heartbeat
  <2> QED BY <2>1, <2>2
<1>2. CASE PollEnds(m)
  <2>1. TypeOK' BY <1>2 DEF TypeOK, Rows, Ids, Idle, NoRow, Working, Waiting, PollEnds
  <2>2. Placed' /\ Owned' /\ Counted' /\ OnlyTheBuildIsOwed'
    BY <1>2, QueueGoesOn DEF TypeOK, Rows, PollEnds
  <2> QED BY <2>1, <2>2
<1>3. CASE GoSilent(m)
  <2>1. TypeOK' BY <1>3 DEF TypeOK, Rows, Ids, Idle, NoRow, Working, Waiting, GoSilent
  <2>2. Placed' /\ Owned' /\ Counted' /\ OnlyTheBuildIsOwed'
    BY <1>3, QueueGoesOn DEF TypeOK, Rows, GoSilent
  <2> QED BY <2>1, <2>2
<1>4. CASE Poll(m)
  <2>1. TypeOK'
    <3>1. agent' \in [Machines -> [does : {"idle", "polls", "builds", "ended"}, task :
         0..MaxBuilds]]
      BY <1>4 DEF TypeOK, Poll, Does
    <3>2. threads' \in [Jobs -> SUBSET {"start", "wake"}] /\ waking' \subseteq Jobs
      BY <1>4 DEF TypeOK, Poll, Wake
    <3>3. heard' \subseteq Machines BY <1>4 DEF TypeOK, Poll
    <3> QED BY <1>4, <3>1, <3>2, <3>3 DEF TypeOK, Poll
  <2>2. Placed' /\ Owned' /\ Counted' /\ OnlyTheBuildIsOwed'
    BY <1>4, QueueGoesOn DEF TypeOK, Rows, Poll, Wake, Does
  <2> QED BY <2>1, <2>2
<1>5. CASE Report(m)
  <2>1. PICK c \in 0..MaxBuilds :
          \/ rows' = rows
          \/ /\ rows' = [rows EXCEPT ![c] = [@ EXCEPT !.state = "done"]]
             /\ rows[c].state = "running"
    BY <1>5 DEF TypeOK, Report, Holds
  <2>2. \A d \in Ids : /\ rows'[d] \in Rows /\ rows'[d].tries = rows[d].tries
                       /\ rows'[d].state \in {rows[d].state, "done"}
                       /\ rows[d].state = "none" => rows'[d].state = "none"
    <3>1. CASE rows' = rows BY <3>1 DEF TypeOK, Rows
    <3>2. CASE rows' # rows
      <4>1. \A d \in Ids : rows'[d] = IF d = c THEN [rows[c] EXCEPT !.state = "done"] ELSE rows[d]
        BY <2>1, <3>2 DEF TypeOK
      <4> QED BY <2>1, <3>2, <4>1 DEF TypeOK, Rows
    <3> QED BY <3>1, <3>2
  <2>3. rows' \in [Ids -> Rows] BY <2>1, <2>2 DEF TypeOK
  <2>4. TypeOK'
    <3>1. agent' \in [Machines -> [does : {"idle", "polls", "builds", "ended"}, task :
         0..MaxBuilds]]
      BY <1>5 DEF TypeOK, Report, Does, Idle
    <3> QED BY <1>5, <2>3, <3>1 DEF TypeOK, Report
  <2>5. Placed' /\ Owned' /\ Counted' /\ OnlyTheBuildIsOwed'
    BY <1>5, <2>1, <2>2, <2>3, QueueGoesOn DEF TypeOK, Rows, Report, Holds, Does
  <2> QED BY <2>4, <2>5
<1>6. CASE Claim(m)
  <2>1. PICK c \in Ids : /\ rows[c].state = "queued"
                         /\ rows' = [rows EXCEPT ![c] = [state |-> "running", by |-> m, tries |->
                              @.tries + 1]]
    BY <1>6 DEF Claim
  <2>2. \A d \in Ids : rows'[d] = IF d = c THEN [state |-> "running", by |-> m, tries |->
       rows[c].tries + 1]
                                           ELSE rows[d]
    BY <2>1 DEF TypeOK
  <2>3. rows' \in [Ids -> Rows] BY <2>1, <2>2, RowsAreRows DEF TypeOK
  <2>4. TypeOK'
    <3>1. agent' \in [Machines -> [does : {"idle", "polls", "builds", "ended"}, task :
         0..MaxBuilds]]
      <4>1. \E k \in Ids : \/ agent' = [agent EXCEPT ![m] = [does |-> "builds", task |-> k]]
                           \/ agent' = [agent EXCEPT ![m] = Idle]
        BY <1>6 DEF Claim, Does
      <4>2. PICK k \in Ids : \/ agent' = [agent EXCEPT ![m] = [does |-> "builds", task |-> k]]
                             \/ agent' = [agent EXCEPT ![m] = Idle]
        BY <4>1
      <4>3. k \in 0..MaxBuilds BY DEF Ids
      <4> QED BY <4>2, <4>3 DEF TypeOK, Idle
    <3> QED BY <1>6, <2>3, <3>1 DEF TypeOK, Claim
  <2>5. Placed' /\ Owned' /\ Counted' /\ OnlyTheBuildIsOwed'
    BY <1>6, <2>1, <2>2, <2>3, QueueGoesOn DEF TypeOK, Rows, Claim, Does
  <2> QED BY <2>4, <2>5
<1>7. CASE Revoke(m)
  <2>1. \A d \in Ids : rows[d] \in Rows BY DEF TypeOK
  <2>2. \A d \in Ids : /\ rows'[d] \in Rows /\ rows'[d].tries = rows[d].tries
                       /\ rows'[d] = rows[d] \/ (rows'[d].state = "queued" /\ rows[d].state =
                            "running")
    <3>1. ASSUME NEW d \in Ids
          PROVE  /\ rows'[d] \in Rows /\ rows'[d].tries = rows[d].tries
                 /\ rows'[d] = rows[d] \/ (rows'[d].state = "queued" /\ rows[d].state = "running")
      <4>1. CASE Holds(m, d)
        <5>1. rows'[d] = [rows[d] EXCEPT !.state = "queued", !.by = "nobody"]
          BY <1>7, <4>1 DEF Revoke
        <5> QED BY <2>1, <4>1, <5>1 DEF Rows, Holds
      <4>2. CASE ~Holds(m, d)
        <5>1. rows'[d] = rows[d] BY <1>7, <4>2 DEF Revoke
        <5> QED BY <2>1, <5>1 DEF Rows
      <4> QED BY <4>1, <4>2
    <3> QED BY <3>1
  <2>3. rows' \in [Ids -> Rows] BY <1>7, <2>2 DEF Revoke
  <2>4. TypeOK' BY <1>7, <2>3 DEF TypeOK, Ids, Working, Waiting, Idle, Revoke, Holds
  <2>5. Placed' /\ Owned' /\ Counted' /\ OnlyTheBuildIsOwed'
    <3>1. \A d \in Ids : /\ rows[d].state = "none" => rows'[d].state = "none"
                         /\ rows'[d].tries >= rows[d].tries
                         /\ rows'[d].state = "running" => rows[d].state = "running"
      BY <2>1, <2>2 DEF Rows
    <3> QED BY <1>7, <2>2, <2>3, <3>1, QueueGoesOn DEF Revoke
  <2> QED BY <2>4, <2>5
<1> QED BY <1>1, <1>2, <1>3, <1>4, <1>5, <1>6, <1>7 DEF Agent, Server

\* Nor does a restart.
LEMMA CrashKeeps == Inv /\ Crash => Inv'
<1> SUFFICES ASSUME Inv, Crash PROVE Inv'
  OBVIOUS
<1> USE Bounds DEF Inv, job, runLoop, queue, machine
<1>1. TypeOK' BY DEF Crash, TypeOK, Rows, Ids, Idle, NoRow, Working, Waiting
<1>2. Placed' BY DEF Crash, TypeOK, Placed, Building, Working, Waiting
<1>3. Owned' BY DEF Crash, TypeOK, Placed, Owned, Building, Waiting, Working, Rows, Ids, NoRow
<1>4. Counted' BY DEF Crash, TypeOK, Owned, Counted, Building, Waiting, Working, Rows, Ids, NoRow
<1>5. OnlyTheBuildIsOwed' BY DEF Crash, TypeOK, Placed, OnlyTheBuildIsOwed, Building, Working,
     Waiting
<1> QED BY <1>1, <1>2, <1>3, <1>4, <1>5

\* The invariant holds for any number of developments, machines, builds and restarts.
THEOREM InvHolds == Spec => []Inv
<1>1. Init => Inv
  BY Bounds
     DEF Init, Inv, TypeOK, Placed, Owned, Counted, OnlyTheBuildIsOwed, Building,
         Working, Waiting, Rows, Ids, NoRow, Idle
<1>2. Inv /\ [Next]_vars => Inv'
  <2> SUFFICES ASSUME Inv, [Next]_vars PROVE Inv'
    OBVIOUS
  <2>1. CASE UNCHANGED vars
    BY <2>1 DEF vars, job, runLoop, queue, machine, Inv, TypeOK, Placed, Owned, Counted,
                OnlyTheBuildIsOwed
  <2> QED BY <2>1, LoopKeeps, MachineKeeps, CrashKeeps DEF Next
<1> QED BY <1>1, <1>2, PTL DEF Spec

\* However machines fall silent, come back, claim, report and are taken away, a build is
\* taken back once at most (_remote_gate, engine.py).
THEOREM TakenBackOnceHolds == Spec => []TakenBackOnce
<1>1. Inv => TakenBackOnce BY DEF Inv, Counted, TakenBackOnce
<1> QED BY <1>1, InvHolds, PTL

\* A written phase waits, and is picked up again, at its build, restarts included
\* (_wait_for_builder, engine.py).
THEOREM WrittenPhasesAreBuilt == Spec => []OnlyTheBuildIsOwed
<1>1. Inv => OnlyTheBuildIsOwed BY DEF Inv
<1> QED BY <1>1, InvHolds, PTL

\* A reported build is never built again, whoever reads, claims or requeues at the same
\* time (finish_worker_task, requeue_worker_task, revoke_worker, store/workers.py).
THEOREM ReportedBuildsStand == Spec => DoneStaysDone
<1>1. Inv /\ [Next]_vars =>
        [\A c \in Ids : rows[c].state = "done" => rows'[c].state \in {"done", "none"}]_vars
  <2> USE DEF Inv
  <2> SUFFICES ASSUME Inv, Next, NEW c \in Ids, rows[c].state = "done"
               PROVE  rows'[c].state \in {"done", "none"}
    OBVIOUS
  <2>1. ASSUME NEW j \in Jobs, LoopStep(j) \/ Deadline(j)
        PROVE  rows'[c].state \in {"done", "none"}
    <3>1. CASE RunGate(j)
      <4>1. c <= queued BY Bounds DEF TypeOK, Owned, Ids
      <4>2. CASE QueueBuild(j)
        <5>1. c # queued + 1 BY <4>1, Bounds DEF TypeOK, Ids
        <5> QED BY <4>2, <5>1 DEF TypeOK, QueueBuild
      <4>3. CASE BuildHere(j) BY <4>3 DEF BuildHere, queue
      <4> QED BY <3>1, <4>2, <4>3 DEF RunGate
    <3>2. CASE Requeue(j) BY <3>2 DEF TypeOK, Rows, Requeue
    <3>3. CASE Answered(j) \/ Unanswered(j)
      BY <3>3 DEF TypeOK, Answered, Unanswered, Drop, NoRow
    <3>4. CASE rows' = rows BY <3>4
    <3> QED
      BY <2>1, <3>1, <3>2, <3>3, <3>4
         DEF LoopStep, Enter, Leave, Discard, Develop, FinalGate, Look, Judge, Park, Deadline, queue
  <2>2. ASSUME NEW m \in Machines, Agent(m) \/ Server(m) \/ GoSilent(m) \/ Revoke(m)
        PROVE  rows'[c].state \in {"done", "none"}
    <3>1. CASE Report(m)
      <4>1. \/ rows' = rows
            \/ rows' = [rows EXCEPT ![agent[m].task] = [@ EXCEPT !.state = "done"]]
        BY <3>1 DEF Report
      <4> QED BY <4>1 DEF TypeOK, Rows
    <3>2. CASE Claim(m) BY <3>2 DEF TypeOK, Claim
    <3>3. CASE Revoke(m) BY <3>3 DEF Revoke, Holds
    <3>4. CASE rows' = rows BY <3>4
    <3> QED
      BY <2>2, <3>1, <3>2, <3>3, <3>4
         DEF Agent, Server, Poll, Heartbeat, PollEnds, GoSilent, queue
  <2>3. CASE Crash BY <2>3 DEF Crash, queue
  <2> QED BY <2>1, <2>2, <2>3 DEF Next
<1> QED BY <1>1, InvHolds, PTL DEF Spec, DoneStaysDone
==============================================================================
