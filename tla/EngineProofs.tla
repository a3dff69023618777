----------------------------- MODULE EngineProofs -----------------------------
(***************************************************************************)
(* What is proved of the engine around a development's steps.              *)
(*                                                                         *)
(* RunControl: mutual exclusion around a development, for any number of    *)
(* threads and requests.  Whoever runs it, or is about to stop or pause    *)
(* it, holds its lock.  Two things follow: no two calls are ever out at    *)
(* once, and nothing stops or pauses a development while one of its calls  *)
(* is.  And work always has a thread that will do it, lock or no lock.     *)
(*                                                                         *)
(* PhaseOrder: the order the phases are built in, for any plans, however   *)
(* many phases are set aside.  A move is a permutation of the numbers that *)
(* keeps what is built where it is and takes along whatever needs what it  *)
(* moves, so needs stay in front; but those a machine must build go last   *)
(* though others need them.  Of the records kept by number a move takes    *)
(* along those of phases that do not say what they need and loses the      *)
(* rest.  Those that are kept belong to their phases; and the phases set   *)
(* aside, with what needs them, are all that is left from the first of     *)
(* them on, which is why a person is asked only when nothing else could    *)
(* go on, however many records were lost.                                  *)
(***************************************************************************)
EXTENDS RunControl, PhaseOrder, FiniteSetTheorems, WellFoundedInduction, TLAPS

(***************************************************************************)
(* RunControl                                                              *)
(***************************************************************************)
Local == [job : Row, target : Row, left : 0..MaxCalls,
          after : {"idle", "enter", "loop", "after", "end"},
          asks : {"none", "cancel", "pause", "redirect"}]

Running == {"loop", "call", "in flight", "crashed", "after", "supervise", "asking",
            "end"}

\* The loop, what it is about to write, and any stop or pause about to be made.
Owns(t) ==
  \/ pc[t] \in Running
  \/ /\ pc[t] \in {"save", "move"}
     /\ \/ my[t].after \in {"loop", "after", "end"}
        \/ my[t].target.at \in {"cancelled", "paused"}

OwnersHoldTheLock == \A t \in Threads : Owns(t) => lock = t

Inv == TypeOK /\ OwnersHoldTheLock

-----------------------------------------------------------------------------
\* The rows a step, an answer or a stop may write are rows.
LEMMA RowsAreRows ==
  /\ \A where \in Place, step \in 1..Steps : RowAt(where, step) \in Row
  /\ \A r \in Row, where \in Place : [r EXCEPT !.at = where] \in Row
  /\ \A r \in Row : Paused(r) \in Row
  /\ \A step \in 1..Steps : /\ Working(step) \in Row
                            /\ NextStep(step) \in 1..Steps
                            /\ Outcomes(step) \subseteq Row
  /\ 1 \in 1..Steps /\ Blank \in Local
<1>1. \A where \in Place, step \in 1..Steps : RowAt(where, step) \in Row
  BY DEF RowAt, Row
<1>2. \A r \in Row, where \in Place : [r EXCEPT !.at = where] \in Row
  BY DEF Row
<1>3. \A r \in Row : Paused(r) \in Row
  BY DEF Row, Paused, Place
<1>4. \A step \in 1..Steps : /\ Working(step) \in Row
                             /\ NextStep(step) \in 1..Steps
                             /\ Outcomes(step) \subseteq Row
  BY <1>1, RunControlAssumption DEF Working, NextStep, Outcomes, Place
<1>5. 1 \in 1..Steps BY RunControlAssumption
<1>6. Blank \in Local
  BY <1>1, <1>5, RunControlAssumption DEF Blank, Local, Place
<1> QED BY <1>1, <1>2, <1>3, <1>4, <1>5, <1>6

\* A thread that only changes its own place keeps the others' claim to the lock.
LEMMA OthersKeepTheLock ==
  ASSUME Inv, NEW t \in Threads, NEW p \in Points, NEW m \in Local,
         pc' = [pc EXCEPT ![t] = p], my' = [my EXCEPT ![t] = m],
         lock' = lock \/ lock = "nobody" \/ lock' = Released(t),
         lock' = "nobody" \/ lock' \in Threads,
         Owns(t)' => lock' = t
  PROVE  /\ OwnersHoldTheLock'
         /\ pc' \in [Threads -> Points] /\ my' \in [Threads -> Local]
         /\ lock' \in Threads \cup {"nobody"}
<1>1. pc \in [Threads -> Points] /\ my \in [Threads -> Local]
  BY DEF Inv, TypeOK, Local
<1>2. ASSUME NEW u \in Threads, Owns(u)' PROVE lock' = u
  <2>1. CASE u = t BY <1>2, <2>1
  <2>2. CASE u # t
    <3>1. Owns(u) BY <1>1, <1>2, <2>2 DEF Owns
    <3>2. lock = u BY <3>1 DEF Inv, OwnersHoldTheLock
    <3> QED BY <2>2, <3>2, RunControlAssumption DEF Released
  <2> QED BY <2>1, <2>2
<1> QED BY <1>1, <1>2 DEF OwnersHoldTheLock

\* What a thread that goes somewhere holds when it gets there.
LEMMA GoingHolds ==
  ASSUME Inv, NEW t \in Threads, NEW where \in Points, Goes(t, where)
  PROVE  /\ pc' = [pc EXCEPT ![t] = where]
         /\ \E m \in Local : /\ my' = [my EXCEPT ![t] = m]
                             /\ where \notin {"idle", "enter", "end"} => m = my[t]
<1>1. my \in [Threads -> Local] BY DEF Inv, TypeOK, Local
<1>2. CASE where \in {"idle", "enter", "end"}
  <2>1. [Blank EXCEPT !.job = Blank.job] \in Local BY RowsAreRows DEF Local
  <2> QED BY <1>2, <2>1 DEF Goes, GoesWith
<1>3. CASE where \notin {"idle", "enter", "end"}
  <2>1. pc' = [pc EXCEPT ![t] = where] /\ my' = my BY <1>3 DEF Goes
  <2>2. my[t] \in Local /\ my' = [my EXCEPT ![t] = my[t]] BY <1>1, <2>1
  <2> QED BY <2>1, <2>2
<1> QED BY <1>2, <1>3

\* A thread that goes to p, and owns the lock there only if it has it.
LEMMA GoingKeeps ==
  ASSUME Inv, NEW t \in Threads, NEW p \in Points, Goes(t, p),
         lock' = lock \/ lock = "nobody" \/ lock' = Released(t),
         lock' = "nobody" \/ lock' \in Threads,
         p \in Running => lock' = t,
         p \in {"save", "move"} => pc[t] \in {"save", "move"} /\ lock' = lock,
         row' \in Row, stopping' \in {"none", "cancel", "pause", "redirect"},
         requests' \in 0..MaxRequests
  PROVE  Inv'
<1>1. PICK m \in Local : /\ my' = [my EXCEPT ![t] = m]
                         /\ p \notin {"idle", "enter", "end"} => m = my[t]
  BY GoingHolds
<1>2. pc' = [pc EXCEPT ![t] = p] BY GoingHolds
<1>3. pc \in [Threads -> Points] /\ my \in [Threads -> Local]
  BY DEF Inv, TypeOK, Local
<1>4. pc'[t] = p /\ my'[t] = m BY <1>1, <1>2, <1>3
<1>5. Owns(t)' => lock' = t
  BY <1>1, <1>4 DEF Owns, Inv, OwnersHoldTheLock, Running
<1>6. /\ OwnersHoldTheLock' /\ pc' \in [Threads -> Points]
      /\ my' \in [Threads -> Local] /\ lock' \in Threads \cup {"nobody"}
  BY <1>1, <1>2, <1>5, OthersKeepTheLock
<1> QED BY <1>6 DEF Inv, TypeOK, Local

\* A thread that goes to p with m in hand.
LEMMA HoldingKeeps ==
  ASSUME Inv, NEW t \in Threads, NEW p \in Points, NEW m \in Local,
         pc' = [pc EXCEPT ![t] = p], my' = [my EXCEPT ![t] = m],
         lock' = lock \/ lock = "nobody" \/ lock' = Released(t),
         lock' = "nobody" \/ lock' \in Threads,
         \/ lock' = t
         \/ /\ p \notin Running
            /\ p \in {"save", "move"} =>
                 /\ m.after \notin {"loop", "after", "end"}
                 /\ m.target.at \notin {"cancelled", "paused"},
         row' \in Row, stopping' \in {"none", "cancel", "pause", "redirect"},
         requests' \in 0..MaxRequests
  PROVE  Inv'
<1>1. pc'[t] = p /\ my'[t] = m BY DEF Inv, TypeOK
<1>2. Owns(t)' => lock' = t BY <1>1 DEF Owns
<1>3. /\ OwnersHoldTheLock' /\ pc' \in [Threads -> Points]
      /\ my' \in [Threads -> Local] /\ lock' \in Threads \cup {"nobody"}
  BY <1>2, OthersKeepTheLock
<1> QED BY <1>3 DEF Inv, TypeOK, Local

\* A thread that is about to write row d over its copy r.
LEMMA WritingKeeps ==
  ASSUME Inv, NEW t \in Threads, NEW where \in {"save", "move"}, NEW r \in Row,
         NEW d \in Row, NEW next \in {"idle", "enter", "loop", "after", "end"},
         WillMove(t, where, r, d, next),
         lock' = lock \/ lock = "nobody", lock' = "nobody" \/ lock' \in Threads,
         \/ lock' = t
         \/ next \in {"idle", "enter"} /\ d.at \notin {"cancelled", "paused"},
         row' = row, stopping' \in {"none", "cancel", "pause", "redirect"},
         requests' \in 0..MaxRequests
  PROVE  Inv'
<1> DEFINE m == [Blank EXCEPT !.job = r, !.target = d, !.after = next]
<1>1. m \in Local /\ m.target = d /\ m.after = next BY RowsAreRows DEF Local
<1>2. pc' = [pc EXCEPT ![t] = where] /\ my' = [my EXCEPT ![t] = m] BY DEF WillMove
<1>3. row' \in Row /\ where \in Points /\ where \notin Running
  BY DEF Inv, TypeOK, Points, Running
<1> HIDE DEF m
<1> QED BY <1>1, <1>2, <1>3, HoldingKeeps
-----------------------------------------------------------------------------
(***************************************************************************)
(* The store and the requests                                              *)
(***************************************************************************)
\* What the type invariant says of one thread and of the row.
LEMMA Typed ==
  ASSUME Inv, NEW t \in Threads
  PROVE  /\ row \in Row /\ my[t].job \in Row /\ my[t].target \in Row
         /\ row.step \in 1..Steps /\ my[t].job.step \in 1..Steps
         /\ my[t] \in Local /\ pc[t] \in Points
         /\ lock \in Threads \cup {"nobody"}
         /\ stopping \in {"none", "cancel", "pause", "redirect"}
         /\ requests \in 0..MaxRequests /\ MaxRequests \in Nat
         /\ Owns(t) => lock = t
         /\ Released(t) = "nobody" \/ Released(t) \in Threads
BY RunControlAssumption
DEF Inv, TypeOK, Local, Row, OwnersHoldTheLock, Released

\* An exception gives the lock up, or goes on in the loop that holds it.
LEMMA RaiseKeeps ==
  ASSUME Inv, NEW t \in Threads, pc[t] \in {"save", "move"}, Raise(t),
         UNCHANGED <<row, stopping, requests>>
  PROVE  Inv'
<1>1. CASE my[t].after = "after"
  <2>1. lock = t BY <1>1, Typed DEF Owns
  <2>2. Goes(t, "crashed") /\ lock' = lock BY <1>1 DEF Raise
  <2> QED BY <2>1, <2>2, GoingKeeps, Typed DEF Points
<1>2. CASE my[t].after # "after"
  <2>1. Goes(t, "idle") /\ lock' = Released(t) BY <1>2 DEF Raise
  <2> QED BY <2>1, GoingKeeps, Typed DEF Points, Running
<1> QED BY <1>1, <1>2

\* The check of the row against the copy.
LEMMA SaveKeeps ==
  ASSUME Inv, NEW t \in Threads, Save(t) PROVE Inv'
<1>1. pc[t] = "save" /\ UNCHANGED <<row, stopping, requests>> BY DEF Save
<1>2. CASE SameState(row, my[t].job)
  <2>1. Goes(t, "move") /\ lock' = lock BY <1>2 DEF Save
  <2> QED BY <1>1, <2>1, GoingKeeps, Typed DEF Points, Running
<1>3. CASE ~SameState(row, my[t].job)
  <2>1. Raise(t) BY <1>3 DEF Save
  <2> QED BY <1>1, <2>1, RaiseKeeps
<1> QED BY <1>2, <1>3

\* The transition, and the lock let go with it.
LEMMA MoveKeeps ==
  ASSUME Inv, NEW t \in Threads, Move(t) PROVE Inv'
<1> DEFINE next == my[t].after
<1>1. pc[t] = "move" /\ UNCHANGED <<stopping, requests>> BY DEF Move
<1>2. CASE Raise(t) /\ UNCHANGED row BY <1>1, <1>2, RaiseKeeps
<1>3. CASE /\ row' = my[t].target
           /\ lock' = IF next \in {"idle", "enter"} THEN Released(t) ELSE lock
           /\ IF next \in {"loop", "after"} THEN GoesWith(t, next, my[t].target)
                                           ELSE Goes(t, next)
  <2>1. next \in {"idle", "enter", "loop", "after", "end"} BY Typed DEF Local
  <2>2. next \in {"loop", "after", "end"} => lock = t BY <1>1, Typed DEF Owns
  <2>3. CASE next \in {"loop", "after"}
    <3>1. GoesWith(t, next, my[t].target) /\ lock' = t BY <1>3, <2>2, <2>3
    <3> DEFINE m == [Blank EXCEPT !.job = my[t].target]
    <3>2. m \in Local BY RowsAreRows, Typed DEF Local
    <3>3. pc' = [pc EXCEPT ![t] = next] /\ my' = [my EXCEPT ![t] = m]
      BY <3>1 DEF GoesWith
    <3>4. next \in Points /\ lock' = lock BY <2>2, <2>3, <3>1 DEF Points
    <3> HIDE DEF m, next
    <3> QED BY <1>1, <1>3, <3>1, <3>2, <3>3, <3>4, HoldingKeeps, Typed
  <2>4. CASE next \in {"idle", "enter"}
    <3>1. Goes(t, next) /\ lock' = Released(t) BY <1>3, <2>4
    <3> QED BY <1>1, <1>3, <2>4, <3>1, GoingKeeps, Typed DEF Points, Running
  <2>5. CASE next = "end"
    <3>1. Goes(t, "end") /\ lock' = lock /\ lock = t BY <1>3, <2>2, <2>5
    <3> QED BY <1>1, <1>3, <3>1, GoingKeeps, Typed DEF Points
  <2> QED BY <2>1, <2>3, <2>4, <2>5
<1> QED BY <1>2, <1>3 DEF Move

\* What is asked for, before anything is written.
LEMMA RequestsKeep ==
  ASSUME Inv, NEW t \in Threads, Ask(t) PROVE Inv'
<1>1. requests' \in 0..MaxRequests /\ pc[t] = "idle"
  <2>1. Request(t) BY DEF Ask, Start, Answer, Stop, CarryOn, Maintain
  <2>2. requests \in 0..MaxRequests /\ MaxRequests \in Nat BY Typed
  <2> QED BY <2>1, <2>2 DEF Request
<1>2. CASE Start(t)
  <2>1. Working(1) \in Row /\ Working(1).at = "working"
    BY RowsAreRows DEF Working, RowAt
  <2> QED BY <1>1, <1>2, <2>1, WritingKeeps, Typed DEF Start
<1>3. CASE Answer(t)
  <2>1. PICK step \in {row.step, NextStep(row.step)} :
          WillMove(t, "save", row, Working(step), "enter")
    BY <1>3 DEF Answer
  <2>2. Working(step) \in Row /\ Working(step).at = "working"
    BY RowsAreRows, Typed DEF Working, RowAt
  <2> QED BY <1>1, <1>3, <2>1, <2>2, WritingKeeps, Typed DEF Answer
<1>4. CASE Stop(t)
  <2>1. PICK kind \in {"cancel", "pause", "redirect"} :
          my' = [my EXCEPT ![t] = [Blank EXCEPT !.job = row, !.asks = kind]]
    BY <1>4 DEF Stop
  <2> DEFINE m == [Blank EXCEPT !.job = row, !.asks = kind]
  <2>2. m \in Local BY RowsAreRows, Typed DEF Local
  <2>3. /\ pc' = [pc EXCEPT ![t] = "try lock"] /\ UNCHANGED <<row, lock, stopping>>
        /\ "try lock" \in Points /\ "try lock" \notin Running
    BY <1>4 DEF Stop, Points, Running
  <2> HIDE DEF m
  <2> QED BY <1>1, <2>1, <2>2, <2>3, HoldingKeeps, Typed DEF m
<1>5. CASE CarryOn(t)
  <2> DEFINE back == RowAt(IF row.was = "none" THEN "working" ELSE row.was, row.step)
  <2>1. row.was \in Place \cup {"none"} /\ "working" \in Place BY Typed DEF Row, Place
  <2>2. back \in Row BY <2>1, RowsAreRows, Typed
  <2>3. /\ WillMove(t, "save", row, back, "enter") /\ lock = "nobody" /\ lock' = t
        /\ UNCHANGED <<row, stopping>>
    BY <1>5 DEF CarryOn
  <2> HIDE DEF back
  <2> QED BY <1>1, <2>2, <2>3, WritingKeeps, Typed
<1>6. CASE Maintain(t)
  BY <1>1, <1>6, GoingKeeps, Typed DEF Maintain, Points
<1> QED BY <1>2, <1>3, <1>4, <1>5, <1>6 DEF Ask

\* The request that finds nobody running it, or leaves the loop a flag.
LEMMA StopsKeep ==
  ASSUME Inv, NEW t \in Threads, StopNow(t) \/ StopLater(t) \/ Flag(t) PROVE Inv'
<1>1. pc[t] \in {"try lock", "flag"} /\ UNCHANGED <<row, requests>>
  BY DEF StopNow, StopLater, Flag
<1> DEFINE stopped == [my[t].job EXCEPT !.at = "cancelled"]
<1>2. stopped \in Row /\ Paused(my[t].job) \in Row /\ Working(1) \in Row
  BY RowsAreRows, Typed DEF Place
<1>3. CASE StopNow(t)
  <2>1. CASE /\ lock = "nobody" /\ lock' = t /\ stopping' = "none"
             /\ WillMove(t, "move", my[t].job, stopped, "idle")
    <3> HIDE DEF stopped
    <3> QED BY <1>1, <1>2, <2>1, WritingKeeps, Typed
  <2>2. CASE /\ lock = "nobody" /\ lock' = t /\ stopping' = "none"
             /\ WillMove(t, "save", my[t].job, Paused(my[t].job), "idle")
    BY <1>1, <1>2, <2>2, WritingKeeps, Typed
  <2>3. CASE /\ lock = "nobody" /\ lock' = t /\ stopping' = stopping
             /\ WillMove(t, "save", row, Working(1), "enter")
    BY <1>1, <1>2, <2>3, WritingKeeps, Typed
  <2>4. CASE Goes(t, "enter") /\ UNCHANGED <<lock, stopping>>
    BY <1>1, <2>4, GoingKeeps, Typed DEF Points, Running
  <2> QED BY <1>3, <2>1, <2>2, <2>3, <2>4 DEF StopNow
<1>4. CASE StopLater(t)
  <2>1. PICK where \in {"idle", "flag"} : Goes(t, where) BY <1>4 DEF StopLater
  <2>2. UNCHANGED <<lock, stopping>> BY <1>4 DEF StopLater
  <2> QED BY <1>1, <2>1, <2>2, GoingKeeps, Typed DEF Points, Running
<1>5. CASE Flag(t)
  <2>1. stopping' \in {"none", "cancel", "pause", "redirect"} /\ UNCHANGED lock
    BY <1>5, Typed DEF Flag, Local
  <2>2. Goes(t, "idle") BY <1>5 DEF Flag
  <2> QED BY <1>1, <2>1, <2>2, GoingKeeps, Typed DEF Points, Running
<1> QED BY <1>3, <1>4, <1>5

-----------------------------------------------------------------------------
(***************************************************************************)
(* The run loop                                                            *)
(***************************************************************************)
\* The lock is taken with a fresh copy of the row.
LEMMA EnterKeeps ==
  ASSUME Inv, NEW t \in Threads, Enter(t) PROVE Inv'
<1> DEFINE m == [Blank EXCEPT !.job = row]
<1>1. m \in Local BY RowsAreRows, Typed DEF Local
<1>2. /\ lock = "nobody" /\ lock' = t /\ UNCHANGED <<row, stopping, requests>>
      /\ pc' = [pc EXCEPT ![t] = "loop"] /\ my' = [my EXCEPT ![t] = m]
  BY DEF Enter, GoesWith
<1>3. "loop" \in Points BY DEF Points
<1> HIDE DEF m
<1> QED BY <1>1, <1>2, <1>3, HoldingKeeps, Typed

\* A flag is carried out by the loop, which holds the lock and keeps it.
LEMMA ObeyKeeps ==
  ASSUME Inv, NEW t \in Threads, pc[t] \in Running, NEW r \in Row,
         NEW next \in {"idle", "end"}, Obey(t, r, next),
         UNCHANGED <<row, lock, requests>>
  PROVE  Inv'
<1>1. lock = t /\ lock' = t BY Typed DEF Owns
<1>2. stopping' \in {"none", "cancel", "pause", "redirect"} BY DEF Obey
<1> DEFINE stopped == [r EXCEPT !.at = "cancelled"]
<1>3. stopped \in Row /\ Paused(r) \in Row /\ Working(1) \in Row
  BY RowsAreRows DEF Place
<1>4. CASE WillMove(t, "move", r, stopped, next)
  <2> HIDE DEF stopped
  <2> QED BY <1>1, <1>2, <1>3, <1>4, WritingKeeps, Typed
<1>5. CASE WillMove(t, "save", r, Paused(r), next)
  BY <1>1, <1>2, <1>3, <1>5, WritingKeeps, Typed
<1>6. CASE WillMove(t, "save", r, Working(1), "loop")
  BY <1>1, <1>2, <1>3, <1>6, WritingKeeps, Typed
<1>7. CASE GoesWith(t, "loop", r)
  <2> DEFINE m == [Blank EXCEPT !.job = r]
  <2>1. m \in Local /\ "loop" \in Points BY RowsAreRows DEF Local, Points
  <2>2. pc' = [pc EXCEPT ![t] = "loop"] /\ my' = [my EXCEPT ![t] = m]
    BY <1>7 DEF GoesWith
  <2> HIDE DEF m
  <2> QED BY <1>1, <1>2, <2>1, <2>2, HoldingKeeps, Typed
<1>8. CASE Goes(t, "end")
  BY <1>1, <1>2, <1>8, GoingKeeps, Typed DEF Points, Running
<1> QED BY <1>4, <1>5, <1>6, <1>7, <1>8 DEF Obey

\* A step begins, its calls come and go, and it ends: always under the lock.
LEMMA StepsKeep ==
  ASSUME Inv, NEW t \in Threads,
         BeginStep(t) \/ BeginCall(t) \/ CallAgain(t) \/ EndStep(t)
  PROVE  Inv'
<1>1. /\ pc[t] \in {"loop", "call", "in flight"} /\ pc[t] \in Running
      /\ UNCHANGED <<row, lock, requests>>
  BY DEF BeginStep, BeginCall, CallAgain, EndStep, Running
<1>2. lock = t BY <1>1, Typed DEF Owns
<1>3. ASSUME NEW p \in {"call", "in flight"}, NEW n \in 0..MaxCalls,
             pc' = [pc EXCEPT ![t] = p], my' = [my EXCEPT ![t].left = n],
             UNCHANGED stopping
      PROVE  Inv'
  <2> DEFINE m == [my[t] EXCEPT !.left = n]
  <2>1. my[t] \in Local BY Typed
  <2>2. m \in Local BY <2>1 DEF Local
  <2>3. my' = [my EXCEPT ![t] = m] BY <1>3
  <2>4. p \in Points BY <1>3 DEF Points
  <2> HIDE DEF m
  <2> QED BY <1>1, <1>2, <1>3, <2>2, <2>3, <2>4, HoldingKeeps, Typed
<1>4. CASE BeginStep(t)
  <2>1. CASE Obey(t, my[t].job, "idle") BY <1>1, <2>1, ObeyKeeps, Typed
  <2>2. CASE /\ pc' = [pc EXCEPT ![t] = "call"] /\ UNCHANGED stopping
             /\ my' = [my EXCEPT ![t].left = MaxCalls]
    <3>1. MaxCalls \in 0..MaxCalls BY RunControlAssumption
    <3> QED BY <1>3, <2>2, <3>1
  <2> QED BY <1>4, <2>1, <2>2 DEF BeginStep
<1>5. CASE BeginCall(t)
  <2>1. CASE Obey(t, row, "idle") BY <1>1, <2>1, ObeyKeeps, Typed
  <2>2. CASE ~Obey(t, row, "idle")
    <3>1. my[t].left \in 0..MaxCalls /\ my[t].left > 0
      BY <1>5, <2>2, Typed DEF BeginCall, Local
    <3>2. my[t].left - 1 \in 0..MaxCalls BY <3>1, RunControlAssumption
    <3>3. /\ pc' = [pc EXCEPT ![t] = "in flight"] /\ UNCHANGED stopping
          /\ my' = [my EXCEPT ![t].left = my[t].left - 1]
      BY <1>5, <2>2 DEF BeginCall
    <3> QED BY <1>3, <3>2, <3>3
  <2> QED BY <2>1, <2>2
<1>6. CASE CallAgain(t)
  <2>1. Goes(t, "call") /\ UNCHANGED stopping BY <1>6 DEF CallAgain
  <2> QED BY <1>1, <1>2, <2>1, GoingKeeps, Typed DEF Points
<1>7. CASE EndStep(t)
  <2>1. CASE Goes(t, "crashed")
    BY <1>1, <1>2, <1>7, <2>1, GoingKeeps, Typed DEF EndStep, Points
  <2>2. ASSUME NEW d \in Outcomes(my[t].job.step),
               WillMove(t, "save", my[t].job, d, "after")
        PROVE  Inv'
    <3>1. d \in Row BY <2>2, RowsAreRows, Typed
    <3>2. UNCHANGED stopping BY <1>7 DEF EndStep
    <3> QED BY <1>1, <1>2, <2>2, <3>1, <3>2, WritingKeeps, Typed
  <2> QED BY <1>7, <2>1, <2>2 DEF EndStep
<1> QED BY <1>4, <1>5, <1>6, <1>7

\* The end of a step, of a failed one, and of the loop.
LEMMA EndsKeep ==
  ASSUME Inv, NEW t \in Threads,
         Fail(t) \/ StepEnded(t) \/ AskSupervisor(t) \/ Supervise(t) \/ LastLook(t)
           \/ Leave(t)
  PROVE  Inv'
<1>1. /\ pc[t] \in {"crashed", "after", "supervise", "asking", "loop", "end"}
      /\ pc[t] \in Running /\ UNCHANGED <<row, requests>>
  BY DEF Fail, StepEnded, AskSupervisor, Supervise, LastLook, Leave, Running
<1>2. lock = t BY <1>1, Typed DEF Owns
<1>3. CASE Fail(t)
  <2>1. RowAt("failed", my[t].job.step) \in Row BY RowsAreRows, Typed DEF Place
  <2> QED BY <1>1, <1>2, <1>3, <2>1, WritingKeeps, Typed DEF Fail
<1>4. CASE StepEnded(t)
  <2>1. PICK where \in {"supervise", "loop"} : Goes(t, where) BY <1>4 DEF StepEnded
  <2>2. UNCHANGED <<lock, stopping>> BY <1>4 DEF StepEnded
  <2> QED BY <1>1, <1>2, <2>1, <2>2, GoingKeeps, Typed DEF Points
<1>5. CASE Supervise(t)
  <2>1. UNCHANGED stopping BY <1>5 DEF Supervise
  <2>2. CASE Goes(t, "idle") /\ lock' = Released(t)
    BY <1>1, <2>1, <2>2, GoingKeeps, Typed DEF Points, Running
  <2>3. CASE Goes(t, "loop") /\ UNCHANGED lock
    BY <1>1, <1>2, <2>1, <2>3, GoingKeeps, Typed DEF Points
  <2>4. CASE /\ UNCHANGED lock
             /\ WillMove(t, "save", row, Working(NextStep(row.step)), "loop")
    BY <1>1, <1>2, <2>1, <2>4, WritingKeeps, Typed, RowsAreRows
  <2> QED BY <1>5, <2>2, <2>3, <2>4 DEF Supervise
<1>6. CASE LastLook(t)
  <2>1. UNCHANGED lock BY <1>6 DEF LastLook
  <2>2. CASE Obey(t, my[t].job, "end") BY <1>1, <2>1, <2>2, ObeyKeeps, Typed
  <2>3. CASE stopping' = "none" /\ Goes(t, "end")
    BY <1>1, <1>2, <2>1, <2>3, GoingKeeps, Typed DEF Points
  <2> QED BY <1>6, <2>2, <2>3 DEF LastLook
<1>7. CASE Leave(t)
  BY <1>1, <1>7, GoingKeeps, Typed DEF Leave, Points, Running
<1>8. CASE AskSupervisor(t)
  <2>1. UNCHANGED stopping BY <1>8 DEF AskSupervisor
  <2>2. CASE Goes(t, "idle") /\ lock' = Released(t)
    BY <1>1, <2>1, <2>2, GoingKeeps, Typed DEF Points, Running
  <2>3. CASE Goes(t, "asking") /\ UNCHANGED lock
    BY <1>1, <1>2, <2>1, <2>3, GoingKeeps, Typed DEF Points
  <2> QED BY <1>8, <2>2, <2>3 DEF AskSupervisor
<1> QED BY <1>3, <1>4, <1>5, <1>6, <1>7, <1>8

-----------------------------------------------------------------------------
(***************************************************************************)
(* The specification                                                       *)
(***************************************************************************)
\* Nobody runs a development that has only been asked for.
LEMMA InitKeeps == Init => Inv
<1> SUFFICES ASSUME Init PROVE Inv OBVIOUS
<1>1. TypeOK
  BY RowsAreRows, RunControlAssumption DEF Init, TypeOK, Local, Place, Points
<1>2. OwnersHoldTheLock BY DEF Init, OwnersHoldTheLock, Owns, Running
<1> QED BY <1>1, <1>2 DEF Inv

\* Every step of every thread keeps the invariant.
LEMMA NextKeeps == Inv /\ [Next]_vars => Inv'
<1> SUFFICES ASSUME Inv, [Next]_vars PROVE Inv' OBVIOUS
<1>1. CASE UNCHANGED vars
  BY <1>1 DEF vars, Inv, TypeOK, OwnersHoldTheLock, Owns
<1>2. ASSUME NEW t \in Threads, Ask(t) PROVE Inv' BY <1>2, RequestsKeep
<1>3. ASSUME NEW t \in Threads, Go(t) PROVE Inv'
  BY <1>3, SaveKeeps, MoveKeeps, StopsKeep, EnterKeeps, StepsKeep, EndsKeep DEF Go
<1> QED BY <1>1, <1>2, <1>3 DEF Next

\* The invariant holds for any number of threads, steps, calls and requests.
THEOREM InvHolds == Spec => []Inv
<1>1. Init => Inv BY InitKeeps
<1>2. Inv /\ [Next]_vars => Inv' BY NextKeeps
<1> QED BY <1>1, <1>2, PTL DEF Spec

\* A development never pays for two calls at once (_run's lock, engine.py).
THEOREM CallsExcludeEachOther == Spec => []OneCallAtATime
<1>1. Inv => OneCallAtATime
  BY DEF Inv, OwnersHoldTheLock, Owns, Running, Calling, OneCallAtATime
<1> QED BY <1>1, InvHolds, PTL

\* A stop and a pause land between calls, never under one.
THEOREM StopsLandBetweenCalls == Spec => NothingStopsUnderACall
<1>1. Inv /\ [Next]_vars =>
        [(\E t \in Threads : Calling(t)) =>
           (row' = row \/ row'.at \notin {"cancelled", "paused"})]_vars
  <2> SUFFICES ASSUME Inv, Next, NEW t \in Threads, Calling(t),
                      row' # row, row'.at \in {"cancelled", "paused"}
               PROVE  FALSE
    BY DEF vars
  <2>1. PICK u \in Threads : Ask(u) \/ Go(u) BY DEF Next
  <2>2. Move(u)
    BY <2>1 DEF Ask, Go, Start, Answer, Stop, CarryOn, Maintain, Save, StopNow,
                StopLater, Flag, Enter, BeginStep, BeginCall, CallAgain, EndStep,
                Fail, StepEnded, AskSupervisor, Supervise, LastLook, Leave
  <2>3. pc[u] = "move" /\ row' = my[u].target BY <2>2 DEF Move
  <2>4. Owns(u) /\ Owns(t) BY <2>3 DEF Owns, Running, Calling
  <2>5. lock = u /\ lock = t BY <2>4 DEF Inv, OwnersHoldTheLock
  <2> QED BY <2>3, <2>5 DEF Calling
<1> QED BY <1>1, InvHolds, PTL DEF Spec, NothingStopsUnderACall

-----------------------------------------------------------------------------
(***************************************************************************)
(* Work is never left without a thread that will do it: one that is about  *)
(* to enter the loop, or one in it whose copy is still the row.            *)
(***************************************************************************)
\* A thread that goes home after it has written leaves no work behind.
LeavesNoWork(t) ==
  pc[t] \in {"save", "move"} /\ my[t].after \in {"idle", "end"} =>
    my[t].target.at # "working"

AtWork == {"loop", "call", "in flight", "crashed", "after", "save", "move"}

WillDoIt(t) ==
  \/ pc[t] = "enter"
  \/ /\ pc[t] \in AtWork
     /\ my[t].job.at = "working" /\ SameState(row, my[t].job)

WorkIsTaken ==
  /\ \A t \in Threads : LeavesNoWork(t)
  /\ row.at = "working" => \E t \in Threads : WillDoIt(t)

\* A thread's steps are its own.
LEMMA OneThread ==
  ASSUME TypeOK, NEW t \in Threads, Ask(t) \/ Go(t), NEW u \in Threads, u # t
  PROVE  pc'[u] = pc[u] /\ my'[u] = my[u]
<1> USE DEF TypeOK, Goes, GoesWith, WillMove
<1>1. CASE Ask(t)
  BY <1>1 DEF Ask, Start, Answer, Stop, CarryOn, Maintain
<1>2. CASE Save(t) \/ Move(t) BY <1>2 DEF Save, Move, Raise
<1>3. CASE StopNow(t) \/ StopLater(t) \/ Flag(t)
  BY <1>3 DEF StopNow, StopLater, Flag
<1>4. CASE Enter(t) \/ CallAgain(t) BY <1>4 DEF Enter, CallAgain
<1>5. CASE BeginStep(t) \/ BeginCall(t) BY <1>5 DEF BeginStep, BeginCall, Obey
<1>6. CASE EndStep(t) \/ Fail(t) \/ StepEnded(t) BY <1>6 DEF EndStep, Fail, StepEnded
<1>7. CASE AskSupervisor(t) \/ Supervise(t) BY <1>7 DEF AskSupervisor, Supervise
<1>8. CASE LastLook(t) \/ Leave(t) BY <1>8 DEF LastLook, Leave, Obey
<1> QED BY <1>1, <1>2, <1>3, <1>4, <1>5, <1>6, <1>7, <1>8 DEF Go

\* What a thread that is about to write holds; stops and pauses are no work.
LEMMA WriterHolds ==
  ASSUME TypeOK, NEW t \in Threads, NEW where, NEW r, NEW d, NEW next,
         WillMove(t, where, r, d, next)
  PROVE  /\ pc'[t] = where /\ my'[t].job = r
         /\ my'[t].target = d /\ my'[t].after = next
BY DEF TypeOK, WillMove, Blank

LEMMA StopsAreNoWork ==
  \A r \in Row : Paused(r).at = "paused" /\ [r EXCEPT !.at = "cancelled"].at = "cancelled"
BY DEF Row, Paused

\* Whoever is about to go home is about to write a stop, a pause or a failure.
LEMMA HomeWithoutWork ==
  ASSUME TypeOK, NEW t \in Threads, Ask(t) \/ Go(t), LeavesNoWork(t)
  PROVE  LeavesNoWork(t)'
<1> USE DEF LeavesNoWork, RowAt
<1>0. row \in Row /\ my[t].job \in Row BY DEF TypeOK
<1>1. CASE Ask(t)
  <2>1. CASE Start(t)
    <3>1. my'[t].after = "enter" BY <2>1, WriterHolds DEF Start
    <3> QED BY <3>1
  <2>2. CASE Answer(t)
    <3>1. PICK step \in {row.step, NextStep(row.step)} :
             WillMove(t, "save", row, Working(step), "enter")
      BY <2>2 DEF Answer
    <3>2. my'[t].after = "enter" BY <3>1, WriterHolds
    <3> QED BY <3>2
  <2>3. CASE Stop(t)
    <3>1. pc'[t] = "try lock" BY <2>3 DEF Stop, TypeOK
    <3> QED BY <3>1
  <2>4. CASE CarryOn(t)
    <3>1. my'[t].after = "enter" BY <2>4, WriterHolds DEF CarryOn
    <3> QED BY <3>1
  <2>5. CASE Maintain(t)
    <3>1. pc'[t] = "end" BY <2>5 DEF Maintain, Goes, GoesWith, TypeOK
    <3> QED BY <3>1
  <2> QED BY <1>1, <2>1, <2>2, <2>3, <2>4, <2>5 DEF Ask
<1>2. CASE Save(t) BY <1>2 DEF Save, Raise, TypeOK, Goes, GoesWith
<1>3. CASE Move(t) BY <1>3 DEF Move, Raise, TypeOK, Goes, GoesWith
<1>4. ASSUME NEW r \in Row, NEW next, Obey(t, r, next) PROVE LeavesNoWork(t)'
  <2>1. CASE WillMove(t, "move", r, [r EXCEPT !.at = "cancelled"], next)
    <3>1. my'[t].target = [r EXCEPT !.at = "cancelled"] BY <2>1, WriterHolds
    <3> QED BY <3>1, StopsAreNoWork
  <2>2. CASE WillMove(t, "save", r, Paused(r), next)
    <3>1. my'[t].target = Paused(r) BY <2>2, WriterHolds
    <3> QED BY <3>1, StopsAreNoWork
  <2>3. CASE WillMove(t, "save", r, Working(1), "loop") BY <2>3, WriterHolds
  <2>4. CASE GoesWith(t, "loop", r) \/ Goes(t, "end")
    BY <2>4 DEF TypeOK, Goes, GoesWith
  <2> QED BY <1>4, <2>1, <2>2, <2>3, <2>4 DEF Obey
<1>5. CASE StopNow(t)
  <2>1. CASE Goes(t, "enter") BY <2>1 DEF TypeOK, Goes, GoesWith
  <2>2. CASE WillMove(t, "save", row, Working(1), "enter") BY <2>2, WriterHolds
  <2>3. CASE WillMove(t, "move", my[t].job, [my[t].job EXCEPT !.at = "cancelled"], "idle")
    <3>1. my'[t].target = [my[t].job EXCEPT !.at = "cancelled"] BY <2>3, WriterHolds
    <3> QED BY <1>0, <3>1, StopsAreNoWork
  <2>4. CASE WillMove(t, "save", my[t].job, Paused(my[t].job), "idle")
    <3>1. my'[t].target = Paused(my[t].job) BY <2>4, WriterHolds
    <3> QED BY <1>0, <3>1, StopsAreNoWork
  <2> QED BY <1>5, <2>1, <2>2, <2>3, <2>4 DEF StopNow
<1>6. CASE StopLater(t) \/ Flag(t) \/ Enter(t) \/ CallAgain(t)
  BY <1>6 DEF StopLater, Flag, Enter, CallAgain, TypeOK, Goes, GoesWith
<1>7. CASE BeginStep(t) \/ BeginCall(t)
  BY <1>0, <1>4, <1>7 DEF BeginStep, BeginCall, TypeOK
<1>8. CASE EndStep(t)
  <2>1. CASE Goes(t, "crashed") BY <2>1 DEF TypeOK, Goes
  <2> QED BY <1>8, <2>1, WriterHolds DEF EndStep
<1>9. CASE Fail(t) BY <1>9, WriterHolds DEF Fail
<1>10. CASE StepEnded(t) \/ Leave(t)
  BY <1>10 DEF StepEnded, Leave, TypeOK, Goes, GoesWith
<1>11. CASE AskSupervisor(t) \/ Supervise(t)
  <2>1. CASE Goes(t, "idle") \/ Goes(t, "loop") \/ Goes(t, "asking")
    BY <2>1 DEF TypeOK, Goes, GoesWith
  <2> QED BY <1>11, <2>1, WriterHolds DEF AskSupervisor, Supervise
<1>12. CASE LastLook(t)
  <2>1. CASE Goes(t, "end") BY <2>1 DEF TypeOK, Goes, GoesWith
  <2> QED BY <1>0, <1>4, <1>12, <2>1 DEF LastLook
<1> QED BY <1>1, <1>2, <1>3, <1>5, <1>6, <1>7, <1>8, <1>9, <1>10, <1>11, <1>12 DEF Go

\* Whoever writes that there is work will do it.
LEMMA WriterWillDoIt ==
  ASSUME TypeOK, NEW t \in Threads, Move(t), LeavesNoWork(t),
         Legal(my[t].job, my[t].target), row'.at = "working"
  PROVE  WillDoIt(t)'
<1>1. pc[t] = "move" /\ row' = my[t].target /\ my[t].target.at = "working"
  BY DEF Move
<1>2. my[t].after \in {"enter", "loop", "after"} BY <1>1 DEF LeavesNoWork, TypeOK
<1>3. CASE my[t].after = "enter"
  BY <1>3 DEF Move, Goes, GoesWith, TypeOK, WillDoIt
<1>4. CASE my[t].after \in {"loop", "after"}
  <2>1. pc'[t] = my[t].after /\ my'[t].job = row'
    BY <1>1, <1>4 DEF Move, GoesWith, TypeOK, Blank
  <2> QED BY <1>1, <1>4, <2>1 DEF WillDoIt, AtWork, SameState
<1> QED BY <1>2, <1>3, <1>4

\* Every other step of whoever will do it leaves it the one who will.
LEMMA GoesOnWithIt ==
  ASSUME TypeOK, NEW t \in Threads, Ask(t) \/ Go(t), row' = row,
         row.at = "working", WillDoIt(t),
         ~(Move(t) /\ Legal(my[t].job, my[t].target))
  PROVE  WillDoIt(t)'
<1> USE DEF WillDoIt, AtWork, SameState
<1>1. ~Ask(t) BY DEF Ask, Request, Start, Answer, Stop, CarryOn, Maintain
<1>2. ~Move(t)
  <2>1. pc[t] = "move" => Legal(my[t].job, my[t].target) BY DEF Legal, Ended
  <2> QED BY <2>1 DEF Move
<1>3. CASE Save(t) BY <1>3 DEF Save, TypeOK, Goes
<1>4. ~(StopNow(t) \/ StopLater(t) \/ Flag(t)) BY DEF StopNow, StopLater, Flag
<1>5. CASE Enter(t) BY <1>5 DEF Enter, GoesWith, TypeOK, Blank
<1>6. ASSUME NEW r \in Row, Obey(t, r, "idle"), r.at = "working", SameState(row, r)
      PROVE  WillDoIt(t)'
  <2>1. CASE \E where \in {"save", "move"}, d \in Row, next \in {"idle", "loop"} :
               WillMove(t, where, r, d, next)
    <3>1. PICK where \in {"save", "move"}, d \in Row, next \in {"idle", "loop"} :
             WillMove(t, where, r, d, next)
      BY <2>1
    <3>2. pc'[t] = where /\ my'[t].job = r BY <3>1, WriterHolds
    <3> QED BY <1>6, <3>2
  <2>2. CASE GoesWith(t, "loop", r)
    <3>1. pc'[t] = "loop" /\ my'[t].job = r BY <2>2 DEF GoesWith, TypeOK, Blank
    <3> QED BY <1>6, <3>1
  <2>3. Working(1) \in Row /\ Paused(r) \in Row /\ [r EXCEPT !.at = "cancelled"] \in Row
    BY RowsAreRows DEF Place
  <2> QED BY <1>6, <2>1, <2>2, <2>3 DEF Obey
<1>8. CASE CallAgain(t) BY <1>8 DEF CallAgain, TypeOK, Goes
<1>7. CASE BeginStep(t) \/ BeginCall(t)
  <2>1. CASE stopping # "none"
    <3>1. Obey(t, my[t].job, "idle") \/ Obey(t, row, "idle")
      BY <1>7, <2>1 DEF BeginStep, BeginCall
    <3>2. my[t].job \in Row /\ row \in Row BY DEF TypeOK
    <3>3. my[t].job.at = "working" /\ SameState(row, my[t].job)
      BY <1>7 DEF BeginStep, BeginCall
    <3> QED BY <1>6, <3>1, <3>2, <3>3
  <2>2. CASE stopping = "none"
    <3>1. pc'[t] \in {"call", "in flight"}
      BY <1>7, <2>2 DEF BeginStep, BeginCall, TypeOK
    <3>2. PICK n : my' = [my EXCEPT ![t].left = n]
      BY <1>7, <2>2 DEF BeginStep, BeginCall
    <3>3. my'[t].job = my[t].job BY <3>2 DEF TypeOK
    <3> QED BY <1>7, <3>1, <3>3 DEF BeginStep, BeginCall
  <2> QED BY <2>1, <2>2
<1>9. CASE EndStep(t)
  <2>1. CASE Goes(t, "crashed") BY <1>9, <2>1 DEF EndStep, TypeOK, Goes
  <2>2. CASE \E d \in Outcomes(my[t].job.step) :
               WillMove(t, "save", my[t].job, d, "after")
    <3>1. PICK d \in Outcomes(my[t].job.step) :
             WillMove(t, "save", my[t].job, d, "after")
      BY <2>2
    <3>2. pc'[t] = "save" /\ my'[t].job = my[t].job
      BY <3>1 DEF WillMove, TypeOK, Blank
    <3> QED BY <1>9, <3>2 DEF EndStep
  <2> QED BY <1>9, <2>1, <2>2 DEF EndStep
<1>10. CASE Fail(t) 
  <2>1. pc'[t] = "move" /\ my'[t].job = my[t].job BY <1>10, WriterHolds DEF Fail
  <2> QED BY <1>10, <2>1 DEF Fail
<1>11. CASE StepEnded(t) BY <1>11 DEF StepEnded, TypeOK, Goes
<1>12. ~(AskSupervisor(t) \/ Supervise(t) \/ LastLook(t) \/ Leave(t))
  BY DEF AskSupervisor, Supervise, LastLook, Leave
<1> QED BY <1>1, <1>2, <1>3, <1>4, <1>5, <1>6, <1>7, <1>8, <1>9, <1>10, <1>11, <1>12
        DEF Go

LEMMA WorkStaysTaken ==
  ASSUME Inv, WorkIsTaken, [Next]_vars
  PROVE  WorkIsTaken'
<1>1. TypeOK BY DEF Inv
<1>2. CASE UNCHANGED vars
  BY <1>2 DEF vars, WorkIsTaken, LeavesNoWork, WillDoIt, SameState
<1>3. ASSUME NEW t \in Threads, Ask(t) \/ Go(t) PROVE WorkIsTaken'
  <2>1. ASSUME NEW u \in Threads PROVE LeavesNoWork(u)'
    <3>1. CASE u = t BY <1>1, <1>3, <3>1, HomeWithoutWork DEF WorkIsTaken
    <3>2. CASE u # t BY <1>1, <1>3, <3>2, OneThread DEF WorkIsTaken, LeavesNoWork
    <3> QED BY <3>1, <3>2
  <2>2. ASSUME row'.at = "working" PROVE \E u \in Threads : WillDoIt(u)'
    <3>1. CASE Move(t) /\ Legal(my[t].job, my[t].target)
      BY <1>1, <2>2, <3>1, WriterWillDoIt DEF WorkIsTaken
    <3>2. CASE ~(Move(t) /\ Legal(my[t].job, my[t].target))
      <4>1. row' = row
        BY <1>3, <3>2 DEF Ask, Go, Start, Answer, Stop, CarryOn, Maintain, Save, Move,
             StopNow, StopLater, Flag, Enter, BeginStep, BeginCall, CallAgain,
             EndStep, Fail, StepEnded, AskSupervisor, Supervise, LastLook, Leave
      <4>2. PICK u \in Threads : WillDoIt(u) BY <2>2, <4>1 DEF WorkIsTaken
      <4>3. CASE u = t BY <1>1, <1>3, <2>2, <3>2, <4>1, <4>2, <4>3, GoesOnWithIt
      <4>4. CASE u # t
        BY <1>1, <1>3, <4>1, <4>2, <4>4, OneThread DEF WillDoIt, SameState
      <4> QED BY <4>3, <4>4
    <3> QED BY <3>1, <3>2
  <2> QED BY <2>1, <2>2 DEF WorkIsTaken
<1> QED BY <1>2, <1>3 DEF Next

\* However stops, answers and the loop's end fall, a development in a working
\* state has a thread that will run it (_run, redirect, resume, engine.py).
THEOREM NoWorkIsStranded == Spec => []NoStrandedWork
<1>1. Init => WorkIsTaken
  BY DEF Init, WorkIsTaken, LeavesNoWork, RowAt
<1>2. Inv /\ WorkIsTaken /\ [Next]_vars => WorkIsTaken' BY WorkStaysTaken
<1>3. WorkIsTaken => NoStrandedWork
  BY DEF WorkIsTaken, WillDoIt, AtWork, NoStrandedWork
<1> QED BY <1>1, <1>2, <1>3, InvHolds, PTL DEF Spec

(***************************************************************************)
(* PhaseOrder                                                              *)
(***************************************************************************)
Phases == [id : Nat \X Nat, needs : SUBSET Nat, tells : BOOLEAN, platform : BOOLEAN,
           wants : SUBSET (Nat \X Nat)]

\* S has phase n and, with a phase, whatever needs it.
Closed(p, n, S) ==
  \A m \in n..Len(p) :
    m = n \/ ~p[m].tells \/ (\E d \in p[m].needs : d \in n..(m - 1) /\ d \in S) => m \in S

\* The phases in back stand behind the others; each group keeps its own order.
Before(back, m, n) == IF (m \in back) = (n \in back) THEN m < n ELSE n \in back

\* The numbers given are numbers of phases, each given once, in the order Before says.
Orders(place, back, L) ==
  /\ place \in [1..L -> 1..L]
  /\ \A m, n \in 1..L : place[m] < place[n] <=> Before(back, m, n)
  /\ \A m, n \in 1..L : place[m] = place[n] => m = n
  /\ \A i \in 1..L : Standing(place, i) \in 1..L /\ place[Standing(place, i)] = i
  /\ \A n \in 1..L : Standing(place, place[n]) = n


\* r is p with each phase at its new number, and the numbers it needs moved too.
Moved(p, r, place) ==
  /\ r \in Seq(Phases) /\ Len(r) = Len(p)
  /\ \A n \in 1..Len(p) :
       /\ r[place[n]].id = p[n].id /\ r[place[n]].wants = p[n].wants
       /\ r[place[n]].tells = p[n].tells /\ r[place[n]].platform = p[n].platform
       /\ r[place[n]].needs = {place[d] : d \in p[n].needs}

\* Phase n need not wait for phase d: d needs a machine, which n does not.
Excused(p, n, d) == p[d].platform /\ ~p[n].platform

\* Each phase behind the first k stands behind those it was planned to need.
Backward(p, k) ==
  \A n \in DOMAIN p : n > k => /\ p[n].needs \subseteq DOMAIN p
                               /\ {p[m].id : m \in p[n].needs} = p[n].wants
                               /\ \A d \in p[n].needs : d < n \/ Excused(p, n, d)

\* Whatever needs a phase that goes back goes back too.
Follows(p, back, k) ==
  \A n \in DOMAIN p : n > k => \A d \in p[n].needs : d \in back => n \in back \/ Excused(p, n, d)

\* A plan whose first k phases are built: each phase has a name of its own, given when
\* the plan was made for the made-th time at the latest.
Whole(p, k, made) ==
  /\ p \in Seq(Phases) /\ k \in 0..Len(p)
  /\ \A n \in DOMAIN p : p[n].id[1] <= made
  /\ \A m, n \in DOMAIN p : p[m].id = p[n].id => m = n

\* Every phase has a name of its own, given before.
Named(p, made) ==
  /\ \A m, n \in DOMAIN p : p[m].id = p[n].id => m = n
  /\ \A n \in DOMAIN p : p[n].id[1] < made

\* r is such a plan with those in back put last, and what is built left where it is.
PutBehind(p, back, r, k, made) ==
  /\ Orders(Places(p, back), back, Len(p)) /\ Moved(p, r, Places(p, back))
  /\ Whole(r, k, made) /\ Backward(r, k) /\ Len(r) = Len(p)
  /\ \A n \in 1..k : Places(p, back)[n] = n /\ r[n].id = p[n].id

\* Of the phases in S, set aside: each was ripe, nothing it says it needs was left to be
\* built; those that do not say stand last; and what comes after one of them needs it, or
\* needs another that stands no earlier.
Covered(p, S, k) ==
  /\ \A n \in S : p[n].tells => p[n].needs \subseteq 1..k
  /\ \A n, q \in S : ~p[n].tells /\ q > n => ~p[q].tells
  /\ \A n \in S : \A m \in n..Len(p) : \E q \in S : q >= n /\ m \in NeedsIt(p, q)

\* No phase needs a machine.
Plain(p) == \A n \in DOMAIN p : ~p[n].platform

\* What is kept of a phase is its own: what was written ahead, what was set aside.
AheadOwn  == \A n \in DOMAIN ahead : n \in Later(plan) /\ ahead[n] = plan[n].id
ParkedOwn == \A n \in DOMAIN parked : /\ n \in Later(plan) /\ parked[n].of = plan[n].id
                                       /\ parked[n].draft \subseteq {plan[n].id}
DraftOwn  == /\ at = "built" => draft = {}
             /\ at # "built" => draft \subseteq {Current}
             /\ at = "gate" => draft = {Current}

\* The phase it is on is not set aside, unless its turn is just coming; and it is written
\* ahead only at its first attempt, or while a person is asked before it.
OnTurn    == /\ at # "builder"
             /\ at # "developing" => Number \notin DOMAIN parked
             /\ Number \in DOMAIN ahead => \/ at = "developing" /\ attempts = 0
                                           \/ at = "decision" /\ asked = "budget"

\* OwnWork, with what keeps it.
Owned == Straight => AheadOwn /\ ParkedOwn /\ DraftOwn /\ OnTurn

\* AskedLast, with what keeps it.
Asks == AskedLast /\ (Straight => Covered(plan, DOMAIN parked, index))

\* The numbers of those in S and of phase k + 1, once what needs that one is put last.
Joined(p, S, k) == {Places(p, NeedsIt(p, k + 1))[m] : m \in S \cup {k + 1}}

\* The plan at every moment: while it is made again, every name in it is an old one.
Ordered ==
  /\ Whole(plan, index, replans) /\ replans \in Nat
  /\ at # "architecture" => Backward(plan, index)
  /\ at = "architecture" => /\ replans > 0
                            /\ \A n \in DOMAIN plan : plan[n].id[1] < replans
  /\ at # "built" => index < Len(plan)
  /\ resume \in {"developing", "gate"}
  /\ done \in Seq(Nat \X Nat) /\ Len(done) = index
  /\ \A n \in 1..index : done[n] = plan[n].id

-----------------------------------------------------------------------------
\* Of the first n phases, how many are in back and how many are not.
LEMMA Counts ==
  ASSUME NEW back, NEW L \in Nat, NEW n \in 1..L, back \subseteq 1..L
  PROVE  /\ IsFiniteSet((1..n) \cap back) /\ IsFiniteSet((1..n) \ back)
         /\ Cardinality((1..n) \cap back) \in Nat /\ Cardinality((1..n) \ back) \in Nat
         /\ Cardinality((1..n) \cap back) + Cardinality((1..n) \ back) = n
         /\ n \in back => Cardinality((1..n) \cap back) > 0
         /\ n \notin back => Cardinality((1..n) \ back) > 0
<1>1. IsFiniteSet(1..n) /\ Cardinality(1..n) = n
  BY FS_Interval
<1>2. IsFiniteSet((1..n) \cap back) /\ IsFiniteSet((1..n) \ back)
  BY <1>1, FS_Intersection, FS_Difference
<1>3. Cardinality((1..n) \cap back) \in Nat /\ Cardinality((1..n) \ back) \in Nat
  BY <1>2, FS_CardinalityType
<1>4. Cardinality((1..n) \ back) = n - Cardinality((1..n) \cap back)
  BY <1>1, FS_Difference
<1>5. n \in back => Cardinality((1..n) \cap back) > 0
  <2>1. n \in back => (1..n) \cap back # {}
    OBVIOUS
  <2> QED BY <2>1, <1>2, <1>3, FS_EmptySet
<1>6. n \notin back => Cardinality((1..n) \ back) > 0
  <2>1. n \notin back => (1..n) \ back # {}
    OBVIOUS
  <2> QED BY <2>1, <1>2, <1>3, FS_EmptySet
<1> QED BY <1>2, <1>3, <1>4, <1>5, <1>6

\* Both counts grow with n, each at the phases it counts.
LEMMA CountsGrow ==
  ASSUME NEW back, NEW L \in Nat, back \subseteq 1..L,
         NEW m \in 1..L, NEW n \in 1..L, m < n
  PROVE  /\ Cardinality((1..m) \cap back) <= Cardinality((1..n) \cap back)
         /\ Cardinality((1..m) \ back) <= Cardinality((1..n) \ back)
         /\ n \in back => Cardinality((1..m) \cap back) < Cardinality((1..n) \cap back)
         /\ n \notin back => Cardinality((1..m) \ back) < Cardinality((1..n) \ back)
<1> DEFINE mHeld == (1..m) \cap back  nHeld == (1..n) \cap back
           mFree == (1..m) \ back    nFree == (1..n) \ back
<1>1. /\ mHeld \in SUBSET nHeld /\ (n \in back => mHeld # nHeld)
      /\ mFree \in SUBSET nFree /\ (n \notin back => mFree # nFree)
  OBVIOUS
<1>2. /\ IsFiniteSet(nHeld) /\ IsFiniteSet(nFree)
      /\ Cardinality(mHeld) \in Nat /\ Cardinality(nHeld) \in Nat
      /\ Cardinality(mFree) \in Nat /\ Cardinality(nFree) \in Nat
  BY Counts
<1> HIDE DEF mHeld, nHeld, mFree, nFree
<1>3. /\ Cardinality(mHeld) <= Cardinality(nHeld)
      /\ Cardinality(mFree) <= Cardinality(nFree)
      /\ Cardinality(mHeld) = Cardinality(nHeld) => mHeld = nHeld
      /\ Cardinality(mFree) = Cardinality(nFree) => mFree = nFree
  BY <1>1, <1>2, FS_Subset
<1>4. /\ Cardinality(mHeld) <= Cardinality(nHeld)
      /\ Cardinality(mFree) <= Cardinality(nFree)
      /\ n \in back => Cardinality(mHeld) < Cardinality(nHeld)
      /\ n \notin back => Cardinality(mFree) < Cardinality(nFree)
  BY <1>1, <1>2, <1>3
<1> QED BY <1>4 DEF mHeld, nHeld, mFree, nFree

\* The numbers the phases get put them in that order.
LEMMA PlacesOrder ==
  ASSUME NEW p, NEW L \in Nat, DOMAIN p = 1..L, NEW back, back \subseteq 1..L,
         NEW place, place = Places(p, back)
  PROVE  Orders(place, back, L)
<1> DEFINE held == [n \in 1..L |-> Cardinality((1..n) \cap back)]
           free == [n \in 1..L |-> Cardinality((1..n) \ back)]
           all  == Cardinality((1..L) \ back)
<1>a. place = [n \in 1..L |-> IF n \in back THEN all + held[n] ELSE free[n]]
  BY DEF Places
<1>b. /\ held \in [1..L -> Nat] /\ free \in [1..L -> Nat]
      /\ \A n \in 1..L : /\ held[n] + free[n] = n
                         /\ n \in back => held[n] > 0
                         /\ n \notin back => free[n] > 0
  BY Counts
<1>c. \A m, n \in 1..L : m < n => /\ held[m] <= held[n] /\ free[m] <= free[n]
                                  /\ n \in back => held[m] < held[n]
                                  /\ n \notin back => free[m] < free[n]
  BY CountsGrow
<1>d. L > 0 => all = free[L]
  OBVIOUS
<1> HIDE DEF held, free, all
<1>e. ASSUME NEW n \in 1..L PROVE all \in Nat /\ free[n] <= all /\ all + held[n] <= L
  <2>1. L \in 1..L /\ all = free[L] /\ (n = L \/ n < L)
    BY <1>d
  <2>2. free[n] <= free[L] /\ held[n] <= held[L]
    BY <2>1, <1>b, <1>c
  <2>3. held[L] + free[L] = L /\ held[L] \in Nat /\ free[L] \in Nat /\ held[n] \in Nat /\ free[n] \in Nat
    BY <2>1, <1>b
  <2> QED BY <2>1, <2>2, <2>3
<1>f. ASSUME NEW n \in 1..L
      PROVE  /\ n \in back => place[n] = all + held[n]
             /\ n \notin back => place[n] = free[n]
             /\ held[n] \in Nat /\ free[n] \in Nat /\ all \in Nat
  BY <1>a, <1>b, <1>e
<1>2. place \in [1..L -> 1..L]
  <2>1. ASSUME NEW n \in 1..L PROVE place[n] \in 1..L
    <3>1. n \in back => all + held[n] > 0 /\ all + held[n] <= L /\ place[n] = all + held[n]
      BY <1>b, <1>e, <1>f
    <3>2. n \notin back => free[n] > 0 /\ free[n] <= n /\ place[n] = free[n]
      BY <1>b, <1>f
    <3> QED BY <3>1, <3>2, <1>f
  <2> QED BY <2>1, <1>a
<1>3. ASSUME NEW m \in 1..L, NEW n \in 1..L, Before(back, m, n)
      PROVE  place[m] < place[n]
  <2>1. CASE m \in back /\ n \in back
    BY <1>3, <2>1, <1>f, <1>c DEF Before
  <2>2. CASE m \notin back /\ n \notin back
    BY <1>3, <2>2, <1>f, <1>c DEF Before
  <2>3. CASE m \notin back /\ n \in back
    <3>1. free[m] <= all /\ held[n] > 0
      BY <2>3, <1>b, <1>e
    <3>2. place[m] = free[m] /\ place[n] = all + held[n]
      BY <2>3, <1>f
    <3> QED BY <3>1, <3>2, <1>f
  <2> QED BY <2>1, <2>2, <2>3, <1>3 DEF Before
<1>4. \A m, n \in 1..L : place[m] < place[n] <=> Before(back, m, n)
  <2>1. ASSUME NEW m \in 1..L, NEW n \in 1..L PROVE m = n \/ Before(back, m, n) \/ Before(back, n, m)
    BY DEF Before
  <2>2. \A m, n \in 1..L : m = n => ~(place[m] < place[n]) /\ ~Before(back, m, n)
    BY <1>2 DEF Before
  <2>3. \A m, n \in 1..L : Before(back, m, n) => place[m] < place[n]
    BY <1>3
  <2>4. \A m, n \in 1..L : place[m] \in Int /\ place[n] \in Int
    BY <1>2
  <2> QED BY <2>1, <2>2, <2>3, <2>4
<1>5. \A m, n \in 1..L : place[m] = place[n] => m = n
  <2>1. \A m, n \in 1..L : m # n => Before(back, m, n) \/ Before(back, n, m)
    BY DEF Before
  <2>2. \A m, n \in 1..L : place[m] \in Int /\ place[n] \in Int
    BY <1>2
  <2> QED BY <2>1, <2>2, <1>4
<1>6. \A i \in 1..L : \E n \in 1..L : place[n] = i
  <2>1. place \in Injection(1..L, 1..L)
    BY <1>2, <1>5 DEF Injection, IsInjective
  <2>2. IsFiniteSet(1..L)
    BY FS_Interval
  <2>3. place \in Surjection(1..L, 1..L)
    BY <2>1, <2>2, FS_Injection
  <2> QED BY <2>3 DEF Surjection
<1>7. DOMAIN place = 1..L
  BY <1>2
<1>8. \A i \in 1..L : Standing(place, i) \in 1..L /\ place[Standing(place, i)] = i
  BY <1>6, <1>7 DEF Standing
<1>9. \A n \in 1..L : Standing(place, place[n]) = n
  BY <1>2, <1>5, <1>8
<1> QED BY <1>2, <1>4, <1>5, <1>8, <1>9 DEF Orders

\* What stands before all that moves stays where it is.
LEMMA PlacesKeep ==
  ASSUME NEW p, NEW L \in Nat, DOMAIN p = 1..L, NEW back, NEW k \in Nat, back \subseteq (k + 1)..L,
         NEW place, place = Places(p, back)
  PROVE  /\ \A n \in 1..L : n <= k => place[n] = n
         /\ \A n \in 1..L : n > k => place[n] > k
<1>1. ASSUME NEW n \in 1..L, n <= k PROVE place[n] = n
  <2>1. (1..n) \ back = 1..n /\ n \notin back
    BY <1>1
  <2>2. place[n] = Cardinality((1..n) \ back)
    BY <2>1 DEF Places
  <2>3. Cardinality(1..n) = n
    BY FS_Interval
  <2> QED BY <2>1, <2>2, <2>3
<1>2. ASSUME NEW n \in 1..L, n > k PROVE place[n] > k
  <2>1. back \subseteq 1..L
    OBVIOUS
  <2>2. Orders(place, back, L)
    BY <2>1, PlacesOrder
  <2> QED BY <2>2, <1>1, <1>2 DEF Orders
<1> QED BY <1>1, <1>2
\* The function NeedsIt is defined by exists: the least closed set is one.
LEMMA NeedsItIs ==
  ASSUME NEW p, Len(p) \in Nat, NEW n \in Nat
  PROVE  /\ NeedsIt(p, n) \subseteq n..Len(p)
         /\ \A m \in n..Len(p) :
              m \in NeedsIt(p, n) <=>
                \/ m = n \/ ~p[m].tells
                \/ \E d \in p[m].needs : d \in n..(m - 1) /\ d \in NeedsIt(p, n)
<1> DEFINE from    == n..Len(p)
           Body(g) == [m \in from |->
                        m = n \/ ~p[m].tells \/ \E d \in p[m].needs : d \in n..(m - 1) /\ g[d]]
           needs   == CHOOSE g : g = Body(g)
           least   == {m \in from : \A S \in SUBSET from : Closed(p, n, S) => m \in S}
           f       == [m \in from |-> m \in least]
<1>1. NeedsIt(p, n) = {m \in from : needs[m]}
  BY DEF NeedsIt
<1>2. ASSUME NEW m \in from, \/ m = n \/ ~p[m].tells
                             \/ \E d \in p[m].needs : d \in n..(m - 1) /\ d \in least
      PROVE  m \in least
  <2>1. SUFFICES ASSUME NEW S \in SUBSET from, Closed(p, n, S) PROVE m \in S
    OBVIOUS
  <2>2. least \subseteq S
    BY <2>1
  <2> QED BY <1>2, <2>1, <2>2 DEF Closed
<1>3. ASSUME NEW m \in least
      PROVE  \/ m = n \/ ~p[m].tells
             \/ \E d \in p[m].needs : d \in n..(m - 1) /\ d \in least
  <2> DEFINE S == {l \in from : \/ l = n \/ ~p[l].tells
                                \/ \E d \in p[l].needs : d \in n..(l - 1) /\ d \in least}
  <2>1. S \subseteq least
    BY <1>2
  <2>2. Closed(p, n, S)
    BY <2>1 DEF Closed
  <2>3. m \in S
    BY <2>2
  <2> QED BY <2>3
<1> HIDE DEF least
<1>4. f = Body(f)
  <2>1. ASSUME NEW m \in from
        PROVE  f[m] = (m = n \/ ~p[m].tells \/ \E d \in p[m].needs : d \in n..(m - 1) /\ f[d])
    <3>1. f[m] = (m \in least) /\ \A d \in n..(m - 1) : f[d] = (d \in least)
      OBVIOUS
    <3> HIDE DEF f
    <3>2. (m \in least) = (m = n \/ ~p[m].tells \/ \E d \in p[m].needs : d \in n..(m - 1) /\ d \in least)
      BY <1>2, <1>3
    <3> QED BY <3>1, <3>2, Zenon
  <2> QED BY <2>1, Zenon
<1>5. needs = Body(needs)
  BY <1>4
<1>6. \A m \in from : needs[m] <=> \/ m = n \/ ~p[m].tells
                                    \/ \E d \in p[m].needs : d \in n..(m - 1) /\ needs[d]
  BY <1>5
<1>7. \A m \in from : \A d \in n..(m - 1) : d \in from
  OBVIOUS
<1> HIDE DEF needs
<1> QED BY <1>1, <1>6, <1>7

\* What is in every closed set: all that needs phase n is.
LEMMA NeedsItLeast ==
  ASSUME NEW p, Len(p) \in Nat, NEW n \in Nat, NEW S, Closed(p, n, S)
  PROVE  NeedsIt(p, n) \subseteq S
<1> DEFINE outside == NeedsIt(p, n) \ S
<1>1. SUFFICES ASSUME outside # {} PROVE FALSE
  OBVIOUS
<1>2. outside \subseteq n..Len(p) /\ outside \subseteq Nat
  BY NeedsItIs
<1>3. PICK m \in outside : \A d \in outside : ~(d < m)
  <2>1. PICK m \in outside : \A d \in outside : ~(<<d, m>> \in OpToRel(<, Nat))
    BY <1>1, <1>2, NatLessThanWellFounded, WFMin
  <2> QED BY <2>1, <1>2 DEF OpToRel
<1>4. m \in NeedsIt(p, n) /\ m \in n..Len(p) /\ m \notin S
  BY <1>2
<1>5. \A d \in n..(m - 1) : d \in NeedsIt(p, n) => d \in S
  BY <1>3, <1>4
<1> QED BY <1>4, <1>5, NeedsItIs DEF Closed

\* Reorder gives each phase its new number, and the numbers it needs theirs.
LEMMA Reordered ==
  ASSUME NEW p \in Seq(Phases), Numbered(p), NEW back, back \subseteq 1..Len(p),
         NEW place, place = Places(p, back)
  PROVE  /\ Orders(place, back, Len(p))
         /\ Moved(p, Reorder(p, place), place)
<1> DEFINE L == Len(p)
           r == Reorder(p, place)
<1>1. L \in Nat /\ DOMAIN p = 1..L
  OBVIOUS
<1>2. Orders(place, back, L)
  BY <1>1, PlacesOrder
<1>3. \A i \in 1..L : Standing(place, i) \in 1..L
  BY <1>2 DEF Orders
<1>4. ASSUME NEW i \in 1..L
      PROVE  /\ r[i] = [p[Standing(place, i)] EXCEPT !.needs = {place[d] : d \in p[Standing(place, i)].needs}]
             /\ r[i] \in Phases
  <2> DEFINE n == Standing(place, i)
  <2>1. n \in 1..L /\ p[n] \in Phases
    BY <1>3
  <2>2. r[i] = [p[n] EXCEPT !.needs = {place[d] : d \in p[n].needs}]
    BY <1>1 DEF Reorder
  <2>3. p[n].needs \subseteq 1..L
    BY <1>1, <2>1 DEF Numbered
  <2>4. {place[d] : d \in p[n].needs} \subseteq Nat
    BY <2>3, <1>2 DEF Orders
  <2> HIDE DEF n, r
  <2>5. r[i] \in Phases
    BY <2>1, <2>2, <2>4 DEF Phases
  <2> QED BY <2>2, <2>5 DEF n
<1>5. r = [i \in 1..L |-> r[i]]
  BY <1>1 DEF Reorder
<1>6. r \in Seq(Phases) /\ Len(r) = L
  <2> HIDE DEF r
  <2>1. r \in [1..L -> Phases]
    BY <1>4, <1>5
  <2> QED BY <2>1, <1>1
<1>7. ASSUME NEW n \in 1..L
      PROVE  /\ r[place[n]].id = p[n].id /\ r[place[n]].wants = p[n].wants
             /\ r[place[n]].tells = p[n].tells /\ r[place[n]].platform = p[n].platform
             /\ r[place[n]].needs = {place[d] : d \in p[n].needs}
  <2>1. place[n] \in 1..L /\ Standing(place, place[n]) = n
    BY <1>2 DEF Orders
  <2>2. r[place[n]] = [p[n] EXCEPT !.needs = {place[d] : d \in p[n].needs}]
    BY <1>4, <2>1
  <2>3. p[n] \in Phases
    BY <1>1
  <2> HIDE DEF r
  <2> QED BY <2>2, <2>3 DEF Phases
<1> HIDE DEF r
<1>8. Moved(p, r, place)
  BY <1>6, <1>7 DEF Moved
<1> QED BY <1>2, <1>8 DEF r

\* A move that takes along whatever needs what it moves leaves needs first.
LEMMA MovedBackward ==
  ASSUME NEW p \in Seq(Phases), NEW k \in Nat, Backward(p, k), NEW back, Follows(p, back, k),
         NEW place, Orders(place, back, Len(p)), NEW r, Moved(p, r, place),
         \A n \in 1..Len(p) : n <= k => place[n] = n
  PROVE  Backward(r, k)
<1> DEFINE L == Len(p)
<1>1. L \in Nat /\ DOMAIN p = 1..L /\ DOMAIN r = 1..L
  BY DEF Moved
<1>2. ASSUME NEW i \in 1..L, i > k
      PROVE  /\ r[i].needs \subseteq 1..L /\ {r[m].id : m \in r[i].needs} = r[i].wants
             /\ \A e \in r[i].needs : e < i \/ Excused(r, i, e)
  <2>1. PICK n \in 1..L : place[n] = i
    BY DEF Orders
  <2>2. /\ p[n].needs \subseteq 1..L /\ {p[m].id : m \in p[n].needs} = p[n].wants /\ n > k
        /\ \A d \in p[n].needs : d < n \/ Excused(p, n, d)
    <3>1. n > k
      BY <1>1, <1>2, <2>1
    <3> QED BY <1>1, <3>1 DEF Backward
  <2>3. r[i].needs = {place[d] : d \in p[n].needs} /\ r[i].wants = p[n].wants /\ r[i].platform = p[n].platform
    BY <2>1 DEF Moved
  <2>4. ASSUME NEW d \in p[n].needs
        PROVE  /\ d \in 1..L /\ place[d] \in 1..L /\ r[place[d]].id = p[d].id
               /\ place[d] < i \/ Excused(r, i, place[d])
    <3>1. d \in 1..L /\ (d < n \/ Excused(p, n, d))
      BY <2>2
    <3>2. Before(back, d, n) \/ Excused(p, n, d)
      BY <1>1, <2>2, <3>1 DEF Before, Follows
    <3>3. place[d] \in 1..L /\ (place[d] < i \/ Excused(p, n, d))
      BY <2>1, <3>1, <3>2 DEF Orders
    <3>4. r[place[d]].id = p[d].id /\ r[place[d]].platform = p[d].platform
      BY <3>1 DEF Moved
    <3> QED BY <2>3, <3>1, <3>3, <3>4 DEF Excused
  <2>5. {r[m].id : m \in r[i].needs} = {p[m].id : m \in p[n].needs}
    BY <2>3, <2>4
  <2> QED BY <2>2, <2>3, <2>4, <2>5
<1> QED BY <1>1, <1>2 DEF Backward

\* No move makes a phase need a machine, or not.
LEMMA MovedPlain ==
  ASSUME NEW p \in Seq(Phases), NEW back, NEW place, Orders(place, back, Len(p)),
         NEW r, Moved(p, r, place), Plain(r)
  PROVE  Plain(p)
<1>1. SUFFICES ASSUME NEW n \in 1..Len(p) PROVE ~p[n].platform
  BY DEF Plain
<1>2. place[n] \in 1..Len(p)
  BY DEF Orders
<1>3. r \in Seq(Phases) /\ Len(r) = Len(p) /\ r[place[n]].platform = p[n].platform
  BY DEF Moved
<1>4. place[n] \in DOMAIN r
  BY <1>2, <1>3
<1> QED BY <1>3, <1>4 DEF Plain

\* Such a move keeps a plan whole, and the phases built where they are.
LEMMA MovedWhole ==
  ASSUME NEW k \in Nat, NEW made \in Nat, NEW p, Whole(p, k, made), Backward(p, k), Numbered(p),
         NEW back, back \subseteq (k + 1)..Len(p), Follows(p, back, k),
         NEW r, r = Reorder(p, Places(p, back))
  PROVE  PutBehind(p, back, r, k, made)
<1> DEFINE L == Len(p)
           place == Places(p, back)
<1>1. /\ p \in Seq(Phases) /\ L \in Nat /\ DOMAIN p = 1..L /\ k \in 0..L
      /\ back \subseteq 1..L
  BY DEF Whole
<1>2. Orders(place, back, L) /\ Moved(p, r, place)
  BY <1>1, Reordered
<1>3. \A n \in 1..L : (n <= k => place[n] = n) /\ (n > k => place[n] > k)
  BY <1>1, PlacesKeep
<1> HIDE DEF place
<1>4. Backward(r, k)
  BY <1>1, <1>2, <1>3, MovedBackward
<1>5. r \in Seq(Phases) /\ Len(r) = L /\ DOMAIN r = 1..L
  BY <1>1, <1>2 DEF Moved
<1>6. \A i \in 1..L : \E n \in 1..L : place[n] = i
  BY <1>2 DEF Orders
<1>7. \A n \in 1..L : r[place[n]].id = p[n].id
  BY <1>2 DEF Moved
<1>8. ASSUME NEW i \in 1..L PROVE r[i].id[1] <= made
  <2>1. PICK n \in 1..L : place[n] = i
    BY <1>6
  <2>2. r[i].id = p[n].id /\ p[n].id[1] <= made
    BY <1>1, <1>7, <2>1 DEF Whole
  <2> QED BY <2>2
<1>9. ASSUME NEW i \in 1..L, NEW j \in 1..L, r[i].id = r[j].id PROVE i = j
  <2>1. PICK m \in 1..L : place[m] = i
    BY <1>6
  <2>2. PICK n \in 1..L : place[n] = j
    BY <1>6
  <2>3. p[m].id = p[n].id
    BY <1>7, <1>9, <2>1, <2>2
  <2> QED BY <1>1, <2>1, <2>2, <2>3 DEF Whole
<1>10. \A n \in 1..k : place[n] = n /\ r[n].id = p[n].id
  BY <1>1, <1>3, <1>7
<1>11. Whole(r, k, made)
  BY <1>1, <1>5, <1>8, <1>9 DEF Whole
<1> QED BY <1>2, <1>4, <1>5, <1>10, <1>11 DEF place, PutBehind

\* What needs a phase is that phase and others that come after it.
LEMMA NeedsItAfter ==
  ASSUME NEW p \in Seq(Phases), NEW n \in 1..Len(p)
  PROVE  NeedsIt(p, n) \subseteq n..Len(p) /\ n \in NeedsIt(p, n)
<1>1. Len(p) \in Nat /\ n \in Nat /\ n \in n..Len(p)
  OBVIOUS
<1> QED BY <1>1, NeedsItIs

\* Whatever needs what needs a phase needs that one too.
LEMMA NeedsItFollows ==
  ASSUME NEW p \in Seq(Phases), NEW k \in Nat, Backward(p, k), NEW n \in 1..Len(p), k < n
  PROVE  Follows(p, NeedsIt(p, n), k)
<1>1. Len(p) \in Nat /\ n \in Nat /\ DOMAIN p = 1..Len(p) /\ NeedsIt(p, n) \subseteq n..Len(p)
  BY NeedsItAfter
<1>2. ASSUME NEW m \in DOMAIN p, m > k, NEW d \in p[m].needs, d \in NeedsIt(p, n)
      PROVE  m \in NeedsIt(p, n) \/ Excused(p, m, d)
  <2>1. d \in n..Len(p) /\ (d < m \/ Excused(p, m, d))
    BY <1>1, <1>2 DEF Backward
  <2>2. CASE d < m
    <3>1. d \in n..(m - 1) /\ m \in n..Len(p)
      BY <1>1, <2>1, <2>2
    <3> QED BY <1>1, <1>2, <3>1, NeedsItIs
  <2> QED BY <2>1, <2>2
<1> QED BY <1>2 DEF Follows

\* What needs a phase that needs another needs that one.
LEMMA NeedsItTransitive ==
  ASSUME NEW p \in Seq(Phases), NEW n \in 1..Len(p), NEW q \in NeedsIt(p, n)
  PROVE  NeedsIt(p, q) \subseteq NeedsIt(p, n)
<1>1. Len(p) \in Nat /\ n \in Nat /\ NeedsIt(p, n) \subseteq n..Len(p) /\ q \in n..Len(p)
  BY NeedsItAfter
<1>2. Closed(p, q, NeedsIt(p, n))
  <2>1. SUFFICES ASSUME NEW m \in q..Len(p),
                        m = q \/ ~p[m].tells \/ \E d \in p[m].needs : d \in q..(m - 1) /\ d \in NeedsIt(p, n)
                 PROVE  m \in NeedsIt(p, n)
    BY DEF Closed
  <2>2. m \in n..Len(p) /\ \A d \in q..(m - 1) : d \in n..(m - 1)
    BY <1>1
  <2> QED BY <1>1, <2>1, <2>2, NeedsItIs
<1> QED BY <1>1, <1>2, NeedsItLeast

\* When all that needs phase k + 1 is put last, who needs whom among those not built
\* moves with them.
LEMMA NeedsItMoves ==
  ASSUME NEW k \in Nat, NEW made \in Nat, NEW p, Whole(p, k, made), k < Len(p),
         NEW r, PutBehind(p, NeedsIt(p, k + 1), r, k, made),
         NEW place, place = Places(p, NeedsIt(p, k + 1)),
         NEW q \in (k + 1)..Len(p), NEW m \in NeedsIt(p, q)
  PROVE  place[m] \in NeedsIt(r, place[q])
<1> DEFINE L == Len(p)
           back == NeedsIt(p, k + 1)
           S == {l \in q..L : place[l] \in NeedsIt(r, place[q])}
<1>1. /\ p \in Seq(Phases) /\ L \in Nat /\ DOMAIN p = 1..L /\ k + 1 \in 1..L
      /\ q \in 1..L
  BY DEF Whole
<1>2. /\ Orders(place, back, L) /\ Moved(p, r, place) /\ Len(r) = L /\ r \in Seq(Phases)
      /\ DOMAIN r = 1..L
  BY <1>1 DEF PutBehind, Whole
<1>3. /\ place \in [1..L -> 1..L]
      /\ \A i, j \in 1..L : place[i] < place[j] <=> Before(back, i, j)
  BY <1>2 DEF Orders
<1>4. place[q] \in 1..L /\ place[q] \in NeedsIt(r, place[q])
  BY <1>1, <1>2, <1>3, NeedsItAfter
<1>5. ASSUME NEW l \in q..L, ~p[l].tells, l # q
      PROVE  place[l] \in NeedsIt(r, place[q])
  <2>1. l \in 1..L /\ l \in (k + 1)..L /\ q < l
    BY <1>1, <1>5
  <2>2. l \in back
    BY <1>1, <1>5, <2>1, NeedsItIs
  <2>3. place[q] < place[l]
    BY <1>1, <1>3, <2>1, <2>2 DEF Before
  <2>4. place[l] \in place[q]..L /\ ~r[place[l]].tells
    BY <1>2, <1>3, <1>4, <1>5, <2>1, <2>3 DEF Moved
  <2>5. Len(r) \in Nat /\ place[q] \in Nat /\ place[l] \in place[q]..Len(r) /\ ~r[place[l]].tells
    BY <1>1, <1>2, <1>4, <2>4
  <2> DEFINE a == place[q]  b == place[l]
  <2>6. Len(r) \in Nat /\ a \in Nat /\ b \in a..Len(r) /\ ~r[b].tells
    BY <2>5
  <2> HIDE DEF a, b
  <2>7. b \in NeedsIt(r, a)
    BY <2>6, NeedsItIs
  <2> QED BY <2>7 DEF a, b
<1>6. ASSUME NEW l \in q..L, NEW d \in p[l].needs, d \in q..(l - 1), d \in S
      PROVE  place[l] \in NeedsIt(r, place[q])
  <2>1. l \in 1..L /\ d \in 1..L /\ place[l] \in 1..L /\ place[d] \in NeedsIt(r, place[q])
    BY <1>1, <1>3, <1>6
  <2>2. place[d] \in r[place[l]].needs
    BY <1>2, <1>6, <2>1 DEF Moved
  <2>3. place[d] < place[l]
    <3>1. l \in (k + 1)..L /\ d \in (k + 1)..(l - 1) /\ d < l
      BY <1>1, <1>6
    <3>2. d \in back => l \in back
      BY <1>1, <1>6, <3>1, NeedsItIs
    <3> QED BY <1>3, <2>1, <3>1, <3>2 DEF Before
  <2>4. place[d] \in place[q]..L
    BY <1>2, <1>4, <2>1, NeedsItAfter
  <2>5. place[l] \in place[q]..L /\ place[d] \in place[q]..(place[l] - 1)
    BY <1>4, <2>1, <2>3, <2>4
  <2> DEFINE a == place[q]  b == place[l]  c == place[d]
  <2>6. /\ Len(r) \in Nat /\ a \in Nat /\ b \in a..Len(r)
        /\ c \in r[b].needs /\ c \in a..(b - 1) /\ c \in NeedsIt(r, a)
    BY <1>2, <1>4, <2>1, <2>2, <2>5
  <2> HIDE DEF a, b, c
  <2>7. b \in NeedsIt(r, a)
    BY <2>6, NeedsItIs
  <2> QED BY <2>7 DEF a, b
<1>7. Closed(p, q, S)
  BY <1>4, <1>5, <1>6 DEF Closed
<1> HIDE DEF S
<1>8. NeedsIt(p, q) \subseteq S
  BY <1>1, <1>7, NeedsItLeast
<1> QED BY <1>8 DEF S

\* A phase set aside joins those set aside before, and they stay covered.
LEMMA ParkCovers ==
  ASSUME NEW k \in Nat, NEW made \in Nat, NEW p, Whole(p, k, made), k < Len(p),
         Backward(p, k), Plain(p), NEW r, PutBehind(p, NeedsIt(p, k + 1), r, k, made),
         NEW S, S \subseteq (k + 1)..Len(p), k + 1 \notin S, Covered(p, S, k)
  PROVE  Covered(r, Joined(p, S, k), k)
<1>0. PICK place : place = Places(p, NeedsIt(p, k + 1))
  OBVIOUS
<1> DEFINE L == Len(p)
           N == k + 1
           back == NeedsIt(p, N)
           T == S \cup {N}
<1>1. /\ p \in Seq(Phases) /\ L \in Nat /\ DOMAIN p = 1..L /\ N \in 1..L
      /\ T \subseteq N..L /\ T \subseteq 1..L
  BY DEF Whole
<1>2. /\ Orders(place, back, L) /\ Moved(p, r, place) /\ Len(r) = L
      /\ \A n \in 1..k : place[n] = n
  BY <1>0 DEF PutBehind
<1>3. /\ place \in [1..L -> 1..L]
      /\ \A i, j \in 1..L : place[i] < place[j] <=> Before(back, i, j)
      /\ \A i \in 1..L : \E n \in 1..L : place[n] = i
  BY <1>2 DEF Orders
<1>4. back \subseteq N..L /\ N \in back
  BY <1>1, NeedsItAfter
<1>5. \A n \in N..L : ~p[n].tells => n \in back
  BY <1>1, NeedsItIs
<1>6. \A n \in T : p[n].tells => p[n].needs \subseteq 1..k
  <2>1. p[N].needs \subseteq 1..k
    <3>1. p[N].needs \subseteq 1..L /\ \A d \in p[N].needs : d < N \/ Excused(p, N, d)
      BY <1>1 DEF Backward
    <3>2. \A d \in 1..L : ~p[d].platform
      BY <1>1 DEF Plain
    <3> QED BY <1>1, <3>1, <3>2 DEF Excused
  <2>2. \A n \in S : p[n].tells => p[n].needs \subseteq 1..k
    BY DEF Covered
  <2> QED BY <2>1, <2>2
<1>7. \A n \in S : n \in back => ~p[n].tells
  <2>1. SUFFICES ASSUME NEW n \in S, n \in back, p[n].tells PROVE FALSE
    OBVIOUS
  <2>2. p[n].needs \subseteq 1..k /\ n # N /\ n \in N..L
    BY <1>1, <1>6, <2>1
  <2>3. PICK d \in p[n].needs : d \in N..(n - 1)
    BY <1>1, <2>1, <2>2, NeedsItIs
  <2> QED BY <2>2, <2>3
<1>8. \A n \in T : /\ r[place[n]].tells = p[n].tells
                   /\ r[place[n]].needs = {place[d] : d \in p[n].needs}
  BY <1>1, <1>2 DEF Moved
<1>a. N \in T /\ \A n \in T : n = N \/ n \in S
  OBVIOUS
<1> HIDE DEF back, T, N, L
<1>b. \A i \in 1..L : place[i] \in 1..L /\ place[i] \in Int
  <2>1. \A i \in 1..L : place[i] \in 1..L
    BY <1>3
  <2>2. \A h \in 1..L : h \in Int
    BY <1>1
  <2> QED BY <2>1, <2>2
<1>c. \A i, j \in 1..L : i = j \/ Before(back, i, j) => place[j] >= place[i]
  <2>1. SUFFICES ASSUME NEW i \in 1..L, NEW j \in 1..L, i = j \/ Before(back, i, j)
                 PROVE  place[j] >= place[i]
    OBVIOUS
  <2>2. place[i] < place[j] \/ place[i] = place[j]
    BY <1>3, <2>1
  <2> QED BY <1>b, <2>2
<1>d. \A i, j \in 1..L : place[j] >= place[i] => ~Before(back, j, i)
  <2>1. SUFFICES ASSUME NEW i \in 1..L, NEW j \in 1..L, place[j] >= place[i]
                 PROVE  ~Before(back, j, i)
    OBVIOUS
  <2>2. ~(place[j] < place[i])
    BY <1>b, <2>1
  <2> QED BY <1>3, <2>2
<1>9. ASSUME NEW n \in T, r[place[n]].tells PROVE r[place[n]].needs \subseteq 1..k
  <2>1. p[n].needs \subseteq 1..k /\ r[place[n]].needs = {place[d] : d \in p[n].needs}
    BY <1>6, <1>8, <1>9
  <2> QED BY <1>2, <2>1
<1>10. ASSUME NEW n \in T, NEW q \in T, ~r[place[n]].tells, place[q] > place[n]
       PROVE  ~r[place[q]].tells
  <2>1. ~p[n].tells /\ n \in back /\ n \in 1..L /\ q \in 1..L
    <3>1. n \in N..L /\ n \in 1..L /\ q \in 1..L /\ ~p[n].tells
      BY <1>1, <1>8, <1>10
    <3> QED BY <1>5, <3>1
  <2>2. Before(back, n, q)
    <3>1. place[n] \in Int /\ place[q] \in Int
      BY <1>b, <2>1
    <3>2. place[n] < place[q]
      BY <1>10, <3>1
    <3> QED BY <1>3, <2>1, <3>2
  <2>3. q \in back /\ n < q
    BY <2>1, <2>2 DEF Before
  <2>4. q \in S
    BY <1>1, <2>3 DEF T, N
  <2> QED BY <1>7, <1>8, <2>3, <2>4
<1>11. ASSUME NEW n \in T, NEW m \in 1..L, place[m] >= place[n]
       PROVE  \E q \in T : place[q] >= place[n] /\ m \in NeedsIt(p, q)
  <2>1. n \in 1..L /\ n \in N..L /\ N \in T
    BY <1>1, <1>a
  <2>2. m = n \/ Before(back, n, m)
    <3>1. ~Before(back, m, n)
      BY <1>d, <1>11, <2>1
    <3> QED BY <2>1, <3>1 DEF Before
  <2>3. CASE m \in back /\ n \in back /\ n # N
    <3>1. n \in S /\ n <= m /\ ~p[n].tells /\ m \in n..L
      BY <1>7, <2>1, <2>2, <2>3 DEF T, Before
    <3>2. PICK q \in S : q >= n /\ m \in NeedsIt(p, q)
      BY <3>1 DEF Covered, L
    <3>3. q \in T /\ q \in 1..L /\ q \in N..L
      BY <1>1 DEF T
    <3>4. q \in back
      <4>1. q = n \/ q > n
        BY <2>1, <3>2, <3>3
      <4>2. q > n => ~p[q].tells
        BY <3>1, <3>2 DEF Covered
      <4> QED BY <1>5, <2>3, <3>3, <4>1, <4>2
    <3>5. q = n \/ Before(back, n, q)
      BY <2>1, <2>3, <3>2, <3>3, <3>4 DEF Before
    <3>6. place[q] >= place[n]
      BY <1>c, <2>1, <3>3, <3>5
    <3> QED BY <3>2, <3>3, <3>6
  <2>4. CASE m \in back /\ (n \notin back \/ n = N)
    <3>1. n = N \/ Before(back, n, N)
      BY <1>4, <2>4 DEF Before
    <3>2. place[N] >= place[n]
      BY <1>1, <1>c, <2>1, <3>1
    <3> QED BY <2>1, <2>4, <3>2 DEF back
  <2>5. CASE m \notin back
    <3>1. n \notin back /\ n <= m /\ m \in n..L
      BY <2>1, <2>2, <2>5 DEF Before
    <3>2. n \in S
      BY <1>4, <3>1 DEF T
    <3>3. PICK q \in S : q >= n /\ m \in NeedsIt(p, q)
      BY <3>1, <3>2 DEF Covered, L
    <3>4. q \in T /\ q \in 1..L
      BY <1>1 DEF T
    <3>5. q \notin back
      <4>1. q \in back => NeedsIt(p, q) \subseteq back
        BY <1>1, NeedsItTransitive DEF back
      <4> QED BY <2>5, <3>3, <4>1
    <3>6. q = n \/ Before(back, n, q)
      BY <2>1, <3>1, <3>3, <3>4, <3>5 DEF Before
    <3>7. place[q] >= place[n]
      BY <1>c, <2>1, <3>4, <3>6
    <3> QED BY <3>3, <3>4, <3>7
  <2> QED BY <2>3, <2>4, <2>5
<1>12. ASSUME NEW n \in T, NEW i \in place[n]..L
       PROVE  \E q \in T : place[q] >= place[n] /\ i \in NeedsIt(r, place[q])
  <2>1. n \in 1..L /\ place[n] \in 1..L /\ i \in 1..L
    <3>1. n \in 1..L /\ place[n] \in 1..L
      BY <1>1, <1>b
    <3> QED BY <1>1, <1>12, <3>1
  <2>2. PICK m \in 1..L : place[m] = i
    BY <1>3, <2>1
  <2>3. PICK q \in T : place[q] >= place[n] /\ m \in NeedsIt(p, q)
    BY <1>11, <1>12, <2>1, <2>2
  <2>4. q \in (k + 1)..Len(p)
    BY <1>1 DEF N
  <2>5. place[m] \in NeedsIt(r, place[q])
    BY <1>0, <2>3, <2>4, NeedsItMoves
  <2> QED BY <2>2, <2>3, <2>5
<1> DEFINE U == {place[m] : m \in T}
<1>13. Covered(r, U, k)
  <2>1. \A n \in U : r[n].tells => r[n].needs \subseteq 1..k
    BY <1>9
  <2>2. \A n, q \in U : ~r[n].tells /\ q > n => ~r[q].tells
    BY <1>10
  <2>3. \A n \in U : \A m \in n..Len(r) : \E q \in U : q >= n /\ m \in NeedsIt(r, q)
    BY <1>2, <1>12
  <2> HIDE DEF U
  <2> QED BY <2>1, <2>2, <2>3 DEF Covered
<1> QED BY <1>0, <1>13 DEF T, N, Joined

\* The plan as the Architect makes it: what is built is kept, and the rest is new.
LEMMA PlannedWhole ==
  ASSUME NEW made \in Nat, NEW q \in Plans, NEW kept \in Seq(Phases), Len(kept) < Len(q),
         Named(kept, made),
         NEW p, p = Planned(kept, q, made)
  PROVE  /\ Whole(p, Len(kept), made) /\ Backward(p, Len(kept)) /\ Len(p) = Len(q)
         /\ \A n \in DOMAIN kept : p[n] = kept[n]
<1> DEFINE L == Len(q)
           k == Len(kept)
           name == [n \in DOMAIN q |-> IF n <= k THEN kept[n].id ELSE <<made, n>>]
<1>1. /\ q \in Seq([needs : SUBSET Nat, tells : BOOLEAN, platform : BOOLEAN])
      /\ \A n \in DOMAIN q : q[n].needs \subseteq 1..(n - 1)
  BY PhaseOrderAssumption DEF PhaseOrderAssumption
<1>2. L \in Nat /\ k \in Nat /\ DOMAIN q = 1..L /\ DOMAIN kept = 1..k /\ k < L
  BY <1>1
<1>3. p = [n \in 1..L |->
             IF n <= k THEN kept[n]
             ELSE [id |-> name[n], needs |-> q[n].needs, tells |-> q[n].tells,
                   platform |-> q[n].platform, wants |-> {name[m] : m \in q[n].needs}]]
  BY <1>2 DEF Planned
<1>4. /\ \A n \in 1..L : n <= k => name[n] = kept[n].id
      /\ \A n \in 1..L : n > k => name[n] = <<made, n>>
  BY <1>2
<1>5. \A n \in 1..L : name[n] \in Nat \X Nat
  <2>1. ASSUME NEW n \in 1..k PROVE kept[n].id \in Nat \X Nat
    <3>1. kept[n] \in Phases
      BY <1>2
    <3> QED BY <3>1 DEF Phases
  <2> QED BY <1>2, <1>4, <2>1
<1> HIDE DEF name
<1>6. ASSUME NEW n \in 1..L, n > k
      PROVE  /\ p[n] \in Phases /\ p[n].id = name[n] /\ p[n].platform = q[n].platform
             /\ p[n].needs = q[n].needs /\ p[n].wants = {name[m] : m \in q[n].needs}
             /\ q[n].needs \subseteq 1..(n - 1)
  <2>1. q[n] \in [needs : SUBSET Nat, tells : BOOLEAN, platform : BOOLEAN]
    <3> DEFINE F == [needs : SUBSET Nat, tells : BOOLEAN, platform : BOOLEAN]
    <3>1. q \in Seq(F) /\ n \in 1..Len(q)
      BY <1>1
    <3> HIDE DEF F
    <3>2. q[n] \in F
      BY <3>1
    <3> QED BY <3>2 DEF F
  <2>2. q[n].needs \subseteq 1..(n - 1)
    BY <1>1, <1>2
  <2>3. {name[m] : m \in q[n].needs} \subseteq Nat \X Nat
    BY <1>5, <2>2
  <2>4. p[n] = [id |-> name[n], needs |-> q[n].needs, tells |-> q[n].tells,
                platform |-> q[n].platform, wants |-> {name[m] : m \in q[n].needs}]
    BY <1>2, <1>3, <1>6
  <2>5. name[n] \in Nat \X Nat /\ q[n].needs \in SUBSET Nat /\ q[n].tells \in BOOLEAN /\ q[n].platform \in BOOLEAN
    BY <1>5, <2>1
  <2>6. /\ p[n].id = name[n] /\ p[n].platform = q[n].platform
        /\ p[n].needs = q[n].needs /\ p[n].wants = {name[m] : m \in q[n].needs}
    BY <2>4
  <2>7. p[n] \in Phases
    BY <2>3, <2>4, <2>5 DEF Phases
  <2> QED BY <2>2, <2>6, <2>7
<1>7. \A n \in 1..k : p[n] = kept[n] /\ p[n].id = name[n] /\ p[n] \in Phases
  BY <1>2, <1>3, <1>4
<1>8. p \in Seq(Phases) /\ Len(p) = L /\ DOMAIN p = 1..L
  <2>1. p \in [1..L -> Phases]
    BY <1>2, <1>3, <1>6, <1>7
  <2> QED BY <1>2, <2>1
<1>9. \A n \in 1..L : p[n].id = name[n]
  BY <1>2, <1>6, <1>7
<1>10. ASSUME NEW n \in 1..L, n > k
       PROVE  /\ p[n].needs \subseteq 1..L /\ {p[m].id : m \in p[n].needs} = p[n].wants
              /\ \A d \in p[n].needs : d < n
  <2>1. \A m \in q[n].needs : p[m].id = name[m] /\ m \in 1..L /\ m < n
    BY <1>2, <1>6, <1>9, <1>10
  <2> QED BY <1>6, <1>10, <2>1
<1>11. \A n \in 1..L : p[n].id[1] <= made
  <2>1. ASSUME NEW n \in 1..L, n <= k PROVE p[n].id[1] <= made
    <3>1. p[n].id = kept[n].id /\ kept[n].id[1] < made /\ kept[n].id \in Nat \X Nat
      BY <1>2, <1>7, <2>1 DEF Phases, Named
    <3> QED BY <3>1
  <2>2. ASSUME NEW n \in 1..L, n > k PROVE p[n].id[1] <= made
    BY <1>4, <1>9, <2>2
  <2> QED BY <1>2, <2>1, <2>2
<1>12. ASSUME NEW m \in 1..L, NEW n \in 1..L, p[m].id = p[n].id PROVE m = n
  <2>1. \A i \in 1..k : p[i].id = kept[i].id /\ kept[i].id[1] < made /\ kept[i].id \in Nat \X Nat
    BY <1>2, <1>7 DEF Phases, Named
  <2>2. \A i \in 1..L : i > k => p[i].id = <<made, i>>
    BY <1>4, <1>9
  <2>3. CASE m <= k /\ n <= k
    BY <1>2, <1>12, <2>1, <2>3 DEF Named
  <2>4. CASE m > k /\ n > k
    BY <1>12, <2>2, <2>4
  <2>5. CASE m <= k /\ n > k
    <3>1. p[m].id[1] < made /\ p[n].id[1] = made
      BY <2>1, <2>2, <2>5
    <3> QED BY <1>12, <3>1
  <2>6. CASE m > k /\ n <= k
    <3>1. p[n].id[1] < made /\ p[m].id[1] = made
      BY <2>1, <2>2, <2>6
    <3> QED BY <1>12, <3>1
  <2> QED BY <1>2, <2>3, <2>4, <2>5, <2>6
<1>13. Whole(p, k, made) /\ Backward(p, k)
  BY <1>2, <1>8, <1>10, <1>11, <1>12 DEF Whole, Backward
<1> QED BY <1>2, <1>7, <1>8, <1>13

-----------------------------------------------------------------------------
\* What is put last is put behind all that it needs and all that can be built.
LEMMA PutLastWhole ==
  ASSUME Whole(plan, index, replans), replans \in Nat, Backward(plan, index), index < Len(plan),
         Misplaced => Numbered(plan)
  PROVE  /\ Whole(PutLast, index, replans) /\ Backward(PutLast, index) /\ Len(PutLast) = Len(plan)
         /\ \A n \in 1..index : PutLast[n].id = plan[n].id
         /\ ~Buildable(PutLast[Number]) => \A n \in Number..Len(plan) : PutLast[n].platform
         /\ Plain(PutLast) => PutLast = plan
<1> DEFINE L == Len(plan)
           back == {n \in Later(plan) : ~Buildable(plan[n])}
           place == Places(plan, back)
<1>1. /\ plan \in Seq(Phases) /\ L \in Nat /\ DOMAIN plan = 1..L /\ index \in 0..L
      /\ Number = index + 1 /\ Number \in 1..L
  BY DEF Whole, Number
<1>2. Later(plan) = (index + 1)..L
  BY <1>1 DEF Later
<1>3. CASE ~Misplaced
  <2>1. PutLast = plan
    BY <1>3 DEF PutLast
  <2>2. ~Buildable(plan[Number]) => \A n \in Number..L : plan[n].platform
    BY <1>1, <1>2, <1>3 DEF Misplaced, Buildable
  <2> QED BY <1>1, <2>1, <2>2
<1>4. CASE Misplaced
  <2>1. PutLast = Reorder(plan, place)
    BY <1>4 DEF PutLast
  <2>2. back \subseteq (index + 1)..L
    BY <1>2
  <2>3. Follows(plan, back, index)
    BY <1>1, <1>2 DEF Buildable, Follows, Excused
  <2>4. /\ Orders(place, back, L) /\ Moved(plan, PutLast, place)
        /\ Whole(PutLast, index, replans) /\ Backward(PutLast, index) /\ Len(PutLast) = L
        /\ \A n \in 1..index : place[n] = n /\ PutLast[n].id = plan[n].id
    <3>1. index \in Nat
      BY <1>1
    <3> HIDE DEF back
    <3>2. PutBehind(plan, back, PutLast, index, replans)
      BY <1>4, <2>1, <2>2, <2>3, <3>1, MovedWhole
    <3> QED BY <3>2 DEF PutBehind
  <2>5. Buildable(PutLast[Number])
    <3>1. PICK b \in 1..L : b >= Number /\ b \notin back
      BY <1>1, <1>2, <1>4 DEF Misplaced
    <3>2. PICK n \in 1..L : place[n] = Number
      BY <1>1, <2>4 DEF Orders
    <3>3. n \notin back
      <4>1. ASSUME n \in back PROVE FALSE
        <5>1. Before(back, b, n)
          BY <3>1, <4>1 DEF Before
        <5>2. place[b] < Number /\ place[b] \in 1..L
          BY <5>1, <2>4, <3>2 DEF Orders
        <5>3. place[b] \in 1..index /\ place[place[b]] = place[b]
          BY <1>1, <2>4, <5>2
        <5>4. place[b] = b
          BY <2>4, <5>2, <5>3 DEF Orders
        <5> QED BY <1>1, <3>1, <5>3, <5>4
      <4> QED BY <4>1
    <3>4. n >= Number
      BY <1>1, <2>4, <3>2
    <3>5. Buildable(plan[n])
      BY <1>1, <1>2, <3>3, <3>4
    <3> QED BY <2>4, <3>2, <3>5 DEF Moved, Buildable
  <2>6. ~Plain(PutLast)
    <3>1. PutLast[place[Number]].platform /\ place[Number] \in 1..L /\ DOMAIN PutLast = 1..L
      <4>1. plan[Number].platform
        BY <1>4 DEF Misplaced, Buildable
      <4>2. /\ PutLast[place[Number]].platform = plan[Number].platform /\ place[Number] \in 1..L
            /\ PutLast \in Seq(Phases) /\ Len(PutLast) = L
        <5> HIDE DEF place, L
        <5> QED BY <1>1, <2>4 DEF Moved, Orders, L
      <4> QED BY <1>1, <4>1, <4>2
    <3> QED BY <3>1 DEF Plain
  <2> QED BY <2>4, <2>5, <2>6
<1> QED BY <1>3, <1>4

\* Setting a phase aside is such a move too.
LEMMA ParkWhole ==
  ASSUME NEW p, Whole(p, index, replans), replans \in Nat, Backward(p, index), index < Len(p),
         NEW work, Park(p, work)
  PROVE  /\ Whole(plan', index, replans) /\ Backward(plan', index) /\ Len(plan') = Len(p)
         /\ \A n \in 1..index : plan'[n].id = p[n].id
         /\ PutBehind(p, NeedsIt(p, Number), plan', index, replans)
         /\ Plain(plan') => Plain(p)
<1> DEFINE back == NeedsIt(p, Number)
<1>1. /\ p \in Seq(Phases) /\ index \in Nat /\ Number \in 1..Len(p)
      /\ Number = index + 1 /\ index < Number
  BY DEF Whole, Number
<1>2. back \subseteq (index + 1)..Len(p) /\ Follows(p, back, index)
  BY <1>1, NeedsItAfter, NeedsItFollows
<1>3. plan' = Reorder(p, Places(p, back)) /\ Numbered(p)
  BY DEF Park
<1> HIDE DEF back
<1>4. PutBehind(p, back, plan', index, replans)
  BY <1>1, <1>2, <1>3, MovedWhole
<1>5. Plain(plan') => Plain(p)
  <2> DEFINE r == plan'
  <2>1. PutBehind(p, back, r, index, replans)
    BY <1>4
  <2> HIDE DEF r
  <2>2. Plain(r) => Plain(p)
    BY <1>1, <2>1, MovedPlain DEF PutBehind
  <2> QED BY <2>2 DEF r
<1> QED BY <1>4, <1>5 DEF PutBehind, back

-----------------------------------------------------------------------------
\* What a step makes of the plan, when all it does is move phases.
PlanMoves ==
  /\ Whole(plan', index, replans) /\ Backward(plan', index) /\ Len(plan') = Len(plan)
  /\ \A n \in 1..index : plan'[n].id = plan[n].id
  /\ UNCHANGED <<index, done, replans>>

\* The first plan is such a plan.
LEMMA OrderedInit == OrderInit => Ordered
<1> SUFFICES ASSUME OrderInit PROVE Ordered
  OBVIOUS
<1>1. PICK q \in Plans : plan = Planned(<<>>, q, 0)
  BY DEF OrderInit
<1>2. Len(q) > 0
  BY <1>1, PhaseOrderAssumption DEF PhaseOrderAssumption
<1> DEFINE kept == <<>>
           none == 0
<1>3. Len(kept) = 0
  OBVIOUS
<1>6. kept \in Seq(Phases) /\ Named(kept, none)
  BY DEF Named
<1>5. plan = Planned(kept, q, none) /\ Len(kept) < Len(q) /\ none \in Nat /\ none = 0
  BY <1>1, <1>2, <1>3
<1> HIDE DEF kept, none
<1>4. Whole(plan, 0, 0) /\ Backward(plan, 0) /\ Len(plan) = Len(q)
  <2>1. none \in Nat /\ Len(kept) < Len(q) /\ plan = Planned(kept, q, none)
    BY <1>5
  <2>2. Whole(plan, Len(kept), none) /\ Backward(plan, Len(kept)) /\ Len(plan) = Len(q)
    BY <1>6, <2>1, PlannedWhole
  <2> QED BY <1>3, <1>5, <2>2
<1> QED BY <1>2, <1>4 DEF OrderInit, Ordered

\* The names in a plan are old once it is made again.
LEMMA OldNames ==
  ASSUME Ordered, NEW n \in DOMAIN plan
  PROVE  plan[n].id[1] < replans + 1 /\ plan[n].id[1] <= replans + 1
<1>1. plan[n] \in Phases /\ plan[n].id[1] <= replans /\ replans \in Nat
  BY DEF Ordered, Whole
<1>2. plan[n].id \in Nat \X Nat
  BY <1>1 DEF Phases
<1> QED BY <1>1, <1>2

\* A step that only moves phases keeps the plan in order,
LEMMA OrderedMoves ==
  ASSUME Ordered, PlanMoves, at # "architecture", at' # "architecture",
         at # "built", resume' \in {"developing", "gate"}
  PROVE  Ordered'
BY DEF Ordered, PlanMoves, Whole

\* and a phase's turn is such a step.
LEMMA OrderedDevelop ==
  ASSUME Ordered, Develop PROVE Ordered'
<1> DEFINE p == PutLast
<1>1. /\ at = "developing" /\ index < Len(plan) /\ Backward(plan, index) /\ Whole(plan, index, replans)
      /\ replans \in Nat /\ index \in Nat /\ resume \in {"developing", "gate"}
      /\ (Misplaced => Numbered(plan))
  BY DEF Ordered, Develop, Turn, Whole
<1>2. /\ Whole(p, index, replans) /\ Backward(p, index) /\ Len(p) = Len(plan)
      /\ \A n \in 1..index : p[n].id = plan[n].id
  BY <1>1, PutLastWhole
<1> HIDE DEF p
<1>3. ASSUME plan' = p, UNCHANGED <<index, done, replans>>
      PROVE  PlanMoves
  BY <1>2, <1>3 DEF PlanMoves
<1>4. ASSUME NEW work, Park(p, work)
      PROVE  PlanMoves /\ at' = at /\ resume' = resume
  <2>1. UNCHANGED <<index, done, replans>> /\ at' = at /\ resume' = resume
    BY <1>4 DEF Park, waiting
  <2>2. /\ Whole(plan', index, replans) /\ Backward(plan', index) /\ Len(plan') = Len(p)
        /\ \A n \in 1..index : plan'[n].id = p[n].id
    BY <1>1, <1>2, <1>4, ParkWhole
  <2> QED BY <1>2, <2>1, <2>2 DEF PlanMoves
<1>5. ASSUME NEW work, NEW written, BudgetStop(p, work, written)
      PROVE  PlanMoves /\ at' # "architecture" /\ resume' = resume
  <2>1. CASE NeedsIt(p, Number) # Later(p)
    <3>1. CASE ParkFails(p)
      BY <1>3, <3>1 DEF ParkFails, Leads, waiting
    <3> QED BY <1>1, <1>4, <1>5, <2>1, <3>1 DEF BudgetStop
  <2>2. CASE NeedsIt(p, Number) = Later(p)
    BY <1>3, <1>5, <2>2 DEF BudgetStop, AskAbout, Leads
  <2> QED BY <2>1, <2>2
<1>6. PlanMoves /\ at' # "architecture" /\ resume' = resume
  BY <1>3, <1>5 DEF Develop, p, Leads, AskAbout, waiting
<1> QED BY <1>1, <1>6, OrderedMoves

\* Ordered is kept by every step.
LEMMA OrderedStep ==
  ASSUME Ordered, [OrderNext]_orderVars PROVE Ordered'
<1>0. /\ plan \in Seq(Phases) /\ index \in 0..Len(plan) /\ replans \in Nat /\ Number = index + 1
  BY DEF Ordered, Whole, Number
<1>1. CASE Unpark
  BY <1>1 DEF Unpark, Ordered, AskAbout, Leads
<1>2. CASE DevelopWaits
  <2>1. PlanMoves
    BY <1>2, PutLastWhole DEF DevelopWaits, Turn, WaitForBuilder, PlanMoves, Ordered
  <2> QED BY <1>2, <2>1, OrderedMoves DEF DevelopWaits, Turn, WaitForBuilder, Leads
<1>3. CASE Develop
  BY <1>3, OrderedDevelop
<1>4. CASE GatePasses
  <2>1. /\ at = "gate" /\ index' = Number /\ plan' = plan /\ replans' = replans /\ resume' = resume
        /\ done' = Append(done, Current)
        /\ at' = IF Number = Len(plan) THEN "built" ELSE "developing"
    BY <1>4 DEF GatePasses, Leads, waiting
  <2>2. /\ Number \in 1..Len(plan) /\ Backward(plan, index) /\ done \in Seq(Nat \X Nat)
        /\ Len(done) = index /\ \A n \in 1..index : done[n] = plan[n].id
        /\ Whole(plan, index, replans) /\ resume \in {"developing", "gate"}
    BY <1>0, <2>1 DEF Ordered
  <2>3. Current \in Nat \X Nat
    <3>1. plan[Number] \in Phases
      BY <1>0, <2>2
    <3> QED BY <3>1 DEF Current, Phases
  <2>4. /\ done' \in Seq(Nat \X Nat) /\ Len(done') = Number
        /\ \A n \in 1..Number : done'[n] = plan[n].id
    BY <1>0, <2>1, <2>2, <2>3 DEF Current
  <2>5. Whole(plan, Number, replans)
    BY <1>0, <2>2 DEF Whole
  <2>6. Backward(plan, Number)
    BY <1>0, <2>2 DEF Backward
  <2> QED BY <1>0, <2>1, <2>2, <2>4, <2>5, <2>6 DEF Ordered
<1>5. CASE GateFails
  BY <1>5 DEF GateFails, Ordered, AskAbout, Leads, phases, waiting
<1>6. CASE BuilderLost
  BY <1>6 DEF BuilderLost, WaitForBuilder, Ordered, Leads
<1>7. CASE BuilderReady
  BY <1>7 DEF BuilderReady, Ordered, Leads, phases
<1>8. CASE BuilderComesOrGoes
  BY <1>8 DEF BuilderComesOrGoes, Ordered, phases, waiting
<1>9. CASE Instruct
  BY <1>9 DEF Instruct, Ordered, Leads, phases
<1>10. CASE Approve
  BY <1>10 DEF Approve, Ordered, Leads, phases
<1>11. CASE Retry
  BY <1>11 DEF Retry, Ordered, Leads, phases
<1>12. CASE Replan
  <2>1. \A n \in DOMAIN plan : plan[n].id[1] < replans + 1 /\ plan[n].id[1] <= replans + 1
    BY OldNames
  <2>2. Whole(plan, index, replans + 1)
    BY <1>0, <2>1 DEF Ordered, Whole
  <2> QED BY <1>0, <1>12, <2>1, <2>2 DEF Replan, Ordered, Leads, phases
<1>13. CASE StartOver
  <2>1. \A n \in DOMAIN plan : plan[n].id[1] < replans + 1 /\ plan[n].id[1] <= replans + 1
    BY OldNames
  <2>2. Whole(plan, 0, replans + 1)
    BY <1>0, <2>1 DEF Ordered, Whole
  <2>3. at = "failed" /\ index < Len(plan)
    BY <1>13 DEF StartOver, Ordered
  <2> QED BY <1>0, <1>13, <2>1, <2>2, <2>3 DEF StartOver, Ordered, Leads, waiting
<1>14. CASE Architecture
  <2> DEFINE kept == SubSeq(plan, 1, index)
  <2>1. PICK q \in Plans : Len(q) > index /\ plan' = Planned(kept, q, replans)
    BY <1>14 DEF Architecture
  <2>2. /\ kept \in Seq(Phases) /\ Len(kept) = index /\ DOMAIN kept = 1..index
        /\ \A n \in 1..index : kept[n] = plan[n]
    BY <1>0
  <2>3. /\ DOMAIN plan = 1..Len(plan)
        /\ \A m, n \in DOMAIN plan : plan[m].id = plan[n].id => m = n
        /\ \A n \in DOMAIN plan : plan[n].id[1] < replans
    BY <1>14, <1>0 DEF Architecture, Ordered, Whole
  <2> HIDE DEF kept
  <2>4. Named(kept, replans)
    BY <1>0, <2>2, <2>3 DEF Named
  <2>5. /\ Whole(plan', index, replans) /\ Backward(plan', index) /\ Len(plan') = Len(q)
        /\ \A n \in 1..index : plan'[n] = kept[n]
    BY <1>0, <2>1, <2>2, <2>4, PlannedWhole
  <2>6. /\ index' = index /\ replans' = replans /\ done' = done /\ resume' = resume /\ at' = "developing"
    BY <1>14 DEF Architecture, Leads
  <2> QED BY <1>0, <2>1, <2>2, <2>5, <2>6 DEF Ordered
<1>15. CASE Restart
  BY <1>15 DEF Restart, Ordered, phases, waiting
<1>16. CASE MoveFails
  BY <1>16 DEF MoveFails, Ordered, Leads, phases, waiting
<1>17. CASE UNCHANGED orderVars
  BY <1>17 DEF orderVars, Ordered, phases, waiting
<1> QED BY <1>1, <1>2, <1>3, <1>4, <1>5, <1>6, <1>7, <1>8, <1>9, <1>10, <1>11, <1>12, <1>13,
           <1>14, <1>15, <1>16, <1>17 DEF OrderNext, RunLoop

-----------------------------------------------------------------------------
\* What Develop does to the plan.
LEMMA DevelopMoves ==
  ASSUME Develop
  PROVE  /\ UNCHANGED <<index, replans, builder>>
         /\ plan' = PutLast \/ \E work : Park(PutLast, work)
<1>1. ASSUME NEW work, NEW written, BudgetStop(PutLast, work, written)
      PROVE  /\ UNCHANGED <<index, replans, builder>>
             /\ plan' = PutLast \/ Park(PutLast, work)
  BY <1>1 DEF BudgetStop, Park, ParkFails
<1> QED BY <1>1 DEF Develop

\* The steps of a development whose plan needs no machine and was not made again.
StraightNext ==
  \/ Unpark \/ Develop \/ GatePasses \/ GateFails
  \/ Instruct \/ Approve \/ Retry \/ Restart \/ UNCHANGED orderVars

\* A step that leads to such a plan is one of these, from such a plan.
LEMMA StraightSteps ==
  ASSUME Ordered, Owned, [OrderNext]_orderVars, Straight'
  PROVE  Straight /\ StraightNext /\ (Develop => PutLast = plan)
<1>0. /\ Whole(plan, index, replans) /\ replans \in Nat /\ replans' = 0 /\ Plain(plan')
      /\ plan \in Seq(Phases) /\ Number = index + 1 /\ index \in 0..Len(plan)
      /\ (Straight <=> replans = 0 /\ Plain(plan))
  BY DEF Ordered, Whole, Straight, Plain, Number
<1>1. CASE DevelopWaits
  <2>1. /\ Backward(plan, index) /\ index < Len(plan) /\ plan' = PutLast /\ ~Buildable(PutLast[Number])
        /\ (Misplaced => Numbered(plan))
    BY <1>1 DEF DevelopWaits, Turn, Ordered
  <2>2. Len(PutLast) = Len(plan) /\ PutLast \in Seq(Phases)
    BY <1>0, <2>1, PutLastWhole DEF Whole
  <2>3. Number \in DOMAIN PutLast
    BY <1>0, <2>1, <2>2
  <2> QED BY <1>0, <2>1, <2>3 DEF Plain, Buildable
<1>2. CASE Develop
  <2>1. /\ Backward(plan, index) /\ index < Len(plan) /\ replans' = replans
        /\ plan' = PutLast \/ \E work : Park(PutLast, work)
        /\ (Misplaced => Numbered(plan))
    BY <1>2, DevelopMoves DEF Develop, Turn, Ordered
  <2>2. /\ Whole(PutLast, index, replans) /\ Backward(PutLast, index) /\ Len(PutLast) = Len(plan)
        /\ Plain(PutLast) => PutLast = plan
    BY <1>0, <2>1, PutLastWhole
  <2>3. Plain(PutLast)
    <3>1. ASSUME NEW work, Park(PutLast, work) PROVE Plain(PutLast)
      BY <1>0, <2>1, <2>2, <3>1, ParkWhole
    <3> QED BY <1>0, <2>1, <3>1
  <2> QED BY <1>0, <1>2, <2>1, <2>2, <2>3 DEF StraightNext
<1>3. CASE BuilderLost \/ MoveFails
  <2>1. index < Len(plan) /\ plan' = plan /\ plan[Number].platform
    BY <1>3 DEF BuilderLost, MoveFails, Misplaced, Buildable, Ordered, phases
  <2>2. Number \in DOMAIN plan
    BY <1>0, <2>1
  <2> QED BY <1>0, <2>1, <2>2 DEF Plain
<1>4. CASE BuilderReady
  <2>1. plan' = plan /\ replans' = replans /\ at = "builder"
    BY <1>4 DEF BuilderReady, phases
  <2> QED BY <1>0, <2>1 DEF Owned, OnTurn
<1>5. CASE BuilderComesOrGoes
  BY <1>0, <1>5 DEF BuilderComesOrGoes, phases, Plain
<1>6. CASE Replan \/ StartOver
  BY <1>0, <1>6 DEF Replan, StartOver
<1>7. CASE Architecture
  BY <1>0, <1>7 DEF Architecture, Ordered
<1>8. CASE Unpark \/ GatePasses \/ GateFails \/ Instruct \/ Approve \/ Retry \/ Restart \/ UNCHANGED orderVars
  <2>1. plan' = plan /\ replans' = replans /\ StraightNext
    BY <1>8 DEF StraightNext, Unpark, GatePasses, GateFails, Instruct, Approve, Retry, Restart, orderVars, phases
  <2>2. Develop => PutLast = plan
    <3>1. SUFFICES ASSUME Develop PROVE PutLast = plan
      OBVIOUS
    <3>2. Plain(plan) /\ Number \in DOMAIN plan
      BY <1>0, <2>1, <3>1 DEF Develop, Turn
    <3> QED BY <3>2 DEF PutLast, Misplaced, Buildable, Plain
  <2> QED BY <1>0, <2>1, <2>2
<1> QED BY <1>1, <1>2, <1>3, <1>4, <1>5, <1>6, <1>7, <1>8 DEF OrderNext, RunLoop

\* What has been written ahead, with what is begun now, is each phase's own.
LEMMA WrittenAheadOwn ==
  ASSUME AheadOwn, NEW busy, NEW known, known = WrittenAhead(plan, busy)
  PROVE  \A n \in DOMAIN known : /\ n \in Later(plan) /\ known[n] = plan[n].id
                                 /\ n = Number => n \in DOMAIN ahead
BY DEF AheadOwn, WrittenAhead, Ready

\* Of the phases set aside, those that do not say what they need.
Silent == {n \in DOMAIN parked : ~plan[n].tells}

\* What one phase set aside, in such a plan, makes of the records.
LEMMA ParkRecords ==
  ASSUME Ordered, AheadOwn, ParkedOwn, at = "developing", index < Len(plan),
         Number \notin DOMAIN parked, NEW work, work \subseteq {plan[Number].id}, Park(plan, work)
  PROVE  /\ AheadOwn' /\ ParkedOwn' /\ DraftOwn' /\ OnTurn' /\ at' = "developing" /\ index' = index
         /\ DOMAIN parked' = Joined(plan, Silent, index)
         /\ PutBehind(plan, NeedsIt(plan, index + 1), plan', index, replans)
<1> DEFINE place  == Places(plan, NeedsIt(plan, Number))
           record == [of |-> plan[Number].id, draft |-> work, attempts |-> attempts]
           moving == {n \in DOMAIN parked \cap Later(plan) : ~plan[n].tells} \cup {Number}
           held   == [n \in DOMAIN parked \cup {Number} |-> IF n = Number THEN record ELSE parked[n]]
           L      == Len(plan)
<1>1. /\ plan \in Seq(Phases) /\ L \in Nat /\ DOMAIN plan = 1..L /\ index \in Nat
      /\ Number = index + 1 /\ Number \in 1..L /\ Later(plan) = Number..L
  BY DEF Ordered, Whole, Number, Later
<1>2. /\ parked' = [n \in {place[m] : m \in moving} \cup (DOMAIN parked \ Later(plan)) |->
                      held[IF n \in Later(plan) THEN Standing(place, n) ELSE n]]
      /\ ahead' = Empty /\ draft' = {} /\ at' = "developing" /\ attempts' = 0 /\ index' = index
  BY DEF Park
<1>3. PutBehind(plan, NeedsIt(plan, Number), plan', index, replans)
  <2>1. Whole(plan, index, replans) /\ replans \in Nat /\ Backward(plan, index)
    BY DEF Ordered
  <2> QED BY <2>1, ParkWhole
<1> HIDE DEF place
<1>4. /\ Orders(place, NeedsIt(plan, Number), L) /\ Moved(plan, plan', place) /\ Len(plan') = L
      /\ \A n \in 1..index : place[n] = n
  BY <1>3 DEF PutBehind, place
<1>5. ASSUME NEW m \in Number..L
      PROVE  /\ place[m] \in Number..L /\ Standing(place, place[m]) = m /\ plan'[place[m]].id = plan[m].id
  <2>1. m \in 1..L /\ place[m] \in 1..L /\ Standing(place, place[m]) = m /\ plan'[place[m]].id = plan[m].id
    BY <1>1, <1>4 DEF Orders, Moved
  <2>2. place[m] > index
    <3>1. SUFFICES ASSUME place[m] \in 1..index PROVE FALSE
      BY <1>1, <2>1
    <3>2. place[place[m]] = place[m]
      BY <1>4, <3>1
    <3>3. place[m] = m
      BY <1>4, <2>1, <3>2 DEF Orders
    <3> QED BY <1>1, <3>1, <3>3
  <2> QED BY <1>1, <2>1, <2>2
<1>6. /\ moving = Silent \cup {Number} /\ moving \subseteq Number..L /\ DOMAIN parked \ Later(plan) = {}
      /\ \A m \in moving : m # Number => m \in DOMAIN parked
  BY <1>1 DEF ParkedOwn, Silent
<1>7. DOMAIN parked' = {place[m] : m \in Silent \cup {Number}}
  BY <1>2, <1>6
<1>8. ASSUME NEW m \in moving
      PROVE  /\ place[m] \in Number..L /\ parked'[place[m]].of = plan'[place[m]].id
             /\ parked'[place[m]].draft \subseteq {plan'[place[m]].id}
  <2>1. place[m] \in Later(plan) /\ Standing(place, place[m]) = m /\ plan'[place[m]].id = plan[m].id
    BY <1>1, <1>5, <1>6
  <2>2. parked'[place[m]] = held[m]
    BY <1>2, <2>1
  <2>3. held[m].of = plan[m].id /\ held[m].draft \subseteq {plan[m].id}
    <3>1. CASE m = Number
      BY <3>1
    <3>2. CASE m # Number
      BY <1>6, <3>2 DEF ParkedOwn
    <3> QED BY <3>1, <3>2
  <2> HIDE DEF held, moving
  <2> QED BY <1>1, <2>1, <2>2, <2>3
<1>9. Later(plan)' = Number..L /\ Number' = Number
  <2>1. plan' \in Seq(Phases) /\ DOMAIN plan' = 1..L
    BY <1>1, <1>4 DEF Moved
  <2> QED BY <1>1, <1>2, <2>1 DEF Later, Number
<1>10. ParkedOwn'
  <2> HIDE DEF moving
  <2>1. \A n \in DOMAIN parked' : \E m \in moving : n = place[m]
    BY <1>6, <1>7
  <2> QED BY <1>8, <1>9, <2>1 DEF ParkedOwn
<1>11. AheadOwn' /\ DraftOwn' /\ OnTurn'
  BY <1>2 DEF AheadOwn, DraftOwn, OnTurn, Empty
<1> QED BY <1>1, <1>2, <1>3, <1>7, <1>10, <1>11 DEF place, Joined

\* What Develop leaves when it sets nothing aside: an answer to be built, or a stop.
LEMMA DevelopOwned ==
  ASSUME Ordered, AheadOwn, ParkedOwn, DraftOwn, OnTurn, Develop, PutLast = plan
  PROVE  /\ AheadOwn' /\ ParkedOwn' /\ DraftOwn' /\ OnTurn' /\ index' = index
         /\ \/ /\ plan' = plan /\ parked' = parked
               /\ at' = "decision" /\ asked' = "budget" => NeedsIt(plan, Number) = Later(plan)
            \/ /\ at' = "developing"
               /\ PutBehind(plan, NeedsIt(plan, index + 1), plan', index, replans)
               /\ DOMAIN parked' = Joined(plan, Silent, index)
<1>1. at = "developing" /\ index < Len(plan) /\ Number \notin DOMAIN parked /\ draft \subseteq {Current}
  BY DEF Develop, Turn, Ordered, DraftOwn
<1> DEFINE own == draft \cup {plan[Number].id}
           Calm(written) == \A n \in DOMAIN written : n \in Later(plan) /\ written[n] = plan[n].id /\ n # Number
<1>2. own = {Current}
  BY <1>1 DEF Current
<1>3. ASSUME plan' = plan, index' = index, parked' = parked, Calm(ahead'), at' # "builder", at' # "built",
             draft' \subseteq {Current}, at' = "gate" => draft' = {Current}
      PROVE  AheadOwn' /\ ParkedOwn' /\ DraftOwn' /\ OnTurn'
  BY <1>1, <1>3 DEF AheadOwn, ParkedOwn, DraftOwn, OnTurn, Later, Number, Current
<1>4. ASSUME NEW work, NEW written, work \subseteq {Current}, Calm(written), BudgetStop(plan, work, written)
      PROVE  /\ AheadOwn' /\ ParkedOwn' /\ DraftOwn' /\ OnTurn' /\ index' = index
             /\ \/ /\ plan' = plan /\ parked' = parked
                   /\ at' = "decision" /\ asked' = "budget" => NeedsIt(plan, Number) = Later(plan)
                \/ /\ at' = "developing"
                   /\ PutBehind(plan, NeedsIt(plan, index + 1), plan', index, replans)
                   /\ DOMAIN parked' = Joined(plan, Silent, index)
  <2>1. CASE NeedsIt(plan, Number) # Later(plan)
    <3>1. CASE Park(plan, work)
      BY <1>1, <1>4, <3>1, ParkRecords DEF Current
    <3>2. CASE ParkFails(plan)
      <4>1. /\ plan' = plan /\ draft' = {} /\ ahead' = Empty /\ parked' = parked /\ index' = index
            /\ at' = "failed"
        BY <3>2 DEF ParkFails, Leads
      <4>2. Calm(ahead')
        BY <4>1 DEF Empty
      <4> QED BY <1>3, <4>1, <4>2
    <3> QED BY <1>4, <2>1, <3>1, <3>2 DEF BudgetStop
  <2>2. CASE NeedsIt(plan, Number) = Later(plan)
    <3>1. /\ plan' = plan /\ draft' = work /\ ahead' = written /\ parked' = parked /\ index' = index
          /\ at' = "decision"
      BY <1>4, <2>2 DEF BudgetStop, AskAbout, Leads
    <3> QED BY <1>3, <1>4, <2>2, <3>1
  <2> QED BY <2>1, <2>2
<1>5. PICK busy \in 0..Cardinality(DOMAIN ahead) :
        LET p     == PutLast
            known == WrittenAhead(p, busy)
            fresh == attempts = 0
            rest  == IF fresh THEN Restrict(known, DOMAIN known \ {Number}) ELSE known
            own_1 == draft \cup {p[Number].id}
        IN  \/ /\ fresh /\ Number \in DOMAIN ahead
               /\ \/ draft' = draft \cup {ahead[Number]}
                  \/ draft' = own_1 \cup {ahead[Number]}
               /\ at' = "gate" /\ ahead' = rest /\ plan' = p
               /\ UNCHANGED <<index, parked>>
            \/ /\ draft' = own_1
               /\ at' = "gate" /\ ahead' = rest /\ plan' = p
               /\ UNCHANGED <<index, parked>>
            \/ /\ draft' \in {draft, own_1}
               /\ \/ at' = "failed"
                  \/ at' = "decision" /\ asked' = "choice"
               /\ ahead' = rest /\ plan' = p
               /\ UNCHANGED <<index, parked>>
            \/ BudgetStop(p, IF Spent THEN draft ELSE own_1, rest)
  BY DEF Develop, Leads, AskAbout
<1> DEFINE known == WrittenAhead(plan, busy)
           rest  == IF attempts = 0 THEN Restrict(known, DOMAIN known \ {Number}) ELSE known
<1>6. \A n \in DOMAIN known : /\ n \in Later(plan) /\ known[n] = plan[n].id
                              /\ n = Number => n \in DOMAIN ahead
  BY WrittenAheadOwn
<1> HIDE DEF known
<1>7. Calm(rest)
  <2>1. CASE attempts = 0
    BY <1>6, <2>1 DEF Restrict
  <2>2. CASE attempts # 0
    BY <1>1, <1>6, <2>2 DEF OnTurn
  <2> QED BY <2>1, <2>2
<1>8. \/ /\ Number \in DOMAIN ahead
         /\ \/ draft' = draft \cup {ahead[Number]}
            \/ draft' = own \cup {ahead[Number]}
         /\ at' = "gate" /\ ahead' = rest /\ plan' = plan
         /\ UNCHANGED <<index, parked>>
      \/ /\ draft' = own
         /\ at' = "gate" /\ ahead' = rest /\ plan' = plan
         /\ UNCHANGED <<index, parked>>
      \/ /\ draft' \in {draft, own}
         /\ at' = "failed" \/ (at' = "decision" /\ asked' = "choice")
         /\ ahead' = rest /\ plan' = plan
         /\ UNCHANGED <<index, parked>>
      \/ BudgetStop(plan, IF Spent THEN draft ELSE own, rest)
  BY <1>5 DEF known
<1> HIDE DEF own, rest, Calm
<1>9. CASE BudgetStop(plan, IF Spent THEN draft ELSE own, rest)
  <2> DEFINE work == IF Spent THEN draft ELSE own
  <2>1. work \subseteq {Current}
    BY <1>1, <1>2
  <2> HIDE DEF work
  <2> QED BY <1>4, <1>7, <1>9, <2>1 DEF work
<1>10. CASE /\ Number \in DOMAIN ahead
            /\ \/ draft' = draft \cup {ahead[Number]}
               \/ draft' = own \cup {ahead[Number]}
            /\ at' = "gate" /\ ahead' = rest /\ plan' = plan
            /\ UNCHANGED <<index, parked>>
  <2>1. ahead[Number] = Current
    BY <1>10 DEF AheadOwn, Current
  <2> QED BY <1>1, <1>2, <1>3, <1>7, <1>10, <2>1
<1>11. CASE /\ draft' = own
            /\ at' = "gate" /\ ahead' = rest /\ plan' = plan
            /\ UNCHANGED <<index, parked>>
  BY <1>1, <1>2, <1>3, <1>7, <1>11
<1>12. CASE /\ draft' \in {draft, own}
            /\ at' = "failed" \/ (at' = "decision" /\ asked' = "choice")
            /\ ahead' = rest /\ plan' = plan
            /\ UNCHANGED <<index, parked>>
  BY <1>1, <1>2, <1>3, <1>7, <1>12
<1> QED BY <1>8, <1>9, <1>10, <1>11, <1>12

AllOwn == AheadOwn /\ ParkedOwn /\ DraftOwn /\ OnTurn

\* Every step leaves each phase its own work.
LEMMA OwnedStep ==
  ASSUME Ordered, Owned, [OrderNext]_orderVars PROVE Owned'
<1> SUFFICES ASSUME Straight' PROVE AllOwn'
  BY DEF Owned, AllOwn
<1>1. Straight /\ StraightNext /\ (Develop => PutLast = plan)
  BY StraightSteps
<1>2. AheadOwn /\ ParkedOwn /\ DraftOwn /\ OnTurn
  BY <1>1 DEF Owned
<1>3. /\ plan \in Seq(Phases) /\ index \in 0..Len(plan) /\ Number = index + 1
      /\ Later(plan) = Number..Len(plan)
  BY DEF Ordered, Whole, Number, Later
<1>4. CASE Unpark
  <2>1. /\ at = "developing" /\ at' = "decision" /\ asked' = "budget" /\ plan' = plan /\ index' = index
        /\ ahead' = ahead /\ parked' = Restrict(parked, DOMAIN parked \ {Number})
        /\ draft' \in {draft, draft \cup parked[Number].draft} /\ Number \in DOMAIN parked
    BY <1>4 DEF Unpark, AskAbout, Leads
  <2>2. parked[Number].draft \subseteq {Current} /\ draft \subseteq {Current}
    BY <1>2, <2>1 DEF ParkedOwn, DraftOwn, Current
  <2>3. AheadOwn' /\ DraftOwn'
    BY <1>2, <2>1, <2>2 DEF AheadOwn, DraftOwn, Later, Number, Current
  <2>4. ParkedOwn'
    BY <1>2, <2>1 DEF ParkedOwn, Restrict, Later, Number
  <2>5. OnTurn'
    BY <2>1 DEF OnTurn, Restrict, Number
  <2> QED BY <2>3, <2>4, <2>5 DEF AllOwn
<1>5. CASE Develop
  BY <1>1, <1>2, <1>5, DevelopOwned DEF AllOwn
<1>6. CASE GatePasses
  <2>1. /\ at = "gate" /\ plan' = plan /\ index' = Number /\ ahead' = ahead /\ parked' = parked
        /\ attempts' = 0 /\ draft' = {} /\ at' = IF Number = Len(plan) THEN "built" ELSE "developing"
    BY <1>6 DEF GatePasses, Leads, aside
  <2>2. Number \notin DOMAIN parked /\ Number \notin DOMAIN ahead
    BY <1>2, <2>1 DEF OnTurn
  <2>3. Later(plan)' = (Number + 1)..Len(plan) /\ Number' = Number + 1
    BY <1>3, <2>1 DEF Later, Number
  <2>4. AheadOwn'
    BY <1>2, <1>3, <2>1, <2>2, <2>3 DEF AheadOwn
  <2>5. ParkedOwn'
    BY <1>2, <1>3, <2>1, <2>2, <2>3 DEF ParkedOwn
  <2>6. DraftOwn'
    BY <2>1 DEF DraftOwn
  <2>7. OnTurn'
    BY <1>3, <2>1, <2>3, <2>5, <2>4 DEF OnTurn, ParkedOwn, AheadOwn
  <2> QED BY <2>4, <2>5, <2>6, <2>7 DEF AllOwn
<1>7. CASE GateFails \/ Approve \/ Retry
  <2>1. /\ plan' = plan /\ index' = index /\ ahead' = ahead /\ parked' = parked /\ draft' = draft
        /\ Number \notin DOMAIN parked /\ Number \notin DOMAIN ahead
        /\ at' \in {"failed", "developing", "decision"} /\ at \in {"gate", "decision", "failed"}
    BY <1>2, <1>7 DEF GateFails, Approve, Retry, Leads, AskAbout, phases, aside, OnTurn
  <2> QED BY <1>2, <2>1 DEF AllOwn, AheadOwn, ParkedOwn, DraftOwn, OnTurn, Later, Number, Current
<1>8. CASE Instruct
  <2>1. /\ plan' = plan /\ index' = index /\ ahead' = ahead /\ parked' = parked /\ draft' = draft
        /\ at = "decision" /\ at' = "developing" /\ (asked = "budget" => attempts' = 0)
    BY <1>8 DEF Instruct, Leads, phases, aside
  <2> QED BY <1>2, <2>1 DEF AllOwn, AheadOwn, ParkedOwn, DraftOwn, OnTurn, Later, Number, Current
<1>9. CASE Restart
  <2>1. /\ plan' = plan /\ index' = index /\ ahead' = Empty /\ parked' = parked /\ draft' = draft
        /\ at' = at
    BY <1>9 DEF Restart, phases
  <2> QED BY <1>2, <2>1 DEF AllOwn, AheadOwn, ParkedOwn, DraftOwn, OnTurn, Later, Number, Current, Empty
<1>10. CASE UNCHANGED orderVars
  BY <1>2, <1>10 DEF orderVars, phases, phase, aside, waiting, AllOwn, AheadOwn, ParkedOwn, DraftOwn,
                     OnTurn, Later, Number, Current
<1> QED BY <1>1, <1>4, <1>5, <1>6, <1>7, <1>8, <1>9, <1>10 DEF StraightNext

\* Who is asked about a phase over its budget leaves nothing that could go on.
LEMMA AskedAlone ==
  ASSUME NEW p \in Seq(Phases), NEW N \in 1..Len(p), NEW S, S \subseteq N..Len(p), N \in S,
         \A m \in N..Len(p) : \E q \in S : m \in NeedsIt(p, q)
  PROVE  N..Len(p) = UNION {NeedsIt(p, n) : n \in S}
<1>1. \A n \in S : NeedsIt(p, n) \subseteq N..Len(p)
  <2>1. SUFFICES ASSUME NEW n \in S PROVE NeedsIt(p, n) \subseteq N..Len(p)
    OBVIOUS
  <2>2. n \in 1..Len(p) /\ n >= N
    OBVIOUS
  <2>3. NeedsIt(p, n) \subseteq n..Len(p)
    BY <2>2, NeedsItAfter
  <2> QED BY <2>2, <2>3
<1> QED BY <1>1

\* Every step keeps what is left covered by what is set aside, and asks nobody early.
LEMMA AsksStep ==
  ASSUME Ordered, Owned, Asks, [OrderNext]_orderVars PROVE Asks'
<1> SUFFICES ASSUME Straight'
             PROVE  /\ Covered(plan', DOMAIN parked', index')
                    /\ at' = "decision" /\ asked' = "budget" => AskedLast'
  BY DEF Asks, AskedLast
<1>1. Straight /\ StraightNext /\ (Develop => PutLast = plan)
  BY StraightSteps
<1>2. /\ AheadOwn /\ ParkedOwn /\ DraftOwn /\ OnTurn
      /\ Covered(plan, DOMAIN parked, index) /\ AskedLast
  BY <1>1 DEF Owned, Asks
<1>3. /\ plan \in Seq(Phases) /\ Len(plan) \in Nat /\ index \in Nat /\ index \in 0..Len(plan)
      /\ Number = index + 1 /\ Later(plan) = Number..Len(plan)
      /\ Whole(plan, index, replans) /\ replans \in Nat /\ (at # "built" => index < Len(plan))
  BY DEF Ordered, Whole, Number, Later
<1>4. DOMAIN parked \subseteq Number..Len(plan)
  BY <1>2, <1>3 DEF ParkedOwn
<1>5. CASE Unpark
  <2>1. /\ at' = "decision" /\ asked' = "budget" /\ plan' = plan /\ index' = index /\ at = "developing"
        /\ DOMAIN parked' = DOMAIN parked \ {Number} /\ Number \in DOMAIN parked
    BY <1>5 DEF Unpark, AskAbout, Leads, Restrict
  <2>2. Covered(plan, DOMAIN parked \ {Number}, index)
    <3> DEFINE S == DOMAIN parked
    <3>1. \A n \in S \ {Number} : n > Number
      BY <1>3, <1>4
    <3>2. \A n \in S \ {Number} : \A m \in n..Len(plan) :
            \E q \in S \ {Number} : q >= n /\ m \in NeedsIt(plan, q)
      <4>1. SUFFICES ASSUME NEW n \in S \ {Number}, NEW m \in n..Len(plan)
                     PROVE  \E q \in S \ {Number} : q >= n /\ m \in NeedsIt(plan, q)
        OBVIOUS
      <4>2. PICK q \in S : q >= n /\ m \in NeedsIt(plan, q)
        BY <1>2 DEF Covered
      <4>3. q # Number
        BY <1>3, <1>4, <3>1, <4>2
      <4> QED BY <4>2, <4>3
    <3> QED BY <1>2, <3>2 DEF Covered
  <2>3. \A m \in Number..Len(plan) : \E q \in DOMAIN parked : m \in NeedsIt(plan, q)
    BY <1>2, <2>1 DEF Covered
  <2>4. Number \in 1..Len(plan)
    BY <1>3, <2>1
  <2>5. Later(plan) = UNION {NeedsIt(plan, n) : n \in DOMAIN parked}
    BY <1>3, <1>4, <2>1, <2>3, <2>4, AskedAlone
  <2>6. DOMAIN parked = ((DOMAIN parked \ {Number}) \cap Later(plan)) \cup {Number}
    BY <1>3, <1>4, <2>1
  <2>7. AskedLast'
    <3>1. Later(plan)' = Later(plan) /\ Number' = Number
      BY <2>1 DEF Later, Number
    <3> QED BY <2>1, <2>5, <2>6, <3>1 DEF AskedLast
  <2> QED BY <2>1, <2>2, <2>7
<1>6. CASE Develop
  <2> DEFINE N == index + 1
  <2>1. \/ /\ plan' = plan /\ parked' = parked /\ index' = index
           /\ at' = "decision" /\ asked' = "budget" => NeedsIt(plan, Number) = Later(plan)
        \/ /\ at' = "developing" /\ index' = index
           /\ PutBehind(plan, NeedsIt(plan, N), plan', index, replans)
           /\ DOMAIN parked' = Joined(plan, Silent, index)
    BY <1>1, <1>2, <1>6, DevelopOwned
  <2>2. index < Len(plan) /\ Number \notin DOMAIN parked
    BY <1>3, <1>6 DEF Develop, Turn
  <2>3. CASE /\ plan' = plan /\ parked' = parked /\ index' = index
             /\ at' = "decision" /\ asked' = "budget" => NeedsIt(plan, Number) = Later(plan)
    <3>1. /\ Later(plan)' = Later(plan) /\ Number' = Number /\ DOMAIN parked' = DOMAIN parked
      BY <2>3 DEF Later, Number
    <3>2. ASSUME at' = "decision", asked' = "budget" PROVE AskedLast'
      <4> DEFINE S == (DOMAIN parked \cap Later(plan)) \cup {Number}
      <4>1. Number \in 1..Len(plan) /\ Number \in S /\ S \subseteq Number..Len(plan)
        BY <1>3, <2>2
      <4>2. \A m \in Number..Len(plan) : \E q \in S : m \in NeedsIt(plan, q)
        BY <1>3, <2>3, <3>2, <4>1
      <4> HIDE DEF S
      <4>3. Later(plan) = UNION {NeedsIt(plan, n) : n \in S}
        BY <1>3, <4>1, <4>2, AskedAlone
      <4> QED BY <2>3, <3>1, <4>3 DEF AskedLast, S
    <3> QED BY <1>2, <2>3, <3>1, <3>2
  <2>4. CASE /\ at' = "developing" /\ index' = index
             /\ PutBehind(plan, NeedsIt(plan, N), plan', index, replans)
             /\ DOMAIN parked' = Joined(plan, Silent, index)
    <3>1. Covered(plan, Silent, index)
      <4>1. ASSUME NEW n \in Silent, NEW m \in n..Len(plan)
            PROVE  \E q \in Silent : q >= n /\ m \in NeedsIt(plan, q)
        <5>1. PICK q \in DOMAIN parked : q >= n /\ m \in NeedsIt(plan, q)
          BY <1>2, <4>1 DEF Covered, Silent
        <5>2. q = n \/ q > n
          BY <1>3, <1>4, <5>1 DEF Silent
        <5>3. ~plan[q].tells
          BY <1>2, <5>2 DEF Covered, Silent
        <5> QED BY <5>1, <5>3 DEF Silent
      <4> QED BY <1>2, <4>1 DEF Covered, Silent
    <3>2. Silent \subseteq (index + 1)..Len(plan) /\ index + 1 \notin Silent
      BY <1>3, <1>4, <2>2 DEF Silent
    <3>3. Backward(plan, index) /\ Plain(plan)
      BY <1>1, <1>6 DEF Ordered, Straight, Plain, Develop, Turn
    <3>4. Covered(plan', Joined(plan, Silent, index), index)
      BY <1>3, <2>2, <2>4, <3>1, <3>2, <3>3, ParkCovers
    <3> QED BY <2>4, <3>4
  <2> QED BY <2>1, <2>3, <2>4
<1>7. CASE GatePasses
  <2>1. /\ plan' = plan /\ index' = Number /\ parked' = parked /\ at' # "decision"
    BY <1>7 DEF GatePasses, Leads, aside
  <2>2. \A n \in DOMAIN parked : plan[n].tells => plan[n].needs \subseteq 1..index
    BY <1>2 DEF Covered
  <2>3. 1..index \subseteq 1..Number
    BY <1>3
  <2>4. Covered(plan, DOMAIN parked, Number)
    BY <1>2, <2>2, <2>3 DEF Covered
  <2> QED BY <2>1, <2>4
<1>8. CASE GateFails \/ Instruct \/ Approve \/ Retry \/ Restart
  <2>1. /\ plan' = plan /\ index' = index /\ parked' = parked
        /\ Number' = Number /\ Later(plan)' = Later(plan)
        /\ at' = "decision" /\ asked' = "budget" => at = "decision" /\ asked = "budget"
    BY <1>8 DEF GateFails, Instruct, Approve, Retry, Restart, Leads, AskAbout, phases, aside, waiting,
                Number, Later
  <2> QED BY <1>1, <1>2, <2>1 DEF AskedLast
<1>9. CASE UNCHANGED orderVars
  <2>1. /\ plan' = plan /\ index' = index /\ parked' = parked /\ at' = at /\ asked' = asked
        /\ Number' = Number /\ Later(plan)' = Later(plan)
    BY <1>9 DEF orderVars, phases, aside, waiting, Number, Later
  <2> QED BY <1>1, <1>2, <2>1 DEF AskedLast
<1> QED BY <1>1, <1>5, <1>6, <1>7, <1>8, <1>9 DEF StraightNext

-----------------------------------------------------------------------------
\* The three together are invariant: Owned and Asks speak of plans that Ordered bounds.
OrderInv == Ordered /\ Owned /\ Asks

\* They hold from the first plan on, and no step of the engine ends them.
LEMMA OrderInvariant == OrderSpec => []OrderInv
<1>1. OrderInit => OrderInv
  <2> SUFFICES ASSUME OrderInit PROVE Owned /\ Asks
    BY OrderedInit DEF OrderInv
  <2>1. /\ at = "developing" /\ parked = Empty /\ ahead = Empty /\ draft = {} /\ DOMAIN Empty = {}
    BY DEF OrderInit, Empty
  <2>2. Owned
    BY <2>1 DEF Owned, AheadOwn, ParkedOwn, DraftOwn, OnTurn
  <2>3. Asks
    BY <2>1 DEF Asks, AskedLast, Covered
  <2> QED BY <2>2, <2>3
<1>2. OrderInv /\ [OrderNext]_orderVars => OrderInv'
  BY OrderedStep, OwnedStep, AsksStep DEF OrderInv
<1> QED BY <1>1, <1>2, PTL DEF OrderSpec

\* However phases are set aside, put last and planned again, each stands behind all it was
\* planned to need, by the numbers it carries -- but for what a machine must build, when it
\* needs none itself (_reorder, engine.py).
THEOREM NeedsStayFirst == OrderSpec => []NeedsComeFirst
<1>1. OrderInv => NeedsComeFirst
  BY DEF OrderInv, Ordered, Whole, Backward, Excused, Later, Number, NeedsComeFirst
<1> QED BY <1>1, OrderInvariant, PTL

\* No phase is lost or doubled by a move, and none that is built changes its number
\* (_park and _put_unbuildable_last move what is from index on, engine.py).
THEOREM WhatIsBuiltStays == OrderSpec => []BuiltStaysPut
<1>1. OrderInv => BuiltStaysPut
  BY DEF OrderInv, Ordered, Whole, BuiltStaysPut
<1> QED BY <1>1, OrderInvariant, PTL

\* Without machines and until a re-plan, nothing set aside (_park), written ahead
\* (_write_ahead) or staged for a gate is ever another phase's (engine.py).
THEOREM EveryPhaseKeepsItsWork == OrderSpec => []OwnWork
<1>1. OrderInv => OwnWork
  BY DEF OrderInv, Owned, OwnWork, AheadOwn, ParkedOwn, DraftOwn
<1> QED BY <1>1, OrderInvariant, PTL

\* Without machines and until a re-plan, a person is asked about a phase over its budget only
\* once every phase left was set aside too or needs one that was (_phase_budget_stop).
THEOREM NobodyIsAskedEarly == OrderSpec => []AskedLast
<1>1. OrderInv => AskedLast
  BY DEF OrderInv, Asks
<1> QED BY <1>1, OrderInvariant, PTL

\* Whatever the plan, nobody waits for a machine while a phase that needs none could be
\* built: _put_unbuildable_last puts one first whenever there is one (engine.py).
THEOREM OnlyMachinesAreWaitedFor == OrderSpec => WaitsForMachinesAlone
<1>1. OrderInv /\ [OrderNext]_orderVars =>
        [at = "developing" /\ at' = "builder" => \A n \in Later(plan') : plan'[n].platform]_orderVars
  <2> SUFFICES ASSUME OrderInv, [OrderNext]_orderVars, at = "developing", at' = "builder"
               PROVE  \A n \in Later(plan') : plan'[n].platform
    OBVIOUS
  <2>1. DevelopWaits
    <3>1. \A work : Park(PutLast, work) => at' = at
      BY DEF Park
    <3>2. \A work, written : BudgetStop(PutLast, work, written) => at' # "builder"
      BY <3>1 DEF BudgetStop, ParkFails, AskAbout, Leads
    <3>3. Develop => at' # "builder"
      BY <3>2 DEF Develop, AskAbout, Leads
    <3> QED BY <3>3 DEF OrderNext, RunLoop, Unpark, MoveFails, GatePasses, GateFails, BuilderLost, BuilderReady,
                        BuilderComesOrGoes, Instruct, Approve, Retry, Replan, StartOver, Architecture,
                        Restart, AskAbout, Leads, orderVars
  <2>2. /\ plan' = PutLast /\ ~Buildable(PutLast[Number])
    BY <2>1 DEF DevelopWaits
  <2>3. /\ Whole(plan, index, replans) /\ replans \in Nat /\ Backward(plan, index) /\ index < Len(plan)
        /\ (Misplaced => Numbered(plan))
    BY <2>1 DEF DevelopWaits, Turn, OrderInv, Ordered
  <2>4. /\ \A n \in Number..Len(plan) : PutLast[n].platform
        /\ PutLast \in Seq(Phases) /\ Len(PutLast) = Len(plan) /\ Len(plan) \in Nat /\ Number \in Nat
    BY <2>2, <2>3, PutLastWhole DEF Whole, Number
  <2> QED BY <2>2, <2>4 DEF Later
<1> QED BY <1>1, OrderInvariant, PTL DEF OrderSpec, WaitsForMachinesAlone

=============================================================================
