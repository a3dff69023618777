------------------------------ MODULE InboxProofs ------------------------------
(***************************************************************************)
(* What is said in time is read in time, by one answer; nothing said is    *)
(* taken back; and what an answer cost is counted once: for any number of  *)
(* phases, messages, questions, parts, presses and restarts.               *)
(***************************************************************************)
EXTENDS Inbox, TLAPS

RunAt  == {"off", "step", "bill", "mark", "read", "call", "consume", "part", "green", "red",
           "commit", "moved", "get", "save", "billed"}
BillAt == {"get", "save", "billed"}
Bills  == BillAt \cup {"bill", "mark"}

\* Who holds the lock, and where that leaves everybody.
Places ==
  /\ at["run"] \in RunAt /\ at["person"] \in {"off", "save", "move"}
  /\ \A q \in Questions : at[q] \in {"off", "think", "answered"} \cup BillAt
  /\ lock = "run" <=> at["run"] # "off"
  /\ \A q \in Questions : lock = q <=> at[q] \in BillAt

\* A copy knows of nothing that the table does not have, and what waits to be written is
\* not there yet.
Copies ==
  /\ \A t \in Threads, m \in Messages :
       /\ m \in knows[t] => status[m] # "none"
       /\ m \in knowsRead[t] => status[m] = "read"
  /\ \A m \in Messages : sending[m] => status[m] = "none"

\* What the green gate asked stays true until the commit.
AskedFor ==
  at["run"] = "commit" =>
    \A m \in Messages : status[m] = "pending" /\ to[m] = index => m \in late

InFront(m) == IF at["run"] = "consume" /\ m \in pend THEN 1 ELSE 0

\* What each instruction was put in front of.
Shown ==
  /\ at["run"] \notin {"call", "consume"} => pend = {}
  /\ \A m \in Messages :
       /\ m \in pend => status[m] = "pending"
       /\ status[m] = "none" => shown[m] = 0
       /\ status[m] = "read" => shown[m] > 0 /\ shown[m] <= 1 + crashes
       /\ status[m] = "pending" => shown[m] >= InFront(m) /\ shown[m] <= crashes + InFront(m)

\* A bill is with the thread that has saved it and not yet marked it.
Carries(t, q) == at[t] \in {"mark", "billed"} /\ q \in owed[t]
Carried(q)    == \E t \in Threads \ {"person"} : Carries(t, q)

\* What each copy of the spend may say.
Fits(spend, q) ==
  spend[q] <= 1 + crashes /\ (bill[q] # "billed" /\ ~ Carried(q) => spend[q] <= crashes)

Spent ==
  \A q \in Questions :
    /\ asked[q] \in {"none", "answering"} => bill[q] = "none"
    /\ at[q] = "think" => asked[q] = "answering"
    /\ Fits(counted, q)
    /\ at["person"] = "save" => Fits(sees["person"].counted, q)
    /\ ~ clashed /\ (bill[q] = "billed" \/ Carried(q)) => counted[q] > 0

Billing ==
  \A t \in Threads \ {"person"}, q \in Questions :
    /\ at[t] \in {"mark", "save", "billed"} /\ q \in owed[t] => bill[q] = "owed"
    /\ at[t] = "save" =>
         /\ sees[t].counted[q] <= 1 + crashes
         /\ bill[q] # "billed" => sees[t].counted[q] <= crashes
         /\ ~ clashed => sees[t].counted[q] = counted[q]

Said == Copies /\ AskedFor /\ WordsAreReadInTime /\ Shown
Inv  == TypeOK /\ Places /\ Said /\ Spent /\ Billing

-----------------------------------------------------------------------------
LEMMA Names ==
  /\ "run" \in Threads /\ "person" \in Threads /\ Questions \subseteq Threads
  /\ "run" \notin Questions /\ "person" \notin Questions /\ "nobody" \notin Questions
  /\ Messages \subseteq Nat /\ Phases \in Nat /\ MaxParts \in Nat
BY InboxAssumption DEF Threads, Messages

\* To save a copy of the inbox changes nothing in the table: it knows of nothing new.
LEMMA NothingNew == ASSUME Inv, NEW t \in Threads PROVE MergeInbox(knows[t], knowsRead[t]) = status
BY DEF Inv, Said, Copies, TypeOK, MergeInbox

\* The lock keeps the threads that bill apart.
LEMMA OneBills ==
  ASSUME Inv, NEW t \in Threads \ {"person"}, at[t] \in Bills
  PROVE  \A u \in Threads \ {"person"} : at[u] \in Bills => u = t
BY Names DEF Inv, Places, Threads, BillAt, RunAt, Bills

\* The run goes on, and keeps the lock.
LEMMA RunMoves ==
  ASSUME Inv, NEW x \in RunAt \ {"off"}, at["run"] # "off", at' = [at EXCEPT !["run"] = x],
         lock' = lock
  PROVE  Places'
BY Names DEF Inv, Places, TypeOK, RunAt, BillAt, Threads

\* Whoever bills goes on, or lets go of the lock.
LEMMA BillMoves ==
  ASSUME Inv, NEW t \in Threads \ {"person"}, at[t] \in BillAt, NEW x, at' = [at EXCEPT ![t] = x],
         \/ x \in BillAt /\ lock' = lock
         \/ x = "off" /\ lock' = IF lock = t THEN "nobody" ELSE lock
  PROVE  Places'
<1>1. lock = t BY Names DEF Inv, Places, RunAt, BillAt, Threads
<1>2. at'[t] = x /\ \A u \in Threads : u # t => at'[u] = at[u] BY DEF Inv, TypeOK
<1> QED BY Names, <1>1, <1>2 DEF Inv, Places, RunAt, BillAt, Threads

\* A step that neither bills nor asks leaves the money where it is.
LEMMA MoneyStays ==
  ASSUME Inv, UNCHANGED <<counted, asked, bill, crashes, clashed, sees, owed>>,
         \A t \in Threads :
           \/ at'[t] = at[t]
           \/ at[t] \notin {"mark", "billed"} /\ at'[t] \notin {"mark", "save", "billed", "think"}
  PROVE  Spent' /\ Billing'
<1> USE Names
<1>1. ASSUME NEW q \in Questions PROVE Carried(q)' <=> Carried(q) BY DEF Carried, Carries
<1>2. Spent' BY <1>1 DEF Inv, Spent, Fits
<1>3. Billing' BY DEF Inv, Billing
<1> QED BY <1>2, <1>3

\* The parts of TypeOK.
RowOK ==
  /\ state \in {"developing", "gate", "waiting", "done"} /\ index \in Nat \ {0}
  /\ counted \in [Questions -> Nat] /\ kept \in Nat
TableOK ==
  /\ status \in [Messages -> {"none", "pending", "read"}] /\ to \in [Messages -> 0..Phases]
  /\ asked \in [Questions -> {"none", "answering", "answered", "failed"}]
  /\ bill \in [Questions -> {"none", "owed", "billed"}]
SeesOK ==
  sees \in [Threads -> [state : {"developing", "gate", "waiting", "done"},
                        counted : [Questions -> Nat], kept : Nat]]
CopiesOK ==
  /\ knows \in [Threads -> SUBSET Messages] /\ knowsRead \in [Threads -> SUBSET Messages]
  /\ owed \in [Threads -> SUBSET Questions]
PlaceOK ==
  /\ lock \in {"nobody", "run"} \cup Questions
  /\ at \in [Threads -> {"off", "step", "bill", "mark", "read", "call", "consume", "part",
                         "green", "red", "commit", "moved", "get", "save", "billed",
                         "think", "answered", "move"}]
RestOK ==
  /\ role \in {"writer", "qa"} /\ pend \subseteq Messages
  /\ part \in Nat /\ allowed \in Nat /\ steered \in BOOLEAN /\ wanted \in BOOLEAN
  /\ sending \in [Messages -> BOOLEAN] /\ shown \in [Messages -> Nat]
  /\ late \subseteq Messages /\ clashed \in BOOLEAN /\ presses \in Nat /\ crashes \in Nat

LEMMA TypeParts ==
  /\ TypeOK => RowOK /\ TableOK /\ SeesOK /\ CopiesOK /\ PlaceOK /\ RestOK
  /\ (RowOK /\ TableOK /\ SeesOK /\ CopiesOK /\ PlaceOK /\ RestOK)' => TypeOK'
  /\ RowOK /\ TableOK /\ SeesOK /\ CopiesOK /\ PlaceOK /\ RestOK => TypeOK
BY DEF TypeOK, RowOK, TableOK, SeesOK, CopiesOK, PlaceOK, RestOK

LEMMA Starts == Init => Inv
<1> SUFFICES ASSUME Init PROVE Inv OBVIOUS
<1> USE Names
<1>1. TypeOK
  <2>1. RowOK /\ TableOK BY DEF Init, RowOK, TableOK, Nothing, Anyone
  <2>2. SeesOK BY DEF Init, SeesOK, Blank, Nothing
  <2>3. CopiesOK /\ PlaceOK BY DEF Init, CopiesOK, PlaceOK
  <2>4. RestOK BY DEF Init, RestOK
  <2> QED BY <2>1, <2>2, <2>3, <2>4, TypeParts
<1>2. Places BY DEF Init, Places, RunAt, BillAt
<1>3. Said BY DEF Init, Said, Copies, AskedFor, WordsAreReadInTime, Pending, Shown, InFront
<1>4. Spent BY DEF Init, Spent, Fits, Carried, Carries, Nothing, Blank
<1>5. Billing BY DEF Init, Billing
<1> QED BY <1>1, <1>2, <1>3, <1>4, <1>5 DEF Inv

-----------------------------------------------------------------------------
\* The run.
LEMMA EnterKeeps == ASSUME Inv, Enter PROVE Inv'
<1> USE Names
<1>1. TypeOK' BY DEF Inv, TypeOK, Anyone, Enter, Goes, Written, Read, row, table, copies, call,
      parts, history
<1>2. Places' BY DEF Inv, Places, RunAt, BillAt, TypeOK, Enter, Goes, Written, Read, row, table,
      copies, call, parts, history
<1>3. Said' BY DEF Inv, Said, Copies, AskedFor, WordsAreReadInTime, Pending, Shown, InFront,
      TypeOK, Places, Enter, Goes, Written, Read, row, table, copies, call, parts, history
<1>4. Spent' /\ Billing' BY MoneyStays DEF Inv, TypeOK, Places, Enter, Goes, Written, Read,
      copies, history, row, table, call
<1> QED BY <1>1, <1>2, <1>3, <1>4 DEF Inv

LEMMA DevelopKeeps == ASSUME Inv, Develop PROVE Inv'
<1> USE Names
<1>x. /\ at'["run"] \in RunAt \ {"off"} /\ at["run"] \notin {"off", "mark", "billed"}
      /\ at'["run"] \notin {"mark", "save", "billed", "think"}
      /\ at' = [at EXCEPT !["run"] = at'["run"]]
  BY DEF Develop, Goes, RunAt, Inv, TypeOK
<1>1. TypeOK' BY DEF Inv, TypeOK, Anyone, Develop, Goes, FirstPart, row, table, copies, call,
      parts, history
<1>2. Places' BY <1>x, RunMoves DEF Develop, call, copies, parts, row, table
<1>3. Said' BY DEF Inv, Said, Copies, AskedFor, WordsAreReadInTime, Pending, Shown, InFront,
      TypeOK, Places, Develop, Goes, FirstPart, row, table, copies, call, parts, history
<1>4. Spent' /\ Billing' BY <1>x, MoneyStays DEF Inv, TypeOK, Develop, copies, history, row,
      table, call
<1> QED BY <1>1, <1>2, <1>3, <1>4 DEF Inv

LEMMA BillAnswersKeeps == ASSUME Inv, BillAnswers PROVE Inv'
<1> USE Names
<1>s. status' = status BY NothingNew DEF BillAnswers, SavesInbox
<1>u. Unbilled \subseteq Questions BY DEF Unbilled
<1>1. TypeOK'
  <2>1. RowOK' /\ SeesOK'
    <3>1. counted' \in [Questions -> Nat]
      <4>1. Added(counted, Unbilled) \in [Questions -> Nat]
        BY TypeParts DEF Inv, RowOK, Added
      <4> QED BY <4>1, TypeParts DEF Inv, RowOK, BillAnswers
    <3> QED BY <3>1, TypeParts DEF Inv, RowOK, SeesOK, BillAnswers
  <2>2. TableOK' /\ RestOK'
    BY TypeParts, <1>s DEF Inv, TableOK, RestOK, BillAnswers, call, parts, history
  <2>3. CopiesOK' BY TypeParts, <1>u DEF Inv, CopiesOK, BillAnswers
  <2>4. PlaceOK' BY TypeParts DEF Inv, PlaceOK, BillAnswers, Goes
  <2> QED BY <2>1, <2>2, <2>3, <2>4, TypeParts
<1>2. Places'
  <2>1. \E x \in RunAt \ {"off"} : at["run"] # "off" /\ at' = [at EXCEPT !["run"] = x]
    BY DEF BillAnswers, Goes, RunAt
  <2> QED BY <2>1, RunMoves DEF BillAnswers
<1>3. Said'
  BY <1>s DEF Inv, Said, Copies, AskedFor, WordsAreReadInTime, Pending, Shown, InFront, TypeOK,
     Places, BillAnswers, Goes, call, parts, history
<1>4. CASE Unbilled = {}
  <2>1. at' = [at EXCEPT !["run"] = "read"] /\ UNCHANGED <<counted, owed>>
    BY <1>4 DEF BillAnswers, Goes
  <2>2. Spent' /\ Billing'
    BY <2>1, MoneyStays DEF Inv, TypeOK, BillAnswers, history
  <2> QED BY <1>1, <1>2, <1>3, <2>2 DEF Inv
<1>5. CASE Unbilled # {}
  <2>1. /\ at' = [at EXCEPT !["run"] = "mark"] /\ owed' = [owed EXCEPT !["run"] = Unbilled]
        /\ counted' = Added(counted, Unbilled) /\ at["run"] = "bill"
        /\ UNCHANGED <<bill, asked, clashed, crashes, sees>>
    BY <1>5 DEF BillAnswers, Goes, history
  <2>2. \A t \in Threads \ {"person"} : at[t] \in Bills => t = "run"
    BY <2>1, OneBills DEF Bills
  <2>3. \A q \in Questions : ~ Carried(q) BY <2>1, <2>2 DEF Carried, Carries, Bills, BillAt
  <2>4. \A q \in Questions : Carried(q)' <=> q \in Unbilled
    BY <2>1, <2>2 DEF Carried, Carries, Bills, BillAt, Inv, TypeOK
  <2>5. \A q \in Questions : counted'[q] = counted[q] + (IF q \in Unbilled THEN 1 ELSE 0)
    BY <2>1 DEF Added
  <2>6. Spent'
    <3> SUFFICES ASSUME NEW q \in Questions
        PROVE  /\ asked[q] \in {"none", "answering"} => bill[q] = "none"
               /\ at'[q] = "think" => asked[q] = "answering"
               /\ Fits(counted, q)'
               /\ at'["person"] = "save" => Fits(sees["person"].counted, q)'
               /\ ~ clashed' /\ (bill[q] = "billed" \/ Carried(q)') => counted'[q] > 0
      BY <2>1 DEF Spent
    <3>1. /\ asked[q] \in {"none", "answering"} => bill[q] = "none"
          /\ at'[q] = "think" => asked[q] = "answering"
      BY <2>1 DEF Inv, Spent, TypeOK
    <3>2. /\ counted[q] \in Nat /\ crashes \in Nat /\ counted[q] <= 1 + crashes
          /\ bill[q] # "billed" => counted[q] <= crashes
          /\ ~ clashed /\ bill[q] = "billed" => counted[q] > 0
      BY <2>3 DEF Inv, Spent, Fits, TypeOK
    <3>3. q \in Unbilled => bill[q] = "owed" BY DEF Unbilled
    <3>4. Fits(counted, q)' BY <2>1, <2>4, <2>5, <3>2, <3>3 DEF Fits
    <3>5. at'["person"] = "save" => Fits(sees["person"].counted, q)'
      BY <2>1, <2>3 DEF Fits, Inv, Spent, TypeOK
    <3>6. ~ clashed' /\ (bill[q] = "billed" \/ Carried(q)') => counted'[q] > 0
      BY <2>1, <2>4, <2>5, <3>2
    <3> QED BY <3>1, <3>4, <3>5, <3>6
  <2>7. Billing' BY <2>1, <2>2 DEF Inv, Billing, Unbilled, TypeOK, Bills, BillAt
  <2> QED BY <1>1, <1>2, <1>3, <2>6, <2>7 DEF Inv
<1> QED BY <1>4, <1>5

LEMMA BilledKeeps == ASSUME Inv, Billed PROVE Inv'
<1> USE Names
<1>1. TypeOK'
  BY DEF Inv, TypeOK, Billed, Goes, MarkBilled, row, copies, call, parts, history
<1>2. Places'
  <2>1. at["run"] # "off" /\ at' = [at EXCEPT !["run"] = "read"] /\ lock' = lock
    BY DEF Billed, Goes
  <2> QED BY <2>1, RunMoves DEF RunAt
<1>3. Said'
  BY DEF Inv, Said, Copies, AskedFor, WordsAreReadInTime, Pending, Shown, InFront, TypeOK,
     Places, Billed, Goes, row, copies, call, parts, history
<1>4. /\ bill' = [q \in Questions |-> IF q \in owed["run"] THEN "billed" ELSE bill[q]]
      /\ at["run"] \in {"mark", "billed"} /\ at'["run"] \in {"read", "off"}
      /\ \A u \in Threads : u # "run" => at'[u] = at[u] /\ sees'[u] = sees[u] /\ owed'[u] = owed[u]
      /\ UNCHANGED <<asked, counted, clashed, crashes>>
  BY DEF Billed, Goes, MarkBilled, Inv, TypeOK, row, copies, history
<1>5. \A u \in Threads \ {"person"} : at[u] \in Bills => u = "run"
  BY <1>4, OneBills DEF Bills, BillAt
<1>6. \A q \in Questions : Carried(q) <=> q \in owed["run"]
  BY <1>4, <1>5 DEF Carried, Carries, Bills, BillAt
<1>7. \A q \in Questions : ~ Carried(q)'
  BY <1>4, <1>5 DEF Carried, Carries, Bills, BillAt
<1>8. Spent'
  BY <1>4, <1>6, <1>7 DEF Inv, Spent, Fits, Billing, Bills, BillAt, Places
<1>9. Billing' BY <1>4, <1>5 DEF Inv, Billing, Bills, BillAt
<1> QED BY <1>1, <1>2, <1>3, <1>8, <1>9 DEF Inv

LEMMA ReadInboxKeeps == ASSUME Inv, ReadInbox PROVE Inv'
<1> USE Names
<1>x. /\ at'["run"] \in RunAt \ {"off"} /\ at["run"] \notin {"off", "mark", "billed"}
      /\ at'["run"] \notin {"mark", "save", "billed", "think"}
      /\ at' = [at EXCEPT !["run"] = at'["run"]]
  BY DEF ReadInbox, Goes, RunAt, Inv, TypeOK
<1>1. TypeOK'
  <2>1. RowOK' BY TypeParts DEF Inv, RowOK, ReadInbox, row, table, copies, call, parts, history
  <2>2. TableOK' BY TypeParts DEF Inv, TableOK, Anyone, ReadInbox, row, table, copies, call,
        parts, history
  <2>3. SeesOK' BY TypeParts DEF Inv, SeesOK, RowOK, ReadInbox, row, table, copies, call, parts,
        history
  <2>4. CopiesOK' BY TypeParts DEF Inv, CopiesOK, ReadInbox, Read, Pending, row, table, copies,
        call, parts, history
  <2>5. PlaceOK' BY TypeParts DEF Inv, PlaceOK, ReadInbox, Goes, row, table, copies, call,
        parts, history
  <2>6. RestOK' BY TypeParts DEF Inv, RestOK, ReadInbox, Pending, row, table, copies, call,
        parts, history
  <2> QED BY <2>1, <2>2, <2>3, <2>4, <2>5, <2>6, TypeParts
<1>2. Places' BY <1>x, RunMoves DEF ReadInbox, call, copies, parts, row, table
<1>3. Said' BY DEF Inv, Said, Copies, AskedFor, WordsAreReadInTime, Pending, Shown, InFront,
      TypeOK, Places, ReadInbox, Goes, Read, ForCall, row, table, copies, call, parts, history
<1>4. Spent' /\ Billing' BY <1>x, MoneyStays DEF Inv, TypeOK, ReadInbox, copies, history, row,
      table, call
<1> QED BY <1>1, <1>2, <1>3, <1>4 DEF Inv

LEMMA CallFailsKeeps == ASSUME Inv, CallFails PROVE Inv'
<1> USE Names
<1>s. status' = status BY NothingNew DEF CallFails, SavesInbox
<1>x. /\ at'["run"] \in RunAt \ {"off"} /\ at["run"] \notin {"off", "mark", "billed"}
      /\ at'["run"] \notin {"mark", "save", "billed", "think"}
      /\ at' = [at EXCEPT !["run"] = at'["run"]]
  BY DEF CallFails, Goes, RunAt, Inv, TypeOK
<1>1. TypeOK'
  <2>1. RowOK' BY TypeParts, <1>s DEF Inv, RowOK, CallFails, row, table, copies, call, parts,
        history
  <2>2. TableOK' BY TypeParts, <1>s DEF Inv, TableOK, Anyone, CallFails, row, table, copies,
        call, parts, history
  <2>3. SeesOK' BY TypeParts, <1>s DEF Inv, SeesOK, RowOK, CallFails, row, table, copies, call,
        parts, history
  <2>4. CopiesOK' BY TypeParts, <1>s DEF Inv, CopiesOK, CallFails, Forgets, Written, Read,
        Pending, row, table, copies, call, parts, history
  <2>5. PlaceOK' BY TypeParts, <1>s DEF Inv, PlaceOK, CallFails, Goes, row, table, copies, call,
        parts, history
  <2>6. RestOK'
    <3>1. part' \in Nat /\ allowed' \in Nat /\ steered' \in BOOLEAN
      <4>1. CASE UNCHANGED parts BY <4>1 DEF parts, Inv, TypeOK
      <4>2. CASE FirstPart BY <4>2 DEF FirstPart
      <4> QED BY <4>1, <4>2 DEF CallFails
    <3> QED BY <3>1, TypeParts DEF Inv, RestOK, CallFails, history
  <2> QED BY <2>1, <2>2, <2>3, <2>4, <2>5, <2>6, TypeParts
<1>2. Places' BY <1>x, RunMoves DEF CallFails, call, copies, parts, row, table
<1>3. Said' BY <1>s DEF Inv, Said, Copies, AskedFor, WordsAreReadInTime, Pending, Shown,
      InFront, TypeOK, Places, CallFails, Goes, Forgets, Written, Read, FirstPart, row, table,
      copies, call, parts, history
<1>4. Spent' /\ Billing' BY <1>x, MoneyStays DEF Inv, TypeOK, CallFails, copies, history, row,
      table, call
<1> QED BY <1>1, <1>2, <1>3, <1>4 DEF Inv

LEMMA CallAnswersKeeps == ASSUME Inv, CallAnswers PROVE Inv'
<1> USE Names
<1>s. status' = status BY NothingNew DEF CallAnswers, SavesInbox
<1>x. /\ at'["run"] \in RunAt \ {"off"} /\ at["run"] \notin {"off", "mark", "billed"}
      /\ at'["run"] \notin {"mark", "save", "billed", "think"}
      /\ at' = [at EXCEPT !["run"] = at'["run"]]
  BY DEF CallAnswers, Goes, RunAt, Inv, TypeOK
<1>1. TypeOK' BY <1>s DEF Inv, TypeOK, Anyone, CallAnswers, Goes, row, table, copies, call,
      parts, history
<1>2. Places' BY <1>x, RunMoves DEF CallAnswers, call, copies, parts, row, table
<1>3. Said' BY <1>s DEF Inv, Said, Copies, AskedFor, WordsAreReadInTime, Pending, Shown,
      InFront, TypeOK, Places, CallAnswers, Goes, row, table, copies, call, parts, history
<1>4. Spent' /\ Billing' BY <1>x, MoneyStays DEF Inv, TypeOK, CallAnswers, copies, history, row,
      table, call
<1> QED BY <1>1, <1>2, <1>3, <1>4 DEF Inv

LEMMA ConsumeKeeps == ASSUME Inv, Consume PROVE Inv'
<1> USE Names
<1>x. /\ at'["run"] \in RunAt \ {"off"} /\ at["run"] \notin {"off", "mark", "billed"}
      /\ at'["run"] \notin {"mark", "save", "billed", "think"}
      /\ at' = [at EXCEPT !["run"] = at'["run"]]
  BY DEF Consume, Goes, RunAt, Inv, TypeOK
<1>1. TypeOK' BY DEF Inv, TypeOK, Anyone, Consume, Goes, MergeInbox, Forgets, Written, Read,
      row, table, copies, call, parts, history
<1>2. Places' BY <1>x, RunMoves DEF Consume, call, copies, parts, row, table
<1>3. Said' BY DEF Inv, Said, Copies, AskedFor, WordsAreReadInTime, Pending, Shown, InFront,
      TypeOK, Places, Consume, Goes, MergeInbox, Forgets, Written, Read, row, table, copies,
      call, parts, history
<1>4. Spent' /\ Billing' BY <1>x, MoneyStays DEF Inv, TypeOK, Consume, copies, history, row,
      table, call
<1> QED BY <1>1, <1>2, <1>3, <1>4 DEF Inv

LEMMA PartKeeps == ASSUME Inv, Part PROVE Inv'
<1> USE Names
<1>x. /\ at'["run"] \in RunAt \ {"off"} /\ at["run"] \notin {"off", "mark", "billed"}
      /\ at'["run"] \notin {"mark", "save", "billed", "think"}
      /\ at' = [at EXCEPT !["run"] = at'["run"]]
  BY DEF Part, Goes, RunAt, Inv, TypeOK
<1>1. TypeOK'
  <2>1. RowOK' BY TypeParts DEF Inv, RowOK, Part, row, table, copies, call, parts, history
  <2>2. TableOK' BY TypeParts DEF Inv, TableOK, Anyone, Part, row, table, copies, call, parts,
        history
  <2>3. SeesOK' BY TypeParts DEF Inv, SeesOK, RowOK, Part, row, table, copies, call, parts,
        history
  <2>4. CopiesOK' BY TypeParts DEF Inv, CopiesOK, Part, Pending, row, table, copies, call,
        parts, history
  <2>5. PlaceOK' BY TypeParts DEF Inv, PlaceOK, Part, Goes, row, table, copies, call, parts,
        history
  <2>6. RestOK'
    <3>1. part \in Nat /\ allowed \in Nat /\ steered \in BOOLEAN BY DEF Inv, TypeOK
    <3>2. part' \in Nat /\ allowed' \in Nat
      BY <3>1 DEF Part, FirstPart
    <3>3. steered' \in BOOLEAN
      BY <3>1 DEF Part, FirstPart
    <3> QED BY <3>2, <3>3, TypeParts DEF Inv, RestOK, Part, history
  <2> QED BY <2>1, <2>2, <2>3, <2>4, <2>5, <2>6, TypeParts
<1>2. Places' BY <1>x, RunMoves DEF Part, call, copies, parts, row, table
<1>3. Said' BY DEF Inv, Said, Copies, AskedFor, WordsAreReadInTime, Pending, Shown, InFront,
      TypeOK, Places, Part, Goes, FirstPart, row, table, copies, call, parts, history
<1>4. Spent' /\ Billing' BY <1>x, MoneyStays DEF Inv, TypeOK, Part, copies, history, row, table,
      call
<1> QED BY <1>1, <1>2, <1>3, <1>4 DEF Inv

LEMMA BuildGateKeeps == ASSUME Inv, BuildGate PROVE Inv'
<1> USE Names
<1>x. /\ at'["run"] \in RunAt \ {"off"} /\ at["run"] \notin {"off", "mark", "billed"}
      /\ at'["run"] \notin {"mark", "save", "billed", "think"}
      /\ at' = [at EXCEPT !["run"] = at'["run"]]
  BY DEF BuildGate, Goes, RunAt, Inv, TypeOK
<1>1. TypeOK' BY DEF Inv, TypeOK, Anyone, BuildGate, Goes, row, table, copies, call, parts,
      history
<1>2. Places' BY <1>x, RunMoves DEF BuildGate, call, copies, parts, row, table
<1>3. Said' BY DEF Inv, Said, Copies, AskedFor, WordsAreReadInTime, Pending, Shown, InFront,
      TypeOK, Places, BuildGate, Goes, row, table, copies, call, parts, history
<1>4. Spent' /\ Billing' BY <1>x, MoneyStays DEF Inv, TypeOK, BuildGate, copies, history, row,
      table, call
<1> QED BY <1>1, <1>2, <1>3, <1>4 DEF Inv

LEMMA RedKeeps == ASSUME Inv, Red PROVE Inv'
<1> USE Names
<1>s. status' = status BY NothingNew DEF Red, SavesInbox
<1>x. /\ at'["run"] \in RunAt \ {"off"} /\ at["run"] \notin {"off", "mark", "billed"}
      /\ at'["run"] \notin {"mark", "save", "billed", "think"}
      /\ at' = [at EXCEPT !["run"] = at'["run"]]
  BY DEF Red, Goes, RunAt, Inv, TypeOK
<1>1. TypeOK' BY <1>s DEF Inv, TypeOK, Anyone, Red, Goes, row, table, copies, call, parts,
      history
<1>2. Places' BY <1>x, RunMoves DEF Red, call, copies, parts, row, table
<1>3. Said' BY <1>s DEF Inv, Said, Copies, AskedFor, WordsAreReadInTime, Pending, Shown,
      InFront, TypeOK, Places, Red, Goes, row, table, copies, call, parts, history
<1>4. Spent' /\ Billing' BY <1>x, MoneyStays DEF Inv, TypeOK, Red, copies, history, row, table,
      call
<1> QED BY <1>1, <1>2, <1>3, <1>4 DEF Inv

LEMMA GreenKeeps == ASSUME Inv, Green PROVE Inv'
<1> USE Names
<1>s. status' = status BY NothingNew DEF Green, SavesInbox
<1>x. /\ at'["run"] \in RunAt \ {"off"} /\ at["run"] \notin {"off", "mark", "billed"}
      /\ at'["run"] \notin {"mark", "save", "billed", "think"}
      /\ at' = [at EXCEPT !["run"] = at'["run"]]
  BY DEF Green, Goes, RunAt, Inv, TypeOK
<1>1. TypeOK' BY <1>s DEF Inv, TypeOK, Anyone, Green, Goes, Steered, row, table, copies, call,
      parts, history
<1>2. Places' BY <1>x, RunMoves DEF Green, call, copies, parts, row, table
<1>3. Said' BY <1>s DEF Inv, Said, Copies, AskedFor, WordsAreReadInTime, Pending, Shown,
      InFront, TypeOK, Places, Green, Goes, Steered, row, table, copies, call, parts, history
<1>4. Spent' /\ Billing' BY <1>x, MoneyStays DEF Inv, TypeOK, Green, copies, history, row,
      table, call
<1> QED BY <1>1, <1>2, <1>3, <1>4 DEF Inv

LEMMA CommitKeeps == ASSUME Inv, Commit PROVE Inv'
<1> USE Names
<1>s. status' = status BY NothingNew DEF Commit, SavesInbox
<1>x. /\ at'["run"] \in RunAt \ {"off"} /\ at["run"] \notin {"off", "mark", "billed"}
      /\ at'["run"] \notin {"mark", "save", "billed", "think"}
      /\ at' = [at EXCEPT !["run"] = at'["run"]]
  BY DEF Commit, Goes, RunAt, Inv, TypeOK
<1>1. TypeOK' BY <1>s DEF Inv, TypeOK, Anyone, Commit, Goes, row, table, copies, call, parts,
      history
<1>2. Places' BY <1>x, RunMoves DEF Commit, call, copies, parts, row, table
<1>3. Said'
  <2>1. Copies' BY TypeParts, <1>s DEF Inv, Said, Copies, CopiesOK, TableOK, Commit, Goes, row,
        table, copies, call, parts, history
  <2>2. AskedFor' BY TypeParts, <1>s DEF Inv, Said, AskedFor, TableOK, PlaceOK, Places, Commit,
        Goes, row, table, copies, call, parts, history
  <2>3. WordsAreReadInTime' BY TypeParts, <1>s DEF Inv, Said, WordsAreReadInTime, Pending,
        TableOK, RowOK, AskedFor, Commit, Goes, row, table, copies, call, parts, history
  <2>4. Shown' BY TypeParts, <1>s DEF Inv, Said, Shown, InFront, RestOK, TableOK, PlaceOK,
        Places, Copies, Commit, Goes, row, table, copies, call, parts, history
  <2> QED BY <2>1, <2>2, <2>3, <2>4 DEF Said
<1>4. Spent' /\ Billing' BY <1>x, MoneyStays DEF Inv, TypeOK, Commit, copies, history, row,
      table, call
<1> QED BY <1>1, <1>2, <1>3, <1>4 DEF Inv

LEMMA MovedKeeps == ASSUME Inv, Moved PROVE Inv'
<1> USE Names
<1>x. /\ at'["run"] \in RunAt \ {"off"} /\ at["run"] \notin {"off", "mark", "billed"}
      /\ at'["run"] \notin {"mark", "save", "billed", "think"}
      /\ at' = [at EXCEPT !["run"] = at'["run"]]
  BY DEF Moved, Goes, RunAt, Inv, TypeOK
<1>1. TypeOK' BY DEF Inv, TypeOK, Anyone, Moved, Goes, row, table, copies, call, parts, history
<1>2. Places' BY <1>x, RunMoves DEF Moved, call, copies, parts, row, table
<1>3. Said' BY DEF Inv, Said, Copies, AskedFor, WordsAreReadInTime, Pending, Shown, InFront,
      TypeOK, Places, Moved, Goes, row, table, copies, call, parts, history
<1>4. Spent' /\ Billing' BY <1>x, MoneyStays DEF Inv, TypeOK, Moved, copies, history, row,
      table, call
<1> QED BY <1>1, <1>2, <1>3, <1>4 DEF Inv

LEMMA RestsKeeps == ASSUME Inv, Rests PROVE Inv'
<1> USE Names
<1>x. /\ at'["run"] \in RunAt \ {"off"} /\ at["run"] \notin {"off", "mark", "billed"}
      /\ at'["run"] \notin {"mark", "save", "billed", "think"}
      /\ at' = [at EXCEPT !["run"] = at'["run"]]
  BY DEF Rests, Goes, RunAt, Inv, TypeOK
<1>1. TypeOK' BY DEF Inv, TypeOK, Anyone, Rests, Goes, row, table, copies, call, parts, history
<1>2. Places' BY <1>x, RunMoves DEF Rests, call, copies, parts, row, table
<1>3. Said' BY DEF Inv, Said, Copies, AskedFor, WordsAreReadInTime, Pending, Shown, InFront,
      TypeOK, Places, Rests, Goes, row, table, copies, call, parts, history
<1>4. Spent' /\ Billing' BY <1>x, MoneyStays DEF Inv, TypeOK, Rests, copies, history, row,
      table, call
<1> QED BY <1>1, <1>2, <1>3, <1>4 DEF Inv

-----------------------------------------------------------------------------
\* Whoever bills.
LEMMA GetsForBillKeeps == ASSUME Inv, NEW t \in Threads \ {"person"}, GetsForBill(t) PROVE Inv'
<1> USE Names
<1>0. /\ at[t] = "get" /\ UNCHANGED <<state, index, counted, kept, status, to, asked, bill>>
      /\ UNCHANGED <<role, pend, part, allowed, steered, wanted, sending, shown, late, clashed>>
      /\ UNCHANGED <<presses, crashes>>
  BY DEF GetsForBill, Goes, row, table, call, parts, history
<1>u. Unbilled \subseteq Questions BY DEF Unbilled
<1>a. \A u \in Threads \ {"person"} : at[u] \in Bills => u = t
  BY <1>0, OneBills DEF Bills, BillAt
<1>c. \A q \in Questions : ~ Carried(q) BY <1>0, <1>a DEF Carried, Carries, Bills, BillAt
<1>1. CASE Unbilled = {}
  <2>1. Goes(t, "get", "off") /\ Leaves(t) BY <1>1 DEF GetsForBill
  <2>2. TypeOK'
    <3>1. RowOK' /\ TableOK' /\ RestOK' BY <1>0, TypeParts DEF Inv, RowOK, TableOK, RestOK
    <3>2. SeesOK' BY <2>1, TypeParts DEF Inv, SeesOK, Leaves, Drops, Blank, Nothing
    <3>3. CopiesOK' /\ PlaceOK'
      BY <2>1, TypeParts DEF Inv, CopiesOK, PlaceOK, Goes, Leaves, Drops
    <3> QED BY <3>1, <3>2, <3>3, TypeParts
  <2>3. Places' BY <2>1, BillMoves DEF Goes, BillAt, Leaves
  <2>4. Said'
    BY <1>0, <2>1 DEF Inv, Said, Copies, AskedFor, WordsAreReadInTime, Pending, Shown, InFront,
       TypeOK, Places, Goes, Leaves, Drops
  <2>5. \A u \in Threads : u # t => at'[u] = at[u] /\ sees'[u] = sees[u] /\ owed'[u] = owed[u]
    BY <2>1 DEF Goes, Leaves, Drops, Inv, TypeOK
  <2>6. at'[t] = "off" BY <2>1 DEF Goes, Inv, TypeOK
  <2>7. \A q \in Questions : ~ Carried(q)'
    BY <1>a, <2>5, <2>6 DEF Carried, Carries, Bills, BillAt
  <2>8. Spent' BY <1>0, <1>c, <2>5, <2>6, <2>7 DEF Inv, Spent, Fits
  <2>9. Billing' BY <1>0, <1>a, <2>5, <2>6 DEF Inv, Billing, Bills, BillAt
  <2> QED BY <2>2, <2>3, <2>4, <2>8, <2>9 DEF Inv
<1>2. CASE Unbilled # {}
  <2>1. /\ Goes(t, "get", "save") /\ lock' = lock /\ owed' = [owed EXCEPT ![t] = Unbilled]
        /\ Gets(t)
    BY <1>2 DEF GetsForBill
  <2>2. TypeOK'
    <3>1. RowOK' /\ TableOK' /\ RestOK' BY <1>0, TypeParts DEF Inv, RowOK, TableOK, RestOK
    <3>2. SeesOK' BY <2>1, TypeParts DEF Inv, SeesOK, RowOK, Gets, Row
    <3>3. CopiesOK' BY <2>1, <1>u, TypeParts DEF Inv, CopiesOK, Gets, Written, Read
    <3>4. PlaceOK' BY <2>1, TypeParts DEF Inv, PlaceOK, Goes
    <3> QED BY <3>1, <3>2, <3>3, <3>4, TypeParts
  <2>3. Places' BY <2>1, BillMoves DEF Goes, BillAt
  <2>4. Said'
    BY <1>0, <2>1 DEF Inv, Said, Copies, AskedFor, WordsAreReadInTime, Pending, Shown, InFront,
       TypeOK, Places, Goes, Gets, Written, Read
  <2>5. \A u \in Threads : u # t => at'[u] = at[u] /\ sees'[u] = sees[u] /\ owed'[u] = owed[u]
    BY <2>1 DEF Goes, Gets, Inv, TypeOK
  <2>6. /\ at'[t] = "save" /\ owed'[t] = Unbilled /\ sees'[t].counted = counted
    BY <2>1 DEF Goes, Gets, Row, Inv, TypeOK
  <2>7. \A q \in Questions : ~ Carried(q)'
    BY <1>a, <2>5, <2>6 DEF Carried, Carries, Bills, BillAt
  <2>8. Spent' BY <1>0, <1>c, <2>5, <2>6, <2>7 DEF Inv, Spent, Fits
  <2>9. Billing'
    BY <1>0, <1>a, <1>c, <2>5, <2>6 DEF Inv, Billing, Spent, Fits, Unbilled, Bills, BillAt
  <2> QED BY <2>2, <2>3, <2>4, <2>8, <2>9 DEF Inv
<1> QED BY <1>1, <1>2

LEMMA SavesBillKeeps == ASSUME Inv, NEW t \in Threads \ {"person"}, SavesBill(t) PROVE Inv'
<1> USE Names
<1>s. status' = status BY NothingNew DEF SavesBill, SavesInbox
<1>0. /\ at[t] = "save" /\ UNCHANGED <<state, index, status, to, asked, bill>>
      /\ UNCHANGED <<role, pend, part, allowed, steered, wanted, sending, shown, late>>
      /\ UNCHANGED <<presses, crashes>>
  BY <1>s DEF SavesBill, Goes, call, parts
<1>a. \A u \in Threads \ {"person"} : at[u] \in Bills => u = t
  BY <1>0, OneBills DEF Bills, BillAt
<1>c. \A q \in Questions : ~ Carried(q) BY <1>0, <1>a DEF Carried, Carries, Bills, BillAt
<1>1. CASE sees[t].state # state
  <2>1. Goes(t, "save", "off") /\ Leaves(t) /\ UNCHANGED <<counted, kept, clashed>>
    BY <1>1 DEF SavesBill, Saves
  <2>2. TypeOK'
    <3>1. RowOK' /\ TableOK' /\ RestOK' BY <1>0, <2>1, TypeParts DEF Inv, RowOK, TableOK, RestOK
    <3>2. SeesOK' BY <2>1, TypeParts DEF Inv, SeesOK, Leaves, Drops, Blank, Nothing
    <3>3. CopiesOK' /\ PlaceOK'
      BY <2>1, TypeParts DEF Inv, CopiesOK, PlaceOK, Goes, Leaves, Drops
    <3> QED BY <3>1, <3>2, <3>3, TypeParts
  <2>3. Places' BY <2>1, BillMoves DEF Goes, BillAt, Leaves
  <2>4. Said'
    BY <1>0, <2>1 DEF Inv, Said, Copies, AskedFor, WordsAreReadInTime, Pending, Shown, InFront,
       TypeOK, Places, Goes, Leaves, Drops
  <2>5. \A u \in Threads : u # t => at'[u] = at[u] /\ sees'[u] = sees[u] /\ owed'[u] = owed[u]
    BY <2>1 DEF Goes, Leaves, Drops, Inv, TypeOK
  <2>6. at'[t] = "off" BY <2>1 DEF Goes, Inv, TypeOK
  <2>7. \A q \in Questions : ~ Carried(q)'
    BY <1>a, <2>5, <2>6 DEF Carried, Carries, Bills, BillAt
  <2>8. Spent' BY <1>0, <1>c, <2>1, <2>5, <2>6, <2>7 DEF Inv, Spent, Fits
  <2>9. Billing' BY <1>0, <1>a, <2>1, <2>5, <2>6 DEF Inv, Billing, Bills, BillAt
  <2> QED BY <2>2, <2>3, <2>4, <2>8, <2>9 DEF Inv
<1>2. CASE sees[t].state = state
  <2>1. /\ Goes(t, "save", "billed") /\ UNCHANGED <<lock, sees, knows, knowsRead, owed>>
        /\ counted' = Added(sees[t].counted, owed[t]) /\ kept' = sees[t].kept
        /\ clashed' = (clashed \/ sees[t].kept # kept)
    BY <1>2 DEF SavesBill, Saves, copies
  <2>2. /\ sees[t].counted \in [Questions -> Nat] /\ sees[t].kept \in Nat
    BY TypeParts DEF Inv, SeesOK
  <2>3. \A q \in Questions :
          counted'[q] = sees[t].counted[q] + (IF q \in owed[t] THEN 1 ELSE 0)
    BY <2>1 DEF Added
  <2>4. TypeOK'
    <3>1. TableOK' /\ SeesOK' /\ CopiesOK'
      BY <1>0, <2>1, TypeParts DEF Inv, TableOK, SeesOK, CopiesOK
    <3>2. RowOK' BY <1>0, <2>1, <2>2, TypeParts DEF Inv, RowOK, Added
    <3>3. PlaceOK' BY <2>1, TypeParts DEF Inv, PlaceOK, Goes
    <3>4. RestOK' BY <1>0, <2>1, TypeParts DEF Inv, RestOK
    <3> QED BY <3>1, <3>2, <3>3, <3>4, TypeParts
  <2>5. Places' BY <2>1, BillMoves DEF Goes, BillAt
  <2>6. Said'
    BY <1>0, <2>1 DEF Inv, Said, Copies, AskedFor, WordsAreReadInTime, Pending, Shown, InFront,
       TypeOK, Places, Goes
  <2>7. at'[t] = "billed" /\ \A u \in Threads : u # t => at'[u] = at[u]
    BY <2>1 DEF Goes, Inv, TypeOK
  <2>8. \A q \in Questions : Carried(q)' <=> q \in owed[t]
    BY <1>a, <2>1, <2>7 DEF Carried, Carries, Bills, BillAt
  <2>9. Spent'
    <3> SUFFICES ASSUME NEW q \in Questions
        PROVE  /\ asked[q] \in {"none", "answering"} => bill[q] = "none"
               /\ at'[q] = "think" => asked[q] = "answering"
               /\ Fits(counted, q)'
               /\ at'["person"] = "save" => Fits(sees["person"].counted, q)'
               /\ ~ clashed' /\ (bill[q] = "billed" \/ Carried(q)') => counted'[q] > 0
      BY <1>0 DEF Spent
    <3>1. /\ asked[q] \in {"none", "answering"} => bill[q] = "none"
          /\ at'[q] = "think" => asked[q] = "answering"
      BY <2>7 DEF Inv, Spent
    <3>2. /\ sees[t].counted[q] \in Nat /\ crashes \in Nat /\ sees[t].counted[q] <= 1 + crashes
          /\ bill[q] # "billed" => sees[t].counted[q] <= crashes
          /\ ~ clashed => sees[t].counted[q] = counted[q]
          /\ q \in owed[t] => bill[q] = "owed"
      BY <1>0, <2>2 DEF Inv, Billing, TypeOK
    <3>3. Fits(counted, q)' BY <1>0, <2>3, <2>8, <3>2 DEF Fits
    <3>4. at'["person"] = "save" => Fits(sees["person"].counted, q)'
      BY <1>0, <1>c, <2>1, <2>7 DEF Fits, Inv, Spent
    <3>5. ~ clashed' /\ (bill[q] = "billed" \/ Carried(q)') => counted'[q] > 0
      <4>1. ~ clashed' => ~ clashed BY <2>1
      <4>2. CASE q \in owed[t] BY <2>3, <3>2, <4>2
      <4>3. CASE q \notin owed[t]
        <5>1. ~ (Carried(q)') BY <2>8, <4>3
        <5>2. counted'[q] = sees[t].counted[q] BY <2>3, <3>2, <4>3
        <5>3. bill[q] = "billed" /\ ~ clashed => counted[q] > 0 BY DEF Inv, Spent
        <5> QED BY <3>2, <4>1, <5>1, <5>2, <5>3
      <4> QED BY <4>2, <4>3
    <3> QED BY <3>1, <3>3, <3>4, <3>5
  <2>a. Billing'
    BY <1>0, <1>a, <2>1, <2>7 DEF Inv, Billing, Bills, BillAt
  <2> QED BY <2>4, <2>5, <2>6, <2>9, <2>a DEF Inv
<1> QED BY <1>1, <1>2

LEMMA EndsBillKeeps == ASSUME Inv, NEW t \in Threads \ {"person"}, EndsBill(t) PROVE Inv'
<1> USE Names
<1>1. TypeOK'
  <2>1. RowOK' /\ TableOK' /\ RestOK'
    BY TypeParts DEF Inv, RowOK, TableOK, RestOK, EndsBill, MarkBilled, row, call, parts, history
  <2>2. SeesOK' BY TypeParts DEF Inv, SeesOK, EndsBill, Leaves, Drops, Blank, Nothing
  <2>3. CopiesOK' /\ PlaceOK'
    BY TypeParts DEF Inv, CopiesOK, PlaceOK, EndsBill, Goes, Leaves, Drops
  <2> QED BY <2>1, <2>2, <2>3, TypeParts
<1>2. Places'
  BY BillMoves DEF EndsBill, Goes, BillAt, Leaves
<1>3. Said'
  BY DEF Inv, Said, Copies, AskedFor, WordsAreReadInTime, Pending, Shown, InFront, TypeOK,
     Places, EndsBill, Goes, Leaves, Drops, row, call, parts, history
<1>4. /\ bill' = [q \in Questions |-> IF q \in owed[t] THEN "billed" ELSE bill[q]]
      /\ at[t] \in {"mark", "billed"} /\ at'[t] \in {"read", "off"}
      /\ \A u \in Threads : u # t => at'[u] = at[u] /\ sees'[u] = sees[u] /\ owed'[u] = owed[u]
      /\ UNCHANGED <<asked, counted, clashed, crashes>>
  BY DEF EndsBill, Goes, MarkBilled, Inv, TypeOK, row, copies, history, Leaves, Drops
<1>5. \A u \in Threads \ {"person"} : at[u] \in Bills => u = t
  BY <1>4, OneBills DEF Bills, BillAt
<1>6. \A q \in Questions : Carried(q) <=> q \in owed[t]
  BY <1>4, <1>5 DEF Carried, Carries, Bills, BillAt
<1>7. \A q \in Questions : ~ Carried(q)'
  BY <1>4, <1>5 DEF Carried, Carries, Bills, BillAt
<1>8. Spent'
  BY <1>4, <1>6, <1>7 DEF Inv, Spent, Fits, Billing, Bills, BillAt, Places
<1>9. Billing' BY <1>4, <1>5 DEF Inv, Billing, Bills, BillAt
<1> QED BY <1>1, <1>2, <1>3, <1>8, <1>9 DEF Inv

-----------------------------------------------------------------------------
\* The threads that answer.
LEMMA TakesLockKeeps == ASSUME Inv, NEW q \in Questions, TakesLock(q) PROVE Inv'
<1> USE Names
<1>0. /\ at[q] = "answered"
      /\ UNCHANGED <<row, table, copies, call, wanted, sending, history>>
  BY DEF TakesLock, Goes
<1>1. /\ at'[q] \in {"get", "off"} /\ \A u \in Threads : u # q => at'[u] = at[u]
      /\ at' \in [Threads -> {"off", "step", "bill", "mark", "read", "call", "consume", "part",
                              "green", "red", "commit", "moved", "get", "save", "billed",
                              "think", "answered", "move"}]
  <2>1. at' = [at EXCEPT ![q] = "get"] \/ at' = [at EXCEPT ![q] = "off"] BY DEF TakesLock, Goes
  <2>2. CASE at' = [at EXCEPT ![q] = "get"] BY <2>2 DEF Inv, TypeOK
  <2>3. CASE at' = [at EXCEPT ![q] = "off"] BY <2>3 DEF Inv, TypeOK
  <2> QED BY <2>1, <2>2, <2>3
<1>2. TypeOK'
  BY <1>0, <1>1 DEF Inv, TypeOK, TakesLock, row, table, copies, call, parts, history
<1>3. Places'
  <2>1. CASE lock = "nobody" /\ lock' = q /\ Goes(q, "answered", "get")
    BY <1>1, <2>1 DEF Inv, Places, BillAt, Goes, TypeOK
  <2>2. CASE lock # "nobody" /\ Goes(q, "answered", "off") /\ UNCHANGED lock
    BY <1>1, <2>2 DEF Inv, Places, BillAt, Goes, TypeOK
  <2> QED BY <2>1, <2>2 DEF TakesLock
<1>4. Said'
  BY <1>0, <1>1 DEF Inv, Said, Copies, AskedFor, WordsAreReadInTime, Pending, Shown, InFront,
     row, table, copies, call, parts, history
<1>5. Spent' /\ Billing'
  BY <1>0, <1>1, MoneyStays DEF row, table, copies, history
<1> QED BY <1>2, <1>3, <1>4, <1>5 DEF Inv

LEMMA AskKeeps == ASSUME Inv, NEW q \in Questions, Ask(q) PROVE Inv'
<1> USE Names
<1>1. TypeOK' BY DEF Inv, TypeOK, Anyone, Ask, Goes, row, table, copies, call, parts, history
<1>2. Places' BY DEF Inv, Places, RunAt, BillAt, TypeOK, Ask, Goes, row, table, copies, call,
      parts, history
<1>3. Said' BY DEF Inv, Said, Copies, AskedFor, WordsAreReadInTime, Pending, Shown, InFront,
      TypeOK, Places, Ask, Goes, row, table, copies, call, parts, history
<1>4. Spent' BY DEF Inv, Spent, Fits, Carried, Carries, TypeOK, Places, BillAt, Ask, Goes, row,
      table, copies, call, parts, history
<1>5. Billing' BY DEF Inv, Billing, TypeOK, Places, BillAt, Ask, Goes, row, table, copies, call,
      parts, history
<1> QED BY <1>1, <1>2, <1>3, <1>4, <1>5 DEF Inv

LEMMA AnswerKeeps == ASSUME Inv, NEW q \in Questions, Answer(q) PROVE Inv'
<1> USE Names
<1>0. PICK said \in {"answered", "failed"}, cost \in {"none", "owed"} :
        /\ asked' = [asked EXCEPT ![q] = said] /\ bill' = [bill EXCEPT ![q] = cost]
  BY DEF Answer
<1>1. /\ at[q] = "think" /\ UNCHANGED <<row, status, to, lock, copies, call, wanted, sending>>
      /\ UNCHANGED history
  BY DEF Answer
<1>2. at' = [at EXCEPT ![q] = "off"] \/ at' = [at EXCEPT ![q] = "answered"]
  BY DEF Answer, Goes
<1>3. /\ at'[q] \in {"off", "answered"} /\ \A u \in Threads : u # q => at'[u] = at[u]
  BY <1>2 DEF Inv, TypeOK
<1>4. TypeOK'
  <2>1. RowOK' /\ SeesOK' /\ CopiesOK' /\ RestOK'
    BY <1>1, TypeParts DEF Inv, RowOK, SeesOK, CopiesOK, RestOK, row, copies, call, parts, history
  <2>2. TableOK' BY <1>0, <1>1, TypeParts DEF Inv, TableOK
  <2>3. PlaceOK' BY <1>1, <1>2, TypeParts DEF Inv, PlaceOK
  <2> QED BY <2>1, <2>2, <2>3, TypeParts
<1>5. Places' BY <1>1, <1>3 DEF Inv, Places, BillAt
<1>6. Said'
  BY <1>1, <1>3 DEF Inv, Said, Copies, AskedFor, WordsAreReadInTime, Pending, Shown, InFront,
     row, copies, call, parts, history
<1>7. asked[q] = "answering" /\ bill[q] = "none" BY <1>1 DEF Inv, Spent
<1>8. \A p \in Questions : Carried(p)' <=> Carried(p)
  BY <1>1, <1>3 DEF Carried, Carries, copies
<1>9. ~ Carried(q) BY <1>7 DEF Carried, Carries, Inv, Billing
<1>a. Spent'
  BY <1>0, <1>1, <1>3, <1>7, <1>8, <1>9 DEF Inv, Spent, Fits, TypeOK, row, copies, history
<1>b. Billing'
  BY <1>0, <1>1, <1>3, <1>7 DEF Inv, Billing, TypeOK, row, copies, history
<1> QED BY <1>4, <1>5, <1>6, <1>a, <1>b DEF Inv

-----------------------------------------------------------------------------
\* People, and the server.
LEMMA SteerKeeps == ASSUME Inv, NEW m \in Messages, Steer(m) PROVE Inv'
<1> USE Names
<1>1. TypeOK' BY DEF Inv, TypeOK, Anyone, Steer, NextMessage, Messages, row, table, copies,
      call, parts, history
<1>2. Places' BY DEF Inv, Places, RunAt, BillAt, TypeOK, Steer, NextMessage, Messages, row,
      table, copies, call, parts, history
<1>3. Said' BY DEF Inv, Said, Copies, AskedFor, WordsAreReadInTime, Pending, Shown, InFront,
      TypeOK, Places, Steer, NextMessage, Messages, row, table, copies, call, parts, history
<1>4. Spent' BY DEF Inv, Spent, Fits, Carried, Carries, TypeOK, Places, BillAt, Steer,
      NextMessage, Messages, row, table, copies, call, parts, history
<1>5. Billing' BY DEF Inv, Billing, TypeOK, Places, BillAt, Steer, NextMessage, Messages, row,
      table, copies, call, parts, history
<1> QED BY <1>1, <1>2, <1>3, <1>4, <1>5 DEF Inv

LEMMA MessageBoxKeeps == ASSUME Inv, NEW m \in Messages, MessageBox(m) PROVE Inv'
<1> USE Names
<1>1. TypeOK' BY DEF Inv, TypeOK, Anyone, MessageBox, NextMessage, Messages, row, table, copies,
      call, parts, history
<1>2. Places' BY DEF Inv, Places, RunAt, BillAt, TypeOK, MessageBox, NextMessage, Messages, row,
      table, copies, call, parts, history
<1>3. Said' BY DEF Inv, Said, Copies, AskedFor, WordsAreReadInTime, Pending, Shown, InFront,
      TypeOK, Places, MessageBox, NextMessage, Messages, row, table, copies, call, parts,
      history
<1>4. Spent' BY DEF Inv, Spent, Fits, Carried, Carries, TypeOK, Places, BillAt, MessageBox,
      NextMessage, Messages, row, table, copies, call, parts, history
<1>5. Billing' BY DEF Inv, Billing, TypeOK, Places, BillAt, MessageBox, NextMessage, Messages,
      row, table, copies, call, parts, history
<1> QED BY <1>1, <1>2, <1>3, <1>4, <1>5 DEF Inv

LEMMA MessageKeeps == ASSUME Inv, NEW m \in Messages, Message(m) PROVE Inv'
<1> USE Names
<1>1. TypeOK' BY DEF Inv, TypeOK, Anyone, Message, Closed, row, table, copies, call, parts,
      history
<1>2. Places' BY DEF Inv, Places, RunAt, BillAt, TypeOK, Message, Closed, row, table, copies,
      call, parts, history
<1>3. Said'
  <2>0. /\ status[m] = "none" /\ sending' = [sending EXCEPT ![m] = FALSE] /\ m \notin pend
        /\ status' = [status EXCEPT ![m] = "pending"] /\ shown[m] = 0
        /\ late' = IF to[m] # Anyone /\ Closed(to[m]) THEN late \cup {m} ELSE late
        /\ UNCHANGED <<at, knows, knowsRead, to, index, pend, shown, crashes>>
    BY DEF Message, Inv, Said, Copies, Shown, row, copies, call, parts
  <2>1. Copies' BY <2>0 DEF Inv, Said, Copies, TypeOK
  <2>2. AskedFor'
    <3> SUFFICES ASSUME at["run"] = "commit", NEW n \in Messages, status'[n] = "pending", to[n] = index
        PROVE  n \in late'
      BY <2>0 DEF AskedFor
    <3>1. CASE n = m BY <2>0, <3>1 DEF Closed, Inv, TypeOK, Anyone
    <3>2. CASE n # m BY <2>0, <3>2 DEF Inv, Said, AskedFor, TypeOK
    <3> QED BY <3>1, <3>2
  <2>3. WordsAreReadInTime'
    <3> SUFFICES ASSUME NEW n \in Messages, status'[n] = "pending", to[n] \in 1..(index - 1)
        PROVE  n \in late'
      BY <2>0 DEF WordsAreReadInTime, Pending
    <3>1. CASE n = m BY <2>0, <3>1 DEF Closed, Inv, TypeOK, Anyone
    <3>2. CASE n # m
      BY <2>0, <3>2 DEF Inv, Said, WordsAreReadInTime, Pending, TypeOK
    <3> QED BY <3>1, <3>2
  <2>4. Shown'
    <3>1. \A n \in Messages : InFront(n)' = InFront(n) BY <2>0 DEF InFront
    <3>2. InFront(m) = 0 BY <2>0 DEF InFront
    <3>3. \A n \in Messages : n # m => status'[n] = status[n] BY <2>0 DEF Inv, TypeOK
    <3>4. status'[m] = "pending" /\ crashes \in Nat BY <2>0 DEF Inv, TypeOK
    <3> QED BY <2>0, <3>1, <3>2, <3>3, <3>4 DEF Inv, Said, Shown
  <2> QED BY <2>1, <2>2, <2>3, <2>4 DEF Said
<1>4. Spent' BY DEF Inv, Spent, Fits, Carried, Carries, TypeOK, Places, BillAt, Message, Closed,
      row, table, copies, call, parts, history
<1>5. Billing' BY DEF Inv, Billing, TypeOK, Places, BillAt, Message, Closed, row, table, copies,
      call, parts, history
<1> QED BY <1>1, <1>2, <1>3, <1>4, <1>5 DEF Inv

LEMMA LookKeeps == ASSUME Inv, Look PROVE Inv'
<1> USE Names
<1>1. TypeOK' BY DEF Inv, TypeOK, Anyone, Look, Goes, Gets, Row, Written, Read, row, table,
      copies, call, parts, history
<1>2. Places' BY DEF Inv, Places, RunAt, BillAt, TypeOK, Look, Goes, Gets, Row, Written, Read,
      row, table, copies, call, parts, history
<1>3. Said' BY DEF Inv, Said, Copies, AskedFor, WordsAreReadInTime, Pending, Shown, InFront,
      TypeOK, Places, Look, Goes, Gets, Row, Written, Read, row, table, copies, call, parts,
      history
<1>4. Spent' BY DEF Inv, Spent, Fits, Carried, Carries, TypeOK, Places, BillAt, Look, Goes,
      Gets, Row, Written, Read, row, table, copies, call, parts, history
<1>5. Billing' BY DEF Inv, Billing, TypeOK, Places, BillAt, Look, Goes, Gets, Row, Written,
      Read, row, table, copies, call, parts, history
<1> QED BY <1>1, <1>2, <1>3, <1>4, <1>5 DEF Inv

LEMMA PressKeeps == ASSUME Inv, Press PROVE Inv'
<1> USE Names
<1>0. /\ at["person"] = "save" /\ at' = [at EXCEPT !["person"] = "move"] /\ Drops("person")
      /\ counted' = sees["person"].counted /\ kept' = sees["person"].kept + 1
      /\ clashed' = (clashed \/ sees["person"].counted # counted) /\ presses' = presses + 1
      /\ UNCHANGED <<state, index, asked, bill, lock, role, pend, part, allowed, steered>>
      /\ UNCHANGED <<wanted, sending, shown, late, crashes>>
  BY DEF Press, Goes, Saves, call, parts
<1>n. \A m \in Messages : (\A n \in 1..m : n < m <=> (status[n] # "none" \/ sending[n]))
                           => status[m] = "none" /\ ~ sending[m]
  BY DEF Messages
\* One more instruction may have been written, to nobody.
<1>w. \A m \in Messages :
        \/ status'[m] = status[m] /\ to'[m] = to[m]
        \/ status[m] = "none" /\ ~ sending[m] /\ status'[m] = "pending" /\ to'[m] = Anyone
  <2>1. CASE SavesInbox("person") /\ UNCHANGED to
    BY <2>1, NothingNew DEF SavesInbox
  <2>2. ASSUME NEW m \in Messages, NextMessage(m), to' = [to EXCEPT ![m] = Anyone],
               status' = MergeInbox(knows["person"] \cup {m}, knowsRead["person"])
        PROVE  \A n \in Messages :
                 \/ status'[n] = status[n] /\ to'[n] = to[n]
                 \/ /\ status[n] = "none" /\ ~ sending[n] /\ status'[n] = "pending"
                    /\ to'[n] = Anyone
    <3>1. status[m] = "none" /\ ~ sending[m] BY <2>2, <1>n DEF NextMessage
    <3>2. m \notin knowsRead["person"] BY <3>1 DEF Inv, Said, Copies
    <3> QED BY <2>2, <3>1, <3>2 DEF MergeInbox, Inv, Said, Copies, TypeOK
  <2> QED BY <2>1, <2>2 DEF Press
<1>t. /\ status' \in [Messages -> {"none", "pending", "read"}] /\ to' \in [Messages -> 0..Phases]
  <2>1. /\ status' = [m \in Messages |-> status'[m]] /\ to' = [m \in Messages |-> to'[m]]
    BY TypeParts DEF Inv, TableOK, Press, SavesInbox, MergeInbox
  <2>2. \A m \in Messages : status'[m] \in {"none", "pending", "read"} /\ to'[m] \in 0..Phases
    BY <1>w, TypeParts DEF Inv, TableOK, Anyone
  <2> QED BY <2>1, <2>2
<1>2. /\ sees["person"].counted \in [Questions -> Nat] /\ sees["person"].kept \in Nat
  BY TypeParts DEF Inv, SeesOK
<1>3. TypeOK'
  <2>1. RowOK' BY <1>0, <1>2, TypeParts DEF Inv, RowOK
  <2>2. TableOK' BY <1>0, <1>t, TypeParts DEF Inv, TableOK
  <2>3. SeesOK' BY <1>0, TypeParts DEF Inv, SeesOK, Drops, Blank, Nothing
  <2>4. CopiesOK' BY <1>0, TypeParts DEF Inv, CopiesOK, Drops
  <2>5. PlaceOK' BY <1>0, TypeParts DEF Inv, PlaceOK
  <2>6. RestOK' BY <1>0, TypeParts DEF Inv, RestOK
  <2> QED BY <2>1, <2>2, <2>3, <2>4, <2>5, <2>6, TypeParts
<1>p. at'["person"] = "move" /\ \A u \in Threads : u # "person" => at'[u] = at[u]
  BY <1>0 DEF Inv, TypeOK
<1>4. Places' BY <1>0, <1>p DEF Inv, Places
<1>5. Said'
  <2>1. Copies' BY <1>0, <1>w DEF Inv, Said, Copies, Drops, TypeOK
  <2>2. AskedFor' BY <1>0, <1>w, <1>p, TypeParts DEF Inv, Said, AskedFor, Anyone, RowOK
  <2>3. WordsAreReadInTime'
    BY <1>0, <1>w, TypeParts DEF Inv, Said, WordsAreReadInTime, Pending, Anyone, RowOK
  <2>4. Shown'
    <3>1. at'["run"] \notin {"call", "consume"} => pend' = {}
      BY <1>0, <1>p DEF Inv, Said, Shown
    <3>2. \A m \in Messages : InFront(m)' = InFront(m) BY <1>0, <1>p DEF InFront
    <3>3. ASSUME NEW m \in Messages
          PROVE  /\ m \in pend' => status'[m] = "pending"
                 /\ status'[m] = "none" => shown'[m] = 0
                 /\ status'[m] = "read" => shown'[m] > 0 /\ shown'[m] <= 1 + crashes'
                 /\ status'[m] = "pending" =>
                      shown'[m] >= InFront(m)' /\ shown'[m] <= crashes' + InFront(m)'
      <4>1. CASE status'[m] = status[m] BY <1>0, <3>2, <4>1 DEF Inv, Said, Shown
      <4>2. CASE status[m] = "none" /\ status'[m] = "pending"
        <5>1. m \notin pend /\ shown[m] = 0 BY <4>2 DEF Inv, Said, Shown
        <5>2. InFront(m)' = 0 BY <3>2, <5>1 DEF InFront
        <5> QED BY <1>0, <4>2, <5>1, <5>2, TypeParts DEF Inv, RestOK
      <4> QED BY <1>w, <4>1, <4>2
    <3> QED BY <3>1, <3>3 DEF Shown
  <2> QED BY <2>1, <2>2, <2>3, <2>4 DEF Said
<1>6. /\ \A u \in Threads : u # "person" => sees'[u] = sees[u] /\ owed'[u] = owed[u]
  BY <1>0 DEF Drops, Inv, TypeOK
<1>7. \A q \in Questions : Carried(q)' <=> Carried(q) BY <1>p, <1>6 DEF Carried, Carries
<1>8. Spent' BY <1>0, <1>p, <1>7 DEF Inv, Spent, Fits
<1>9. ~ clashed' => ~ clashed /\ counted' = counted BY <1>0
<1>a. Billing' BY <1>0, <1>p, <1>6, <1>9 DEF Inv, Billing
<1> QED BY <1>3, <1>4, <1>5, <1>8, <1>a DEF Inv

LEMMA ApprovedKeeps == ASSUME Inv, Approved PROVE Inv'
<1> USE Names
<1>1. TypeOK' BY DEF Inv, TypeOK, Anyone, Approved, Goes, row, table, copies, call, parts,
      history
<1>2. Places' BY DEF Inv, Places, RunAt, BillAt, TypeOK, Approved, Goes, row, table, copies,
      call, parts, history
<1>3. Said' BY DEF Inv, Said, Copies, AskedFor, WordsAreReadInTime, Pending, Shown, InFront,
      TypeOK, Places, Approved, Goes, row, table, copies, call, parts, history
<1>4. Spent' BY DEF Inv, Spent, Fits, Carried, Carries, TypeOK, Places, BillAt, Approved, Goes,
      row, table, copies, call, parts, history
<1>5. Billing' BY DEF Inv, Billing, TypeOK, Places, BillAt, Approved, Goes, row, table, copies,
      call, parts, history
<1> QED BY <1>1, <1>2, <1>3, <1>4, <1>5 DEF Inv

LEMMA RestartKeeps == ASSUME Inv, Restart PROVE Inv'
<1> USE Names
<1>1. TypeOK'
  <2>1. RowOK' BY TypeParts DEF Inv, RowOK, Restart, Stopped, row, table, copies, call, parts,
        history
  <2>2. TableOK' BY TypeParts DEF Inv, TableOK, Anyone, Restart, Stopped, row, table, copies,
        call, parts, history
  <2>3. SeesOK' BY TypeParts DEF Inv, SeesOK, RowOK, Restart, Stopped, Blank, Nothing, row,
        table, copies, call, parts, history
  <2>4. CopiesOK' BY TypeParts DEF Inv, CopiesOK, Restart, Stopped, Pending, row, table, copies,
        call, parts, history
  <2>5. PlaceOK' BY TypeParts DEF Inv, PlaceOK, Restart, Stopped, row, table, copies, call,
        parts, history
  <2>6. RestOK'
    <3>1. /\ part' \in Nat /\ allowed' \in Nat /\ steered' \in BOOLEAN /\ wanted' \in BOOLEAN
          /\ role' \in {"writer", "qa"} /\ pend' \subseteq Messages
      BY DEF Restart, Stopped, FirstPart
    <3>2. sending' \in [Messages -> BOOLEAN] BY DEF Restart, Stopped
    <3>3. crashes' \in Nat /\ UNCHANGED <<shown, late, clashed, presses>>
      BY DEF Restart, Stopped, Inv, TypeOK
    <3> QED BY <3>1, <3>2, <3>3, TypeParts DEF Inv, RestOK
  <2> QED BY <2>1, <2>2, <2>3, <2>4, <2>5, <2>6, TypeParts
<1>2. Places' BY DEF Inv, Places, RunAt, BillAt, TypeOK, Restart, Stopped, Blank, Nothing,
      FirstPart, row, table, copies, call, parts, history
<1>3. Said' BY DEF Inv, Said, Copies, AskedFor, WordsAreReadInTime, Pending, Shown, InFront,
      TypeOK, Places, Restart, Stopped, Blank, Nothing, FirstPart, row, table, copies, call,
      parts, history
<1>4. Spent' BY DEF Inv, Spent, Fits, Carried, Carries, TypeOK, Places, BillAt, Restart,
      Stopped, Blank, Nothing, FirstPart, row, table, copies, call, parts, history
<1>5. Billing' BY DEF Inv, Billing, TypeOK, Places, BillAt, Restart, Stopped, Blank, Nothing,
      FirstPart, row, table, copies, call, parts, history
<1> QED BY <1>1, <1>2, <1>3, <1>4, <1>5 DEF Inv

-----------------------------------------------------------------------------
LEMMA Keeps == Inv /\ [Next]_vars => Inv'
<1> SUFFICES ASSUME Inv, [Next]_vars PROVE Inv' OBVIOUS
<1> USE Names
<1>1. CASE Run
  BY <1>1, EnterKeeps, DevelopKeeps, BillAnswersKeeps, BilledKeeps, ReadInboxKeeps, CallFailsKeeps,
     CallAnswersKeeps, ConsumeKeeps, PartKeeps, BuildGateKeeps, RedKeeps, GreenKeeps, CommitKeeps,
     MovedKeeps, RestsKeeps, GetsForBillKeeps, SavesBillKeeps, EndsBillKeeps DEF Run
<1>2. ASSUME NEW q \in Questions, AnswerThread(q) PROVE Inv'
  BY <1>2, AnswerKeeps, TakesLockKeeps, GetsForBillKeeps, SavesBillKeeps, EndsBillKeeps
     DEF AnswerThread
<1>3. CASE People
  BY <1>3, AskKeeps, SteerKeeps, MessageBoxKeeps, MessageKeeps, LookKeeps, PressKeeps, ApprovedKeeps
     DEF People
<1>4. CASE Restart BY <1>4, RestartKeeps
<1>5. CASE UNCHANGED vars
  BY <1>5 DEF vars, row, table, copies, call, parts, history, Inv, TypeOK, Places, Said, Copies,
              AskedFor, WordsAreReadInTime, Pending, Shown, InFront, Spent, Fits, Carried,
              Carries, Billing
<1> QED BY <1>1, <1>2, <1>3, <1>4, <1>5 DEF Next

\* The invariant holds for any number of phases, messages, questions and restarts.
THEOREM InvHolds == Spec => []Inv
<1> QED BY Starts, Keeps, PTL DEF Spec

\* No phase is left while words to its specialist that were written in time wait to be
\* read (_build_gate, engine.py).
THEOREM WordsInTime == Spec => []WordsAreReadInTime
<1>1. Inv => WordsAreReadInTime BY DEF Inv, Said
<1> QED BY <1>1, InvHolds, PTL

\* An instruction is read by one answer, by another only over a restart (_invoke,
\* engine.py).
THEOREM OneAnswerReads == Spec => []ReadByOneAnswer
<1>1. ASSUME Inv PROVE ReadByOneAnswer
  <2>1. ASSUME NEW m \in Messages
        PROVE  shown[m] <= 1 + crashes /\ (status[m] = "read" => shown[m] > 0)
    <3>1. InFront(m) \in {0, 1} BY DEF InFront
    <3>2. shown[m] \in Nat /\ crashes \in Nat /\ status[m] \in {"none", "pending", "read"}
      BY <1>1 DEF Inv, TypeOK
    <3> QED BY <1>1, <3>1, <3>2 DEF Inv, Said, Shown
  <2> QED BY <2>1 DEF ReadByOneAnswer
<1> QED BY <1>1, InvHolds, PTL

\* What an answer cost is in the spend once (_bill_answers, engine.py).
THEOREM SpendCountsOnce == Spec => []CountedOnce
<1>1. Inv => CountedOnce BY DEF Inv, Spent, Fits, CountedOnce
<1> QED BY <1>1, InvHolds, PTL

\* Nobody's save takes back what was written, or makes it unread (_merge_inbox,
\* messages.py).
THEOREM WordsAreKept == Spec => NothingIsTakenBack
<1> DEFINE Stays == \A m \in Messages :
                      status[m] # "none" => status'[m] = status[m] \/ status'[m] = "read"
<1>1. Inv /\ [Next]_vars => [Stays]_vars
  <2> SUFFICES ASSUME Inv, Next PROVE Stays BY DEF vars, table
  <2> USE Names DEF Inv, TypeOK, table
  <2>1. CASE Run
    BY <2>1 DEF Run, Enter, Develop, BillAnswers, Billed, ReadInbox, CallFails, CallAnswers, Consume,
                Part, BuildGate, Red, Green, Commit, Moved, Rests, GetsForBill, SavesBill, EndsBill,
                SavesInbox, MergeInbox
  <2>2. ASSUME NEW q \in Questions, AnswerThread(q) PROVE Stays
    BY <2>2 DEF AnswerThread, Answer, TakesLock, GetsForBill, SavesBill, EndsBill, SavesInbox,
                MergeInbox
  <2>3. CASE People
    BY <2>3 DEF People, Ask, Steer, MessageBox, Message, Look, Press, Approved, SavesInbox,
                MergeInbox, Said, Copies
  <2>4. CASE Restart BY <2>4 DEF Restart, Stopped
  <2> QED BY <2>1, <2>2, <2>3, <2>4 DEF Next
<1> QED BY <1>1, InvHolds, PTL DEF Spec, NothingIsTakenBack
=============================================================================
