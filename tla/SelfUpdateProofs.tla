--------------------------- MODULE SelfUpdateProofs ---------------------------
(***************************************************************************)
(* Two servers never run over one database, a proven container is never    *)
(* lost, a helper at work is left alone, and no release migrates a         *)
(* database that was not copied, as long as no server takes up its work    *)
(* while a helper is at work on it: for any number of releases,            *)
(* containers, presses, refused calls, crashes and deaths.                 *)
(***************************************************************************)
EXTENDS SelfUpdate, TLAPS

-----------------------------------------------------------------------------
\* What holds whoever does what: a process runs in a container that was made, and a
\* server gets ready only for a release that is newer than its own.
Sound ==
  /\ image[1] # 0 /\ \A b \in running : image[b] # 0 /\ name[b] # 0
  /\ \A b \in Boxes : at[b] # "off" => b \in running
  /\ \A b \in Boxes : latest[b] # 0 => at[b] # "off" /\ newest > image[b]
  /\ \A b \in Boxes : thread[b] # "none" => latest[b] # 0
  /\ \A n \in Depths : image[task[n].old] # 0
  /\ \A n \in Depths : task[n].step \in {"start", "wait", "retire", "discard"} =>
       task[n].new # 0 /\ image[task[n].new] # 0
  /\ \A n \in Depths : task[n].step \in Steps \ {"none", "look", "leave", "quit"} =>
       task[n].base # 0

\* Only one container runs.
Single == \A b, c \in running : b = c

\* It has the lowest name, and the names in use have no gap.
Lowest(b) == name[b] # 0 /\ \A c \in Boxes : name[c] # 0 => name[b] <= name[c]

Names ==
  /\ \A b, c \in Boxes : b # c /\ name[b] = name[c] => name[b] = 0
  /\ \A b, c \in Boxes : 0 < name[b] /\ name[b] < name[c] => name[c] = name[b] + 1
  /\ \A b \in Boxes : name[b] # 0 => image[b] # 0
  /\ \A b \in running : Lowest(b)
  /\ healthy \subseteq proven
  /\ \A b \in Boxes : at[b] # "off" <=> b \in running

\* A server offers a release and gets ready for it only once it has looked after the last
\* attempt, and starts no helper but its own.
Orderly(b) ==
  /\ at[b] \in {"off", "boot", "reconcile", "clear", "ended"} =>
       latest[b] = 0 /\ thread[b] = "none" /\ state[b] \in {"idle", "failed"}
  /\ thread[b] # "none" => state[b] \in {"pulling", "restarting"}
  /\ thread[b] = "start" => state[b] = "restarting"
  /\ thread[b] = "start" /\ helper[me[b]] = "created" => task[me[b]].old = b

\* A server that will not touch the helper.
Waits(b) ==
  /\ thread[b] = "none" /\ at[b] # "clear"
  /\ at[b] \in {"off", "boot", "reconcile", "ended"} \/ state[b] = "restarting"

\* What is true at each of the helper's steps: of the names, of what runs, of the new one.
Aside(n) ==
  LET t == task[n] IN
  t.step \in {"stop", "create", "start", "wait", "retire", "discard", "restore"} =>
    /\ t.old \in proven /\ t.base > 0 /\ name[t.old] = t.base + 1
    /\ \A c \in Boxes : name[c] # 0 => c = t.old \/ (c = t.new /\ name[c] = t.base)

Core(n) ==
  LET t == task[n] IN
  /\ t.step # "none" /\ running \subseteq {t.old, t.new}
  /\ t.step \in {"look", "rename", "stop", "create"} => t.new = 0
  /\ t.step \in {"look", "rename"} => Lowest(t.old)
  /\ t.step = "rename" => t.base = name[t.old]
  /\ t.step = "revive" =>
       /\ t.old \in proven /\ name[t.old] # 0 /\ \A c \in Boxes : name[c] # 0 => c = t.old
  /\ t.step \in {"create", "start", "revive"} => running = {}
  /\ t.step \in {"start", "wait", "retire", "discard", "restore"} => t.new # t.old
  /\ t.step \in {"start", "wait", "retire", "discard"} => name[t.new] = t.base
  /\ t.step \in {"wait", "retire", "discard", "restore"} => running \subseteq {t.new}
  /\ t.step = "retire" => t.new \in proven

\* While a helper works there is no other, and every server waits.
Fresh == \A n \in Depths : helper[n] = "created" => task[n].step = "look" /\ task[n].new = 0

Helped ==
  /\ Fresh
  /\ \A n, m \in Depths : helper[n] = "running" /\ helper[m] = "running" => n = m
  /\ \A n \in Depths : helper[n] = "running" =>
       Aside(n) /\ Core(n) /\ \A b \in Boxes : Waits(b)

Strict == Single /\ ProvenKept /\ Names /\ (\A b \in Boxes : Orderly(b)) /\ Helped

Inv == TypeOK /\ Sound /\ (loose \/ Strict)

-----------------------------------------------------------------------------
LEMMA Bounds ==
  /\ MaxRelease \in Nat \ {0} /\ Releases \subseteq Nat /\ 0 \notin Releases /\ 1 \in Releases
  /\ Boxes \subseteq Nat /\ 0 \notin Boxes /\ 1 \in Boxes
  /\ MaxDepth \in Nat \ {0} /\ Depths \subseteq Nat /\ 0 \notin Depths /\ 1 \in Depths
  /\ 0..MaxDepth = Depths \cup {0} /\ 0..MaxRelease = Releases \cup {0}
  /\ Knows \in [Releases -> Nat]
BY SelfUpdateAssumption DEF Releases, Boxes, Depths

LEMMA Starts == Init => Inv
<1> SUFFICES ASSUME Init PROVE Inv OBVIOUS
<1>1. TypeOK BY Bounds DEF Init, TypeOK, NoTask, Steps
<1>2. Sound BY Bounds DEF Init, Sound, NoTask
<1>3. Single /\ ProvenKept BY Bounds DEF Init, Single, ProvenKept
<1>4. Names BY Bounds DEF Init, Names, Lowest
<1>5. \A b \in Boxes : Orderly(b) BY DEF Init, Orderly
<1>6. Helped BY DEF Init, Helped, Fresh
<1> QED BY <1>1, <1>2, <1>3, <1>4, <1>5, <1>6 DEF Inv, Strict

-----------------------------------------------------------------------------
\* A helper that goes on changes where it is, and nothing else.
OneTask  == [step : Steps, old : Boxes, new : Boxes \cup {0}, to : Releases,
             base : 0..MaxDepth]
TaskType == [Depths -> OneTask]

LEMMA GoesOn ==
  ASSUME TypeOK, NEW n \in Depths, NEW s \in Steps, GoTo(n, s)
  PROVE  /\ helper' = helper /\ task' \in TaskType
         /\ \A m \in Depths \ {n} : task'[m] = task[m]
         /\ task'[n].step = s /\ task'[n].old = task[n].old /\ task'[n].new = task[n].new
         /\ task'[n].to = task[n].to /\ task'[n].base = task[n].base
BY DEF GoTo, TypeOK, TaskType, OneTask

\* A process that begins or is gone leaves its server's memory of the right type.
LEMMA ForgetsTypes ==
  ASSUME TypeOK, NEW b \in Boxes, NEW w \in {"off", "boot"}, Forgets(b, w)
  PROVE  /\ at' \in [Boxes -> {"off", "boot", "reconcile", "clear", "check", "ended"}]
         /\ me' \in [Boxes -> Depths]
         /\ state' \in [Boxes -> {"idle", "pulling", "restarting", "failed"}]
         /\ latest' \in [Boxes -> Releases \cup {0}]
         /\ thread' \in [Boxes -> {"none", "pull", "copy", "clear", "create", "start"}]
         /\ at'[b] = w /\ latest'[b] = 0 /\ thread'[b] = "none" /\ state'[b] = "idle"
         /\ \A c \in Boxes \ {b} : /\ at'[c] = at[c] /\ latest'[c] = latest[c]
                                  /\ thread'[c] = thread[c] /\ state'[c] = state[c]
BY DEF Forgets, TypeOK

-----------------------------------------------------------------------------
\* What holds whoever does what is kept: the server's half.
LEMMA ServerTypes == ASSUME TypeOK, Sound, NEW b \in Boxes, Server(b) PROVE TypeOK'
<1> USE DEF TypeOK
<1>1. CASE Boot(b)
  <2>1. name[b] \in Depths /\ image[b] \in Releases
    BY <1>1, Bounds DEF Boot, Sound
  <2>2. Knows[image[b]] \in Nat
    BY <2>1, Bounds
  <2> QED BY <1>1, <2>1, <2>2 DEF Boot, help
<1>2. CASE Reconcile(b)
  <2> HIDE DEF TypeOK
  <2>1. loose' \in BOOLEAN
    BY <1>2 DEF Reconcile, Tended, TypeOK
  <2>2. troubles' \in Nat
    BY <1>2 DEF Reconcile, FailsUnless, Smooth, Trouble, TypeOK
  <2>3. \E s \in {"check", "clear", "ended"} : at' = [at EXCEPT ![b] = s]
    BY <1>2 DEF Reconcile
  <2>4. at' \in [Boxes -> {"off", "boot", "reconcile", "clear", "check", "ended"}]
    BY <2>3 DEF TypeOK
  <2>5. state' = state \/ state' = [state EXCEPT ![b] = "failed"]
        \/ state' = [state EXCEPT ![b] = state[b]]
    BY <1>2 DEF Reconcile
  <2>6. state' \in [Boxes -> {"idle", "pulling", "restarting", "failed"}]
    <3>1. state \in [Boxes -> {"idle", "pulling", "restarting", "failed"}]
      BY DEF TypeOK
    <3> QED BY <2>5, <3>1
  <2> QED BY <1>2, <2>1, <2>2, <2>4, <2>6 DEF Reconcile, data, world, boxes, help, TypeOK
<1>3. CASE Clear(b)
  BY <1>3, Bounds DEF Clear, RemovesHelper, NoTask, Steps, Smooth, Trouble, data, world, boxes, help
<1>4. CASE Check(b)
  BY <1>4, Bounds DEF Check, data, world, boxes, help
<1>5. CASE Restarts(b)
  BY <1>5 DEF Restarts, Forgets, Trouble, data, world, help
<1>6. CASE Install(b)
  BY <1>6 DEF Install, data, boxes, help
<1>7. CASE Pull(b)
  BY <1>7 DEF Pull, Goes, ThreadFails, data, world, boxes, help
<1>8. CASE Backup(b)
  <2>1. image[b] \in Releases
    BY <1>8, Bounds DEF Backup, Goes, ThreadFails, Sound
  <2>2. <<image[b], presses>> \in Releases \X Nat
    BY <2>1
  <2>3. copies' \subseteq copies \cup {<<image[b], presses>>}
    BY <1>8 DEF Backup, Kept
  <2>4. copies' \subseteq Releases \X Nat
    BY <2>2, <2>3
  <2>5. unkept' \in BOOLEAN
    BY <1>8 DEF Backup
  <2>6. /\ thread' \in [Boxes -> {"none", "pull", "copy", "clear", "create", "start"}]
        /\ state' \in [Boxes -> {"idle", "pulling", "restarting", "failed"}] /\ troubles' \in Nat
    <3>1. troubles' \in Nat
      BY <1>8 DEF Backup, Smooth, Trouble
    <3>2. /\ thread' \in [Boxes -> {"none", "pull", "copy", "clear", "create", "start"}]
          /\ state' \in [Boxes -> {"idle", "pulling", "restarting", "failed"}]
      BY <1>8 DEF Backup, Goes, ThreadFails
    <3> QED BY <3>1, <3>2
  <2> QED BY <1>8, <2>4, <2>5, <2>6 DEF Backup, boxes, help
<1>9. CASE RemoveHelper(b)
  BY <1>9, Bounds DEF RemoveHelper, Goes, RemovesHelper, NoTask, Steps, Smooth, Trouble, data,
     world, boxes, help
<1>10. CASE CreateHelper(b)
  <2>1. latest[b] \in Releases /\ me[b] \in Depths
    BY <1>10 DEF CreateHelper, Sound
  <2>2. [step |-> "look", old |-> b, new |-> 0, to |-> latest[b], base |-> 0]
        \in [step : Steps, old : Boxes, new : Boxes \cup {0}, to : Releases, base : 0..MaxDepth]
    BY <2>1, Bounds DEF Steps
  <2>3. /\ thread' \in [Boxes -> {"none", "pull", "copy", "clear", "create", "start"}]
        /\ state' \in [Boxes -> {"idle", "pulling", "restarting", "failed"}] /\ troubles' \in Nat
    <3>1. troubles' \in Nat
      BY <1>10 DEF CreateHelper, Smooth, Trouble
    <3>2. /\ thread' \in [Boxes -> {"none", "pull", "copy", "clear", "create", "start"}]
          /\ state' \in [Boxes -> {"idle", "pulling", "restarting", "failed"}]
      BY <1>10 DEF CreateHelper, ThreadFails
    <3> QED BY <3>1, <3>2
  <2>4. helper' \in [Depths -> {"none", "created", "running", "done", "failed"}]
    BY <1>10, <2>1 DEF CreateHelper, help
  <2>5. task' \in [Depths -> [step : Steps, old : Boxes, new : Boxes \cup {0}, to : Releases,
                              base : 0..MaxDepth]]
    BY <1>10, <2>1, <2>2 DEF CreateHelper, help
  <2> QED BY <1>10, <2>3, <2>4, <2>5 DEF CreateHelper, data, world, boxes
<1>11. CASE StartHelper(b)
  <2>1. troubles' \in Nat
    BY <1>11 DEF StartHelper, Smooth, Trouble
  <2>2. /\ thread' \in [Boxes -> {"none", "pull", "copy", "clear", "create", "start"}]
        /\ state' \in [Boxes -> {"idle", "pulling", "restarting", "failed"}]
        /\ helper' \in [Depths -> {"none", "created", "running", "done", "failed"}]
    BY <1>11 DEF StartHelper, Goes, ThreadFails
  <2> QED BY <1>11, <2>1, <2>2 DEF StartHelper, data, world, boxes
<1> QED BY <1>1, <1>2, <1>3, <1>4, <1>5, <1>6, <1>7, <1>8, <1>9, <1>10, <1>11 DEF Server

\* A server that changes its own memory, and at most what its helper's task is.
LEMMA QuietSound ==
  ASSUME TypeOK, TypeOK', Sound, NEW b \in Boxes,
         UNCHANGED <<newest, image, name, running>>, b \in running,
         \A n \in Depths : task'[n] = task[n] \/ task'[n] = NoTask
                           \/ (task'[n].step = "look" /\ task'[n].old = b),
         \A c \in Boxes \ {b} : at'[c] = at[c] /\ latest'[c] = latest[c] /\ thread'[c] = thread[c],
         latest'[b] # 0 => at'[b] # "off" /\ newest > image[b],
         thread'[b] # "none" => latest'[b] # 0
  PROVE  Sound'
<1>1. image'[1] # 0 /\ \A c \in running' : image'[c] # 0 /\ name'[c] # 0
  BY DEF Sound
<1>2. \A c \in Boxes : at'[c] # "off" => c \in running'
  BY DEF Sound
<1>3. \A c \in Boxes : latest'[c] # 0 => at'[c] # "off" /\ newest' > image'[c]
  BY DEF Sound
<1>4. \A c \in Boxes : thread'[c] # "none" => latest'[c] # 0
  BY DEF Sound
<1>5. ASSUME NEW n \in Depths
      PROVE  /\ image'[task'[n].old] # 0
             /\ task'[n].step \in {"start", "wait", "retire", "discard"} =>
                  task'[n].new # 0 /\ image'[task'[n].new] # 0
             /\ task'[n].step \in Steps \ {"none", "look", "leave", "quit"} => task'[n].base # 0
  BY DEF Sound, NoTask, Steps
<1> QED BY <1>1, <1>2, <1>3, <1>4, <1>5 DEF Sound

LEMMA ServerSound == ASSUME TypeOK, TypeOK', Sound, NEW b \in Boxes, Server(b) PROVE Sound'
<1>0. b \in running
  BY DEF Server, Boot, Reconcile, Clear, Check, Restarts, Install, Pull, Backup, RemoveHelper,
         CreateHelper, StartHelper, Goes, Sound
<1>1. CASE Boot(b)
  BY <1>0, <1>1, QuietSound DEF Boot, help, Sound, TypeOK
<1>2. CASE Reconcile(b)
  BY <1>0, <1>2, QuietSound DEF Reconcile, data, world, boxes, help, Sound, TypeOK
<1>3. CASE Clear(b)
  <2>1. \A n \in Depths : task'[n] = task[n] \/ task'[n] = NoTask
    BY <1>3 DEF Clear, RemovesHelper, help, TypeOK
  <2>2. /\ UNCHANGED <<newest, image, name, running, latest>> /\ at'[b] # "off"
        /\ \A c \in Boxes \ {b} : at'[c] = at[c] /\ thread'[c] = thread[c]
        /\ thread'[b] # "none" => thread[b] # "none"
    BY <1>3 DEF Clear, world, boxes, Sound, TypeOK
  <2> QED BY <1>0, <2>1, <2>2, QuietSound DEF Sound
<1>4. CASE Check(b)
  <2>1. latest'[b] # 0 => newest > image[b]
    BY <1>4 DEF Check, TypeOK
  <2>2. thread[b] # "none" => newest > image[b] /\ newest # 0
    BY Bounds DEF Sound, TypeOK
  <2>3. thread'[b] # "none" => latest'[b] # 0
    BY <1>4, <2>2 DEF Check, TypeOK
  <2> QED BY <1>0, <1>4, <2>1, <2>3, QuietSound DEF Check, data, world, boxes, help, TypeOK
<1>5. CASE Restarts(b)
  BY <1>0, <1>5, QuietSound DEF Restarts, Forgets, data, world, help, Sound, TypeOK
<1>6. CASE Install(b)
  BY <1>0, <1>6, QuietSound DEF Install, boxes, help, Sound, TypeOK
<1>7. CASE Pull(b)
  BY <1>0, <1>7, QuietSound DEF Pull, Goes, ThreadFails, data, world, boxes, help, Sound, TypeOK
<1>8. CASE Backup(b)
  BY <1>0, <1>8, QuietSound DEF Backup, Goes, ThreadFails, boxes, help, Sound, TypeOK
<1>9. CASE RemoveHelper(b)
  <2>1. \A n \in Depths : task'[n] = task[n] \/ task'[n] = NoTask
    BY <1>9 DEF RemoveHelper, RemovesHelper, help, TypeOK
  <2>2. /\ UNCHANGED <<newest, image, name, running, latest>> /\ at'[b] # "off"
        /\ \A c \in Boxes \ {b} : at'[c] = at[c] /\ thread'[c] = thread[c]
        /\ thread'[b] # "none" => thread[b] # "none"
    BY <1>9 DEF RemoveHelper, Goes, world, boxes, Sound, TypeOK
  <2> QED BY <1>0, <2>1, <2>2, QuietSound DEF Sound
<1>10. CASE CreateHelper(b)
  <2>1. \A n \in Depths : task'[n] = task[n] \/ (task'[n].step = "look" /\ task'[n].old = b)
    BY <1>10 DEF CreateHelper, help, TypeOK
  <2>2. UNCHANGED <<newest, image, name, running, at, latest>>
        /\ (thread'[b] # "none" => thread[b] # "none")
        /\ \A c \in Boxes \ {b} : thread'[c] = thread[c]
    BY <1>10 DEF CreateHelper, ThreadFails, data, world, boxes, TypeOK
  <2> QED BY <1>0, <2>1, <2>2, QuietSound DEF Sound
<1>11. CASE StartHelper(b)
  BY <1>0, <1>11, QuietSound DEF StartHelper, Goes, ThreadFails, data, world, boxes, Sound, TypeOK
<1> QED BY <1>1, <1>2, <1>3, <1>4, <1>5, <1>6, <1>7, <1>8, <1>9, <1>10, <1>11 DEF Server

-----------------------------------------------------------------------------
\* The helper's half.
LEMMA HelperSound ==
  ASSUME TypeOK, TypeOK', Sound, NEW n \in Depths, newest' = newest,
         \A c \in Boxes : image[c] # 0 => image'[c] = image[c],
         \A c \in running' : image'[c] # 0 /\ name'[c] # 0,
         \A c \in Boxes :
           \/ /\ at'[c] = at[c] /\ latest'[c] = latest[c] /\ thread'[c] = thread[c]
              /\ c \in running => c \in running'
           \/ /\ latest'[c] = 0 /\ thread'[c] = "none"
              /\ at'[c] # "off" => c \in running',
         \A m \in Depths \ {n} : task'[m] = task[m], task'[n].old = task[n].old,
         task'[n].step \in {"start", "wait", "retire", "discard"} =>
           task'[n].new # 0 /\ image'[task'[n].new] # 0,
         task'[n].step \in Steps \ {"none", "look", "leave", "quit"} => task'[n].base # 0
  PROVE  Sound'
<1>0. \A m \in Depths : task[m].old \in Boxes /\ task[m].new \in Boxes \cup {0}
  BY DEF TypeOK
<1>1. image'[1] # 0 /\ \A c \in running' : image'[c] # 0 /\ name'[c] # 0
  BY Bounds DEF Sound
<1>2. \A c \in Boxes : at'[c] # "off" => c \in running'
  BY DEF Sound
<1>3. \A c \in Boxes : latest'[c] # 0 => at'[c] # "off" /\ newest' > image'[c]
  BY DEF Sound, TypeOK
<1>4. \A c \in Boxes : thread'[c] # "none" => latest'[c] # 0
  BY DEF Sound
<1>5. ASSUME NEW m \in Depths
      PROVE  /\ image'[task'[m].old] # 0
             /\ task'[m].step \in {"start", "wait", "retire", "discard"} =>
                  task'[m].new # 0 /\ image'[task'[m].new] # 0
             /\ task'[m].step \in Steps \ {"none", "look", "leave", "quit"} => task'[m].base # 0
  BY <1>0 DEF Sound
<1> QED BY <1>1, <1>2, <1>3, <1>4, <1>5 DEF Sound

\* A helper's step that only goes on, and stops or starts one container at most.
LEMMA StepSound ==
  ASSUME TypeOK, Sound, NEW n \in Depths, NEW s \in Steps, GoTo(n, s), troubles' \in Nat,
         UNCHANGED <<world, image, proven, loose>>, healthy' \subseteq healthy,
         name' \in [Boxes -> 0..MaxDepth], \A c \in running' : name'[c] # 0,
         \/ UNCHANGED <<running, memory>>
         \/ \E b \in Boxes : Forgets(b, "off") /\ running' = running \ {b}
         \/ \E b \in Boxes : Forgets(b, "boot") /\ running' = running \cup {b} /\ image[b] # 0,
         s \in {"start", "wait", "retire", "discard"} =>
           task[n].new # 0 /\ image[task[n].new] # 0,
         s \in Steps \ {"none", "look", "leave", "quit"} => task[n].base # 0
  PROVE  TypeOK' /\ Sound'
<1>1. /\ helper' = helper /\ task' \in TaskType /\ \A m \in Depths \ {n} : task'[m] = task[m]
      /\ task'[n].step = s /\ task'[n].old = task[n].old /\ task'[n].new = task[n].new
      /\ task'[n].base = task[n].base
  BY GoesOn
<1>2. CASE UNCHANGED <<running, memory>>
  <2>1. TypeOK'
    BY <1>1, <1>2 DEF TypeOK, TaskType, OneTask, world, data, memory
  <2>2. \A c \in running' : image'[c] # 0 /\ name'[c] # 0
    BY <1>2 DEF Sound
  <2> QED BY <1>1, <1>2, <2>1, <2>2, HelperSound DEF world, memory
<1>3. ASSUME NEW b \in Boxes, Forgets(b, "off"), running' = running \ {b}
      PROVE  TypeOK' /\ Sound'
  <2>1. TypeOK'
    BY <1>1, <1>3, ForgetsTypes DEF TypeOK, TaskType, OneTask, world, data
  <2>2. \A c \in running' : image'[c] # 0 /\ name'[c] # 0
    BY <1>3 DEF Sound
  <2>3. \A c \in Boxes :
          \/ /\ at'[c] = at[c] /\ latest'[c] = latest[c] /\ thread'[c] = thread[c]
             /\ c \in running => c \in running'
          \/ latest'[c] = 0 /\ thread'[c] = "none" /\ (at'[c] # "off" => c \in running')
    BY <1>3, ForgetsTypes
  <2> QED BY <1>1, <2>1, <2>2, <2>3, HelperSound DEF world
<1>4. ASSUME NEW b \in Boxes, Forgets(b, "boot"), running' = running \cup {b}, image[b] # 0
      PROVE  TypeOK' /\ Sound'
  <2>0. running' \subseteq Boxes /\ healthy' \subseteq Boxes /\ proven' \subseteq Boxes
    BY <1>4 DEF TypeOK
  <2>1. TypeOK'
    <3>1. /\ at' \in [Boxes -> {"off", "boot", "reconcile", "clear", "check", "ended"}]
          /\ me' \in [Boxes -> Depths]
          /\ state' \in [Boxes -> {"idle", "pulling", "restarting", "failed"}]
          /\ latest' \in [Boxes -> Releases \cup {0}]
          /\ thread' \in [Boxes -> {"none", "pull", "copy", "clear", "create", "start"}]
      BY <1>4, ForgetsTypes
    <3> QED BY <1>1, <2>0, <3>1 DEF TypeOK, TaskType, OneTask, world, data
  <2>2. \A c \in running' : image'[c] # 0 /\ name'[c] # 0
    BY <1>4 DEF Sound
  <2>3. \A c \in Boxes :
          \/ /\ at'[c] = at[c] /\ latest'[c] = latest[c] /\ thread'[c] = thread[c]
             /\ c \in running => c \in running'
          \/ latest'[c] = 0 /\ thread'[c] = "none" /\ (at'[c] # "off" => c \in running')
    BY <1>4, ForgetsTypes
  <2> QED BY <1>1, <2>1, <2>2, <2>3, HelperSound DEF world
<1> QED BY <1>2, <1>3, <1>4

LEMMA HelperTypes == ASSUME TypeOK, Sound, NEW n \in Depths, Helper(n) PROVE TypeOK' /\ Sound'
<1> DEFINE t == task[n]
<1>0. /\ t.old \in Boxes /\ t.new \in Boxes \cup {0} /\ t.to \in Releases /\ t.base \in 0..MaxDepth
      /\ t.step \in Steps /\ image[t.old] # 0
  BY DEF TypeOK, Sound
<1>1. Smooth \/ Trouble => troubles' \in Nat
  BY DEF Smooth, Trouble, TypeOK
<1>2. \A p : FailsUnless(p) => Smooth \/ Trouble
  BY DEF FailsUnless
<1>named. \A c \in running : name[c] # 0
  BY DEF Sound
<1>made. /\ t.step \in {"start", "wait", "retire", "discard"} => t.new # 0 /\ image[t.new] # 0
         /\ t.step \in Steps \ {"none", "look", "leave", "quit"} => t.base # 0
  BY DEF Sound
<1>3. CASE LookUp(n)
  <2>1. /\ task' \in TaskType /\ helper' = helper /\ \A m \in Depths \ {n} : task'[m] = task[m]
        /\ task'[n].old = t.old
        /\ task'[n].step = "quit" \/ (task'[n].step = "rename" /\ task'[n].base # 0)
    <3> DEFINE r == [t EXCEPT !.step = "rename", !.base = name[t.old]]
    <3>1. CASE Fail(n)
      BY <3>1, GoesOn DEF Fail, Steps
    <3>2. r \in OneTask /\ r.step = "rename" /\ r.old = t.old /\ (Here(t.old) => r.base # 0)
      <4>1. t \in OneTask /\ name[t.old] \in 0..MaxDepth
        BY <1>0 DEF TypeOK, OneTask
      <4> QED BY <4>1 DEF OneTask, Here, Steps
    <3>3. Fail(n) \/ (Here(t.old) /\ helper' = helper /\ task' = [task EXCEPT ![n] = r])
      BY <1>3, Zenon DEF LookUp
    <3>4. task \in TaskType
      BY DEF TypeOK, TaskType, OneTask
    <3> HIDE DEF r
    <3> QED BY <3>1, <3>2, <3>3, <3>4 DEF TaskType
  <2>2. troubles' \in Nat /\ UNCHANGED <<world, boxes, memory, loose>>
    BY <1>1, <1>2, <1>3 DEF LookUp
  <2>3. TypeOK'
    BY <2>1, <2>2 DEF TypeOK, TaskType, OneTask, world, data, boxes, memory
  <2> QED BY <2>1, <2>2, <2>3, HelperSound DEF Sound, world, boxes, memory
<1>4. CASE Rename(n)
  <2>1. /\ \E s \in {"stop", "quit"} : GoTo(n, s)
        /\ name' = name \/ name' = [name EXCEPT ![t.old] = t.base + 1]
        /\ t.base + 1 \in Depths /\ t.step = "rename"
    BY <1>4 DEF Rename, Fail, At
  <2>2. troubles' \in Nat /\ UNCHANGED <<world, image, running, healthy, proven, memory, loose>>
    BY <1>1, <1>2, <1>4 DEF Rename
  <2>3. name' \in [Boxes -> 0..MaxDepth] /\ \A c \in running' : name'[c] # 0
    BY <1>0, <1>named, <2>1, <2>2, Bounds DEF TypeOK
  <2> QED BY <1>made, <2>1, <2>2, <2>3, StepSound DEF Steps
<1>5. CASE Stop(n)
  <2>1. \/ Stopped(t.old) /\ GoTo(n, "create")
        \/ UNCHANGED <<running, healthy, memory>> /\ GoTo(n, "quit")
    BY <1>5 DEF Stop, Fail
  <2>2. troubles' \in Nat /\ UNCHANGED <<world, image, name, proven, loose>> /\ t.base # 0
    BY <1>made, <1>1, <1>2, <1>5 DEF Stop, At, Steps
  <2>3. name' \in [Boxes -> 0..MaxDepth]
    BY <2>2 DEF TypeOK
  <2>4. CASE Stopped(t.old) /\ GoTo(n, "create")
    BY <1>0, <1>named, <2>2, <2>3, <2>4, StepSound DEF Stopped, Steps
  <2>5. CASE UNCHANGED <<running, healthy, memory>> /\ GoTo(n, "quit")
    BY <1>named, <2>2, <2>3, <2>5, StepSound DEF Steps
  <2> QED BY <2>1, <2>4, <2>5
<1>6. CASE Create(n)
  <2>1. /\ troubles' \in Nat /\ UNCHANGED <<world, running, healthy, proven, memory, loose>>
        /\ t.step = "create" /\ t.base # 0
    BY <1>made, <1>1, <1>2, <1>6 DEF Create, At, Steps
  <2>2. CASE GoTo(n, "restore") /\ UNCHANGED <<image, name>>
    <3>1. name' \in [Boxes -> 0..MaxDepth]
      BY <2>2 DEF TypeOK
    <3> QED BY <1>named, <2>1, <2>2, <3>1, StepSound DEF Steps
  <2>3. ASSUME NEW b \in Boxes, image[b] = 0, helper' = helper,
               image' = [image EXCEPT ![b] = t.to], name' = [name EXCEPT ![b] = t.base],
               task' = [task EXCEPT ![n] = [@ EXCEPT !.step = "start", !.new = b]]
        PROVE  TypeOK' /\ Sound'
    <3> DEFINE r == [t EXCEPT !.step = "start", !.new = b]
    <3>1. r \in OneTask /\ r.step = "start" /\ r.new = b /\ r.old = t.old /\ r.base = t.base
      <4>1. t \in OneTask
        BY <1>0 DEF TypeOK, OneTask
      <4> QED BY <4>1 DEF OneTask, Steps
    <3>2. task' = [task EXCEPT ![n] = r] /\ task \in TaskType
      BY <2>3 DEF TypeOK, TaskType, OneTask
    <3> HIDE DEF r
    <3>3. /\ task' \in TaskType /\ task'[n] = r /\ \A m \in Depths \ {n} : task'[m] = task[m]
      BY <3>1, <3>2 DEF TaskType
    <3>4. TypeOK'
      BY <1>0, <2>1, <2>3, <3>3, Bounds DEF TypeOK, TaskType, OneTask, world, data, memory
    <3>5. \A c \in Boxes : image[c] # 0 => image'[c] = image[c]
      BY <2>3 DEF TypeOK
    <3>6. \A c \in running' : image'[c] # 0 /\ name'[c] # 0
      BY <1>0, <2>1, <2>3, Bounds DEF TypeOK, Sound
    <3>7. b # 0 /\ image'[b] # 0
      BY <1>0, <2>3, Bounds DEF TypeOK
    <3> QED BY <2>1, <3>1, <3>3, <3>4, <3>5, <3>6, <3>7, HelperSound DEF world, memory
  <2> QED BY <1>6, <2>2, <2>3 DEF Create
<1>7. CASE Start(n)
  <2>1. /\ troubles' \in Nat /\ UNCHANGED <<world, image, name, healthy, proven, loose>>
        /\ t.new # 0 /\ image[t.new] # 0 /\ t.base # 0 /\ name' \in [Boxes -> 0..MaxDepth]
    BY <1>made, <1>1, <1>2, <1>7 DEF Start, At, Steps, TypeOK
  <2>2. CASE Here(t.new) /\ Started(t.new) /\ GoTo(n, "wait")
    BY <1>0, <1>named, <2>1, <2>2, StepSound DEF Started, Here, Steps
  <2>3. CASE UNCHANGED <<running, memory>> /\ GoTo(n, "discard")
    BY <1>named, <2>1, <2>3, StepSound DEF Steps
  <2> QED BY <1>7, <2>2, <2>3 DEF Start
<1>8. CASE Wait(n)
  <2>1. /\ UNCHANGED <<world, boxes, memory, loose, troubles>> /\ t.base # 0
        /\ t.new # 0 /\ image[t.new] # 0
        /\ name' \in [Boxes -> 0..MaxDepth] /\ \E s \in {"retire", "discard"} : GoTo(n, s)
    BY <1>made, <1>8 DEF Wait, At, Steps, TypeOK, boxes
  <2> QED BY <1>named, <1>1, <2>1, StepSound DEF Steps, Smooth, boxes
<1>9. CASE RemoveOld(n)
  <2>1. /\ troubles' \in Nat /\ UNCHANGED <<world, image, running, healthy, proven, memory, loose>>
        /\ \E s \in {"leave", "quit"} : GoTo(n, s)
        /\ name' = name \/ (name' = [name EXCEPT ![t.old] = 0] /\ t.old \notin running)
    BY <1>1, <1>2, <1>9 DEF RemoveOld, Fail
  <2>2. name' \in [Boxes -> 0..MaxDepth] /\ \A c \in running' : name'[c] # 0
    BY <1>0, <1>named, <2>1, Bounds DEF TypeOK
  <2> QED BY <2>1, <2>2, StepSound DEF Steps
<1>10. CASE RemoveNew(n)
  <2>1. /\ troubles' \in Nat /\ UNCHANGED <<world, image, proven, loose>> /\ GoTo(n, "restore")
        /\ t.new # 0 /\ t.base # 0
    BY <1>made, <1>1, <1>10 DEF RemoveNew, At, Steps
  <2>2. CASE name' = [name EXCEPT ![t.new] = 0] /\ Stopped(t.new)
    <3>1. name' \in [Boxes -> 0..MaxDepth] /\ \A c \in running' : name'[c] # 0
      BY <1>0, <1>named, <2>1, <2>2, Bounds DEF TypeOK, Stopped
    <3> QED BY <1>0, <2>1, <2>2, <3>1, StepSound DEF Steps, Stopped
  <2>3. CASE UNCHANGED <<name, running, healthy, memory>>
    <3>1. name' \in [Boxes -> 0..MaxDepth] /\ \A c \in running' : name'[c] # 0
      BY <1>named, <2>3 DEF TypeOK
    <3> QED BY <2>1, <2>3, <3>1, StepSound DEF Steps
  <2> QED BY <1>10, <2>2, <2>3 DEF RemoveNew
<1>11. CASE NameBack(n)
  <2>1. /\ troubles' \in Nat /\ UNCHANGED <<world, image, running, healthy, proven, memory, loose>>
        /\ \E s \in {"revive", "quit"} : GoTo(n, s)
        /\ name' = name \/ name' = [name EXCEPT ![t.old] = t.base]
    BY <1>1, <1>2, <1>11 DEF NameBack, Fail
  <2>2. t.base # 0
    BY <1>made, <1>11 DEF NameBack, At, Steps
  <2>3. name' \in [Boxes -> 0..MaxDepth] /\ \A c \in running' : name'[c] # 0
    BY <1>0, <1>named, <2>1, <2>2 DEF TypeOK
  <2> QED BY <2>1, <2>2, <2>3, StepSound DEF Steps
<1>12. CASE StartOld(n)
  <2>1. /\ troubles' \in Nat /\ UNCHANGED <<world, image, name, healthy, proven, loose>>
        /\ GoTo(n, "quit") /\ name' \in [Boxes -> 0..MaxDepth]
    BY <1>1, <1>2, <1>12 DEF StartOld, Fail, TypeOK
  <2>2. CASE Here(t.old) /\ Started(t.old)
    BY <1>0, <1>named, <2>1, <2>2, StepSound DEF Started, Here, Steps
  <2>3. CASE UNCHANGED <<running, memory>>
    BY <1>named, <2>1, <2>3, StepSound DEF Steps
  <2> QED BY <1>12, <2>2, <2>3 DEF StartOld
<1>13. CASE Leave(n)
  <2>1. /\ UNCHANGED <<world, boxes, memory, task, loose, troubles>>
        /\ helper' = [helper EXCEPT ![n] = "done"] \/ helper' = [helper EXCEPT ![n] = "failed"]
    BY <1>13 DEF Leave
  <2> QED BY <2>1 DEF TypeOK, Sound, world, data, boxes, memory
<1> QED BY <1>3, <1>4, <1>5, <1>6, <1>7, <1>8, <1>9, <1>10, <1>11, <1>12, <1>13 DEF Helper

LEMMA SoundKeeps == TypeOK /\ Sound /\ [Next]_vars => TypeOK' /\ Sound'
<1> SUFFICES ASSUME TypeOK, Sound, [Next]_vars PROVE TypeOK' /\ Sound' OBVIOUS
<1>1. CASE Publish
  <2>1. newest' \in Releases /\ newest' = newest + 1 /\ newest \in Nat
    BY <1>1, Bounds DEF Publish, TypeOK, Releases
  <2>2. TypeOK'
    BY <1>1, <2>1 DEF Publish, TypeOK, data, boxes, memory, help
  <2>3. \A b \in Boxes : newest > image[b] => newest' > image[b]
    <3>1. \A b \in Boxes : image[b] \in Nat
      BY Bounds DEF TypeOK
    <3> QED BY <2>1, <3>1
  <2> QED BY <1>1, <2>2, <2>3 DEF Publish, Sound, boxes, memory, help
<1>2. ASSUME NEW n \in Depths, HelperDies(n) PROVE TypeOK' /\ Sound'
  BY <1>2 DEF HelperDies, Trouble, TypeOK, Sound, world, data, boxes, memory
<1>3. ASSUME NEW n \in Depths, Helper(n) PROVE TypeOK' /\ Sound'
  BY <1>3, HelperTypes
<1>4. ASSUME NEW b \in Boxes, Server(b) PROVE TypeOK' /\ Sound'
  BY <1>4, ServerTypes, ServerSound
<1>5. CASE UNCHANGED vars
  BY <1>5 DEF vars, TypeOK, Sound, world, data, boxes, memory, help
<1> QED BY <1>1, <1>2, <1>3, <1>4, <1>5 DEF Next

-----------------------------------------------------------------------------
\* As long as no server takes up its work under a helper: the server's half.
MemoryOfOthers(b) ==
  \A c \in Boxes \ {b} : /\ at'[c] = at[c] /\ state'[c] = state[c] /\ latest'[c] = latest[c]
                         /\ thread'[c] = thread[c] /\ me'[c] = me[c]

\* A server that only changes its own memory.
LEMMA QuietServer ==
  ASSUME TypeOK, Strict, NEW b \in Boxes, b \in running, MemoryOfOthers(b),
         UNCHANGED <<image, name, running, help>>,
         proven \subseteq proven', proven' \subseteq Boxes,
         healthy' \subseteq proven', at'[b] # "off", Orderly(b)', Waits(b) => Waits(b)'
  PROVE  Strict'
<1> USE DEF MemoryOfOthers
<1>1. Single' /\ ProvenKept'
  BY DEF Strict, Single, ProvenKept, TypeOK
<1>2. Names'
  BY DEF Strict, Names, Lowest
<1>3. \A c \in Boxes : Orderly(c)'
  BY DEF Strict, Orderly, help
<1>4. Helped'
  <2>1. \A c \in Boxes : Waits(c) => Waits(c)'
    BY DEF Waits
  <2>2. Fresh' /\ \A n, m \in Depths : helper'[n] = "running" /\ helper'[m] = "running" => n = m
    BY DEF Strict, Helped, Fresh, help
  <2>3. \A n \in Depths : helper'[n] = "running" => helper[n] = "running"
    BY DEF help
  <2>4. \A n \in Depths : (Aside(n) => Aside(n)') /\ (Core(n) => Core(n)')
    BY DEF Aside, Core, Lowest, help
  <2> QED BY <2>1, <2>2, <2>3, <2>4 DEF Strict, Helped
<1> QED BY <1>1, <1>2, <1>3, <1>4 DEF Strict

\* One that puts its hands on a helper, when none is at work, or none is afterwards.
LEMMA IdleHelpers ==
  ASSUME TypeOK, Strict, NEW b \in Boxes, b \in running, MemoryOfOthers(b),
         UNCHANGED boxes, at'[b] # "off", Orderly(b)', Fresh',
         \A n \in Depths : helper'[n] # "running"
  PROVE  Strict'
<1> USE DEF MemoryOfOthers, boxes
<1>1. Single' /\ ProvenKept'
  BY DEF Strict, Single, ProvenKept
<1>2. Names'
  BY DEF Strict, Names, Lowest
<1>3. \A c \in Boxes : Orderly(c)'
  <2>1. \A c \in Boxes \ {b} : at[c] = "off"
    BY DEF Strict, Single, Names
  <2>2. \A c \in Boxes \ {b} :
          latest[c] = 0 /\ thread[c] = "none" /\ state[c] \in {"idle", "failed"}
    BY <2>1 DEF Strict, Orderly
  <2> QED BY <2>1, <2>2 DEF Orderly
<1>4. Helped'
  BY DEF Helped
<1> QED BY <1>1, <1>2, <1>3, <1>4 DEF Strict

\* A helper at work is not under the hands of a server that does not wait.
LEMMA NobodyWorks ==
  ASSUME Strict, NEW b \in Boxes, ~ Waits(b) PROVE \A n \in Depths : helper[n] # "running"
BY DEF Strict, Helped

LEMMA RemovedHelper ==
  ASSUME TypeOK, Fresh, NEW n \in Depths, RemovesHelper(n),
         \A m \in Depths : helper[m] # "running"
  PROVE  Fresh' /\ \A m \in Depths : helper'[m] # "running"
<1>1. CASE UNCHANGED help
  BY <1>1 DEF help, Fresh
<1>2. CASE helper' = [helper EXCEPT ![n] = "none"] /\ task' = [task EXCEPT ![n] = NoTask]
  <2>1. helper'[n] = "none" /\ \A m \in Depths \ {n} : helper'[m] = helper[m] /\ task'[m] = task[m]
    BY <1>2 DEF TypeOK
  <2> QED BY <2>1 DEF Fresh
<1> QED BY <1>1, <1>2 DEF RemovesHelper

LEMMA ServerKeeps ==
  ASSUME TypeOK, TypeOK', Sound, Strict, NEW b \in Boxes, Server(b) PROVE loose' \/ Strict'
<1>0. b \in running
  BY DEF Server, Boot, Reconcile, Clear, Check, Restarts, Install, Pull, Backup, RemoveHelper,
         CreateHelper, StartHelper, Goes, Sound, TypeOK
<1>own. Orderly(b) /\ healthy \subseteq proven
  BY DEF Strict, Names
<1>1. CASE Boot(b)
  <2>1. /\ MemoryOfOthers(b) /\ UNCHANGED <<image, name, running, help>> /\ proven \subseteq proven'
        /\ proven' \subseteq Boxes /\ healthy' \subseteq proven' /\ at'[b] # "off"
    BY <1>own, <1>1 DEF Boot, MemoryOfOthers, TypeOK
  <2>2. Orderly(b)' /\ (Waits(b) => Waits(b)')
    BY <1>own, <1>1 DEF Boot, Orderly, Waits, help, TypeOK
  <2> QED BY <1>0, <2>1, <2>2, QuietServer
<1>2. CASE Reconcile(b)
  <2>1. /\ MemoryOfOthers(b) /\ UNCHANGED <<image, name, running, help>> /\ proven \subseteq proven'
        /\ proven' \subseteq Boxes /\ healthy' \subseteq proven' /\ at'[b] # "off"
    BY <1>own, <1>2 DEF Reconcile, MemoryOfOthers, boxes, TypeOK
  <2>2. state'[b] = state[b] \/ state'[b] = "failed"
    BY <1>2 DEF Reconcile, TypeOK
  <2>3. Orderly(b)'
    BY <1>own, <1>2, <2>2 DEF Reconcile, Orderly, help, TypeOK
  <2>4. CASE at'[b] = "ended"
    BY <1>0, <1>2, <2>1, <2>3, <2>4, QuietServer DEF Waits, Reconcile
  <2>5. CASE at'[b] # "ended" /\ Waits(b)
    <3>1. loose' = (loose \/ Tended(b))
      BY <1>2, <2>5 DEF Reconcile, TypeOK
    <3>2. CASE Tended(b)
      BY <3>1, <3>2
    <3>3. CASE ~ Tended(b)
      <4>1. \A n \in Depths : helper[n] # "running"
        BY <1>0, <3>3 DEF Tended, Strict, Helped, Core
      <4>2. UNCHANGED boxes /\ \A n \in Depths : helper'[n] # "running"
        BY <1>2, <4>1 DEF Reconcile, help
      <4>3. Fresh'
        BY <1>2 DEF Reconcile, help, Fresh, Strict, Helped
      <4> QED BY <1>0, <2>1, <2>3, <4>2, <4>3, IdleHelpers
    <3> QED BY <3>2, <3>3
  <2>6. CASE ~ Waits(b)
    <3>1. FALSE
      BY <1>2, <1>own, <2>6 DEF Waits, Orderly, Reconcile
    <3> QED BY <3>1
  <2> QED BY <2>4, <2>5, <2>6
<1>3. CASE Clear(b)
  <2>1. \A n \in Depths : helper[n] # "running"
    BY <1>3, NobodyWorks DEF Waits, Clear
  <2>2. /\ Fresh' /\ \A n \in Depths : helper'[n] # "running"
    <3>1. RemovesHelper(me[b]) /\ me[b] \in Depths /\ Fresh
      BY <1>3 DEF Clear, Strict, Helped, TypeOK
    <3> QED BY <2>1, <3>1, RemovedHelper
  <2>3. MemoryOfOthers(b) /\ UNCHANGED boxes /\ at'[b] # "off"
    BY <1>3 DEF Clear, MemoryOfOthers, TypeOK
  <2>4. Orderly(b)'
    BY <1>3, <1>own DEF Clear, Orderly, TypeOK
  <2> QED BY <1>0, <2>2, <2>3, <2>4, IdleHelpers
<1>4. CASE Check(b)
  <2>1. /\ MemoryOfOthers(b) /\ UNCHANGED <<image, name, running, help>> /\ proven \subseteq proven'
        /\ proven' \subseteq Boxes /\ healthy' \subseteq proven' /\ at'[b] # "off"
    BY <1>own, <1>4 DEF Check, MemoryOfOthers, boxes, TypeOK
  <2>2. Orderly(b)' /\ (Waits(b) => Waits(b)')
    BY <1>own, <1>4 DEF Check, Orderly, Waits, help
  <2> QED BY <1>0, <2>1, <2>2, QuietServer
<1>5. CASE Restarts(b)
  <2>1. /\ MemoryOfOthers(b) /\ UNCHANGED <<image, name, running, help>> /\ proven \subseteq proven'
        /\ proven' \subseteq Boxes /\ healthy' \subseteq proven' /\ at'[b] # "off"
    BY <1>own, <1>5 DEF Restarts, Forgets, MemoryOfOthers, TypeOK
  <2>2. Orderly(b)' /\ (Waits(b) => Waits(b)')
    BY <1>own, <1>5 DEF Restarts, Forgets, Orderly, Waits, help, TypeOK
  <2> QED BY <1>0, <2>1, <2>2, QuietServer
<1>6. CASE Install(b)
  <2>1. /\ MemoryOfOthers(b) /\ UNCHANGED <<image, name, running, help>> /\ proven \subseteq proven'
        /\ proven' \subseteq Boxes /\ healthy' \subseteq proven' /\ at'[b] # "off"
    BY <1>own, <1>6 DEF Install, MemoryOfOthers, boxes, TypeOK, Sound
  <2>2. Orderly(b)' /\ (Waits(b) => Waits(b)')
    BY <1>own, <1>6 DEF Install, Orderly, Waits, help, TypeOK
  <2> QED BY <1>0, <2>1, <2>2, QuietServer
<1>7. CASE Pull(b)
  <2>1. /\ MemoryOfOthers(b) /\ UNCHANGED <<image, name, running, help>> /\ proven \subseteq proven'
        /\ proven' \subseteq Boxes /\ healthy' \subseteq proven' /\ at'[b] # "off"
    BY <1>own, <1>7 DEF Pull, Goes, ThreadFails, MemoryOfOthers, boxes, TypeOK, Sound
  <2>2. Orderly(b)' /\ (Waits(b) => Waits(b)')
    BY <1>own, <1>7 DEF Pull, Goes, ThreadFails, Orderly, Waits, help, TypeOK
  <2> QED BY <1>0, <2>1, <2>2, QuietServer
<1>8. CASE Backup(b)
  <2>1. /\ MemoryOfOthers(b) /\ UNCHANGED <<image, name, running, help>> /\ proven \subseteq proven'
        /\ proven' \subseteq Boxes /\ healthy' \subseteq proven' /\ at'[b] # "off"
    BY <1>own, <1>8 DEF Backup, Goes, ThreadFails, MemoryOfOthers, boxes, TypeOK, Sound
  <2>2. Orderly(b)' /\ (Waits(b) => Waits(b)')
    BY <1>own, <1>8 DEF Backup, Goes, ThreadFails, Orderly, Waits, help, TypeOK
  <2> QED BY <1>0, <2>1, <2>2, QuietServer
<1>9. CASE RemoveHelper(b)
  <2>1. \A n \in Depths : helper[n] # "running"
    BY <1>9, NobodyWorks DEF Waits, RemoveHelper, Goes
  <2>2. /\ Fresh' /\ \A n \in Depths : helper'[n] # "running"
    <3>1. RemovesHelper(me[b]) /\ me[b] \in Depths /\ Fresh
      BY <1>9 DEF RemoveHelper, Strict, Helped, TypeOK
    <3> QED BY <2>1, <3>1, RemovedHelper
  <2>3. MemoryOfOthers(b) /\ UNCHANGED boxes /\ at'[b] # "off"
    BY <1>9 DEF RemoveHelper, Goes, MemoryOfOthers, TypeOK, Sound
  <2>4. Orderly(b)'
    BY <1>9, <1>own DEF RemoveHelper, Goes, Orderly, TypeOK
  <2> QED BY <1>0, <2>2, <2>3, <2>4, IdleHelpers
<1>10. CASE CreateHelper(b)
  <2>1. \A n \in Depths : helper[n] # "running"
    BY <1>10, NobodyWorks DEF Waits, CreateHelper
  <2>2. MemoryOfOthers(b) /\ UNCHANGED boxes /\ at'[b] # "off"
    BY <1>10 DEF CreateHelper, ThreadFails, MemoryOfOthers, TypeOK, Sound
  <2>3. CASE UNCHANGED help /\ ThreadFails(b)
    <3>1. Orderly(b)'
      BY <1>10, <1>own, <2>3 DEF CreateHelper, ThreadFails, Orderly, TypeOK
    <3>2. Fresh' /\ \A n \in Depths : helper'[n] # "running"
      BY <2>1, <2>3 DEF help, Fresh, Strict, Helped
    <3> QED BY <1>0, <2>2, <3>1, <3>2, IdleHelpers
  <2>4. ASSUME helper' = [helper EXCEPT ![me[b]] = "created"],
               task' = [task EXCEPT ![me[b]] = [step |-> "look", old |-> b, new |-> 0,
                                                to |-> latest[b], base |-> 0]],
               thread' = [thread EXCEPT ![b] = "start"], state' = [state EXCEPT ![b] = "restarting"]
        PROVE  Strict'
    <3>1. Orderly(b)'
      BY <1>10, <1>own, <2>4 DEF CreateHelper, Orderly, TypeOK
    <3>2. Fresh' /\ \A n \in Depths : helper'[n] # "running"
      BY <2>1, <2>4 DEF Fresh, Strict, Helped, TypeOK
    <3> QED BY <1>0, <2>2, <3>1, <3>2, IdleHelpers
  <2> QED BY <1>10, <2>3, <2>4 DEF CreateHelper
<1>11. CASE StartHelper(b)
  <2>1. \A n \in Depths : helper[n] # "running"
    BY <1>11, NobodyWorks DEF Waits, StartHelper
  <2>2. MemoryOfOthers(b) /\ UNCHANGED <<boxes, at, me, latest, task>> /\ at'[b] # "off"
    BY <1>11 DEF StartHelper, Goes, ThreadFails, MemoryOfOthers, TypeOK, Sound
  <2>3. CASE ThreadFails(b) /\ UNCHANGED helper
    <3>1. Orderly(b)'
      BY <1>11, <1>own, <2>3 DEF StartHelper, ThreadFails, Orderly, TypeOK
    <3>2. Fresh' /\ \A n \in Depths : helper'[n] # "running"
      BY <2>1, <2>2, <2>3 DEF Fresh, Strict, Helped
    <3> QED BY <1>0, <2>2, <3>1, <3>2, IdleHelpers
  <2>4. ASSUME helper[me[b]] = "created", helper' = [helper EXCEPT ![me[b]] = "running"],
               Goes(b, "start", "none")
        PROVE  Strict'
    <3>0. PICK k \in Depths : k = me[b]
      BY DEF TypeOK
    <3>1. task[k].old = b /\ task[k].step = "look" /\ task[k].new = 0 /\ k \in Depths
      BY <2>4, <3>0, <1>own DEF Goes, Orderly, Strict, Helped, Fresh, TypeOK
    <3>2. Single' /\ ProvenKept' /\ Names'
      BY <2>2 DEF Strict, Single, ProvenKept, Names, Lowest, boxes
    <3>3. running = {b} /\ \A c \in Boxes \ {b} : at[c] = "off"
      BY <1>0 DEF Strict, Single, Names
    <3>4. state[b] = "restarting" /\ \A c \in Boxes \ {b} : thread[c] = "none" /\ latest[c] = 0
                                       /\ state[c] \in {"idle", "failed"}
      BY <2>4, <3>3, <1>own DEF Strict, Orderly, Goes
    <3>5. \A c \in Boxes : Orderly(c)' /\ Waits(c)'
      BY <2>2, <2>4, <3>3, <3>4, <1>own DEF Goes, Orderly, Waits, TypeOK, Sound
    <3>6. Fresh' /\ \A n \in Depths : helper'[n] = "running" => n = k
      BY <2>1, <2>2, <2>4, <3>0 DEF Fresh, Strict, Helped, TypeOK
    <3>7. Lowest(b)
      BY <1>0 DEF Strict, Names
    <3>8. Aside(k)' /\ Core(k)'
      BY <2>2, <3>1, <3>3, <3>7 DEF Aside, Core, Lowest, boxes
    <3>9. \A n \in Depths : helper'[n] = "running" => Aside(n)' /\ Core(n)'
      BY <3>6, <3>8
    <3>10. Helped'
      BY <3>5, <3>6, <3>9 DEF Helped
    <3> QED BY <3>2, <3>5, <3>10 DEF Strict
  <2> QED BY <1>11, <2>3, <2>4 DEF StartHelper
<1> QED BY <1>1, <1>2, <1>3, <1>4, <1>5, <1>6, <1>7, <1>8, <1>9, <1>10, <1>11 DEF Server

-----------------------------------------------------------------------------
\* The helper's half.
LEMMA HelperStep ==
  ASSUME TypeOK, Strict, NEW n \in Depths, helper[n] = "running",
         \A m \in Depths \ {n} : helper'[m] = helper[m] /\ task'[m] = task[m],
         \A c \in Boxes :
           \/ at'[c] = at[c] /\ latest'[c] = latest[c] /\ thread'[c] = thread[c]
              /\ state'[c] = state[c]
           \/ at'[c] \in {"off", "boot"} /\ latest'[c] = 0 /\ thread'[c] = "none"
              /\ state'[c] = "idle",
         helper'[n] # "created", Single', ProvenKept', Names',
         helper'[n] = "running" => Aside(n)' /\ Core(n)'
  PROVE  Strict'
<1>1. \A c \in Boxes : Waits(c) /\ Orderly(c)
  BY DEF Strict, Helped
<1>2. \A c \in Boxes : Waits(c)' /\ Orderly(c)'
  BY <1>1 DEF Waits, Orderly
<1>3. \A m \in Depths \ {n} : helper[m] # "running"
  BY DEF Strict, Helped
<1>4. Fresh' /\ \A m \in Depths : helper'[m] = "running" => m = n
  BY <1>3 DEF Strict, Helped, Fresh
<1>5. \A m \in Depths : helper'[m] = "running" => Aside(m)' /\ Core(m)'
  BY <1>4 DEF Aside, Core
<1>6. Helped'
  BY <1>2, <1>4, <1>5 DEF Helped
<1> QED BY <1>2, <1>6 DEF Strict

\* A step that only goes on, by what it does to the containers.
LEMMA HelperGoes ==
  ASSUME TypeOK, Strict, NEW n \in Depths, helper[n] = "running", NEW s \in Steps, GoTo(n, s),
         \/ UNCHANGED <<running, memory>>
         \/ \E b \in Boxes : Forgets(b, "off") /\ running' = running \ {b}
         \/ \E b \in Boxes : Forgets(b, "boot") /\ running' = running \cup {b},
         proven' = proven, Single', ProvenKept', Names', Aside(n)', Core(n)'
  PROVE  Strict'
<1>1. helper' = helper /\ \A m \in Depths \ {n} : task'[m] = task[m]
  BY GoesOn
<1>2. \A c \in Boxes :
        \/ at'[c] = at[c] /\ latest'[c] = latest[c] /\ thread'[c] = thread[c]
           /\ state'[c] = state[c]
        \/ at'[c] \in {"off", "boot"} /\ latest'[c] = 0 /\ thread'[c] = "none"
           /\ state'[c] = "idle"
  BY ForgetsTypes DEF memory
<1> QED BY <1>1, <1>2, HelperStep

\* One that only fails.
LEMMA OnlyFails ==
  ASSUME TypeOK, Strict, NEW n \in Depths, helper[n] = "running", Fail(n),
         UNCHANGED <<boxes, memory>>
  PROVE  Strict'
<1>1. /\ helper' = helper /\ task'[n].step = "quit" /\ task'[n].old = task[n].old
      /\ task'[n].new = task[n].new
  BY GoesOn DEF Fail, Steps
<1>2. Single' /\ ProvenKept' /\ Names'
  BY DEF Strict, Single, ProvenKept, Names, Lowest, boxes, memory
<1>3. Core(n)
  BY DEF Strict, Helped
<1>4. Aside(n)' /\ Core(n)'
  BY <1>1, <1>3 DEF Aside, Core, boxes
<1>5. GoTo(n, "quit") /\ "quit" \in Steps /\ UNCHANGED <<running, memory>> /\ proven' = proven
  BY DEF Fail, Steps, boxes
<1> QED BY <1>2, <1>4, <1>5, HelperGoes

LEMMA HelperKeeps ==
  ASSUME TypeOK, TypeOK', Sound, Strict, NEW n \in Depths, Helper(n) PROVE Strict'
<1> DEFINE t == task[n]
<1>0. /\ t.old \in Boxes /\ t.new \in Boxes \cup {0} /\ t.to \in Releases /\ t.base \in 0..MaxDepth
      /\ t.step \in Steps /\ helper[n] = "running"
  BY DEF TypeOK, Helper, LookUp, Rename, Stop, Create, Start, Wait, RemoveOld, RemoveNew, NameBack,
         StartOld, Leave, At
<1>holds. Single /\ ProvenKept /\ Names /\ Aside(n) /\ Core(n)
  BY <1>0 DEF Strict, Helped
<1>1. CASE LookUp(n)
  <2>1. CASE Fail(n)
    BY <1>0, <1>1, <2>1, OnlyFails DEF LookUp
  <2>2. ASSUME helper' = helper,
               task' = [task EXCEPT ![n] = [@ EXCEPT !.step = "rename", !.base = name[t.old]]]
        PROVE  Strict'
    <3>1. /\ task'[n].step = "rename" /\ task'[n].base = name[t.old] /\ task'[n].old = t.old
          /\ task'[n].new = t.new /\ \A m \in Depths \ {n} : task'[m] = task[m]
      BY <2>2 DEF TypeOK
    <3>2. t.step = "look" /\ UNCHANGED <<boxes, memory>>
      BY <1>1 DEF LookUp, At
    <3>3. Aside(n)' /\ Core(n)'
      BY <1>holds, <3>1, <3>2 DEF Aside, Core, Lowest, boxes
    <3>4. Single' /\ ProvenKept' /\ Names'
      BY <1>holds, <3>2 DEF Single, ProvenKept, Names, Lowest, boxes, memory
    <3> QED BY <1>0, <2>2, <3>1, <3>2, <3>3, <3>4, HelperStep DEF memory
  <2>3. Fail(n) \/ (helper' = helper
          /\ task' = [task EXCEPT ![n] = [@ EXCEPT !.step = "rename", !.base = name[t.old]]])
    BY <1>1, Zenon DEF LookUp
  <2> QED BY <2>1, <2>2, <2>3
<1>2. CASE Rename(n)
  <2>1. CASE Fail(n) /\ UNCHANGED name
    BY <1>0, <1>2, <2>1, OnlyFails DEF Rename, boxes
  <2>2. ASSUME Here(t.old), Named(t.base + 1) = {}, GoTo(n, "stop"),
               name' = [name EXCEPT ![t.old] = t.base + 1]
        PROVE  Strict'
    <3>1. /\ task'[n].step = "stop" /\ task'[n].base = t.base /\ task'[n].old = t.old
          /\ task'[n].new = t.new
      BY <2>2, GoesOn DEF Steps
    <3>2. /\ t.step = "rename" /\ UNCHANGED <<image, running, healthy, proven, memory>>
          /\ Lowest(t.old) /\ t.base = name[t.old] /\ running \subseteq {t.old} /\ t.new = 0
      BY <1>2, <1>holds, Bounds DEF Rename, At, Core, TypeOK
    <3>3. \A c \in Boxes \ {t.old} : name[c] = 0
      <4> SUFFICES ASSUME NEW c \in Boxes \ {t.old}, name[c] # 0 PROVE FALSE
        OBVIOUS
      <4>1. name[c] \in Nat /\ name[t.old] \in Nat /\ name[t.old] # 0 /\ name[t.old] <= name[c]
        BY <1>0, <3>2, Bounds DEF Lowest, TypeOK
      <4>2. name[c] # name[t.old]
        BY <1>0, <1>holds DEF Names
      <4>3. name[c] = name[t.old] + 1
        BY <1>0, <1>holds, <4>1, <4>2 DEF Names
      <4> QED BY <2>2, <3>2, <4>3 DEF Named
    <3>4. t.base \in Nat /\ t.base # 0
      BY <1>0, <3>2, Bounds DEF Lowest
    <3>5. name'[t.old] = t.base + 1 /\ \A c \in Boxes \ {t.old} : name'[c] = 0
      BY <1>0, <2>2, <3>3 DEF TypeOK
    <3>6. t.old \in proven
      BY <1>holds, <3>3 DEF ProvenKept, TypeOK
    <3>7. Single' /\ ProvenKept' /\ Names'
      BY <1>0, <1>holds, <3>2, <3>4, <3>5, <3>6 DEF Single, ProvenKept, Names, Lowest, memory
    <3>8. Aside(n)' /\ Core(n)'
      BY <1>holds, <3>1, <3>2, <3>4, <3>5, <3>6 DEF Aside, Core
    <3> QED BY <1>0, <2>2, <3>2, <3>7, <3>8, HelperGoes DEF Steps
  <2> QED BY <1>2, <2>1, <2>2 DEF Rename
<1>3. CASE Stop(n)
  <2>1. CASE Fail(n) /\ UNCHANGED <<running, healthy, memory>>
    BY <1>0, <1>3, <2>1, OnlyFails DEF Stop, boxes
  <2>2. ASSUME Stopped(t.old), GoTo(n, "create") PROVE Strict'
    <3>1. /\ task'[n].step = "create" /\ task'[n].base = t.base /\ task'[n].old = t.old
          /\ task'[n].new = t.new
      BY <2>2, GoesOn DEF Steps
    <3>2. t.step = "stop" /\ UNCHANGED <<image, name, proven>> /\ t.new = 0
      BY <1>3, <1>holds DEF Stop, At, Core
    <3>3. running' = {} /\ healthy' \subseteq proven /\ Forgets(t.old, "off")
          /\ running' = running \ {t.old}
      <4>1. running \subseteq {t.old}
        <5>1. running \subseteq {t.old, 0} /\ running \subseteq Boxes
          BY <1>holds, <3>2 DEF Core, TypeOK
        <5> QED BY <5>1, Bounds
      <4>2. healthy \subseteq proven
        BY <1>holds DEF Names
      <4> QED BY <2>2, <4>1, <4>2 DEF Stopped
    <3>4. \A c \in Boxes : at'[c] = "off"
      BY <1>0, <1>holds, <3>3, ForgetsTypes DEF Names
    <3>5. Single' /\ ProvenKept' /\ Names'
      BY <1>holds, <3>2, <3>3, <3>4 DEF Single, ProvenKept, Names, Lowest
    <3>6. Aside(n)' /\ Core(n)'
      BY <1>holds, <3>1, <3>2, <3>3 DEF Aside, Core
    <3> QED BY <1>0, <2>2, <3>2, <3>3, <3>5, <3>6, HelperGoes DEF Steps
  <2> QED BY <1>3, <2>1, <2>2 DEF Stop
<1>4. CASE Create(n)
  <2>0. /\ t.step = "create" /\ UNCHANGED <<running, healthy, proven, memory>>
        /\ running = {} /\ t.new = 0
    BY <1>4, <1>holds DEF Create, At, Core
  <2>1. CASE GoTo(n, "restore") /\ UNCHANGED <<image, name>>
    <3>1. /\ task'[n].step = "restore" /\ task'[n].base = t.base /\ task'[n].old = t.old
          /\ task'[n].new = t.new
      BY <2>1, GoesOn DEF Steps
    <3>2. Single' /\ ProvenKept' /\ Names'
      BY <1>holds, <2>0, <2>1 DEF Single, ProvenKept, Names, Lowest, memory
    <3>3. Aside(n)' /\ Core(n)'
      BY <1>0, <1>holds, <2>0, <2>1, <3>1, Bounds DEF Aside, Core
    <3> QED BY <1>0, <2>0, <2>1, <3>2, <3>3, HelperGoes DEF Steps
  <2>2. ASSUME NEW b \in Boxes, image[b] = 0, helper' = helper,
               image' = [image EXCEPT ![b] = t.to], name' = [name EXCEPT ![b] = t.base],
               task' = [task EXCEPT ![n] = [@ EXCEPT !.step = "start", !.new = b]]
        PROVE  Strict'
    <3>1. /\ task'[n].step = "start" /\ task'[n].base = t.base /\ task'[n].old = t.old
          /\ task'[n].new = b /\ \A m \in Depths \ {n} : task'[m] = task[m]
      BY <2>2 DEF TypeOK
    <3>2. /\ t.old \in proven /\ t.base \in Nat /\ t.base > 0 /\ name[t.old] = t.base + 1
          /\ \A c \in Boxes \ {t.old} : name[c] = 0
      BY <1>0, <1>holds, <2>0, Bounds DEF Aside
    <3>3. name[b] = 0 /\ b # t.old
      BY <1>holds, <2>2, <3>2 DEF Names
    <3>4. /\ name'[t.old] = t.base + 1 /\ name'[b] = t.base /\ image'[b] # 0
          /\ \A c \in Boxes \ {t.old, b} : name'[c] = 0
      BY <1>0, <2>2, <3>2, <3>3, Bounds DEF TypeOK
    <3>5. \A c \in Boxes : name'[c] # 0 => image'[c] # 0
      BY <1>0, <1>holds, <2>2, <3>2, <3>3, <3>4 DEF TypeOK, Names
    <3>6. Single' /\ ProvenKept'
      BY <1>0, <1>holds, <2>0, <3>2, <3>4 DEF Single, ProvenKept
    <3>7. Names'
      BY <1>holds, <2>0, <3>2, <3>3, <3>4, <3>5 DEF Names, memory
    <3>8. Aside(n)' /\ Core(n)'
      BY <2>0, <3>1, <3>2, <3>3, <3>4 DEF Aside, Core
    <3> QED BY <1>0, <2>0, <2>2, <3>1, <3>6, <3>7, <3>8, HelperStep DEF memory
  <2> QED BY <1>4, <2>1, <2>2 DEF Create
<1>5. CASE Start(n)
  <2>0. /\ t.step = "start" /\ UNCHANGED <<image, name, healthy, proven>> /\ running = {}
        /\ t.new \in Boxes /\ t.new # t.old /\ name[t.new] = t.base
        /\ t.old \in proven /\ t.base > 0 /\ t.base \in Nat /\ name[t.old] = t.base + 1
        /\ \A c \in Boxes : name[c] # 0 => c \in {t.old, t.new}
    BY <1>0, <1>5, <1>holds, Bounds DEF Start, At, Core, Aside, Sound
  <2>1. CASE GoTo(n, "discard") /\ UNCHANGED <<running, memory>>
    <3>1. /\ task'[n].step = "discard" /\ task'[n].base = t.base /\ task'[n].old = t.old
          /\ task'[n].new = t.new
      BY <2>1, GoesOn DEF Steps
    <3>2. Single' /\ ProvenKept' /\ Names'
      BY <1>holds, <2>0, <2>1 DEF Single, ProvenKept, Names, Lowest, memory
    <3>3. Aside(n)' /\ Core(n)'
      BY <1>holds, <2>0, <2>1, <3>1 DEF Aside, Core
    <3> QED BY <1>0, <2>0, <2>1, <3>2, <3>3, HelperGoes DEF Steps
  <2>2. ASSUME Started(t.new), GoTo(n, "wait") PROVE Strict'
    <3>1. /\ task'[n].step = "wait" /\ task'[n].base = t.base /\ task'[n].old = t.old
          /\ task'[n].new = t.new
      BY <2>2, GoesOn DEF Steps
    <3>2. running' = {t.new} /\ running' = running \cup {t.new} /\ Forgets(t.new, "boot")
      BY <2>0, <2>2 DEF Started
    <3>3. \A c \in Boxes : at'[c] # "off" <=> c = t.new
      BY <1>holds, <2>0, <3>2, ForgetsTypes DEF Names
    <3>4. Lowest(t.new)
      BY <1>0, <2>0 DEF Lowest
    <3>5. Single' /\ ProvenKept' /\ Names'
      BY <1>holds, <2>0, <3>2, <3>3, <3>4 DEF Single, ProvenKept, Names, Lowest
    <3>6. Aside(n)' /\ Core(n)'
      BY <1>holds, <2>0, <3>1, <3>2 DEF Aside, Core
    <3> QED BY <1>0, <2>0, <2>2, <3>2, <3>5, <3>6, HelperGoes DEF Steps
  <2> QED BY <1>5, <2>1, <2>2 DEF Start
<1>6. CASE Wait(n)
  <2>1. PICK s \in {"retire", "discard"} : GoTo(n, s) /\ (s = "retire" => t.new \in proven)
    BY <1>6, <1>holds DEF Wait, Names
  <2>2. t.step = "wait" /\ UNCHANGED <<boxes, memory>>
    BY <1>6 DEF Wait, At
  <2>3. /\ task'[n].step = s /\ task'[n].base = t.base /\ task'[n].old = t.old
        /\ task'[n].new = t.new /\ s \in Steps
    BY <2>1, GoesOn DEF Steps
  <2>4. Single' /\ ProvenKept' /\ Names'
    BY <1>holds, <2>2 DEF Single, ProvenKept, Names, Lowest, boxes, memory
  <2>5. Aside(n)' /\ Core(n)'
    BY <1>holds, <2>1, <2>2, <2>3 DEF Aside, Core, boxes
  <2> QED BY <1>0, <2>1, <2>2, <2>3, <2>4, <2>5, HelperGoes DEF boxes
<1>7. CASE RemoveOld(n)
  <2>1. CASE Fail(n) /\ UNCHANGED name
    BY <1>0, <1>7, <2>1, OnlyFails DEF RemoveOld, boxes
  <2>2. ASSUME t.old \notin running, GoTo(n, "leave"), name' = [name EXCEPT ![t.old] = 0]
        PROVE  Strict'
    <3>1. /\ task'[n].step = "leave" /\ task'[n].old = t.old /\ task'[n].new = t.new
      BY <2>2, GoesOn DEF Steps
    <3>2. /\ t.step = "retire" /\ UNCHANGED <<image, running, healthy, proven, memory>>
          /\ t.new \in proven /\ t.new # t.old /\ name[t.new] = t.base /\ t.base > 0
          /\ running \subseteq {t.new} /\ t.new \in Boxes
      BY <1>0, <1>7, <1>holds DEF RemoveOld, At, Core, Aside, TypeOK
    <3>3. \A c \in Boxes \ {t.new} : name'[c] = 0
      BY <1>0, <1>holds, <2>2, <3>2 DEF Aside, TypeOK
    <3>4. name'[t.new] = t.base /\ t.base # 0 /\ image[t.new] # 0
      <4>1. t.base # 0 /\ name[t.new] # 0
        BY <1>0, <3>2, Bounds
      <4>2. name'[t.new] = name[t.new]
        BY <2>2, <3>2 DEF TypeOK
      <4> QED BY <1>holds, <3>2, <4>1, <4>2 DEF Names
    <3>5. Single' /\ ProvenKept' /\ Names'
      BY <1>0, <1>holds, <3>2, <3>3, <3>4 DEF Single, ProvenKept, Names, Lowest, memory
    <3>6. Aside(n)' /\ Core(n)'
      BY <1>holds, <3>1, <3>2 DEF Aside, Core
    <3> QED BY <1>0, <2>2, <3>2, <3>5, <3>6, HelperGoes DEF Steps
  <2> QED BY <1>7, <2>1, <2>2 DEF RemoveOld
<1>8. CASE RemoveNew(n)
  <2>0. /\ t.step = "discard" /\ UNCHANGED <<image, proven>> /\ GoTo(n, "restore")
        /\ t.new \in Boxes /\ t.new # t.old /\ running \subseteq {t.new}
        /\ t.old \in proven /\ t.base > 0 /\ t.base \in Nat /\ name[t.old] = t.base + 1
        /\ \A c \in Boxes : name[c] # 0 => c = t.old \/ (c = t.new /\ name[c] = t.base)
    BY <1>0, <1>8, <1>holds, Bounds DEF RemoveNew, At, Core, Aside, Sound
  <2>1. /\ task'[n].step = "restore" /\ task'[n].base = t.base /\ task'[n].old = t.old
        /\ task'[n].new = t.new
    BY <2>0, GoesOn DEF Steps
  <2>2. CASE UNCHANGED <<name, running, healthy, memory>>
    <3>1. Single' /\ ProvenKept' /\ Names'
      BY <1>holds, <2>0, <2>2 DEF Single, ProvenKept, Names, Lowest, memory
    <3>2. Aside(n)' /\ Core(n)'
      BY <1>holds, <2>0, <2>1, <2>2 DEF Aside, Core
    <3> QED BY <1>0, <2>0, <2>2, <3>1, <3>2, HelperGoes DEF Steps
  <2>3. CASE name' = [name EXCEPT ![t.new] = 0] /\ Stopped(t.new)
    <3>1. /\ running' = {} /\ running' = running \ {t.new} /\ Forgets(t.new, "off")
          /\ healthy' \subseteq healthy
      BY <2>0, <2>3 DEF Stopped
    <3>2. \A c \in Boxes : at'[c] = "off"
      BY <1>holds, <2>0, <3>1, ForgetsTypes DEF Names
    <3>3. name'[t.old] = t.base + 1 /\ \A c \in Boxes \ {t.old} : name'[c] = 0
      BY <1>0, <2>0, <2>3 DEF TypeOK
    <3>4. image[t.old] # 0 /\ healthy' \subseteq proven'
      BY <1>0, <1>holds, <2>0, <3>1 DEF Names
    <3>5. Single' /\ ProvenKept' /\ Names'
      BY <1>0, <2>0, <3>1, <3>2, <3>3, <3>4 DEF Single, ProvenKept, Names, Lowest
    <3>6. Aside(n)' /\ Core(n)'
      BY <2>0, <2>1, <3>1, <3>3 DEF Aside, Core
    <3> QED BY <1>0, <2>0, <3>1, <3>5, <3>6, HelperGoes DEF Steps
  <2> QED BY <1>8, <2>2, <2>3 DEF RemoveNew
<1>9. CASE NameBack(n)
  <2>1. CASE Fail(n) /\ UNCHANGED name
    BY <1>0, <1>9, <2>1, OnlyFails DEF NameBack, boxes
  <2>2. ASSUME Named(t.base) = {}, GoTo(n, "revive"), name' = [name EXCEPT ![t.old] = t.base]
        PROVE  Strict'
    <3>1. /\ task'[n].step = "revive" /\ task'[n].old = t.old /\ task'[n].new = t.new
      BY <2>2, GoesOn DEF Steps
    <3>2. /\ t.step = "restore" /\ UNCHANGED <<image, running, healthy, proven, memory>>
          /\ running \subseteq {t.new} /\ t.old \in proven /\ t.base # 0 /\ t.base \in Nat
          /\ t.new # t.old /\ name[t.old] = t.base + 1
          /\ \A c \in Boxes : name[c] # 0 => c = t.old \/ (c = t.new /\ name[c] = t.base)
      BY <1>0, <1>9, <1>holds, Bounds DEF NameBack, At, Core, Aside
    <3>3. \A c \in Boxes \ {t.old} : name[c] = 0
      BY <2>2, <3>2 DEF Named
    <3>4. name'[t.old] = t.base /\ \A c \in Boxes \ {t.old} : name'[c] = 0
      BY <1>0, <2>2, <3>3 DEF TypeOK
    <3>5. running = {}
      <4>1. t.old \notin running
        BY <3>2
      <4>2. \A c \in running : c \in Boxes /\ name[c] # 0
        BY <1>holds DEF Names, Lowest, TypeOK
      <4> QED BY <3>3, <4>1, <4>2
    <3>6. image[t.old] # 0
      BY <1>0, <1>holds, <3>2 DEF Names
    <3>7. Single' /\ ProvenKept' /\ Names'
      BY <1>0, <1>holds, <3>2, <3>4, <3>5, <3>6 DEF Single, ProvenKept, Names, Lowest, memory
    <3>8. Aside(n)' /\ Core(n)'
      BY <3>1, <3>2, <3>4, <3>5 DEF Aside, Core
    <3> QED BY <1>0, <2>2, <3>2, <3>7, <3>8, HelperGoes DEF Steps
  <2> QED BY <1>9, <2>1, <2>2 DEF NameBack
<1>10. CASE StartOld(n)
  <2>0. /\ t.step = "revive" /\ UNCHANGED <<image, name, healthy, proven>> /\ running = {}
        /\ t.old \in proven /\ name[t.old] # 0 /\ \A c \in Boxes : name[c] # 0 => c = t.old
        /\ GoTo(n, "quit")
    BY <1>10, <1>holds DEF StartOld, Fail, At, Core
  <2>1. CASE UNCHANGED <<running, memory>>
    BY <1>0, <2>0, <2>1, OnlyFails DEF Fail, boxes
  <2>2. CASE Started(t.old)
    <3>1. /\ task'[n].step = "quit" /\ task'[n].old = t.old /\ task'[n].new = t.new
      BY <2>0, GoesOn DEF Steps
    <3>2. running' = {t.old} /\ running' = running \cup {t.old} /\ Forgets(t.old, "boot")
      BY <2>0, <2>2 DEF Started
    <3>3. \A c \in Boxes : at'[c] # "off" <=> c = t.old
      BY <1>0, <1>holds, <2>0, <3>2, ForgetsTypes DEF Names
    <3>4. Lowest(t.old)
      BY <1>0, <2>0, Bounds DEF Lowest, TypeOK
    <3>5. Single' /\ ProvenKept' /\ Names'
      BY <1>holds, <2>0, <3>2, <3>3, <3>4 DEF Single, ProvenKept, Names, Lowest
    <3>6. Aside(n)' /\ Core(n)'
      BY <3>1, <3>2 DEF Aside, Core
    <3> QED BY <1>0, <2>0, <3>2, <3>5, <3>6, HelperGoes DEF Steps
  <2> QED BY <1>10, <2>1, <2>2 DEF StartOld
<1>11. CASE Leave(n)
  <2>1. /\ UNCHANGED <<boxes, memory, task>> /\ helper'[n] \in {"done", "failed"}
        /\ \A m \in Depths \ {n} : helper'[m] = helper[m]
    BY <1>11 DEF Leave, TypeOK
  <2>2. Single' /\ ProvenKept' /\ Names'
    BY <1>holds, <2>1 DEF Single, ProvenKept, Names, Lowest, boxes, memory
  <2> QED BY <1>0, <2>1, <2>2, HelperStep DEF memory
<1> QED BY <1>1, <1>2, <1>3, <1>4, <1>5, <1>6, <1>7, <1>8, <1>9, <1>10, <1>11 DEF Helper

LEMMA StaysLoose == loose /\ [Next]_vars => loose'
BY DEF Next, Publish, HelperDies, Helper, LookUp, Rename, Stop, Create, Start, Wait, RemoveOld,
   RemoveNew, NameBack, StartOld, Leave, Server, Boot, Reconcile, Clear, Check, Restarts, Install,
   Pull, Backup, RemoveHelper, CreateHelper, StartHelper, vars

LEMMA StrictKeeps ==
  TypeOK /\ TypeOK' /\ Sound /\ (loose \/ Strict) /\ [Next]_vars => loose' \/ Strict'
<1> SUFFICES ASSUME TypeOK, TypeOK', Sound, loose \/ Strict, [Next]_vars PROVE loose' \/ Strict'
  OBVIOUS
<1>1. CASE loose
  BY <1>1, StaysLoose
<1>2. CASE Strict /\ (Publish \/ UNCHANGED vars)
  <2>1. UNCHANGED <<boxes, memory, help>>
    BY <1>2 DEF Publish, vars
  <2>2. Single' /\ ProvenKept' /\ Names'
    BY <1>2, <2>1 DEF Strict, Single, ProvenKept, Names, Lowest, boxes, memory
  <2>3. \A b \in Boxes : Orderly(b)' /\ (Waits(b) => Waits(b)')
    BY <1>2, <2>1 DEF Strict, Orderly, Waits, memory, help
  <2>4. Fresh' /\ \A n, m \in Depths : helper'[n] = "running" /\ helper'[m] = "running" => n = m
    BY <1>2, <2>1 DEF Strict, Helped, Fresh, help
  <2>5. \A n \in Depths : helper'[n] = "running" => Aside(n)' /\ Core(n)'
    BY <1>2, <2>1 DEF Strict, Helped, Aside, Core, Lowest, boxes, help
  <2>6. Helped'
    BY <1>2, <2>1, <2>3, <2>4, <2>5 DEF Strict, Helped, help
  <2> QED BY <2>2, <2>3, <2>6 DEF Strict
<1>3. ASSUME Strict, NEW n \in Depths, HelperDies(n) PROVE Strict'
  <2>1. /\ UNCHANGED <<boxes, memory, task>> /\ helper'[n] = "failed" /\ helper[n] = "running"
        /\ \A m \in Depths \ {n} : helper'[m] = helper[m]
    BY <1>3 DEF HelperDies, TypeOK
  <2>2. Single' /\ ProvenKept' /\ Names'
    BY <1>3, <2>1 DEF Strict, Single, ProvenKept, Names, Lowest, boxes, memory
  <2> QED BY <1>3, <2>1, <2>2, HelperStep DEF memory
<1>4. ASSUME Strict, NEW n \in Depths, Helper(n) PROVE Strict'
  BY <1>4, HelperKeeps
<1>5. ASSUME Strict, NEW b \in Boxes, Server(b) PROVE loose' \/ Strict'
  BY <1>5, ServerKeeps
<1> QED BY <1>1, <1>2, <1>3, <1>4, <1>5 DEF Next

-----------------------------------------------------------------------------
\* The types, what holds whoever does what, and, until a server takes up its work under a
\* helper at work on it, the rest: at every moment (update.py).
THEOREM InvHolds == Spec => []Inv
<1>1. Inv /\ [Next]_vars => Inv'
  BY SoundKeeps, StrictKeeps DEF Inv
<1> QED BY <1>1, Starts, PTL DEF Spec

\* Two servers never run over one database, unless one took up its work under a helper at
\* work on it (replace, reconcile; update.py).
THEOREM OneServesHolds == Spec => []OneServes
<1>1. Inv => OneServes
  BY DEF Inv, Strict, Single, OneServes
<1> QED BY <1>1, InvHolds, PTL

\* A container that has been healthy is always left, with the same exception (replace).
THEOREM ProvenKeptHolds == Spec => [](loose \/ ProvenKept)
<1>1. Inv => loose \/ ProvenKept
  BY DEF Inv, Strict
<1> QED BY <1>1, InvHolds, PTL

\* The helper is left to finish, with the same exception: neither the server that looks
\* after the last attempt nor one that begins another removes it (reconcile, _install).
THEOREM HelperIsLeftAlone == Spec => HelperUndisturbed
<1> DEFINE Left == \A n \in Depths :
             helper[n] = "running" => helper'[n] \in {"running", "done", "failed"} \/ loose
<1>1. Inv /\ [Next]_vars => [Left]_vars
  <2> SUFFICES ASSUME Inv, Next, ~ loose, NEW n \in Depths, helper[n] = "running"
      PROVE  helper'[n] \in {"running", "done", "failed"}
    OBVIOUS
  <2>0. TypeOK /\ Strict
    BY DEF Inv
  <2>1. ASSUME NEW b \in Boxes, Server(b) PROVE helper'[n] = "running"
    <3>1. Waits(b)
      BY <2>0 DEF Strict, Helped
    <3>2. UNCHANGED helper
      BY <2>1, <3>1 DEF Waits, Server, Boot, Reconcile, Clear, Check, Restarts, Install, Pull,
         Backup, RemoveHelper, CreateHelper, StartHelper, Goes, help
    <3> QED BY <3>2
  <2>2. ASSUME NEW m \in Depths, Helper(m) PROVE helper'[n] \in {"running", "done", "failed"}
    BY <2>0, <2>2 DEF Helper, LookUp, Rename, Stop, Create, Start, Wait, RemoveOld, RemoveNew,
       NameBack, StartOld, Leave, GoTo, Fail, TypeOK
  <2>3. ASSUME NEW m \in Depths, HelperDies(m) PROVE helper'[n] \in {"running", "done", "failed"}
    BY <2>0, <2>3 DEF HelperDies, TypeOK
  <2>4. CASE Publish
    BY <2>4 DEF Publish, help
  <2> QED BY <2>1, <2>2, <2>3, <2>4 DEF Next
<1> QED BY <1>1, InvHolds, PTL DEF Spec, HelperUndisturbed

-----------------------------------------------------------------------------
\* A server that has come up once brought the database to its revision; one that is
\* coming up finds it there, or a copy of what it finds.  From the copying on, until the
\* new one is started, there is a copy of the database as it is.
Copied == unkept \/ \E c \in copies : Knows[c[1]] = schema

Migrates ==
  /\ \A b \in Boxes : at[b] \notin {"off", "boot"} => schema = Knows[image[b]]
  /\ \A b \in Boxes : at[b] = "boot" => schema >= Knows[image[b]] \/ Copied
  /\ \A b \in Boxes : thread[b] \in {"clear", "create", "start"} => Copied
  /\ \A n \in Depths : helper[n] = "running" =>
       /\ schema >= Knows[image[task[n].old]]
       /\ task[n].step \in {"look", "rename", "stop", "create", "start"} => Copied

CopyInv == loose \/ Migrates

LEMMA CopiesStart == Init => Migrates
BY Bounds DEF Init, Migrates

\* What does not touch the database or its copies, by what it does to servers and helpers.
LEMMA CopiesStay ==
  ASSUME TypeOK, Strict, Migrates, UNCHANGED data,
         \A c \in Boxes : image[c] # 0 => image'[c] = image[c],
         \A c \in Boxes :
           \/ at'[c] = at[c] /\ image'[c] = image[c]
           \/ at[c] = "off" /\ at'[c] = "off"
           \/ at'[c] = "off"
           \/ at[c] \notin {"off", "boot"} /\ at'[c] \notin {"off", "boot"} /\ image'[c] = image[c]
           \/ at'[c] = "boot" /\ image'[c] = image[c] /\ (schema >= Knows[image[c]] \/ Copied),
         \A c \in Boxes : thread'[c] \in {"clear", "create", "start"} =>
           thread[c] \in {"clear", "create", "start"},
         \A n \in Depths : helper'[n] = "running" =>
           /\ image[task[n].old] # 0 /\ task'[n].old = task[n].old
           /\ schema >= Knows[image[task[n].old]]
           /\ task'[n].step \in {"look", "rename", "stop", "create", "start"} => Copied
  PROVE  Migrates'
<1>1. Copied' = Copied /\ schema' = schema
  BY DEF Copied, data
<1>2. \A c \in Boxes : at'[c] \notin {"off", "boot"} => schema' = Knows[image'[c]]
  BY <1>1 DEF Migrates
<1>3. \A c \in Boxes : at'[c] = "boot" => schema' >= Knows[image'[c]] \/ Copied'
  BY <1>1 DEF Migrates
<1>4. \A c \in Boxes : thread'[c] \in {"clear", "create", "start"} => Copied'
  BY <1>1 DEF Migrates
<1>5. \A n \in Depths : helper'[n] = "running" =>
        /\ schema' >= Knows[image'[task'[n].old]]
        /\ task'[n].step \in {"look", "rename", "stop", "create", "start"} => Copied'
  <2>1. \A n \in Depths : task[n].old \in Boxes
    BY DEF TypeOK
  <2> QED BY <1>1, <2>1
<1> QED BY <1>2, <1>3, <1>4, <1>5 DEF Migrates

\* What a server does about copies, helpers and the database.
LEMMA BootMigrates ==
  ASSUME TypeOK, Sound, Strict, Migrates, NEW b \in Boxes, Boot(b) PROVE Migrates'
<1>1. /\ schema' = Knows[image[b]] /\ schema <= Knows[image[b]] /\ schema \in Nat
      /\ Knows[image[b]] \in Nat /\ at[b] = "boot" /\ b \in running
      /\ at' = [at EXCEPT ![b] = "reconcile"]
      /\ UNCHANGED <<copies, unkept, presses, image, running, latest, thread, help>>
  <2>1. image[b] \in Releases /\ b \in running
    BY Bounds DEF Boot, Sound, TypeOK
  <2> QED BY <2>1, Bounds DEF Boot, TypeOK
<1>2. \A c \in Boxes \ {b} : at[c] = "off"
  BY <1>1 DEF Strict, Single, Names
<1>3. \A c \in Boxes : thread[c] = "none"
  BY <1>1, <1>2 DEF Strict, Orderly
<1>4. \A c \in Boxes \ {b} : at'[c] = "off"
  BY <1>1, <1>2 DEF TypeOK
<1>5. at'[b] = "reconcile"
  BY <1>1 DEF TypeOK
<1>6. \A n \in Depths : helper'[n] = "running" =>
        /\ schema' >= Knows[image[task[n].old]]
        /\ task[n].step \in {"look", "rename", "stop", "create", "start"} => Copied'
  <2> SUFFICES ASSUME NEW n \in Depths, helper[n] = "running"
      PROVE  /\ schema' >= Knows[image[task[n].old]]
             /\ task[n].step \in {"look", "rename", "stop", "create", "start"} => Copied'
    BY <1>1 DEF help
  <2>1. Knows[image[task[n].old]] \in Nat /\ schema >= Knows[image[task[n].old]]
    <3>1. image[task[n].old] \in Releases
      <4>1. task[n].old \in Boxes /\ image[task[n].old] # 0
        BY DEF Sound, TypeOK
      <4>2. image \in [Boxes -> Releases \cup {0}]
        BY Bounds DEF TypeOK
      <4> QED BY <4>1, <4>2
    <3> QED BY <3>1, Bounds DEF Migrates
  <2>2. schema' >= Knows[image[task[n].old]]
    BY <1>1, <2>1
  <2>3. CASE schema = Knows[image[b]]
    BY <1>1, <2>2, <2>3 DEF Migrates, Copied
  <2>4. CASE schema # Knows[image[b]]
    <3>1. b # task[n].old
      BY <1>1, <2>1, <2>4
    <3>2. Core(n) /\ b # 0
      BY Bounds DEF Strict, Helped
    <3>3. task[n].step \notin {"look", "rename", "stop", "create", "start"}
      BY <1>1, <3>1, <3>2 DEF Core
    <3> QED BY <2>2, <3>3
  <2> QED BY <2>3, <2>4
<1> QED BY <1>1, <1>3, <1>4, <1>5, <1>6 DEF Migrates, help

LEMMA ServerCopies ==
  ASSUME TypeOK, TypeOK', Sound, Strict, Migrates, NEW b \in Boxes, Server(b) PROVE Migrates'
<1>0. \A n \in Depths : helper[n] = "running" =>
        /\ image[task[n].old] # 0 /\ schema >= Knows[image[task[n].old]]
        /\ task[n].step \in {"look", "rename", "stop", "create", "start"} => Copied
  BY DEF Sound, Migrates
<1>1. CASE Boot(b)
  BY <1>1, BootMigrates
<1>2. CASE Reconcile(b)
  <2>1. UNCHANGED <<data, image, help, thread>>
    BY <1>2 DEF Reconcile, world, boxes
  <2>2. at[b] = "reconcile" /\ at'[b] \in {"check", "clear", "ended"}
        /\ \A c \in Boxes \ {b} : at'[c] = at[c]
    BY <1>2 DEF Reconcile, TypeOK
  <2> QED BY <1>0, <2>1, <2>2, CopiesStay DEF help
<1>3. CASE Clear(b)
  <2>1. UNCHANGED <<data, image, thread>>
    BY <1>3 DEF Clear, world, boxes
  <2>2. at[b] = "clear" /\ at'[b] = "check" /\ \A c \in Boxes \ {b} : at'[c] = at[c]
    BY <1>3 DEF Clear, TypeOK
  <2>3. \A n \in Depths : helper'[n] = "running" => helper[n] = "running" /\ task'[n] = task[n]
    BY <1>3 DEF Clear, RemovesHelper, help, TypeOK
  <2> QED BY <1>0, <2>1, <2>2, <2>3, CopiesStay
<1>4. CASE Check(b)
  BY <1>0, <1>4, CopiesStay DEF Check, world, boxes, help
<1>5. CASE Restarts(b)
  <2>1. UNCHANGED <<data, image, help>> /\ at'[b] = "boot" /\ thread'[b] = "none"
        /\ \A c \in Boxes \ {b} : at'[c] = at[c] /\ thread'[c] = thread[c]
    BY <1>5 DEF Restarts, Forgets, world, TypeOK
  <2>2. schema >= Knows[image[b]] \/ Copied
    <3>1. b \in running /\ image[b] \in Releases /\ at[b] # "off"
      BY <1>5, Bounds DEF Restarts, Sound, Strict, Names, TypeOK
    <3>2. schema \in Nat /\ Knows[image[b]] \in Nat
      BY <3>1, Bounds DEF TypeOK
    <3> QED BY <3>1, <3>2 DEF Migrates
  <2> QED BY <1>0, <2>1, <2>2, CopiesStay DEF help
<1>6. CASE Install(b)
  <2>1. UNCHANGED <<schema, copies, unkept, image, help, at>> /\ thread'[b] = "pull"
        /\ \A c \in Boxes \ {b} : thread'[c] = thread[c]
    BY <1>6 DEF Install, data, boxes, TypeOK
  <2> QED BY <1>0, <2>1, CopiesStay DEF data, help
<1>7. CASE Pull(b)
  <2>1. UNCHANGED <<data, image, help, at>> /\ thread'[b] \in {"copy", "none"}
        /\ \A c \in Boxes \ {b} : thread'[c] = thread[c]
    BY <1>7 DEF Pull, Goes, ThreadFails, world, boxes, TypeOK
  <2> QED BY <1>0, <2>1, CopiesStay DEF help
<1>8. CASE Backup(b)
  <2>1. UNCHANGED <<schema, presses, image, help, at>> /\ at[b] \notin {"off", "boot"}
        /\ \A c \in Boxes \ {b} : thread'[c] = thread[c]
    BY <1>8 DEF Backup, Goes, ThreadFails, boxes, TypeOK, Strict, Orderly
  <2>2. CASE ThreadFails(b) /\ UNCHANGED <<copies, unkept>>
    <3>1. UNCHANGED data /\ thread'[b] = "none"
      BY <2>1, <2>2 DEF ThreadFails, data, TypeOK
    <3> QED BY <1>0, <2>1, <3>1, CopiesStay DEF help
  <2>3. ASSUME unkept' = (<<image[b], presses>> \notin copies') PROVE Migrates'
    <3>1. schema = Knows[image[b]]
      BY <2>1 DEF Migrates
    <3>2. Copied'
      BY <2>1, <2>3, <3>1 DEF Copied
    <3> QED BY <1>0, <2>1, <3>2 DEF Migrates, help
  <2> QED BY <1>8, <2>2, <2>3 DEF Backup
<1>9. CASE RemoveHelper(b)
  <2>1. UNCHANGED <<data, image, at>> /\ thread[b] = "clear"
        /\ \A c \in Boxes \ {b} : thread'[c] = thread[c]
    BY <1>9 DEF RemoveHelper, Goes, world, boxes, TypeOK
  <2>2. \A n \in Depths : helper'[n] = "running" => helper[n] = "running" /\ task'[n] = task[n]
    BY <1>9 DEF RemoveHelper, RemovesHelper, help, TypeOK
  <2> QED BY <1>0, <2>1, <2>2, CopiesStay
<1>10. CASE CreateHelper(b)
  <2>1. UNCHANGED <<data, image, at>> /\ thread[b] = "create"
        /\ \A c \in Boxes \ {b} : thread'[c] = thread[c]
    BY <1>10 DEF CreateHelper, ThreadFails, world, boxes, TypeOK
  <2>2. \A n \in Depths : helper'[n] = "running" => helper[n] = "running" /\ task'[n] = task[n]
    BY <1>10 DEF CreateHelper, help, TypeOK
  <2> QED BY <1>0, <2>1, <2>2, CopiesStay
<1>11. CASE StartHelper(b)
  <2>1. UNCHANGED <<data, image, at, task>> /\ thread[b] = "start"
        /\ \A c \in Boxes \ {b} : thread'[c] = thread[c]
    BY <1>11 DEF StartHelper, Goes, ThreadFails, world, boxes, TypeOK
  <2>2. \A n \in Depths : helper'[n] = "running" =>
          helper[n] = "running" \/ (n = me[b] /\ helper[n] = "created")
    BY <1>11 DEF StartHelper, TypeOK
  <2>3. /\ schema = Knows[image[b]] /\ Copied /\ image[b] # 0 /\ schema \in Nat
        /\ helper[me[b]] = "created" => task[me[b]].old = b
    BY <2>1 DEF Strict, Orderly, Migrates, Sound, TypeOK
  <2> QED BY <1>0, <2>1, <2>2, <2>3, CopiesStay
<1> QED BY <1>1, <1>2, <1>3, <1>4, <1>5, <1>6, <1>7, <1>8, <1>9, <1>10, <1>11 DEF Server

\* What the helper does: only what it starts can change the database.
LEMMA HelperCopies ==
  ASSUME TypeOK, TypeOK', Sound, Strict, Migrates, NEW n \in Depths, Helper(n) PROVE Migrates'
<1> DEFINE t == task[n]
<1>0. /\ t.old \in Boxes /\ t.new \in Boxes \cup {0} /\ image[t.old] # 0 /\ helper[n] = "running"
      /\ UNCHANGED data /\ schema >= Knows[image[t.old]]
      /\ t.step \in {"look", "rename", "stop", "create", "start"} => Copied
  BY DEF TypeOK, Sound, Migrates, Helper, LookUp, Rename, Stop, Create, Start, Wait, RemoveOld,
         RemoveNew, NameBack, StartOld, Leave, At, world
<1>1. \A c \in Boxes : thread[c] = "none"
  BY <1>0 DEF Strict, Helped, Waits
<1>2. \A m \in Depths \ {n} : helper[m] # "running"
  BY <1>0 DEF Strict, Helped
\* A step that goes on, and does not come to an earlier point.
<1>3. ASSUME NEW s \in Steps, GoTo(n, s), image' = image,
             s \in {"look", "rename", "stop", "create", "start"} => Copied,
             \/ UNCHANGED memory
             \/ \E b \in Boxes : Forgets(b, "off")
             \/ \E b \in Boxes : Forgets(b, "boot") /\ (schema >= Knows[image[b]] \/ Copied)
      PROVE  Migrates'
  <2>1. /\ helper' = helper /\ task'[n].step = s /\ task'[n].old = t.old
    BY <1>3, GoesOn
  <2>2. \A c \in Boxes : thread'[c] = "none"
    BY <1>1, <1>3, ForgetsTypes DEF memory
  <2>3. \A c \in Boxes :
          \/ at'[c] = at[c]
          \/ at'[c] = "off"
          \/ at'[c] = "boot" /\ (schema >= Knows[image[c]] \/ Copied)
    BY <1>3, ForgetsTypes DEF memory
  <2> QED BY <1>0, <1>2, <1>3, <2>1, <2>2, <2>3, CopiesStay
<1>4. CASE LookUp(n)
  <2>1. helper' = helper /\ task'[n].old = t.old /\ UNCHANGED <<image, memory>> /\ Copied
    <3>1. CASE Fail(n)
      BY <1>0, <1>4, <3>1, GoesOn DEF LookUp, Fail, At, Steps, boxes
    <3>2. CASE helper' = helper /\ task' = [task EXCEPT ![n] =
                                               [@ EXCEPT !.step = "rename", !.base = name[t.old]]]
      BY <1>0, <1>4, <3>2 DEF LookUp, At, boxes, TypeOK
    <3>3. Fail(n) \/ (helper' = helper
            /\ task' = [task EXCEPT ![n] = [@ EXCEPT !.step = "rename", !.base = name[t.old]]])
      BY <1>4, Zenon DEF LookUp
    <3> QED BY <3>1, <3>2, <3>3
  <2> QED BY <1>0, <1>1, <1>2, <2>1, CopiesStay DEF memory
<1>5. CASE Rename(n)
  <2>1. \E s \in {"stop", "quit"} : GoTo(n, s)
    BY <1>5 DEF Rename, Fail
  <2>2. UNCHANGED <<image, memory>> /\ Copied
    BY <1>0, <1>5 DEF Rename, At
  <2> QED BY <1>3, <2>1, <2>2 DEF Steps
<1>6. CASE Stop(n)
  <2>1. image' = image /\ Copied
    BY <1>0, <1>6 DEF Stop, At, world
  <2>2. CASE Stopped(t.old) /\ GoTo(n, "create")
    BY <1>0, <1>3, <2>1, <2>2 DEF Stopped, Steps
  <2>3. CASE Fail(n) /\ UNCHANGED memory
    BY <1>3, <2>1, <2>3 DEF Fail, Steps
  <2> QED BY <1>6, <2>2, <2>3 DEF Stop
<1>7. CASE Create(n)
  <2>1. CASE GoTo(n, "restore") /\ image' = image
    BY <1>3, <1>7, <2>1 DEF Create, Steps
  <2>2. ASSUME NEW b \in Boxes, image[b] = 0, helper' = helper, image' = [image EXCEPT ![b] = t.to],
               task' = [task EXCEPT ![n] = [@ EXCEPT !.step = "start", !.new = b]]
        PROVE  Migrates'
    <3>1. task'[n].old = t.old /\ UNCHANGED memory /\ Copied
      <4>1. task'[n].old = t.old
        BY <2>2 DEF TypeOK
      <4>2. UNCHANGED memory /\ Copied
        BY <1>0, <1>7 DEF Create, At
      <4> QED BY <4>1, <4>2
    <3>2. \A c \in Boxes \ {b} : image'[c] = image[c]
      BY <2>2 DEF TypeOK
    <3>3. at[b] = "off"
      BY <2>2 DEF Sound
    <3> QED BY <1>0, <1>1, <1>2, <2>2, <3>1, <3>2, <3>3, CopiesStay DEF memory
  <2> QED BY <1>7, <2>1, <2>2 DEF Create
<1>8. CASE Start(n)
  <2>1. image' = image /\ Copied /\ t.new \in Boxes
    BY <1>0, <1>8 DEF Start, At, Sound
  <2>2. CASE Started(t.new) /\ GoTo(n, "wait")
    BY <1>3, <2>1, <2>2 DEF Started, Steps
  <2>3. CASE UNCHANGED memory /\ GoTo(n, "discard")
    BY <1>3, <2>1, <2>3 DEF Steps
  <2> QED BY <1>8, <2>2, <2>3 DEF Start
<1>9. CASE Wait(n)
  BY <1>3, <1>9 DEF Wait, Steps, boxes
<1>10. CASE RemoveOld(n)
  BY <1>3, <1>10 DEF RemoveOld, Fail, Steps
<1>11. CASE RemoveNew(n)
  <2>1. GoTo(n, "restore") /\ image' = image /\ t.new \in Boxes
    BY <1>0, <1>11 DEF RemoveNew, At, Sound
  <2>2. CASE Stopped(t.new)
    BY <1>3, <2>1, <2>2 DEF Stopped, Steps
  <2>3. CASE UNCHANGED memory
    BY <1>3, <2>1, <2>3 DEF Steps
  <2> QED BY <1>11, <2>2, <2>3 DEF RemoveNew
<1>12. CASE NameBack(n)
  BY <1>3, <1>12 DEF NameBack, Fail, Steps
<1>13. CASE StartOld(n)
  <2>1. GoTo(n, "quit") /\ image' = image
    BY <1>13 DEF StartOld, Fail
  <2>2. CASE Started(t.old)
    BY <1>0, <1>3, <2>1, <2>2 DEF Started, Steps
  <2>3. CASE UNCHANGED memory
    BY <1>3, <2>1, <2>3 DEF Steps
  <2> QED BY <1>13, <2>2, <2>3 DEF StartOld
<1>14. CASE Leave(n)
  <2>1. UNCHANGED <<image, memory, task>> /\ helper'[n] # "running"
        /\ \A m \in Depths \ {n} : helper'[m] = helper[m]
    BY <1>14 DEF Leave, boxes, TypeOK
  <2> QED BY <1>0, <1>1, <1>2, <2>1, CopiesStay DEF memory
<1> QED BY <1>4, <1>5, <1>6, <1>7, <1>8, <1>9, <1>10, <1>11, <1>12, <1>13, <1>14 DEF Helper

LEMMA CopiesKeep == Inv /\ Inv' /\ CopyInv /\ [Next]_vars => CopyInv'
<1> SUFFICES ASSUME Inv, Inv', CopyInv, [Next]_vars PROVE CopyInv'
  OBVIOUS
<1>0. TypeOK /\ TypeOK' /\ Sound
  BY DEF Inv
<1>1. CASE loose
  BY <1>1, StaysLoose DEF CopyInv
<1>2. CASE ~ loose
  <2>1. Strict /\ Migrates
    BY <1>2 DEF Inv, CopyInv
  <2>2. CASE Publish \/ UNCHANGED vars
    BY <2>1, <2>2 DEF Publish, vars, data, boxes, memory, world, help, CopyInv, Migrates, Copied
  <2>3. ASSUME NEW n \in Depths, HelperDies(n) PROVE Migrates'
    <3>1. UNCHANGED <<data, image, memory, task>>
          /\ \A m \in Depths : helper'[m] = "running" => helper[m] = "running"
      BY <1>0, <2>3 DEF HelperDies, TypeOK, world, boxes
    <3> QED BY <2>1, <3>1 DEF Migrates, Copied, data, memory
  <2>4. ASSUME NEW n \in Depths, Helper(n) PROVE Migrates'
    BY <1>0, <2>1, <2>4, HelperCopies
  <2>5. ASSUME NEW b \in Boxes, Server(b) PROVE Migrates'
    BY <1>0, <2>1, <2>5, ServerCopies
  <2> QED BY <2>2, <2>3, <2>4, <2>5 DEF Next, CopyInv
<1> QED BY <1>1, <1>2

\* No release brings the database to a new revision before there is a copy of the old one,
\* with the same exception, and unless the copy itself was among those that went
\* (backup_sqlite, update.py; upgrade, store/migrate.py).
THEOREM CopiesComeFirst == Spec => CopiedBeforeItChanges
<1> DEFINE Safe == schema' # schema =>
             loose \/ unkept \/ \E c \in copies : Knows[c[1]] = schema
<1>1. Inv /\ CopyInv /\ [Next]_vars => [Safe]_vars
  <2> SUFFICES ASSUME Inv, Migrates, Next, schema' # schema PROVE Copied
    BY DEF Copied, CopyInv
  <2>1. PICK b \in Boxes : Boot(b)
    BY DEF Next, Publish, HelperDies, Helper, LookUp, Rename, Stop, Create, Start, Wait, RemoveOld,
           RemoveNew, NameBack, StartOld, Leave, Server, Reconcile, Clear, Check, Restarts, Install,
           Pull, Backup, RemoveHelper, CreateHelper, StartHelper, world, data
  <2>2. image[b] \in Releases
    BY <2>1, Bounds DEF Boot, Inv, TypeOK, Sound
  <2>3. at[b] = "boot" /\ schema < Knows[image[b]] /\ schema \in Nat /\ Knows[image[b]] \in Nat
    <3>1. schema \in Nat /\ Knows[image[b]] \in Nat
      BY <2>2, Bounds DEF Inv, TypeOK
    <3>2. at[b] = "boot" /\ schema <= Knows[image[b]] /\ schema # Knows[image[b]]
      BY <2>1 DEF Boot
    <3> QED BY <3>1, <3>2
  <2> QED BY <2>3 DEF Migrates
<1>2. Init => CopyInv
  BY CopiesStart DEF CopyInv
<1> QED BY <1>1, <1>2, CopiesKeep, InvHolds, PTL DEF Spec, CopiedBeforeItChanges

=============================================================================
