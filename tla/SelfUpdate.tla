------------------------------ MODULE SelfUpdate ------------------------------
(***************************************************************************)
(* The installation replaces itself.  A server that heard of a newer       *)
(* release pulls its image, copies the database and starts a helper        *)
(* container from the new image; the helper renames and stops the server,  *)
(* makes it again from the new image, waits until it is healthy and        *)
(* removes the old one, or puts the old one back.  The two only know of    *)
(* each other through the daemon: the server that comes up looks at what   *)
(* became of the helper, and the helper at the server's health.  A helper  *)
(* goes by its server's name, so a server that came up under another name  *)
(* has a helper of its own.                                                *)
(*                                                                         *)
(* The daemon may refuse a call, the helper may die, a server may crash    *)
(* and be started again by its restart policy with an empty memory.  A     *)
(* call the daemon refused did nothing.                                    *)
(***************************************************************************)
EXTENDS Integers, FiniteSets

CONSTANTS
  MaxRelease,   \* bound: releases 1..MaxRelease are published, in this order
  Knows,        \* the newest revision of the database that each release knows
  Sorts,        \* where a release stands among the names of the copies
  Keep,         \* how many copies are kept
  MaxBoxes,     \* bound: containers ever made
  MaxDepth,     \* bound: how often a name is given its suffix
  MaxPresses,   \* bound: presses on the button
  MaxTroubles   \* bound: refused calls, crashes and deaths

Releases == 1..MaxRelease
Boxes    == 1..MaxBoxes
Depths   == 1..MaxDepth

ASSUME SelfUpdateAssumption ==
  /\ MaxRelease \in Nat \ {0} /\ Keep \in Nat \ {0}
  /\ MaxBoxes \in Nat \ {0} /\ MaxDepth \in Nat \ {0}
  /\ MaxPresses \in Nat /\ MaxTroubles \in Nat
  /\ Knows \in [Releases -> Nat] /\ Sorts \in [Releases -> Nat]

VARIABLES
  newest,    \* the newest release in the registry
  bad,       \* the releases that never become healthy
  image,     \* the release each container was made from, 0 if it never was
  name,      \* its name: 1 is the service's, n + 1 that with the n-th suffix, 0 once removed
  running,   \* the containers that run
  healthy,   \* those of them that pass their health check
  proven,    \* those that ever did
  at,        \* where each server's checker is
  me,        \* the name it found itself under
  state,     \* what it says of its update
  latest,    \* the release it offers, 0 for none
  thread,    \* where the thread of its update is
  helper,    \* the helper container of each name
  task,      \* how far its process is, and what it makes of which
  schema,    \* the revision of the database
  copies,    \* the copies of it: the release they are from, and which press
  unkept,    \* whether the last copy made was among those that go
  loose,     \* whether a server took up its work under a helper at work on it
  presses,
  troubles

boxes  == <<image, name, running, healthy, proven>>
memory == <<at, me, state, latest, thread>>
data   == <<schema, copies, unkept>>
world  == <<newest, bad, data, presses>>
help   == <<helper, task>>
vars   == <<boxes, memory, world, help, loose, troubles>>

NoTask == [step |-> "none", old |-> 1, new |-> 0, to |-> 1, base |-> 0]

Init ==
  /\ newest = 1 /\ bad \in SUBSET (Releases \ {1})
  /\ image = [b \in Boxes |-> IF b = 1 THEN 1 ELSE 0] /\ name = image
  /\ running = {1} /\ healthy = {1} /\ proven = {1}
  /\ at = [b \in Boxes |-> IF b = 1 THEN "check" ELSE "off"]
  /\ me = [b \in Boxes |-> 1] /\ state = [b \in Boxes |-> "idle"]
  /\ latest = [b \in Boxes |-> 0] /\ thread = [b \in Boxes |-> "none"]
  /\ helper = [n \in Depths |-> "none"] /\ task = [n \in Depths |-> NoTask]
  /\ schema = Knows[1] /\ copies = {} /\ unkept = FALSE
  /\ loose = FALSE /\ presses = 0 /\ troubles = 0

Named(d) == {b \in Boxes : name[b] = d}

Trouble == troubles < MaxTroubles /\ troubles' = troubles + 1
Smooth  == UNCHANGED troubles

\* A call that is refused, or has nothing to work on.
FailsUnless(possible) == Trouble \/ (~ possible /\ Smooth)

Publish ==
  /\ newest < MaxRelease /\ newest' = newest + 1
  /\ UNCHANGED <<bad, data, presses, boxes, memory, help, loose, troubles>>

\* The process in a container begins, or is gone, with nothing in its memory.
Forgets(b, where) ==
  /\ at' = [at EXCEPT ![b] = where] /\ state' = [state EXCEPT ![b] = "idle"]
  /\ latest' = [latest EXCEPT ![b] = 0] /\ thread' = [thread EXCEPT ![b] = "none"]
  /\ UNCHANGED me

(***************************************************************************)
(* A server: it brings the database up to its own revision, looks after    *)
(* the last attempt, and only then asks for releases.                      *)
(***************************************************************************)
\* A release that does not know the revision it finds cannot come up, and tries again
\* for ever.  One that comes up finds its own container, by the name it has then.
Boot(b) ==
  /\ at[b] = "boot" /\ schema <= Knows[image[b]]
  /\ schema' = Knows[image[b]]
  /\ LET fit == IF image[b] \in bad THEN {} ELSE {b} IN
     healthy' = healthy \cup fit /\ proven' = proven \cup fit
  /\ at' = [at EXCEPT ![b] = "reconcile"] /\ me' = [me EXCEPT ![b] = name[b]]
  /\ UNCHANGED <<newest, bad, copies, unkept, presses, image, name, running, state, latest,
                 thread, help, loose, troubles>>

\* A helper is at work on it.
Tended(b) == \E n \in Depths : helper[n] = "running" /\ b \in {task[n].old, task[n].new}

\* Mutant: a helper at work is not waited for.
ReconcileAtOnce(b) ==
  /\ at[b] = "reconcile" /\ at' = [at EXCEPT ![b] = "check"]
  /\ UNCHANGED <<world, boxes, me, state, latest, thread, help, loose, troubles>>

\* A helper at work is waited for, longer than it ever takes, or until the daemon refuses to
\* say how it is; the account of one that failed is kept for the page.  A daemon that has no
\* more logs, or did not tell the server which container it is, leaves nothing to install with.
Reconcile(b) ==
  LET its == helper[me[b]] IN
  /\ at[b] = "reconcile"
  /\ \/ /\ FailsUnless(its # "none")
        /\ at' = [at EXCEPT ![b] = "check"] /\ UNCHANGED state
        /\ loose' = (loose \/ Tended(b))
     \/ /\ its \in {"created", "done", "failed"} /\ Smooth
        /\ at' = [at EXCEPT ![b] = "clear"]
        /\ state' = [state EXCEPT ![b] = IF its = "failed" THEN "failed" ELSE @]
        /\ loose' = (loose \/ Tended(b))
     \/ /\ at' = [at EXCEPT ![b] = "ended"] /\ Trouble
        /\ UNCHANGED <<state, loose>>
  /\ UNCHANGED <<world, boxes, me, latest, thread, help>>

\* Whatever has the helper's name goes, running or not.
RemovesHelper(n) ==
  \/ /\ helper' = [helper EXCEPT ![n] = "none"] /\ task' = [task EXCEPT ![n] = NoTask]
     /\ Smooth
  \/ UNCHANGED help /\ Trouble

Clear(b) ==
  /\ at[b] = "clear" /\ RemovesHelper(me[b])
  /\ at' = [at EXCEPT ![b] = "check"]
  /\ UNCHANGED <<world, boxes, me, state, latest, thread, loose>>

\* A registry that cannot be asked changes nothing.
Check(b) ==
  /\ at[b] = "check"
  /\ latest' = [latest EXCEPT ![b] = IF newest > image[b] THEN newest ELSE 0]
  /\ UNCHANGED <<world, boxes, at, me, state, thread, help, loose, troubles>>

Restarts(b) ==
  /\ b \in running /\ Trouble
  /\ healthy' = healthy \ {b} /\ Forgets(b, "boot")
  /\ UNCHANGED <<world, image, name, running, proven, help, loose>>

(***************************************************************************)
(* The press, and the thread that gets ready.                              *)
(***************************************************************************)
Install(b) ==
  /\ latest[b] # 0 /\ state[b] \notin {"pulling", "restarting"}
  /\ presses < MaxPresses /\ presses' = presses + 1
  /\ state' = [state EXCEPT ![b] = "pulling"] /\ thread' = [thread EXCEPT ![b] = "pull"]
  /\ UNCHANGED <<newest, bad, data, boxes, at, me, latest, help, loose, troubles>>

Goes(b, from, to) ==
  /\ thread[b] = from /\ thread' = [thread EXCEPT ![b] = to] /\ UNCHANGED state

ThreadFails(b) ==
  /\ thread' = [thread EXCEPT ![b] = "none"] /\ state' = [state EXCEPT ![b] = "failed"]

\* The image is fetched; there may be no such tag, no room, nobody answering.
Pull(b) ==
  /\ thread[b] = "pull"
  /\ Goes(b, "pull", "copy") \/ ThreadFails(b)
  /\ UNCHANGED <<world, boxes, at, me, latest, help, loose, troubles>>

\* Names are compared as text: the first in that order go.
Before(c, d) == Sorts[c[1]] < Sorts[d[1]] \/ (c[1] = d[1] /\ c[2] < d[2])
Kept(cs) == {c \in cs : Cardinality({d \in cs : Before(c, d)}) < Keep}

\* Mutant: no copy is made.
BackupNever(b) ==
  /\ Goes(b, "copy", "clear") /\ Smooth
  /\ UNCHANGED <<world, boxes, at, me, latest, help, loose>>

Backup(b) ==
  /\ thread[b] = "copy"
  /\ \/ /\ Goes(b, "copy", "clear") /\ Smooth
        /\ copies' = Kept(copies \cup {<<image[b], presses>>})
        /\ unkept' = (<<image[b], presses>> \notin copies')
     \/ ThreadFails(b) /\ UNCHANGED <<copies, unkept>> /\ Trouble
  /\ UNCHANGED <<newest, bad, schema, presses, boxes, at, me, latest, help, loose>>

\* The helper of an earlier attempt goes, if there is one.
RemoveHelper(b) ==
  /\ Goes(b, "clear", "create") /\ RemovesHelper(me[b])
  /\ UNCHANGED <<world, boxes, at, me, latest, loose>>

CreateHelper(b) ==
  LET n == me[b] IN
  /\ thread[b] = "create"
  /\ \/ /\ helper[n] = "none" /\ Smooth
        /\ helper' = [helper EXCEPT ![n] = "created"]
        /\ task' = [task EXCEPT ![n] = [step |-> "look", old |-> b, new |-> 0,
                                        to |-> latest[b], base |-> 0]]
        /\ thread' = [thread EXCEPT ![b] = "start"]
        /\ state' = [state EXCEPT ![b] = "restarting"]
     \/ helper[n] # "none" /\ ThreadFails(b) /\ UNCHANGED help /\ Smooth
     \/ ThreadFails(b) /\ UNCHANGED help /\ Trouble
  /\ UNCHANGED <<world, boxes, at, me, latest, loose>>

StartHelper(b) ==
  /\ thread[b] = "start"
  /\ \/ /\ helper[me[b]] = "created" /\ helper' = [helper EXCEPT ![me[b]] = "running"]
        /\ Goes(b, "start", "none") /\ Smooth
     \/ ThreadFails(b) /\ UNCHANGED helper /\ Trouble
  /\ UNCHANGED <<world, boxes, at, me, latest, task, loose>>

(***************************************************************************)
(* The helper that goes by name n.  What fails before the new container is *)
(* made ends it there; what fails after puts the old one back.  A call     *)
(* about a container that was removed fails.                               *)
(***************************************************************************)
At(n, point)   == helper[n] = "running" /\ task[n].step = point
GoTo(n, point) == task' = [task EXCEPT ![n].step = point] /\ UNCHANGED helper
Fail(n)        == GoTo(n, "quit")
Here(b)        == name[b] # 0

\* What the old container is like, what the new image is like, the name of the service.
LookUp(n) ==
  LET old == task[n].old IN
  /\ At(n, "look") /\ UNCHANGED <<world, boxes, memory, loose>>
  /\ \/ /\ Here(old) /\ Smooth /\ UNCHANGED helper
        /\ task' = [task EXCEPT ![n] = [@ EXCEPT !.step = "rename", !.base = name[old]]]
     \/ Fail(n) /\ FailsUnless(Here(old))

Rename(n) ==
  LET old == task[n].old
      d   == task[n].base + 1 IN
  /\ At(n, "rename") /\ d \in Depths
  /\ \/ /\ Here(old) /\ Named(d) = {} /\ GoTo(n, "stop") /\ Smooth
        /\ name' = [name EXCEPT ![old] = d]
     \/ /\ Fail(n) /\ UNCHANGED name
        /\ FailsUnless(Here(old) /\ Named(d) = {})
  /\ UNCHANGED <<world, image, running, healthy, proven, memory, loose>>

Stopped(b) ==
  /\ running' = running \ {b} /\ healthy' = healthy \ {b} /\ Forgets(b, "off")

\* Mutant: a server that would not stop is passed over.
StopUnheard(n) ==
  LET old == task[n].old IN
  /\ At(n, "stop") /\ GoTo(n, "create")
  /\ \/ Here(old) /\ Stopped(old) /\ Smooth
     \/ UNCHANGED <<running, healthy, memory>> /\ FailsUnless(Here(old))
  /\ UNCHANGED <<world, image, name, proven, loose>>

Stop(n) ==
  LET old == task[n].old IN
  /\ At(n, "stop")
  /\ \/ Here(old) /\ Stopped(old) /\ GoTo(n, "create") /\ Smooth
     \/ /\ Fail(n) /\ UNCHANGED <<running, healthy, memory>>
        /\ FailsUnless(Here(old))
  /\ UNCHANGED <<world, image, name, proven, loose>>

Create(n) ==
  LET free == Named(task[n].base) = {} IN
  /\ At(n, "create")
  /\ \/ \E b \in Boxes :
          /\ free /\ image[b] = 0 /\ \A c \in Boxes : image[c] = 0 => b <= c
          /\ image' = [image EXCEPT ![b] = task[n].to]
          /\ name' = [name EXCEPT ![b] = task[n].base]
          /\ task' = [task EXCEPT ![n] = [@ EXCEPT !.step = "start", !.new = b]]
          /\ UNCHANGED helper /\ Smooth
     \/ GoTo(n, "restore") /\ UNCHANGED <<image, name>> /\ FailsUnless(free)
  /\ UNCHANGED <<world, running, healthy, proven, memory, loose>>

Started(b) == running' = running \cup {b} /\ Forgets(b, "boot")

Start(n) ==
  LET new == task[n].new IN
  /\ At(n, "start")
  /\ \/ Here(new) /\ Started(new) /\ GoTo(n, "wait") /\ Smooth
     \/ UNCHANGED <<running, memory>> /\ GoTo(n, "discard") /\ FailsUnless(Here(new))
  /\ UNCHANGED <<world, image, name, healthy, proven, loose>>

\* Mutant: started is as good as healthy.
WaitNotAtAll(n) ==
  At(n, "wait") /\ GoTo(n, "retire") /\ UNCHANGED <<world, boxes, memory, loose, troubles>>

\* Healthy, or unhealthy, gone or too slow.
Wait(n) ==
  /\ At(n, "wait")
  /\ \/ task[n].new \in healthy /\ GoTo(n, "retire")
     \/ task[n].new \notin healthy /\ GoTo(n, "discard")
  /\ UNCHANGED <<world, boxes, memory, loose, troubles>>

\* One that runs is not removed.
RemoveOld(n) ==
  LET old  == task[n].old
      idle == Here(old) /\ old \notin running IN
  /\ At(n, "retire")
  /\ \/ idle /\ GoTo(n, "leave") /\ Smooth /\ name' = [name EXCEPT ![old] = 0]
     \/ Fail(n) /\ UNCHANGED name /\ FailsUnless(idle)
  /\ UNCHANGED <<world, image, running, healthy, proven, memory, loose>>

\* A new one that cannot be removed is not mentioned.
RemoveNew(n) ==
  LET new == task[n].new IN
  /\ At(n, "discard") /\ GoTo(n, "restore")
  /\ \/ name' = [name EXCEPT ![new] = 0] /\ Stopped(new) /\ Smooth
     \/ UNCHANGED <<name, running, healthy, memory>> /\ Trouble
  /\ UNCHANGED <<world, image, proven, loose>>

NameBack(n) ==
  LET old  == task[n].old
      free == Here(old) /\ Named(task[n].base) = {} IN
  /\ At(n, "restore")
  /\ \/ free /\ GoTo(n, "revive") /\ Smooth /\ name' = [name EXCEPT ![old] = task[n].base]
     \/ Fail(n) /\ UNCHANGED name /\ FailsUnless(free)
  /\ UNCHANGED <<world, image, running, healthy, proven, memory, loose>>

\* Mutant: the old one gets its name back and nothing else.
StartOldNever(n) ==
  At(n, "revive") /\ Fail(n) /\ UNCHANGED <<world, boxes, memory, loose, troubles>>

\* To start what runs changes nothing.
StartOld(n) ==
  LET old == task[n].old IN
  /\ At(n, "revive") /\ Fail(n)
  /\ \/ Here(old) /\ old \notin running /\ Started(old) /\ Smooth
     \/ UNCHANGED <<running, memory>> /\ FailsUnless(Here(old) /\ old \notin running)
  /\ UNCHANGED <<world, image, name, healthy, proven, loose>>

Leave(n) ==
  /\ \/ At(n, "leave") /\ helper' = [helper EXCEPT ![n] = "done"]
     \/ At(n, "quit") /\ helper' = [helper EXCEPT ![n] = "failed"]
  /\ UNCHANGED <<world, boxes, memory, task, loose, troubles>>

HelperDies(n) ==
  /\ helper[n] = "running" /\ Trouble
  /\ helper' = [helper EXCEPT ![n] = "failed"]
  /\ UNCHANGED <<world, boxes, memory, task, loose>>

Helper(n) ==
  \/ LookUp(n) \/ Rename(n) \/ Stop(n) \/ Create(n) \/ Start(n) \/ Wait(n) \/ RemoveOld(n)
  \/ RemoveNew(n) \/ NameBack(n) \/ StartOld(n) \/ Leave(n)

Server(b) ==
  \/ Boot(b) \/ Reconcile(b) \/ Clear(b) \/ Check(b) \/ Restarts(b) \/ Install(b)
  \/ Pull(b) \/ Backup(b) \/ RemoveHelper(b) \/ CreateHelper(b) \/ StartHelper(b)

Next ==
  Publish \/ (\E n \in Depths : Helper(n) \/ HelperDies(n)) \/ \E b \in Boxes : Server(b)

Spec == Init /\ [][Next]_vars

\* A process goes on, and its calls end.
Fairness ==
  (\A n \in Depths : WF_vars(Helper(n))) /\ \A b \in Boxes : WF_vars(Boot(b))

FairSpec == Spec /\ Fairness

(***************************************************************************)
(* Properties.                                                             *)
(***************************************************************************)
Steps == {"none", "look", "rename", "stop", "create", "start", "wait", "retire", "discard",
          "restore", "revive", "leave", "quit"}

\* Every variable holds what it is meant to hold.
TypeOK ==
  /\ newest \in Releases /\ bad \subseteq Releases
  /\ image \in [Boxes -> 0..MaxRelease] /\ name \in [Boxes -> 0..MaxDepth]
  /\ running \subseteq Boxes /\ healthy \subseteq Boxes /\ proven \subseteq Boxes
  /\ at \in [Boxes -> {"off", "boot", "reconcile", "clear", "check", "ended"}]
  /\ me \in [Boxes -> Depths]
  /\ state \in [Boxes -> {"idle", "pulling", "restarting", "failed"}]
  /\ latest \in [Boxes -> Releases \cup {0}]
  /\ thread \in [Boxes -> {"none", "pull", "copy", "clear", "create", "start"}]
  /\ helper \in [Depths -> {"none", "created", "running", "done", "failed"}]
  /\ task \in [Depths -> [step : Steps, old : Boxes, new : Boxes \cup {0}, to : Releases,
                          base : 0..MaxDepth]]
  /\ schema \in Nat /\ copies \subseteq Releases \X Nat /\ unkept \in BOOLEAN
  /\ loose \in BOOLEAN /\ presses \in Nat /\ troubles \in Nat

\* Two servers never run over the same database, whichever calls are refused and whoever
\* dies in between -- unless a server took up its work while a helper was at work on it:
\* it was refused word of the helper, or had come up under another name (replace).
OneServes == loose \/ \A b, c \in running : b = c

\* There is always a container left that has been healthy (replace).
ProvenKept == \E b \in proven : name[b] # 0

\* A helper at work is not removed under its hands, with the same exception (reconcile,
\* _install).
HelperUndisturbed ==
  [][\A n \in Depths :
       helper[n] = "running" => helper'[n] \in {"running", "done", "failed"} \/ loose]_vars

\* Before a release brings the database to a new revision there is a copy of the old
\* one, with the same exception -- and unless, when it was made, as many copies as are kept
\* had names behind its own (backup_sqlite).
CopiedBeforeItChanges ==
  [][schema' # schema => loose \/ unkept \/ \E c \in copies : Knows[c[1]] = schema]_vars

\* A release that does not come up costs a restart: somebody serves again -- unless the
\* daemon refused or something died on the way, or the release had moved the database
\* on already (replace).
Serving  == healthy # {}
Stranded == \E b \in running : schema > Knows[image[b]]
ServesAgain == ~ Serving ~> Serving \/ troubles > 0 \/ Stranded

\* The promise without the exception: a bad release costs a restart, not the
\* installation.
CostsARestart == ~ Serving ~> Serving \/ troubles > 0
=============================================================================
