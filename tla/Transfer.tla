------------------------------- MODULE Transfer -------------------------------
(***************************************************************************)
(* An account moves its projects from one server to another.  The receiver *)
(* shows a code; whoever types it at the sender opens a transfer, whose    *)
(* parts are sealed with the session and their place in it; they are       *)
(* staged on the receiver's disk and written by the last one, `finish'.    *)
(* The receiver's answer to that part is all the sender knows: only with   *)
(* it in hand does it delete what it sent.                                 *)
(*                                                                         *)
(* Between the two is a network that loses a part or an answer, and hands  *)
(* over late or twice what was given up on.  People go on working at both  *)
(* ends.  The receiver keeps codes and transfers in memory only, forgets a *)
(* transfer it has not heard of for ten minutes, and serves each part in a *)
(* thread of its own.  The desk's lock is not the transfer's: a new        *)
(* transfer ends the one that was arriving while a thread may be past the  *)
(* look that would have told it so.                                        *)
(***************************************************************************)
EXTENDS Integers, Sequences

CONSTANTS
  Sendings,     \* the transfers that are started, each a thread at the sender
  Projects,
  Theirs,       \* projects of which another account has a copy at the receiver
  Grows,        \* bound: projects in which somebody starts another development
  MaxCodes      \* bound: codes shown

ASSUME TransferAssumption ==
  /\ Theirs \subseteq Projects /\ Grows \subseteq Projects
  /\ MaxCodes \in Nat

\* Of each project the development it began with, and perhaps one more.
Jobs  == (Projects \X {1}) \cup (Grows \X {2})
Codes == 1..MaxCodes
Of(js, p) == {j \in js : j[1] = p}

VARIABLES
  home,      \* the sender's projects
  there,     \* the receiver's projects that are this account's
  jobs,      \* the developments of either side's rows
  running,   \* those of them that are not at rest
  born,      \* every development anybody ever started
  offers,    \* the codes that work, and how many were made
  made,
  snd,       \* each sending: where it is, its code, what it has sent
  rec,       \* each transfer as the receiver knows it
  wrote,     \* what each transfer has written at the receiver
  blind      \* those that wrote projects when the rows they had staged were gone

sides  == <<home, there, jobs, running, born>>
desk   == <<offers, made, rec, wrote, blind>>
vars   == <<sides, desk, snd>>

Side == {"home", "there"}
Has(side, p) == p \in (IF side = "home" THEN home ELSE there)

(***************************************************************************)
(* The parts of a transfer, in the order they are sent.  The jobs stand    *)
(* for all that follows the projects: the other tables, the checkouts, the *)
(* sign-in, which travel and are staged alike.                             *)
(***************************************************************************)
Parts == <<"manifest", "projects", "jobs", "finish">>
Last  == Len(Parts)

NotSent == [at |-> "idle", seq |-> 1, plan |-> {}, list |-> {}, sent |-> {},
            rows |-> {}, left |-> {}]
NoTransfer == [state |-> "none", listed |-> FALSE, replaced |-> FALSE, opens |-> TRUE,
               seq |-> 1, staged |-> {}, thread |-> "none", moving |-> {}]

Init ==
  /\ home = Projects
  /\ there \in {{}, Projects \ Theirs}
  /\ jobs = [s \in Side |-> IF s = "home" THEN Projects \X {1} ELSE there \X {1}]
  /\ running = [s \in Side |-> {}]
  /\ born = Projects \X {1}
  /\ offers = {} /\ made = 0
  /\ snd = [s \in Sendings |-> NotSent]
  /\ rec = [s \in Sendings |-> NoTransfer]
  /\ wrote = [s \in Sendings |-> {}] /\ blind = {}

(***************************************************************************)
(* People at both ends.                                                    *)
(***************************************************************************)
Work(side) ==
  \E j \in Jobs \ born :
    /\ Has(side, j[1])
    /\ jobs' = [jobs EXCEPT ![side] = @ \cup {j}]
    /\ running' = [running EXCEPT ![side] = @ \cup {j}]
    /\ born' = born \cup {j}
    /\ UNCHANGED <<home, there, desk, snd>>

Rest(side) ==
  \E j \in running[side] :
    /\ running' = [running EXCEPT ![side] = @ \ {j}]
    /\ UNCHANGED <<home, there, jobs, born, desk, snd>>

(***************************************************************************)
(* The desk: codes on a screen and transfers under way.                    *)
(***************************************************************************)
\* Nobody is between ending the transfers of an account and listing the new one.
DeskFree == \A s \in Sendings : rec[s].state /= "replacing"

\* A fresh code; the one before it works on through its grace.
Offer ==
  /\ DeskFree /\ made < MaxCodes
  /\ made' = made + 1
  /\ offers' = {c \in offers : \A d \in offers : d <= c} \cup {made + 1}
  /\ UNCHANGED <<sides, snd, rec, wrote, blind>>

\* Its time is up, or whoever shows it has gone from the page.
Expire == \E c \in offers :
  /\ offers' = offers \ {c}
  /\ UNCHANGED <<sides, snd, made, rec, wrote, blind>>

Withdraw ==
  /\ DeskFree /\ offers /= {} /\ offers' = {}
  /\ UNCHANGED <<sides, snd, made, rec, wrote, blind>>

Failed(r) == [r EXCEPT !.state = "failed", !.staged = {}, !.moving = {}]

Importing == {s \in Sendings : rec[s].listed /\ rec[s].state = "importing"}

\* What was still arriving for the account is given up for the new transfer, which is
\* listed when the old one's files are gone.
Replaced(x) ==
  IF rec[x].listed /\ rec[x].state = "receiving"
  THEN [rec[x] EXCEPT !.state = "failed", !.replaced = TRUE] ELSE rec[x]

ReplaceOver(s) ==
  /\ rec[s].state = "paired" /\ DeskFree
  /\ rec' = [x \in Sendings |-> IF x = s THEN [rec[s] EXCEPT !.state = "replacing"]
                                ELSE Replaced(x)]
  /\ UNCHANGED <<sides, snd, offers, made, wrote, blind>>
Replace(s) ==
  /\ rec[s].state = "paired" /\ DeskFree /\ Importing = {}
  /\ rec' = [x \in Sendings |-> IF x = s THEN [rec[s] EXCEPT !.state = "replacing"]
                                ELSE Replaced(x)]
  /\ UNCHANGED <<sides, snd, offers, made, wrote, blind>>

\* A wrong secret is not noticed here, the key it gives just opens nothing.
Register(s) ==
  /\ rec[s].state = "replacing"
  /\ offers' = {}
  /\ rec' = [x \in Sendings |->
               CASE x = s -> [rec[x] EXCEPT !.state = "receiving", !.listed = TRUE]
                 [] x /= s /\ rec[x].replaced -> [rec[x] EXCEPT !.staged = {}]
                 [] OTHER -> rec[x]]
  /\ \E at \in {"failed"} \cup (IF rec[s].opens THEN {"sending"} ELSE {}) :
       snd' = [snd EXCEPT ![s] = [@ EXCEPT !.at = at]]
  /\ UNCHANGED <<sides, made, wrote, blind>>

\* One that is being written is left to finish.
Refuse(s) ==
  /\ rec[s].state = "paired" /\ DeskFree /\ Importing /= {}
  /\ rec' = [rec EXCEPT ![s] = [@ EXCEPT !.state = "forgotten"]]
  /\ snd' = [snd EXCEPT ![s] = [@ EXCEPT !.at = "failed"]]
  /\ UNCHANGED <<sides, offers, made, wrote, blind>>

\* Nobody can ask for it again; a thread that is at it goes on without its files.
Forgotten(r) ==
  IF r.thread = "none" THEN [NoTransfer EXCEPT !.state = "forgotten"]
  ELSE [r EXCEPT !.listed = FALSE, !.staged = {}]

\* Ten minutes without a part: forgotten, whatever it was doing.
Sweep(s) ==
  /\ DeskFree /\ rec[s].listed
  /\ rec' = [rec EXCEPT ![s] = Forgotten(@)]
  /\ UNCHANGED <<sides, snd, offers, made, wrote, blind>>

(***************************************************************************)
(* One part arrives.  A part out of its place, or sealed with another key, *)
(* does not open and ends the transfer.                                    *)
(***************************************************************************)
\* A development running here, or one the sender does not have, would be lost.
CannotReplace(ps, sent) ==
  \E p \in there \cap ps :
    \/ Of(running["there"], p) /= {}
    \/ ~ (Of(jobs["there"], p) \subseteq sent)

Manifest(s, q) ==
  IF CannotReplace(q.plan, q.list) THEN Failed(rec[s])
  ELSE [rec[s] EXCEPT !.seq = @ + 1]

Stage(s, kind) == [rec[s] EXCEPT !.seq = @ + 1, !.staged = @ \cup {kind}]

Finish(s) == [rec[s] EXCEPT !.seq = @ + 1, !.thread = "checked"]

\* The session and the place are sealed in: only the next part, under the agreed key.
Opens(s, n) == rec[s].opens /\ n = rec[s].seq

Takes(s) == rec[s].listed /\ rec[s].state = "receiving" /\ rec[s].thread = "none"

\* What the transfer is after part n, read out as q says, was handed to the receiver.
Accept(s, q, n) ==
  LET kind == Parts[n] IN
  CASE ~ Takes(s) -> rec[s]
    [] Takes(s) /\ ~ Opens(s, n) -> Failed(rec[s])
    [] Takes(s) /\ Opens(s, n) ->
         CASE kind = "manifest" -> Manifest(s, q)
           [] kind = "finish"   -> Finish(s)
           [] OTHER             -> Stage(s, kind)

Accepted(s, r) == r.seq > rec[s].seq

(***************************************************************************)
(* Writing what arrived, in the thread that took `finish'.  It has looked  *)
(* at the state once; what it will replace is looked up first, the         *)
(* checkouts take their time, and the rows go in one transaction.          *)
(***************************************************************************)
\* The rows in the staging directory, which may have gone in the meantime.
Staged(s, kind, what) == IF kind \in rec[s].staged THEN what ELSE {}

GiveUp(s) ==
  LET r == [Failed(rec[s]) EXCEPT !.thread = "none"] IN
  rec' = [rec EXCEPT ![s] = IF r.listed THEN r ELSE Forgotten(r)]

\* From here on it is left to finish -- whatever it was called in the meantime.
ImportBegins(s) ==
  /\ rec[s].thread = "checked"
  /\ rec' = [rec EXCEPT ![s] = [@ EXCEPT !.state = "importing", !.thread = "reading"]]
  /\ UNCHANGED <<sides, snd, offers, made, wrote, blind>>

ImportRefused(s) ==
  /\ rec[s].thread = "reading"
  /\ CannotReplace(Staged(s, "projects", snd[s].sent), Staged(s, "jobs", snd[s].rows))
  /\ GiveUp(s)
  /\ UNCHANGED <<sides, snd, offers, made, wrote, blind>>

\* Another account's copy is left as it is, and everything of it with it.
Replaceable(ps) == ps \ Theirs

ImportReads(s) ==
  LET ps == Staged(s, "projects", snd[s].sent) IN
  /\ rec[s].thread = "reading"
  /\ ~ CannotReplace(ps, Staged(s, "jobs", snd[s].rows))
  /\ rec' = [rec EXCEPT ![s] = [@ EXCEPT !.thread = "writing", !.moving = Replaceable(ps)]]
  /\ UNCHANGED <<sides, snd, offers, made, wrote, blind>>

\* A checkout that cannot be made, a row that cannot be written: nothing was.
ImportFails(s) ==
  /\ rec[s].thread = "writing"
  /\ GiveUp(s)
  /\ UNCHANGED <<sides, snd, offers, made, wrote, blind>>

\* The copies here go, the ones that arrived come, in one transaction.
Write(s) ==
  LET ps == rec[s].moving
      js == {j \in Staged(s, "jobs", snd[s].rows) : j[1] \in ps} IN
  /\ rec[s].thread = "writing"
  /\ there' = there \cup ps
  /\ jobs' = [jobs EXCEPT !["there"] = {j \in @ : j[1] \notin ps} \cup js]
  /\ running' = [running EXCEPT !["there"] = {j \in @ : j[1] \notin ps}]
  /\ wrote' = [wrote EXCEPT ![s] = ps]
  /\ blind' = IF ps /= {} /\ "jobs" \notin rec[s].staged THEN blind \cup {s} ELSE blind
  /\ rec' = [rec EXCEPT ![s] = [@ EXCEPT !.thread = "written"]]
  /\ UNCHANGED <<home, born, snd, offers, made>>

\* Old checkouts go as best they can, then the sign-in is put in place; a disk that
\* refuses it fails the transfer, written as it is.
Settle(s) ==
  /\ rec[s].thread = "written"
  /\ \E end \in {"done", "failed"} :
       rec' = [rec EXCEPT ![s] = [@ EXCEPT !.state = end, !.staged = {}, !.moving = {}, !.thread = "none"]]
  /\ UNCHANGED <<sides, snd, offers, made, wrote, blind>>

\* A server that is started again has forgotten codes and transfers alike.
ReceiverRestarts ==
  /\ offers' = {}
  /\ rec' = [s \in Sendings |->
              IF rec[s].state = "none" THEN rec[s]
              ELSE Forgotten([rec[s] EXCEPT !.thread = "none"])]
  /\ snd' = [s \in Sendings |-> IF snd[s].at = "pairing" THEN [snd[s] EXCEPT !.at = "failed"]
                                ELSE snd[s]]
  /\ UNCHANGED <<sides, made, wrote, blind>>

(***************************************************************************)
(* The sender's thread.                                                    *)
(***************************************************************************)
Goes(q, next) == [q EXCEPT !.at = next]

Busy == \E p \in home : Of(running["home"], p) /= {}

Start(s) ==
  /\ snd[s].at = "idle" /\ home /= {} /\ ~ Busy
  /\ snd' = [snd EXCEPT ![s] = [@ EXCEPT !.at = "planned", !.plan = home]]
  /\ UNCHANGED <<sides, desk>>

\* The code typed in.  A server that does not answer or is of another version is
\* refused before anything is spent; a code that works is spent whatever comes of it:
\* a wrong secret, an answer that is lost.
Pair(s) ==
  /\ snd[s].at = "planned"
  /\ \/ /\ snd' = [snd EXCEPT ![s] = Goes(@, "failed")]
        /\ UNCHANGED desk
     \/ \E c \in offers, right \in BOOLEAN :
          /\ DeskFree
          /\ snd' = [snd EXCEPT ![s] = Goes(@, "pairing")]
          /\ offers' = offers \ {c}
          /\ rec' = [rec EXCEPT ![s] = [@ EXCEPT !.state = "paired", !.opens = right]]
          /\ UNCHANGED <<made, wrote, blind>>
  /\ UNCHANGED sides

\* What is read when its part is sent: the list for the manifest, then the rows, of
\* tables that change meanwhile.
Read(s) ==
  LET now == {j \in jobs["home"] : j[1] \in snd[s].plan} IN
  IF snd[s].seq > Last THEN snd[s]
  ELSE CASE Parts[snd[s].seq] = "manifest" -> [snd[s] EXCEPT !.list = now]
         [] Parts[snd[s].seq] = "projects" ->
              [snd[s] EXCEPT !.sent = @ \cup (snd[s].plan \cap home)]
         [] Parts[snd[s].seq] = "jobs"     -> [snd[s] EXCEPT !.rows = now]
         [] OTHER                          -> snd[s]

\* The part arrives and its answer comes back; `finish' is answered when it is written.
Deliver(s) ==
  LET q == Read(s)
      r == Accept(s, q, q.seq) IN
  /\ snd[s].at = "sending"
  /\ rec' = [rec EXCEPT ![s] = r]
  /\ snd' = [snd EXCEPT ![s] =
       [q EXCEPT !.seq = @ + 1,
                 !.at = IF ~ Accepted(s, r) THEN "failed"
                        ELSE IF q.seq = Last THEN "finishing" ELSE "sending"]]
  /\ UNCHANGED <<sides, offers, made, wrote, blind>>

\* The part, or its answer, or the whole thread is lost; the abort that follows may
\* arrive, in its place or out of it.
BreakSending(s) ==
  /\ snd[s].at = "sending"
  /\ snd' = [snd EXCEPT ![s] = [Read(s) EXCEPT !.at = "failed", !.seq = @ + 1]]
  /\ UNCHANGED <<sides, desk>>
Break(s) ==
  LET q == Read(s) IN
  /\ snd[s].at \in {"sending", "finishing"}
  /\ snd' = [snd EXCEPT ![s] = [q EXCEPT !.at = "failed", !.seq = IF @ > Last THEN @ ELSE @ + 1]]
  /\ \E r \in {rec[s]} \cup (IF snd[s].at = "sending" THEN {Accept(s, q, q.seq)} ELSE {}) :
       \/ rec' = [rec EXCEPT ![s] = r]
       \/ /\ r.listed /\ r.state = "receiving" /\ r.thread = "none"
          /\ rec' = [rec EXCEPT ![s] = Failed(r)]
  /\ UNCHANGED <<sides, offers, made, wrote, blind>>

\* A part the sender gave up on arrives late, or one the network had already delivered.
Late(s) ==
  /\ Takes(s)
  /\ \E n \in 1..(snd[s].seq - 1) : rec' = [rec EXCEPT ![s] = Accept(s, snd[s], n)]
  /\ UNCHANGED <<sides, snd, offers, made, wrote, blind>>

\* The answer to `finish': what was written, or why it was not.  Whether the person
\* wanted it deleted here is only looked at now.
AnsweredAll(s) ==
  /\ snd[s].at = "finishing" /\ rec[s].thread = "none"
  /\ \E at \in IF rec[s].state = "done" THEN {"done", "deleting"} ELSE {"failed"} :
       snd' = [snd EXCEPT ![s] =
                 [@ EXCEPT !.at = at, !.left = IF at = "deleting" THEN snd[s].plan ELSE {}]]
  /\ UNCHANGED <<sides, desk>>
Answered(s) ==
  /\ snd[s].at = "finishing" /\ rec[s].thread = "none"
  /\ \E at \in IF rec[s].state = "done" THEN {"done", "deleting"} ELSE {"failed"} :
       snd' = [snd EXCEPT ![s] =
                 [@ EXCEPT !.at = at,
                           !.left = IF at = "deleting" THEN snd[s].plan \cap wrote[s] ELSE {}]]
  /\ UNCHANGED <<sides, desk>>

\* A project the receiver said it wrote is deleted, whatever goes on in it; one that
\* cannot be is left.
Delete(s) ==
  /\ snd[s].at = "deleting"
  /\ \/ \E p \in snd[s].left :
          /\ snd' = [snd EXCEPT ![s] = [@ EXCEPT !.left = snd[s].left \ {p}]]
          /\ \/ /\ home' = home \ {p}
                /\ jobs' = [jobs EXCEPT !["home"] = {j \in @ : j[1] /= p}]
                /\ running' = [running EXCEPT !["home"] = {j \in @ : j[1] /= p}]
             \/ UNCHANGED <<home, jobs, running>>
     \/ /\ snd[s].left = {}
        /\ snd' = [snd EXCEPT ![s] = Goes(@, "done")]
        /\ UNCHANGED <<home, jobs, running>>
  /\ UNCHANGED <<there, born, desk>>

Next ==
  \/ \E side \in Side : Work(side) \/ Rest(side)
  \/ Offer \/ Expire \/ Withdraw \/ ReceiverRestarts
  \/ \E s \in Sendings :
       \/ Start(s) \/ Pair(s) \/ Deliver(s) \/ Break(s) \/ Late(s) \/ Answered(s) \/ Delete(s)
       \/ Replace(s) \/ Register(s) \/ Refuse(s) \/ Sweep(s)
       \/ ImportBegins(s) \/ ImportRefused(s) \/ ImportReads(s) \/ ImportFails(s) \/ Write(s)
       \/ Settle(s)

Spec == Init /\ [][Next]_vars

\* The sender's thread goes on, and every call it waits for ends: the exchange at the
\* receiver goes on too, and the client gives up on a part after fifteen minutes.
Fairness ==
  \A s \in Sendings :
    WF_vars(\/ Pair(s) \/ Replace(s) \/ Refuse(s) \/ Register(s)
            \/ Deliver(s) \/ Break(s) \/ Answered(s) \/ Delete(s))

FairSpec == Spec /\ Fairness

(***************************************************************************)
(* Properties.                                                             *)
(***************************************************************************)
SenderPoint == {"idle", "planned", "pairing", "sending", "finishing", "deleting", "done", "failed"}

\* Every variable holds what it is meant to hold.
TypeOK ==
  /\ home \subseteq Projects /\ there \subseteq Projects
  /\ jobs \in [Side -> SUBSET Jobs] /\ running \in [Side -> SUBSET Jobs]
  /\ born \subseteq Jobs
  /\ offers \subseteq Codes /\ made \in 0..MaxCodes
  /\ snd \in [Sendings ->
       [at : SenderPoint, seq : 1..(Last + 1), plan : SUBSET Projects, list : SUBSET Jobs,
        sent : SUBSET Projects, rows : SUBSET Jobs, left : SUBSET Projects]]
  /\ rec \in [Sendings ->
       [state : {"none", "paired", "replacing", "receiving", "importing", "done", "failed",
                 "forgotten"}, listed : BOOLEAN, replaced : BOOLEAN,
        opens : BOOLEAN, seq : 1..(Last + 1), staged : SUBSET {"projects", "jobs"},
        thread : {"none", "checked", "reading", "writing", "written"}, moving : SUBSET Projects]]
  /\ wrote \in [Sendings -> SUBSET Projects] /\ blind \subseteq Sendings

Lost == {j \in born : j \notin jobs["home"] \cup jobs["there"]}

\* A development that was there before anybody moved anything is on one of the two
\* servers at every moment, however parts, answers and threads are lost -- unless a
\* transfer lost its staged rows to the desk, which forgot or replaced it, while it was
\* writing (send, import_transfer).
OldWorkSurvives == blind = {} => \A p \in Projects : <<p, 1>> \notin Lost

Writes(r) == r.listed /\ r.moving /= {} /\ r.thread \in {"writing", "written"}

\* Of the transfers the desk knows and has not replaced never two write projects of one
\* account; one it replaced after its last part was looked at writes beside the new one
\* (Desk.pair, accept).
OneWriter ==
  \A s, t \in Sendings :
    /\ Writes(rec[s]) /\ ~ rec[s].replaced
    /\ Writes(rec[t]) /\ ~ rec[t].replaced
    => s = t

\* A transfer only ever takes a project from the sender that some transfer wrote at
\* the receiver (send).
DeletedOnlyWhenWritten ==
  [][\A p \in home \ home' : \E s \in Sendings : p \in wrote[s]]_vars

\* Every transfer that was started ends for the person who started it (start).
SendingsEnd ==
  \A s \in Sendings : snd[s].at = "planned" ~> snd[s].at \in {"done", "failed"}
=============================================================================
