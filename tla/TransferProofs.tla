----------------------------- MODULE TransferProofs -----------------------------
(***************************************************************************)
(* What was there before anything moved is never lost, of the transfers    *)
(* that were not replaced one writes at a time, and the sender only        *)
(* deletes what was written: for any number of transfers, projects, codes  *)
(* and restarts.                                                           *)
(***************************************************************************)
EXTENDS Transfer, TLAPS

Snds == [at : SenderPoint, seq : 1..5, plan : SUBSET Projects, list : SUBSET Jobs,
         sent : SUBSET Projects, rows : SUBSET Jobs, left : SUBSET Projects]
Recs == [state : {"none", "paired", "replacing", "receiving", "importing", "done", "failed",
                  "forgotten"}, listed : BOOLEAN, replaced : BOOLEAN,
         opens : BOOLEAN, seq : 1..5, staged : SUBSET {"projects", "jobs"},
         thread : {"none", "checked", "reading", "writing", "written"}, moving : SUBSET Projects]

\* What a sending, its transfer and what that has written have to do with each other.
Link(q, r, w) ==
  /\ q.at \in {"idle", "planned", "pairing"} => q.seq = 1 /\ q.sent = {}
  /\ q.at \in {"idle", "planned"} => r.state = "none"
  /\ q.at = "pairing" <=> r.state \in {"paired", "replacing"}
  /\ q.at = "sending" => q.seq <= 4
  /\ q.at = "deleting" => r.thread = "none" /\ r.state \in {"done", "forgotten"}
  /\ q.left /= {} => q.at = "deleting"
  /\ q.left \subseteq w /\ q.sent \subseteq q.plan
  /\ r.staged /= {} => r.listed
  /\ "jobs" \in r.staged => q.seq > 3
  /\ r.thread = "checked" => r.state = "receiving" \/ (r.replaced /\ r.state = "failed")
  /\ r.thread \in {"reading", "writing", "written"} => r.state = "importing"
  /\ r.listed => r.state \notin {"none", "paired", "replacing"}
  /\ r.state \in {"none", "paired", "replacing"} => r.thread = "none" /\ ~ r.replaced

\* One that takes parts, or writes, for this account, or is about to be let in.
Active(r) ==
  \/ r.state = "replacing"
  \/ r.listed /\ ~ r.replaced /\ r.state \in {"receiving", "importing"}

\* The rows that were read have the first development of every project the sender still
\* has.
Old(p)   == <<p, 1>>
Reads(q) == q.seq > 3 => \A p \in q.plan : Old(p) \in jobs["home"] => Old(p) \in q.rows

\* And so has what is about to be written.
Moves(q, r) ==
  r.thread = "writing" /\ "jobs" \in r.staged => \A p \in r.moving : Old(p) \in q.rows

Safe(p) == Old(p) \in jobs["home"] \/ Old(p) \in jobs["there"]

Rows ==
  /\ \A j \in jobs["there"] : j[1] \in there
  /\ \A p \in Projects : Old(p) \in born

Survival ==
  blind = {} =>
    /\ \A p \in Projects : Safe(p)
    /\ \A s \in Sendings :
         Moves(snd[s], rec[s]) /\ \A p \in wrote[s] : Old(p) \in jobs["there"]

Inv ==
  /\ TypeOK /\ Rows /\ Survival
  /\ \A s \in Sendings : Link(snd[s], rec[s], wrote[s]) /\ Reads(snd[s])
  /\ \A s, t \in Sendings : Active(rec[s]) /\ Active(rec[t]) => s = t

-----------------------------------------------------------------------------
LEMMA FourParts == Last = 4 /\ Parts[1] = "manifest" /\ Parts[2] = "projects"
                   /\ Parts[3] = "jobs" /\ Parts[4] = "finish"
BY DEF Last, Parts

LEMMA Types ==
  TypeOK <=>
    /\ home \subseteq Projects /\ there \subseteq Projects
    /\ jobs \in [Side -> SUBSET Jobs] /\ running \in [Side -> SUBSET Jobs]
    /\ born \subseteq Jobs
    /\ offers \subseteq Codes /\ made \in 0..MaxCodes
    /\ snd \in [Sendings -> Snds] /\ rec \in [Sendings -> Recs]
    /\ wrote \in [Sendings -> SUBSET Projects] /\ blind \subseteq Sendings
BY FourParts DEF TypeOK, Snds, Recs

LEMMA OldJobs == \A p \in Projects : Old(p) \in Jobs /\ Old(p)[1] = p
BY DEF Old, Jobs

\* What becomes of a transfer by the operators that change one.
LEMMA FailedDoes ==
  ASSUME NEW r \in Recs
  PROVE  /\ Failed(r) \in Recs /\ Failed(r).state = "failed" /\ Failed(r).staged = {}
         /\ Failed(r).listed = r.listed /\ Failed(r).thread = r.thread
         /\ Failed(r).seq = r.seq
BY DEF Failed, Recs

LEMMA NewDoes ==
  /\ NoTransfer \in Recs /\ NoTransfer.staged = {} /\ NoTransfer.thread = "none"
  /\ NoTransfer.moving = {} /\ ~ NoTransfer.listed /\ ~ NoTransfer.replaced
BY DEF NoTransfer, Recs

LEMMA ForgottenDoes ==
  ASSUME NEW r \in Recs
  PROVE  /\ Forgotten(r) \in Recs /\ Forgotten(r).staged = {} /\ ~ Forgotten(r).listed
         /\ Forgotten(r).thread = r.thread
         /\ IF r.thread = "none" THEN Forgotten(r).state = "forgotten"
            ELSE Forgotten(r).state = r.state /\ Forgotten(r).replaced = r.replaced
<1>1. CASE r.thread = "none" BY <1>1, NewDoes DEF Forgotten, Recs
<1>2. CASE r.thread /= "none" BY <1>2 DEF Forgotten, Recs
<1> QED BY <1>1, <1>2

LEMMA ReadDoes ==
  ASSUME TypeOK, NEW s \in Sendings
  PROVE  /\ Read(s) \in Snds
         /\ Read(s).at = snd[s].at /\ Read(s).seq = snd[s].seq /\ Read(s).plan = snd[s].plan
         /\ Read(s).left = snd[s].left
         /\ snd[s].sent \subseteq snd[s].plan => Read(s).sent \subseteq snd[s].plan
         /\ snd[s].seq /= 3 => Read(s).rows = snd[s].rows
         /\ snd[s].seq = 3 => Read(s).rows = {j \in jobs["home"] : j[1] \in snd[s].plan}
<1> DEFINE now == {j \in jobs["home"] : j[1] \in snd[s].plan}
<1>0. snd[s] \in Snds /\ now \subseteq Jobs /\ home \subseteq Projects
  BY Types DEF Side
<1>1. CASE snd[s].seq > 4
  <2>1. Read(s) = snd[s] BY <1>1, FourParts DEF Read
  <2> QED BY <1>0, <1>1, <2>1 DEF Snds
<1>2. CASE snd[s].seq = 1
  <2>1. Read(s) = [snd[s] EXCEPT !.list = now] BY <1>2, FourParts DEF Read
  <2> QED BY <1>0, <1>2, <2>1 DEF Snds
<1>3. CASE snd[s].seq = 2
  <2>1. Read(s) = [snd[s] EXCEPT !.sent = @ \cup (snd[s].plan \cap home)]
    BY <1>3, FourParts DEF Read
  <2> QED BY <1>0, <1>3, <2>1 DEF Snds
<1>4. CASE snd[s].seq = 3
  <2>1. Read(s) = [snd[s] EXCEPT !.rows = now] BY <1>4, FourParts DEF Read
  <2> QED BY <1>0, <1>4, <2>1 DEF Snds
<1>5. CASE snd[s].seq = 4
  <2>1. Read(s) = snd[s] BY <1>5, FourParts DEF Read
  <2> QED BY <1>0, <1>5, <2>1 DEF Snds
<1> QED BY <1>0, <1>1, <1>2, <1>3, <1>4, <1>5 DEF Snds

\* A part either changes nothing, ends the transfer, or is the next one.
Advanced(r, n, t) ==
  /\ t \in Recs /\ t.state = "receiving" /\ t.listed /\ t.moving = r.moving
  /\ t.replaced = r.replaced
  /\ t.thread \in {"none", "checked"} /\ t.seq = r.seq + 1
  /\ \/ t.staged = r.staged
     \/ n \in {2, 3} /\ t.staged = r.staged \cup {Parts[n]}

LEMMA NextDoes ==
  ASSUME NEW r \in Recs, NEW n \in 1..4, n = r.seq, r.state = "receiving", r.listed,
         r.thread = "none", NEW t,
         \/ t = [r EXCEPT !.seq = @ + 1]
         \/ /\ n \in {2, 3} /\ Parts[n] \in {"projects", "jobs"}
            /\ t = [r EXCEPT !.seq = @ + 1, !.staged = @ \cup {Parts[n]}]
         \/ t = [r EXCEPT !.seq = @ + 1, !.thread = "checked"]
  PROVE  Advanced(r, n, t)
<1>0. r.seq + 1 \in 1..5 OBVIOUS
<1>1. CASE t = [r EXCEPT !.seq = @ + 1]
  <2>1. t \in Recs BY <1>0, <1>1 DEF Recs
  <2> QED BY <1>1, <2>1 DEF Advanced, Recs
<1>2. CASE /\ n \in {2, 3} /\ Parts[n] \in {"projects", "jobs"}
           /\ t = [r EXCEPT !.seq = @ + 1, !.staged = @ \cup {Parts[n]}]
  <2>0. r.staged \cup {Parts[n]} \in SUBSET {"projects", "jobs"} BY <1>2 DEF Recs
  <2>1. t \in Recs BY <1>0, <1>2, <2>0 DEF Recs
  <2> QED BY <1>2, <2>1 DEF Advanced, Recs
<1>3. CASE t = [r EXCEPT !.seq = @ + 1, !.thread = "checked"]
  <2>1. t \in Recs BY <1>0, <1>3 DEF Recs
  <2> QED BY <1>3, <2>1 DEF Advanced, Recs
<1> QED BY <1>1, <1>2, <1>3

LEMMA AcceptDoes ==
  ASSUME TypeOK, NEW s \in Sendings, NEW q, NEW n \in 1..4
  PROVE  \/ Accept(s, q, n) = rec[s]
         \/ Takes(s) /\ Accept(s, q, n) = Failed(rec[s])
         \/ Takes(s) /\ n = rec[s].seq /\ Advanced(rec[s], n, Accept(s, q, n))
<1>0. rec[s] \in Recs BY Types
<1>1. CASE ~ Takes(s) BY <1>1 DEF Accept
<1>2. CASE Takes(s) /\ ~ Opens(s, n) BY <1>2 DEF Accept
<1>3. CASE Takes(s) /\ Opens(s, n)
  <2>1. n = rec[s].seq /\ rec[s].state = "receiving" /\ rec[s].listed /\ rec[s].thread = "none"
    BY <1>3 DEF Takes, Opens
  <2>2. CASE n = 1
    <3>1. Accept(s, q, n) = Manifest(s, q) BY <1>3, <2>2, FourParts DEF Accept
    <3>2. CASE CannotReplace(q.plan, q.list) BY <1>3, <3>1, <3>2 DEF Manifest
    <3>3. CASE ~ CannotReplace(q.plan, q.list)
      <4>1. Accept(s, q, n) = [rec[s] EXCEPT !.seq = @ + 1] BY <3>1, <3>3 DEF Manifest
      <4>3. Advanced(rec[s], n, Accept(s, q, n))
        BY <1>0, <2>1, <4>1, NextDoes
      <4> QED BY <1>3, <2>1, <4>3
    <3> QED BY <3>2, <3>3
  <2>3. CASE n \in {2, 3}
    <3>1. Accept(s, q, n) = Stage(s, Parts[n]) BY <1>3, <2>3, FourParts DEF Accept
    <3>2. Parts[n] \in {"projects", "jobs"} BY <2>3, FourParts
    <3>3. Accept(s, q, n) = [rec[s] EXCEPT !.seq = @ + 1, !.staged = @ \cup {Parts[n]}]
      BY <3>1 DEF Stage
    <3>5. Advanced(rec[s], n, Accept(s, q, n))
      BY <1>0, <2>1, <2>3, <3>2, <3>3, NextDoes
    <3> QED BY <1>3, <2>1, <3>5
  <2>4. CASE n = 4
    <3>1. Accept(s, q, n) = Finish(s) BY <1>3, <2>4, FourParts DEF Accept
    <3>2. Accept(s, q, n) = [rec[s] EXCEPT !.seq = @ + 1, !.thread = "checked"]
      BY <3>1 DEF Finish
    <3>4. Advanced(rec[s], n, Accept(s, q, n))
      BY <1>0, <2>1, <3>2, NextDoes
    <3> QED BY <1>3, <2>1, <3>4
  <2> QED BY <2>2, <2>3, <2>4
<1> QED BY <1>1, <1>2, <1>3

-----------------------------------------------------------------------------
\* A step of one sending and its transfer that leaves the projects alone.
LEMMA OneSteps ==
  ASSUME Inv, NEW s \in Sendings, NEW q \in Snds, NEW r \in Recs,
         snd' = [snd EXCEPT ![s] = q], rec' = [rec EXCEPT ![s] = r],
         UNCHANGED <<sides, wrote, blind>>,
         offers' \subseteq Codes, made' \in 0..MaxCodes,
         Link(q, r, wrote[s]), Reads(q), blind = {} => Moves(q, r),
         Active(r) => Active(rec[s])
  PROVE  Inv'
<1>1. /\ snd'[s] = q /\ rec'[s] = r
      /\ \A t \in Sendings : t /= s => snd'[t] = snd[t] /\ rec'[t] = rec[t]
  BY Types DEF Inv
<1>2. TypeOK' BY Types DEF Inv, TypeOK, Snds, Recs, Last, Parts, sides
<1>3. Rows' BY DEF Inv, Rows, sides
<1>4. Survival' BY <1>1 DEF Inv, Survival, Moves, Safe, sides
<1>5. (\A t \in Sendings : Link(snd[t], rec[t], wrote[t]) /\ Reads(snd[t]))'
  BY <1>1 DEF Inv, Reads, sides
<1>6. (\A t, u \in Sendings : Active(rec[t]) /\ Active(rec[u]) => t = u)'
  BY <1>1 DEF Inv
<1> QED BY <1>2, <1>3, <1>4, <1>5, <1>6 DEF Inv

\* The same for the transfer alone.
LEMMA RecSteps ==
  ASSUME Inv, NEW s \in Sendings, NEW r \in Recs, rec' = [rec EXCEPT ![s] = r],
         UNCHANGED <<sides, snd, wrote, blind, offers, made>>,
         Link(snd[s], r, wrote[s]), blind = {} => Moves(snd[s], r), Active(r) => Active(rec[s])
  PROVE  Inv'
<1>1. snd[s] \in Snds /\ snd' = [snd EXCEPT ![s] = snd[s]] BY Types DEF Inv
<1>2. /\ offers' \subseteq Codes /\ made' \in 0..MaxCodes
      /\ Reads(snd[s])
  BY DEF Inv, TypeOK
<1> QED BY <1>1, <1>2, OneSteps

\* A transfer that takes parts is not one that writes.
LEMMA Taking ==
  ASSUME Inv, NEW s \in Sendings, Takes(s)
  PROVE  /\ rec[s].listed /\ rec[s].state = "receiving" /\ rec[s].thread = "none"
         /\ snd[s].at \notin {"idle", "planned", "pairing", "deleting"} /\ snd[s].left = {}
BY DEF Inv, Link, Takes

\* Whatever part arrives at whatever time, with whatever the sending has become by then.
LEMMA Arrives ==
  ASSUME Inv, NEW s \in Sendings, NEW x, NEW n \in 1..4, NEW q \in Snds, NEW r,
         r = Accept(s, x, n) \/ r = rec[s], snd[s].at /= "pairing",
         q.at \notin {"idle", "planned", "pairing", "deleting"}, q.left = {},
         q.sent \subseteq q.plan,
         q.at = "sending" => q.seq <= 4, q.seq > n, q.seq >= snd[s].seq
  PROVE  r \in Recs /\ Link(q, r, wrote[s]) /\ (Active(r) => Active(rec[s]))
         /\ (r.thread = "writing" => r = rec[s])
<1>0. /\ rec[s] \in Recs /\ Link(snd[s], rec[s], wrote[s]) /\ snd[s] \in Snds
  BY Types DEF Inv
<1>1. CASE r = rec[s]
  <2>1. "jobs" \in r.staged => q.seq > 3 BY <1>0, <1>1 DEF Link, Snds
  <2> QED BY <1>0, <1>1, <2>1 DEF Link
<1>2. CASE Takes(s) /\ r = Failed(rec[s])
  <2>1. /\ r \in Recs /\ r.state = "failed" /\ r.staged = {} /\ r.thread = "none"
    BY <1>0, <1>2, Taking, FailedDoes
  <2>2. Link(q, r, wrote[s]) BY <2>1 DEF Link
  <2>3. ~ Active(r) BY <2>1 DEF Active
  <2> QED BY <2>1, <2>2, <2>3
<1>3. CASE Takes(s) /\ n = rec[s].seq /\ Advanced(rec[s], n, r)
  <2>1. /\ r \in Recs /\ r.state = "receiving" /\ r.thread \in {"none", "checked"} /\ r.listed
        /\ r.replaced = rec[s].replaced
        /\ \/ r.staged = rec[s].staged
           \/ n \in {2, 3} /\ r.staged = rec[s].staged \cup {Parts[n]}
    BY <1>3 DEF Advanced
  <2>2. "jobs" \in r.staged => q.seq > 3
    <3>1. CASE r.staged = rec[s].staged BY <1>0, <3>1 DEF Link, Snds
    <3>2. CASE n = 2 /\ r.staged = rec[s].staged \cup {Parts[n]}
      BY <1>0, <3>2, FourParts DEF Link, Snds
    <3>3. CASE n = 3 BY <3>3 DEF Snds
    <3> QED BY <2>1, <3>1, <3>2, <3>3
  <2>3. Link(q, r, wrote[s])
    <3>1. r.state = "receiving" /\ r.listed /\ r.thread \in {"none", "checked"} BY <2>1
    <3> QED BY <2>2, <3>1 DEF Link
  <2>4. Active(r) => Active(rec[s]) BY <1>3, <2>1, Taking DEF Active
  <2> QED BY <2>1, <2>3, <2>4
<1> QED BY <1>1, <1>2, <1>3, AcceptDoes DEF Inv

\* The rows a sending reads are those of the projects it moves.
LEMMA ReadsRows ==
  ASSUME Inv, NEW s \in Sendings, NEW q \in Snds, q.plan = snd[s].plan, q.rows = Read(s).rows,
         q.seq = snd[s].seq \/ q.seq = snd[s].seq + 1, q.seq = snd[s].seq => snd[s].seq /= 3
  PROVE  Reads(q)
<1>0. snd[s] \in Snds /\ Reads(snd[s]) /\ snd[s].plan \subseteq Projects BY Types DEF Inv, Snds
<1>1. CASE snd[s].seq = 3
  <2>1. q.rows = {j \in jobs["home"] : j[1] \in snd[s].plan} BY <1>1, ReadDoes DEF Inv
  <2> QED BY <1>0, <2>1, OldJobs DEF Reads
<1>2. CASE snd[s].seq /= 3
  <2>1. q.rows = snd[s].rows BY <1>2, ReadDoes DEF Inv
  <2> QED BY <1>0, <1>2, <2>1 DEF Reads, Snds
<1> QED BY <1>1, <1>2

LEMMA KeepsMoving ==
  ASSUME Inv, NEW s \in Sendings, NEW q, q.rows = Read(s).rows, blind = {}
  PROVE  Moves(q, rec[s])
<1>1. "jobs" \in rec[s].staged => snd[s].seq > 3 BY DEF Inv, Link
<1>2. "jobs" \in rec[s].staged => q.rows = snd[s].rows BY <1>1, ReadDoes DEF Inv
<1> QED BY <1>2 DEF Inv, Survival, Moves

-----------------------------------------------------------------------------
LEMMA Starts == Init => Inv
<1> SUFFICES ASSUME Init PROVE Inv OBVIOUS
<1>0. \A p \in Projects : Old(p) \in Projects \X {1} BY DEF Old
<1>1. NotSent \in Snds BY DEF NotSent, Snds, SenderPoint
<1>2. TypeOK
  <2>1. Projects \X {1} \subseteq Jobs BY DEF Jobs
  <2>2. there \subseteq Projects /\ there \X {1} \subseteq Jobs BY DEF Init, Jobs
  <2>3. jobs \in [Side -> SUBSET Jobs] BY <2>1, <2>2 DEF Init, Side
  <2>4. snd \in [Sendings -> Snds] /\ rec \in [Sendings -> Recs] BY <1>1, NewDoes DEF Init
  <2> QED BY <2>1, <2>2, <2>3, <2>4, Types, TransferAssumption DEF Init, Codes
<1>3. jobs["home"] = Projects \X {1} /\ jobs["there"] = there \X {1} BY DEF Init, Side
<1>4. Rows BY <1>0, <1>3 DEF Init, Rows
<1>5. Survival
  <2>1. \A p \in Projects : Safe(p) BY <1>0, <1>3 DEF Safe
  <2>2. \A t \in Sendings : Moves(snd[t], rec[t]) BY NewDoes DEF Init, Moves
  <2> QED BY <2>1, <2>2 DEF Survival, Init
<1>6. \A t \in Sendings : Link(snd[t], rec[t], wrote[t]) /\ Reads(snd[t])
  BY DEF Init, Link, Reads, NotSent, NoTransfer
<1>7. \A t \in Sendings : ~ Active(rec[t]) BY NewDoes DEF Init, Active, NoTransfer
<1> QED BY <1>2, <1>4, <1>5, <1>6, <1>7 DEF Inv

\* People work on, and rest.
LEMMA WorkKeeps == ASSUME Inv, NEW side \in Side, Work(side) \/ Rest(side) PROVE Inv'
<1>1. /\ UNCHANGED <<home, there, snd, rec, wrote, blind, offers, made>>
      /\ born' \subseteq Jobs /\ born \subseteq born' /\ jobs' \in [Side -> SUBSET Jobs]
      /\ running' \in [Side -> SUBSET Jobs]
  <2>0. /\ jobs \in [Side -> SUBSET Jobs] /\ running \in [Side -> SUBSET Jobs]
        /\ born \subseteq Jobs
    BY DEF Inv, TypeOK
  <2>1. CASE Work(side)
    <3>1. PICK j \in Jobs \ born :
            /\ jobs' = [jobs EXCEPT ![side] = @ \cup {j}]
            /\ running' = [running EXCEPT ![side] = @ \cup {j}]
            /\ born' = born \cup {j} /\ UNCHANGED <<home, there, desk, snd>>
      BY <2>1 DEF Work
    <3> QED BY <2>0, <3>1 DEF desk
  <2>2. CASE Rest(side)
    <3>1. PICK j \in running[side] :
            /\ running' = [running EXCEPT ![side] = @ \ {j}]
            /\ UNCHANGED <<home, there, jobs, born, desk, snd>>
      BY <2>2 DEF Rest
    <3> QED BY <2>0, <3>1 DEF desk
  <2> QED BY <2>1, <2>2
<1>2. \A z \in Side, j \in Jobs : j \in jobs[z] => j \in jobs'[z]
  BY DEF Inv, TypeOK, Work, Rest, Side
<1>3. \A z \in Side, j \in Jobs : j \in jobs'[z] /\ j \notin jobs[z] =>
        j \notin born /\ z = side /\ Has(side, j[1])
  BY DEF Inv, TypeOK, Work, Rest, Side
<1>4. "home" \in Side /\ "there" \in Side BY DEF Side
<1>5. TypeOK' BY <1>1 DEF Inv, TypeOK
<1>6. Rows'
  <2>1. \A j \in jobs'["there"] : j[1] \in there
    BY <1>1, <1>3, <1>4 DEF Inv, Rows, Has, TypeOK
  <2> QED BY <1>1, <2>1 DEF Inv, Rows
<1>7. \A p \in Projects : /\ Old(p) \in jobs'["home"] <=> Old(p) \in jobs["home"]
                          /\ Old(p) \in jobs'["there"] <=> Old(p) \in jobs["there"]
  BY <1>2, <1>3, <1>4, OldJobs DEF Inv, Rows
<1>8. Survival'
  <2>1. \A t \in Sendings : wrote[t] \subseteq Projects BY Types DEF Inv
  <2> QED BY <1>1, <1>7, <2>1 DEF Inv, Survival, Safe, Moves
<1>9. (\A t \in Sendings : Link(snd[t], rec[t], wrote[t]) /\ Reads(snd[t]))'
  <2>1. \A t \in Sendings : snd[t].plan \subseteq Projects BY Types DEF Inv, Snds
  <2> QED BY <1>1, <1>7, <2>1 DEF Inv, Reads
<1> QED BY <1>1, <1>5, <1>6, <1>8, <1>9 DEF Inv

\* A code is shown, runs out or is withdrawn.
LEMMA CodesKeep == ASSUME Inv, Offer \/ Expire \/ Withdraw PROVE Inv'
<1>1. UNCHANGED <<sides, snd, rec, wrote, blind>>
  BY DEF Offer, Expire, Withdraw
<1>2. offers' \subseteq Codes /\ made' \in 0..MaxCodes
  <2>0. made \in 0..MaxCodes /\ offers \subseteq Codes /\ MaxCodes \in Nat
    BY TransferAssumption DEF Inv, TypeOK
  <2>1. CASE Offer
    <3>1. made + 1 \in Codes /\ made' = made + 1 /\ made' \in 0..MaxCodes
      BY <2>0, <2>1 DEF Offer, Codes
    <3>2. offers' = {c \in offers : \A d \in offers : d <= c} \cup {made + 1}
      BY <2>1 DEF Offer
    <3> QED BY <2>0, <3>1, <3>2
  <2>2. CASE Expire BY <2>0, <2>2 DEF Expire
  <2>3. CASE Withdraw BY <2>0, <2>3 DEF Withdraw
  <2> QED BY <2>1, <2>2, <2>3
<1>3. TypeOK' BY <1>1, <1>2 DEF Inv, TypeOK, sides
<1> QED BY <1>1, <1>3 DEF Inv, Rows, Survival, Safe, Moves, Reads, sides

LEMMA SweepKeeps == ASSUME Inv, NEW s \in Sendings, Sweep(s) PROVE Inv'
<1>1. rec[s] \in Recs /\ Link(snd[s], rec[s], wrote[s]) /\ rec[s].listed
  BY Types DEF Inv, Sweep
<1>2. /\ Forgotten(rec[s]) \in Recs /\ Forgotten(rec[s]).staged = {}
      /\ ~ Forgotten(rec[s]).listed /\ Forgotten(rec[s]).thread = rec[s].thread
      /\ IF rec[s].thread = "none" THEN Forgotten(rec[s]).state = "forgotten"
         ELSE Forgotten(rec[s]).state = rec[s].state
              /\ Forgotten(rec[s]).replaced = rec[s].replaced
  BY <1>1, ForgottenDoes
<1>3. rec[s].state /= "none" => Link(snd[s], Forgotten(rec[s]), wrote[s])
  BY <1>1, <1>2 DEF Link
<1>4. rec[s].state /= "none" BY <1>1 DEF Link
<1> QED BY <1>1, <1>2, <1>3, <1>4, RecSteps DEF Sweep, Active, Moves

\* The thread that gives up, and a transfer that is forgotten at once.
LEMMA GivesUp ==
  ASSUME Inv, NEW s \in Sendings, GiveUp(s), rec[s].thread \in {"reading", "writing"},
         UNCHANGED <<sides, snd, offers, made, wrote, blind>>
  PROVE  Inv'
<1> DEFINE f == [Failed(rec[s]) EXCEPT !.thread = "none"]
           r == IF f.listed THEN f ELSE Forgotten(f)
<1>1. rec[s] \in Recs /\ Link(snd[s], rec[s], wrote[s]) BY Types DEF Inv
<1>2. /\ f \in Recs /\ f.state = "failed" /\ f.staged = {} /\ f.thread = "none"
  BY <1>1, FailedDoes DEF Recs
<1>3. /\ r \in Recs /\ r.state \in {"failed", "forgotten"} /\ r.staged = {}
      /\ r.thread = "none"
  BY <1>2, ForgottenDoes
<1>4. rec' = [rec EXCEPT ![s] = r] BY <1>1, FailedDoes DEF GiveUp, Recs
<1> HIDE DEF r, f
<1>5. Link(snd[s], r, wrote[s]) BY <1>1, <1>3 DEF Link
<1> QED BY <1>3, <1>4, <1>5, RecSteps DEF Active, Moves

LEMMA RefusedKeeps == ASSUME Inv, NEW s \in Sendings, ImportRefused(s) PROVE Inv'
BY GivesUp DEF ImportRefused

LEMMA FailsKeeps == ASSUME Inv, NEW s \in Sendings, ImportFails(s) PROVE Inv'
BY GivesUp DEF ImportFails

LEMMA BeginsKeeps == ASSUME Inv, NEW s \in Sendings, ImportBegins(s) PROVE Inv'
<1> DEFINE r == [rec[s] EXCEPT !.state = "importing", !.thread = "reading"]
<1>1. /\ rec[s] \in Recs /\ Link(snd[s], rec[s], wrote[s]) /\ rec[s].thread = "checked"
  BY Types DEF Inv, ImportBegins
<1>2. /\ r \in Recs /\ r.state = "importing" /\ r.thread = "reading" /\ r.listed = rec[s].listed
      /\ r.replaced = rec[s].replaced /\ r.staged = rec[s].staged
  BY <1>1 DEF Recs
<1>3. rec' = [rec EXCEPT ![s] = r] BY DEF ImportBegins
<1> HIDE DEF r
<1>4. Link(snd[s], r, wrote[s]) BY <1>1, <1>2 DEF Link
<1>5. Active(r) => Active(rec[s]) BY <1>1, <1>2 DEF Active, Link
<1>6. blind = {} => Moves(snd[s], r) BY <1>2 DEF Moves
<1> QED BY <1>2, <1>3, <1>4, <1>5, <1>6, RecSteps DEF ImportBegins

\* What is about to be written has every first development that is to be had.
LEMMA ReadsKeeps == ASSUME Inv, NEW s \in Sendings, ImportReads(s) PROVE Inv'
<1> DEFINE ps == Staged(s, "projects", snd[s].sent)
           js == Staged(s, "jobs", snd[s].rows)
           r == [rec[s] EXCEPT !.thread = "writing", !.moving = Replaceable(ps)]
<1>1. /\ rec[s] \in Recs /\ snd[s] \in Snds /\ Link(snd[s], rec[s], wrote[s]) /\ Reads(snd[s])
      /\ rec[s].thread = "reading" /\ ~ CannotReplace(ps, js)
  BY Types DEF Inv, ImportReads
<1>2. ps \subseteq snd[s].sent /\ snd[s].sent \subseteq snd[s].plan /\ ps \subseteq Projects
  BY <1>1 DEF Staged, Link, Snds
<1>3. Replaceable(ps) \subseteq ps BY DEF Replaceable
<1>4. /\ r \in Recs /\ r.state = rec[s].state /\ r.thread = "writing" /\ r.listed = rec[s].listed
      /\ r.replaced = rec[s].replaced /\ r.moving = Replaceable(ps) /\ r.staged = rec[s].staged
  <2>1. Replaceable(ps) \in SUBSET Projects BY <1>2, <1>3
  <2> HIDE DEF ps
  <2> QED BY <1>1, <2>1 DEF Recs
<1>5. rec' = [rec EXCEPT ![s] = r] BY DEF ImportReads
<1>6. Link(snd[s], r, wrote[s]) BY <1>1, <1>4 DEF Link
<1>7. Active(r) => Active(rec[s]) BY <1>4 DEF Active
<1>8. blind = {} => Moves(snd[s], r)
  <2> SUFFICES ASSUME blind = {}, "jobs" \in rec[s].staged, NEW p \in Replaceable(ps)
      PROVE  Old(p) \in snd[s].rows
    BY <1>4 DEF Moves
  <2>1. p \in ps /\ p \in Projects /\ p \in snd[s].plan BY <1>2, <1>3
  <2>2. snd[s].seq > 3 BY <1>1 DEF Link
  <2>3. js = snd[s].rows BY DEF Staged
  <2>4. CASE Old(p) \in jobs["home"] BY <1>1, <2>1, <2>2, <2>4 DEF Reads
  <2>5. CASE Old(p) \in jobs["there"]
    <3>1. p \in there BY <2>1, <2>5, OldJobs DEF Inv, Rows
    <3>2. Of(jobs["there"], p) \subseteq js BY <1>1, <2>1, <3>1 DEF CannotReplace
    <3>3. Old(p) \in Of(jobs["there"], p) BY <2>1, <2>5, OldJobs DEF Of
    <3> QED BY <2>3, <3>2, <3>3
  <2> QED BY <2>1, <2>4, <2>5 DEF Inv, Survival, Safe
<1> HIDE DEF r, ps, js
<1> QED BY <1>4, <1>5, <1>6, <1>7, <1>8, RecSteps DEF ImportReads

LEMMA SettleKeeps == ASSUME Inv, NEW s \in Sendings, Settle(s) PROVE Inv'
<1>1. PICK end \in {"done", "failed"} :
        rec' = [rec EXCEPT ![s] = [@ EXCEPT !.state = end, !.staged = {}, !.moving = {},
                                      !.thread = "none"]]
  BY DEF Settle
<1> DEFINE r == [rec[s] EXCEPT !.state = end, !.staged = {}, !.moving = {}, !.thread = "none"]
<1>2. rec[s] \in Recs /\ Link(snd[s], rec[s], wrote[s]) /\ rec[s].thread = "written"
  BY Types DEF Inv, Settle
<1>3. r \in Recs /\ r.state = end /\ r.staged = {} /\ r.thread = "none" BY <1>2 DEF Recs
<1>4. rec' = [rec EXCEPT ![s] = r] BY <1>1
<1> HIDE DEF r
<1>5. Link(snd[s], r, wrote[s]) BY <1>2, <1>3 DEF Link
<1> QED BY <1>3, <1>4, <1>5, RecSteps DEF Settle, Active, Moves

LEMMA LateKeeps == ASSUME Inv, NEW s \in Sendings, Late(s) PROVE Inv'
<1>0. snd[s] \in Snds /\ Link(snd[s], rec[s], wrote[s]) /\ Takes(s)
  BY Types DEF Inv, Late
<1>1. PICK n \in 1..(snd[s].seq - 1) : rec' = [rec EXCEPT ![s] = Accept(s, snd[s], n)]
  BY DEF Late
<1>2. n \in 1..4 /\ snd[s].seq > n /\ snd[s].seq \in Nat BY <1>0 DEF Snds
<1> DEFINE r == Accept(s, snd[s], n)
<1>3. /\ snd[s].at \notin {"idle", "planned", "pairing", "deleting"} /\ snd[s].left = {}
      /\ snd[s].sent \subseteq snd[s].plan /\ (snd[s].at = "sending" => snd[s].seq <= 4)
  BY <1>0, Taking DEF Link
<1>4. /\ r \in Recs /\ Link(snd[s], r, wrote[s]) /\ (Active(r) => Active(rec[s]))
      /\ (r.thread = "writing" => r = rec[s])
  BY <1>0, <1>2, <1>3, Arrives
<1>5. blind = {} => Moves(snd[s], r) BY <1>4 DEF Inv, Survival, Moves
<1> HIDE DEF r
<1> QED BY <1>1, <1>4, <1>5, RecSteps DEF Late, r

LEMMA StartKeeps == ASSUME Inv, NEW s \in Sendings, Start(s) PROVE Inv'
<1> DEFINE q == [snd[s] EXCEPT !.at = "planned", !.plan = home]
<1>1. /\ snd[s] \in Snds /\ rec[s] \in Recs /\ Link(snd[s], rec[s], wrote[s])
      /\ snd[s].at = "idle" /\ home \subseteq Projects /\ snd[s].sent = {}
  BY Types DEF Inv, Start, Link
<1>2. /\ q \in Snds /\ q.at = "planned" /\ q.seq = snd[s].seq /\ q.left = snd[s].left
      /\ q.sent = snd[s].sent
  BY <1>1 DEF Snds, SenderPoint
<1>3. snd' = [snd EXCEPT ![s] = q] /\ UNCHANGED <<sides, desk>> BY DEF Start
<1>4. rec' = [rec EXCEPT ![s] = rec[s]] BY <1>3, Types DEF Inv, desk
<1> HIDE DEF q
<1>5. snd[s].seq = 1 /\ rec[s].state = "none" BY <1>1 DEF Link
<1>6. Link(q, rec[s], wrote[s]) /\ Reads(q) BY <1>1, <1>2, <1>5 DEF Link, Reads
<1>7. Moves(q, rec[s]) BY <1>1, <1>5 DEF Moves, Link
<1> QED BY <1>1, <1>2, <1>3, <1>4, <1>6, <1>7, OneSteps DEF desk, Inv, TypeOK

LEMMA AnsweredKeeps == ASSUME Inv, NEW s \in Sendings, Answered(s) PROVE Inv'
<1>0. /\ snd[s] \in Snds /\ rec[s] \in Recs /\ Link(snd[s], rec[s], wrote[s]) /\ Reads(snd[s])
      /\ snd[s].at = "finishing" /\ rec[s].thread = "none" /\ wrote[s] \subseteq Projects
  BY Types DEF Inv, Answered
<1>1. PICK at \in (IF rec[s].state = "done" THEN {"done", "deleting"} ELSE {"failed"}) :
        snd' = [snd EXCEPT ![s] =
                 [@ EXCEPT !.at = at,
                           !.left = IF at = "deleting" THEN snd[s].plan \cap wrote[s] ELSE {}]]
  BY DEF Answered
<1> DEFINE left == IF at = "deleting" THEN snd[s].plan \cap wrote[s] ELSE {}
           q == [snd[s] EXCEPT !.at = at, !.left = left]
<1>2. /\ at \in {"done", "deleting", "failed"} /\ (at = "deleting" => rec[s].state = "done")
  BY <1>1
<1>3. left \in SUBSET Projects /\ left \subseteq wrote[s] /\ (left /= {} => at = "deleting")
  BY <1>0
<1> HIDE DEF left
<1>4. /\ q \in Snds /\ q.at = at /\ q.left = left /\ q.seq = snd[s].seq /\ q.plan = snd[s].plan
      /\ q.sent = snd[s].sent /\ q.rows = snd[s].rows
  BY <1>0, <1>2, <1>3 DEF Snds, SenderPoint
<1>5. snd' = [snd EXCEPT ![s] = q] BY <1>1 DEF left
<1> HIDE DEF q
<1>6. rec' = [rec EXCEPT ![s] = rec[s]] BY Types DEF Inv, Answered, desk
<1>7. Link(q, rec[s], wrote[s]) /\ Reads(q) BY <1>0, <1>2, <1>3, <1>4 DEF Link, Reads
<1>8. Moves(q, rec[s]) BY <1>0 DEF Moves
<1> QED BY <1>0, <1>4, <1>5, <1>6, <1>7, <1>8, OneSteps DEF Answered, desk, Inv, TypeOK

\* The desk is taken: what was arriving is over.
LEMMA ReplaceKeeps == ASSUME Inv, NEW s \in Sendings, Replace(s) PROVE Inv'
<1> DEFINE r == [rec[s] EXCEPT !.state = "replacing"]
<1>1. /\ rec[s] \in Recs /\ Link(snd[s], rec[s], wrote[s]) /\ rec[s].state = "paired"
      /\ DeskFree /\ Importing = {} /\ UNCHANGED <<sides, snd, offers, made, wrote, blind>>
  BY Types DEF Inv, Replace
<1>2. /\ r \in Recs /\ r.state = "replacing" /\ r.staged = rec[s].staged
      /\ r.listed = rec[s].listed /\ r.thread = rec[s].thread /\ r.replaced = rec[s].replaced
  BY <1>1 DEF Recs
<1>3. rec'[s] = r /\ \A t \in Sendings : t /= s => rec'[t] = Replaced(t) BY DEF Replace
<1> HIDE DEF r
<1>4. ASSUME NEW t \in Sendings, t /= s
      PROVE  /\ rec'[t] \in Recs /\ Link(snd[t], rec'[t], wrote[t]) /\ ~ Active(rec'[t])
             /\ (Moves(snd[t], rec[t]) => Moves(snd[t], rec'[t]))
  <2>1. rec[t] \in Recs /\ Link(snd[t], rec[t], wrote[t]) BY Types DEF Inv
  <2>2. CASE rec[t].listed /\ rec[t].state = "receiving"
    <3> DEFINE f == [rec[t] EXCEPT !.state = "failed", !.replaced = TRUE]
    <3>1. rec'[t] = f BY <1>3, <1>4, <2>2 DEF Replaced
    <3>2. /\ f \in Recs /\ f.state = "failed" /\ f.replaced /\ f.listed = rec[t].listed
          /\ f.staged = rec[t].staged /\ f.thread = rec[t].thread
      BY <2>1 DEF Recs
    <3> HIDE DEF f
    <3> QED BY <2>1, <2>2, <3>1, <3>2 DEF Link, Active, Moves
  <2>3. CASE ~ (rec[t].listed /\ rec[t].state = "receiving")
    <3>1. rec'[t] = rec[t] BY <1>3, <1>4, <2>3 DEF Replaced
    <3>2. ~ (rec[t].listed /\ rec[t].state = "importing") /\ rec[t].state /= "replacing"
      BY <1>1 DEF Importing, DeskFree
    <3> QED BY <2>1, <2>3, <3>1, <3>2 DEF Active
  <2> QED BY <2>2, <2>3
<1>5. Link(snd[s], r, wrote[s]) BY <1>1, <1>2 DEF Link
<1>6. TypeOK'
  <2>1. rec' = [t \in Sendings |-> rec'[t]] BY DEF Replace
  <2>2. rec' \in [Sendings -> Recs] BY <1>2, <1>3, <1>4, <2>1
  <2> QED BY <1>1, <2>2, FourParts DEF Inv, TypeOK, Recs, sides
<1>7. Survival'
  <2>1. Moves(snd[s], r) BY <1>1, <1>2 DEF Moves, Link
  <2> QED BY <1>1, <1>3, <1>4, <2>1 DEF Inv, Survival, Safe, sides
<1>8. (\A t, u \in Sendings : Active(rec[t]) /\ Active(rec[u]) => t = u)' BY <1>4
<1> QED BY <1>1, <1>3, <1>4, <1>5, <1>6, <1>7, <1>8 DEF Inv, Rows, Reads, sides

\* The new transfer is listed, and the files of those it replaced have gone.
LEMMA RegisterKeeps == ASSUME Inv, NEW s \in Sendings, Register(s) PROVE Inv'
<1>0. PICK at \in {"failed"} \cup (IF rec[s].opens THEN {"sending"} ELSE {}) :
        snd' = [snd EXCEPT ![s] = [@ EXCEPT !.at = at]]
  BY DEF Register
<1> DEFINE q == [snd[s] EXCEPT !.at = at]
           r == [rec[s] EXCEPT !.state = "receiving", !.listed = TRUE]
<1>1. /\ snd[s] \in Snds /\ rec[s] \in Recs /\ Link(snd[s], rec[s], wrote[s])
      /\ rec[s].state = "replacing" /\ snd[s].at = "pairing" /\ at \in {"sending", "failed"}
      /\ UNCHANGED <<sides, made, wrote, blind>> /\ offers' = {}
  BY Types DEF Inv, Register, Link
<1>2. /\ q \in Snds /\ q.at = at /\ q.seq = snd[s].seq /\ q.left = snd[s].left
      /\ q.sent = snd[s].sent /\ q.plan = snd[s].plan /\ q.rows = snd[s].rows
  BY <1>1 DEF Snds, SenderPoint
<1>3. /\ r \in Recs /\ r.state = "receiving" /\ r.listed /\ r.staged = rec[s].staged
      /\ r.thread = rec[s].thread
  BY <1>1 DEF Recs
<1>4. snd' = [snd EXCEPT ![s] = q] BY <1>0
<1>5. /\ snd'[s] = q /\ rec'[s] = r
      /\ \A t \in Sendings : t /= s =>
           /\ snd'[t] = snd[t]
           /\ rec'[t] = IF rec[t].replaced THEN [rec[t] EXCEPT !.staged = {}] ELSE rec[t]
  BY <1>4, Types DEF Inv, Register
<1> HIDE DEF q, r
<1>6. ASSUME NEW t \in Sendings, t /= s
      PROVE  /\ rec'[t] \in Recs /\ Link(snd'[t], rec'[t], wrote[t])
             /\ ~ Active(rec'[t]) /\ (Moves(snd[t], rec[t]) => Moves(snd'[t], rec'[t]))
  <2>1. /\ Link(snd[t], rec[t], wrote[t]) /\ rec[t] \in Recs /\ snd'[t] = snd[t]
    BY <1>5, <1>6, Types DEF Inv
  <2>2. ~ Active(rec[t]) BY <1>1, <1>6 DEF Inv, Active
  <2>3. CASE rec[t].replaced
    <3> DEFINE f == [rec[t] EXCEPT !.staged = {}]
    <3>1. rec'[t] = f BY <1>5, <1>6, <2>3
    <3>2. /\ f \in Recs /\ f.staged = {} /\ f.state = rec[t].state /\ f.listed = rec[t].listed
          /\ f.replaced = rec[t].replaced /\ f.thread = rec[t].thread
      BY <2>1 DEF Recs
    <3> HIDE DEF f
    <3> QED BY <2>1, <2>2, <3>1, <3>2 DEF Link, Active, Moves
  <2>4. CASE ~ rec[t].replaced BY <1>5, <1>6, <2>1, <2>2, <2>4
  <2> QED BY <2>3, <2>4
<1>7. Link(q, r, wrote[s]) /\ Reads(q) /\ Moves(q, r)
  BY <1>1, <1>2, <1>3 DEF Link, Reads, Moves
<1>8. snd' \in [Sendings -> Snds] BY <1>2, <1>4, Types DEF Inv
<1>9. rec' \in [Sendings -> Recs]
  <2>1. rec' = [t \in Sendings |-> rec'[t]] BY DEF Register
  <2> QED BY <1>3, <1>5, <1>6, <2>1
<1>a. TypeOK' BY <1>1, <1>8, <1>9, FourParts DEF Inv, TypeOK, Snds, Recs, sides
<1>b. Rows' BY <1>1 DEF Inv, Rows, sides
<1>c. Survival' BY <1>1, <1>5, <1>6, <1>7 DEF Inv, Survival, Safe, sides
<1>d. (\A t \in Sendings : Link(snd[t], rec[t], wrote[t]) /\ Reads(snd[t]))'
  BY <1>1, <1>5, <1>6, <1>7 DEF Inv, Reads, sides
<1>e. (\A t, u \in Sendings : Active(rec[t]) /\ Active(rec[u]) => t = u)' BY <1>6
<1> QED BY <1>a, <1>b, <1>c, <1>d, <1>e DEF Inv

\* A sending whose code is being tried, or one that comes to nothing there.
LEMMA Tries ==
  ASSUME Inv, NEW s \in Sendings, NEW at \in SenderPoint, NEW r \in Recs,
         snd[s].at \in {"planned", "pairing"}, snd' = [snd EXCEPT ![s] = [@ EXCEPT !.at = at]],
         rec' = [rec EXCEPT ![s] = r], offers' \subseteq Codes,
         UNCHANGED <<sides, made, wrote, blind>>,
         r.staged = {}, r.thread = "none", ~ r.listed, ~ r.replaced,
         \/ at = "pairing" /\ r.state = "paired"
         \/ at = "failed" /\ r.state \in {"none", "forgotten"}
  PROVE  Inv'
<1> DEFINE q == [snd[s] EXCEPT !.at = at]
<1>1. snd[s] \in Snds /\ Link(snd[s], rec[s], wrote[s]) /\ Reads(snd[s]) BY Types DEF Inv
<1>2. /\ q \in Snds /\ q.at = at /\ q.seq = snd[s].seq /\ q.left = snd[s].left
      /\ q.sent = snd[s].sent /\ q.plan = snd[s].plan /\ q.rows = snd[s].rows
  BY <1>1 DEF Snds
<1>3. snd' = [snd EXCEPT ![s] = q] OBVIOUS
<1> HIDE DEF q
<1>4. Link(q, r, wrote[s]) /\ Reads(q) /\ Moves(q, r) BY <1>1, <1>2 DEF Link, Reads, Moves
<1>5. ~ Active(r) BY DEF Active
<1>6. made' \in 0..MaxCodes BY DEF Inv, TypeOK
<1> QED BY <1>2, <1>3, <1>4, <1>5, <1>6, OneSteps

LEMMA PairKeeps == ASSUME Inv, NEW s \in Sendings, Pair(s) PROVE Inv'
<1>0. /\ rec[s] \in Recs /\ snd[s].at = "planned" /\ UNCHANGED sides /\ offers \subseteq Codes
      /\ rec[s].state = "none" /\ rec[s].thread = "none" /\ ~ rec[s].listed /\ ~ rec[s].replaced
      /\ rec[s].staged = {}
  BY Types DEF Inv, Pair, Link
<1>1. CASE snd' = [snd EXCEPT ![s] = Goes(@, "failed")] /\ UNCHANGED desk
  <2>1. rec' = [rec EXCEPT ![s] = rec[s]] BY <1>1, Types DEF Inv, desk
  <2>2. "failed" \in SenderPoint BY DEF SenderPoint
  <2> QED BY <1>0, <1>1, <2>1, <2>2, Tries DEF Goes, desk
<1>2. ASSUME NEW c \in offers, NEW right \in BOOLEAN,
             snd' = [snd EXCEPT ![s] = Goes(@, "pairing")], offers' = offers \ {c},
             rec' = [rec EXCEPT ![s] = [@ EXCEPT !.state = "paired", !.opens = right]],
             UNCHANGED <<made, wrote, blind>>
      PROVE  Inv'
  <2> DEFINE r == [rec[s] EXCEPT !.state = "paired", !.opens = right]
  <2>1. /\ r \in Recs /\ r.state = "paired" /\ r.staged = {} /\ r.thread = "none"
        /\ ~ r.listed /\ ~ r.replaced
    BY <1>0 DEF Recs
  <2>2. rec' = [rec EXCEPT ![s] = r] BY <1>2
  <2> HIDE DEF r
  <2>3. "pairing" \in SenderPoint /\ offers' \subseteq Codes BY <1>0, <1>2 DEF SenderPoint
  <2>4. snd' = [snd EXCEPT ![s] = [@ EXCEPT !.at = "pairing"]] BY <1>2 DEF Goes
  <2>5. UNCHANGED <<sides, made, wrote, blind>> BY <1>0, <1>2
  <2> QED BY <1>0, <2>1, <2>2, <2>3, <2>4, <2>5, Tries
<1> QED BY <1>1, <1>2 DEF Pair

LEMMA RefuseKeeps == ASSUME Inv, NEW s \in Sendings, Refuse(s) PROVE Inv'
<1> DEFINE r == [rec[s] EXCEPT !.state = "forgotten"]
<1>1. /\ rec[s] \in Recs /\ Link(snd[s], rec[s], wrote[s]) /\ rec[s].state = "paired"
      /\ offers \subseteq Codes
  BY Types DEF Inv, Refuse
<1>2. /\ r \in Recs /\ r.state = "forgotten" /\ r.staged = {} /\ r.thread = "none"
      /\ ~ r.listed /\ ~ r.replaced
  BY <1>1 DEF Recs, Link
<1>3. rec' = [rec EXCEPT ![s] = r] BY DEF Refuse
<1> HIDE DEF r
<1>4. snd[s].at = "pairing" /\ "failed" \in SenderPoint BY <1>1 DEF Link, SenderPoint
<1> QED BY <1>1, <1>2, <1>3, <1>4, Tries DEF Refuse

LEMMA DeliverKeeps == ASSUME Inv, NEW s \in Sendings, Deliver(s) PROVE Inv'
<1> DEFINE x == Read(s)
           r == Accept(s, x, x.seq)
           next == IF ~ Accepted(s, r) THEN "failed"
                   ELSE IF x.seq = Last THEN "finishing" ELSE "sending"
           q == [x EXCEPT !.seq = @ + 1, !.at = next]
<1>0. /\ snd[s] \in Snds /\ rec[s] \in Recs /\ Link(snd[s], rec[s], wrote[s])
      /\ snd[s].at = "sending" /\ snd[s].seq \in 1..4
  BY Types DEF Inv, Deliver, Link, Snds
<1>1. /\ x \in Snds /\ x.at = snd[s].at /\ x.seq = snd[s].seq /\ x.plan = snd[s].plan
      /\ x.left = snd[s].left /\ x.sent \subseteq x.plan
  BY <1>0, ReadDoes DEF Inv, Link
<1>2. snd' = [snd EXCEPT ![s] = q] /\ rec' = [rec EXCEPT ![s] = r]
      /\ UNCHANGED <<sides, offers, made, wrote, blind>>
  BY DEF Deliver
<1>3. next \in {"failed", "finishing", "sending"} /\ (next = "sending" => x.seq /= 4)
  BY FourParts
<1> HIDE DEF x, r, next
<1>4. /\ q \in Snds /\ q.seq = snd[s].seq + 1 /\ q.at = next /\ q.left = x.left
      /\ q.plan = x.plan /\ q.rows = x.rows /\ q.sent = x.sent
  <2>1. x.seq + 1 \in 1..5 /\ next \in SenderPoint BY <1>0, <1>1, <1>3 DEF SenderPoint
  <2>2. q \in Snds BY <1>1, <2>1 DEF Snds
  <2> QED BY <1>1, <2>1, <2>2 DEF Snds
<1> HIDE DEF q
<1>5. /\ q.at \notin {"idle", "planned", "pairing", "deleting"} /\ q.left = {}
      /\ q.sent \subseteq q.plan
      /\ (q.at = "sending" => q.seq <= 4) /\ snd[s].at /= "pairing"
  BY <1>0, <1>1, <1>3, <1>4 DEF Link
<1>6. /\ r \in Recs /\ Link(q, r, wrote[s]) /\ (Active(r) => Active(rec[s]))
      /\ (r.thread = "writing" => r = rec[s])
  <2>1. r = Accept(s, x, snd[s].seq) BY <1>1 DEF r
  <2>2. q.seq > snd[s].seq /\ q.seq >= snd[s].seq BY <1>0, <1>4
  <2> QED BY <1>0, <1>4, <1>5, <2>1, <2>2, Arrives
<1>7. Reads(q) BY <1>1, <1>4, ReadsRows DEF x
<1>8. blind = {} => Moves(q, r) BY <1>4, <1>6, KeepsMoving DEF x, Moves
<1> QED BY <1>2, <1>4, <1>6, <1>7, <1>8, OneSteps DEF Inv, TypeOK

LEMMA BreakKeeps == ASSUME Inv, NEW s \in Sendings, Break(s) PROVE Inv'
<1> DEFINE x == Read(s)
           q == [x EXCEPT !.at = "failed", !.seq = IF @ > Last THEN @ ELSE @ + 1]
<1>0. /\ snd[s] \in Snds /\ rec[s] \in Recs /\ Link(snd[s], rec[s], wrote[s])
      /\ snd[s].at \in {"sending", "finishing"} /\ snd[s].seq \in 1..5
      /\ (snd[s].at = "sending" => snd[s].seq \in 1..4)
  BY Types DEF Inv, Break, Link, Snds
<1>1. /\ x \in Snds /\ x.at = snd[s].at /\ x.seq = snd[s].seq /\ x.plan = snd[s].plan
      /\ x.left = snd[s].left /\ x.sent \subseteq x.plan
  BY <1>0, ReadDoes DEF Inv, Link
<1>2. snd' = [snd EXCEPT ![s] = q] /\ UNCHANGED <<sides, offers, made, wrote, blind>>
  BY DEF Break
<1>3. PICK a \in {rec[s]} \cup (IF snd[s].at = "sending" THEN {Accept(s, x, x.seq)} ELSE {}) :
        \/ rec' = [rec EXCEPT ![s] = a]
        \/ /\ a.listed /\ a.state = "receiving" /\ a.thread = "none"
           /\ rec' = [rec EXCEPT ![s] = Failed(a)]
  BY DEF Break
<1> HIDE DEF x
<1>4. /\ q \in Snds /\ q.at = "failed" /\ q.left = x.left /\ q.plan = x.plan /\ q.rows = x.rows
      /\ q.sent = x.sent /\ q.seq = IF snd[s].seq > 4 THEN snd[s].seq ELSE snd[s].seq + 1
  <2> DEFINE m == IF x.seq > Last THEN x.seq ELSE x.seq + 1
  <2>1. m \in 1..5 /\ "failed" \in SenderPoint /\ (x.seq > Last <=> snd[s].seq > 4)
    BY <1>0, <1>1, FourParts DEF SenderPoint
  <2>2. q = [x EXCEPT !.at = "failed", !.seq = m] BY <1>1 DEF Snds
  <2> HIDE DEF q, m
  <2>3. q \in Snds BY <1>1, <2>1, <2>2 DEF Snds
  <2>4. q.seq = m BY <1>1, <2>2 DEF Snds
  <2> QED BY <1>1, <2>1, <2>2, <2>3, <2>4 DEF Snds, m
<1> HIDE DEF q
<1>5. /\ q.at \notin {"idle", "planned", "pairing", "deleting"} /\ q.left = {}
      /\ q.sent \subseteq q.plan
      /\ (q.at = "sending" => q.seq <= 4) /\ q.seq >= snd[s].seq /\ snd[s].at /= "pairing"
  BY <1>0, <1>1, <1>4 DEF Link
<1>6. /\ a \in Recs /\ Link(q, a, wrote[s]) /\ (Active(a) => Active(rec[s]))
      /\ (a.thread = "writing" => a = rec[s])
  <2>1. CASE snd[s].at = "sending"
    <3>1. a = Accept(s, x, snd[s].seq) \/ a = rec[s] BY <1>1, <1>3, <2>1
    <3>2. q.seq > snd[s].seq /\ snd[s].seq \in 1..4 BY <1>0, <1>4, <2>1
    <3> QED BY <1>4, <1>5, <3>1, <3>2, Arrives
  <2>2. CASE snd[s].at = "finishing"
    <3>1. a = rec[s] BY <1>3, <2>2
    <3>2. q.seq > 1 BY <1>0, <1>4
    <3> QED BY <1>4, <1>5, <3>1, <3>2, Arrives
  <2> QED BY <1>0, <2>1, <2>2
<1>7. Reads(q)
  <2>1. q.seq = snd[s].seq \/ q.seq = snd[s].seq + 1 BY <1>4
  <2>2. q.seq = snd[s].seq => snd[s].seq /= 3 BY <1>0, <1>4
  <2> QED BY <1>1, <1>4, <2>1, <2>2, ReadsRows DEF x
<1>8. blind = {} => Moves(q, a) BY <1>4, <1>6, KeepsMoving DEF x, Moves
<1>9. /\ offers' \subseteq Codes /\ made' \in 0..MaxCodes
  BY <1>2 DEF Inv, TypeOK
<1>a. CASE rec' = [rec EXCEPT ![s] = a]
  BY <1>2, <1>4, <1>6, <1>7, <1>8, <1>9, <1>a, OneSteps
<1>b. CASE /\ a.listed /\ a.state = "receiving" /\ a.thread = "none"
           /\ rec' = [rec EXCEPT ![s] = Failed(a)]
  <2>1. /\ Failed(a) \in Recs /\ Failed(a).state = "failed" /\ Failed(a).staged = {}
        /\ Failed(a).thread = "none" /\ Failed(a).listed
    BY <1>6, <1>b, FailedDoes
  <2>2. Link(q, Failed(a), wrote[s]) BY <1>5, <1>6, <2>1 DEF Link
  <2>3. ~ Active(Failed(a)) /\ Moves(q, Failed(a)) BY <2>1 DEF Active, Moves
  <2> QED BY <1>2, <1>4, <1>7, <1>9, <1>b, <2>1, <2>2, <2>3, OneSteps
<1> QED BY <1>3, <1>a, <1>b

\* What a transfer writes leaves the first developments where they are, if it has not lost
\* its rows.
LEMMA WriteKeeps == ASSUME Inv, NEW s \in Sendings, Write(s) PROVE Inv'
<1> DEFINE ps == rec[s].moving
           js == {j \in Staged(s, "jobs", snd[s].rows) : j[1] \in ps}
           r == [rec[s] EXCEPT !.thread = "written"]
<1>0. /\ snd[s] \in Snds /\ rec[s] \in Recs /\ Link(snd[s], rec[s], wrote[s])
      /\ rec[s].thread = "writing" /\ ps \subseteq Projects
  BY Types DEF Inv, Write, Recs
<1>1. /\ there' = there \cup ps /\ wrote' = [wrote EXCEPT ![s] = ps]
      /\ jobs' = [jobs EXCEPT !["there"] = {j \in @ : j[1] \notin ps} \cup js]
      /\ running' = [running EXCEPT !["there"] = {j \in @ : j[1] \notin ps}]
      /\ blind' = IF ps /= {} /\ "jobs" \notin rec[s].staged THEN blind \cup {s} ELSE blind
      /\ rec' = [rec EXCEPT ![s] = r]
      /\ UNCHANGED <<home, born, snd, offers, made>>
  BY DEF Write
<1>2. /\ r \in Recs /\ r.thread = "written" /\ r.state = rec[s].state /\ r.staged = rec[s].staged
      /\ r.listed = rec[s].listed /\ r.moving = rec[s].moving /\ r.replaced = rec[s].replaced
  BY <1>0 DEF Recs
<1>3. js \subseteq Jobs /\ js \subseteq snd[s].rows /\ \A j \in js : j[1] \in ps
  BY <1>0 DEF Staged, Snds
<1>4. /\ jobs'["home"] = jobs["home"]
      /\ jobs'["there"] = {j \in jobs["there"] : j[1] \notin ps} \cup js
  BY <1>1, Types DEF Inv, Side
<1>5. /\ rec'[s] = r /\ wrote'[s] = ps
      /\ \A t \in Sendings : t /= s => rec'[t] = rec[t] /\ wrote'[t] = wrote[t]
  BY <1>1, Types DEF Inv
<1> HIDE DEF r, js, ps
<1>6. TypeOK'
  <2>1. /\ jobs' \in [Side -> SUBSET Jobs] /\ running' \in [Side -> SUBSET Jobs]
    BY <1>1, <1>3 DEF Inv, TypeOK, Side
  <2>2. /\ there' \subseteq Projects /\ wrote' \in [Sendings -> SUBSET Projects]
        /\ blind' \subseteq Sendings
    BY <1>0, <1>1 DEF Inv, TypeOK
  <2>3. rec' \in [Sendings -> Recs] BY <1>1, <1>2, Types DEF Inv
  <2> QED BY <1>1, <2>1, <2>2, <2>3, FourParts DEF Inv, TypeOK, Recs
<1>7. Rows' BY <1>1, <1>3, <1>4 DEF Inv, Rows
<1>8. Survival'
  <2> SUFFICES ASSUME blind' = {}
      PROVE  /\ \A p \in Projects : Safe(p)'
             /\ \A t \in Sendings : Moves(snd[t], rec[t])'
             /\ \A t \in Sendings : \A p \in wrote'[t] : Old(p) \in jobs'["there"]
    BY <1>1 DEF Survival
  <2>1. blind = {} /\ (ps = {} \/ "jobs" \in rec[s].staged) BY <1>1
  <2>2. \A p \in ps : Old(p) \in js
    <3> SUFFICES ASSUME NEW p \in ps PROVE Old(p) \in js OBVIOUS
    <3>1. "jobs" \in rec[s].staged BY <2>1
    <3>2. Old(p) \in snd[s].rows BY <1>0, <2>1, <3>1 DEF Inv, Survival, Moves, ps
    <3>3. Old(p)[1] = p BY <1>0, OldJobs
    <3> QED BY <3>1, <3>2, <3>3 DEF js, Staged
  <2>3. \A p \in Projects : Old(p) \in jobs["there"] => Old(p) \in jobs'["there"]
    BY <1>4, <2>2, OldJobs
  <2>4. \A p \in Projects : Safe(p)' BY <1>4, <2>1, <2>3 DEF Inv, Survival, Safe
  <2>5. \A t \in Sendings : Moves(snd[t], rec[t])'
    BY <1>1, <1>2, <1>5, <2>1 DEF Inv, Survival, Moves
  <2>6. \A t \in Sendings : \A p \in wrote'[t] : Old(p) \in jobs'["there"]
    <3>1. \A t \in Sendings : wrote[t] \subseteq Projects BY Types DEF Inv
    <3> QED BY <1>4, <1>5, <2>1, <2>2, <2>3, <3>1 DEF Inv, Survival
  <2> QED BY <2>4, <2>5, <2>6
<1>9. (\A t \in Sendings : Link(snd[t], rec[t], wrote[t]) /\ Reads(snd[t]))'
  <2>1. Link(snd[s], r, ps) BY <1>0, <1>2 DEF Link
  <2> QED BY <1>1, <1>4, <1>5, <2>1 DEF Inv, Reads
<1>a. (\A t, u \in Sendings : Active(rec[t]) /\ Active(rec[u]) => t = u)'
  <2>1. Active(r) => Active(rec[s]) BY <1>0, <1>2 DEF Active
  <2> QED BY <1>5, <2>1 DEF Inv
<1> QED BY <1>6, <1>7, <1>8, <1>9, <1>a DEF Inv

\* What is deleted at the sender was written at the receiver, and is there still.
LEMMA DeleteKeeps == ASSUME Inv, NEW s \in Sendings, Delete(s) PROVE Inv'
<1>0. /\ snd[s] \in Snds /\ rec[s] \in Recs /\ Link(snd[s], rec[s], wrote[s]) /\ Reads(snd[s])
      /\ snd[s].at = "deleting" /\ wrote[s] \subseteq Projects
  BY Types DEF Inv, Delete
<1>1. ASSUME NEW p \in snd[s].left, snd' = [snd EXCEPT ![s] = [@ EXCEPT !.left = snd[s].left \ {p}]],
             UNCHANGED <<there, born, desk>>,
             \/ /\ home' = home \ {p}
                /\ jobs' = [jobs EXCEPT !["home"] = {j \in @ : j[1] /= p}]
                /\ running' = [running EXCEPT !["home"] = {j \in @ : j[1] /= p}]
             \/ UNCHANGED <<home, jobs, running>>
      PROVE  Inv'
  <2> DEFINE q == [snd[s] EXCEPT !.left = snd[s].left \ {p}]
  <2>1. /\ q \in Snds /\ q.at = "deleting" /\ q.left = snd[s].left \ {p} /\ q.seq = snd[s].seq
        /\ q.sent = snd[s].sent /\ q.plan = snd[s].plan /\ q.rows = snd[s].rows
    BY <1>0 DEF Snds
  <2>2. snd'[s] = q /\ \A t \in Sendings : t /= s => snd'[t] = snd[t]
    BY <1>1, Types DEF Inv
  <2>3. snd' \in [Sendings -> Snds]
    <3>1. snd' = [snd EXCEPT ![s] = q] BY <1>1
    <3> HIDE DEF q
    <3> QED BY <2>1, <3>1, Types DEF Inv
  <2> HIDE DEF q
  <2>4. /\ jobs' \in [Side -> SUBSET Jobs] /\ running' \in [Side -> SUBSET Jobs]
        /\ home' \subseteq home /\ jobs'["there"] = jobs["there"]
        /\ jobs'["home"] \subseteq jobs["home"]
        /\ \A j \in jobs["home"] : j \notin jobs'["home"] => j[1] = p
    BY <1>1 DEF Inv, TypeOK, Side
  <2>5. UNCHANGED <<offers, made, rec, wrote, blind, there, born>> BY <1>1 DEF desk
  <2>6. TypeOK' BY <2>3, <2>4, <2>5, FourParts DEF Inv, TypeOK, Snds
  <2>7. Rows' BY <2>4, <2>5 DEF Inv, Rows
  <2>8. Survival'
    <3>1. p \in wrote[s] /\ p \in Projects BY <1>0 DEF Link
    <3>2. blind = {} => \A o \in Projects : Safe(o)'
      <4> SUFFICES ASSUME blind = {}, NEW o \in Projects PROVE Safe(o)' OBVIOUS
      <4>1. CASE o = p BY <2>4, <3>1, <4>1 DEF Inv, Survival, Safe
      <4>2. CASE o /= p BY <2>4, <4>2, OldJobs DEF Inv, Survival, Safe
      <4> QED BY <4>1, <4>2
    <3>3. blind = {} => \A t \in Sendings : Moves(snd[t], rec[t])'
      BY <2>1, <2>2, <2>5 DEF Inv, Survival, Moves
    <3> QED BY <2>4, <2>5, <3>2, <3>3 DEF Inv, Survival
  <2>9. (\A t \in Sendings : Link(snd[t], rec[t], wrote[t]) /\ Reads(snd[t]))'
    <3>1. Link(q, rec[s], wrote[s]) BY <1>0, <2>1 DEF Link
    <3>2. \A t \in Sendings : snd'[t].seq = snd[t].seq /\ snd'[t].plan = snd[t].plan
                              /\ snd'[t].rows = snd[t].rows
      BY <2>1, <2>2
    <3> QED BY <2>2, <2>4, <2>5, <3>1, <3>2 DEF Inv, Reads
  <2> QED BY <2>5, <2>6, <2>7, <2>8, <2>9 DEF Inv
<1>2. ASSUME snd[s].left = {}, snd' = [snd EXCEPT ![s] = Goes(@, "done")],
             UNCHANGED <<sides, desk>>
      PROVE  Inv'
  <2> DEFINE q == Goes(snd[s], "done")
  <2>1. /\ q \in Snds /\ q.at = "done" /\ q.left = {} /\ q.seq = snd[s].seq
        /\ q.sent = snd[s].sent /\ q.plan = snd[s].plan /\ q.rows = snd[s].rows
    BY <1>0, <1>2 DEF Goes, Snds, SenderPoint
  <2>2. snd' = [snd EXCEPT ![s] = q] /\ rec' = [rec EXCEPT ![s] = rec[s]]
    BY <1>2, Types DEF Inv, desk
  <2> HIDE DEF q
  <2>3. Link(q, rec[s], wrote[s]) /\ Reads(q) BY <1>0, <2>1 DEF Link, Reads
  <2>4. Moves(q, rec[s]) BY <1>0 DEF Link, Moves
  <2> QED BY <1>0, <1>2, <2>1, <2>2, <2>3, <2>4, OneSteps DEF desk, Inv, TypeOK
<1> QED BY <1>1, <1>2 DEF Delete, sides

\* A server started again knows no transfer.
LEMMA RestartKeeps == ASSUME Inv, ReceiverRestarts PROVE Inv'
<1>0. \A t \in Sendings : /\ rec[t] \in Recs /\ snd[t] \in Snds /\ Link(snd[t], rec[t], wrote[t])
                          /\ Reads(snd[t])
  BY Types DEF Inv
<1>1. UNCHANGED <<sides, made, wrote, blind>> /\ offers' = {} BY DEF ReceiverRestarts
<1>2. ASSUME NEW t \in Sendings
      PROVE  /\ snd'[t] \in Snds /\ snd'[t].seq = snd[t].seq /\ snd'[t].rows = snd[t].rows
             /\ snd'[t].plan = snd[t].plan /\ snd'[t].sent = snd[t].sent
             /\ snd'[t].left = snd[t].left
             /\ snd'[t].at = IF snd[t].at = "pairing" THEN "failed" ELSE snd[t].at
  BY <1>0 DEF ReceiverRestarts, Snds, SenderPoint
<1>3. ASSUME NEW t \in Sendings
      PROVE  /\ rec'[t] \in Recs /\ Link(snd'[t], rec'[t], wrote[t]) /\ ~ Active(rec'[t])
             /\ (Moves(snd[t], rec[t]) => Moves(snd'[t], rec'[t]))
  <2>1. CASE rec[t].state = "none"
    <3>1. rec'[t] = rec[t] BY <2>1 DEF ReceiverRestarts
    <3> QED BY <1>0, <1>2, <2>1, <3>1 DEF Link, Active, Moves
  <2>2. CASE rec[t].state /= "none"
    <3> DEFINE f == [rec[t] EXCEPT !.thread = "none"]
    <3>1. f \in Recs /\ f.thread = "none" BY <1>0 DEF Recs
    <3>2. rec'[t] = Forgotten(f) BY <2>2 DEF ReceiverRestarts
    <3> HIDE DEF f
    <3>3. /\ rec'[t] \in Recs /\ rec'[t].staged = {} /\ ~ rec'[t].listed
          /\ rec'[t].thread = "none" /\ rec'[t].state = "forgotten"
      BY <3>1, <3>2, ForgottenDoes
    <3> QED BY <1>0, <1>2, <2>2, <3>3 DEF Link, Active, Moves
  <2> QED BY <2>1, <2>2
<1>4. rec' \in [Sendings -> Recs] /\ snd' \in [Sendings -> Snds]
  <2>1. /\ rec' = [t \in Sendings |-> rec'[t]] /\ snd' = [t \in Sendings |-> snd'[t]]
    BY DEF ReceiverRestarts
  <2> QED BY <1>2, <1>3, <2>1
<1>5. TypeOK' BY <1>1, <1>4, FourParts DEF Inv, TypeOK, Recs, Snds, sides
<1>6. Survival' BY <1>1, <1>3 DEF Inv, Survival, Safe, sides
<1>7. (\A t \in Sendings : Link(snd[t], rec[t], wrote[t]) /\ Reads(snd[t]))'
  BY <1>0, <1>1, <1>2, <1>3 DEF Reads, sides
<1>8. (\A t, u \in Sendings : Active(rec[t]) /\ Active(rec[u]) => t = u)' BY <1>3
<1> QED BY <1>1, <1>5, <1>6, <1>7, <1>8 DEF Inv, Rows, sides

LEMMA Keeps == Inv /\ [Next]_vars => Inv'
<1> SUFFICES ASSUME Inv, [Next]_vars PROVE Inv' OBVIOUS
<1>1. ASSUME NEW side \in Side, Work(side) \/ Rest(side) PROVE Inv' BY <1>1, WorkKeeps
<1>2. CASE Offer \/ Expire \/ Withdraw BY <1>2, CodesKeep
<1>3. CASE ReceiverRestarts BY <1>3, RestartKeeps
<1>4. ASSUME NEW s \in Sendings,
             \/ Start(s) \/ Pair(s) \/ Deliver(s) \/ Break(s) \/ Late(s) \/ Answered(s)
             \/ Delete(s) \/ Replace(s) \/ Register(s) \/ Refuse(s) \/ Sweep(s)
             \/ ImportBegins(s) \/ ImportRefused(s) \/ ImportReads(s) \/ ImportFails(s)
             \/ Write(s) \/ Settle(s)
      PROVE  Inv'
  BY <1>4, StartKeeps, PairKeeps, DeliverKeeps, BreakKeeps, LateKeeps, AnsweredKeeps,
     DeleteKeeps, ReplaceKeeps, RegisterKeeps, RefuseKeeps, SweepKeeps, RefusedKeeps, BeginsKeeps,
     ReadsKeeps, FailsKeeps, WriteKeeps, SettleKeeps
<1>5. CASE UNCHANGED vars
  BY <1>5 DEF vars, sides, desk, Inv, TypeOK, Rows, Survival, Safe, Moves, Reads
<1> QED BY <1>1, <1>2, <1>3, <1>4, <1>5 DEF Next

\* The inductive invariant holds for any number of transfers, projects and restarts.
THEOREM InvHolds == Spec => []Inv
<1> QED BY Starts, Keeps, PTL DEF Spec

\* A development that was there before anything moved is on one of the two servers, unless
\* a transfer lost its staged rows to the desk while it was writing (send, import_transfer).
THEOREM OldWorkIsKept == Spec => []OldWorkSurvives
<1>1. Inv => OldWorkSurvives BY DEF Inv, Survival, Safe, Old, OldWorkSurvives, Lost
<1> QED BY <1>1, InvHolds, PTL

\* Two transfers the desk has not replaced never write projects of one account at a time
\* (Desk.pair, accept).
THEOREM OneWriterHolds == Spec => []OneWriter
<1>1. Inv => OneWriter BY DEF Inv, Link, Active, Writes, OneWriter
<1> QED BY <1>1, InvHolds, PTL

\* The sender deletes only what some transfer wrote at the receiver (send).
THEOREM OnlyWrittenIsDeleted == Spec => DeletedOnlyWhenWritten
<1> DEFINE Written == \A p \in home \ home' : \E s \in Sendings : p \in wrote[s]
<1>1. Inv /\ [Next]_vars => [Written]_vars
  <2> SUFFICES ASSUME Inv, Next PROVE Written OBVIOUS
  <2>1. ASSUME NEW p \in home \ home', NEW s \in Sendings, Delete(s)
        PROVE  p \in wrote[s]
    BY <2>1 DEF Delete, Inv, Link
  <2>2. (\A s \in Sendings : ~ Delete(s)) => home' = home
    BY DEF Next, Work, Rest, Offer, Expire, Withdraw, ReceiverRestarts, Start, Pair, Deliver,
           Break, Late, Answered, Replace, Register, Refuse, Sweep, ImportBegins, ImportRefused,
           ImportReads, ImportFails, Write, Settle,
           sides
  <2> QED BY <2>1, <2>2
<1> QED BY <1>1, InvHolds, PTL DEF Spec, DeletedOnlyWhenWritten
=============================================================================
