------------------------------- MODULE Prompts -------------------------------
(***************************************************************************)
(* The questions a development puts to people in their chats.  When it     *)
(* arrives at a gate, or fails, the run loop writes a question for every   *)
(* linked chat of somebody who may answer; a press there does what the     *)
(* button of the web page does.  A question carries the marker of the      *)
(* visit it is about, is answered by whoever moves its row first, and is   *)
(* closed when the development moves on.                                   *)
(*                                                                         *)
(* The presses are handled by the listeners' threads -- one for a service, *)
(* the one it replaces still at its last update, a pool for Teams -- each  *)
(* a sequence of reads and commits of its own, beside the run loop, the    *)
(* web page and the people who link and unlink their accounts.             *)
(***************************************************************************)
EXTENDS Integers, FiniteSets, Sequences

CONSTANTS
  Handlers,      \* threads that handle what the chat services deliver
  Owner,         \* whose account it is
  Members,       \* the people on its agents
  Telegram,      \* the accounts of people on one chat service
  Slack,         \* and on another
  Gates,
  MemberGates,   \* the gates of the agents the members are on
  MaxVisits,     \* bound: arrivals at a gate or at a failure
  MaxPrompts,    \* bound: questions put
  MaxEvents      \* bound: link codes made and restarts, together

ASSUME PromptsAssumption ==
  /\ Owner \notin Members /\ MemberGates \subseteq Gates
  /\ Telegram \cap Slack = {}
  /\ "failed" \notin Gates /\ "working" \notin Gates /\ "over" \notin Gates
  /\ MaxVisits \in Nat /\ MaxPrompts \in Nat /\ MaxEvents \in Nat

Nobody == "nobody"
People == {Owner} \cup Members
Chats  == Telegram \cup Slack
Service(c) == IF c \in Telegram THEN Telegram ELSE Slack

VARIABLES
  place,      \* where the development is: a gate, failed, working or over
  visits,     \* how many times it has arrived somewhere
  run,        \* the run loop that holds its lock: what it is at, and whom it has yet to ask
  wanted,     \* whether a thread is on its way to run it
  link,       \* whose each chat account is
  code,       \* each person's link code
  made,       \* codes made so far
  prompts,    \* the questions, oldest first
  hand,       \* what each handler is at
  decided,    \* what presses have decided
  late,       \* whether a question was closed by a press that had read an older row
  crashes

job   == <<place, visits, run, wanted>>
links == <<link, code, made>>
vars  == <<job, links, prompts, hand, decided, late, crashes>>

(***************************************************************************)
(* Where a question is about.                                              *)
(***************************************************************************)
Waiting == Gates \cup {"failed"}
Nowhere == [at |-> "nowhere", visit |-> 0]
\* Which visit to which gate, or which failure, the development is at.
Marker  == IF place \in Waiting THEN [at |-> place, visit |-> visits] ELSE Nowhere
Markers == {Nowhere} \cup [at : Waiting, visit : 1..MaxVisits]

Open == {"open", "reason"}
Idle == [at |-> "idle"]
Ids  == DOMAIN prompts

\* Its gate is the owner's, and the member's whose agent it is; a failure the owner's.
MayDecide(u, at) == u = Owner \/ at \in MemberGates

Asked(m) == {c \in Chats : link[c] /= Nobody /\ MayDecide(link[c], m.at)}

Close(ids) == [i \in Ids |-> IF i \in ids THEN [prompts[i] EXCEPT !.status = "closed"] ELSE prompts[i]]
SetStatus(i, s) == [prompts EXCEPT ![i] = [@ EXCEPT !.status = s]]
About(m)        == {i \in Ids : prompts[i].status \in Open /\ prompts[i].marker = m}
NotAbout(m)     == {i \in Ids : prompts[i].status \in Open /\ prompts[i].marker /= m}

Init ==
  /\ place = "working" /\ visits = 0
  /\ run = [at |-> "working", marker |-> Nowhere, ask |-> {}] /\ wanted = FALSE
  /\ link \in {f \in [Chats -> People \cup {Nobody}] :
               \A c, d \in Chats : c /= d /\ Service(c) = Service(d) => f[c] = Nobody \/ f[c] /= f[d]}
  /\ code = [u \in People |-> FALSE] /\ made = 0
  /\ prompts = <<>>
  /\ hand = [h \in Handlers |-> Idle]
  /\ decided = {} /\ late = FALSE /\ crashes = 0

(***************************************************************************)
(* The run loop.                                                           *)
(***************************************************************************)
\* A thread gets the lock, reads the row and closes what is no longer asked.
Enter ==
  /\ wanted /\ run.at = "idle"
  /\ wanted' = FALSE
  /\ run' = [run EXCEPT !.at = IF place = "working" THEN "working" ELSE "idle"]
  /\ prompts' = Close(NotAbout(Marker))
  /\ UNCHANGED <<place, visits, links, hand, decided, late, crashes>>

\* A step ends at a gate, or fails: whom to ask is read once.
Arrive ==
  /\ run.at = "working" /\ place = "working" /\ visits < MaxVisits
  /\ \E at \in Waiting :
       LET m == [at |-> at, visit |-> visits + 1] IN
       /\ place' = at /\ visits' = visits + 1
       /\ run' = [at |-> "asking", marker |-> m,
                  ask |-> {<<c, link[c]>> : c \in Asked(m)}]
  /\ UNCHANGED <<wanted, links, prompts, hand, decided, late, crashes>>

\* One chat after the other; a message the service refuses is a row closed at once,
\* which nothing looks at again.
Ask ==
  /\ run.at = "asking" /\ Len(prompts) < MaxPrompts
  /\ \E a \in run.ask :
       /\ \/ prompts' = Append(prompts, [chat |-> a[1], user |-> a[2], marker |-> run.marker,
                                         status |-> "open"])
          \/ UNCHANGED prompts
       /\ run' = [run EXCEPT !.ask = @ \ {a}]
  /\ UNCHANGED <<place, visits, wanted, links, hand, decided, late, crashes>>

\* Everybody was asked: on with it if somebody answered meanwhile, a failure ends the run.
Rest ==
  /\ run.at = "asking" /\ (run.ask = {} \/ Len(prompts) = MaxPrompts)
  /\ run' = [at |-> IF place = "working" /\ run.marker.at /= "failed" THEN "working" ELSE "idle",
             marker |-> Nowhere, ask |-> {}]
  /\ UNCHANGED <<place, visits, wanted, links, prompts, hand, decided, late, crashes>>

\* It is over under the run loop, or the loop has nothing to do.
Finish ==
  /\ run.at = "working"
  /\ place' = IF place = "working" THEN "over" ELSE place
  /\ run' = [run EXCEPT !.at = "idle"]
  /\ UNCHANGED <<visits, wanted, links, prompts, hand, decided, late, crashes>>

(***************************************************************************)
(* The web page.                                                           *)
(***************************************************************************)
\* An answer, or a retry, and a thread to run what follows.
WebDecides ==
  /\ place \in Waiting
  /\ place' = "working" /\ wanted' = TRUE
  /\ UNCHANGED <<visits, run, links, prompts, hand, decided, late, crashes>>

\* Nothing runs a cancelled development, so nothing closes its questions.
WebCancels ==
  /\ place \in Gates /\ place' = "over"
  /\ UNCHANGED <<visits, run, wanted, links, prompts, hand, decided, late, crashes>>

NewCode(u) ==
  /\ made + crashes < MaxEvents /\ made' = made + 1
  /\ code' = [code EXCEPT ![u] = TRUE]
  /\ UNCHANGED <<job, link, prompts, hand, decided, late, crashes>>

Unlink(c) ==
  /\ link[c] /= Nobody /\ link' = [link EXCEPT ![c] = Nobody]
  /\ UNCHANGED <<job, code, made, prompts, hand, decided, late, crashes>>

(***************************************************************************)
(* A chat account sends a code: it is spent by being read, and then links. *)
(***************************************************************************)
Redeem(h, c, u) ==
  /\ hand[h] = Idle /\ code[u]
  /\ code' = [code EXCEPT ![u] = FALSE]
  /\ \E alive \in BOOLEAN :
       hand' = [hand EXCEPT ![h] = IF alive THEN [at |-> "linking", chat |-> c, user |-> u] ELSE Idle]
  /\ UNCHANGED <<job, link, made, prompts, decided, late, crashes>>

\* One account per person and service, one person per account.
SaveLink(h) ==
  LET c == hand[h].chat
      u == hand[h].user IN
  /\ hand[h].at = "linking"
  /\ link' = [d \in Chats |-> IF d = c THEN u
                              ELSE IF Service(d) = Service(c) /\ link[d] = u THEN Nobody
                              ELSE link[d]]
  /\ hand' = [hand EXCEPT ![h] = Idle]
  /\ UNCHANGED <<job, code, made, prompts, decided, late, crashes>>

(***************************************************************************)
(* A press, or the reason typed for a rejection.                           *)
(***************************************************************************)
Buttons(at) == IF at = "failed" THEN {"retried"} ELSE {"approved", "rejected"}

\* Whoever the account is linked to must be who was asked.
LinkedAny(p) == link[p.chat] /= Nobody
Linked(p)    == link[p.chat] = p.user

\* What is read: the question, the link, the row, whether this person may decide.
Press(h, i) ==
  LET p == prompts[i] IN
  /\ hand[h] = Idle
  /\ p.status \in Open /\ Linked(p)
  /\ IF p.marker /= Marker
     THEN hand' = [hand EXCEPT ![h] = [at |-> "settling", marker |-> Marker]]
     ELSE /\ MayDecide(link[p.chat], place)
          /\ \E to \in Buttons(place) :
               hand' = [hand EXCEPT ![h] =
                 [at |-> "claiming", prompt |-> i, to |-> to, by |-> link[p.chat]]]
  /\ UNCHANGED <<job, links, prompts, decided, late, crashes>>

\* A rejection must say why first: the question waits for what is typed next, which is
\* pressed as its rejection by Press again.
AskReason(h) ==
  /\ hand[h].at = "claiming" /\ hand[h].to = "rejected"
  /\ prompts[hand[h].prompt].status = "open"
  /\ prompts' = SetStatus(hand[h].prompt, "reason")
  /\ hand' = [hand EXCEPT ![h] = Idle]
  /\ UNCHANGED <<job, links, decided, late, crashes>>

Claimable(to) == IF to = "retried" THEN {"open"} ELSE Open

\* Of two presses of one question, one moves its row on.
ClaimBlind(h) ==
  /\ hand[h].at = "claiming"
  /\ prompts' = SetStatus(hand[h].prompt, hand[h].to)
  /\ hand' = [hand EXCEPT ![h] = [@ EXCEPT !.at = "deciding"]]
  /\ UNCHANGED <<job, links, decided, late, crashes>>
Claim(h) ==
  /\ hand[h].at = "claiming"
  /\ IF prompts[hand[h].prompt].status \in Claimable(hand[h].to)
     THEN /\ prompts' = SetStatus(hand[h].prompt, hand[h].to)
          /\ hand' = [hand EXCEPT ![h] = [@ EXCEPT !.at = "deciding"]]
     ELSE /\ hand' = [hand EXCEPT ![h] = Idle]
          /\ UNCHANGED prompts
  /\ UNCHANGED <<job, links, decided, late, crashes>>

Decides(to) == IF to = "retried" THEN {"failed"} ELSE Gates

\* The engine is told, and reads what the development waits for now.
Decide(h) ==
  /\ hand[h].at = "deciding" /\ place \in Decides(hand[h].to)
  /\ hand' = [hand EXCEPT ![h] = [at |-> "saving", prompt |-> hand[h].prompt, to |-> hand[h].to,
                                  by |-> hand[h].by, gate |-> place]]
  /\ UNCHANGED <<job, links, prompts, decided, late, crashes>>

\* What it makes of that is saved if the row is still where it was read, at this visit or
\* another.  Else the save raises: a retry is given back, an answer ends there.
Save(h) ==
  /\ hand[h].at = "saving"
  /\ IF place = hand[h].gate
     THEN /\ hand' = [hand EXCEPT ![h] = [at |-> "moving", prompt |-> hand[h].prompt, by |-> hand[h].by]]
          /\ UNCHANGED prompts
     ELSE /\ hand' = [hand EXCEPT ![h] = Idle]
          /\ IF hand[h].to = "retried" THEN prompts' = SetStatus(hand[h].prompt, "open")
                                       ELSE UNCHANGED prompts
  /\ UNCHANGED <<job, links, decided, late, crashes>>

\* The row is moved from wherever it has got to since.
Move(h) ==
  /\ hand[h].at = "moving"
  /\ decided' = decided \cup {[prompt |-> hand[h].prompt, by |-> hand[h].by,
                               again |-> \E d \in decided : d.prompt = hand[h].prompt]}
  /\ place' = "working"
  /\ hand' = [hand EXCEPT ![h] = [at |-> "telling", prompt |-> hand[h].prompt]]
  /\ UNCHANGED <<visits, run, wanted, links, prompts, late, crashes>>

\* It waits for nothing a press could answer: the question is closed.
TooLate(h) ==
  /\ hand[h].at = "deciding" /\ place \notin Decides(hand[h].to)
  /\ prompts' = SetStatus(hand[h].prompt, "closed")
  /\ hand' = [hand EXCEPT ![h] = Idle]
  /\ UNCHANGED <<job, links, decided, late, crashes>>

\* The engine refuses -- nothing to approve, a retry that cannot be: asked again.
RefusedForgets(h) ==
  /\ hand[h].at = "deciding" /\ place \in Decides(hand[h].to)
  /\ hand[h].to \in {"approved", "retried"}
  /\ hand' = [hand EXCEPT ![h] = Idle]
  /\ UNCHANGED <<job, links, prompts, decided, late, crashes>>
Refused(h) ==
  /\ hand[h].at = "deciding" /\ place \in Decides(hand[h].to)
  /\ hand[h].to \in {"approved", "retried"}
  /\ prompts' = SetStatus(hand[h].prompt, "open")
  /\ hand' = [hand EXCEPT ![h] = Idle]
  /\ UNCHANGED <<job, links, decided, late, crashes>>

\* Everybody asked about this visit sees how it ended; then it runs on.
Tell(h) ==
  /\ hand[h].at = "telling"
  /\ prompts' = Close(About(prompts[hand[h].prompt].marker))
  /\ wanted' = TRUE
  /\ hand' = [hand EXCEPT ![h] = Idle]
  /\ UNCHANGED <<place, visits, run, links, decided, late, crashes>>

\* A press on a question whose visit is past closes all such, by the row it had read.
SettleAll(h) ==
  /\ hand[h].at = "settling"
  /\ prompts' = Close({i \in Ids : prompts[i].status \in Open})
  /\ hand' = [hand EXCEPT ![h] = Idle]
  /\ UNCHANGED <<job, links, decided, late, crashes>>
Settle(h) ==
  /\ hand[h].at = "settling"
  /\ prompts' = Close(NotAbout(hand[h].marker))
  /\ late' = (late \/ NotAbout(hand[h].marker) \cap About(Marker) /= {})
  /\ hand' = [hand EXCEPT ![h] = Idle]
  /\ UNCHANGED <<job, links, decided, crashes>>

\* A server started again runs what was working; presses under way are gone.
Crash ==
  /\ made + crashes < MaxEvents /\ crashes' = crashes + 1
  /\ run' = [at |-> "idle", marker |-> Nowhere, ask |-> {}]
  /\ wanted' = (place = "working")
  /\ hand' = [h \in Handlers |-> Idle]
  /\ UNCHANGED <<place, visits, links, prompts, decided, late>>

Handle(h) ==
  \/ SaveLink(h) \/ AskReason(h) \/ Claim(h) \/ Decide(h) \/ Save(h) \/ Move(h)
  \/ TooLate(h) \/ Refused(h) \/ Tell(h) \/ Settle(h)

Next ==
  \/ Enter \/ Arrive \/ Ask \/ Rest \/ Finish \/ WebDecides \/ WebCancels \/ Crash
  \/ \E u \in People : NewCode(u)
  \/ \E c \in Chats : Unlink(c)
  \/ \E h \in Handlers :
       \/ Handle(h)
       \/ \E i \in Ids : Press(h, i)
       \/ \E c \in Chats, u \in People : Redeem(h, c, u)

Spec == Init /\ [][Next]_vars

(***************************************************************************)
(* Properties.                                                             *)
(***************************************************************************)
Steps == [at : {"settling"}, marker : Markers]
         \cup [at : {"linking"}, chat : Chats, user : People]
         \cup [at : {"telling"}, prompt : 1..MaxPrompts]
         \cup [at : {"moving"}, prompt : 1..MaxPrompts, by : People]
         \cup [at : {"claiming", "deciding"}, prompt : 1..MaxPrompts,
               to : {"approved", "rejected", "retried"}, by : People]
         \cup [at : {"saving"}, prompt : 1..MaxPrompts,
               to : {"approved", "rejected", "retried"}, by : People, gate : Waiting]

\* Every variable holds what it is meant to hold.
TypeOK ==
  /\ place \in Waiting \cup {"working", "over"} /\ visits \in 0..MaxVisits
  /\ run \in [at : {"idle", "working", "asking"}, marker : Markers, ask : SUBSET (Chats \X People)]
  /\ wanted \in BOOLEAN
  /\ link \in [Chats -> People \cup {Nobody}] /\ code \in [People -> BOOLEAN]
  /\ made \in 0..MaxEvents
  /\ prompts \in Seq([chat : Chats, user : People, marker : Markers,
                     status : Open \cup {"approved", "rejected", "retried", "closed"}])
  /\ Len(prompts) <= MaxPrompts
  /\ hand \in [Handlers -> {Idle} \cup Steps]
  /\ \A d \in decided : d \in [prompt : 1..MaxPrompts, by : People, again : BOOLEAN]
  /\ late \in BOOLEAN /\ crashes \in 0..MaxEvents

\* A double tap, two devices, two listeners at one update: a question decides at most
\* once (claim_chat_prompt).
DecidesOnce ==
  \A d, e \in decided : d.prompt = e.prompt => d = e /\ ~ d.again

\* A press decides only as the person the question was put to, though chat accounts are
\* unlinked and linked to other people in between (on_press).
OnlyTheAskedDecide ==
  \A d \in decided :
    /\ d.by = prompts[d.prompt].user
    /\ d.by = Owner \/ prompts[d.prompt].marker.at \in MemberGates

Claimed(i) == prompts[i].status \in {"approved", "rejected", "retried"}
                        /\ \A d \in decided : d.prompt /= i

\* While the development waits, a question about it is closed by nobody -- but by a
\* press that had read the row before it got there (settle).
StandsUnlessLate ==
  late \/ \A i \in Ids : prompts[i].marker = Marker /\ Marker /= Nowhere
                           => prompts[i].status /= "closed"

CarriesOut(h, i) == hand[h].at \in {"deciding", "saving", "moving"} /\ hand[h].prompt = i

\* While the development waits for the answer, only a restart loses a press that moved its
\* question on: it is being carried out, has decided, or its question was given back or closed
\* (on_press).  Once it waits no more the press may end in a save that is refused.
NoPressIsLost ==
  \A i \in Ids : Claimed(i) /\ prompts[i].marker = Marker =>
    crashes > 0 \/ \E h \in Handlers : CarriesOut(h, i)
=============================================================================
