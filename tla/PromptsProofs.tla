----------------------------- MODULE PromptsProofs -----------------------------
(***************************************************************************)
(* A question decides once, as the person it was put to; while the         *)
(* development waits, a press that moved it on is not lost but to a        *)
(* restart, and the question stands: for any number of people, accounts,   *)
(* listeners, visits and restarts.                                         *)
(***************************************************************************)
EXTENDS Prompts, SequenceTheorems, TLAPS

Taken   == {"approved", "rejected", "retried"}
Records == [chat : Chats, user : People, marker : Markers,
            status : Open \cup {"approved", "rejected", "retried", "closed"}]

\* Who may be asked about what: somebody asked may decide it, at a visit that was.
Put(m, u) == m.at \in Waiting /\ m.visit \in 1..visits /\ MayDecide(u, m.at)

Running ==
  /\ place \in Waiting => visits > 0
  /\ run.at = "asking" => \A a \in run.ask : a[2] \in People /\ Put(run.marker, a[2])
  /\ \A i \in Ids : Put(prompts[i].marker, prompts[i].user)

\* A handler that has moved its question on and has not decided it yet.
Busy(t) == t.at \in {"deciding", "saving", "moving"}

\* What a handler holds still fits the question it is about; and what it read the development
\* to wait for is so while that is what the question is about.
Carries(t) ==
  /\ t.at \in {"claiming", "telling"} \/ Busy(t) => t.prompt \in Ids
  /\ t.at = "claiming" \/ Busy(t) => t.by = prompts[t.prompt].user
  /\ t.at \in {"claiming", "deciding", "saving"} =>
       t.to \in Taken /\ (t.to = "retried" <=> prompts[t.prompt].marker.at = "failed")
  /\ Busy(t) =>
       prompts[t.prompt].status \in Taken /\ \A d \in decided : d.prompt /= t.prompt
  /\ t.at = "saving" => (prompts[t.prompt].marker = Marker => t.gate = place)
  /\ t.at = "telling" => prompts[t.prompt].marker /= Marker

\* No two have moved on the same question.
Alone == \A g, h \in Handlers :
           Busy(hand[g]) /\ Busy(hand[h]) /\ hand[g].prompt = hand[h].prompt => g = h

Hands == Alone /\ \A h \in Handlers : Carries(hand[h])

\* What was decided stays decided.
Decisions ==
  /\ \A d \in decided : /\ d.prompt \in Ids /\ prompts[d.prompt].status \in Taken
                        /\ d.by = prompts[d.prompt].user /\ ~ d.again
  /\ DecidesOnce

Stands == late \/ \A i \in Ids : prompts[i].status = "closed" => prompts[i].marker /= Marker

Inv == TypeOK /\ Running /\ Hands /\ Decisions /\ NoPressIsLost /\ Stands

-----------------------------------------------------------------------------
LEMMA Names ==
  /\ \A x \in Gates : x \notin {"failed", "working", "over"}
  /\ Nowhere \notin [at : Waiting, visit : 1..MaxVisits] /\ MaxVisits \in Nat
  /\ MaxPrompts \in Nat
BY PromptsAssumption DEF Nowhere

LEMMA Sequence ==
  ASSUME TypeOK
  PROVE  /\ prompts \in Seq(Records) /\ Len(prompts) \in Nat /\ Ids = 1..Len(prompts)
         /\ \A i \in Ids : prompts[i] \in Records
<1>1. prompts \in Seq(Records) BY DEF TypeOK, Records
<1>2. /\ Len(prompts) \in Nat /\ DOMAIN prompts = 1..Len(prompts)
      /\ prompts \in [1..Len(prompts) -> Records]
  BY <1>1, LenProperties
<1> QED BY <1>1, <1>2 DEF Ids

\* The changes of the questions.
SameBut(i) ==
  /\ prompts'[i] \in Records /\ prompts'[i].chat = prompts[i].chat
  /\ prompts'[i].user = prompts[i].user /\ prompts'[i].marker = prompts[i].marker

LEMMA CloseDoes ==
  ASSUME TypeOK, NEW ids, \A i \in ids : i \in Ids /\ prompts[i].status \in Open,
         prompts' = Close(ids)
  PROVE  /\ prompts' \in Seq(Records) /\ Len(prompts') = Len(prompts) /\ Ids' = Ids
         /\ \A i \in Ids :
              /\ SameBut(i)
              /\ i \notin ids => prompts'[i] = prompts[i]
              /\ i \in ids => prompts[i].status \in Open /\ prompts'[i].status = "closed"
<1>1. /\ Ids = 1..Len(prompts) /\ Len(prompts) \in Nat /\ \A i \in Ids : prompts[i] \in Records
  BY Sequence
<1>2. prompts' \in [1..Len(prompts) -> Records] BY <1>1 DEF Close, Records, Open
<1>3. prompts' \in Seq(Records) BY <1>1, <1>2
<1>4. Len(prompts') = Len(prompts) /\ Ids' = Ids
  BY <1>1, <1>2, <1>3, LenProperties DEF Ids
<1>5. ASSUME NEW i \in Ids
      PROVE  /\ SameBut(i)
             /\ i \notin ids => prompts'[i] = prompts[i]
             /\ i \in ids => prompts[i].status \in Open /\ prompts'[i].status = "closed"
  <2>1. CASE i \in ids
    <3>1. prompts'[i] = [prompts[i] EXCEPT !.status = "closed"] BY <2>1 DEF Close
    <3> QED BY <1>1, <2>1, <3>1 DEF SameBut, Records, Open
  <2>2. CASE i \notin ids
    <3>1. prompts'[i] = prompts[i] BY <2>2 DEF Close
    <3> QED BY <1>1, <2>2, <3>1 DEF SameBut
  <2> QED BY <2>1, <2>2
<1> QED BY <1>3, <1>4, <1>5

LEMMA SetDoes ==
  ASSUME TypeOK, NEW i \in Ids, NEW st \in Open \cup Taken \cup {"closed"},
         prompts' = SetStatus(i, st)
  PROVE  /\ prompts' \in Seq(Records) /\ Len(prompts') = Len(prompts) /\ Ids' = Ids
         /\ \A j \in Ids : SameBut(j) /\ (j /= i => prompts'[j] = prompts[j])
         /\ prompts'[i].status = st
<1>1. /\ Ids = 1..Len(prompts) /\ Len(prompts) \in Nat /\ \A j \in Ids : prompts[j] \in Records
      /\ prompts \in Seq(Records)
  BY Sequence
<1> DEFINE e == [prompts[i] EXCEPT !.status = st]
<1>2. /\ e \in Records /\ e.status = st /\ e.chat = prompts[i].chat /\ e.user = prompts[i].user
      /\ e.marker = prompts[i].marker
  BY <1>1 DEF Records, Taken
<1>3. prompts' = [prompts EXCEPT ![i] = e] BY DEF SetStatus
<1> HIDE DEF e
<1>4. /\ prompts' \in Seq(Records) /\ Len(prompts') = Len(prompts)
      /\ \A j \in 1..Len(prompts) : prompts'[j] = IF j = i THEN e ELSE prompts[j]
  BY <1>1, <1>2, <1>3, ExceptSeq
<1>5. Ids' = Ids BY <1>1, <1>4, LenProperties DEF Ids
<1> QED BY <1>1, <1>2, <1>4, <1>5 DEF SameBut

LEMMA AppendDoes ==
  ASSUME TypeOK, NEW e \in Records, prompts' = Append(prompts, e)
  PROVE  /\ prompts' \in Seq(Records) /\ Len(prompts') = Len(prompts) + 1
         /\ Ids' = Ids \cup {Len(prompts) + 1} /\ Len(prompts) + 1 \notin Ids
         /\ \A i \in Ids : SameBut(i) /\ prompts'[i] = prompts[i]
         /\ prompts'[Len(prompts) + 1] = e
<1>1. /\ Ids = 1..Len(prompts) /\ Len(prompts) \in Nat /\ \A j \in Ids : prompts[j] \in Records
      /\ prompts \in Seq(Records)
  BY Sequence
<1>2. /\ prompts' \in Seq(Records) /\ Len(prompts') = Len(prompts) + 1
      /\ \A i \in 1..Len(prompts) : prompts'[i] = prompts[i]
      /\ prompts'[Len(prompts) + 1] = e
  BY <1>1, AppendProperties
<1>3. Ids' = 1..(Len(prompts) + 1) BY <1>1, <1>2, LenProperties DEF Ids
<1> QED BY <1>1, <1>2, <1>3 DEF SameBut

LEMMA Starts == Init => Inv
<1> SUFFICES ASSUME Init PROVE Inv OBVIOUS
<1>1. prompts \in Seq(Records) /\ Len(prompts) = 0 /\ Ids = {}
  BY EmptySeq DEF Init, Ids
<1>2. TypeOK
  <2>1. run \in [at : {"idle", "working", "asking"}, marker : Markers,
            ask : SUBSET (Chats \X People)]
    BY DEF Init, Markers
  <2>2. link \in [Chats -> People \cup {Nobody}] BY DEF Init
  <2>3. Len(prompts) <= MaxPrompts BY <1>1, PromptsAssumption
  <2>4. visits \in 0..MaxVisits /\ made \in 0..MaxEvents /\ crashes \in 0..MaxEvents
    BY PromptsAssumption DEF Init
  <2>5. /\ place \in Waiting \cup {"working", "over"} /\ wanted \in BOOLEAN
        /\ code \in [People -> BOOLEAN] /\ late \in BOOLEAN /\ decided = {}
        /\ hand \in [Handlers -> {Idle} \cup Steps]
    BY DEF Init
  <2> QED BY <1>1, <2>1, <2>2, <2>3, <2>4, <2>5 DEF TypeOK, Records
<1>3. Running /\ Stands /\ NoPressIsLost
  BY <1>1, PromptsAssumption DEF Init, Running, Waiting, Stands, NoPressIsLost
<1>4. Hands BY DEF Init, Hands, Alone, Carries, Busy, Idle
<1>5. Decisions BY DEF Init, Decisions, DecidesOnce
<1> QED BY <1>2, <1>3, <1>4, <1>5 DEF Inv

-----------------------------------------------------------------------------
\* What most steps have in common: the questions are there, with the same marker and
\* person; and a question about another visit than this is about no later one.
Same == Ids' = Ids /\ \A i \in Ids : SameBut(i)
Onward == /\ visits' \in {visits, visits + 1} /\ visits' \in 0..MaxVisits
          /\ \/ Marker' \in {Marker, Nowhere}
             \/ Marker'.visit = visits + 1

LEMMA Untouched ==
  ASSUME Inv, UNCHANGED prompts
  PROVE  Same /\ prompts' \in Seq(Records) /\ Len(prompts') = Len(prompts)
<1>1. prompts \in Seq(Records) /\ \A i \in Ids : prompts[i] \in Records BY Sequence DEF Inv
<1> QED BY <1>1 DEF Same, SameBut, Ids

LEMMA Stays ==
  ASSUME Inv, UNCHANGED <<place, visits>>
  PROVE  Onward
BY DEF Onward, Marker, Inv, TypeOK

LEMMA Passed ==
  ASSUME Inv, Onward, Same, NEW i \in Ids, prompts[i].marker /= Marker
  PROVE  prompts'[i].marker /= Marker'
<1>1. prompts[i].marker \in Markers BY Sequence DEF Inv, Records
<1>2. prompts[i].marker.at \in Waiting /\ prompts[i].marker.visit \in 1..visits
  BY DEF Inv, Running, Put
<1>3. prompts[i].marker /= Nowhere BY <1>2 DEF Nowhere
<1>4. prompts'[i].marker = prompts[i].marker BY DEF Same, SameBut
<1>5. visits \in Nat BY DEF Inv, TypeOK
<1> QED BY <1>2, <1>3, <1>4, <1>5 DEF Onward

LEMMA StillPut ==
  ASSUME Inv, Onward, Same
  PROVE  \A i \in Ids' : Put(prompts[i].marker, prompts[i].user)'
<1> SUFFICES ASSUME NEW i \in Ids PROVE Put(prompts[i].marker, prompts[i].user)' BY DEF Same
<1>1. prompts'[i].marker = prompts[i].marker /\ prompts'[i].user = prompts[i].user
  BY DEF Same, SameBut
<1>2. Put(prompts[i].marker, prompts[i].user) BY DEF Inv, Running
<1>3. visits \in Nat /\ visits' \in {visits, visits + 1} BY DEF Inv, TypeOK, Onward
<1> QED BY <1>1, <1>2, <1>3 DEF Put

\* A question about this visit was about this visit before, and it is still there.
LEMMA StillHere ==
  ASSUME Inv, Onward, Same, NEW i \in Ids, prompts'[i].marker = Marker'
  PROVE  prompts[i].marker = Marker /\ place' = place
<1>1. prompts[i].marker = Marker BY Passed
<1>2. prompts[i].marker /= Nowhere BY DEF Inv, Running, Put, TypeOK, Nowhere
<1>3. Marker' = Marker BY <1>1 DEF Same, SameBut
<1>4. Marker.at = place /\ Marker'.at = place' BY <1>1, <1>2, <1>3 DEF Marker
<1> QED BY <1>1, <1>3, <1>4

\* A handler that does nothing still holds what fits, if nobody decided its question.
LEMMA StillCarries ==
  ASSUME Inv, Onward, Same, NEW g \in Handlers, hand'[g] = hand[g],
         Busy(hand[g]) =>
           /\ prompts'[hand[g].prompt].status = prompts[hand[g].prompt].status
           /\ \A d \in decided' : d \in decided \/ d.prompt /= hand[g].prompt
  PROVE  Carries(hand[g])'
<1> DEFINE t == hand[g]
<1>1. Carries(t) BY DEF Inv, Hands
<1>2. CASE t.at \in {"claiming", "telling"} \/ Busy(t)
  <2>1. t.prompt \in Ids BY <1>1, <1>2 DEF Carries
  <2>2. /\ t.prompt \in Ids' /\ prompts'[t.prompt].user = prompts[t.prompt].user
        /\ prompts'[t.prompt].marker = prompts[t.prompt].marker
    BY <2>1 DEF Same, SameBut
  <2>3. prompts[t.prompt].marker /= Marker => prompts'[t.prompt].marker /= Marker'
    BY <2>1, Passed
  <2>4. prompts'[t.prompt].marker = Marker' => prompts[t.prompt].marker = Marker /\ place' = place
    BY <2>1, StillHere
  <2> QED BY <1>1, <1>2, <2>1, <2>2, <2>3, <2>4 DEF Carries, Busy
<1>3. CASE ~ (t.at \in {"claiming", "telling"} \/ Busy(t)) BY <1>3 DEF Carries, Busy
<1> QED BY <1>2, <1>3

\* Nobody else takes up what somebody is deciding.
LEMMA StillAlone ==
  ASSUME Inv, \A g \in Handlers :
                Busy(hand'[g]) => Busy(hand[g]) /\ hand'[g].prompt = hand[g].prompt
  PROVE  Alone'
BY DEF Inv, Hands, Alone, Busy

\* No press is lost by a step that moves no other question on, and lets go of those alone
\* that are about this visit no more.
LEMMA StillNotLost ==
  ASSUME Inv, Onward, Same, crashes' = crashes \/ crashes' > 0,
         \A i \in Ids : Claimed(i)' =>
           \/ crashes' > 0 \/ prompts[i].marker /= Marker \/ prompts'[i].marker /= Marker'
           \/ \E h \in Handlers : CarriesOut(h, i)'
           \/ Claimed(i) /\ \A h \in Handlers : CarriesOut(h, i) => CarriesOut(h, i)'
  PROVE  NoPressIsLost'
<1> SUFFICES ASSUME NEW i \in Ids, Claimed(i)', prompts'[i].marker = Marker', ~ (crashes' > 0)
             PROVE  \E h \in Handlers : CarriesOut(h, i)'
  BY DEF NoPressIsLost, Same
<1>1. prompts[i].marker = Marker BY StillHere
<1> QED BY <1>1 DEF Inv, NoPressIsLost

\* What was decided stays so while the questions decided keep their status.
LEMMA StillDecided ==
  ASSUME Inv, Same, UNCHANGED decided,
         \A i \in Ids : prompts[i].status \in Taken =>
           prompts'[i].status \in Taken \/ \A d \in decided : d.prompt /= i
  PROVE  Decisions'
BY DEF Inv, Decisions, DecidesOnce, Same, SameBut

\* No question is closed but those that were, and those of another visit.
LEMMA StillStands ==
  ASSUME Inv, Onward, Same, late' \/ ~ late,
         \A i \in Ids : prompts'[i].status = "closed" =>
           \/ prompts[i].status = "closed" \/ prompts[i].marker /= Marker
           \/ late' \/ prompts'[i].marker /= Marker'
  PROVE  Stands'
<1> SUFFICES ASSUME ~ late', NEW i \in Ids, prompts'[i].status = "closed"
             PROVE  prompts'[i].marker /= Marker'
  BY DEF Stands, Same
<1>1. CASE prompts[i].status = "closed"
  <2>1. prompts[i].marker /= Marker BY <1>1 DEF Inv, Stands
  <2> QED BY <2>1, Passed
<1>2. CASE prompts[i].marker /= Marker BY <1>2, Passed
<1> QED BY <1>1, <1>2

-----------------------------------------------------------------------------
\* The run loop, the web page, the links.
LEMMA NewCodeKeeps == ASSUME Inv, NEW u \in People, NewCode(u) PROVE Inv'
<1>1. TypeOK' BY PromptsAssumption DEF Inv, TypeOK, NewCode, job, links
<1>2. Same /\ prompts' = prompts BY Untouched DEF NewCode, job, links
<1>3. Onward BY Stays DEF NewCode, job, links
<1>4. Running'
  <2>1. \A i \in Ids' : Put(prompts[i].marker, prompts[i].user)' BY <1>2, <1>3, StillPut
  <2> QED BY <2>1, PromptsAssumption DEF Inv, Running, Put, TypeOK, Waiting, NewCode, job, links
<1>5. Hands'
  <2>1. ASSUME NEW g \in Handlers PROVE Carries(hand[g])'
    BY <1>2, <1>3, StillCarries DEF NewCode, job, links
  <2> QED BY <2>1, StillAlone DEF Hands, NewCode, job, links
<1>6. Decisions' BY <1>2, StillDecided DEF NewCode, job, links
<1>7. NoPressIsLost'
  BY <1>2, <1>3, StillNotLost DEF Claimed, CarriesOut, NewCode, job, links
<1>8. Stands' BY <1>2, <1>3, StillStands DEF NewCode, job, links
<1> QED BY <1>1, <1>4, <1>5, <1>6, <1>7, <1>8 DEF Inv

LEMMA UnlinkKeeps == ASSUME Inv, NEW c \in Chats, Unlink(c) PROVE Inv'
<1>1. TypeOK' BY PromptsAssumption DEF Inv, TypeOK, Unlink, job, links
<1>2. Same /\ prompts' = prompts BY Untouched DEF Unlink, job, links
<1>3. Onward BY Stays DEF Unlink, job, links
<1>4. Running'
  <2>1. \A i \in Ids' : Put(prompts[i].marker, prompts[i].user)' BY <1>2, <1>3, StillPut
  <2> QED BY <2>1, PromptsAssumption DEF Inv, Running, Put, TypeOK, Waiting, Unlink, job, links
<1>5. Hands'
  <2>1. ASSUME NEW g \in Handlers PROVE Carries(hand[g])'
    BY <1>2, <1>3, StillCarries DEF Unlink, job, links
  <2> QED BY <2>1, StillAlone DEF Hands, Unlink, job, links
<1>6. Decisions' BY <1>2, StillDecided DEF Unlink, job, links
<1>7. NoPressIsLost'
  BY <1>2, <1>3, StillNotLost DEF Claimed, CarriesOut, Unlink, job, links
<1>8. Stands' BY <1>2, <1>3, StillStands DEF Unlink, job, links
<1> QED BY <1>1, <1>4, <1>5, <1>6, <1>7, <1>8 DEF Inv

LEMMA WebDecidesKeeps == ASSUME Inv, WebDecides PROVE Inv'
<1>1. TypeOK' BY PromptsAssumption DEF Inv, TypeOK, WebDecides, job, links
<1>2. Same /\ prompts' = prompts BY Untouched DEF WebDecides, job, links
<1>3. Onward 
  BY PromptsAssumption DEF Onward, Marker, Waiting, Inv, TypeOK, WebDecides, links
<1>4. Running'
  <2>1. \A i \in Ids' : Put(prompts[i].marker, prompts[i].user)' BY <1>2, <1>3, StillPut
  <2> QED BY <2>1, PromptsAssumption DEF Inv, Running, Put, TypeOK, Waiting, WebDecides, job,
      links
<1>5. Hands'
  <2>1. ASSUME NEW g \in Handlers PROVE Carries(hand[g])'
    BY <1>2, <1>3, StillCarries DEF WebDecides, job, links
  <2> QED BY <2>1, StillAlone DEF Hands, WebDecides, job, links
<1>6. Decisions' BY <1>2, StillDecided DEF WebDecides, job, links
<1>7. NoPressIsLost'
  BY <1>2, <1>3, StillNotLost DEF Claimed, CarriesOut, WebDecides, job, links
<1>8. Stands' BY <1>2, <1>3, StillStands DEF WebDecides, job, links
<1> QED BY <1>1, <1>4, <1>5, <1>6, <1>7, <1>8 DEF Inv

LEMMA WebCancelsKeeps == ASSUME Inv, WebCancels PROVE Inv'
<1>1. TypeOK' BY PromptsAssumption DEF Inv, TypeOK, WebCancels, job, links
<1>2. Same /\ prompts' = prompts BY Untouched DEF WebCancels, job, links
<1>3. Onward 
  BY PromptsAssumption DEF Onward, Marker, Waiting, Inv, TypeOK, WebCancels, links
<1>4. Running'
  <2>1. \A i \in Ids' : Put(prompts[i].marker, prompts[i].user)' BY <1>2, <1>3, StillPut
  <2> QED BY <2>1, PromptsAssumption DEF Inv, Running, Put, TypeOK, Waiting, WebCancels, job,
      links
<1>5. Hands'
  <2>1. ASSUME NEW g \in Handlers PROVE Carries(hand[g])'
    BY <1>2, <1>3, StillCarries DEF WebCancels, job, links
  <2> QED BY <2>1, StillAlone DEF Hands, WebCancels, job, links
<1>6. Decisions' BY <1>2, StillDecided DEF WebCancels, job, links
<1>7. NoPressIsLost'
  BY <1>2, <1>3, StillNotLost DEF Claimed, CarriesOut, WebCancels, job, links
<1>8. Stands' BY <1>2, <1>3, StillStands DEF WebCancels, job, links
<1> QED BY <1>1, <1>4, <1>5, <1>6, <1>7, <1>8 DEF Inv

LEMMA FinishKeeps == ASSUME Inv, Finish PROVE Inv'
<1>1. TypeOK' BY PromptsAssumption DEF Inv, TypeOK, Finish, job, links
<1>2. Same /\ prompts' = prompts BY Untouched DEF Finish, job, links
<1>3. Onward 
  BY PromptsAssumption DEF Onward, Marker, Waiting, Inv, TypeOK, Finish, links
<1>4. Running'
  <2>1. \A i \in Ids' : Put(prompts[i].marker, prompts[i].user)' BY <1>2, <1>3, StillPut
  <2> QED BY <2>1, PromptsAssumption DEF Inv, Running, Put, TypeOK, Waiting, Finish, job, links
<1>5. Hands'
  <2>1. ASSUME NEW g \in Handlers PROVE Carries(hand[g])'
    BY <1>2, <1>3, StillCarries DEF Finish, job, links
  <2> QED BY <2>1, StillAlone DEF Hands, Finish, job, links
<1>6. Decisions' BY <1>2, StillDecided DEF Finish, job, links
<1>7. NoPressIsLost'
  BY <1>2, <1>3, StillNotLost DEF Claimed, CarriesOut, Finish, job, links
<1>8. Stands' BY <1>2, <1>3, StillStands DEF Finish, job, links
<1> QED BY <1>1, <1>4, <1>5, <1>6, <1>7, <1>8 DEF Inv

LEMMA RestKeeps == ASSUME Inv, Rest PROVE Inv'
<1>1. TypeOK' BY PromptsAssumption DEF Inv, TypeOK, Rest, job, links, Markers, Nowhere
<1>2. Same /\ prompts' = prompts BY Untouched DEF Rest, job, links
<1>3. Onward BY Stays DEF Rest, job, links
<1>4. Running'
  <2>1. \A i \in Ids' : Put(prompts[i].marker, prompts[i].user)' BY <1>2, <1>3, StillPut
  <2> QED BY <2>1, PromptsAssumption DEF Inv, Running, Put, TypeOK, Waiting, Rest, job, links
<1>5. Hands'
  <2>1. ASSUME NEW g \in Handlers PROVE Carries(hand[g])'
    BY <1>2, <1>3, StillCarries DEF Rest, job, links
  <2> QED BY <2>1, StillAlone DEF Hands, Rest, job, links
<1>6. Decisions' BY <1>2, StillDecided DEF Rest, job, links
<1>7. NoPressIsLost'
  BY <1>2, <1>3, StillNotLost DEF Claimed, CarriesOut, Rest, job, links
<1>8. Stands' BY <1>2, <1>3, StillStands DEF Rest, job, links
<1> QED BY <1>1, <1>4, <1>5, <1>6, <1>7, <1>8 DEF Inv

LEMMA ArriveKeeps == ASSUME Inv, Arrive PROVE Inv'
<1>1. TypeOK'
  <2>1. PICK at \in Waiting : /\ place' = at /\ visits' = visits + 1 /\ visits < MaxVisits
                              /\ run' = [at |-> "asking", marker |-> [at |-> at,
                                     visit |-> visits + 1],
                                   ask |-> {<<c, link[c]>> : c \in Asked([at |-> at,
                                       visit |-> visits + 1])}]
    BY DEF Arrive
  <2>2. visits' \in 0..MaxVisits /\ visits + 1 \in 1..MaxVisits
    BY <2>1, PromptsAssumption DEF Inv, TypeOK
  <2>3. {<<c, link[c]>> : c \in Asked([at |-> at,
            visit |-> visits + 1])} \in SUBSET (Chats \X People)
    BY DEF Asked, Inv, TypeOK
  <2>4. run' \in [at : {"idle", "working", "asking"}, marker : Markers,
            ask : SUBSET (Chats \X People)]
    BY <2>1, <2>2, <2>3 DEF Markers
  <2> QED BY <2>1, <2>2, <2>4 DEF Inv, TypeOK, Arrive, links
<1>2. Same /\ prompts' = prompts BY Untouched DEF Arrive, job, links
<1>3. Onward 
  BY PromptsAssumption DEF Onward, Marker, Waiting, Inv, TypeOK, Arrive, links
<1>4. Running'
  <2>1. \A i \in Ids' : Put(prompts[i].marker, prompts[i].user)' BY <1>2, <1>3, StillPut
  <2>2. ASSUME NEW a \in run'.ask PROVE a[2] \in People /\ Put(run.marker, a[2])'
    <3>1. PICK at \in Waiting : /\ visits' = visits + 1
                                /\ run' = [at |-> "asking", marker |-> [at |-> at,
                                       visit |-> visits + 1],
                                     ask |-> {<<c, link[c]>> : c \in Asked([at |-> at,
                                         visit |-> visits + 1])}]
      BY DEF Arrive
    <3>2. PICK c \in Asked([at |-> at, visit |-> visits + 1]) : a = <<c, link[c]>> BY <3>1
    <3>3. link[c] \in People /\ MayDecide(link[c], at) BY <3>2 DEF Asked, Inv, TypeOK
    <3>4. visits \in Nat BY DEF Inv, TypeOK
    <3> QED BY <3>1, <3>2, <3>3, <3>4 DEF Put, MayDecide
  <2> QED BY <2>1, <2>2 DEF Running, Arrive, Inv, TypeOK
<1>5. Hands'
  <2>1. ASSUME NEW g \in Handlers PROVE Carries(hand[g])'
    BY <1>2, <1>3, StillCarries DEF Arrive, job, links
  <2> QED BY <2>1, StillAlone DEF Hands, Arrive, job, links
<1>6. Decisions' BY <1>2, StillDecided DEF Arrive, job, links
<1>7. NoPressIsLost'
  BY <1>2, <1>3, StillNotLost DEF Claimed, CarriesOut, Arrive, job, links
<1>8. Stands' BY <1>2, <1>3, StillStands DEF Arrive, job, links
<1> QED BY <1>1, <1>4, <1>5, <1>6, <1>7, <1>8 DEF Inv

-----------------------------------------------------------------------------
\* The listeners.
LEMMA RedeemKeeps == ASSUME Inv, NEW h \in Handlers, NEW c \in Chats, NEW u \in People,
         Redeem(h, c, u) PROVE Inv'
<1>1. TypeOK' BY PromptsAssumption DEF Inv, TypeOK, Redeem, job, links, Steps, Idle
<1>2. Same /\ prompts' = prompts BY Untouched DEF Redeem, job, links
<1>3. Onward BY Stays DEF Redeem, job, links
<1>4. Running'
  <2>1. \A i \in Ids' : Put(prompts[i].marker, prompts[i].user)' BY <1>2, <1>3, StillPut
  <2> QED BY <2>1, PromptsAssumption DEF Inv, Running, Put, TypeOK, Waiting, Redeem, job, links
<1>5. Hands'
  <2>1. ASSUME NEW g \in Handlers PROVE Carries(hand[g])'
    <3>1. CASE g /= h BY <3>1, <1>2, <1>3, StillCarries DEF Redeem, job, links
    <3>2. CASE g = h BY <3>2 DEF Carries, Busy, Redeem, Idle, Inv, TypeOK
    <3> QED BY <3>1, <3>2
  <2>2. \A g \in Handlers :
          Busy(hand'[g]) => Busy(hand[g]) /\ hand'[g].prompt = hand[g].prompt
   
    BY DEF Redeem, Busy, Idle, Inv, TypeOK
  <2> QED BY <2>1, <2>2, StillAlone DEF Hands
<1>6. Decisions' BY <1>2, StillDecided DEF Redeem, job, links
<1>7. NoPressIsLost'
  <2>1. \A i \in Ids : Claimed(i)' => Claimed(i) BY <1>2 DEF Claimed, Redeem
  <2>2. \A g \in Handlers : Busy(hand[g]) => hand'[g] = hand[g]
    BY DEF Redeem, Busy, Idle, Inv, TypeOK
  <2>3. crashes' = crashes BY DEF Redeem
  <2> QED BY <1>2, <1>3, <2>1, <2>2, <2>3, StillNotLost DEF CarriesOut, Busy
<1>8. Stands' BY <1>2, <1>3, StillStands DEF Redeem, job, links
<1> QED BY <1>1, <1>4, <1>5, <1>6, <1>7, <1>8 DEF Inv

LEMMA SaveLinkKeeps == ASSUME Inv, NEW h \in Handlers, SaveLink(h) PROVE Inv'
<1>1. TypeOK'
  <2>1. hand[h].user \in People BY DEF Inv, TypeOK, SaveLink, Steps, Idle
  <2>2. link' \in [Chats -> People \cup {Nobody}] BY <2>1 DEF Inv, TypeOK, SaveLink
  <2> QED BY <2>2 DEF Inv, TypeOK, SaveLink, job, Idle
<1>2. Same /\ prompts' = prompts BY Untouched DEF SaveLink, job, links
<1>3. Onward BY Stays DEF SaveLink, job, links
<1>4. Running'
  <2>1. \A i \in Ids' : Put(prompts[i].marker, prompts[i].user)' BY <1>2, <1>3, StillPut
  <2> QED BY <2>1, PromptsAssumption DEF Inv, Running, Put, TypeOK, Waiting, SaveLink, job,
      links
<1>5. Hands'
  <2>1. ASSUME NEW g \in Handlers PROVE Carries(hand[g])'
    <3>1. CASE g /= h BY <3>1, <1>2, <1>3, StillCarries DEF SaveLink, job, links
    <3>2. CASE g = h BY <3>2 DEF Carries, Busy, SaveLink, Idle, Inv, TypeOK
    <3> QED BY <3>1, <3>2
  <2>2. \A g \in Handlers :
          Busy(hand'[g]) => Busy(hand[g]) /\ hand'[g].prompt = hand[g].prompt
   
    BY DEF SaveLink, Busy, Idle, Inv, TypeOK
  <2> QED BY <2>1, <2>2, StillAlone DEF Hands
<1>6. Decisions' BY <1>2, StillDecided DEF SaveLink, job, links
<1>7. NoPressIsLost'
  <2>1. \A i \in Ids : Claimed(i)' => Claimed(i) BY <1>2 DEF Claimed, SaveLink
  <2>2. \A g \in Handlers : Busy(hand[g]) => hand'[g] = hand[g]
    BY DEF SaveLink, Busy, Idle, Inv, TypeOK
  <2>3. crashes' = crashes BY DEF SaveLink
  <2> QED BY <1>2, <1>3, <2>1, <2>2, <2>3, StillNotLost DEF CarriesOut, Busy
<1>8. Stands' BY <1>2, <1>3, StillStands DEF SaveLink, job, links
<1> QED BY <1>1, <1>4, <1>5, <1>6, <1>7, <1>8 DEF Inv

LEMMA PressKeeps == ASSUME Inv, NEW h \in Handlers, NEW i \in Ids, Press(h, i) PROVE Inv'
<1>0. \/ /\ hand' = [hand EXCEPT ![h] = [at |-> "settling", marker |-> Marker]]
         /\ Marker \in Markers
      \/ \E to \in Taken :
           /\ hand' = [hand EXCEPT ![h] = [at |-> "claiming", prompt |-> i, to |-> to,
                  by |-> link[prompts[i].chat]]]
           /\ link[prompts[i].chat] = prompts[i].user
           /\ to = "retried" <=> prompts[i].marker.at = "failed"
  <2>1. Marker \in Markers
    BY PromptsAssumption DEF Marker, Markers, Inv, Running, TypeOK, Waiting
  <2>2. CASE prompts[i].marker /= Marker BY <2>1, <2>2 DEF Press
  <2>3. CASE prompts[i].marker = Marker
    <3>1. prompts[i].marker.at \in Waiting /\ prompts[i].marker.visit > 0
      BY DEF Inv, Running, Put, TypeOK
    <3>2. Marker.at = place BY <2>3, <3>1 DEF Marker, Nowhere
    <3>3. PICK to \in Buttons(place) :
            hand' = [hand EXCEPT ![h] = [at |-> "claiming", prompt |-> i, to |-> to,
                by |-> link[prompts[i].chat]]]
      BY <2>3 DEF Press
    <3>4. to \in Taken /\ (to = "retried" <=> prompts[i].marker.at = "failed")
      BY <2>3, <3>2 DEF Buttons, Taken
    <3>5. link[prompts[i].chat] = prompts[i].user BY DEF Press, Linked
    <3> QED BY <3>3, <3>4, <3>5
  <2> QED BY <2>2, <2>3
<1>10. /\ \A g \in Handlers : g /= h => hand'[g] = hand[g]
       /\ hand[h] = Idle /\ ~ Busy(hand'[h]) /\ UNCHANGED <<decided, crashes>>
  BY <1>0 DEF Press, Busy, Inv, TypeOK
<1>9. i \in 1..MaxPrompts /\ prompts[i].user \in People
  BY Sequence, PromptsAssumption DEF Inv, TypeOK, Records
<1>1. TypeOK'
  <2>1. hand' \in [Handlers -> {Idle} \cup Steps]
    <3>1. CASE hand' = [hand EXCEPT ![h] = [at |-> "settling",
              marker |-> Marker]] /\ Marker \in Markers
      BY <3>1 DEF Inv, TypeOK, Steps
    <3>2. ASSUME NEW to \in Taken, link[prompts[i].chat] = prompts[i].user,
                 hand' = [hand EXCEPT ![h] = [at |-> "claiming", prompt |-> i, to |-> to,
                     by |-> link[prompts[i].chat]]]
          PROVE  hand' \in [Handlers -> {Idle} \cup Steps]
      BY <1>9, <3>2 DEF Inv, TypeOK, Steps, Taken
    <3> QED BY <1>0, <3>1, <3>2
  <2> QED BY <2>1 DEF Inv, TypeOK, Press, job, links
<1>2. Same /\ prompts' = prompts BY Untouched DEF Press, job, links
<1>3. Onward BY Stays DEF Press, job, links
<1>4. Running'
  <2>1. \A k \in Ids' : Put(prompts[k].marker, prompts[k].user)' BY <1>2, <1>3, StillPut
  <2> QED BY <2>1, PromptsAssumption DEF Inv, Running, Put, TypeOK, Waiting, Press, job, links
<1>5. Hands'
  <2>1. ASSUME NEW g \in Handlers PROVE Carries(hand[g])'
    <3>1. CASE g /= h BY <1>10, <3>1, <1>2, <1>3, StillCarries
    <3>2. CASE g = h BY <1>0, <1>2, <3>2 DEF Carries, Busy, Same, SameBut, Inv, TypeOK
    <3> QED BY <3>1, <3>2
  <2>2. \A g \in Handlers :
          Busy(hand'[g]) => Busy(hand[g]) /\ hand'[g].prompt = hand[g].prompt
    BY <1>10
  <2> QED BY <2>1, <2>2, StillAlone DEF Hands
<1>6. Decisions' BY <1>2, StillDecided DEF Press, job, links
<1>7. NoPressIsLost'
  <2>1. \A k \in Ids : Claimed(k)' => Claimed(k) BY <1>2, <1>10 DEF Claimed
  <2>2. \A g \in Handlers : Busy(hand[g]) => hand'[g] = hand[g] BY <1>10 DEF Busy, Idle
  <2> QED BY <1>2, <1>3, <1>10, <2>1, <2>2, StillNotLost DEF CarriesOut, Busy
<1>8. Stands' BY <1>2, <1>3, StillStands DEF Press, job, links
<1> QED BY <1>1, <1>4, <1>5, <1>6, <1>7, <1>8 DEF Inv

LEMMA CrashKeeps == ASSUME Inv, Crash PROVE Inv'
<1>1. TypeOK' BY PromptsAssumption DEF Inv, TypeOK, Crash, job, links, Markers, Nowhere
<1>2. Same /\ prompts' = prompts BY Untouched DEF Crash, job, links
<1>3. Onward BY Stays DEF Crash, job, links
<1>4. Running'
  <2>1. \A i \in Ids' : Put(prompts[i].marker, prompts[i].user)' BY <1>2, <1>3, StillPut
  <2> QED BY <2>1, PromptsAssumption DEF Inv, Running, Put, TypeOK, Waiting, Crash, job, links
<1>5. Hands'
  BY DEF Hands, Alone, Carries, Busy, Idle, Crash
<1>6. Decisions' BY <1>2, StillDecided DEF Crash, job, links
<1>7. NoPressIsLost'
  <2>1. crashes' > 0 BY DEF Crash, Inv, TypeOK
  <2> QED BY <1>2, <1>3, <2>1, StillNotLost
<1>8. Stands' BY <1>2, <1>3, StillStands DEF Crash, job, links
<1> QED BY <1>1, <1>4, <1>5, <1>6, <1>7, <1>8 DEF Inv

LEMMA EnterKeeps == ASSUME Inv, Enter PROVE Inv'
<1>1. /\ Same /\ prompts' \in Seq(Records) /\ Len(prompts') = Len(prompts)
      /\ \A i \in Ids : \/ prompts'[i] = prompts[i]
                        \/ /\ prompts[i].status \in Open /\ prompts'[i].status = "closed"
                           /\ prompts[i].marker /= Marker \/ late'
  <2>1. prompts' = Close(NotAbout(Marker)) BY DEF Enter
  <2> QED BY <2>1, CloseDoes DEF NotAbout, Inv, Same
<1>2. Onward BY Stays DEF Enter, job, links
<1>3. TypeOK' BY <1>1, PromptsAssumption DEF Inv, TypeOK, Enter, Records, job, links
<1>4. Running'
  <2>1. \A i \in Ids' : Put(prompts[i].marker, prompts[i].user)' BY <1>1, <1>2, StillPut
  <2> QED BY <2>1 DEF Inv, Running, Put, Enter, job, links
<1>h. \A g \in Handlers : hand'[g] = hand[g] BY DEF Enter
<1>d. UNCHANGED <<decided, crashes>> BY DEF Enter
<1>5. Hands'
  <2>1. ASSUME NEW g \in Handlers PROVE Carries(hand[g])'
    <3>1. ASSUME hand'[g] = hand[g] PROVE Carries(hand[g])'
      <4>1. Busy(hand[g])
                => prompts'[hand[g].prompt].status = prompts[hand[g].prompt].status
        BY <1>1 DEF Inv, Hands, Carries, Taken, Open
      <4> QED BY <1>1, <1>2, <1>d, <3>1, <4>1, StillCarries
    <3> QED BY <1>h, <3>1
  <2>b. \A g \in Handlers :
          Busy(hand'[g]) => Busy(hand[g]) /\ hand'[g].prompt = hand[g].prompt
    BY <1>h DEF Busy, Idle
  <2>a. Alone' BY <2>b, StillAlone
  <2> QED BY <2>1, <2>a DEF Hands
<1>6. Decisions' BY <1>1, <1>d, StillDecided DEF Open, Taken
<1>7. NoPressIsLost'
  <2>1. \A i \in Ids : Claimed(i)' => Claimed(i) BY <1>1, <1>d DEF Claimed
  <2>2. \A g \in Handlers : Busy(hand[g]) => hand'[g] = hand[g] BY <1>h
  <2> QED BY <1>1, <1>2, <1>d, <2>1, <2>2, StillNotLost DEF CarriesOut, Busy
<1>8. Stands'
  <2>1. late' \/ ~ late BY DEF Enter, Inv, TypeOK
  <2>2. \A i \in Ids : prompts'[i].status = "closed" =>
          \/ prompts[i].status = "closed" \/ prompts[i].marker /= Marker \/ late'
    BY <1>1
  <2> QED BY <1>1, <1>2, <2>1, <2>2, StillStands
<1> QED BY <1>3, <1>4, <1>5, <1>6, <1>7, <1>8 DEF Inv

LEMMA TellKeeps == ASSUME Inv, NEW h \in Handlers, Tell(h) PROVE Inv'
<1>1. /\ Same /\ prompts' \in Seq(Records) /\ Len(prompts') = Len(prompts)
      /\ \A i \in Ids : \/ prompts'[i] = prompts[i]
                        \/ /\ prompts[i].status \in Open /\ prompts'[i].status = "closed"
                           /\ prompts[i].marker /= Marker \/ late'
  <2>1. prompts' = Close(About(prompts[hand[h].prompt].marker)) BY DEF Tell
  <2>2. prompts[hand[h].prompt].marker /= Marker BY DEF Tell, Inv, Hands, Carries
  <2> DEFINE ids == About(prompts[hand[h].prompt].marker)
  <2>3. \A i \in ids : i \in Ids /\ prompts[i].status \in Open /\ prompts[i].marker /= Marker
    BY <2>2 DEF About
  <2>4. prompts' = Close(ids) BY <2>1
  <2> HIDE DEF ids
  <2> QED BY <2>3, <2>4, CloseDoes DEF Inv, Same
<1>2. Onward BY Stays DEF Tell, job, links
<1>3. TypeOK' BY <1>1, PromptsAssumption DEF Inv, TypeOK, Tell, Records, job, links
<1>4. Running'
  <2>1. \A i \in Ids' : Put(prompts[i].marker, prompts[i].user)' BY <1>1, <1>2, StillPut
  <2> QED BY <2>1 DEF Inv, Running, Put, Tell, job, links
<1>h. /\ ~ Busy(hand[h]) /\ hand'[h] = Idle
      /\ \A g \in Handlers : g /= h => hand'[g] = hand[g]
  BY DEF Tell, Busy, Inv, TypeOK
<1>d. UNCHANGED <<decided, crashes>> BY DEF Tell
<1>5. Hands'
  <2>1. ASSUME NEW g \in Handlers PROVE Carries(hand[g])'
    <3>1. ASSUME hand'[g] = hand[g] PROVE Carries(hand[g])'
      <4>1. Busy(hand[g])
                => prompts'[hand[g].prompt].status = prompts[hand[g].prompt].status
        BY <1>1 DEF Inv, Hands, Carries, Taken, Open
      <4> QED BY <1>1, <1>2, <1>d, <3>1, <4>1, StillCarries
    <3>2. CASE g = h BY <1>h, <3>2 DEF Carries, Busy, Idle
    <3> QED BY <1>h, <3>1, <3>2
  <2>b. \A g \in Handlers :
          Busy(hand'[g]) => Busy(hand[g]) /\ hand'[g].prompt = hand[g].prompt
    BY <1>h DEF Busy, Idle
  <2>a. Alone' BY <2>b, StillAlone
  <2> QED BY <2>1, <2>a DEF Hands
<1>6. Decisions' BY <1>1, <1>d, StillDecided DEF Open, Taken
<1>7. NoPressIsLost'
  <2>1. \A i \in Ids : Claimed(i)' => Claimed(i) BY <1>1, <1>d DEF Claimed
  <2>2. \A g \in Handlers : Busy(hand[g]) => hand'[g] = hand[g] BY <1>h
  <2> QED BY <1>1, <1>2, <1>d, <2>1, <2>2, StillNotLost DEF CarriesOut, Busy
<1>8. Stands'
  <2>1. late' \/ ~ late BY DEF Tell, Inv, TypeOK
  <2>2. \A i \in Ids : prompts'[i].status = "closed" =>
          \/ prompts[i].status = "closed" \/ prompts[i].marker /= Marker \/ late'
    BY <1>1
  <2> QED BY <1>1, <1>2, <2>1, <2>2, StillStands
<1> QED BY <1>3, <1>4, <1>5, <1>6, <1>7, <1>8 DEF Inv

LEMMA SettleKeeps == ASSUME Inv, NEW h \in Handlers, Settle(h) PROVE Inv'
<1>1. /\ Same /\ prompts' \in Seq(Records) /\ Len(prompts') = Len(prompts)
      /\ \A i \in Ids : \/ prompts'[i] = prompts[i]
                        \/ /\ prompts[i].status \in Open /\ prompts'[i].status = "closed"
                           /\ prompts[i].marker /= Marker \/ late'
  <2>1. prompts' = Close(NotAbout(hand[h].marker)) BY DEF Settle
  <2>2. \A i \in NotAbout(hand[h].marker) : prompts[i].marker = Marker => late'
    BY DEF Settle, NotAbout, About
  <2> DEFINE ids == NotAbout(hand[h].marker)
  <2>3. \A i \in ids : i \in Ids /\ prompts[i].status
            \in Open /\ (prompts[i].marker /= Marker \/ late')
    BY <2>2 DEF NotAbout
  <2>4. prompts' = Close(ids) BY <2>1
  <2> HIDE DEF ids
  <2> QED BY <2>3, <2>4, CloseDoes DEF Inv, Same
<1>2. Onward BY Stays DEF Settle, job, links
<1>3. TypeOK' BY <1>1, PromptsAssumption DEF Inv, TypeOK, Settle, Records, job, links
<1>4. Running'
  <2>1. \A i \in Ids' : Put(prompts[i].marker, prompts[i].user)' BY <1>1, <1>2, StillPut
  <2> QED BY <2>1 DEF Inv, Running, Put, Settle, job, links
<1>h. /\ ~ Busy(hand[h]) /\ hand'[h] = Idle
      /\ \A g \in Handlers : g /= h => hand'[g] = hand[g]
  BY DEF Settle, Busy, Inv, TypeOK
<1>d. UNCHANGED <<decided, crashes>> BY DEF Settle
<1>5. Hands'
  <2>1. ASSUME NEW g \in Handlers PROVE Carries(hand[g])'
    <3>1. ASSUME hand'[g] = hand[g] PROVE Carries(hand[g])'
      <4>1. Busy(hand[g])
                => prompts'[hand[g].prompt].status = prompts[hand[g].prompt].status
        BY <1>1 DEF Inv, Hands, Carries, Taken, Open
      <4> QED BY <1>1, <1>2, <1>d, <3>1, <4>1, StillCarries
    <3>2. CASE g = h BY <1>h, <3>2 DEF Carries, Busy, Idle
    <3> QED BY <1>h, <3>1, <3>2
  <2>b. \A g \in Handlers :
          Busy(hand'[g]) => Busy(hand[g]) /\ hand'[g].prompt = hand[g].prompt
    BY <1>h DEF Busy, Idle
  <2>a. Alone' BY <2>b, StillAlone
  <2> QED BY <2>1, <2>a DEF Hands
<1>6. Decisions' BY <1>1, <1>d, StillDecided DEF Open, Taken
<1>7. NoPressIsLost'
  <2>1. \A i \in Ids : Claimed(i)' => Claimed(i) BY <1>1, <1>d DEF Claimed
  <2>2. \A g \in Handlers : Busy(hand[g]) => hand'[g] = hand[g] BY <1>h
  <2> QED BY <1>1, <1>2, <1>d, <2>1, <2>2, StillNotLost DEF CarriesOut, Busy
<1>8. Stands'
  <2>1. late' \/ ~ late BY DEF Settle, Inv, TypeOK
  <2>2. \A i \in Ids : prompts'[i].status = "closed" =>
          \/ prompts[i].status = "closed" \/ prompts[i].marker /= Marker \/ late'
    BY <1>1
  <2> QED BY <1>1, <1>2, <2>1, <2>2, StillStands
<1> QED BY <1>3, <1>4, <1>5, <1>6, <1>7, <1>8 DEF Inv

LEMMA AskReasonKeeps == ASSUME Inv, NEW h \in Handlers, AskReason(h) PROVE Inv'
<1> DEFINE p == hand[h].prompt
<1>h. /\ hand'[h] = Idle /\ p \in Ids /\ UNCHANGED <<decided, crashes, late>>
      /\ \A g \in Handlers : g /= h => hand'[g] = hand[g]
  BY DEF AskReason, Inv, TypeOK, Hands, Carries, Busy
<1>1. /\ Same /\ prompts' \in Seq(Records) /\ Len(prompts') = Len(prompts)
      /\ prompts'[p].status = "reason" /\ \A i \in Ids : i /= p => prompts'[i] = prompts[i]
  BY <1>h, SetDoes DEF AskReason, Inv, Open, Same
<1>c. prompts[p].status = "open" BY DEF AskReason
<1>2. Onward BY Stays DEF AskReason, job, links
<1>3. TypeOK' BY <1>1, PromptsAssumption DEF Inv, TypeOK, AskReason, Records, job, links
<1>4. Running'
  <2>1. \A i \in Ids' : Put(prompts[i].marker, prompts[i].user)' BY <1>1, <1>2, StillPut
  <2> QED BY <2>1 DEF Inv, Running, Put, AskReason, job, links
<1>o. \A g \in Handlers : g /= h /\ Busy(hand[g])
          => hand[g].prompt \in Ids /\ hand[g].prompt /= p
  BY <1>c DEF Inv, Hands, Carries, Busy, Taken, Open
<1>5. Hands'
  <2>1. ASSUME NEW g \in Handlers PROVE Carries(hand[g])'
    <3>1. CASE g /= h BY <1>h, <1>1, <1>2, <1>o, <3>1, StillCarries
    <3>2. CASE g = h BY <1>h, <3>2 DEF Carries, Busy, Idle
    <3> QED BY <3>1, <3>2
  <2>b. \A g \in Handlers :
          Busy(hand'[g]) => Busy(hand[g]) /\ hand'[g].prompt = hand[g].prompt
    BY <1>h DEF Busy, Idle
  <2>a. Alone' BY <2>b, StillAlone
  <2> QED BY <2>1, <2>a DEF Hands
<1>6. Decisions' BY <1>1, <1>h, <1>c, StillDecided DEF Taken
<1>7. NoPressIsLost'
  <2>1. ASSUME NEW i \in Ids, Claimed(i)' PROVE Claimed(i) /\ i /= p
    BY <1>1, <1>h, <2>1 DEF Claimed
  <2>2. \A i \in Ids, g \in Handlers :
          i /= p /\ Busy(hand[g]) /\ hand[g].prompt = i => hand'[g] = hand[g]
    BY <1>h
  <2> QED BY <1>1, <1>2, <1>h, <2>1, <2>2, StillNotLost DEF CarriesOut, Busy
<1>8. Stands' BY <1>1, <1>2, <1>h, <1>c, StillStands
<1> QED BY <1>3, <1>4, <1>5, <1>6, <1>7, <1>8 DEF Inv

LEMMA TooLateKeeps == ASSUME Inv, NEW h \in Handlers, TooLate(h) PROVE Inv'
<1> DEFINE p == hand[h].prompt
<1>h. /\ hand'[h] = Idle /\ p \in Ids /\ UNCHANGED <<decided, crashes, late>>
      /\ \A g \in Handlers : g /= h => hand'[g] = hand[g]
  BY DEF TooLate, Inv, TypeOK, Hands, Carries, Busy
<1>1. /\ Same /\ prompts' \in Seq(Records) /\ Len(prompts') = Len(prompts)
      /\ prompts'[p].status = "closed" /\ \A i \in Ids : i /= p => prompts'[i] = prompts[i]
  BY <1>h, SetDoes DEF TooLate, Inv, Open, Same
<1>c. /\ \A d \in decided : d.prompt /= p
      /\ prompts[p].marker /= Marker
  <2>1. /\ \A d \in decided : d.prompt /= p
        /\ hand[h].to = "retried" <=> prompts[p].marker.at = "failed"
    BY DEF TooLate, Inv, Hands, Carries, Busy
  <2>2. prompts[p].marker.at \in Waiting /\ prompts[p].marker.visit > 0
    BY <1>h DEF Inv, Running, Put, TypeOK
  <2>3. place \notin Decides(hand[h].to) BY DEF TooLate
  <2> QED BY <2>1, <2>2, <2>3 DEF Decides, Waiting, Marker, Nowhere
<1>2. Onward BY Stays DEF TooLate, job, links
<1>3. TypeOK' BY <1>1, PromptsAssumption DEF Inv, TypeOK, TooLate, Records, job, links
<1>4. Running'
  <2>1. \A i \in Ids' : Put(prompts[i].marker, prompts[i].user)' BY <1>1, <1>2, StillPut
  <2> QED BY <2>1 DEF Inv, Running, Put, TooLate, job, links
<1>o. \A g \in Handlers : g /= h /\ Busy(hand[g])
          => hand[g].prompt \in Ids /\ hand[g].prompt /= p
  BY DEF TooLate, Inv, Hands, Alone, Carries, Busy
<1>5. Hands'
  <2>1. ASSUME NEW g \in Handlers PROVE Carries(hand[g])'
    <3>1. CASE g /= h BY <1>h, <1>1, <1>2, <1>o, <3>1, StillCarries
    <3>2. CASE g = h BY <1>h, <3>2 DEF Carries, Busy, Idle
    <3> QED BY <3>1, <3>2
  <2>b. \A g \in Handlers :
          Busy(hand'[g]) => Busy(hand[g]) /\ hand'[g].prompt = hand[g].prompt
    BY <1>h DEF Busy, Idle
  <2>a. Alone' BY <2>b, StillAlone
  <2> QED BY <2>1, <2>a DEF Hands
<1>6. Decisions' BY <1>1, <1>h, <1>c, StillDecided DEF Taken
<1>7. NoPressIsLost'
  <2>1. ASSUME NEW i \in Ids, Claimed(i)' PROVE Claimed(i) /\ i /= p
    BY <1>1, <1>h, <2>1 DEF Claimed
  <2>2. \A i \in Ids, g \in Handlers :
          i /= p /\ Busy(hand[g]) /\ hand[g].prompt = i => hand'[g] = hand[g]
    BY <1>h
  <2> QED BY <1>1, <1>2, <1>h, <2>1, <2>2, StillNotLost DEF CarriesOut, Busy
<1>8. Stands' BY <1>1, <1>2, <1>h, <1>c, StillStands
<1> QED BY <1>3, <1>4, <1>5, <1>6, <1>7, <1>8 DEF Inv

LEMMA RefusedKeeps == ASSUME Inv, NEW h \in Handlers, Refused(h) PROVE Inv'
<1> DEFINE p == hand[h].prompt
<1>h. /\ hand'[h] = Idle /\ p \in Ids /\ UNCHANGED <<decided, crashes, late>>
      /\ \A g \in Handlers : g /= h => hand'[g] = hand[g]
  BY DEF Refused, Inv, TypeOK, Hands, Carries, Busy
<1>1. /\ Same /\ prompts' \in Seq(Records) /\ Len(prompts') = Len(prompts)
      /\ prompts'[p].status = "open" /\ \A i \in Ids : i /= p => prompts'[i] = prompts[i]
  BY <1>h, SetDoes DEF Refused, Inv, Open, Same
<1>c. \A d \in decided : d.prompt /= p BY DEF Refused, Inv, Hands, Carries, Busy
<1>2. Onward BY Stays DEF Refused, job, links
<1>3. TypeOK' BY <1>1, PromptsAssumption DEF Inv, TypeOK, Refused, Records, job, links
<1>4. Running'
  <2>1. \A i \in Ids' : Put(prompts[i].marker, prompts[i].user)' BY <1>1, <1>2, StillPut
  <2> QED BY <2>1 DEF Inv, Running, Put, Refused, job, links
<1>o. \A g \in Handlers : g /= h /\ Busy(hand[g])
          => hand[g].prompt \in Ids /\ hand[g].prompt /= p
  BY DEF Refused, Inv, Hands, Alone, Carries, Busy
<1>5. Hands'
  <2>1. ASSUME NEW g \in Handlers PROVE Carries(hand[g])'
    <3>1. CASE g /= h BY <1>h, <1>1, <1>2, <1>o, <3>1, StillCarries
    <3>2. CASE g = h BY <1>h, <3>2 DEF Carries, Busy, Idle
    <3> QED BY <3>1, <3>2
  <2>b. \A g \in Handlers :
          Busy(hand'[g]) => Busy(hand[g]) /\ hand'[g].prompt = hand[g].prompt
    BY <1>h DEF Busy, Idle
  <2>a. Alone' BY <2>b, StillAlone
  <2> QED BY <2>1, <2>a DEF Hands
<1>6. Decisions' BY <1>1, <1>h, <1>c, StillDecided DEF Taken
<1>7. NoPressIsLost'
  <2>1. ASSUME NEW i \in Ids, Claimed(i)' PROVE Claimed(i) /\ i /= p
    BY <1>1, <1>h, <2>1 DEF Claimed
  <2>2. \A i \in Ids, g \in Handlers :
          i /= p /\ Busy(hand[g]) /\ hand[g].prompt = i => hand'[g] = hand[g]
    BY <1>h
  <2> QED BY <1>1, <1>2, <1>h, <2>1, <2>2, StillNotLost DEF CarriesOut, Busy
<1>8. Stands' BY <1>1, <1>2, <1>h, <1>c, StillStands
<1> QED BY <1>3, <1>4, <1>5, <1>6, <1>7, <1>8 DEF Inv

LEMMA ClaimKeeps == ASSUME Inv, NEW h \in Handlers, Claim(h) PROVE Inv'
<1> DEFINE p == hand[h].prompt
             to == hand[h].to
<1>c. /\ p \in Ids /\ to \in Taken /\ hand[h].by = prompts[p].user /\ hand[h].at = "claiming"
      /\ to = "retried" <=> prompts[p].marker.at = "failed"
  BY DEF Claim, Inv, Hands, Carries, Busy
<1>d. UNCHANGED <<decided, late, crashes>> /\ Onward BY Stays DEF Claim, job, links
<1>1. CASE prompts[p].status \notin Claimable(to)
  <2>1. prompts' = prompts /\ hand' = [hand EXCEPT ![h] = Idle] BY <1>1 DEF Claim
  <2>2. Same BY <2>1, Untouched
  <2>3. TypeOK' BY <2>1 DEF Inv, TypeOK, Claim, job, links
  <2>4. Running'
    <3>1. \A i \in Ids' : Put(prompts[i].marker, prompts[i].user)' BY <1>d, <2>2, StillPut
    <3> QED BY <3>1 DEF Inv, Running, Put, Claim, job, links
  <2>h. hand'[h] = Idle /\ \A g \in Handlers : g /= h => hand'[g] = hand[g]
    BY <2>1 DEF Inv, TypeOK
  <2>5. Hands'
    <3>1. ASSUME NEW g \in Handlers PROVE Carries(hand[g])'
      <4>1. CASE g /= h BY <1>d, <2>1, <2>2, <2>h, <4>1, StillCarries
      <4>2. CASE g = h BY <2>h, <4>2 DEF Carries, Busy, Idle
      <4> QED BY <4>1, <4>2
    <3>b. \A g \in Handlers :
          Busy(hand'[g]) => Busy(hand[g]) /\ hand'[g].prompt = hand[g].prompt
    BY <2>h DEF Busy, Idle
    <3>a. Alone' BY <3>b, StillAlone
    <3> QED BY <3>1, <3>a DEF Hands
  <2>6. Decisions' BY <1>d, <2>1, <2>2, StillDecided
  <2>7. NoPressIsLost'
    <3>1. \A g \in Handlers : Busy(hand[g]) => hand'[g] = hand[g] BY <1>c, <2>h DEF Busy
    <3>2. \A i \in Ids : Claimed(i)' => Claimed(i) BY <1>d, <2>1 DEF Claimed
    <3> QED BY <1>d, <2>2, <3>1, <3>2, StillNotLost DEF CarriesOut, Busy
  <2>8. Stands' BY <1>d, <2>1, <2>2, StillStands
  <2> QED BY <2>3, <2>4, <2>5, <2>6, <2>7, <2>8 DEF Inv
<1>2. CASE prompts[p].status \in Claimable(to)
  <2>0. prompts[p].status \in Open BY <1>2 DEF Claimable, Open
  <2>1. prompts' = SetStatus(p, to) /\ hand' = [hand EXCEPT ![h] = [@ EXCEPT !.at = "deciding"]]
    BY <1>2 DEF Claim
  <2>2. /\ Same /\ prompts' \in Seq(Records) /\ Len(prompts') = Len(prompts)
        /\ prompts'[p].status = to /\ \A i \in Ids : i /= p => prompts'[i] = prompts[i]
    BY <1>c, <2>1, SetDoes DEF Inv, Same
  <2>t. hand[h] \in {Idle} \cup Steps BY DEF Inv, TypeOK
  <2>h. /\ hand'[h].at = "deciding" /\ hand'[h].prompt = p /\ hand'[h].to = to
        /\ hand'[h].by = hand[h].by /\ hand'[h] \in Steps
        /\ \A g \in Handlers : g /= h => hand'[g] = hand[g]
    BY <1>c, <2>1, <2>t DEF Inv, TypeOK, Steps, Idle
  <2>3. TypeOK'
    <3>1. hand' \in [Handlers -> {Idle} \cup Steps] BY <2>1, <2>h DEF Inv, TypeOK
    <3> QED BY <2>2, <3>1 DEF Inv, TypeOK, Records, Claim, job, links
  <2>4. Running'
    <3>1. \A i \in Ids' : Put(prompts[i].marker, prompts[i].user)' BY <1>d, <2>2, StillPut
    <3> QED BY <3>1 DEF Inv, Running, Put, Claim, job, links
  <2>o. \A g \in Handlers : Busy(hand[g])
            => hand[g].prompt \in Ids /\ hand[g].prompt /= p
    BY <2>0 DEF Inv, Hands, Carries, Busy, Open, Taken
  <2>d. \A d \in decided : d.prompt /= p BY <2>0 DEF Inv, Decisions, Open, Taken
  <2>5. Hands'
    <3>1. ASSUME NEW g \in Handlers PROVE Carries(hand[g])'
      <4>1. CASE g /= h BY <1>d, <2>2, <2>h, <2>o, <4>1, StillCarries
      <4>2. CASE g = h BY <1>c, <1>d, <2>2, <2>d, <2>h, <4>2 DEF Carries, Busy, Same, SameBut
      <4> QED BY <4>1, <4>2
    <3>2. Alone' BY <2>h, <2>o DEF Inv, Hands, Alone, Busy
    <3> QED BY <3>1, <3>2 DEF Hands
  <2>6. Decisions' BY <1>d, <2>2, <2>d, StillDecided
  <2>7. NoPressIsLost'
    <3>1. ASSUME NEW i \in Ids, i /= p, Claimed(i)' PROVE Claimed(i)
      BY <1>d, <2>2, <3>1 DEF Claimed
    <3>2. \A g \in Handlers : Busy(hand[g]) => hand'[g] = hand[g] BY <1>c, <2>h DEF Busy
    <3>3. \A i \in Ids : i = p => CarriesOut(h, i)' BY <2>h DEF CarriesOut
    <3>4. \A i \in Ids, g \in Handlers : CarriesOut(g, i) => CarriesOut(g, i)'
      BY <3>2 DEF CarriesOut, Busy
    <3> QED BY <1>d, <2>2, <3>1, <3>3, <3>4, StillNotLost
  <2>8. Stands'
    <3>1. to /= "closed" BY <1>c DEF Taken
    <3> QED BY <1>d, <2>2, <3>1, StillStands
  <2> QED BY <2>3, <2>4, <2>5, <2>6, <2>7, <2>8 DEF Inv
<1> QED BY <1>1, <1>2

LEMMA DecideKeeps == ASSUME Inv, NEW h \in Handlers, Decide(h) PROVE Inv'
<1> DEFINE t == hand[h]
           p == t.prompt
           n == [at |-> "saving", prompt |-> p, to |-> t.to, by |-> t.by, gate |-> place]
<1>c. t.at = "deciding" /\ t \in Steps /\ Carries(t) /\ p \in Ids
  BY DEF Decide, Inv, TypeOK, Hands, Carries, Busy, Idle
<1>h. /\ hand'[h] = n /\ hand' = [hand EXCEPT ![h] = n]
      /\ \A g \in Handlers : g /= h => hand'[g] = hand[g]
  BY DEF Decide, Inv, TypeOK
<1>1. prompts' = prompts /\ Same /\ UNCHANGED <<late, crashes, visits, place, decided>>
  BY Untouched DEF Decide, job, links
<1>2. Onward BY <1>1, Stays
<1>n. n \in Steps
  <2>1. place \in Waiting BY DEF Decide, Decides, Waiting
  <2> QED BY <1>c, <2>1 DEF Steps
<1>f. n.at = "saving" /\ n.prompt = p /\ n.to = t.to /\ n.by = t.by /\ n.gate = place OBVIOUS
<1> HIDE DEF n
<1>3. TypeOK' BY <1>1, <1>h, <1>n DEF Inv, TypeOK, Decide, job, links
<1>4. Running'
  <2>1. \A i \in Ids' : Put(prompts[i].marker, prompts[i].user)' BY <1>1, <1>2, StillPut
  <2> QED BY <2>1 DEF Inv, Running, Put, Decide, job, links
<1>5. Hands'
  <2>1. ASSUME NEW g \in Handlers PROVE Carries(hand[g])'
    <3>1. CASE g /= h BY <1>1, <1>2, <1>h, <3>1, StillCarries
    <3>2. CASE g = h
      <4>1. Ids' = Ids /\ Marker' = Marker BY <1>1 DEF Same, Marker
      <4> QED BY <1>1, <1>c, <1>f, <1>h, <3>2, <4>1 DEF Carries, Busy
    <3> QED BY <3>1, <3>2
  <2>b. \A g \in Handlers :
          Busy(hand'[g]) => Busy(hand[g]) /\ hand'[g].prompt = hand[g].prompt
    BY <1>c, <1>f, <1>h DEF Busy
  <2>a. Alone' BY <2>b, StillAlone
  <2> QED BY <2>1, <2>a DEF Hands
<1>6. Decisions' BY <1>1, StillDecided
<1>7. NoPressIsLost'
  <2>1. \A i \in Ids : Claimed(i)' => Claimed(i) BY <1>1 DEF Claimed
  <2>2. \A i \in Ids, g \in Handlers : CarriesOut(g, i) => CarriesOut(g, i)'
    BY <1>c, <1>f, <1>h DEF CarriesOut
  <2> QED BY <1>1, <1>2, <2>1, <2>2, StillNotLost
<1>8. Stands' BY <1>1, <1>2, StillStands
<1> QED BY <1>3, <1>4, <1>5, <1>6, <1>7, <1>8 DEF Inv

LEMMA SaveKeeps == ASSUME Inv, NEW h \in Handlers, Save(h) PROVE Inv'
<1> DEFINE t == hand[h]
           p == t.prompt
           n == [at |-> "moving", prompt |-> p, by |-> t.by]
<1>c. t.at = "saving" /\ t \in Steps /\ Carries(t) /\ p \in Ids
  BY DEF Save, Inv, TypeOK, Hands, Carries, Busy, Idle
<1>u. UNCHANGED <<place, visits, run, wanted, link, code, made, decided, late, crashes>>
  BY DEF Save, job, links
<1>2. Onward BY <1>u, Stays
<1>m. Marker' = Marker BY <1>u DEF Marker
<1>o. \A g \in Handlers : g /= h /\ Busy(hand[g]) => hand[g].prompt \in Ids /\ hand[g].prompt /= p
  BY <1>c DEF Inv, Hands, Alone, Carries, Busy
<1>9. CASE place = t.gate
  <2>1. prompts' = prompts /\ Same BY <1>9, Untouched DEF Save
  <2>h. /\ hand'[h] = n /\ hand' = [hand EXCEPT ![h] = n]
        /\ \A g \in Handlers : g /= h => hand'[g] = hand[g]
    BY <1>9 DEF Save, Inv, TypeOK
  <2>n. n \in Steps BY <1>c DEF Steps
  <2>f. n.at = "moving" /\ n.prompt = p /\ n.by = t.by OBVIOUS
  <2> HIDE DEF n
  <2>3. TypeOK' BY <1>u, <2>1, <2>h, <2>n DEF Inv, TypeOK
  <2>4. Running'
    <3>1. \A i \in Ids' : Put(prompts[i].marker, prompts[i].user)' BY <1>2, <2>1, StillPut
    <3> QED BY <1>u, <3>1 DEF Inv, Running, Put
  <2>5. Hands'
    <3>1. ASSUME NEW g \in Handlers PROVE Carries(hand[g])'
      <4>1. CASE g /= h BY <1>2, <1>u, <2>1, <2>h, <4>1, StillCarries
      <4>2. CASE g = h
        BY <1>c, <1>u, <2>1, <2>f, <2>h, <4>2 DEF Carries, Busy, Same
      <4> QED BY <4>1, <4>2
    <3>b. \A g \in Handlers :
          Busy(hand'[g]) => Busy(hand[g]) /\ hand'[g].prompt = hand[g].prompt
    BY <1>c, <2>f, <2>h DEF Busy
    <3>a. Alone' BY <3>b, StillAlone
    <3> QED BY <3>1, <3>a DEF Hands
  <2>6. Decisions' BY <1>u, <2>1, StillDecided
  <2>7. NoPressIsLost'
    <3>1. \A i \in Ids : Claimed(i)' => Claimed(i) BY <1>u, <2>1 DEF Claimed
    <3>2. \A i \in Ids, g \in Handlers : CarriesOut(g, i) => CarriesOut(g, i)'
      BY <1>c, <2>f, <2>h DEF CarriesOut
    <3> QED BY <1>2, <1>u, <2>1, <3>1, <3>2, StillNotLost
  <2>8. Stands' BY <1>2, <1>u, <2>1, StillStands
  <2> QED BY <2>3, <2>4, <2>5, <2>6, <2>7, <2>8 DEF Inv
<1>10. CASE place /= t.gate
  <2>a. prompts[p].marker /= Marker BY <1>10, <1>c DEF Carries
  <2>h. hand'[h] = Idle /\ \A g \in Handlers : g /= h => hand'[g] = hand[g]
    BY <1>10 DEF Save, Inv, TypeOK
  <2>t. hand' \in [Handlers -> {Idle} \cup Steps] BY <1>10 DEF Save, Inv, TypeOK
  <2>1. /\ Same /\ prompts' \in Seq(Records) /\ Len(prompts') = Len(prompts)
        /\ prompts'[p] = prompts[p] \/ prompts'[p].status = "open"
        /\ \A i \in Ids : i /= p => prompts'[i] = prompts[i]
    <3>1. CASE t.to = "retried"
      <4>1. prompts' = SetStatus(p, "open") BY <1>10, <3>1 DEF Save
      <4> QED BY <1>c, <4>1, SetDoes DEF Inv, Open, Same
    <3>2. CASE t.to /= "retried"
      <4>1. prompts' = prompts BY <1>10, <3>2 DEF Save
      <4> QED BY <4>1, Untouched
    <3> QED BY <3>1, <3>2
  <2>d. \A d \in decided : d.prompt /= p BY <1>c DEF Carries, Busy
  <2>3. TypeOK' BY <1>u, <2>1, <2>t DEF Inv, TypeOK, Records
  <2>4. Running'
    <3>1. \A i \in Ids' : Put(prompts[i].marker, prompts[i].user)' BY <1>2, <2>1, StillPut
    <3> QED BY <1>u, <3>1 DEF Inv, Running, Put
  <2>5. Hands'
    <3>1. ASSUME NEW g \in Handlers PROVE Carries(hand[g])'
      <4>1. CASE g /= h BY <1>2, <1>o, <1>u, <2>1, <2>h, <4>1, StillCarries
      <4>2. CASE g = h BY <2>h, <4>2 DEF Carries, Busy, Idle
      <4> QED BY <4>1, <4>2
    <3>b. \A g \in Handlers :
          Busy(hand'[g]) => Busy(hand[g]) /\ hand'[g].prompt = hand[g].prompt
    BY <2>h DEF Busy, Idle
    <3>a. Alone' BY <3>b, StillAlone
    <3> QED BY <3>1, <3>a DEF Hands
  <2>6. Decisions' BY <1>u, <2>1, <2>d, StillDecided
  <2>7. NoPressIsLost'
    <3>1. \A i \in Ids : i /= p /\ Claimed(i)' => Claimed(i) BY <1>u, <2>1 DEF Claimed
    <3>2. \A i \in Ids, g \in Handlers : i /= p /\ CarriesOut(g, i) => CarriesOut(g, i)'
      BY <2>h DEF CarriesOut
    <3> QED BY <1>2, <1>u, <2>1, <2>a, <3>1, <3>2, StillNotLost
  <2>8. Stands'
    <3>1. prompts'[p].status = "closed" => prompts[p].status = "closed" BY <2>1
    <3> QED BY <1>2, <1>u, <2>1, <3>1, StillStands
  <2> QED BY <2>3, <2>4, <2>5, <2>6, <2>7, <2>8 DEF Inv
<1> QED BY <1>9, <1>10

LEMMA MoveKeeps == ASSUME Inv, NEW h \in Handlers, Move(h) PROVE Inv'
<1> DEFINE p == hand[h].prompt
             n == [prompt |-> p, by |-> hand[h].by,
                   again |-> \E d \in decided : d.prompt = p]
<1>c. /\ p \in Ids /\ hand[h].by = prompts[p].user /\ hand[h].at = "moving"
      /\ prompts[p].status \in Taken /\ \A d \in decided : d.prompt /= p
  BY DEF Move, Inv, Hands, Carries, Busy
<1>h. /\ hand'[h].at = "telling" /\ hand'[h].prompt = p
      /\ hand' = [hand EXCEPT ![h] = [at |-> "telling", prompt |-> p]]
      /\ \A g \in Handlers : g /= h => hand'[g] = hand[g]
  BY DEF Move, Inv, TypeOK
<1>1. prompts' = prompts /\ Same /\ UNCHANGED <<late, crashes, visits>>
  BY Untouched DEF Move, links
<1>n. decided' = decided \cup {n} BY DEF Move
<1>m. Marker' = Nowhere BY PromptsAssumption DEF Move, Marker, Waiting
<1>2. Onward BY <1>1, <1>m DEF Onward, Inv, TypeOK
<1>p. p \in 1..MaxPrompts /\ prompts[p].user \in People
  BY <1>c, Sequence, PromptsAssumption DEF Inv, TypeOK, Records
<1>f. n.prompt = p /\ n.by = hand[h].by /\ ~ n.again BY <1>c
<1>3. TypeOK'
  <2>2. n \in [prompt : 1..MaxPrompts, by : People, again : BOOLEAN] BY <1>c, <1>p
  <2>3. hand' \in [Handlers -> {Idle} \cup Steps] BY <1>h, <1>p DEF Inv, TypeOK, Steps
  <2>4. \A d \in decided' : d \in [prompt : 1..MaxPrompts, by : People, again : BOOLEAN]
    BY <1>n, <2>2 DEF Inv, TypeOK
  <2> HIDE DEF n
  <2> QED BY <1>1, <2>3, <2>4 DEF Inv, TypeOK, Move, links
<1> HIDE DEF n
<1>4. Running'
  <2>1. \A i \in Ids' : Put(prompts[i].marker, prompts[i].user)' BY <1>1, <1>2, StillPut
  <2> QED BY <2>1, PromptsAssumption DEF Inv, Running, Put, Waiting, Move, links
<1>o. \A g \in Handlers : g /= h /\ Busy(hand[g]) => hand[g].prompt /= p
  BY <1>c DEF Inv, Hands, Alone, Busy
<1>5. Hands'
  <2>1. ASSUME NEW g \in Handlers PROVE Carries(hand[g])'
    <3>1. CASE g /= h
      <4>1. Busy(hand[g])
                => \A d \in decided' : d \in decided \/ d.prompt /= hand[g].prompt
        BY <1>n, <1>f, <1>o, <3>1
      <4> QED BY <1>1, <1>2, <1>h, <3>1, <4>1, StillCarries
    <3>2. CASE g = h
      <4>1. prompts[p].marker /= Nowhere
        BY <1>c DEF Inv, Running, Put, TypeOK, Nowhere
      <4> QED BY <1>1, <1>c, <1>h, <1>m, <3>2, <4>1 DEF Carries, Busy, Same
    <3> QED BY <3>1, <3>2
  <2>b. \A g \in Handlers :
          Busy(hand'[g]) => Busy(hand[g]) /\ hand'[g].prompt = hand[g].prompt
    BY <1>h DEF Busy
  <2>a. Alone' BY <2>b, StillAlone
  <2> QED BY <2>1, <2>a DEF Hands
<1>6. Decisions' BY <1>1, <1>c, <1>n, <1>f DEF Inv, Decisions, DecidesOnce, Same
<1>7. NoPressIsLost'
  <2>1. \A i \in Ids : prompts'[i].marker /= Marker'
    BY <1>1, <1>m DEF Inv, Running, Put, TypeOK, Nowhere
  <2> QED BY <1>1, <2>1 DEF NoPressIsLost, Same
<1>8. Stands' BY <1>1, <1>2, StillStands
<1> QED BY <1>3, <1>4, <1>5, <1>6, <1>7, <1>8 DEF Inv

LEMMA AskKeeps == ASSUME Inv, Ask PROVE Inv'
<1>0. PICK a \in run.ask :
        /\ \/ prompts' = Append(prompts, [chat |-> a[1], user |-> a[2], marker |-> run.marker,
                                          status |-> "open"])
           \/ UNCHANGED prompts
        /\ run' = [run EXCEPT !.ask = @ \ {a}]
  BY DEF Ask
<1>h. UNCHANGED <<hand, decided, late, crashes, place, visits>> /\ Len(prompts) < MaxPrompts
  BY DEF Ask
<1>2. Onward BY <1>h, Stays
<1>a. /\ run.at = "asking" /\ a \in Chats \X People /\ Put(run.marker, a[2])
      /\ run.marker \in Markers
  BY DEF Ask, Inv, Running, TypeOK
<1>r. /\ run'.at = run.at /\ run'.marker = run.marker /\ run'.ask \subseteq run.ask
      /\ run' \in [at : {"idle", "working", "asking"}, marker : Markers,
             ask : SUBSET (Chats \X People)]
  BY <1>0 DEF Inv, TypeOK
<1>1. CASE UNCHANGED prompts
  <2>2. Same BY <1>1, Untouched
  <2>3. TypeOK' BY <1>1, <1>r DEF Inv, TypeOK, Ask, links
  <2>4. Running'
    <3>1. \A i \in Ids' : Put(prompts[i].marker, prompts[i].user)' BY <1>2, <2>2, StillPut
    <3> QED BY <1>h, <1>r, <3>1 DEF Inv, Running, Put
  <2>5. Hands'
    <3>1. ASSUME NEW g \in Handlers PROVE Carries(hand[g])'
      BY <1>1, <1>2, <1>h, <2>2, StillCarries
    <3>b. \A g \in Handlers :
          Busy(hand'[g]) => Busy(hand[g]) /\ hand'[g].prompt = hand[g].prompt
    BY <1>h DEF Busy
    <3>a. Alone' BY <3>b, StillAlone
    <3> QED BY <3>1, <3>a DEF Hands
  <2>6. Decisions' BY <1>1, <1>h, <2>2, StillDecided
  <2>7. NoPressIsLost' BY <1>1, <1>2, <1>h, <2>2, StillNotLost DEF Claimed, CarriesOut
  <2>8. Stands' BY <1>1, <1>2, <1>h, <2>2, StillStands DEF Inv, TypeOK
  <2> QED BY <2>3, <2>4, <2>5, <2>6, <2>7, <2>8 DEF Inv
<1>3. ASSUME prompts' = Append(prompts, [chat |-> a[1], user |-> a[2], marker |-> run.marker,
                                         status |-> "open"])
      PROVE  Inv'
  <2> DEFINE e == [chat |-> a[1], user |-> a[2], marker |-> run.marker, status |-> "open"]
             k == Len(prompts) + 1
  <2>0. e \in Records BY <1>a DEF Records, Open
  <2>e. e.user = a[2] /\ e.marker = run.marker /\ e.status = "open" OBVIOUS
  <2>1. prompts' = Append(prompts, e) BY <1>3
  <2> HIDE DEF e
  <2>2. /\ prompts' \in Seq(Records) /\ Len(prompts') = Len(prompts) + 1
        /\ Ids' = Ids \cup {k} /\ k \notin Ids
        /\ \A i \in Ids : SameBut(i) /\ prompts'[i] = prompts[i]
        /\ prompts'[k] = e
    BY <2>0, <2>1, AppendDoes DEF Inv
  <2>m. Marker' = Marker BY <1>h DEF Marker
  <2>3. TypeOK'
    <3>1. Len(prompts') <= MaxPrompts BY <1>h, <2>2, Sequence, PromptsAssumption DEF Inv
    <3> QED BY <1>r, <2>2, <3>1 DEF Inv, TypeOK, Records, Ask, links
  <2>4. Running'
    <3>1. ASSUME NEW i \in Ids' PROVE Put(prompts[i].marker, prompts[i].user)'
      <4>1. CASE i \in Ids BY <1>h, <2>2, <4>1 DEF Inv, Running, Put
      <4>2. CASE i = k BY <1>a, <1>h, <2>2, <2>e, <4>2 DEF Put
      <4> QED BY <2>2, <4>1, <4>2
    <3> QED BY <1>h, <1>r, <3>1 DEF Inv, Running, Put
  <2>5. Hands'
    <3>1. ASSUME NEW g \in Handlers PROVE Carries(hand[g])'
      <4>1. Carries(hand[g]) BY DEF Inv, Hands
      <4>2. hand[g].at \in {"claiming", "telling"} \/ Busy(hand[g]) =>
              /\ hand[g].prompt \in Ids /\ prompts'[hand[g].prompt] = prompts[hand[g].prompt]
        BY <2>2, <4>1 DEF Carries
      <4>3. hand'[g] = hand[g] /\ decided' = decided /\ place' = place BY <1>h
      <4> QED BY <2>2, <2>m, <4>1, <4>2, <4>3 DEF Carries, Busy
    <3>a. Alone' BY <1>h DEF Inv, Hands, Alone, Busy
    <3> QED BY <3>1, <3>a DEF Hands
  <2>6. Decisions' BY <1>h, <2>2 DEF Inv, Decisions, DecidesOnce
  <2>7. NoPressIsLost'
    <3>1. ASSUME NEW i \in Ids', Claimed(i)' PROVE i \in Ids /\ Claimed(i)
      BY <1>h, <2>2, <2>e, <3>1 DEF Claimed
    <3> QED BY <1>h, <2>2, <2>m, <3>1 DEF Inv, NoPressIsLost, CarriesOut
  <2>8. Stands' BY <1>h, <2>2, <2>e, <2>m DEF Inv, Stands
  <2> QED BY <2>3, <2>4, <2>5, <2>6, <2>7, <2>8 DEF Inv
<1> QED BY <1>0, <1>1, <1>3

-----------------------------------------------------------------------------
LEMMA Keeps == Inv /\ [Next]_vars => Inv'
<1> SUFFICES ASSUME Inv, [Next]_vars PROVE Inv' OBVIOUS
<1>1. CASE \/ Enter \/ Arrive \/ Ask \/ Rest \/ Finish \/ WebDecides \/ WebCancels \/ Crash
  BY <1>1, EnterKeeps, ArriveKeeps, AskKeeps, RestKeeps, FinishKeeps, WebDecidesKeeps,
     WebCancelsKeeps, CrashKeeps
<1>2. ASSUME NEW u \in People, NewCode(u) PROVE Inv' BY <1>2, NewCodeKeeps
<1>3. ASSUME NEW c \in Chats, Unlink(c) PROVE Inv' BY <1>3, UnlinkKeeps
<1>4. ASSUME NEW h \in Handlers, Handle(h) PROVE Inv'
  BY <1>4, SaveLinkKeeps, AskReasonKeeps, ClaimKeeps, DecideKeeps, SaveKeeps, MoveKeeps,
     TooLateKeeps, RefusedKeeps,
     TellKeeps, SettleKeeps DEF Handle
<1>5. ASSUME NEW h \in Handlers, NEW i \in Ids, Press(h, i) PROVE Inv' BY <1>5, PressKeeps
<1>6. ASSUME NEW h \in Handlers, NEW c \in Chats, NEW u \in People, Redeem(h, c, u) PROVE Inv'
  BY <1>6, RedeemKeeps
<1>7. CASE UNCHANGED vars
  BY <1>7 DEF vars, job, links, Inv, TypeOK, Running, Put, Hands, Alone, Carries, Decisions,
              DecidesOnce, NoPressIsLost, Claimed, CarriesOut, Busy, Stands, Marker, Ids
<1> QED BY <1>1, <1>2, <1>3, <1>4, <1>5, <1>6, <1>7 DEF Next

\* The inductive invariant holds for any number of people, accounts and listeners.
THEOREM InvHolds == Spec => []Inv
<1> QED BY Starts, Keeps, PTL DEF Spec

\* A question decides at most once (claim_chat_prompt).
THEOREM DecidesOnceHolds == Spec => []DecidesOnce
<1>1. Inv => DecidesOnce BY DEF Inv, Decisions
<1> QED BY <1>1, InvHolds, PTL

\* It decides only as the person it was put to, who may (on_press).
THEOREM AskedDecide == Spec => []OnlyTheAskedDecide
<1>1. Inv => OnlyTheAskedDecide
  BY DEF Inv, Decisions, Running, Put, MayDecide, OnlyTheAskedDecide
<1> QED BY <1>1, InvHolds, PTL

\* While the development waits for it, a press that moved its question on is lost to a restart
\* alone (on_press).
THEOREM PressesAreCarriedOut == Spec => []NoPressIsLost
<1>1. Inv => NoPressIsLost BY DEF Inv
<1> QED BY <1>1, InvHolds, PTL

\* A question stands while the development waits, unless a press closed it by an older row
\* (settle).
THEOREM QuestionsStand == Spec => []StandsUnlessLate
<1>1. Inv => StandsUnlessLate BY DEF Inv, Stands, StandsUnlessLate
<1> QED BY <1>1, InvHolds, PTL
=============================================================================
