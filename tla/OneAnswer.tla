------------------------------ MODULE OneAnswer ------------------------------
(***************************************************************************)
(* What a lent machine promises the run loop: a question that is put to    *)
(* the account's machines is answered once, by one of them or by the       *)
(* server's own model, or by nobody when the development was told to stop. *)
(* The first answer stands.  Only a restart of the server loses it.        *)
(***************************************************************************)
CONSTANTS Questions, Machines

VARIABLE answer   \* of each question: not asked yet, asked, or who answered it

Answerers == Machines \cup {"server", "nobody"}

TypeOK == answer \in [Questions -> Answerers \cup {"unasked", "asked", "lost"}]

Init == answer = [q \in Questions |-> "unasked"]

Ask(q) == answer[q] = "unasked" /\ answer' = [answer EXCEPT ![q] = "asked"]

Settle(q) ==
  /\ answer[q] = "asked"
  /\ \E w \in Answerers : answer' = [answer EXCEPT ![q] = w]

\* The server goes down: whoever was waiting is gone, answered or not.
Lose(Q) ==
  /\ \A q \in Q : answer[q] \in Machines \cup {"asked"}
  /\ answer' = [q \in Questions |-> IF q \in Q THEN "lost" ELSE answer[q]]

Next == \/ \E q \in Questions : Ask(q) \/ Settle(q)
        \/ \E Q \in SUBSET Questions : Lose(Q)

Spec == Init /\ [][Next]_answer

\* Whatever the machines do, no question waits for ever.
EveryQuestionEnds == \A q \in Questions : answer[q] = "asked" ~> answer[q] # "asked"
==============================================================================
