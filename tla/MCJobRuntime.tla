--------------------------- MODULE MCJobRuntime ---------------------------
(***************************************************************************)
(* Small instances of JobRuntime for TLC: a batch of two images, a single  *)
(* image forced to one account, and a video.                               *)
(*                                                                         *)
(* The ledger grows with every error before a submit, and the runtime sets *)
(* them no limit.  No bound cuts them off here: an attempt that ended in   *)
(* such an error is taken out of the ledger as soon as enough others       *)
(* stand for it.  The code asks the ledger only whether there is an        *)
(* earlier attempt, how many were submitted and whether the errors reach   *)
(* the budget of whole reruns, so it behaves as before.                    *)
(***************************************************************************)
EXTENDS JobRuntime

CONSTANTS i1, i2, i3, v1, batch, single, film, gpt, grok, wImg, wImg2, wVid

Budgets == [k \in Kinds |-> 2]

MCMembers == [e \in Works |-> CASE e = batch -> {i1, i2} [] e = single -> {i3} [] OTHER -> {v1}]
MCKinds == [e \in Works |-> IF e = film THEN "video" ELSE "image"]
MCForced == [e \in Works |-> IF e = batch THEN gpt ELSE NoAccount]
MCTabs == [a \in Accounts |-> 1]
MCTwoTabs == [a \in Accounts |-> IF a = gpt THEN 2 ELSE 1]
MCWorkerKind == [w \in Workers |-> IF w = wVid THEN "video" ELSE "image"]

LOCAL SeqExt == INSTANCE SequencesExt

Unsent == [NewAttempt EXCEPT !.outcome = "error"]
Earlier(e) == {i \in DOMAIN attempts[e] : i < Len(attempts[e]) /\ attempts[e][i] = Unsent}
(* The budget is at least one, so one earlier attempt stays.               *)
Surplus(e) == EarlierErrors(e) > WholeRunBudget /\ Earlier(e) # {}

Collect(e) ==
  /\ Surplus(e)
  /\ attempts' = [attempts EXCEPT ![e] = SeqExt!RemoveAt(@, CHOOSE i \in Earlier(e) : TRUE)]
  /\ lease' = [lease EXCEPT ![e] = IF @ = 0 THEN 0 ELSE @ - 1]
  /\ worker' = [w \in Workers |->
                  IF worker[w].exec = e THEN [worker[w] EXCEPT !.number = @ - 1]
                                        ELSE worker[w]]
  /\ UNCHANGED <<job, exec, seq, due, prefer, avoid, process, allocVars>>

MCNext ==
  \/ \E e \in Works : Collect(e)
  \/ (\A e \in Works : ~Surplus(e)) /\ Next

MCSpec == Init /\ [][MCNext]_vars
MCFairSpec == MCSpec /\ Fairness /\ \A e \in Works : WF_vars(Collect(e))
=============================================================================
