---------------------------- MODULE RetryPolicy ----------------------------
(***************************************************************************)
(* The one place that decides whether an attempt is tried again            *)
(* (src/sfboard/jobs/retry.py).  A pure function of the error class, of    *)
(* whether the failing phase lies past the submit boundary, and of the     *)
(* attempt history of the execution.  Delays in seconds are abstracted to  *)
(* "at once" (delay 0) or "later"; wording of reason codes to the two the  *)
(* runtime branches on.                                                    *)
(***************************************************************************)
EXTENDS Naturals

CONSTANTS SubmitBudget,    \* TRAN_GUI: how often each kind may be submitted
          WholeRunBudget   \* TRAN_CHAY_LAI_CA_LO: whole reruns of a batch

Kinds == {"image", "video"}

(* A budget allows one submit at least: nothing asks before the first.      *)
ASSUME BudgetAssumption == /\ SubmitBudget \in [Kinds -> Nat \ {0}]
                           /\ WholeRunBudget \in Nat

ErrorClasses == {"validation", "cancelled", "session_transient",
                 "provider_transient", "quota_rate_limit", "permanent",
                 "unknown_outcome", "account_lost"}

(* What AttemptHistory carries: tries before this one, how many of the     *)
(* tries were really submitted, whole-batch reruns already made.           *)
Histories == [attempts : Nat, submitted : Nat, wholeReruns : Nat]

RetryActions == {"retry", "fail", "needs_attention", "cancel"}

Decisions == [action : RetryActions, to : STRING, atOnce : BOOLEAN,
              cooldown : BOOLEAN, rotate : BOOLEAN, reconnect : BOOLEAN]

Final(action, to) ==
  [action |-> action, to |-> to, atOnce |-> FALSE,
   cooldown |-> FALSE, rotate |-> FALSE, reconnect |-> FALSE]

(* Off by one: the budget is compared after one submit too many.           *)
ExhaustedLate(history, kind) ==
  \/ history.submitted > SubmitBudget[kind]
  \/ history.wholeReruns > WholeRunBudget

Exhausted(history, kind) ==
  \/ history.submitted >= SubmitBudget[kind]
  \/ history.wholeReruns >= WholeRunBudget

(* Whether credit was spent is unknown: the class says so, or the session  *)
(* or the account was lost after the message had been sent.                *)
OutcomeUnknown(class, submitted) ==
  \/ class = "unknown_outcome"
  \/ submitted /\ class \in {"session_transient", "account_lost"}

(* The first session loss of an execution reconnects on the same account   *)
(* at once; every other retry backs off and asks for another account.      *)
RetryOf(class, history) ==
  LET reconnect == class = "session_transient" /\ history.attempts = 0
  IN  [action |-> "retry", to |-> "retry_wait", atOnce |-> reconnect,
       cooldown |-> class = "quota_rate_limit",
       rotate |-> ~reconnect, reconnect |-> reconnect]

Decide(class, submitted, history, kind) ==
  CASE class = "cancelled"                  -> Final("cancel", "cancelled")
    [] class \in {"validation", "permanent"} -> Final("fail", "failed")
    [] OutcomeUnknown(class, submitted)     -> Final("needs_attention", "needs_attention")
    [] /\ class \notin {"cancelled", "validation", "permanent"}
       /\ ~OutcomeUnknown(class, submitted)
       /\ Exhausted(history, kind)          -> Final("fail", "failed")
    [] OTHER                                -> RetryOf(class, history)

DecidePartial(history, kind) ==
  IF Exhausted(history, kind)
  THEN Final("fail", "failed")
  ELSE Final("retry", "retry_wait")
=============================================================================
