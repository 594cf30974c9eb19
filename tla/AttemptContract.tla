-------------------------- MODULE AttemptContract --------------------------
(***************************************************************************)
(* What the lifecycle runtime relies on when it lets an executor make one  *)
(* attempt (run_image_attempt, run_video_attempt in live_executor.py,      *)
(* run_once in executor_adapter.py): the phases are told in their order,   *)
(* an attempt that ends before it told of its submit has spent nothing and *)
(* may be made again, and outputs come only at the end of all phases.  An  *)
(* attempt whose lease was revoked can tell nothing any more.              *)
(*                                                                         *)
(* Late: the provider may take a message after the executor gave up on it, *)
(* or unseen by it.  Then "not sent" says nothing about what was spent;    *)
(* all the rest is promised as before.                                     *)
(***************************************************************************)
EXTENDS Naturals

CONSTANT Late   \* TRUE or FALSE

VARIABLES spent,   \* the provider has taken the message
          phase,   \* the last phase the runtime was told
          verdict, \* how the attempt ended, or "open"
          revoked  \* the lease is gone: the phases are refused

vars == <<spent, phase, verdict, revoked>>

Phases == <<"attaching", "submitted", "waiting", "downloading", "saving">>
Verdicts == {"not_sent", "raised", "empty", "outputs"}

Init == spent = FALSE /\ phase = "attaching" /\ verdict = "open" /\ revoked = FALSE

Spend == /\ ~spent /\ phase = "attaching"
         /\ verdict = "open" \/ (Late /\ verdict = "not_sent")
         /\ spent' = TRUE
         /\ UNCHANGED <<phase, verdict, revoked>>

Tell == /\ spent /\ ~revoked /\ verdict = "open"
        /\ \E i \in 1 .. 4 : phase = Phases[i] /\ phase' = Phases[i + 1]
        /\ UNCHANGED <<spent, verdict, revoked>>

Revoke == revoked' = TRUE /\ UNCHANGED <<spent, phase, verdict>>

Conclude ==
  /\ verdict = "open" /\ verdict' \in Verdicts
  /\ verdict' = "not_sent" => ~spent \/ Late
  /\ verdict' = "raised" /\ phase = "attaching" => ~spent \/ revoked
  /\ verdict' = "empty" => phase \in {"waiting", "downloading"}
  /\ verdict' = "outputs" => phase = "saving"
  /\ UNCHANGED <<spent, phase, revoked>>

Next == Spend \/ Tell \/ Revoke \/ Conclude

Spec == Init /\ [][Next]_vars
=============================================================================
