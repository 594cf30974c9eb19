---------------------------- MODULE JobContract ----------------------------
(***************************************************************************)
(* What the lifecycle promises about every single job, whatever workers,   *)
(* leases, accounts, crashes and restarts do underneath: the states a user *)
(* sees, and when credit may be spent.  `spent` holds the running jobs     *)
(* whose current attempt is on record as submitted.                        *)
(*                                                                         *)
(* One step may move several jobs, since a batch is one execution; each of *)
(* them moves by one of the steps below.  The rules differ for videos: a   *)
(* submit costs credit each time, so a spent video is never tried again,   *)
(* failed or cancelled behind the user's back.                             *)
(***************************************************************************)
EXTENDS JobStates

CONSTANTS Jobs, Videos

VARIABLES state, spent

vars == <<state, spent>>

Init == state = [j \in Jobs |-> "none"] /\ spent = {}

Moves(j, from, to) == state[j] \in from /\ state'[j] = to

Unspent(j) == j \notin spent
Expendable(j) == j \notin Videos \/ Unspent(j)

Accept(j) == Moves(j, {"none"}, "queued")
Start(j) == Moves(j, Waiting, "running")
Spend(j) == Moves(j, {"running"}, "running") /\ Unspent(j) /\ j \in spent'
Complete(j) == Moves(j, {"running"}, "completed") /\ j \in spent
Retry(j) == Moves(j, {"running"}, "retry_wait") /\ Expendable(j)
Fail(j) == Moves(j, {"running"}, "failed") /\ Expendable(j)
Ask(j) == Moves(j, {"running"}, "needs_attention") /\ j \in spent
Cancel(j) == \/ Moves(j, Waiting, "cancelled")
             \/ Moves(j, {"running"}, "cancelled") /\ Expendable(j)
Resolve(j) == Moves(j, {"needs_attention"}, "cancelled")

Stay(j) == state'[j] = state[j] /\ (j \in spent' <=> j \in spent)

Step(j) ==
  \/ Stay(j)
  \/ Spend(j)
  \/ /\ Accept(j) \/ Start(j) \/ Complete(j) \/ Retry(j)
        \/ Fail(j) \/ Ask(j) \/ Cancel(j) \/ Resolve(j)
     /\ j \notin spent'

Next == \A j \in Jobs : Step(j)

Spec == Init /\ [][Next]_vars
=============================================================================
