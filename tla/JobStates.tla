----------------------------- MODULE JobStates -----------------------------
(***************************************************************************)
(* The states of a job and the moves the job manager accepts               *)
(* (src/sfboard/jobs/manager.py).  CREATED exists only inside the          *)
(* transaction of submit(), so the models start a job in "none", which     *)
(* stands for "no row yet", and accept it directly into "queued".          *)
(***************************************************************************)

Settled == {"completed", "failed", "cancelled"}
Waiting == {"queued", "retry_wait"}
States == {"none", "running", "needs_attention"} \cup Waiting \cup Settled

LegalTransitions ==
  ({"queued"} \X {"running", "failed", "cancelled"})
  \cup ({"running"} \X {"completed", "retry_wait", "failed", "cancelled",
                        "needs_attention"})
  \cup ({"retry_wait"} \X {"queued", "failed", "cancelled"})
  \cup ({"needs_attention"} \X {"completed", "failed", "cancelled"})

(* _transition(): asking for the state the job is in already is no error.  *)
MayBecome(from, to) == from = to \/ <<from, to>> \in LegalTransitions
=============================================================================
