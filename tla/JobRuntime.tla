----------------------------- MODULE JobRuntime -----------------------------
(***************************************************************************)
(* The lifecycle runtime (src/sfboard/jobs/runtime.py) with the scheduler, *)
(* the attempt ledger and the worker threads that drive it through the     *)
(* executor adapter.                                                       *)
(*                                                                         *)
(* An execution is the physical unit a worker takes: one video, or a batch *)
(* of images sent in one message.  Taking it opens an attempt and holds a  *)
(* lease and a seat (account, tab) until the attempt's outcome is          *)
(* reported.  SQLite holds the jobs, the executions and the attempts; the  *)
(* leases, the seats, the forced accounts and the worker threads are       *)
(* memory and die with the process.                                        *)
(*                                                                         *)
(* Every method of the runtime runs under its lock and its writes in one   *)
(* transaction, so a method is one step.  Between two steps of a worker    *)
(* anything may happen: a user's cancel, another worker, a crash.          *)
(*                                                                         *)
(* Abstractions: seq is the order of submission (a restart numbers anew    *)
(* but keeps the order); a write to SQLite does not fail; time is the      *)
(* actions Due and CooldownOver.                                           *)
(***************************************************************************)
EXTENDS AccountAllocator, RetryPolicy, JobStates, Sequences

CONSTANTS Jobs,
          Members,         \* execution -> its jobs (Works: the executions)
          KindOf,          \* execution -> "image" or "video"
          Forced,          \* execution -> forced_account_id, or NoAccount
          Fallback,        \* executions with allow_account_fallback
          Workers,
          WorkerKind,      \* worker -> the kind its thread asks for
          NoExec,          \* "no execution"
          PartialDelivery, \* may an executor deliver part of a batch?
          TabsOf,          \* account -> its tabs in the accounts file
          VideoAccounts,   \* accounts of kind "vid"
          Changeable,      \* accounts the user changes while it runs
          MaxTabs,         \* MAX_TABS: the most tabs an account is given
          MaxCrashes       \* bound: crashes of the process

ASSUME RuntimeAssumption ==
  /\ Members \in [Works -> (SUBSET Jobs) \ {{}}]
  /\ \A e, f \in Works : e # f => Members[e] \cap Members[f] = {}
  /\ KindOf \in [Works -> Kinds]
  /\ \A e \in Works : KindOf[e] = "video" => \E j \in Jobs : Members[e] = {j}
  /\ Forced \in [Works -> Accounts \cup {NoAccount}]
  /\ Fallback \subseteq Works
  /\ WorkerKind \in [Workers -> Kinds]
  /\ NoExec \notin Works
  /\ PartialDelivery \in BOOLEAN
  /\ TabsOf \in [Accounts -> Nat \ {0}]
  /\ VideoAccounts \subseteq Accounts /\ Changeable \subseteq Accounts
  /\ MaxTabs \in Nat \ {0} /\ MaxCrashes \in Nat

VARIABLES job,       \* state of each job                            (SQLite)
          exec,      \* state of each execution                      (SQLite)
          seq,       \* the scheduler's order of the executions      (SQLite)
          due,       \* executions whose not_before has passed       (SQLite)
          attempts,  \* the ledger: attempts of each execution       (SQLite)
          lease,     \* number of the attempt whose lease is active, or 0
          prefer,    \* _preferred_account
          avoid,     \* _avoid_account
          worker,    \* what each worker thread is driving
          up,        \* the process runs and has recovered
          crashes

durable == <<job, exec, seq, due, attempts>>
allocRest == <<maxSlots, enabled, videoOk, broken, cooling, pinned>>
process == <<up, crashes>>
vars == <<durable, lease, prefer, avoid, worker, process, allocVars>>

ExecStates == {"none", "ready", "leased", "finished"}
Outcomes == {"open", "success", "error", "unknown", "cancelled"}

(* clicked is what the provider saw; submitted is submitted_at, what the   *)
(* ledger knows of it.                                                     *)
Attempts == [clicked : BOOLEAN, submitted : BOOLEAN, outcome : Outcomes]
NewAttempt == [clicked |-> FALSE, submitted |-> FALSE, outcome |-> "open"]

(* A worker is preparing the message, has clicked the send button and not  *)
(* yet told the runtime, or is waiting for the provider's result.          *)
Phases == {"before", "clicked", "after"}
Idle == [exec |-> NoExec, number |-> 0, phase |-> "idle", seat |-> NoSeat]
Drive(e, n, p, s) == [exec |-> e, number |-> n, phase |-> p, seat |-> s]
Drives == [exec : Works, number : Nat \ {0}, phase : Phases, seat : Seat]

-----------------------------------------------------------------------------

Running(e) == {j \in Members[e] : job[j] = "running"}
Live(e) == {j \in Members[e] : job[j] \notin Settled \cup {"needs_attention"}}

SetJobs(S, to) == job' = [j \in Jobs |-> IF j \in S THEN to ELSE job[j]]

Last(e) == attempts[e][Len(attempts[e])]
(* A plausible mistake: cancel forgets to ask whether it was submitted.    *)
NeverSubmitted(e) == FALSE
Submitted(e) == lease[e] # 0 /\ Last(e).submitted
HeldBy(w) == worker[w].exec
LeaseHeld(w) ==
  worker[w] # Idle /\ lease[worker[w].exec] = worker[w].number

SubmittedCount(e) ==
  Cardinality({i \in DOMAIN attempts[e] : attempts[e][i].submitted})
EarlierErrors(e) ==
  Cardinality({i \in DOMAIN attempts[e] :
                 i # Len(attempts[e]) /\ attempts[e][i].outcome = "error"})

(* What the runtime tells the retry policy about this execution: only a    *)
(* partial success passes the number of whole reruns.                      *)
History(e, reruns) ==
  LET earlier == Len(attempts[e]) - 1
      sent == SubmittedCount(e)
  IN  [attempts |-> IF earlier >= sent THEN earlier ELSE sent,
       submitted |-> sent, wholeReruns |-> reruns]

FinishAttempt(e, result) ==
  attempts' = [attempts EXCEPT ![e][Len(attempts[e])].outcome = result]

(* A plausible mistake: whatever is not finished is offered to a worker.   *)
ActiveOf(kind) ==
  {e \in Works : exec[e] \in {"ready", "leased"} /\ KindOf[e] = kind}

ReadyOf(kind) ==
  {e \in Works : exec[e] = "ready" /\ e \in due /\ KindOf[e] = kind}

Foremost(kind) == {e \in ReadyOf(kind) : \A f \in ReadyOf(kind) : seq[e] <= seq[f]}

(* A plausible mistake: a retry that is not put back into the schedule.    *)
FinishAnyway(e, atOnce) == exec' = [exec EXCEPT ![e] = "finished"] /\ UNCHANGED due

(* The scheduler's release(), with a delay or at once, and its finish().   *)
Requeue(e, atOnce) ==
  /\ exec' = [exec EXCEPT ![e] = "ready"]
  /\ due' = IF atOnce THEN due ELSE due \ {e}
FinishExec(e) == exec' = [exec EXCEPT ![e] = "finished"] /\ UNCHANGED due

(* A plausible mistake: the lease is dropped and its seat forgotten.       *)
ForgetSeat(e) == lease' = [lease EXCEPT ![e] = 0] /\ UNCHANGED seats
DropLease(e) == lease' = [lease EXCEPT ![e] = 0] /\ ReleaseSeat(e)
Return(w) == worker' = [worker EXCEPT ![w] = Idle]

RestorePins(ready) == {e \in ready : Forced[e] # NoAccount}

(* _sync_runtime_accounts: any account may run videos while no account of  *)
(* kind "vid" is switched on.                                              *)
VideoCapable(on) ==
  IF on \cap VideoAccounts = {} THEN Accounts ELSE VideoAccounts

-----------------------------------------------------------------------------

(* The startup state: the accounts are registered, none has been used.     *)
Init ==
  /\ job = [j \in Jobs |-> "none"]
  /\ exec = [e \in Works |-> "none"]
  /\ seq = [e \in Works |-> 0] /\ due = {}
  /\ attempts = [e \in Works |-> <<>>]
  /\ lease = [e \in Works |-> 0]
  /\ prefer = [e \in Works |-> NoAccount]
  /\ avoid = [e \in Works |-> NoAccount]
  /\ worker = [w \in Workers |-> Idle]
  /\ up = TRUE /\ crashes = 0
  /\ maxSlots = TabsOf
  /\ enabled = Accounts /\ videoOk = VideoCapable(Accounts)
  /\ broken = {} /\ cooling = {} /\ pinned = {}
  /\ seats = [e \in Works |-> NoSeat]

(* The producer's jobs, their execution and its forced account in one      *)
(* transaction; a replay of the same intent returns without a new one.     *)
Submit(e) ==
  /\ up /\ exec[e] = "none"
  /\ exec' = [exec EXCEPT ![e] = "ready"]
  /\ SetJobs(Members[e], "queued")
  /\ seq' = [seq EXCEPT ![e] = Cardinality({f \in Works : exec[f] # "none"})]
  /\ due' = due \cup {e}
  /\ pinned' = pinned \cup RestorePins({e})
  /\ UNCHANGED <<attempts, lease, prefer, avoid, worker, process, maxSlots,
                 enabled, videoOk, broken, cooling, seats>>

(* A worker asks for the first ready execution of its kind, and only that  *)
(* one: when no account may run it the worker leaves with nothing.         *)
LeaseNext(w) ==
  /\ up /\ worker[w] = Idle
  /\ \E e \in Foremost(WorkerKind[w]) :
       \E a \in Choices(e, KindOf[e], Forced[e], e \in Fallback,
                        prefer[e], avoid[e]) :
         LET n == Len(attempts[e]) + 1
         IN  /\ TakeSeat(e, a)
             /\ exec' = [exec EXCEPT ![e] = "leased"]
             /\ attempts' = [attempts EXCEPT ![e] = Append(@, NewAttempt)]
             /\ SetJobs({j \in Members[e] : job[j] \in Waiting}, "running")
             /\ lease' = [lease EXCEPT ![e] = n]
             /\ prefer' = [prefer EXCEPT ![e] = NoAccount]
             /\ avoid' = [avoid EXCEPT ![e] = NoAccount]
             /\ worker' = [worker EXCEPT ![w] = Drive(e, n, "before", seats'[e])]
  /\ UNCHANGED <<seq, due, process, allocRest>>

-----------------------------------------------------------------------------
(* The steps of a worker on its execution.                                 *)

(* The send button is clicked.  A video's thread looks at the cancel flag  *)
(* before it, an image's does not; neither holds the runtime's lock, so    *)
(* the click may follow a cancel.                                          *)
Click(w) ==
  /\ up /\ worker[w].phase = "before"
  /\ worker' = [worker EXCEPT ![w].phase = "clicked"]
  /\ attempts' = [attempts EXCEPT ![HeldBy(w)][worker[w].number].clicked = TRUE]
  /\ UNCHANGED <<job, exec, seq, due, lease, prefer, avoid, process, allocVars>>

(* on_submitted: the submit boundary becomes durable.                      *)
EmitSubmitted(w) ==
  /\ up /\ worker[w].phase = "clicked" /\ LeaseHeld(w)
  /\ worker' = [worker EXCEPT ![w].phase = "after"]
  /\ attempts' = [attempts EXCEPT ![HeldBy(w)][worker[w].number].submitted = TRUE]
  /\ UNCHANGED <<job, exec, seq, due, lease, prefer, avoid, process, allocVars>>

(* Every member still running has its output.                              *)
Succeed(w) ==
  LET e == HeldBy(w)
  IN  /\ up /\ worker[w].phase = "after" /\ LeaseHeld(w)
      /\ SetJobs(Running(e), "completed")
      /\ FinishAttempt(e, "success")
      /\ FinishExec(e) /\ DropLease(e) /\ Return(w)
      /\ UNCHANGED <<seq, prefer, avoid, process, allocRest>>

(* An image batch came back incomplete: the delivered members complete and *)
(* the execution is run again for the rest, within its budgets.            *)
Partial(w, delivered) ==
  LET e == HeldBy(w)
      d == DecidePartial(History(e, EarlierErrors(e)), KindOf[e])
  IN  /\ up /\ worker[w].phase = "after" /\ LeaseHeld(w)
      /\ KindOf[e] = "image"
      /\ delivered \subseteq Running(e) /\ delivered # Running(e)
      /\ delivered = {} \/ PartialDelivery
      /\ job' = [j \in Jobs |-> CASE j \in delivered -> "completed"
                                  [] j \in Running(e) \ delivered -> d.to
                                  [] OTHER -> job[j]]
      /\ FinishAttempt(e, "error")
      /\ IF d.action = "retry" THEN Requeue(e, d.atOnce) ELSE FinishExec(e)
      /\ DropLease(e) /\ Return(w)
      /\ UNCHANGED <<seq, prefer, avoid, process, allocRest>>

(* A plausible mistake: every exception of a provider is worth a retry.    *)
AnyPhase(phase) == {"provider_transient"}

(* _classify_live_exception: past the submit boundary the outcome is       *)
(* unknown, before it the exception tells.  It never yields account_lost   *)
(* or cancelled, which the policy also knows.                              *)
ClassesAt(phase) ==
  CASE phase = "after"  -> {"unknown_outcome"}
    [] phase = "before" -> {"validation", "permanent", "quota_rate_limit",
                            "session_transient", "provider_transient"}
    [] OTHER            -> {}

FailDecision(w, class) ==
  Decide(class, worker[w].phase = "after", History(HeldBy(w), 0),
         KindOf[HeldBy(w)])

(* A decision moves every member, those settled by an earlier attempt too. *)
Allowed(e, to) == \A j \in Members[e] : MayBecome(job[j], to)

(* A plausible mistake: the action's name is taken for the outcome's.       *)
SameName(action) == action

OutcomeOf(action) ==
  CASE action = "cancel"          -> "cancelled"
    [] action = "needs_attention" -> "unknown"
    [] OTHER                      -> "error"

Reported(w, class) == up /\ LeaseHeld(w) /\ class \in ClassesAt(worker[w].phase)

(* The cooldown is noted unless the account was deleted in the meantime.   *)
Fail(w, class) ==
  LET e == HeldBy(w)
      d == FailDecision(w, class)
      acct == seats[e].acct
  IN  /\ Reported(w, class) /\ Allowed(e, d.to)
      /\ FinishAttempt(e, OutcomeOf(d.action))
      /\ SetJobs(Members[e], d.to)
      /\ IF d.action = "retry" THEN Requeue(e, d.atOnce) ELSE FinishExec(e)
      /\ cooling' = IF d.cooldown /\ Known(acct) THEN cooling \cup {acct} ELSE cooling
      /\ broken' = IF class = "account_lost" /\ Known(acct)
                   THEN broken \cup {acct} ELSE broken
      /\ prefer' = IF d.reconnect THEN [prefer EXCEPT ![e] = acct] ELSE prefer
      /\ avoid' = IF d.rotate THEN [avoid EXCEPT ![e] = acct] ELSE avoid
      /\ DropLease(e) /\ Return(w)
      /\ UNCHANGED <<seq, process, maxSlots, enabled, videoOk, pinned>>

(* A member that may not make the move aborts the whole transaction; the   *)
(* exception leaves the method before the lease and the seat are dropped   *)
(* and ends the worker's turn.                                             *)
FailRollsBack(w, class) ==
  /\ Reported(w, class)
  /\ ~Allowed(HeldBy(w), FailDecision(w, class).to)
  /\ Return(w)
  /\ UNCHANGED <<durable, lease, prefer, avoid, process, allocVars>>

(* A worker whose execution was cancelled finds out: its next report is    *)
(* refused or it sees the members cancelled, and it asks for other work.   *)
StopStale(w) ==
  /\ up /\ worker[w] # Idle /\ ~LeaseHeld(w)
  /\ Return(w)
  /\ UNCHANGED <<durable, lease, prefer, avoid, process, allocVars>>

-----------------------------------------------------------------------------
(* The user, the clock and the process.                                    *)

(* Cancelling a job cancels the whole execution; a video that is on record *)
(* as submitted is not cancellable.                                        *)
CancelLeased(j) ==
  \E e \in Works :
    /\ up /\ j \in Live(e) /\ lease[e] # 0
    /\ ~(KindOf[e] = "video" /\ Submitted(e))
    /\ FinishAttempt(e, "cancelled")
    /\ SetJobs(Live(e), "cancelled")
    /\ FinishExec(e) /\ DropLease(e)
    /\ UNCHANGED <<seq, prefer, avoid, worker, process, allocRest>>

CancelWaiting(j) ==
  \E e \in Works :
    /\ up /\ j \in Live(e) /\ lease[e] = 0 /\ exec[e] = "ready"
    /\ SetJobs(Live(e), "cancelled")
    /\ FinishExec(e)
    /\ UNCHANGED <<seq, attempts, lease, prefer, avoid, worker, process,
                   allocVars>>

ResolveNeedsAttention(j) ==
  /\ up /\ job[j] = "needs_attention"
  /\ SetJobs({j}, "cancelled")
  /\ UNCHANGED <<exec, seq, due, attempts, lease, prefer, avoid, worker,
                 process, allocVars>>

(* The backoff of a retry runs out.                                        *)
Due(e) ==
  /\ exec[e] = "ready" /\ e \notin due
  /\ due' = due \cup {e}
  /\ UNCHANGED <<job, exec, seq, attempts, lease, prefer, avoid, worker,
                 process, allocVars>>

CooldownOver(a) ==
  /\ a \in cooling
  /\ cooling' = cooling \ {a}
  /\ UNCHANGED <<durable, lease, prefer, avoid, worker, process, maxSlots,
                 enabled, videoOk, broken, pinned, seats>>

(* The user's list of accounts, saved and handed to the allocator: account *)
(* a with its tabs and its switch, its health kept; with no tabs it is     *)
(* forgotten along with its health, whatever seats are taken on it.        *)
HandAccount(a, tabs, on) ==
  /\ maxSlots' = [maxSlots EXCEPT ![a] = tabs]
  /\ enabled' = IF on THEN enabled \cup {a} ELSE enabled \ {a}
  /\ videoOk' = VideoCapable(enabled')
  /\ broken' = IF tabs = 0 THEN broken \ {a} ELSE broken
  /\ cooling' = IF tabs = 0 THEN cooling \ {a} ELSE cooling

(* The switch, the number of tabs, the removal of an account, and a new    *)
(* one that gets its port.                                                 *)
ChangeAccount(a) ==
  /\ up /\ a \in Changeable
  /\ \/ Known(a) /\ HandAccount(a, maxSlots[a], a \notin enabled)
     \/ Known(a) /\ \E n \in 1 .. MaxTabs : HandAccount(a, n, a \in enabled)
     \/ Known(a) /\ HandAccount(a, 0, FALSE)
     \/ ~Known(a) /\ HandAccount(a, 1, TRUE)
  /\ UNCHANGED <<durable, lease, prefer, avoid, worker, process, pinned, seats>>

(* The process dies; what is not in SQLite is gone.                        *)
Crash ==
  /\ up /\ crashes < MaxCrashes
  /\ up' = FALSE /\ crashes' = crashes + 1
  /\ lease' = [e \in Works |-> 0]
  /\ prefer' = [e \in Works |-> NoAccount]
  /\ avoid' = [e \in Works |-> NoAccount]
  /\ worker' = [w \in Workers |-> Idle]
  /\ seats' = [e \in Works |-> NoSeat]
  /\ broken' = {} /\ cooling' = {} /\ pinned' = {}
  /\ UNCHANGED <<durable, maxSlots, enabled, videoOk>>

(* The next start, before any worker or request: each leased execution is  *)
(* settled by whether its open attempt is on record as submitted, and the  *)
(* forced accounts are read back for everything that is ready.             *)
Recover ==
  LET leased == {e \in Works : exec[e] = "leased"}
      sent == {e \in leased : Last(e).submitted}
      movedTo(e) == IF e \in sent THEN "needs_attention" ELSE "retry_wait"
      ownerOf(j) == CHOOSE e \in Works : j \in Members[e]
      moved == UNION {Running(e) : e \in leased}
  IN  /\ ~up /\ up' = TRUE
      /\ job' = [j \in Jobs |-> IF j \in moved THEN movedTo(ownerOf(j)) ELSE job[j]]
      /\ attempts' = [e \in Works |->
           IF e \in leased
           THEN [attempts[e] EXCEPT ![Len(attempts[e])].outcome =
                   IF e \in sent THEN "unknown" ELSE "error"]
           ELSE attempts[e]]
      /\ exec' = [e \in Works |-> CASE e \in sent -> "finished"
                                    [] e \in leased \ sent -> "ready"
                                    [] OTHER -> exec[e]]
      /\ due' = due \cup (leased \ sent)
      /\ pinned' = RestorePins({e \in Works : exec'[e] = "ready"})
      /\ UNCHANGED <<seq, lease, prefer, avoid, worker, crashes, maxSlots,
                     enabled, videoOk, broken, cooling, seats>>

-----------------------------------------------------------------------------

Report(w) ==
  \/ Succeed(w)
  \/ \E D \in SUBSET Jobs : Partial(w, D)
  \/ \E c \in ErrorClasses : Fail(w, c) \/ FailRollsBack(w, c)

WorkerStep(w) == Click(w) \/ EmitSubmitted(w) \/ Report(w) \/ StopStale(w)

UserStep(j) == CancelLeased(j) \/ CancelWaiting(j) \/ ResolveNeedsAttention(j)

Next ==
  \/ \E e \in Works : Submit(e) \/ Due(e)
  \/ \E w \in Workers : LeaseNext(w) \/ WorkerStep(w)
  \/ \E j \in Jobs : UserStep(j)
  \/ \E a \in Accounts : CooldownOver(a) \/ ChangeAccount(a)
  \/ Crash \/ Recover

Spec == Init /\ [][Next]_vars

(* A worker thread loops for as long as the process runs, every wait for a *)
(* provider has a timeout, so its turn ends in a report; time passes; and  *)
(* a stopped program is started again.                                     *)
Fairness ==
  /\ \A w \in Workers : WF_vars(LeaseNext(w)) /\ WF_vars(WorkerStep(w))
  /\ \A e \in Works : WF_vars(Due(e))
  /\ \A a \in Accounts : WF_vars(CooldownOver(a))
  /\ WF_vars(Recover)

FairSpec == Spec /\ Fairness

-----------------------------------------------------------------------------
(* Properties.                                                             *)

TypeOK ==
  /\ AllocTypeOK
  /\ job \in [Jobs -> States]
  /\ exec \in [Works -> ExecStates]
  /\ seq \in [Works -> Nat] /\ due \subseteq Works
  /\ attempts \in [Works -> Seq(Attempts)]
  /\ lease \in [Works -> Nat]
  /\ prefer \in [Works -> Accounts \cup {NoAccount}]
  /\ avoid \in [Works -> Accounts \cup {NoAccount}]
  /\ worker \in [Workers -> Drives \cup {Idle}]
  /\ up \in BOOLEAN /\ crashes \in Nat

(* README-level invariant "one lease per active execution, one owner per   *)
(* seat": while the process runs, memory and SQLite tell the same story.   *)
(* An execution is leased in the schedule iff the runtime holds a lease    *)
(* for its newest attempt, iff that attempt is open, iff a seat is taken   *)
(* for it.  A lease dropped without its seat, or a seat without its lease, *)
(* starves the account for good; a lease without its row is lost work.     *)
LeaseMatchesLedger ==
  \A e \in Works :
    /\ up => (exec[e] = "leased" <=> lease[e] # 0)
    /\ lease[e] # 0 <=> seats[e] # NoSeat
    /\ lease[e] # 0 => lease[e] = Len(attempts[e])
    /\ \A i \in DOMAIN attempts[e] :
         attempts[e][i].outcome = "open"
           <=> (exec[e] = "leased" /\ i = Len(attempts[e]))

(* No job is left behind by its execution, also across cancels, partial    *)
(* batches, rollbacks and restarts: what waits has an execution a worker   *)
(* will find, what runs is leased, and a finished execution leaves no      *)
(* member that still expects to run.                                       *)
NoStrandedJob ==
  \A e \in Works : \A j \in Members[e] :
    /\ job[j] \in Waiting => exec[e] = "ready"
    /\ job[j] = "running" => exec[e] = "leased"

(* A video on record as submitted is never given to a worker again: no     *)
(* retry, recovery or crash opens an attempt after a submitted one.        *)
VideoNeverResubmits ==
  \A e \in Works : KindOf[e] = "video" =>
    \A i \in DOMAIN attempts[e] :
      attempts[e][i].submitted => i = Len(attempts[e]) /\ exec[e] # "ready"

(* An execution never puts more submits on record than its kind's budget,  *)
(* counting every attempt of its life, those before a restart included.    *)
SubmitBudgetKept ==
  \A e \in Works :
    SubmittedCount(e) <= SubmitBudget[KindOf[e]]

(* An execution forced to an account without fallback never sits on        *)
(* another one, through retries that rotate the account and through        *)
(* restarts, after which the constraint must be back before the first      *)
(* worker asks.                                                            *)
ForcedKept ==
  \A e \in Works :
    seats[e] # NoSeat /\ Forced[e] # NoAccount /\ e \notin Fallback
      => seats[e].acct = Forced[e]

(* Two threads never drive the same execution, not even one that was       *)
(* cancelled and has not noticed yet: the message would be sent twice.     *)
OneThreadPerExecution ==
  \A v, w \in Workers :
    v # w /\ worker[v] # Idle => worker[v].exec # worker[w].exec

(* docs/JOB-STATE-MACHINE.md: the seat is released on every outcome, also  *)
(* on an exception or a rollback.  So a seat that is taken always has a    *)
(* worker that will still report on it.                                    *)
SeatReleasedOnEveryOutcome ==
  \A e \in Works : seats[e] # NoSeat =>
    \E w \in Workers : worker[w].exec = e /\ LeaseHeld(w)

(* image_chatgpt.py: each worker one tab, never shared.  Two threads that  *)
(* drive a browser never drive the same tab of the same account.           *)
TabExclusive ==
  \A v, w \in Workers :
    v # w /\ worker[v] # Idle /\ worker[w] # Idle
      => worker[v].seat # worker[w].seat

(* README: a video is not sent blindly a second time, whatever was lost    *)
(* after its submit; the send button is clicked at most once.              *)
VideoClickedOnce ==
  \A e \in Works : KindOf[e] = "video" =>
    Cardinality({i \in DOMAIN attempts[e] : attempts[e][i].clicked}) <= 1

(* The retry policy puts no limit to errors that strike before a submit    *)
(* (retry.py: the budget counts submits), so nothing ends while they go    *)
(* on.  They stop when no attempt that never submitted is put back into    *)
(* the schedule by its worker any more.                                    *)
RetriedUnsent ==
  \E e \in Works : /\ up /\ exec[e] = "leased" /\ exec'[e] = "ready"
                   /\ ~Last(e).submitted

ErrorsStop == <>[][~RetriedUnsent]_vars

(* Every job that was accepted ends, completed, failed, cancelled or in    *)
(* front of the user, provided that the errors before a submit stop at     *)
(* some time: whatever number of them came before, whatever the submits    *)
(* that failed, the partial batches, the cancels and the crashes.  The     *)
(* accounts are those of the start.                                        *)
EveryJobSettles ==
  ErrorsStop =>
    \A j \in Jobs :
      job[j] \in Waiting \cup {"running"}
        ~> job[j] \in Settled \cup {"needs_attention"}

(* What the runtime promises about each job alone, with the submitted      *)
(* attempt of its execution as the credit that is spent.                   *)
SpentJobs ==
  {j \in Jobs : /\ job[j] = "running"
                /\ \E e \in Works : j \in Members[e] /\ attempts[e] # <<>>
                                                      /\ Last(e).submitted}

Contract == INSTANCE JobContract
  WITH Videos <- UNION {Members[e] : e \in {f \in Works : KindOf[f] = "video"}},
       state <- job, spent <- SpentJobs

ImplementsContract == Contract!Spec
=============================================================================
