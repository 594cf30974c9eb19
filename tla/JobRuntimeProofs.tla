-------------------------- MODULE JobRuntimeProofs --------------------------
(***************************************************************************)
(* What the runtime keeps, for every set of jobs, executions, accounts and *)
(* workers, every budget and any number of errors and crashes.             *)
(*                                                                         *)
(* First the types and the seats of the accounts.  Then the ledger: memory *)
(* and ledger agree, no job is stranded, no execution is driven twice, a   *)
(* submitted video is not run again, a forced execution stays on its       *)
(* account, no execution is submitted more often than its budget allows,   *)
(* every step is one the contract of each job allows, and executions are   *)
(* served in the order in which they were submitted.                       *)
(*                                                                         *)
(* A worker's report and a user's cancel end an attempt in the same way    *)
(* (Closes); a lease begins in one way (LeaseTaken).  Most of the argument *)
(* about the ledger is about these two.                                    *)
(***************************************************************************)
EXTENDS JobRuntime, FiniteSetTheorems, SequenceTheorems, WellFoundedInduction, TLAPS

-----------------------------------------------------------------------------
(* What allocate() and release() preserve: an account below its tab count  *)
(* has a free tab, the lowest one is well defined, and no step of the      *)
(* allocator gives one tab to two works.                                   *)

(* _ngoi() never runs out of tabs (its next(...) never raises): when fewer *)
(* works sit on an account than it has tabs, one of its tabs is free.      *)
LEMMA FreeSlotExists ==
  ASSUME AllocTypeOK, NEW a \in Accounts, InUse(a) < maxSlots[a]
  PROVE  FreeSlots(a) # {}
<1> DEFINE Slots == 0 .. maxSlots[a] - 1
           holder == [i \in Slots |-> CHOOSE w \in SeatsOn(a) : seats[w].slot = i]
<1>1. maxSlots[a] \in Nat
  BY DEF AllocTypeOK
<1>2. IsFiniteSet(Slots) /\ Cardinality(Slots) = maxSlots[a]
  <2>1. 0 \in Int /\ maxSlots[a] - 1 \in Int
    BY <1>1
  <2>2. /\ IsFiniteSet(Slots)
        /\ Cardinality(Slots) = IF 0 > maxSlots[a] - 1 THEN 0
                                ELSE (maxSlots[a] - 1) - 0 + 1
    BY ONLY <2>1, FS_Interval
  <2>3. QED
    BY <1>1, <2>2
<1>3. IsFiniteSet(SeatsOn(a))
  BY AccountAssumption, FS_Subset DEF SeatsOn
<1>4. SUFFICES ASSUME FreeSlots(a) = {} PROVE FALSE
  OBVIOUS
<1>5. \A i \in Slots : \E w \in SeatsOn(a) : seats[w].slot = i
  BY <1>4 DEF FreeSlots
<1>6. \A i \in Slots : holder[i] \in SeatsOn(a) /\ seats[holder[i]].slot = i
  BY <1>5
<1>7. holder \in [Slots -> SeatsOn(a)]
  BY <1>6
<1>8. Cardinality(SeatsOn(a)) < Cardinality(Slots)
  BY <1>2 DEF InUse
<1> HIDE DEF Slots, holder
<1>9. \E i, k \in Slots : i # k /\ holder[i] = holder[k]
  BY <1>2, <1>3, <1>7, <1>8, FS_PigeonHole
<1>10. QED
  BY <1>6, <1>9

(* The tab _ngoi() picks is free and a number of the account's tabs.       *)
LEMMA LowestFreeSlotIsFree ==
  ASSUME AllocTypeOK, NEW a \in Accounts, InUse(a) < maxSlots[a]
  PROVE  LowestFreeSlot(a) \in FreeSlots(a)
<1>1. FreeSlots(a) \subseteq Nat
  BY DEF AllocTypeOK, FreeSlots
<1>2. FreeSlots(a) # {}
  BY FreeSlotExists
<1> DEFINE less == {p \in Nat \X Nat : p[1] < p[2]}
<1>3. IsWellFoundedOn(less, Nat)
  BY NatLessThanWellFounded DEF OpToRel
<1>4. \E i \in FreeSlots(a) : \A k \in FreeSlots(a) : i <= k
  <2>1. PICK i \in FreeSlots(a) : \A k \in FreeSlots(a) : <<k, i>> \notin less
    <3> HIDE DEF less
    <3>1. QED
      BY <1>1, <1>2, <1>3, WFMin
  <2>2. \A k \in FreeSlots(a) : i <= k
    <3> TAKE k \in FreeSlots(a)
    <3>1. k \in Nat /\ i \in Nat
      BY <1>1
    <3>2. k < i => <<k, i>> \in less
      BY <3>1
    <3>3. ~(k < i)
      <4> HIDE DEF less
      <4>1. QED
        BY <2>1, <3>2
    <3>4. QED
      BY <3>1, <3>3
  <2>3. QED
    BY <2>2
<1>5. QED
  BY <1>4 DEF LowestFreeSlot

(* Seating a work on an account with a free tab keeps the seats well       *)
(* formed and every tab with one owner.                                    *)
LEMMA TakeSeatSafe ==
  ASSUME AllocTypeOK, NEW w \in Works, NEW a \in Accounts,
         InUse(a) < maxSlots[a], TakeSeat(w, a)
  PROVE  /\ seats' \in [Works -> Seat \cup {NoSeat}]
         /\ seats'[w] \in Seat
         /\ SeatExclusive => SeatExclusive'
<1> DEFINE s == LowestFreeSlot(a)
<1>1. s \in FreeSlots(a)
  BY LowestFreeSlotIsFree
<1>2. s \in Nat /\ \A v \in SeatsOn(a) : seats[v].slot # s
  BY <1>1 DEF FreeSlots, AllocTypeOK
<1> HIDE DEF s
<1>3. seats' = [seats EXCEPT ![w] = [acct |-> a, slot |-> s]]
  BY DEF TakeSeat, s
<1>4. [acct |-> a, slot |-> s] \in Seat
  BY <1>2 DEF Seat
<1>5. seats' \in [Works -> Seat \cup {NoSeat}] /\ seats'[w] \in Seat
  BY <1>3, <1>4 DEF AllocTypeOK
<1>6. \A v \in Works \ {w} : seats'[v] = seats[v] /\ seats[v] # [acct |-> a, slot |-> s]
  BY <1>2, <1>3 DEF SeatsOn, AllocTypeOK
<1>7. seats'[w] = [acct |-> a, slot |-> s]
  BY <1>3 DEF AllocTypeOK
<1>8. SeatExclusive => SeatExclusive'
  BY <1>6, <1>7 DEF SeatExclusive
<1>9. QED
  BY <1>5, <1>8

(* Giving a seat back disturbs neither.                                    *)
LEMMA ReleaseSeatSafe ==
  ASSUME AllocTypeOK, NEW w \in Works, ReleaseSeat(w)
  PROVE  /\ seats' \in [Works -> Seat \cup {NoSeat}]
         /\ SeatExclusive => SeatExclusive'
<1>1. seats' \in [Works -> Seat \cup {NoSeat}]
  BY DEF ReleaseSeat, AllocTypeOK
<1>2. seats'[w] = NoSeat /\ \A v \in Works \ {w} : seats'[v] = seats[v]
  BY DEF ReleaseSeat, AllocTypeOK
<1>3. QED
  BY <1>1, <1>2 DEF SeatExclusive

(* allocate() only ever seats a work on an account of its pool that is     *)
(* switched on, healthy, capable and below its tab count.                  *)
LEMMA ChoicesUsable ==
  ASSUME NEW w, NEW kind, NEW forced, NEW fallback, NEW liked, NEW spared,
         NEW a \in Choices(w, kind, forced, fallback, liked, spared)
  PROVE  a \in Accounts /\ Usable(a, kind)
<1> DEFINE usable == {b \in Accounts : Usable(b, kind)}
           spread == LeastUsed(IF usable \ {spared} = {} THEN usable ELSE usable \ {spared})
<1>1. spread \subseteq usable
  BY DEF LeastUsed
<1>2. ForcedChoices(forced, usable, spread, fallback) \subseteq usable
  <2> HIDE DEF usable, spread
  <2>1. QED
    BY <1>1 DEF ForcedChoices
<1>3. Choices(w, kind, forced, fallback, liked, spared) =
        CASE w \in pinned -> ForcedChoices(forced, usable, spread, fallback)
          [] w \notin pinned /\ liked \in usable -> {liked}
          [] OTHER -> spread
  BY DEF Choices
<1>4. a \in usable
  <2> HIDE DEF usable, spread
  <2>1. QED
    BY <1>1, <1>2, <1>3
<1>5. QED
  BY <1>4

-----------------------------------------------------------------------------
(* The helpers.                                                            *)

(* A decision of the retry policy names a state of a job.                  *)
LEMMA DecisionMovesToState ==
  ASSUME NEW c, NEW s, NEW h, NEW k
  PROVE  /\ Decide(c, s, h, k).to \in States
         /\ DecidePartial(h, k).to \in States
BY DEF Decide, DecidePartial, Final, RetryOf, States, Waiting, Settled

LEMMA SetJobsType ==
  ASSUME job \in [Jobs -> States], NEW S, NEW to \in States, SetJobs(S, to)
  PROVE  job' \in [Jobs -> States]
BY DEF SetJobs

(* Changing fields of one attempt keeps the ledger a sequence of attempts. *)
LEMMA LedgerEdit ==
  ASSUME NEW s \in Seq(Attempts), NEW n, NEW r \in Outcomes
  PROVE  /\ [s EXCEPT ![n].outcome = r] \in Seq(Attempts)
         /\ [s EXCEPT ![n].clicked = TRUE] \in Seq(Attempts)
         /\ [s EXCEPT ![n].submitted = TRUE] \in Seq(Attempts)
<1>1. s \in [1 .. Len(s) -> Attempts] /\ Len(s) \in Nat
  OBVIOUS
<1>2. [s EXCEPT ![n].outcome = r] \in [1 .. Len(s) -> Attempts]
  BY <1>1 DEF Attempts
<1>3. [s EXCEPT ![n].clicked = TRUE] \in [1 .. Len(s) -> Attempts]
  BY <1>1 DEF Attempts
<1>4. [s EXCEPT ![n].submitted = TRUE] \in [1 .. Len(s) -> Attempts]
  BY <1>1 DEF Attempts
<1>5. QED
  BY <1>1, <1>2, <1>3, <1>4, SeqDef

LEMMA FinishAttemptType ==
  ASSUME TypeOK, NEW e \in Works, NEW r \in Outcomes, FinishAttempt(e, r)
  PROVE  attempts' \in [Works -> Seq(Attempts)]
BY LedgerEdit DEF FinishAttempt, TypeOK

LEMMA RequeueType ==
  ASSUME TypeOK, NEW e \in Works, NEW now, Requeue(e, now)
  PROVE  exec' \in [Works -> ExecStates] /\ due' \subseteq Works
BY DEF Requeue, TypeOK, ExecStates

LEMMA FinishExecType ==
  ASSUME TypeOK, NEW e \in Works, FinishExec(e)
  PROVE  exec' \in [Works -> ExecStates] /\ due' \subseteq Works
BY DEF FinishExec, TypeOK, ExecStates

LEMMA DropLeaseType ==
  ASSUME TypeOK, NEW e \in Works, DropLease(e)
  PROVE  /\ lease' \in [Works -> Nat]
         /\ seats' \in [Works -> Seat \cup {NoSeat}]
BY ReleaseSeatSafe DEF DropLease, TypeOK

LEMMA ReturnType ==
  ASSUME TypeOK, NEW w \in Workers, Return(w)
  PROVE  worker' \in [Workers -> Drives \cup {Idle}]
BY DEF Return, TypeOK

(* A worker that holds a lease drives an execution of the schedule.        *)
LEMMA HolderDrives ==
  ASSUME TypeOK, NEW w \in Workers, worker[w] # Idle
  PROVE  worker[w] \in Drives /\ HeldBy(w) \in Works
BY DEF TypeOK, Drives, HeldBy

LEMMA FailDecisionMoves ==
  ASSUME NEW w, NEW c
  PROVE  /\ FailDecision(w, c).to \in States
         /\ OutcomeOf(FailDecision(w, c).action) \in Outcomes
BY DecisionMovesToState DEF FailDecision, OutcomeOf, Outcomes

-----------------------------------------------------------------------------
(* Type correctness.  An account enters the set of cooling ones through    *)
(* the seat of a lease, so the types need the seat to be there.            *)

SeatOfLease == \A e \in Works : lease[e] # 0 <=> seats[e] # NoSeat

LEMMA TypeInit == Init => TypeOK
<1> SUFFICES ASSUME Init PROVE TypeOK
  OBVIOUS
<1>1. AllocTypeOK
  BY RuntimeAssumption DEF Init, AllocTypeOK, VideoCapable
<1>2. Idle \in Drives \cup {Idle}
  OBVIOUS
<1>3. QED
  BY <1>1, <1>2 DEF Init, TypeOK, States, ExecStates

LEMMA TypeSubmit == ASSUME TypeOK, NEW e \in Works, Submit(e) PROVE TypeOK'
<1>1. job' \in [Jobs -> States]
  BY SetJobsType DEF Submit, TypeOK, States, Waiting
<1>2. exec' \in [Works -> ExecStates]
  BY DEF Submit, TypeOK, ExecStates
<1>3. seq' \in [Works -> Nat]
  <2>1. IsFiniteSet({f \in Works : exec[f] # "none"})
    BY AccountAssumption, FS_Subset
  <2>2. Cardinality({f \in Works : exec[f] # "none"}) \in Nat
    BY <2>1, FS_CardinalityType
  <2>3. QED
    BY <2>2 DEF Submit, TypeOK
<1>4. AllocTypeOK'
  BY DEF Submit, TypeOK, AllocTypeOK, RestorePins
<1>5. QED
  BY <1>1, <1>2, <1>3, <1>4 DEF Submit, TypeOK, process

(* What lease_next() does when it hands out work.                          *)
LEMMA LeaseTaken ==
  ASSUME TypeOK, NEW w \in Workers, LeaseNext(w)
  PROVE  \E e \in Works : \E a \in Accounts :
           /\ exec[e] = "ready" /\ e \in due /\ up /\ worker[w] = Idle
           /\ Usable(a, KindOf[e]) /\ InUse(a) < maxSlots[a]
           /\ TakeSeat(e, a)
           /\ seats' \in [Works -> Seat \cup {NoSeat}] /\ seats'[e] \in Seat
           /\ lease' = [lease EXCEPT ![e] = Len(attempts[e]) + 1]
           /\ exec' = [exec EXCEPT ![e] = "leased"]
           /\ attempts' = [attempts EXCEPT ![e] = Append(@, NewAttempt)]
           /\ SetJobs({j \in Members[e] : job[j] \in Waiting}, "running")
           /\ worker' = [worker EXCEPT ![w] =
                          Drive(e, Len(attempts[e]) + 1, "before", seats'[e])]
           /\ UNCHANGED <<up, due, enabled, maxSlots>>
<1>1. PICK e \in Foremost(WorkerKind[w]) :
        \E a \in Choices(e, KindOf[e], Forced[e], e \in Fallback,
                         prefer[e], avoid[e]) :
          LET n == Len(attempts[e]) + 1
          IN  /\ TakeSeat(e, a)
              /\ exec' = [exec EXCEPT ![e] = "leased"]
              /\ attempts' = [attempts EXCEPT ![e] = Append(@, NewAttempt)]
              /\ SetJobs({j \in Members[e] : job[j] \in Waiting}, "running")
              /\ lease' = [lease EXCEPT ![e] = n]
              /\ prefer' = [prefer EXCEPT ![e] = NoAccount]
              /\ avoid' = [avoid EXCEPT ![e] = NoAccount]
              /\ worker' = [worker EXCEPT ![w] = Drive(e, n, "before", seats'[e])]
  BY DEF LeaseNext
<1>2. PICK a \in Choices(e, KindOf[e], Forced[e], e \in Fallback,
                        prefer[e], avoid[e]) : TakeSeat(e, a)
  BY <1>1
<1>3. e \in Works /\ exec[e] = "ready" /\ e \in due
  BY DEF Foremost, ReadyOf
<1>4. a \in Accounts /\ Usable(a, KindOf[e]) /\ InUse(a) < maxSlots[a]
  BY ChoicesUsable DEF Usable
<1>5. seats' \in [Works -> Seat \cup {NoSeat}] /\ seats'[e] \in Seat
  BY <1>2, <1>3, <1>4, TakeSeatSafe DEF TypeOK
<1>6. up /\ worker[w] = Idle /\ UNCHANGED <<up, due, enabled, maxSlots>>
  BY DEF LeaseNext, process, allocRest
<1>7. QED
  BY <1>1, <1>2, <1>3, <1>4, <1>5, <1>6

LEMMA TypeLease == ASSUME TypeOK, NEW w \in Workers, LeaseNext(w) PROVE TypeOK'
<1>1. PICK e \in Works :
        /\ seats' \in [Works -> Seat \cup {NoSeat}] /\ seats'[e] \in Seat
        /\ lease' = [lease EXCEPT ![e] = Len(attempts[e]) + 1]
        /\ exec' = [exec EXCEPT ![e] = "leased"]
        /\ attempts' = [attempts EXCEPT ![e] = Append(@, NewAttempt)]
        /\ SetJobs({j \in Members[e] : job[j] \in Waiting}, "running")
        /\ worker' = [worker EXCEPT ![w] =
                       Drive(e, Len(attempts[e]) + 1, "before", seats'[e])]
  BY LeaseTaken
<1> DEFINE n == Len(attempts[e]) + 1
<1>2. n \in Nat \ {0} /\ attempts[e] \in Seq(Attempts)
  BY DEF TypeOK
<1>3. job' \in [Jobs -> States]
  BY <1>1, SetJobsType DEF TypeOK, States
<1>4. NewAttempt \in Attempts
  BY DEF NewAttempt, Attempts, Outcomes
<1>5. attempts' \in [Works -> Seq(Attempts)]
  BY <1>1, <1>2, <1>4, AppendProperties DEF TypeOK
<1>6. worker' \in [Workers -> Drives \cup {Idle}]
  BY <1>1, <1>2 DEF TypeOK, Drives, Drive, Phases
<1>7. exec' \in [Works -> ExecStates] /\ lease' \in [Works -> Nat]
  BY <1>1, <1>2 DEF TypeOK, ExecStates
<1>8. /\ prefer' \in [Works -> Accounts \cup {NoAccount}]
      /\ avoid' \in [Works -> Accounts \cup {NoAccount}]
  BY DEF LeaseNext, TypeOK
<1>9. AllocTypeOK'
  BY <1>1 DEF LeaseNext, TypeOK, AllocTypeOK, allocRest
<1>10. QED
  BY <1>3, <1>5, <1>6, <1>7, <1>8, <1>9 DEF LeaseNext, TypeOK, process

LEMMA TypeDrive ==
  ASSUME TypeOK, NEW w \in Workers, Click(w) \/ EmitSubmitted(w)
  PROVE  TypeOK'
<1>1. worker[w] # Idle
  BY DEF Click, EmitSubmitted, Idle
<1>2. worker[w] \in Drives /\ HeldBy(w) \in Works
  BY <1>1, HolderDrives
<1> DEFINE e == HeldBy(w)
           n == worker[w].number
           touched(p) == [worker[w] EXCEPT !.phase = p]
<1>3. worker' \in [Workers -> Drives \cup {Idle}]
  <2>1. touched("clicked") \in Drives /\ touched("after") \in Drives
    BY <1>2 DEF Drives, Phases
  <2>2. \/ worker' = [worker EXCEPT ![w] = touched("clicked")]
        \/ worker' = [worker EXCEPT ![w] = touched("after")]
    BY DEF Click, EmitSubmitted
  <2> HIDE DEF touched
  <2>3. QED
    BY <2>1, <2>2 DEF TypeOK
<1>4. attempts' \in [Works -> Seq(Attempts)]
  <2> DEFINE s == attempts[e]
  <2>1. s \in Seq(Attempts)
    BY <1>2 DEF TypeOK
  <2>2. /\ [s EXCEPT ![n].clicked = TRUE] \in Seq(Attempts)
        /\ [s EXCEPT ![n].submitted = TRUE] \in Seq(Attempts)
    BY <2>1, LedgerEdit DEF Outcomes
  <2>3. \/ attempts' = [attempts EXCEPT ![e] = [s EXCEPT ![n].clicked = TRUE]]
        \/ attempts' = [attempts EXCEPT ![e] = [s EXCEPT ![n].submitted = TRUE]]
    BY DEF Click, EmitSubmitted
  <2> HIDE DEF s, n
  <2>4. QED
    BY <2>2, <2>3 DEF TypeOK
<1>5. QED
  BY <1>3, <1>4 DEF Click, EmitSubmitted, TypeOK, AllocTypeOK, process, allocVars

LEMMA TypeSucceed ==
  ASSUME TypeOK, NEW w \in Workers, Succeed(w) PROVE TypeOK'
<1>1. worker[w] # Idle
  BY DEF Succeed, Idle
<1>2. HeldBy(w) \in Works
  BY <1>1, HolderDrives
<1>3. job' \in [Jobs -> States]
  BY SetJobsType DEF Succeed, TypeOK, States, Settled
<1>4. attempts' \in [Works -> Seq(Attempts)]
  BY <1>2, FinishAttemptType DEF Succeed, Outcomes
<1>5. exec' \in [Works -> ExecStates] /\ due' \subseteq Works
  BY <1>2, FinishExecType DEF Succeed
<1>6. lease' \in [Works -> Nat] /\ seats' \in [Works -> Seat \cup {NoSeat}]
  BY <1>2, DropLeaseType DEF Succeed
<1>7. worker' \in [Workers -> Drives \cup {Idle}]
  BY ReturnType DEF Succeed
<1>8. QED
  BY <1>3, <1>4, <1>5, <1>6, <1>7
     DEF Succeed, TypeOK, AllocTypeOK, process, allocRest

LEMMA TypePartial ==
  ASSUME TypeOK, NEW w \in Workers, NEW D, Partial(w, D) PROVE TypeOK'
<1>1. worker[w] # Idle
  BY DEF Partial, Idle
<1>2. HeldBy(w) \in Works
  BY <1>1, HolderDrives
<1>3. job' \in [Jobs -> States]
  BY DecisionMovesToState DEF Partial, TypeOK, States, Settled
<1>4. attempts' \in [Works -> Seq(Attempts)]
  BY <1>2, FinishAttemptType DEF Partial, Outcomes
<1>5. exec' \in [Works -> ExecStates] /\ due' \subseteq Works
  BY <1>2, FinishExecType, RequeueType DEF Partial
<1>6. lease' \in [Works -> Nat] /\ seats' \in [Works -> Seat \cup {NoSeat}]
  BY <1>2, DropLeaseType DEF Partial
<1>7. worker' \in [Workers -> Drives \cup {Idle}]
  BY ReturnType DEF Partial
<1>8. QED
  BY <1>3, <1>4, <1>5, <1>6, <1>7
     DEF Partial, TypeOK, AllocTypeOK, process, allocRest

LEMMA TypeFail ==
  ASSUME TypeOK, SeatOfLease, NEW w \in Workers, NEW c, Fail(w, c)
  PROVE  TypeOK'
<1>1. worker[w] # Idle
  BY DEF Fail, Reported, LeaseHeld
<1>2. HeldBy(w) \in Works
  BY <1>1, HolderDrives
<1> DEFINE e == HeldBy(w)
           d == FailDecision(w, c)
<1>3. d.to \in States /\ OutcomeOf(d.action) \in Outcomes
  BY FailDecisionMoves
<1>4. job' \in [Jobs -> States]
  BY <1>3, SetJobsType DEF Fail, TypeOK
<1>5. attempts' \in [Works -> Seq(Attempts)]
  BY <1>2, <1>3, FinishAttemptType DEF Fail
<1>6. exec' \in [Works -> ExecStates] /\ due' \subseteq Works
  BY <1>2, FinishExecType, RequeueType DEF Fail
<1>7. lease' \in [Works -> Nat] /\ seats' \in [Works -> Seat \cup {NoSeat}]
  BY <1>2, DropLeaseType DEF Fail
<1>8. worker' \in [Workers -> Drives \cup {Idle}]
  BY ReturnType DEF Fail
<1>9. seats[e].acct \in Accounts
  <2>1. lease[e] # 0
    BY <1>1, HolderDrives DEF Fail, Reported, LeaseHeld, HeldBy, Drives
  <2>2. seats[e] \in Seat
    BY <1>2, <2>1 DEF SeatOfLease, TypeOK, AllocTypeOK
  <2>3. QED
    BY <2>2 DEF Seat
<1>10. cooling' \subseteq Accounts /\ broken' \subseteq Accounts
  <2>1. /\ cooling' \in {cooling, cooling \cup {seats[e].acct}}
        /\ broken' \in {broken, broken \cup {seats[e].acct}}
    BY DEF Fail
  <2>2. QED
    BY <1>9, <2>1 DEF TypeOK, AllocTypeOK
<1>11. /\ prefer' \in [Works -> Accounts \cup {NoAccount}]
       /\ avoid' \in [Works -> Accounts \cup {NoAccount}]
  <2>1. /\ prefer' \in {prefer, [prefer EXCEPT ![e] = seats[e].acct]}
        /\ avoid' \in {avoid, [avoid EXCEPT ![e] = seats[e].acct]}
    BY DEF Fail
  <2>2. QED
    BY <1>9, <2>1 DEF TypeOK
<1>12. /\ UNCHANGED <<seq, up, crashes, maxSlots, enabled, videoOk, pinned>>
  BY DEF Fail, process
<1>13. QED
  BY <1>4, <1>5, <1>6, <1>7, <1>8, <1>10, <1>11, <1>12 DEF TypeOK, AllocTypeOK

LEMMA TypeCancel ==
  ASSUME TypeOK, NEW j, CancelLeased(j) \/ CancelWaiting(j)
  PROVE  TypeOK'
<1>1. CASE CancelLeased(j)
  <2>1. PICK e \in Works :
          /\ FinishAttempt(e, "cancelled")
          /\ SetJobs(Live(e), "cancelled")
          /\ FinishExec(e) /\ DropLease(e)
          /\ UNCHANGED <<seq, prefer, avoid, worker, process, allocRest>>
    BY <1>1 DEF CancelLeased
  <2>2. job' \in [Jobs -> States]
    BY <2>1, SetJobsType DEF TypeOK, States, Settled
  <2>3. attempts' \in [Works -> Seq(Attempts)]
    BY <2>1, FinishAttemptType DEF Outcomes
  <2>4. /\ exec' \in [Works -> ExecStates] /\ due' \subseteq Works
        /\ lease' \in [Works -> Nat] /\ seats' \in [Works -> Seat \cup {NoSeat}]
    BY <2>1, FinishExecType, DropLeaseType
  <2>5. QED
    BY <2>1, <2>2, <2>3, <2>4 DEF TypeOK, AllocTypeOK, process, allocRest
<1>2. CASE CancelWaiting(j)
  <2>1. PICK e \in Works :
          /\ SetJobs(Live(e), "cancelled") /\ FinishExec(e)
          /\ UNCHANGED <<seq, attempts, lease, prefer, avoid, worker, process,
                         allocVars>>
    BY <1>2 DEF CancelWaiting
  <2>2. job' \in [Jobs -> States]
    BY <2>1, SetJobsType DEF TypeOK, States, Settled
  <2>3. exec' \in [Works -> ExecStates] /\ due' \subseteq Works
    BY <2>1, FinishExecType
  <2>4. QED
    BY <2>1, <2>2, <2>3 DEF TypeOK, AllocTypeOK, process, allocVars
<1>3. QED
  BY <1>1, <1>2

LEMMA TypeRecover == ASSUME TypeOK, Recover PROVE TypeOK'
<1> DEFINE leased == {e \in Works : exec[e] = "leased"}
           sent == {e \in leased : Last(e).submitted}
<1>1. job' \in [Jobs -> States]
  BY DEF Recover, TypeOK, States, Waiting
<1>2. attempts' \in [Works -> Seq(Attempts)]
  <2>1. \A e \in Works : attempts'[e] \in Seq(Attempts)
    <3> TAKE e \in Works
    <3> DEFINE closed(r) == [attempts[e] EXCEPT ![Len(attempts[e])].outcome = r]
    <3>1. attempts'[e] \in {attempts[e], closed("unknown"), closed("error")}
      BY DEF Recover
    <3>2. closed("unknown") \in Seq(Attempts) /\ closed("error") \in Seq(Attempts)
      BY LedgerEdit DEF TypeOK, Outcomes
    <3> HIDE DEF closed
    <3>3. QED
      BY <3>1, <3>2 DEF TypeOK
  <2>2. attempts' = [e \in Works |-> attempts'[e]]
    BY DEF Recover
  <2>3. QED
    BY <2>1, <2>2
<1>3. exec' \in [Works -> ExecStates] /\ due' \subseteq Works
  BY DEF Recover, TypeOK, ExecStates
<1>4. pinned' \subseteq Works
  BY DEF Recover, RestorePins
<1>5. QED
  BY <1>1, <1>2, <1>3, <1>4 DEF Recover, TypeOK, AllocTypeOK

LEMMA TypeAccount ==
  ASSUME TypeOK, NEW a \in Accounts, ChangeAccount(a) PROVE TypeOK'
<1>1. PICK n \in Nat : \E on \in BOOLEAN : HandAccount(a, n, on)
  <2>1. maxSlots[a] \in Nat /\ 0 \in Nat /\ 1 \in Nat /\ 1 .. MaxTabs \subseteq Nat
    BY RuntimeAssumption DEF TypeOK, AllocTypeOK
  <2>2. (a \in enabled) \in BOOLEAN /\ (a \notin enabled) \in BOOLEAN
    OBVIOUS
  <2>3. QED
    BY <2>1, <2>2 DEF ChangeAccount
<1>2. maxSlots' \in [Accounts -> Nat] /\ enabled' \subseteq Accounts
  BY <1>1 DEF HandAccount, TypeOK, AllocTypeOK
<1>3. videoOk' \subseteq Accounts
  BY <1>1, RuntimeAssumption DEF HandAccount, VideoCapable
<1>4. broken' \subseteq Accounts /\ cooling' \subseteq Accounts
  BY <1>1 DEF HandAccount, TypeOK, AllocTypeOK
<1>5. QED
  BY <1>2, <1>3, <1>4 DEF ChangeAccount, TypeOK, AllocTypeOK, durable, process

LEMMA TypeRest ==
  ASSUME TypeOK,
         \/ \E w \in Workers : StopStale(w) \/ \E c \in ErrorClasses : FailRollsBack(w, c)
         \/ \E j \in Jobs : ResolveNeedsAttention(j)
         \/ \E e \in Works : Due(e)
         \/ \E a \in Accounts : CooldownOver(a) \/ ChangeAccount(a)
         \/ Crash \/ UNCHANGED vars
  PROVE  TypeOK'
<1>1. CASE \E w \in Workers : StopStale(w) \/ \E c \in ErrorClasses : FailRollsBack(w, c)
  BY <1>1, ReturnType
     DEF StopStale, FailRollsBack, TypeOK, AllocTypeOK, durable, process, allocVars
<1>2. CASE \E j \in Jobs : ResolveNeedsAttention(j)
  <2>1. job' \in [Jobs -> States]
    BY <1>2, SetJobsType DEF ResolveNeedsAttention, TypeOK, States, Settled
  <2>2. QED
    BY <1>2, <2>1 DEF ResolveNeedsAttention, TypeOK, AllocTypeOK, process, allocVars
<1>3. CASE \E e \in Works : Due(e)
  BY <1>3 DEF Due, TypeOK, AllocTypeOK, process, allocVars
<1>4. CASE \E a \in Accounts : CooldownOver(a) \/ ChangeAccount(a)
  BY <1>4, TypeAccount DEF CooldownOver, TypeOK, AllocTypeOK, durable, process
<1>5. CASE Crash
  <2>1. /\ seats' \in [Works -> Seat \cup {NoSeat}]
        /\ lease' \in [Works -> Nat]
        /\ worker' \in [Workers -> Drives \cup {Idle}]
        /\ prefer' \in [Works -> Accounts \cup {NoAccount}]
        /\ avoid' \in [Works -> Accounts \cup {NoAccount}]
    BY <1>5 DEF Crash
  <2>2. up' \in BOOLEAN
    BY <1>5, Zenon DEF Crash
  <2>5. crashes \in Nat /\ crashes' = crashes + 1
    BY <1>5 DEF Crash, TypeOK
  <2>6. crashes' \in Nat
    BY <2>5
  <2>3. AllocTypeOK'
    BY <1>5, <2>1 DEF Crash, TypeOK, AllocTypeOK
  <2>4. QED
    BY <1>5, <2>1, <2>2, <2>3, <2>6 DEF Crash, TypeOK, durable
<1>6. CASE UNCHANGED vars
  BY <1>6 DEF vars, TypeOK, AllocTypeOK, durable, process, allocVars
<1>7. QED
  BY <1>1, <1>2, <1>3, <1>4, <1>5, <1>6

(* The steps that touch a lease or a seat: taking one, giving one back     *)
(* (always both), and the end of the process.                              *)
LEMMA SeatSteps ==
  ASSUME TypeOK, [Next]_vars
  PROVE  \/ \E w \in Workers : LeaseNext(w)
         \/ \E e \in Works : DropLease(e)
         \/ Crash
         \/ UNCHANGED <<lease, seats>>
<1>1. CASE \E w \in Workers : Report(w)
  <2>1. PICK w \in Workers : Report(w)
    BY <1>1
  <2>2. CASE worker[w] = Idle
    BY <2>1, <2>2 DEF Report, Succeed, Partial, Fail, FailRollsBack, Reported, LeaseHeld
  <2>3. CASE worker[w] # Idle
    <3>1. HeldBy(w) \in Works
      BY <2>3, HolderDrives
    <3>2. DropLease(HeldBy(w)) \/ UNCHANGED <<lease, seats>>
      BY <2>1 DEF Report, Succeed, Partial, Fail, FailRollsBack, allocVars
    <3>3. QED
      BY <3>1, <3>2
  <2>4. QED
    BY <2>2, <2>3
<1>2. CASE \E j \in Jobs : UserStep(j)
  BY <1>2 DEF UserStep, CancelLeased, CancelWaiting, ResolveNeedsAttention, allocVars
<1>3. CASE \/ \E w \in Workers : Click(w) \/ EmitSubmitted(w) \/ StopStale(w)
           \/ \E e \in Works : Submit(e) \/ Due(e)
           \/ \E a \in Accounts : CooldownOver(a) \/ ChangeAccount(a)
           \/ Recover \/ UNCHANGED vars
  BY <1>3 DEF Click, EmitSubmitted, StopStale, Submit, Due, CooldownOver,
              ChangeAccount, Recover, vars, allocVars
<1>4. QED
  BY <1>1, <1>2, <1>3 DEF Next, WorkerStep

LEMMA SeatOfLeaseStep ==
  ASSUME TypeOK, SeatOfLease, [Next]_vars PROVE SeatOfLease'
<1>1. ASSUME NEW w \in Workers, LeaseNext(w) PROVE SeatOfLease'
  <2>1. PICK e \in Works, a \in Accounts :
          /\ TakeSeat(e, a) /\ seats'[e] \in Seat
          /\ lease' = [lease EXCEPT ![e] = Len(attempts[e]) + 1]
    BY <1>1, LeaseTaken
  <2>2. lease'[e] # 0
    BY <2>1 DEF TypeOK
  <2>3. seats'[e] # NoSeat
    BY <2>1, AccountAssumption DEF Seat, NoSeat
  <2>4. \A f \in Works \ {e} : seats'[f] = seats[f] /\ lease'[f] = lease[f]
    BY <2>1 DEF TakeSeat, TypeOK, AllocTypeOK
  <2>5. QED
    BY <2>2, <2>3, <2>4 DEF SeatOfLease
<1>2. ASSUME NEW e \in Works, DropLease(e) PROVE SeatOfLease'
  BY <1>2 DEF DropLease, ReleaseSeat, SeatOfLease, TypeOK, AllocTypeOK
<1>3. CASE Crash
  BY <1>3 DEF Crash, SeatOfLease
<1>4. CASE UNCHANGED <<lease, seats>>
  BY <1>4 DEF SeatOfLease
<1>5. QED
  BY <1>1, <1>2, <1>3, <1>4, SeatSteps

LEMMA TypeStep ==
  ASSUME TypeOK, SeatOfLease, [Next]_vars PROVE TypeOK'
<1>1. CASE \E w \in Workers : Report(w)
  BY <1>1, TypeSucceed, TypePartial, TypeFail, TypeRest DEF Report
<1>2. CASE \E j \in Jobs : UserStep(j)
  BY <1>2, TypeCancel, TypeRest DEF UserStep
<1>3. QED
  BY <1>1, <1>2, TypeSubmit, TypeLease, TypeDrive, TypeRecover, TypeRest
     DEF Next, WorkerStep

(* Every variable of the runtime keeps to its type, and a lease in memory  *)
(* has its seat.                                                           *)
THEOREM TypeCorrect == Spec => [](TypeOK /\ SeatOfLease)
<1>1. Init => TypeOK /\ SeatOfLease
  BY TypeInit DEF Init, SeatOfLease
<1>2. TypeOK /\ SeatOfLease /\ [Next]_vars => (TypeOK /\ SeatOfLease)'
  BY TypeStep, SeatOfLeaseStep
<1>3. QED
  BY <1>1, <1>2, PTL DEF Spec

-----------------------------------------------------------------------------
(* One owner per tab.                                                      *)

(* No interleaving of submits, retries, cancels and crashes with accounts  *)
(* that are switched, get fewer or more tabs, are deleted and come back    *)
(* while seats on them are taken makes the allocator seat two executions   *)
(* in the same tab of an account.                                          *)
THEOREM TabsHaveOneOwner == Spec => []SeatExclusive
<1>1. Init => SeatExclusive
  BY DEF Init, SeatExclusive
<1>2. TypeOK /\ SeatExclusive /\ [Next]_vars => SeatExclusive'
  <2> SUFFICES ASSUME TypeOK, SeatExclusive, [Next]_vars PROVE SeatExclusive'
    OBVIOUS
  <2>1. ASSUME NEW w \in Workers, LeaseNext(w) PROVE SeatExclusive'
    <3>1. PICK e \in Works, a \in Accounts : TakeSeat(e, a) /\ InUse(a) < maxSlots[a]
      BY <2>1, LeaseTaken
    <3>2. QED
      BY <3>1, TakeSeatSafe DEF TypeOK
  <2>2. ASSUME NEW e \in Works, DropLease(e) PROVE SeatExclusive'
    BY <2>2, ReleaseSeatSafe DEF DropLease, TypeOK
  <2>3. CASE Crash
    BY <2>3 DEF Crash, SeatExclusive
  <2>4. CASE UNCHANGED <<lease, seats>>
    BY <2>4 DEF SeatExclusive
  <2>5. QED
    BY <2>1, <2>2, <2>3, <2>4, SeatSteps
<1>3. QED
  BY <1>1, <1>2, TypeCorrect, PTL DEF Spec

-----------------------------------------------------------------------------
(* The ledger.                                                             *)

Closings == Outcomes \ {"open"}

(* The open attempt of a leased execution ends, and the execution with it  *)
(* or back in the schedule.                                                *)
Closes(e, x, r) ==
  /\ up /\ exec[e] = "leased" /\ lease[e] # 0
  /\ x \in {"ready", "finished"} /\ r \in Closings
  /\ exec' = [exec EXCEPT ![e] = x]
  /\ FinishAttempt(e, r) /\ DropLease(e) /\ UNCHANGED up

(* A process that is down has neither leases nor threads.                  *)
DownHoldsNothing ==
  ~up => (\A e \in Works : lease[e] = 0) /\ (\A w \in Workers : worker[w] = Idle)

Ledger == TypeOK /\ SeatOfLease /\ LeaseMatchesLedger /\ DownHoldsNothing

(* What a worker drives has not gone back into the schedule.               *)
DrivenIsStarted ==
  \A w \in Workers :
    worker[w] # Idle => exec[HeldBy(w)] \in {"leased", "finished"}

(* A worker with a lease knows whether its attempt is on record.           *)
PhaseKnown ==
  \A w \in Workers : LeaseHeld(w) =>
    (worker[w].phase = "after" <=> attempts[HeldBy(w)][worker[w].number].submitted)

(* Every constraint is in memory while its execution may be leased.        *)
PinsRestored ==
  up => \A e \in Works :
    exec[e] \in {"ready", "leased"} /\ Forced[e] # NoAccount => e \in pinned

-----------------------------------------------------------------------------
(* The reports.                                                            *)

LEMMA LeasedOnly ==
  ASSUME Ledger, NEW e \in Works, lease[e] # 0
  PROVE  up /\ exec[e] = "leased" /\ lease[e] = Len(attempts[e])
BY DEF Ledger, LeaseMatchesLedger, DownHoldsNothing, TypeOK

LEMMA HolderLeased ==
  ASSUME Ledger, NEW w \in Workers, LeaseHeld(w)
  PROVE  /\ HeldBy(w) \in Works /\ lease[HeldBy(w)] # 0
         /\ exec[HeldBy(w)] = "leased"
         /\ worker[w].number = Len(attempts[HeldBy(w)])
         /\ worker[w] \in Drives
<1>1. worker[w] \in Drives /\ HeldBy(w) \in Works
  BY HolderDrives DEF LeaseHeld, Ledger
<1>2. lease[HeldBy(w)] = worker[w].number /\ worker[w].number # 0
  BY <1>1 DEF LeaseHeld, HeldBy, Drives
<1>3. QED
  BY <1>1, <1>2, LeasedOnly

LEMMA DecisionEnds ==
  ASSUME NEW c, NEW s, NEW h, NEW k
  PROVE  LET d == Decide(c, s, h, k)
             p == DecidePartial(h, k)
         IN  /\ d.action = "retry" => d.to = "retry_wait"
             /\ d.action # "retry" => d.to \in {"failed", "cancelled", "needs_attention"}
             /\ OutcomeOf(d.action) \in Closings
             /\ p.action = "retry" => p.to = "retry_wait"
             /\ p.action # "retry" => p.to = "failed"
BY DEF Decide, DecidePartial, Final, RetryOf, OutcomeOf, Closings, Outcomes

(* A report closes the attempt of its worker, or is rolled back.           *)
LEMMA ReportCloses ==
  ASSUME Ledger, NEW w \in Workers, Report(w)
  PROVE  /\ worker' = [worker EXCEPT ![w] = Idle]
         /\ LeaseHeld(w) /\ UNCHANGED pinned
         /\ \/ \E x, r : Closes(HeldBy(w), x, r)
            \/ UNCHANGED <<durable, lease, seats, up>>
<1> DEFINE e == HeldBy(w)
<1>1. LeaseHeld(w)
  BY DEF Report, Succeed, Partial, Fail, FailRollsBack, Reported
<1>2. e \in Works /\ up /\ exec[e] = "leased" /\ lease[e] # 0
  BY <1>1, HolderLeased, LeasedOnly
<1>3. CASE Succeed(w)
  <2>1. Closes(e, "finished", "success")
    BY <1>2, <1>3 DEF Succeed, FinishExec, Closes, Closings, Outcomes, process
  <2>2. QED
    BY <1>1, <1>3, <2>1 DEF Succeed, Return, allocRest
<1>4. ASSUME NEW D \in SUBSET Jobs, Partial(w, D)
      PROVE  \E x, r : Closes(e, x, r)
  <2>1. \/ Closes(e, "finished", "error")
        \/ Closes(e, "ready", "error")
    BY <1>2, <1>4 DEF Partial, FinishExec, Requeue, Closes, Closings, Outcomes, process
  <2>2. QED
    BY <2>1
<1>5. ASSUME NEW c \in ErrorClasses, Fail(w, c)
      PROVE  \E x, r : Closes(e, x, r)
  <2> DEFINE r == OutcomeOf(FailDecision(w, c).action)
  <2>1. r \in Closings
    BY DecisionEnds DEF FailDecision
  <2>2. FinishAttempt(e, r) /\ DropLease(e) /\ UNCHANGED up
    BY <1>5 DEF Fail, process
  <2>3. \/ exec' = [exec EXCEPT ![e] = "ready"]
        \/ exec' = [exec EXCEPT ![e] = "finished"]
    BY <1>5 DEF Fail, Requeue, FinishExec
  <2>4. QED
    BY <1>2, <2>1, <2>2, <2>3 DEF Closes
<1>6. QED
  BY <1>1, <1>3, <1>4, <1>5
     DEF Report, Partial, Fail, FailRollsBack, Return, allocVars, allocRest, process

(* A cancel of a leased execution closes its attempt, too.                 *)
LEMMA CancelCloses ==
  ASSUME Ledger, NEW j, CancelLeased(j)
  PROVE  /\ \E e \in Works : Closes(e, "finished", "cancelled") /\ j \in Live(e)
         /\ UNCHANGED <<worker, pinned>>
<1>1. PICK e \in Works : /\ j \in Live(e) /\ lease[e] # 0
                         /\ FinishAttempt(e, "cancelled") /\ FinishExec(e) /\ DropLease(e)
                         /\ UNCHANGED <<worker, process, allocRest>>
  BY DEF CancelLeased
<1>2. up /\ exec[e] = "leased"
  BY <1>1, LeasedOnly
<1>3. QED
  BY <1>1, <1>2 DEF Closes, Closings, Outcomes, FinishExec, process, allocRest

(* All steps, by what they do to executions and their attempts.            *)
LEMMA LedgerSteps ==
  ASSUME Ledger, [Next]_vars
  PROVE  \/ \E w \in Workers : LeaseNext(w)
         \/ \E e \in Works : \E x, r : Closes(e, x, r)
         \/ \E w \in Workers : Click(w) \/ EmitSubmitted(w)
         \/ \E e \in Works : Submit(e)
         \/ \E j \in Jobs : CancelWaiting(j)
         \/ Crash \/ Recover
         \/ UNCHANGED <<exec, attempts, lease, seats, pinned, up>>
<1>1. ASSUME NEW w \in Workers, Report(w)
      PROVE  \/ \E e \in Works : \E x, r : Closes(e, x, r)
             \/ UNCHANGED <<exec, attempts, lease, seats, pinned, up>>
  BY <1>1, ReportCloses, HolderLeased DEF durable
<1>2. ASSUME NEW j \in Jobs, CancelLeased(j)
      PROVE  \E e \in Works : \E x, r : Closes(e, x, r)
  BY <1>2, CancelCloses
<1>3. CASE \/ \E w \in Workers : StopStale(w)
           \/ \E j \in Jobs : ResolveNeedsAttention(j)
           \/ \E e \in Works : Due(e)
           \/ \E a \in Accounts : CooldownOver(a) \/ ChangeAccount(a)
           \/ UNCHANGED vars
  BY <1>3 DEF StopStale, ResolveNeedsAttention, Due, CooldownOver, ChangeAccount,
              vars, durable, process, allocVars
<1>4. QED
  BY <1>1, <1>2, <1>3 DEF Next, WorkerStep, UserStep

-----------------------------------------------------------------------------
(* Memory and ledger.                                                      *)

LEMMA MatchInit == Init => LeaseMatchesLedger /\ DownHoldsNothing
BY DEF Init, LeaseMatchesLedger, DownHoldsNothing

LEMMA MatchClose ==
  ASSUME Ledger, NEW e \in Works, NEW x, NEW r, Closes(e, x, r)
  PROVE  LeaseMatchesLedger' /\ DownHoldsNothing'
<1>1. attempts[e] \in Seq(Attempts)
  BY DEF Ledger, TypeOK
<1> DEFINE s == attempts[e]
           t == [s EXCEPT ![Len(s)].outcome = r]
<1>2. /\ t \in Seq(Attempts) /\ DOMAIN t = DOMAIN s /\ Len(t) = Len(s)
      /\ \A i \in DOMAIN s : i # Len(s) => t[i] = s[i]
      /\ Len(s) \in DOMAIN s => t[Len(s)].outcome = r
  <2>1. t \in Seq(Attempts)
    BY <1>1, LedgerEdit DEF Closes, Closings
  <2>2. DOMAIN s = 1 .. Len(s) /\ Len(s) \in Nat
    BY <1>1
  <2>3. DOMAIN t = DOMAIN s
    OBVIOUS
  <2>4. Len(t) = Len(s)
    BY <2>1, <2>2, <2>3, LenProperties
  <2>5. Len(s) \in DOMAIN s => s[Len(s)] \in Attempts
    BY <1>1
  <2>6. QED
    BY <2>1, <2>3, <2>4, <2>5 DEF Attempts
<1>3. attempts' = [attempts EXCEPT ![e] = t]
  BY DEF Closes, FinishAttempt
<1> HIDE DEF t
<1>4. attempts'[e] = t /\ \A f \in Works \ {e} : attempts'[f] = attempts[f]
  BY <1>3 DEF Ledger, TypeOK
<1>5. exec'[e] = x /\ \A f \in Works \ {e} : exec'[f] = exec[f]
  BY DEF Closes, Ledger, TypeOK
<1>6. /\ lease'[e] = 0 /\ seats'[e] = NoSeat
      /\ \A f \in Works \ {e} : lease'[f] = lease[f] /\ seats'[f] = seats[f]
  BY DEF Closes, DropLease, ReleaseSeat, Ledger, TypeOK, AllocTypeOK
<1>7. up' = up /\ up /\ x # "leased" /\ r # "open"
  BY DEF Closes, Closings
<1>8. \A i \in DOMAIN t : t[i].outcome # "open"
  BY <1>2, <1>7 DEF Ledger, LeaseMatchesLedger
<1>9. QED
  BY <1>4, <1>5, <1>6, <1>7, <1>8 DEF Ledger, LeaseMatchesLedger, DownHoldsNothing

LEMMA MatchLease ==
  ASSUME Ledger, NEW w \in Workers, LeaseNext(w)
  PROVE  LeaseMatchesLedger' /\ DownHoldsNothing'
<1>1. PICK e \in Works, a \in Accounts :
        /\ exec[e] = "ready" /\ up /\ UNCHANGED up
        /\ TakeSeat(e, a) /\ seats'[e] \in Seat
        /\ lease' = [lease EXCEPT ![e] = Len(attempts[e]) + 1]
        /\ exec' = [exec EXCEPT ![e] = "leased"]
        /\ attempts' = [attempts EXCEPT ![e] = Append(@, NewAttempt)]
  BY LeaseTaken DEF Ledger
<1> DEFINE s == attempts[e]
<1>2. s \in Seq(Attempts) /\ Len(s) \in Nat /\ NewAttempt \in Attempts
  BY DEF Ledger, TypeOK, NewAttempt, Attempts, Outcomes
<1>3. attempts'[e] = Append(s, NewAttempt)
      /\ \A f \in Works \ {e} : attempts'[f] = attempts[f]
  BY <1>1 DEF Ledger, TypeOK
<1>4. \A i \in DOMAIN s : s[i].outcome # "open"
  BY <1>1 DEF Ledger, LeaseMatchesLedger
<1>5. /\ Len(attempts'[e]) = Len(s) + 1
      /\ \A i \in DOMAIN attempts'[e] :
           attempts'[e][i].outcome = "open" <=> i = Len(s) + 1
  BY <1>2, <1>3, <1>4, AppendProperties DEF NewAttempt
<1>6. /\ lease'[e] = Len(s) + 1 /\ exec'[e] = "leased"
      /\ \A f \in Works \ {e} : lease'[f] = lease[f] /\ exec'[f] = exec[f]
  BY <1>1 DEF Ledger, TypeOK
<1>7. /\ seats'[e] # NoSeat
      /\ \A f \in Works \ {e} : seats'[f] = seats[f]
  BY <1>1, AccountAssumption DEF TakeSeat, Seat, NoSeat, Ledger, TypeOK, AllocTypeOK
<1>8. lease'[e] # 0
  BY <1>2, <1>6
<1>9. QED
  BY <1>1, <1>3, <1>5, <1>6, <1>7, <1>8 DEF Ledger, LeaseMatchesLedger, DownHoldsNothing

(* A click or its record changes neither length nor outcomes.              *)
LEMMA DriveKeepsOutcomes ==
  ASSUME Ledger, NEW w \in Workers, Click(w) \/ EmitSubmitted(w)
  PROVE  /\ \A f \in Works :
              /\ Len(attempts'[f]) = Len(attempts[f])
              /\ DOMAIN attempts'[f] = DOMAIN attempts[f]
              /\ \A i \in DOMAIN attempts[f] :
                   attempts'[f][i].outcome = attempts[f][i].outcome
         /\ UNCHANGED <<exec, lease, seats, pinned, up, job>>
<1>1. worker[w] # Idle
  BY DEF Click, EmitSubmitted, Idle
<1>2. HeldBy(w) \in Works
  BY <1>1, HolderDrives DEF Ledger
<1> DEFINE e == HeldBy(w)
           n == worker[w].number
           s == attempts[e]
           c == [s EXCEPT ![n].clicked = TRUE]
           u == [s EXCEPT ![n].submitted = TRUE]
<1>3. s \in Seq(Attempts)
  BY <1>2 DEF Ledger, TypeOK
<1>4. attempts' = [attempts EXCEPT ![e] = c] \/ attempts' = [attempts EXCEPT ![e] = u]
  BY DEF Click, EmitSubmitted
<1>5. DOMAIN c = DOMAIN s /\ DOMAIN u = DOMAIN s
  OBVIOUS
<1>6. c \in Seq(Attempts) /\ u \in Seq(Attempts)
  BY <1>3, LedgerEdit DEF Outcomes
<1>7. Len(c) = Len(s) /\ Len(u) = Len(s)
  BY <1>3, <1>5, <1>6, LenProperties
<1>8. \A i \in DOMAIN s : c[i].outcome = s[i].outcome /\ u[i].outcome = s[i].outcome
  <2> TAKE i \in DOMAIN s
  <2>1. s[i] \in Attempts
    BY <1>3
  <2>2. QED
    BY <2>1 DEF Attempts
<1> HIDE DEF c, u
<1>9. /\ attempts'[e] \in {c, u}
      /\ \A f \in Works \ {e} : attempts'[f] = attempts[f]
  BY <1>2, <1>4 DEF Ledger, TypeOK
<1>10. QED
  BY <1>2, <1>5, <1>7, <1>8, <1>9 DEF Click, EmitSubmitted, process, allocVars

LEMMA MatchDrive ==
  ASSUME Ledger, NEW w \in Workers, Click(w) \/ EmitSubmitted(w)
  PROVE  LeaseMatchesLedger' /\ DownHoldsNothing'
<1>1. up
  BY DEF Click, EmitSubmitted
<1>2. UNCHANGED <<exec, lease, seats, up>>
  BY DriveKeepsOutcomes
<1>3. ASSUME NEW f \in Works
      PROVE  /\ Len(attempts'[f]) = Len(attempts[f])
             /\ \A i \in DOMAIN attempts'[f] :
                  /\ i \in DOMAIN attempts[f]
                  /\ attempts'[f][i].outcome = attempts[f][i].outcome
  BY DriveKeepsOutcomes
<1>4. QED
  BY <1>1, <1>2, <1>3 DEF Ledger, LeaseMatchesLedger, DownHoldsNothing

LEMMA MatchRecover ==
  ASSUME Ledger, Recover
  PROVE  LeaseMatchesLedger' /\ DownHoldsNothing'
<1> DEFINE leased == {e \in Works : exec[e] = "leased"}
           sent == {e \in leased : Last(e).submitted}
<1>1. /\ ~up /\ up' = TRUE
      /\ \A e \in Works : lease'[e] = 0 /\ seats'[e] = NoSeat
      /\ \A e \in Works : exec'[e] # "leased"
  BY DEF Recover, Ledger, DownHoldsNothing, LeaseMatchesLedger
<1>2. ASSUME NEW e \in Works, NEW i \in DOMAIN attempts'[e]
      PROVE  attempts'[e][i].outcome # "open"
  <2> DEFINE s == attempts[e]
             r == IF e \in sent THEN "unknown" ELSE "error"
             t == [s EXCEPT ![Len(s)].outcome = r]
  <2>1. s \in Seq(Attempts)
    BY DEF Ledger, TypeOK
  <2>2. \A k \in DOMAIN s : s[k].outcome = "open" => k = Len(s) /\ e \in leased
    BY DEF Ledger, LeaseMatchesLedger
  <2>3. CASE e \in leased
    <3>1. attempts'[e] = t
      BY <2>3 DEF Recover
    <3>2. DOMAIN t = DOMAIN s
      OBVIOUS
    <3>3. i \in DOMAIN s /\ s[i] \in Attempts
      BY <2>1, <3>1, <3>2
    <3>4. CASE i = Len(s)
      BY <3>1, <3>3, <3>4 DEF Attempts
    <3>5. CASE i # Len(s)
      <4>1. t[i] = s[i]
        BY <3>3, <3>5
      <4>2. QED
        BY <2>2, <3>1, <3>3, <3>5, <4>1
    <3>6. QED
      BY <3>4, <3>5
  <2>4. CASE e \notin leased
    BY <2>2, <2>4 DEF Recover
  <2>5. QED
    BY <2>3, <2>4
<1>3. QED
  BY <1>1, <1>2 DEF LeaseMatchesLedger, DownHoldsNothing

LEMMA MatchRest ==
  ASSUME Ledger,
         \/ \E e \in Works : Submit(e)
         \/ \E j \in Jobs : CancelWaiting(j)
         \/ Crash
  PROVE  LeaseMatchesLedger' /\ DownHoldsNothing'
<1>1. ASSUME NEW e \in Works, Submit(e) PROVE LeaseMatchesLedger' /\ DownHoldsNothing'
  <2>1. /\ up /\ exec[e] # "leased" /\ exec'[e] # "leased"
        /\ \A f \in Works \ {e} : exec'[f] = exec[f]
    BY <1>1 DEF Submit, Ledger, TypeOK
  <2>2. UNCHANGED <<attempts, lease, seats, up>>
    BY <1>1 DEF Submit, process
  <2>3. QED
    BY <2>1, <2>2 DEF Ledger, LeaseMatchesLedger, DownHoldsNothing
<1>2. ASSUME NEW j \in Jobs, CancelWaiting(j) PROVE LeaseMatchesLedger' /\ DownHoldsNothing'
  <2>1. PICK e \in Works : up /\ exec[e] = "ready" /\ FinishExec(e)
    BY <1>2 DEF CancelWaiting
  <2>2. exec'[e] = "finished" /\ \A f \in Works \ {e} : exec'[f] = exec[f]
    BY <2>1 DEF FinishExec, Ledger, TypeOK
  <2>3. UNCHANGED <<attempts, lease, seats, up>>
    BY <1>2 DEF CancelWaiting, process, allocVars
  <2>4. QED
    BY <2>1, <2>2, <2>3 DEF Ledger, LeaseMatchesLedger, DownHoldsNothing
<1>3. CASE Crash
  BY <1>3 DEF Crash, durable, Ledger, LeaseMatchesLedger, DownHoldsNothing
<1>4. QED
  BY <1>1, <1>2, <1>3

(* Nothing happens while the process is down, but that time passes.        *)
LEMMA DownSteps ==
  ASSUME [Next]_vars, ~up
  PROVE  \/ \E e \in Works : Due(e)
         \/ \E a \in Accounts : CooldownOver(a)
         \/ Recover \/ UNCHANGED vars
<1>1. \A w \in Workers : ~LeaseNext(w) /\ ~WorkerStep(w)
  BY DEF LeaseNext, WorkerStep, Click, EmitSubmitted, Report, Succeed, Partial,
         Fail, FailRollsBack, Reported, StopStale
<1>2. \A e \in Works : ~Submit(e)
  BY DEF Submit
<1>3. \A j \in Jobs : ~UserStep(j)
  BY DEF UserStep, CancelLeased, CancelWaiting, ResolveNeedsAttention
<1>4. (\A a \in Accounts : ~ChangeAccount(a)) /\ ~Crash
  BY DEF ChangeAccount, Crash
<1>5. QED
  BY <1>1, <1>2, <1>3, <1>4 DEF Next

LEMMA LedgerStep == ASSUME Ledger, [Next]_vars PROVE Ledger'
<1>1. TypeOK' /\ SeatOfLease'
  BY TypeStep, SeatOfLeaseStep DEF Ledger
<1>2. ASSUME UNCHANGED <<exec, attempts, lease, seats, up>>
      PROVE  LeaseMatchesLedger'
  BY <1>2 DEF Ledger, LeaseMatchesLedger
<1>3. ASSUME ~up, UNCHANGED <<exec, attempts, lease, seats, up>>
      PROVE  \A w \in Workers : worker'[w] = Idle
  <2>1. \A w \in Workers : worker[w] = Idle
    BY <1>3 DEF Ledger, DownHoldsNothing
  <2>2. UNCHANGED worker
    BY <1>3, DownSteps DEF Due, CooldownOver, Recover, vars
  <2>3. QED
    BY <2>1, <2>2
<1>4. ASSUME UNCHANGED <<exec, attempts, lease, seats, up>>
      PROVE  DownHoldsNothing'
  BY <1>3, <1>4 DEF Ledger, DownHoldsNothing
<1>5. LeaseMatchesLedger' /\ DownHoldsNothing'
  BY <1>2, <1>4, LedgerSteps, MatchClose, MatchLease, MatchDrive, MatchRecover, MatchRest
<1>6. QED
  BY <1>1, <1>5 DEF Ledger

LEMMA LedgerAlways == Spec => []Ledger
<1>1. Init => Ledger
  BY TypeInit, MatchInit DEF Init, SeatOfLease, Ledger
<1>2. Ledger /\ [Next]_vars => Ledger'
  BY LedgerStep
<1>3. QED
  BY <1>1, <1>2, PTL DEF Spec

(* Whatever workers, users and crashes do, the leases and seats in memory  *)
(* are those the schedule and the attempts in SQLite tell of.              *)
THEOREM MemoryMatchesLedger == Spec => []LeaseMatchesLedger
<1>1. Ledger => LeaseMatchesLedger
  BY DEF Ledger
<1>2. QED
  BY <1>1, LedgerAlways, PTL

-----------------------------------------------------------------------------
(* No stranded job.                                                        *)

(* What a step that touches one execution has to do with its members.      *)
SettlesMembers(e) ==
  /\ \A j \in Jobs \ Members[e] : job'[j] = job[j]
  /\ \A j \in Members[e] :
       /\ job'[j] \in Waiting => exec'[e] = "ready"
       /\ job'[j] = "running" => exec'[e] = "leased"
  /\ \A f \in Works \ {e} : exec'[f] = exec[f]

LEMMA NobodyStranded ==
  ASSUME NoStrandedJob, NEW e \in Works, SettlesMembers(e)
  PROVE  NoStrandedJob'
<1>1. \A f \in Works \ {e} : \A j \in Members[f] : j \in Jobs \ Members[e]
  BY RuntimeAssumption
<1>2. ASSUME NEW f \in Works, NEW j \in Members[f]
      PROVE  /\ job'[j] \in Waiting => exec'[f] = "ready"
             /\ job'[j] = "running" => exec'[f] = "leased"
  <2>1. CASE f = e
    BY <2>1 DEF SettlesMembers
  <2>2. CASE f # e
    <3>1. job'[j] = job[j] /\ exec'[f] = exec[f]
      BY <1>1, <2>2 DEF SettlesMembers
    <3>2. QED
      BY <3>1 DEF NoStrandedJob
  <2>3. QED
    BY <2>1, <2>2
<1>3. QED
  BY <1>2 DEF NoStrandedJob

LEMMA MembersWait ==
  ASSUME Ledger, NoStrandedJob, NEW e \in Works, NEW j \in Members[e]
  PROVE  /\ job[j] \in States /\ j \in Jobs
         /\ exec[e] = "leased" => job[j] \notin Waiting
         /\ exec[e] # "leased" => job[j] # "running"
BY RuntimeAssumption DEF NoStrandedJob, Ledger, TypeOK

LEMMA ReportSettles ==
  ASSUME Ledger, NoStrandedJob, NEW w \in Workers, Report(w)
  PROVE  \/ SettlesMembers(HeldBy(w))
         \/ UNCHANGED <<job, exec>>
<1> DEFINE e == HeldBy(w)
<1>1. LeaseHeld(w)
  BY ReportCloses
<1>2. e \in Works /\ exec[e] = "leased" /\ exec \in [Works -> ExecStates]
  BY <1>1, HolderLeased DEF Ledger, TypeOK
<1>3. \A j \in Members[e] : job[j] \notin Waiting /\ j \in Jobs
  BY <1>2, MembersWait
<1>4. CASE Succeed(w)
  BY <1>2, <1>3, <1>4
     DEF Succeed, FinishExec, SetJobs, Running, SettlesMembers, Waiting
<1>5. ASSUME NEW D \in SUBSET Jobs, Partial(w, D) PROVE SettlesMembers(e)
  <2> DEFINE d == DecidePartial(History(e, EarlierErrors(e)), KindOf[e])
  <2>1. /\ d.action = "retry" => d.to = "retry_wait"
        /\ d.action # "retry" => d.to = "failed"
    BY DecisionEnds
  <2>2. IF d.action = "retry" THEN exec' = [exec EXCEPT ![e] = "ready"]
                              ELSE exec' = [exec EXCEPT ![e] = "finished"]
    BY <1>5 DEF Partial, Requeue, FinishExec
  <2> HIDE DEF d
  <2>3. job' = [j \in Jobs |-> IF j \in D THEN "completed"
                              ELSE IF j \in Running(e) \ D THEN d.to ELSE job[j]]
    <3>1. job' = [j \in Jobs |-> CASE j \in D -> "completed"
                                   [] j \in Running(e) \ D -> d.to
                                   [] OTHER -> job[j]]
      BY <1>5 DEF Partial, d
    <3>2. QED
      BY <3>1
  <2>4. D \subseteq Running(e)
    BY <1>5 DEF Partial
  <2>5. QED
    BY <1>2, <1>3, <2>1, <2>2, <2>3, <2>4 DEF SettlesMembers, Running, Waiting
<1>6. ASSUME NEW c \in ErrorClasses, Fail(w, c) PROVE SettlesMembers(e)
  <2> DEFINE d == FailDecision(w, c)
  <2>1. /\ d.action = "retry" => d.to = "retry_wait"
        /\ d.action # "retry" => d.to \in {"failed", "cancelled", "needs_attention"}
    BY DecisionEnds DEF FailDecision
  <2>2. /\ SetJobs(Members[e], d.to)
        /\ IF d.action = "retry" THEN exec' = [exec EXCEPT ![e] = "ready"]
                                 ELSE exec' = [exec EXCEPT ![e] = "finished"]
    BY <1>6 DEF Fail, Requeue, FinishExec
  <2> HIDE DEF d
  <2>3. QED
    BY <1>2, <1>3, <2>1, <2>2 DEF SettlesMembers, SetJobs, Waiting
<1>7. QED
  BY <1>4, <1>5, <1>6 DEF Report, FailRollsBack, durable

LEMMA UserSettles ==
  ASSUME Ledger, NoStrandedJob, NEW j \in Jobs, UserStep(j)
  PROVE  NoStrandedJob'
<1>1. CASE CancelLeased(j) \/ CancelWaiting(j)
  <2>1. PICK e \in Works : SetJobs(Live(e), "cancelled") /\ FinishExec(e)
    BY <1>1 DEF CancelLeased, CancelWaiting
  <2>2. \A k \in Members[e] : k \in Jobs /\ job'[k] \notin Waiting \cup {"running"}
    BY <2>1, RuntimeAssumption DEF SetJobs, Live, Waiting, Settled
  <2>3. Live(e) \subseteq Members[e] /\ exec \in [Works -> ExecStates]
    BY DEF Live, Ledger, TypeOK
  <2>4. SettlesMembers(e)
    BY <2>1, <2>2, <2>3 DEF SettlesMembers, SetJobs, FinishExec
  <2>5. QED
    BY <2>4, NobodyStranded
<1>2. CASE ResolveNeedsAttention(j)
  <2>1. \A k \in Jobs : job'[k] \in {job[k], "cancelled"}
    BY <1>2 DEF ResolveNeedsAttention, SetJobs
  <2>2. UNCHANGED exec
    BY <1>2 DEF ResolveNeedsAttention
  <2>3. QED
    BY <2>1, <2>2, MembersWait DEF NoStrandedJob, Waiting
<1>3. QED
  BY <1>1, <1>2 DEF UserStep

LEMMA RecoverSettles == ASSUME Ledger, NoStrandedJob, Recover PROVE NoStrandedJob'
<1> DEFINE leased == {e \in Works : exec[e] = "leased"}
           sent == {e \in leased : Last(e).submitted}
           movedTo(e) == IF e \in sent THEN "needs_attention" ELSE "retry_wait"
           ownerOf(j) == CHOOSE e \in Works : j \in Members[e]
           moved == UNION {Running(e) : e \in leased}
<1>1. /\ job' = [j \in Jobs |-> IF j \in moved THEN movedTo(ownerOf(j)) ELSE job[j]]
      /\ exec' = [e \in Works |-> CASE e \in sent -> "finished"
                                    [] e \in leased \ sent -> "ready"
                                    [] OTHER -> exec[e]]
  BY DEF Recover
<1>2. ASSUME NEW e \in Works, NEW j \in Members[e]
      PROVE  /\ job'[j] \in Waiting => exec'[e] = "ready"
             /\ job'[j] = "running" => exec'[e] = "leased"
  <2>1. j \in Jobs /\ ownerOf(j) = e
    BY RuntimeAssumption
  <2>2. j \in moved <=> e \in leased /\ job[j] = "running"
    BY RuntimeAssumption DEF Running
  <2>3. job'[j] = IF j \in moved THEN movedTo(e) ELSE job[j]
    BY <1>1, <2>1
  <2>4. CASE e \in sent
    BY <1>1, <2>2, <2>3, <2>4, MembersWait DEF Waiting
  <2>5. CASE e \in leased \ sent
    <3>1. exec'[e] = "ready"
      BY <1>1, <2>5
    <3>2. job'[j] # "running"
      BY <2>2, <2>3, <2>5
    <3>3. QED
      BY <3>1, <3>2
  <2>6. CASE e \notin leased
    <3>1. exec'[e] = exec[e]
      BY <1>1, <2>6
    <3>2. job'[j] = job[j]
      BY <2>2, <2>3, <2>6
    <3>3. QED
      BY <3>1, <3>2 DEF NoStrandedJob
  <2>7. QED
    BY <2>4, <2>5, <2>6
<1>3. QED
  BY <1>2 DEF NoStrandedJob

LEMMA StartSettles ==
  ASSUME Ledger, NoStrandedJob,
         \/ \E e \in Works : Submit(e)
         \/ \E w \in Workers : LeaseNext(w)
  PROVE  NoStrandedJob'
<1>1. exec \in [Works -> ExecStates]
  BY DEF Ledger, TypeOK
<1>2. ASSUME NEW e \in Works, Submit(e) PROVE NoStrandedJob'
  <2>1. \A j \in Members[e] : j \in Jobs
    BY RuntimeAssumption
  <2>2. SettlesMembers(e)
    BY <1>1, <1>2, <2>1 DEF Submit, SetJobs, SettlesMembers
  <2>3. QED
    BY <2>2, NobodyStranded
<1>3. ASSUME NEW w \in Workers, LeaseNext(w) PROVE NoStrandedJob'
  <2>1. PICK e \in Works :
          /\ exec[e] = "ready" /\ exec' = [exec EXCEPT ![e] = "leased"]
          /\ SetJobs({j \in Members[e] : job[j] \in Waiting}, "running")
    BY <1>3, LeaseTaken DEF Ledger
  <2>2. \A j \in Members[e] : j \in Jobs
    BY RuntimeAssumption
  <2>3. SettlesMembers(e)
    BY <1>1, <2>1, <2>2 DEF SetJobs, SettlesMembers, Waiting
  <2>4. QED
    BY <2>3, NobodyStranded
<1>4. QED
  BY <1>2, <1>3

(* A job that waits has an execution in the schedule, a job that runs a    *)
(* leased one, through every cancel, partial batch, rollback and restart.  *)
THEOREM JobsAreNotStranded == Spec => []NoStrandedJob
<1>1. Init => NoStrandedJob
  BY RuntimeAssumption DEF Init, NoStrandedJob, Waiting
<1>2. Ledger /\ NoStrandedJob /\ [Next]_vars => NoStrandedJob'
  <2> SUFFICES ASSUME Ledger, NoStrandedJob, [Next]_vars PROVE NoStrandedJob'
    OBVIOUS
  <2>1. ASSUME NEW w \in Workers, Report(w) PROVE NoStrandedJob'
    <3>1. HeldBy(w) \in Works
      BY <2>1, ReportCloses, HolderLeased
    <3>2. QED
      BY <2>1, <3>1, ReportSettles, NobodyStranded DEF NoStrandedJob
  <2>2. CASE \/ \E w \in Workers : Click(w) \/ EmitSubmitted(w) \/ StopStale(w)
             \/ \E e \in Works : Due(e)
             \/ \E a \in Accounts : CooldownOver(a) \/ ChangeAccount(a)
             \/ Crash \/ UNCHANGED vars
    <3>1. UNCHANGED <<job, exec>>
      BY <2>2 DEF Click, EmitSubmitted, StopStale, Due, CooldownOver, ChangeAccount,
                  Crash, vars, durable
    <3>2. QED
      BY <3>1 DEF NoStrandedJob
  <2>3. QED
    BY <2>1, <2>2, StartSettles, UserSettles, RecoverSettles DEF Next, WorkerStep
<1>3. QED
  BY <1>1, <1>2, LedgerAlways, PTL DEF Spec

-----------------------------------------------------------------------------
(* One thread per execution.                                               *)

(* Only a lease gives a thread something to drive.                         *)
LEMMA ThreadSteps ==
  ASSUME Ledger, [Next]_vars
  PROVE  \/ \E w \in Workers : LeaseNext(w)
         \/ \A v \in Workers :
              worker'[v] # Idle => worker[v] # Idle /\ HeldBy(v)' = HeldBy(v)
<1>1. ASSUME NEW w \in Workers, WorkerStep(w), NEW v \in Workers, worker'[v] # Idle
      PROVE  worker[v] # Idle /\ HeldBy(v)' = HeldBy(v)
  <2>1. \/ worker' = [worker EXCEPT ![w] = Idle]
        \/ worker' = [worker EXCEPT ![w].phase = "clicked"]
        \/ worker' = [worker EXCEPT ![w].phase = "after"]
    BY <1>1, ReportCloses DEF WorkerStep, Click, EmitSubmitted, StopStale, Return
  <2>2. CASE v # w \/ worker' = [worker EXCEPT ![w] = Idle]
    <3>1. worker'[v] = worker[v]
      BY <1>1, <2>1, <2>2 DEF Ledger, TypeOK
    <3>2. QED
      BY <1>1, <3>1 DEF HeldBy
  <2>3. CASE v = w /\ worker' # [worker EXCEPT ![w] = Idle]
    <3>1. worker[w] # Idle
      BY <1>1, <2>3, ReportCloses
         DEF WorkerStep, Click, EmitSubmitted, StopStale, Return, Idle
    <3>2. worker[w] \in Drives
      BY <3>1, HolderDrives DEF Ledger
    <3>3. \/ worker'[w] = [worker[w] EXCEPT !.phase = "clicked"]
          \/ worker'[w] = [worker[w] EXCEPT !.phase = "after"]
      BY <2>1, <2>3 DEF Ledger, TypeOK
    <3>4. worker'[w].exec = worker[w].exec
      BY <3>2, <3>3 DEF Drives
    <3>5. QED
      BY <2>3, <3>1, <3>4 DEF HeldBy
  <2>4. QED
    BY <2>2, <2>3
<1>2. CASE \/ \E j \in Jobs : UserStep(j)
           \/ \E e \in Works : Submit(e) \/ Due(e)
           \/ \E a \in Accounts : CooldownOver(a) \/ ChangeAccount(a)
           \/ Recover \/ UNCHANGED vars
  <2>1. UNCHANGED worker
    BY <1>2 DEF UserStep, CancelLeased, CancelWaiting, ResolveNeedsAttention, Submit,
                Due, CooldownOver, ChangeAccount, Recover, vars
  <2>2. QED
    BY <2>1 DEF HeldBy
<1>3. CASE Crash
  BY <1>3 DEF Crash
<1>4. QED
  BY <1>1, <1>2, <1>3 DEF Next

(* An execution goes back into the schedule by its own worker's report or  *)
(* while no worker exists.                                                 *)
LEMMA ReadySteps ==
  ASSUME Ledger, [Next]_vars, NEW e \in Works,
         exec[e] \in {"leased", "finished"}, exec'[e] \notin {"leased", "finished"}
  PROVE  \/ \E w \in Workers : Report(w) /\ HeldBy(w) = e
         \/ \A w \in Workers : worker'[w] = Idle
<1>1. exec \in [Works -> ExecStates]
  BY DEF Ledger, TypeOK
<1>2. ASSUME NEW w \in Workers, Report(w) PROVE HeldBy(w) = e
  <2>1. \/ \E x, r : Closes(HeldBy(w), x, r)
        \/ UNCHANGED exec
    BY <1>2, ReportCloses DEF durable
  <2>2. QED
    BY <1>1, <2>1 DEF Closes
<1>3. CASE Recover
  BY <1>3 DEF Recover, Ledger, DownHoldsNothing
<1>4. ASSUME NEW j \in Jobs, UserStep(j) PROVE FALSE
  BY <1>1, <1>4
     DEF UserStep, CancelLeased, CancelWaiting, ResolveNeedsAttention, FinishExec
<1>5. ASSUME NEW w \in Workers, LeaseNext(w) PROVE FALSE
  <2>1. PICK f \in Works : exec' = [exec EXCEPT ![f] = "leased"]
    BY <1>5, LeaseTaken DEF Ledger
  <2>2. QED
    BY <1>1, <2>1
<1>6. CASE \E f \in Works : Submit(f)
  BY <1>1, <1>6 DEF Submit
<1>7. CASE \/ \E w \in Workers : Click(w) \/ EmitSubmitted(w) \/ StopStale(w)
           \/ \E f \in Works : Due(f)
           \/ \E a \in Accounts : CooldownOver(a) \/ ChangeAccount(a)
           \/ Crash \/ UNCHANGED vars
  BY <1>7 DEF Click, EmitSubmitted, StopStale, Due, CooldownOver, ChangeAccount,
              Crash, vars, durable
<1>8. QED
  BY <1>2, <1>3, <1>4, <1>5, <1>6, <1>7 DEF Next, WorkerStep

LEMMA DrivenStep ==
  ASSUME Ledger, OneThreadPerExecution, DrivenIsStarted, [Next]_vars
  PROVE  OneThreadPerExecution' /\ DrivenIsStarted'
<1>1. ASSUME NEW w \in Workers, LeaseNext(w)
      PROVE  OneThreadPerExecution' /\ DrivenIsStarted'
  <2>1. PICK e \in Works :
          /\ exec[e] = "ready" /\ exec' = [exec EXCEPT ![e] = "leased"]
          /\ worker' = [worker EXCEPT ![w] =
                         Drive(e, Len(attempts[e]) + 1, "before", seats'[e])]
    BY <1>1, LeaseTaken DEF Ledger
  <2>2. /\ worker'[w].exec = e
        /\ \A v \in Workers \ {w} : worker'[v] = worker[v]
    BY <2>1 DEF Drive, Ledger, TypeOK
  <2>3. \A v \in Workers : worker[v] # Idle => HeldBy(v) \in Works /\ HeldBy(v) # e
    BY <2>1, HolderDrives DEF DrivenIsStarted, Ledger
  <2>4. \A v \in Workers : worker[v].exec # e
    BY <2>3, RuntimeAssumption DEF HeldBy, Idle
  <2>5. OneThreadPerExecution'
    BY <2>2, <2>4 DEF OneThreadPerExecution
  <2>6. exec'[e] = "leased" /\ \A f \in Works \ {e} : exec'[f] = exec[f]
    BY <2>1 DEF Ledger, TypeOK
  <2>7. DrivenIsStarted'
    BY <2>2, <2>3, <2>6 DEF DrivenIsStarted, HeldBy
  <2>8. QED
    BY <2>5, <2>7
<1>2. ASSUME \A v \in Workers :
               worker'[v] # Idle => worker[v] # Idle /\ HeldBy(v)' = HeldBy(v)
      PROVE  OneThreadPerExecution' /\ DrivenIsStarted'
  <2>1. ASSUME NEW v \in Workers, NEW w \in Workers, v # w, worker'[v] # Idle
        PROVE  worker'[v].exec # worker'[w].exec
    <3>1. worker'[v].exec = worker[v].exec /\ worker[v] # Idle
      BY <1>2, <2>1 DEF HeldBy
    <3>2. CASE worker'[w] = Idle
      <4>1. worker[v].exec \in Works
        BY <3>1, HolderDrives DEF Ledger, HeldBy
      <4>2. worker'[w].exec = NoExec
        BY <3>2 DEF Idle
      <4>3. QED
        BY <3>1, <4>1, <4>2, RuntimeAssumption
    <3>3. CASE worker'[w] # Idle
      <4>1. worker'[w].exec = worker[w].exec
        BY <1>2, <3>3 DEF HeldBy
      <4>2. QED
        BY <2>1, <3>1, <4>1 DEF OneThreadPerExecution
    <3>4. QED
      BY <3>2, <3>3
  <2>2. ASSUME NEW v \in Workers, worker'[v] # Idle
        PROVE  exec'[HeldBy(v)'] \in {"leased", "finished"}
    <3> DEFINE e == HeldBy(v)
    <3>1. worker[v] # Idle /\ HeldBy(v)' = e /\ e \in Works
      BY <1>2, <2>2, HolderDrives DEF Ledger
    <3>2. exec[e] \in {"leased", "finished"}
      BY <3>1 DEF DrivenIsStarted
    <3>3. SUFFICES ASSUME exec'[e] \notin {"leased", "finished"} PROVE FALSE
      BY <3>1
    <3>4. CASE \E w \in Workers : Report(w) /\ HeldBy(w) = e
      <4>1. PICK w \in Workers : Report(w) /\ HeldBy(w) = e
        BY <3>4
      <4>2. w = v
        BY <3>1, <4>1 DEF OneThreadPerExecution, HeldBy
      <4>3. worker'[v] = Idle
        BY <4>1, <4>2, ReportCloses DEF Ledger, TypeOK
      <4>4. QED
        BY <2>2, <4>3
    <3>5. QED
      BY <2>2, <3>1, <3>2, <3>3, <3>4, ReadySteps
  <2>3. QED
    BY <2>1, <2>2 DEF OneThreadPerExecution, DrivenIsStarted
<1>3. QED
  BY <1>1, <1>2, ThreadSteps

LEMMA DrivenAlways == Spec => [](OneThreadPerExecution /\ DrivenIsStarted)
<1>1. Init => OneThreadPerExecution /\ DrivenIsStarted
  BY DEF Init, OneThreadPerExecution, DrivenIsStarted
<1>2. /\ Ledger /\ OneThreadPerExecution /\ DrivenIsStarted /\ [Next]_vars
      => OneThreadPerExecution' /\ DrivenIsStarted'
  BY DrivenStep
<1>3. QED
  BY <1>1, <1>2, LedgerAlways, PTL DEF Spec

(* No execution is handed to a second thread while one is still driving    *)
(* it, cancelled or not.                                                   *)
THEOREM OneThreadEach == Spec => []OneThreadPerExecution
<1>1. OneThreadPerExecution /\ DrivenIsStarted => OneThreadPerExecution
  OBVIOUS
<1>2. QED
  BY <1>1, DrivenAlways, PTL

-----------------------------------------------------------------------------
(* A submitted video is not run again.                                     *)

(* An execution that has not been accepted has no attempts.                *)
FreshIsEmpty == \A e \in Works : exec[e] = "none" => attempts[e] = <<>>

LEMMA CloseKeepsSubmits ==
  ASSUME Ledger, NEW e \in Works, NEW x, NEW r, Closes(e, x, r)
  PROVE  /\ \A f \in Works \ {e} :
              /\ attempts'[f] = attempts[f]
              /\ exec'[f] = exec[f] /\ lease'[f] = lease[f]
         /\ exec'[e] = x /\ lease'[e] = 0
         /\ Len(attempts'[e]) = Len(attempts[e])
         /\ DOMAIN attempts'[e] = DOMAIN attempts[e]
         /\ \A i \in DOMAIN attempts[e] :
              attempts'[e][i].submitted = attempts[e][i].submitted
<1> DEFINE s == attempts[e]
           t == [s EXCEPT ![Len(s)].outcome = r]
<1>1. s \in Seq(Attempts)
  BY DEF Ledger, TypeOK
<1>2. t \in Seq(Attempts) /\ DOMAIN t = DOMAIN s
  BY <1>1, LedgerEdit DEF Closes, Closings
<1>3. Len(t) = Len(s)
  BY <1>1, <1>2, LenProperties
<1>4. \A i \in DOMAIN s : t[i].submitted = s[i].submitted
  <2> TAKE i \in DOMAIN s
  <2>1. s[i] \in Attempts
    BY <1>1
  <2>2. QED
    BY <2>1 DEF Attempts
<1>5. attempts' = [attempts EXCEPT ![e] = t]
  BY DEF Closes, FinishAttempt
<1> HIDE DEF t
<1>6. /\ attempts'[e] = t
      /\ \A f \in Works \ {e} : attempts'[f] = attempts[f]
  BY <1>5 DEF Ledger, TypeOK
<1>7. /\ \A f \in Works \ {e} : exec'[f] = exec[f] /\ lease'[f] = lease[f]
      /\ exec'[e] = x /\ lease'[e] = 0
  BY DEF Closes, DropLease, Ledger, TypeOK
<1>8. QED
  BY <1>2, <1>3, <1>4, <1>6, <1>7

(* What the two steps of a browser thread do to its attempt.               *)
LEMMA DriveMarks ==
  ASSUME Ledger, NEW w \in Workers, Click(w) \/ EmitSubmitted(w)
  PROVE  LET e == HeldBy(w)
             n == worker[w].number
         IN  /\ e \in Works /\ n \in Nat \ {0}
             /\ \A f \in Works \ {e} : attempts'[f] = attempts[f]
             /\ \A v \in Workers \ {w} : worker'[v] = worker[v]
             /\ HeldBy(w)' = e /\ worker'[w].number = n
             /\ \A i \in DOMAIN attempts[e] :
                  attempts'[e][i].submitted =
                    IF i = n /\ EmitSubmitted(w) THEN TRUE ELSE attempts[e][i].submitted
             /\ worker'[w].phase = IF EmitSubmitted(w) THEN "after" ELSE "clicked"
<1> DEFINE e == HeldBy(w)
           n == worker[w].number
           s == attempts[e]
           c == [s EXCEPT ![n].clicked = TRUE]
           u == [s EXCEPT ![n].submitted = TRUE]
<1>1. worker[w] # Idle
  BY DEF Click, EmitSubmitted, Idle
<1>2. e \in Works /\ worker[w] \in Drives
  BY <1>1, HolderDrives DEF Ledger
<1>3. s \in Seq(Attempts)
  BY <1>2 DEF Ledger, TypeOK
<1>4. /\ EmitSubmitted(w) => attempts' = [attempts EXCEPT ![e] = u]
      /\ ~EmitSubmitted(w) => attempts' = [attempts EXCEPT ![e] = c]
  BY DEF Click, EmitSubmitted
<1>5. \A i \in DOMAIN s :
        /\ c[i].submitted = s[i].submitted
        /\ i # n => u[i].submitted = s[i].submitted
        /\ i = n => u[i].submitted = TRUE
  <2> TAKE i \in DOMAIN s
  <2>1. s[i] \in Attempts
    BY <1>3
  <2>2. QED
    BY <2>1 DEF Attempts
<1> HIDE DEF c, u
<1>6. /\ EmitSubmitted(w) => attempts'[e] = u
      /\ ~EmitSubmitted(w) => attempts'[e] = c
      /\ \A f \in Works \ {e} : attempts'[f] = attempts[f]
  BY <1>2, <1>4 DEF Ledger, TypeOK
<1>7. /\ worker'[w] = [worker[w] EXCEPT !.phase =
                         IF EmitSubmitted(w) THEN "after" ELSE "clicked"]
      /\ \A v \in Workers \ {w} : worker'[v] = worker[v]
  BY DEF Click, EmitSubmitted, Ledger, TypeOK
<1>8. /\ worker'[w].exec = worker[w].exec /\ worker'[w].number = n
      /\ worker'[w].phase = IF EmitSubmitted(w) THEN "after" ELSE "clicked"
  BY <1>2, <1>7 DEF Drives
<1>9. n \in Nat \ {0}
  BY <1>2 DEF Drives
<1>10. \A i \in DOMAIN s :
         attempts'[e][i].submitted =
           IF i = n /\ EmitSubmitted(w) THEN TRUE ELSE s[i].submitted
  <2>1. CASE EmitSubmitted(w)
    <3>1. \A i \in DOMAIN s : attempts'[e][i].submitted =
                               IF i = n THEN TRUE ELSE s[i].submitted
      BY <1>5, <1>6, <2>1
    <3>2. QED
      BY <2>1, <3>1, Zenon
  <2>2. CASE ~EmitSubmitted(w)
    <3>1. \A i \in DOMAIN s : attempts'[e][i].submitted = s[i].submitted
      BY <1>5, <1>6, <2>2
    <3>2. QED
      BY <2>2, <3>1, Zenon
  <2>3. QED
    BY <2>1, <2>2
<1>11. QED
  BY <1>2, <1>6, <1>7, <1>8, <1>9, <1>10 DEF HeldBy

LEMMA HeldApart ==
  ASSUME Ledger, OneThreadPerExecution, NEW v \in Workers, NEW w \in Workers,
         v # w, worker[v] # Idle, worker[w] # Idle
  PROVE  HeldBy(v) # HeldBy(w)
BY DEF OneThreadPerExecution, HeldBy

(* A worker whose attempt is left alone knows what it knew.                *)
LEMMA PhaseKept ==
  ASSUME PhaseKnown, NEW w \in Workers, worker'[w] = worker[w],
         LeaseHeld(w)' => /\ lease'[HeldBy(w)] = lease[HeldBy(w)]
                          /\ attempts'[HeldBy(w)] = attempts[HeldBy(w)]
  PROVE  LeaseHeld(w)' =>
           (worker'[w].phase = "after"
              <=> attempts'[HeldBy(w)'][worker'[w].number].submitted)
BY DEF PhaseKnown, LeaseHeld, HeldBy

LEMMA PhaseDrive ==
  ASSUME Ledger, OneThreadPerExecution, PhaseKnown, NEW w \in Workers,
         Click(w) \/ EmitSubmitted(w)
  PROVE  PhaseKnown'
<1> DEFINE Knows(v) == LeaseHeld(v)' =>
             (worker'[v].phase = "after"
                <=> attempts'[HeldBy(v)'][worker'[v].number].submitted)
<1>1. worker[w] # Idle /\ UNCHANGED lease
  BY DEF Click, EmitSubmitted, Idle
<1>2. ASSUME NEW v \in Workers \ {w} PROVE Knows(v)
  <2>1. worker'[v] = worker[v]
    BY DriveMarks
  <2>2. LeaseHeld(v)' => attempts'[HeldBy(v)] = attempts[HeldBy(v)]
    <3> SUFFICES ASSUME LeaseHeld(v)' PROVE attempts'[HeldBy(v)] = attempts[HeldBy(v)]
      OBVIOUS
    <3>1. worker[v] # Idle
      BY <2>1 DEF LeaseHeld
    <3>2. HeldBy(v) \in Works \ {HeldBy(w)}
      BY <1>1, <3>1, HeldApart, HolderDrives DEF Ledger
    <3>3. QED
      BY <3>2, DriveMarks
  <2>3. QED
    BY <1>1, <2>1, <2>2, PhaseKept
<1>3. Knows(w)
  <2> SUFFICES ASSUME LeaseHeld(w)'
               PROVE  worker'[w].phase = "after"
                        <=> attempts'[HeldBy(w)'][worker'[w].number].submitted
    OBVIOUS
  <2> DEFINE e == HeldBy(w)
             n == worker[w].number
  <2>1. /\ HeldBy(w)' = e /\ worker'[w].number = n
        /\ \A i \in DOMAIN attempts[e] :
             attempts'[e][i].submitted =
               IF i = n /\ EmitSubmitted(w) THEN TRUE ELSE attempts[e][i].submitted
        /\ worker'[w].phase = IF EmitSubmitted(w) THEN "after" ELSE "clicked"
    BY DriveMarks
  <2>2. LeaseHeld(w)
    BY <1>1, <2>1 DEF LeaseHeld, HeldBy
  <2>3. e \in Works /\ n = Len(attempts[e]) /\ n \in Nat \ {0}
    BY <2>2, HolderLeased DEF Drives
  <2>4. n \in DOMAIN attempts[e]
    BY <2>3 DEF Ledger, TypeOK
  <2>5. CASE EmitSubmitted(w)
    BY <2>1, <2>4, <2>5
  <2>6. CASE ~EmitSubmitted(w)
    <3>1. worker[w].phase # "after"
      BY <2>6 DEF Click
    <3>2. ~attempts[e][n].submitted
      BY <2>2, <3>1 DEF PhaseKnown
    <3>3. QED
      BY <2>1, <2>4, <2>6, <3>2
  <2>7. QED
    BY <2>5, <2>6
<1>4. \A v \in Workers : Knows(v)
  BY <1>2, <1>3
<1>5. QED
  BY <1>4 DEF PhaseKnown

LEMMA PhaseStep ==
  ASSUME Ledger, OneThreadPerExecution, DrivenIsStarted, PhaseKnown, [Next]_vars
  PROVE  PhaseKnown'
<1>1. ASSUME NEW w \in Workers, LeaseNext(w) PROVE PhaseKnown'
  <2>1. PICK e \in Works :
          /\ exec[e] = "ready"
          /\ lease' = [lease EXCEPT ![e] = Len(attempts[e]) + 1]
          /\ attempts' = [attempts EXCEPT ![e] = Append(@, NewAttempt)]
          /\ worker' = [worker EXCEPT ![w] =
                         Drive(e, Len(attempts[e]) + 1, "before", seats'[e])]
    BY <1>1, LeaseTaken DEF Ledger
  <2>2. /\ worker'[w] = Drive(e, Len(attempts[e]) + 1, "before", seats'[e])
        /\ \A v \in Workers \ {w} : worker'[v] = worker[v]
        /\ \A f \in Works \ {e} : lease'[f] = lease[f] /\ attempts'[f] = attempts[f]
        /\ attempts'[e] = Append(attempts[e], NewAttempt)
    BY <2>1 DEF Ledger, TypeOK
  <2>3. ~attempts'[e][Len(attempts[e]) + 1].submitted
    <3>1. attempts[e] \in Seq(Attempts) /\ NewAttempt \in Attempts
      BY DEF Ledger, TypeOK, NewAttempt, Attempts, Outcomes
    <3>2. QED
      BY <2>2, <3>1, AppendProperties DEF NewAttempt
  <2>4. ASSUME NEW v \in Workers \ {w}, LeaseHeld(v)'
        PROVE  worker'[v].phase = "after"
                 <=> attempts'[HeldBy(v)'][worker'[v].number].submitted
    <3>1. worker[v] # Idle /\ worker'[v] = worker[v]
      BY <2>2, <2>4 DEF LeaseHeld
    <3>2. HeldBy(v) \in Works \ {e}
      BY <2>1, <3>1, HolderDrives DEF DrivenIsStarted, Ledger
    <3>3. QED
      BY <2>2, <2>4, <3>1, <3>2, PhaseKept
  <2>5. /\ worker'[w].phase # "after" /\ HeldBy(w)' = e
        /\ worker'[w].number = Len(attempts[e]) + 1
    BY <2>2 DEF Drive, HeldBy
  <2>6. QED
    BY <2>3, <2>4, <2>5 DEF PhaseKnown
<1>2. ASSUME NEW w \in Workers, Report(w) PROVE PhaseKnown'
  <2>1. /\ \A v \in Workers \ {w} : worker'[v] = worker[v]
        /\ worker'[w] = Idle /\ LeaseHeld(w) /\ HeldBy(w) \in Works
    BY <1>2, ReportCloses, HolderLeased DEF Ledger, TypeOK
  <2>2. \A f \in Works \ {HeldBy(w)} : lease'[f] = lease[f] /\ attempts'[f] = attempts[f]
    BY <1>2, <2>1, ReportCloses, CloseKeepsSubmits DEF durable
  <2>3. ASSUME NEW v \in Workers, LeaseHeld(v)'
        PROVE  worker'[v].phase = "after"
                 <=> attempts'[HeldBy(v)'][worker'[v].number].submitted
    <3>1. v # w /\ worker'[v] = worker[v] /\ worker[v] # Idle
      BY <2>1, <2>3 DEF LeaseHeld
    <3>2. HeldBy(v) \in Works \ {HeldBy(w)}
      BY <2>1, <3>1, HeldApart, HolderDrives DEF Ledger, LeaseHeld
    <3>3. QED
      BY <2>2, <2>3, <3>1, <3>2, PhaseKept
  <2>4. QED
    BY <2>3 DEF PhaseKnown
<1>3. ASSUME NEW j \in Jobs, CancelLeased(j) PROVE PhaseKnown'
  <2>1. PICK e \in Works : Closes(e, "finished", "cancelled") /\ UNCHANGED worker
    BY <1>3, CancelCloses
  <2>2. ASSUME NEW v \in Workers, LeaseHeld(v)'
        PROVE  worker'[v].phase = "after"
                 <=> attempts'[HeldBy(v)'][worker'[v].number].submitted
    <3>1. worker'[v] = worker[v] /\ worker[v] \in Drives /\ HeldBy(v) \in Works
      BY <2>1, <2>2, HolderDrives DEF LeaseHeld, Ledger
    <3>2. lease'[HeldBy(v)] = worker[v].number /\ worker[v].number # 0
      BY <2>2, <3>1 DEF LeaseHeld, HeldBy, Drives
    <3>3. HeldBy(v) # e
      BY <2>1, <3>2, CloseKeepsSubmits
    <3>4. QED
      BY <2>1, <2>2, <3>1, <3>3, CloseKeepsSubmits, PhaseKept
  <2>3. QED
    BY <2>2 DEF PhaseKnown
<1>4. CASE Crash \/ Recover
  <2>1. \A w \in Workers : worker'[w] = Idle
    BY <1>4 DEF Crash, Recover, Ledger, DownHoldsNothing
  <2>2. QED
    BY <2>1 DEF PhaseKnown, LeaseHeld
<1>5. CASE \E w \in Workers : StopStale(w)
  BY <1>5 DEF StopStale, Return, durable, PhaseKnown, LeaseHeld, HeldBy, Ledger, TypeOK
<1>6. CASE \/ \E j \in Jobs : CancelWaiting(j) \/ ResolveNeedsAttention(j)
           \/ \E e \in Works : Submit(e) \/ Due(e)
           \/ \E a \in Accounts : CooldownOver(a) \/ ChangeAccount(a)
           \/ UNCHANGED vars
  <2>1. UNCHANGED <<worker, lease, attempts>>
    BY <1>6 DEF CancelWaiting, ResolveNeedsAttention, Submit, Due, CooldownOver,
                ChangeAccount, vars, durable
  <2>2. QED
    BY <2>1 DEF PhaseKnown, LeaseHeld, HeldBy
<1>7. QED
  BY <1>1, <1>2, <1>3, <1>4, <1>5, <1>6, PhaseDrive DEF Next, WorkerStep, UserStep

LEMMA FreshStep ==
  ASSUME Ledger, DrivenIsStarted, FreshIsEmpty, [Next]_vars
  PROVE  FreshIsEmpty'
<1>1. exec \in [Works -> ExecStates]
  BY DEF Ledger, TypeOK
<1>2. ASSUME NEW w \in Workers, LeaseNext(w) PROVE FreshIsEmpty'
  <2>1. PICK e \in Works :
          /\ exec' = [exec EXCEPT ![e] = "leased"]
          /\ attempts' = [attempts EXCEPT ![e] = Append(@, NewAttempt)]
    BY <1>2, LeaseTaken DEF Ledger
  <2>2. exec'[e] # "none"
        /\ \A f \in Works \ {e} : exec'[f] = exec[f] /\ attempts'[f] = attempts[f]
    BY <2>1 DEF Ledger, TypeOK
  <2>3. QED
    BY <2>2 DEF FreshIsEmpty
<1>3. ASSUME NEW e \in Works, NEW x, NEW r, Closes(e, x, r) PROVE FreshIsEmpty'
  <2>1. x # "none"
    BY <1>3 DEF Closes
  <2>2. QED
    BY <1>3, <2>1, CloseKeepsSubmits DEF FreshIsEmpty
<1>4. ASSUME NEW w \in Workers, Click(w) \/ EmitSubmitted(w) PROVE FreshIsEmpty'
  <2>1. HeldBy(w) \in Works /\ UNCHANGED exec
        /\ \A f \in Works \ {HeldBy(w)} : attempts'[f] = attempts[f]
    BY <1>4, DriveMarks DEF Click, EmitSubmitted
  <2>2. worker[w] # Idle
    BY <1>4 DEF Click, EmitSubmitted, Idle
  <2>3. exec[HeldBy(w)] # "none"
    BY <2>2 DEF DrivenIsStarted
  <2>4. QED
    BY <2>1, <2>3 DEF FreshIsEmpty
<1>5. ASSUME NEW e \in Works, Submit(e) PROVE FreshIsEmpty'
  BY <1>1, <1>5 DEF Submit, FreshIsEmpty
<1>6. ASSUME NEW j \in Jobs, CancelWaiting(j) PROVE FreshIsEmpty'
  BY <1>1, <1>6 DEF CancelWaiting, FinishExec, FreshIsEmpty
<1>7. CASE Recover
  BY <1>1, <1>7 DEF Recover, FreshIsEmpty
<1>8. CASE Crash \/ UNCHANGED <<exec, attempts, lease, seats, pinned, up>>
  BY <1>8 DEF Crash, durable, FreshIsEmpty
<1>9. QED
  BY <1>2, <1>3, <1>4, <1>5, <1>6, <1>7, <1>8, LedgerSteps

(* A report that puts a video back comes before its submit.                *)
LEMMA VideoRetriesUnsubmitted ==
  ASSUME Ledger, PhaseKnown, NEW w \in Workers, Report(w),
         KindOf[HeldBy(w)] = "video", exec'[HeldBy(w)] = "ready"
  PROVE  ~attempts[HeldBy(w)][Len(attempts[HeldBy(w)])].submitted
<1> DEFINE e == HeldBy(w)
<1>1. LeaseHeld(w) /\ e \in Works /\ exec[e] = "leased"
      /\ worker[w].number = Len(attempts[e])
  BY ReportCloses, HolderLeased
<1>2. exec \in [Works -> ExecStates]
  BY DEF Ledger, TypeOK
<1>3. PICK c \in ErrorClasses : Fail(w, c)
  <2>1. ~Succeed(w)
    BY <1>1, <1>2 DEF Succeed, FinishExec
  <2>2. \A D : ~Partial(w, D)
    BY DEF Partial
  <2>3. \A c : ~FailRollsBack(w, c)
    BY <1>1, <1>2 DEF FailRollsBack, durable
  <2>4. QED
    BY <2>1, <2>2, <2>3 DEF Report
<1>4. worker[w].phase # "after"
  <2>1. FailDecision(w, c).action = "retry"
    BY <1>1, <1>2, <1>3 DEF Fail, FinishExec
  <2>2. SUFFICES ASSUME worker[w].phase = "after" PROVE FALSE
    OBVIOUS
  <2>3. c = "unknown_outcome"
    BY <1>3, <2>2 DEF Fail, Reported, ClassesAt
  <2>4. FailDecision(w, c).action = "needs_attention"
    BY <2>3 DEF FailDecision, Decide, OutcomeUnknown, Final
  <2>5. QED
    BY <2>1, <2>4
<1>5. QED
  BY <1>1, <1>4 DEF PhaseKnown

LEMMA VideoStep ==
  ASSUME Ledger, PhaseKnown, FreshIsEmpty, VideoNeverResubmits, [Next]_vars
  PROVE  VideoNeverResubmits'
<1>1. exec \in [Works -> ExecStates]
  BY DEF Ledger, TypeOK
<1>2. ASSUME NEW e \in Works, NEW x, NEW r, Closes(e, x, r),
             KindOf[e] = "video" /\ x = "ready"
               => ~attempts[e][Len(attempts[e])].submitted
      PROVE  VideoNeverResubmits'
  BY <1>2, CloseKeepsSubmits DEF VideoNeverResubmits
<1>3. ASSUME NEW w \in Workers, Report(w) PROVE VideoNeverResubmits'
  <2>1. HeldBy(w) \in Works
    BY <1>3, ReportCloses, HolderLeased
  <2>2. CASE UNCHANGED durable
    BY <2>2 DEF durable, VideoNeverResubmits
  <2>3. ASSUME NEW x, NEW r, Closes(HeldBy(w), x, r) PROVE VideoNeverResubmits'
    <3>1. exec'[HeldBy(w)] = x
      BY <2>1, <2>3, CloseKeepsSubmits
    <3>2. QED
      BY <1>2, <1>3, <2>1, <2>3, <3>1, VideoRetriesUnsubmitted
  <2>4. QED
    BY <1>3, <2>2, <2>3, ReportCloses
<1>4. ASSUME NEW j \in Jobs, CancelLeased(j) PROVE VideoNeverResubmits'
  <2>1. PICK e \in Works : Closes(e, "finished", "cancelled")
    BY <1>4, CancelCloses
  <2>2. QED
    BY <1>2, <2>1
<1>5. ASSUME NEW w \in Workers, LeaseNext(w) PROVE VideoNeverResubmits'
  <2>1. PICK e \in Works :
          /\ exec[e] = "ready" /\ exec' = [exec EXCEPT ![e] = "leased"]
          /\ attempts' = [attempts EXCEPT ![e] = Append(@, NewAttempt)]
    BY <1>5, LeaseTaken DEF Ledger
  <2> DEFINE s == attempts[e]
  <2>2. /\ attempts'[e] = Append(s, NewAttempt)
        /\ \A f \in Works \ {e} : exec'[f] = exec[f] /\ attempts'[f] = attempts[f]
    BY <2>1 DEF Ledger, TypeOK
  <2>3. s \in Seq(Attempts) /\ NewAttempt \in Attempts
    BY DEF Ledger, TypeOK, NewAttempt, Attempts, Outcomes
  <2>4. KindOf[e] = "video" => \A i \in DOMAIN s : ~s[i].submitted
    BY <2>1 DEF VideoNeverResubmits
  <2>5. KindOf[e] = "video" => \A i \in DOMAIN attempts'[e] : ~attempts'[e][i].submitted
    BY <2>2, <2>3, <2>4, AppendProperties DEF NewAttempt
  <2>6. QED
    BY <2>2, <2>5 DEF VideoNeverResubmits
<1>6. ASSUME NEW w \in Workers, Click(w) \/ EmitSubmitted(w) PROVE VideoNeverResubmits'
  <2> DEFINE e == HeldBy(w)
             n == worker[w].number
  <2>1. /\ e \in Works
        /\ \A f \in Works \ {e} : attempts'[f] = attempts[f]
        /\ \A i \in DOMAIN attempts[e] :
             attempts'[e][i].submitted =
               IF i = n /\ EmitSubmitted(w) THEN TRUE ELSE attempts[e][i].submitted
    BY <1>6, DriveMarks
  <2>2. /\ UNCHANGED exec
        /\ \A f \in Works : DOMAIN attempts'[f] = DOMAIN attempts[f]
        /\ \A f \in Works : Len(attempts'[f]) = Len(attempts[f])
    BY <1>6, DriveKeepsOutcomes
  <2>3. EmitSubmitted(w) => n = Len(attempts[e]) /\ exec[e] = "leased"
    BY HolderLeased DEF EmitSubmitted
  <2>4. ASSUME NEW f \in Works, KindOf[f] = "video", NEW i \in DOMAIN attempts'[f],
               attempts'[f][i].submitted
        PROVE  i = Len(attempts'[f]) /\ exec'[f] # "ready"
    <3>1. CASE attempts[f][i].submitted
      BY <2>2, <2>4, <3>1 DEF VideoNeverResubmits
    <3>2. CASE ~attempts[f][i].submitted
      <4>1. f = e /\ i \in DOMAIN attempts[e]
        BY <2>1, <2>2, <2>4, <3>2
      <4>2. i = n /\ EmitSubmitted(w)
        BY <2>1, <2>4, <3>2, <4>1
      <4>3. QED
        BY <2>2, <2>3, <4>1, <4>2
    <3>3. QED
      BY <3>1, <3>2
  <2>5. QED
    BY <2>4 DEF VideoNeverResubmits
<1>7. ASSUME NEW e \in Works, Submit(e) PROVE VideoNeverResubmits'
  <2>1. attempts[e] = <<>> /\ UNCHANGED attempts
        /\ \A f \in Works \ {e} : exec'[f] = exec[f]
    BY <1>1, <1>7 DEF Submit, FreshIsEmpty
  <2>2. \A i \in DOMAIN attempts[e] : FALSE
    BY <2>1
  <2>3. QED
    BY <2>1, <2>2 DEF VideoNeverResubmits
<1>8. ASSUME NEW j \in Jobs, CancelWaiting(j) PROVE VideoNeverResubmits'
  BY <1>1, <1>8 DEF CancelWaiting, FinishExec, VideoNeverResubmits
<1>9. CASE Recover
  <2> DEFINE leased == {e \in Works : exec[e] = "leased"}
             sent == {e \in leased : Last(e).submitted}
  <2>1. ASSUME NEW e \in Works, KindOf[e] = "video", NEW i \in DOMAIN attempts'[e],
               attempts'[e][i].submitted
        PROVE  i = Len(attempts'[e]) /\ exec'[e] # "ready"
    <3> DEFINE s == attempts[e]
               t == [s EXCEPT ![Len(s)].outcome = IF e \in sent THEN "unknown" ELSE "error"]
    <3>1. s \in Seq(Attempts)
      BY DEF Ledger, TypeOK
    <3>2. t \in Seq(Attempts) /\ DOMAIN t = DOMAIN s
      BY <3>1, LedgerEdit DEF Outcomes
    <3>3. Len(t) = Len(s)
      BY <3>1, <3>2, LenProperties
    <3>4. attempts'[e] \in {s, t}
      BY <1>9 DEF Recover
    <3>5. i \in DOMAIN s /\ Len(attempts'[e]) = Len(s)
      BY <3>2, <3>3, <3>4
    <3>6. s[i].submitted
      <4>1. s[i] \in Attempts
        BY <3>1, <3>5
      <4>2. t[i].submitted = s[i].submitted
        BY <3>5, <4>1 DEF Attempts
      <4>3. QED
        BY <2>1, <3>4, <4>2
    <3>7. i = Len(s) /\ exec[e] # "ready"
      BY <2>1, <3>5, <3>6 DEF VideoNeverResubmits
    <3>8. e \in leased => e \in sent
      BY <3>6, <3>7 DEF Last
    <3>9. exec'[e] # "ready"
      BY <1>9, <3>7, <3>8 DEF Recover
    <3>10. QED
      BY <3>5, <3>7, <3>9
  <2>2. QED
    BY <2>1 DEF VideoNeverResubmits
<1>10. CASE \/ \E w \in Workers : StopStale(w)
            \/ \E j \in Jobs : ResolveNeedsAttention(j)
            \/ \E e \in Works : Due(e)
            \/ \E a \in Accounts : CooldownOver(a) \/ ChangeAccount(a)
            \/ Crash \/ UNCHANGED vars
  <2>1. UNCHANGED <<exec, attempts>>
    BY <1>10 DEF StopStale, ResolveNeedsAttention, Due, CooldownOver, ChangeAccount,
                 Crash, vars, durable
  <2>2. QED
    BY <2>1 DEF VideoNeverResubmits
<1>11. QED
  BY <1>3, <1>4, <1>5, <1>6, <1>7, <1>8, <1>9, <1>10 DEF Next, WorkerStep, UserStep

LEMMA PhaseAlways == Spec => []PhaseKnown
<1>1. Init => PhaseKnown
  BY DEF Init, PhaseKnown, LeaseHeld
<1>2. Ledger /\ OneThreadPerExecution /\ DrivenIsStarted /\ PhaseKnown /\ [Next]_vars
      => PhaseKnown'
  BY PhaseStep
<1>3. QED
  BY <1>1, <1>2, LedgerAlways, DrivenAlways, PTL DEF Spec

(* Once a video is on record as submitted, no retry, cancel or restart     *)
(* opens another attempt at it.                                            *)
THEOREM VideosAreSubmittedOnce == Spec => []VideoNeverResubmits
<1>1. Init => FreshIsEmpty /\ VideoNeverResubmits
  BY DEF Init, FreshIsEmpty, VideoNeverResubmits
<1>2. /\ Ledger /\ DrivenIsStarted /\ PhaseKnown /\ FreshIsEmpty
      /\ VideoNeverResubmits /\ [Next]_vars
      => FreshIsEmpty' /\ VideoNeverResubmits'
  BY FreshStep, VideoStep
<1>3. QED
  BY <1>1, <1>2, LedgerAlways, DrivenAlways, PhaseAlways, PTL DEF Spec

-----------------------------------------------------------------------------
(* A forced execution stays on its account.                                *)

LEMMA LeaseChooses ==
  ASSUME NEW w \in Workers, LeaseNext(w)
  PROVE  \E e \in Works :
           \E a \in Choices(e, KindOf[e], Forced[e], e \in Fallback,
                            prefer[e], avoid[e]) :
             up /\ exec[e] = "ready" /\ TakeSeat(e, a) /\ UNCHANGED pinned
<1>1. PICK e \in Foremost(WorkerKind[w]) :
        \E a \in Choices(e, KindOf[e], Forced[e], e \in Fallback,
                         prefer[e], avoid[e]) : TakeSeat(e, a)
  BY DEF LeaseNext
<1>2. e \in Works /\ exec[e] = "ready"
  BY <1>1 DEF Foremost, ReadyOf
<1>3. up /\ UNCHANGED pinned
  BY DEF LeaseNext, allocRest
<1>4. QED
  BY <1>1, <1>2, <1>3

LEMMA PinsStep ==
  ASSUME Ledger, PinsRestored, [Next]_vars PROVE PinsRestored'
<1>1. exec \in [Works -> ExecStates]
  BY DEF Ledger, TypeOK
<1>2. ASSUME NEW w \in Workers, LeaseNext(w) PROVE PinsRestored'
  <2>1. PICK e \in Works : up /\ exec[e] = "ready" /\ exec' = [exec EXCEPT ![e] = "leased"]
    BY <1>2, LeaseTaken DEF Ledger
  <2>2. UNCHANGED pinned
    BY <1>2, LeaseChooses
  <2>3. QED
    BY <1>1, <2>1, <2>2 DEF PinsRestored
<1>3. ASSUME NEW e \in Works, NEW x, NEW r, Closes(e, x, r), UNCHANGED pinned
      PROVE  PinsRestored'
  <2>1. up /\ exec[e] = "leased" /\ exec' = [exec EXCEPT ![e] = x] /\ UNCHANGED up
    BY <1>3 DEF Closes
  <2>2. QED
    BY <1>1, <1>3, <2>1 DEF PinsRestored
<1>4. ASSUME NEW w \in Workers, Report(w) PROVE PinsRestored'
  <2>1. HeldBy(w) \in Works
    BY <1>4, ReportCloses, HolderLeased
  <2>2. QED
    BY <1>3, <1>4, <2>1, ReportCloses DEF durable, PinsRestored
<1>5. ASSUME NEW j \in Jobs, UserStep(j) PROVE PinsRestored'
  <2>1. CASE CancelLeased(j)
    BY <1>3, <2>1, CancelCloses
  <2>2. CASE CancelWaiting(j)
    BY <1>1, <2>2 DEF CancelWaiting, FinishExec, process, allocVars, PinsRestored
  <2>3. CASE ResolveNeedsAttention(j)
    BY <2>3 DEF ResolveNeedsAttention, process, allocVars, PinsRestored
  <2>4. QED
    BY <1>5, <2>1, <2>2, <2>3 DEF UserStep
<1>6. ASSUME NEW e \in Works, Submit(e) PROVE PinsRestored'
  <2>1. /\ up /\ exec' = [exec EXCEPT ![e] = "ready"] /\ UNCHANGED up
        /\ pinned' = pinned \cup RestorePins({e})
    BY <1>6 DEF Submit, process
  <2>2. QED
    BY <1>1, <2>1 DEF PinsRestored, RestorePins
<1>7. CASE Recover
  <2>1. \A e \in Works : exec'[e] # "leased"
    BY <1>7 DEF Recover
  <2>2. pinned' = RestorePins({e \in Works : exec'[e] = "ready"})
    BY <1>7 DEF Recover
  <2>3. QED
    BY <2>1, <2>2 DEF RestorePins, PinsRestored
<1>8. CASE Crash
  BY <1>8 DEF Crash, PinsRestored
<1>9. CASE \/ \E w \in Workers : Click(w) \/ EmitSubmitted(w) \/ StopStale(w)
           \/ \E e \in Works : Due(e)
           \/ \E a \in Accounts : CooldownOver(a) \/ ChangeAccount(a)
           \/ UNCHANGED vars
  <2>1. UNCHANGED <<exec, pinned, up>>
    BY <1>9 DEF Click, EmitSubmitted, StopStale, Due, CooldownOver, ChangeAccount,
                vars, durable, process, allocVars
  <2>2. QED
    BY <2>1 DEF PinsRestored
<1>10. QED
  BY <1>2, <1>4, <1>5, <1>6, <1>7, <1>8, <1>9 DEF Next, WorkerStep

LEMMA ForcedStep ==
  ASSUME Ledger, PinsRestored, ForcedKept, [Next]_vars PROVE ForcedKept'
<1>1. seats \in [Works -> Seat \cup {NoSeat}]
  BY DEF Ledger, TypeOK, AllocTypeOK
<1>2. ASSUME NEW w \in Workers, LeaseNext(w) PROVE ForcedKept'
  <2>1. PICK e \in Works :
          \E a \in Choices(e, KindOf[e], Forced[e], e \in Fallback,
                           prefer[e], avoid[e]) :
            up /\ exec[e] = "ready" /\ TakeSeat(e, a)
    BY <1>2, LeaseChooses
  <2>2. PICK a \in Choices(e, KindOf[e], Forced[e], e \in Fallback,
                          prefer[e], avoid[e]) :
          up /\ exec[e] = "ready" /\ TakeSeat(e, a)
    BY <2>1
  <2>3. ASSUME Forced[e] # NoAccount, e \notin Fallback PROVE a = Forced[e]
    <3>1. e \in pinned
      BY <2>2, <2>3 DEF PinsRestored
    <3>2. QED
      BY <2>2, <2>3, <3>1 DEF Choices, ForcedChoices
  <2>4. seats'[e].acct = a /\ \A f \in Works \ {e} : seats'[f] = seats[f]
    BY <1>1, <2>2 DEF TakeSeat
  <2>5. QED
    BY <2>3, <2>4 DEF ForcedKept
<1>3. ASSUME NEW e \in Works, DropLease(e) PROVE ForcedKept'
  <2>1. seats'[e] = NoSeat /\ \A f \in Works \ {e} : seats'[f] = seats[f]
    BY <1>1, <1>3 DEF DropLease, ReleaseSeat
  <2>2. QED
    BY <2>1 DEF ForcedKept
<1>4. CASE Crash
  BY <1>4 DEF Crash, ForcedKept
<1>5. CASE UNCHANGED <<lease, seats>>
  BY <1>5 DEF ForcedKept
<1>6. QED
  BY <1>2, <1>3, <1>4, <1>5, SeatSteps DEF Ledger

(* What the user forced to an account runs there or not at all, also after *)
(* a restart, which forgets the constraint and reads it back.              *)
THEOREM ForcedAccountsAreKept == Spec => []ForcedKept
<1>1. Init => PinsRestored /\ ForcedKept
  BY DEF Init, PinsRestored, ForcedKept
<1>2. Ledger /\ PinsRestored /\ ForcedKept /\ [Next]_vars => PinsRestored' /\ ForcedKept'
  BY PinsStep, ForcedStep
<1>3. QED
  BY <1>1, <1>2, LedgerAlways, PTL DEF Spec
-----------------------------------------------------------------------------
(* The runtime implements the promise about single jobs (JobContract):     *)
(* initial states map to initial states and every step to a step or a      *)
(* stutter.                                                                *)

(* A job and its execution are accepted together, what is in front of the  *)
(* user is over for its execution, and a lease has its attempt.            *)
InStep(e) ==
  /\ \A j \in Members[e] :
       /\ job[j] = "none" <=> exec[e] = "none"
       /\ job[j] = "needs_attention" => exec[e] = "finished"
  /\ exec[e] = "leased" => attempts[e] # <<>>

JobsInStep == \A e \in Works : InStep(e)

Kept == /\ Ledger /\ NoStrandedJob /\ OneThreadPerExecution /\ DrivenIsStarted
        /\ PhaseKnown /\ JobsInStep

-----------------------------------------------------------------------------
(* What the mapping calls spent.                                           *)

OnRecord(e) == attempts[e] # <<>> /\ Last(e).submitted

LEMMA SpentOf ==
  ASSUME NEW e \in Works, NEW j \in Members[e]
  PROVE  /\ j \in Jobs
         /\ j \in SpentJobs <=> job[j] = "running" /\ OnRecord(e)
         /\ j \in SpentJobs' <=> job'[j] = "running" /\ OnRecord(e)'
         /\ j \in UNION {Members[f] : f \in {g \in Works : KindOf[g] = "video"}}
              <=> KindOf[e] = "video"
<1>1. \A f \in Works : j \in Members[f] => f = e
  BY RuntimeAssumption
<1>2. j \in Jobs
  BY RuntimeAssumption
<1>3. j \in SpentJobs <=> job[j] = "running" /\ OnRecord(e)
  BY <1>1, <1>2 DEF SpentJobs, OnRecord
<1>4. j \in SpentJobs' <=> job'[j] = "running" /\ OnRecord(e)'
  BY <1>1, <1>2 DEF SpentJobs, OnRecord
<1>5. QED
  BY <1>1, <1>2, <1>3, <1>4

(* A step that touches one execution is a stutter for all other jobs.      *)
Touches(e) ==
  /\ \A f \in Works \ {e} : attempts'[f] = attempts[f]
  /\ \A j \in Jobs \ Members[e] : job'[j] = job[j]

LEMMA OthersStay ==
  ASSUME NEW e \in Works, Touches(e), NEW j \in Jobs \ Members[e]
  PROVE  Contract!Stay(j)
<1>1. job'[j] = job[j]
  BY DEF Touches
<1>2. CASE \E f \in Works : j \in Members[f]
  <2>1. PICK f \in Works : j \in Members[f]
    BY <1>2
  <2>2. attempts'[f] = attempts[f]
    BY <2>1 DEF Touches
  <2>3. OnRecord(f)' <=> OnRecord(f)
    BY <2>2 DEF OnRecord, Last
  <2>4. j \in SpentJobs' <=> j \in SpentJobs
    BY <1>1, <2>1, <2>3, SpentOf
  <2>5. QED
    BY <1>1, <2>4 DEF Contract!Stay
<1>3. CASE \A f \in Works : j \notin Members[f]
  <2>1. j \notin SpentJobs /\ j \notin SpentJobs'
    BY <1>3 DEF SpentJobs
  <2>2. QED
    BY <1>1, <2>1 DEF Contract!Stay
<1>4. QED
  BY <1>2, <1>3

(* So it is enough to look at its members.                                 *)
LEMMA MembersStep ==
  ASSUME NEW e \in Works, Touches(e), \A j \in Members[e] : Contract!Step(j)
  PROVE  Contract!Next
BY OthersStay DEF Contract!Next, Contract!Step

(* A member that does not run, before and after, and keeps its state.      *)
LEMMA IdleStays ==
  ASSUME NEW e \in Works, NEW j \in Members[e], job[j] # "running", job'[j] = job[j]
  PROVE  Contract!Step(j)
BY SpentOf DEF Contract!Step, Contract!Stay

(* A member that leaves or reaches a state other than running.             *)
LEMMA MoveOf ==
  ASSUME NEW e \in Works, NEW j \in Members[e], job'[j] # "running",
         \/ job[j] = "none" /\ job'[j] = "queued"
         \/ job[j] \in Waiting /\ job'[j] = "cancelled"
         \/ job[j] = "needs_attention" /\ job'[j] = "cancelled"
         \/ /\ job[j] = "running" /\ OnRecord(e)
            /\ job'[j] \in {"completed", "needs_attention"}
         \/ /\ job[j] = "running" /\ (KindOf[e] = "image" \/ ~OnRecord(e))
            /\ job'[j] \in {"retry_wait", "failed", "cancelled"}
  PROVE  Contract!Step(j)
<1>1. j \notin SpentJobs'
  BY SpentOf
<1>2. (job[j] = "running" /\ OnRecord(e)) => j \in SpentJobs
  BY SpentOf
<1>3. KindOf[e] = "image" \/ ~OnRecord(e) => Contract!Expendable(j)
  <2>1. KindOf[e] = "image" =>
          j \notin UNION {Members[f] : f \in {g \in Works : KindOf[g] = "video"}}
    BY SpentOf
  <2>2. ~OnRecord(e) => j \notin SpentJobs
    BY SpentOf
  <2>3. QED
    BY <2>1, <2>2 DEF Contract!Expendable, Contract!Unspent
<1>4. QED
  BY <1>1, <1>2, <1>3
     DEF Contract!Step, Contract!Accept, Contract!Complete, Contract!Retry,
         Contract!Fail, Contract!Ask, Contract!Cancel, Contract!Resolve,
         Contract!Moves, Waiting, Contract!Waiting

-----------------------------------------------------------------------------
(* The steps of a worker.                                                  *)

LEMMA LeasedMembers ==
  ASSUME Kept, NEW e \in Works, exec[e] = "leased", NEW j \in Members[e]
  PROVE  /\ job[j] \in {"running"} \cup Settled /\ j \in Jobs
         /\ attempts[e] # <<>>
<1>1. job[j] \in States /\ job[j] \notin Waiting /\ j \in Jobs
  BY MembersWait DEF Kept
<1>2. job[j] # "none" /\ job[j] # "needs_attention" /\ attempts[e] # <<>>
  BY DEF Kept, JobsInStep, InStep
<1>3. QED
  BY <1>1, <1>2 DEF States, Settled

(* What a worker with a lease knows: the record of its execution.          *)
LEMMA HolderKnows ==
  ASSUME Kept, NEW w \in Workers, LeaseHeld(w)
  PROVE  /\ HeldBy(w) \in Works /\ exec[HeldBy(w)] = "leased"
         /\ worker[w].phase = "after" <=> OnRecord(HeldBy(w))
<1> DEFINE e == HeldBy(w)
<1>1. e \in Works /\ exec[e] = "leased" /\ worker[w].number = Len(attempts[e])
  BY HolderLeased DEF Kept
<1>2. attempts[e] # <<>>
  BY <1>1 DEF Kept, JobsInStep, InStep
<1>3. worker[w].phase = "after" <=> Last(e).submitted
  BY <1>1 DEF Kept, PhaseKnown, Last
<1>4. QED
  BY <1>1, <1>2, <1>3 DEF OnRecord

(* Ending an attempt touches its execution only.                           *)
LEMMA FinishTouches ==
  ASSUME Kept, NEW e \in Works, NEW r, FinishAttempt(e, r),
         \A j \in Jobs \ Members[e] : job'[j] = job[j]
  PROVE  Touches(e)
BY DEF FinishAttempt, Touches, Kept, Ledger, TypeOK

LEMMA ContractSucceed ==
  ASSUME Kept, NEW w \in Workers, Succeed(w) PROVE Contract!Next
<1> DEFINE e == HeldBy(w)
<1>1. LeaseHeld(w) /\ worker[w].phase = "after"
  BY DEF Succeed
<1>2. e \in Works /\ exec[e] = "leased" /\ OnRecord(e)
  BY <1>1, HolderKnows
<1>3. SetJobs(Running(e), "completed") /\ FinishAttempt(e, "success")
  BY DEF Succeed
<1>4. Touches(e)
  BY <1>2, <1>3, FinishTouches DEF SetJobs, Running
<1>5. ASSUME NEW j \in Members[e] PROVE Contract!Step(j)
  <2>1. j \in Jobs
    BY <1>2, LeasedMembers
  <2>2. CASE job[j] = "running"
    <3>1. job'[j] = "completed"
      BY <1>3, <2>1, <2>2 DEF SetJobs, Running
    <3>2. QED
      BY <1>2, <2>2, <3>1, MoveOf
  <2>3. CASE job[j] # "running"
    <3>1. job'[j] = job[j]
      BY <1>3, <2>1, <2>3 DEF SetJobs, Running
    <3>2. QED
      BY <1>2, <2>3, <3>1, IdleStays
  <2>4. QED
    BY <2>2, <2>3
<1>6. QED
  BY <1>2, <1>4, <1>5, MembersStep

LEMMA ContractPartial ==
  ASSUME Kept, NEW w \in Workers, NEW D \in SUBSET Jobs, Partial(w, D)
  PROVE  Contract!Next
<1> DEFINE e == HeldBy(w)
           d == DecidePartial(History(e, EarlierErrors(e)), KindOf[e])
<1>1. LeaseHeld(w) /\ worker[w].phase = "after" /\ KindOf[e] = "image"
      /\ D \subseteq Running(e)
  BY DEF Partial
<1>2. e \in Works /\ exec[e] = "leased" /\ OnRecord(e)
  BY <1>1, HolderKnows
<1>3. d.to \in {"retry_wait", "failed"}
  BY DecisionEnds
<1>4. job' = [j \in Jobs |-> CASE j \in D -> "completed"
                               [] j \in Running(e) \ D -> d.to
                               [] OTHER -> job[j]]
  BY DEF Partial
<1>5. FinishAttempt(e, "error")
  BY DEF Partial
<1> HIDE DEF d
<1>6. /\ \A j \in D : job'[j] = "completed"
      /\ \A j \in Running(e) \ D : j \in Jobs => job'[j] = d.to
      /\ \A j \in Jobs : j \notin Running(e) => job'[j] = job[j]
  BY <1>1, <1>4
<1>7. Touches(e)
  BY <1>2, <1>5, <1>6, FinishTouches DEF Running
<1>8. ASSUME NEW j \in Members[e] PROVE Contract!Step(j)
  <2>1. j \in Jobs
    BY <1>2, LeasedMembers
  <2>2. CASE j \in Running(e)
    <3>1. job[j] = "running" /\ job'[j] \in {"completed", "retry_wait", "failed"}
      BY <1>3, <1>6, <2>1, <2>2 DEF Running
    <3>2. QED
      BY <1>1, <1>2, <3>1, MoveOf
  <2>3. CASE j \notin Running(e)
    <3>1. job[j] # "running" /\ job'[j] = job[j]
      BY <1>6, <2>1, <2>3 DEF Running
    <3>2. QED
      BY <1>2, <3>1, IdleStays
  <2>4. QED
    BY <2>2, <2>3
<1>9. QED
  BY <1>2, <1>7, <1>8, MembersStep

(* Past the submit the decision asks the user, before it it does not.      *)
LEMMA FailDecisions ==
  ASSUME NEW w, NEW c, c \in ClassesAt(worker[w].phase)
  PROVE  LET d == FailDecision(w, c)
         IN  /\ worker[w].phase = "after" => d.to = "needs_attention"
             /\ worker[w].phase # "after" => d.to \in {"retry_wait", "failed"}
BY DEF ClassesAt, FailDecision, Decide, OutcomeUnknown, Final, RetryOf

LEMMA ContractFail ==
  ASSUME Kept, NEW w \in Workers, NEW c \in ErrorClasses, Fail(w, c)
  PROVE  Contract!Next
<1> DEFINE e == HeldBy(w)
           d == FailDecision(w, c)
<1>1. LeaseHeld(w) /\ c \in ClassesAt(worker[w].phase)
  BY DEF Fail, Reported
<1>2. /\ e \in Works /\ exec[e] = "leased"
      /\ worker[w].phase = "after" <=> OnRecord(e)
  BY <1>1, HolderKnows
<1>3. /\ OnRecord(e) => d.to = "needs_attention"
      /\ ~OnRecord(e) => d.to \in {"retry_wait", "failed"}
  BY <1>1, <1>2, FailDecisions
<1>4. /\ SetJobs(Members[e], d.to) /\ FinishAttempt(e, OutcomeOf(d.action))
      /\ \A j \in Members[e] : MayBecome(job[j], d.to)
  BY DEF Fail, Allowed
<1> HIDE DEF d
<1>5. Touches(e)
  BY <1>2, <1>4, FinishTouches DEF SetJobs
<1>6. ASSUME NEW j \in Members[e] PROVE Contract!Step(j)
  <2>1. j \in Jobs /\ job[j] \in {"running"} \cup Settled
    BY <1>2, LeasedMembers
  <2>2. job'[j] = d.to
    BY <1>4, <2>1 DEF SetJobs
  <2>3. CASE job[j] = "running"
    <3>1. d.to # "running"
      BY <1>3
    <3>2. QED
      BY <1>2, <1>3, <2>2, <2>3, <3>1, MoveOf
  <2>4. CASE job[j] # "running"
    <3>1. job'[j] = job[j]
      BY <1>4, <2>1, <2>2, <2>4 DEF MayBecome, LegalTransitions, Settled, Waiting
    <3>2. QED
      BY <1>2, <2>4, <3>1, IdleStays
  <2>5. QED
    BY <2>3, <2>4
<1>7. QED
  BY <1>2, <1>5, <1>6, MembersStep

LEMMA ContractLease ==
  ASSUME Kept, NEW w \in Workers, LeaseNext(w) PROVE Contract!Next
<1>1. PICK e \in Works :
        /\ exec[e] = "ready"
        /\ attempts' = [attempts EXCEPT ![e] = Append(@, NewAttempt)]
        /\ SetJobs({j \in Members[e] : job[j] \in Waiting}, "running")
  BY LeaseTaken DEF Kept, Ledger
<1>2. attempts'[e] = Append(attempts[e], NewAttempt) /\ Touches(e)
  BY <1>1 DEF SetJobs, Touches, Kept, Ledger, TypeOK
<1>3. ~OnRecord(e)'
  <2>1. attempts[e] \in Seq(Attempts) /\ NewAttempt \in Attempts
    BY DEF Kept, Ledger, TypeOK, NewAttempt, Attempts, Outcomes
  <2>2. /\ Len(attempts'[e]) = Len(attempts[e]) + 1
        /\ attempts'[e][Len(attempts[e]) + 1] = NewAttempt
    BY <1>2, <2>1, AppendProperties
  <2>3. ~attempts'[e][Len(attempts'[e])].submitted
    BY <2>2 DEF NewAttempt
  <2>4. QED
    BY <2>3 DEF OnRecord, Last
<1>4. ASSUME NEW j \in Members[e] PROVE Contract!Step(j)
  <2>1. job[j] # "running" /\ j \in Jobs
    BY <1>1, MembersWait DEF Kept
  <2>2. CASE job[j] \in Waiting
    <3>1. job'[j] = "running"
      BY <1>1, <2>1, <2>2 DEF SetJobs
    <3>2. j \notin SpentJobs'
      BY <1>3, SpentOf
    <3>3. QED
      BY <2>2, <3>1, <3>2
         DEF Contract!Step, Contract!Start, Contract!Moves, Contract!Waiting, Waiting
  <2>3. CASE job[j] \notin Waiting
    <3>1. job'[j] = job[j]
      BY <1>1, <2>1, <2>3 DEF SetJobs
    <3>2. QED
      BY <2>1, <3>1, IdleStays
  <2>4. QED
    BY <2>2, <2>3
<1>5. QED
  BY <1>2, <1>4, MembersStep

LEMMA ContractDrive ==
  ASSUME Kept, NEW w \in Workers, Click(w) \/ EmitSubmitted(w) PROVE Contract!Next
<1> DEFINE n == worker[w].number
<1>0. PICK e \in Works : e = HeldBy(w)
  BY DriveMarks DEF Kept
<1>1. /\ Touches(e) /\ UNCHANGED job
      /\ \A i \in DOMAIN attempts[e] :
           attempts'[e][i].submitted =
             IF i = n /\ EmitSubmitted(w) THEN TRUE ELSE attempts[e][i].submitted
  BY <1>0, DriveMarks DEF Touches, Click, EmitSubmitted, Kept
<1>2. DOMAIN attempts'[e] = DOMAIN attempts[e] /\ Len(attempts'[e]) = Len(attempts[e])
  BY <1>1, DriveKeepsOutcomes DEF Kept
<1>3. /\ attempts[e] \in Seq(Attempts) /\ attempts'[e] \in Seq(Attempts)
  <2>1. TypeOK'
    BY TypeDrive DEF Kept, Ledger
  <2>2. QED
    BY <1>1, <2>1 DEF Kept, Ledger, TypeOK
<1>4. attempts'[e] # <<>> <=> attempts[e] # <<>>
  BY <1>2, <1>3
<1>5. CASE OnRecord(e)' <=> OnRecord(e)
  <2>1. ASSUME NEW j \in Members[e] PROVE Contract!Step(j)
    BY <1>1, <1>5, SpentOf DEF Contract!Step, Contract!Stay
  <2>2. QED
    BY <1>1, <2>1, MembersStep
<1>6. CASE ~(OnRecord(e)' <=> OnRecord(e))
  <2>1. attempts[e] # <<>> /\ Len(attempts[e]) \in DOMAIN attempts[e]
    BY <1>3, <1>4, <1>6 DEF OnRecord
  <2>2. attempts'[e][Len(attempts[e])].submitted # attempts[e][Len(attempts[e])].submitted
    BY <1>2, <1>4, <1>6 DEF OnRecord, Last
  <2>3. EmitSubmitted(w) /\ attempts'[e][Len(attempts[e])].submitted = TRUE
    BY <1>1, <2>1, <2>2
  <2>4. OnRecord(e)' /\ ~OnRecord(e)
    BY <1>2, <1>4, <1>6, <2>1, <2>3 DEF OnRecord, Last
  <2>5. ASSUME NEW j \in Members[e] PROVE Contract!Step(j)
    <3>1. CASE job[j] = "running"
      <4>1. j \notin SpentJobs /\ j \in SpentJobs' /\ job'[j] = "running"
        BY <1>1, <2>4, <3>1, SpentOf
      <4>2. QED
        BY <3>1, <4>1 DEF Contract!Step, Contract!Spend, Contract!Moves, Contract!Unspent
    <3>2. CASE job[j] # "running"
      BY <1>1, <3>2, IdleStays
    <3>3. QED
      BY <3>1, <3>2
  <2>6. QED
    BY <1>1, <2>5, MembersStep
<1>7. QED
  BY <1>5, <1>6

-----------------------------------------------------------------------------
(* The steps of the producer, the user and the restart.                    *)

LEMMA ContractSubmit ==
  ASSUME Kept, NEW e \in Works, Submit(e) PROVE Contract!Next
<1>1. Touches(e) /\ SetJobs(Members[e], "queued") /\ exec[e] = "none"
  BY DEF Submit, Touches, SetJobs
<1>2. ASSUME NEW j \in Members[e] PROVE Contract!Step(j)
  <2>1. job[j] = "none" /\ job'[j] = "queued"
    BY <1>1, SpentOf DEF Kept, JobsInStep, InStep, SetJobs
  <2>2. QED
    BY <2>1, MoveOf
<1>3. QED
  BY <1>1, <1>2, MembersStep

LEMMA ContractCancel ==
  ASSUME Kept, NEW j \in Jobs, CancelLeased(j) \/ CancelWaiting(j)
  PROVE  Contract!Next
<1>1. CASE CancelLeased(j)
  <2>1. PICK e \in Works :
          /\ lease[e] # 0 /\ ~(KindOf[e] = "video" /\ Submitted(e))
          /\ FinishAttempt(e, "cancelled") /\ SetJobs(Live(e), "cancelled")
    BY <1>1 DEF CancelLeased
  <2>2. exec[e] = "leased"
    BY <2>1, LeasedOnly DEF Kept
  <2>3. KindOf[e] = "image" \/ ~OnRecord(e)
    BY <2>1, RuntimeAssumption DEF Submitted, OnRecord, Kinds
  <2>4. Touches(e)
    BY <2>1, FinishTouches DEF SetJobs, Live
  <2>5. ASSUME NEW k \in Members[e] PROVE Contract!Step(k)
    <3>1. job[k] \in {"running"} \cup Settled /\ k \in Jobs
      BY <2>2, LeasedMembers
    <3>2. CASE job[k] = "running"
      <4>1. job'[k] = "cancelled"
        BY <2>1, <3>1, <3>2 DEF SetJobs, Live, Settled
      <4>2. QED
        BY <2>3, <3>2, <4>1, MoveOf
    <3>3. CASE job[k] # "running"
      <4>1. job'[k] = job[k]
        BY <2>1, <3>1, <3>3 DEF SetJobs, Live
      <4>2. QED
        BY <3>3, <4>1, IdleStays
    <3>4. QED
      BY <3>2, <3>3
  <2>6. QED
    BY <2>4, <2>5, MembersStep
<1>2. CASE CancelWaiting(j)
  <2>1. PICK e \in Works :
          exec[e] = "ready" /\ SetJobs(Live(e), "cancelled") /\ UNCHANGED attempts
    BY <1>2 DEF CancelWaiting
  <2>2. Touches(e)
    BY <2>1 DEF Touches, SetJobs, Live
  <2>3. ASSUME NEW k \in Members[e] PROVE Contract!Step(k)
    <3>1. /\ job[k] \in Waiting \cup Settled /\ k \in Jobs
      <4>1. job[k] \in States /\ job[k] # "running" /\ k \in Jobs
        BY <2>1, MembersWait DEF Kept
      <4>2. job[k] # "none" /\ job[k] # "needs_attention"
        BY <2>1 DEF Kept, JobsInStep, InStep
      <4>3. QED
        BY <4>1, <4>2 DEF States
    <3>2. CASE job[k] \in Waiting
      <4>1. job'[k] = "cancelled"
        BY <2>1, <3>1, <3>2 DEF SetJobs, Live, Settled, Waiting
      <4>2. QED
        BY <3>2, <4>1, MoveOf
    <3>3. CASE job[k] \in Settled
      <4>1. job'[k] = job[k] /\ job[k] # "running"
        BY <2>1, <3>1, <3>3 DEF SetJobs, Live, Settled
      <4>2. QED
        BY <4>1, IdleStays
    <3>4. QED
      BY <3>1, <3>2, <3>3
  <2>4. QED
    BY <2>2, <2>3, MembersStep
<1>3. QED
  BY <1>1, <1>2

LEMMA ContractResolve ==
  ASSUME Kept, NEW j \in Jobs, ResolveNeedsAttention(j) PROVE Contract!Next
<1>1. /\ job[j] = "needs_attention" /\ job'[j] = "cancelled" /\ UNCHANGED attempts
      /\ \A k \in Jobs \ {j} : job'[k] = job[k]
  BY DEF ResolveNeedsAttention, SetJobs, Kept, Ledger, TypeOK
<1>2. \A k \in Jobs \ {j} : k \in SpentJobs' <=> k \in SpentJobs
  BY <1>1 DEF SpentJobs, Last
<1>3. j \notin SpentJobs'
  BY <1>1 DEF SpentJobs
<1>4. QED
  BY <1>1, <1>2, <1>3
     DEF Contract!Next, Contract!Step, Contract!Stay, Contract!Resolve, Contract!Moves

(* A restart, execution by execution.                                      *)
LEMMA RecoverMoves ==
  ASSUME Kept, Recover, NEW e \in Works
  PROVE  /\ exec[e] = "leased" =>
              /\ exec'[e] = IF OnRecord(e) THEN "finished" ELSE "ready"
              /\ \A j \in Members[e] :
                   job'[j] = IF job[j] # "running" THEN job[j]
                             ELSE IF OnRecord(e) THEN "needs_attention" ELSE "retry_wait"
         /\ exec[e] # "leased" =>
              /\ exec'[e] = exec[e] /\ attempts'[e] = attempts[e]
              /\ \A j \in Members[e] : job'[j] = job[j]
         /\ \A j \in Jobs : (\A f \in Works : j \notin Members[f]) => job'[j] = job[j]
<1> DEFINE leased == {f \in Works : exec[f] = "leased"}
           sent == {f \in leased : Last(f).submitted}
           movedTo(f) == IF f \in sent THEN "needs_attention" ELSE "retry_wait"
           ownerOf(j) == CHOOSE f \in Works : j \in Members[f]
           moved == UNION {Running(f) : f \in leased}
<1>1. /\ job' = [j \in Jobs |-> IF j \in moved THEN movedTo(ownerOf(j)) ELSE job[j]]
      /\ exec' = [f \in Works |-> CASE f \in sent -> "finished"
                                    [] f \in leased \ sent -> "ready"
                                    [] OTHER -> exec[f]]
      /\ e \notin leased => attempts'[e] = attempts[e]
  BY DEF Recover
<1>2. e \in leased => (e \in sent <=> OnRecord(e))
  BY DEF OnRecord, Kept, JobsInStep, InStep
<1>3. ASSUME NEW j \in Members[e]
      PROVE  job'[j] = IF j \in moved THEN movedTo(e) ELSE job[j]
  <2>1. j \in Jobs /\ ownerOf(j) = e
    BY RuntimeAssumption
  <2>2. QED
    BY <1>1, <2>1
<1>4. ASSUME NEW j \in Members[e]
      PROVE  j \in moved <=> e \in leased /\ job[j] = "running"
  BY RuntimeAssumption DEF Running
<1>5. ASSUME NEW j \in Jobs, \A f \in Works : j \notin Members[f]
      PROVE  job'[j] = job[j]
  <2>1. j \notin moved
    BY <1>5 DEF Running
  <2>2. QED
    BY <1>1, <2>1
<1>6. exec'[e] = CASE e \in sent -> "finished"
                   [] e \in leased \ sent -> "ready"
                   [] OTHER -> exec[e]
  BY <1>1
<1>7. ASSUME e \in leased
      PROVE  /\ exec'[e] = IF OnRecord(e) THEN "finished" ELSE "ready"
             /\ \A j \in Members[e] :
                  job'[j] = IF job[j] # "running" THEN job[j]
                            ELSE IF OnRecord(e) THEN "needs_attention" ELSE "retry_wait"
  BY <1>2, <1>3, <1>4, <1>6, <1>7
<1>8. ASSUME e \notin leased
      PROVE  /\ exec'[e] = exec[e] /\ attempts'[e] = attempts[e]
             /\ \A j \in Members[e] : job'[j] = job[j]
  BY <1>1, <1>3, <1>4, <1>6, <1>8
<1>9. QED
  BY <1>5, <1>7, <1>8

LEMMA ContractRecover == ASSUME Kept, Recover PROVE Contract!Next
<1>1. ASSUME NEW e \in Works, NEW j \in Members[e] PROVE Contract!Step(j)
  <2>1. job[j] = "running" => exec[e] = "leased"
    BY DEF Kept, NoStrandedJob
  <2>2. CASE job[j] = "running"
    <3>1. job'[j] = IF OnRecord(e) THEN "needs_attention" ELSE "retry_wait"
      BY <2>1, <2>2, RecoverMoves
    <3>2. QED
      BY <2>2, <3>1, MoveOf
  <2>3. CASE job[j] # "running"
    <3>1. job'[j] = job[j]
      BY <2>3, RecoverMoves
    <3>2. QED
      BY <2>3, <3>1, IdleStays
  <2>4. QED
    BY <2>2, <2>3
<1>2. ASSUME NEW j \in Jobs, \A e \in Works : j \notin Members[e]
      PROVE  Contract!Step(j)
  <2>1. job'[j] = job[j]
    <3>1. CASE Works = {}
      BY <3>1 DEF Recover
    <3>2. CASE Works # {}
      BY <1>2, <3>2, RecoverMoves
    <3>3. QED
      BY <3>1, <3>2
  <2>2. j \notin SpentJobs /\ j \notin SpentJobs'
    BY <1>2 DEF SpentJobs
  <2>3. QED
    BY <2>1, <2>2 DEF Contract!Step, Contract!Stay
<1>3. QED
  BY <1>1, <1>2 DEF Contract!Next

-----------------------------------------------------------------------------
(* Jobs and executions stay in step.                                       *)

LEMMA InStepElsewhere ==
  ASSUME Kept, NEW e \in Works, Touches(e), InStep(e)',
         \A f \in Works \ {e} : exec'[f] = exec[f]
  PROVE  JobsInStep'
<1>1. ASSUME NEW f \in Works \ {e} PROVE InStep(f)'
  <2>1. \A j \in Members[f] : job'[j] = job[j]
    BY RuntimeAssumption DEF Touches
  <2>2. attempts'[f] = attempts[f] /\ exec'[f] = exec[f] /\ InStep(f)
    BY DEF Touches, Kept, JobsInStep
  <2>3. QED
    BY <2>1, <2>2 DEF InStep
<1>2. QED
  BY <1>1 DEF JobsInStep

LEMMA InStepReport ==
  ASSUME Kept, NEW w \in Workers, Report(w) PROVE JobsInStep'
<1>1. PICK e \in Works : e = HeldBy(w) /\ exec[e] = "leased"
  BY ReportCloses, HolderLeased DEF Kept
<1>2. exec \in [Works -> ExecStates]
  BY DEF Kept, Ledger, TypeOK
<1>3. \A j \in Members[e] : j \in Jobs /\ job[j] \in {"running"} \cup Settled
  BY <1>1, LeasedMembers
<1>4. ASSUME NEW to, SetJobs(Members[e], to) \/ SetJobs(Running(e), to), NEW r,
             FinishAttempt(e, r), NEW x \in {"ready", "finished"},
             exec' = [exec EXCEPT ![e] = x],
             to # "none", to = "needs_attention" => x = "finished"
      PROVE  JobsInStep'
  <2>1. Touches(e)
    BY <1>4, FinishTouches DEF SetJobs, Running
  <2>2. exec'[e] = x /\ \A f \in Works \ {e} : exec'[f] = exec[f]
    BY <1>2, <1>4
  <2>3. \A j \in Members[e] : job'[j] \in {to, job[j]} /\ job'[j] # "none"
    BY <1>3, <1>4 DEF SetJobs, Settled
  <2>4. InStep(e)'
    BY <1>3, <1>4, <2>2, <2>3 DEF InStep, Settled
  <2>5. QED
    BY <2>1, <2>2, <2>4, InStepElsewhere
<1>5. CASE Succeed(w)
  BY <1>1, <1>4, <1>5 DEF Succeed, FinishExec
<1>6. ASSUME NEW D \in SUBSET Jobs, Partial(w, D) PROVE JobsInStep'
  <2> DEFINE d == DecidePartial(History(e, EarlierErrors(e)), KindOf[e])
  <2>1. d.to \in {"retry_wait", "failed"}
    BY DecisionEnds
  <2>2. /\ job' = [j \in Jobs |-> CASE j \in D -> "completed"
                                    [] j \in Running(e) \ D -> d.to
                                    [] OTHER -> job[j]]
        /\ D \subseteq Running(e) /\ FinishAttempt(e, "error")
    BY <1>1, <1>6 DEF Partial
  <2>3. \E x \in {"ready", "finished"} : exec' = [exec EXCEPT ![e] = x]
    BY <1>1, <1>6 DEF Partial, Requeue, FinishExec
  <2> HIDE DEF d
  <2>4. \A j \in Jobs : /\ job'[j] \in {"completed", d.to, job[j]}
                        /\ j \notin Running(e) => job'[j] = job[j]
    BY <2>2
  <2>5. Touches(e)
    BY <2>2, <2>4, FinishTouches DEF Running
  <2>6. exec'[e] \in {"ready", "finished"} /\ \A f \in Works \ {e} : exec'[f] = exec[f]
    BY <1>2, <2>3
  <2>7. \A j \in Members[e] : job'[j] \notin {"none", "needs_attention"}
    BY <1>3, <2>1, <2>4 DEF Settled
  <2>8. InStep(e)'
    BY <2>6, <2>7 DEF InStep
  <2>9. QED
    BY <2>5, <2>6, <2>8, InStepElsewhere
<1>7. ASSUME NEW c \in ErrorClasses, Fail(w, c) PROVE JobsInStep'
  <2> DEFINE d == FailDecision(w, c)
  <2>1. /\ d.action = "retry" => d.to = "retry_wait"
        /\ d.action # "retry" => d.to \in {"failed", "cancelled", "needs_attention"}
    BY DecisionEnds DEF FailDecision
  <2>2. /\ SetJobs(Members[e], d.to) /\ FinishAttempt(e, OutcomeOf(d.action))
        /\ IF d.action = "retry" THEN exec' = [exec EXCEPT ![e] = "ready"]
                                 ELSE exec' = [exec EXCEPT ![e] = "finished"]
    BY <1>1, <1>7 DEF Fail, Requeue, FinishExec
  <2> HIDE DEF d
  <2>3. QED
    BY <1>4, <2>1, <2>2
<1>8. ASSUME NEW c \in ErrorClasses, FailRollsBack(w, c) PROVE JobsInStep'
  BY <1>8 DEF FailRollsBack, durable, Kept, JobsInStep, InStep
<1>9. QED
  BY <1>5, <1>6, <1>7, <1>8 DEF Report

LEMMA InStepStart ==
  ASSUME Kept,
         \/ \E e \in Works : Submit(e)
         \/ \E w \in Workers : LeaseNext(w)
  PROVE  JobsInStep'
<1>1. exec \in [Works -> ExecStates]
  BY DEF Kept, Ledger, TypeOK
<1>2. ASSUME NEW e \in Works, Submit(e) PROVE JobsInStep'
  <2>1. /\ Touches(e) /\ SetJobs(Members[e], "queued")
        /\ exec' = [exec EXCEPT ![e] = "ready"]
    BY <1>2 DEF Submit, Touches, SetJobs
  <2>2. \A j \in Members[e] : job'[j] = "queued"
    BY <2>1, RuntimeAssumption DEF SetJobs
  <2>3. exec'[e] = "ready" /\ \A f \in Works \ {e} : exec'[f] = exec[f]
    BY <1>1, <2>1
  <2>4. InStep(e)'
    BY <2>2, <2>3 DEF InStep
  <2>5. QED
    BY <2>1, <2>3, <2>4, InStepElsewhere
<1>3. ASSUME NEW w \in Workers, LeaseNext(w) PROVE JobsInStep'
  <2>1. PICK e \in Works :
          /\ exec[e] = "ready" /\ exec' = [exec EXCEPT ![e] = "leased"]
          /\ attempts' = [attempts EXCEPT ![e] = Append(@, NewAttempt)]
          /\ SetJobs({j \in Members[e] : job[j] \in Waiting}, "running")
    BY <1>3, LeaseTaken DEF Kept, Ledger
  <2>2. attempts'[e] = Append(attempts[e], NewAttempt) /\ Touches(e)
    BY <2>1 DEF SetJobs, Touches, Kept, Ledger, TypeOK
  <2>3. attempts'[e] # <<>>
    <3>1. attempts[e] \in Seq(Attempts) /\ NewAttempt \in Attempts
      BY DEF Kept, Ledger, TypeOK, NewAttempt, Attempts, Outcomes
    <3>2. QED
      BY <2>2, <3>1, AppendProperties
  <2>4. \A j \in Members[e] : j \in Jobs /\ job[j] \notin {"none", "needs_attention"}
    BY <2>1, RuntimeAssumption DEF Kept, JobsInStep, InStep
  <2>5. \A j \in Members[e] : job'[j] \notin {"none", "needs_attention"}
    BY <2>1, <2>4 DEF SetJobs
  <2>6. exec'[e] = "leased" /\ \A f \in Works \ {e} : exec'[f] = exec[f]
    BY <1>1, <2>1
  <2>7. InStep(e)'
    BY <2>3, <2>5, <2>6 DEF InStep
  <2>8. QED
    BY <2>2, <2>6, <2>7, InStepElsewhere
<1>4. QED
  BY <1>2, <1>3

LEMMA InStepUser ==
  ASSUME Kept, NEW j \in Jobs, UserStep(j) PROVE JobsInStep'
<1>1. exec \in [Works -> ExecStates]
  BY DEF Kept, Ledger, TypeOK
<1>2. CASE CancelLeased(j) \/ CancelWaiting(j)
  <2>1. PICK e \in Works :
          /\ SetJobs(Live(e), "cancelled") /\ FinishExec(e)
          /\ exec[e] \in {"leased", "ready"}
          /\ FinishAttempt(e, "cancelled") \/ UNCHANGED attempts
    BY <1>2, LeasedOnly DEF CancelLeased, CancelWaiting, Kept
  <2>2. \A k \in Jobs \ Members[e] : job'[k] = job[k]
    BY <2>1 DEF SetJobs, Live
  <2>3. Touches(e)
    BY <2>1, <2>2, FinishTouches DEF Touches
  <2>4. exec'[e] = "finished" /\ \A f \in Works \ {e} : exec'[f] = exec[f]
    BY <1>1, <2>1 DEF FinishExec
  <2>5. \A k \in Members[e] : k \in Jobs /\ job[k] # "none"
    BY <2>1, RuntimeAssumption DEF Kept, JobsInStep, InStep
  <2>6. \A k \in Members[e] : job'[k] # "none"
    BY <2>1, <2>5 DEF SetJobs
  <2>7. InStep(e)'
    BY <2>4, <2>6 DEF InStep
  <2>8. QED
    BY <2>3, <2>4, <2>7, InStepElsewhere
<1>3. CASE ResolveNeedsAttention(j)
  <2>1. /\ UNCHANGED <<exec, attempts>>
        /\ \A k \in Jobs : job'[k] = job[k] \/ (job[k] = "needs_attention"
                                                /\ job'[k] = "cancelled")
    BY <1>3 DEF ResolveNeedsAttention, SetJobs, Kept, Ledger, TypeOK
  <2>2. ASSUME NEW e \in Works PROVE InStep(e)'
    BY <2>1, RuntimeAssumption DEF Kept, JobsInStep, InStep
  <2>3. QED
    BY <2>2 DEF JobsInStep
<1>4. QED
  BY <1>2, <1>3 DEF UserStep

LEMMA InStepStep == ASSUME Kept, [Next]_vars PROVE JobsInStep'
<1>1. ASSUME NEW w \in Workers, Click(w) \/ EmitSubmitted(w) PROVE JobsInStep'
  <2>1. /\ UNCHANGED <<job, exec>> /\ TypeOK'
        /\ \A e \in Works : Len(attempts'[e]) = Len(attempts[e])
    BY <1>1, DriveKeepsOutcomes, TypeDrive DEF Kept, Ledger
  <2>2. \A e \in Works : attempts[e] # <<>> => attempts'[e] # <<>>
    BY <2>1 DEF Kept, Ledger, TypeOK
  <2>3. QED
    BY <2>1, <2>2 DEF Kept, JobsInStep, InStep
<1>2. CASE Recover
  <2>1. ASSUME NEW e \in Works PROVE InStep(e)'
    <3>1. CASE exec[e] = "leased"
      <4>1. exec'[e] = IF OnRecord(e) THEN "finished" ELSE "ready"
        BY <1>2, <3>1, RecoverMoves
      <4>2. \A j \in Members[e] :
              job'[j] = IF job[j] # "running" THEN job[j]
                        ELSE IF OnRecord(e) THEN "needs_attention" ELSE "retry_wait"
        BY <1>2, <3>1, RecoverMoves
      <4>3. \A j \in Members[e] : job[j] \in {"running"} \cup Settled
        BY <3>1, LeasedMembers
      <4>4. QED
        BY <4>1, <4>2, <4>3 DEF InStep, Settled
    <3>2. CASE exec[e] # "leased"
      BY <1>2, <3>2, RecoverMoves DEF Kept, JobsInStep, InStep
    <3>3. QED
      BY <3>1, <3>2
  <2>2. QED
    BY <2>1 DEF JobsInStep
<1>3. CASE \/ \E w \in Workers : StopStale(w)
           \/ \E e \in Works : Due(e)
           \/ \E a \in Accounts : CooldownOver(a) \/ ChangeAccount(a)
           \/ Crash \/ UNCHANGED vars
  <2>1. UNCHANGED <<job, exec, attempts>>
    BY <1>3 DEF StopStale, Due, CooldownOver, ChangeAccount, Crash, vars, durable
  <2>2. QED
    BY <2>1 DEF Kept, JobsInStep, InStep
<1>4. QED
  BY <1>1, <1>2, <1>3, InStepStart, InStepReport, InStepUser DEF Next, WorkerStep

-----------------------------------------------------------------------------

LEMMA ContractStep == ASSUME Kept, [Next]_vars PROVE [Contract!Next]_(Contract!vars)
<1>1. ASSUME NEW w \in Workers, Report(w)
      PROVE  Contract!Next \/ UNCHANGED <<job, attempts>>
  BY <1>1, ContractSucceed, ContractPartial, ContractFail
     DEF Report, FailRollsBack, durable
<1>2. ASSUME \/ \E w \in Workers : StopStale(w)
             \/ \E e \in Works : Due(e)
             \/ \E a \in Accounts : CooldownOver(a) \/ ChangeAccount(a)
             \/ Crash \/ UNCHANGED vars
      PROVE  UNCHANGED <<job, attempts>>
  BY <1>2 DEF StopStale, Due, CooldownOver, ChangeAccount, Crash, vars, durable
<1>3. ASSUME UNCHANGED <<job, attempts>> PROVE UNCHANGED Contract!vars
  BY <1>3 DEF SpentJobs, Last, Contract!vars
<1>4. Contract!Next \/ UNCHANGED <<job, attempts>>
  BY <1>1, <1>2, ContractLease, ContractDrive, ContractSubmit, ContractCancel,
     ContractResolve, ContractRecover DEF Next, WorkerStep, UserStep
<1>5. QED
  BY <1>3, <1>4

LEMMA InStepAlways == Spec => []JobsInStep
<1>1. Init => JobsInStep
  BY RuntimeAssumption DEF Init, JobsInStep, InStep
<1>2. /\ Ledger /\ NoStrandedJob /\ OneThreadPerExecution /\ DrivenIsStarted
      /\ PhaseKnown /\ JobsInStep /\ [Next]_vars
      => JobsInStep'
  BY InStepStep DEF Kept
<1>3. QED
  BY <1>1, <1>2, LedgerAlways, JobsAreNotStranded, DrivenAlways, PhaseAlways, PTL DEF Spec

(* What the runtime does to each job is what the contract allows, for any  *)
(* workers, accounts, batches, errors, cancels and crashes.                *)
THEOREM ContractIsKept == Spec => ImplementsContract
<1>1. Init => Contract!Init
  BY DEF Init, Contract!Init, SpentJobs
<1>2. /\ Ledger /\ NoStrandedJob /\ OneThreadPerExecution /\ DrivenIsStarted
      /\ PhaseKnown /\ JobsInStep /\ [Next]_vars
      => [Contract!Next]_(Contract!vars)
  BY ContractStep DEF Kept
<1>3. QED
  BY <1>1, <1>2, LedgerAlways, JobsAreNotStranded, DrivenAlways, PhaseAlways,
     InStepAlways, PTL DEF Spec, ImplementsContract, Contract!Spec

-----------------------------------------------------------------------------
(* The budget of submits.                                                  *)

SentOf(e) == {i \in DOMAIN attempts[e] : attempts[e][i].submitted}

(* An execution that may still submit has budget left for it: what is in   *)
(* the schedule, and what is leased and not yet on record.                 *)
WithinBudget(e) ==
  /\ SubmittedCount(e) <= SubmitBudget[KindOf[e]]
  /\ exec[e] = "ready" => SubmittedCount(e) < SubmitBudget[KindOf[e]]
  /\ exec[e] = "leased" /\ ~OnRecord(e) => SubmittedCount(e) < SubmitBudget[KindOf[e]]

BudgetLeft == \A e \in Works : WithinBudget(e)

LEMMA BudgetOf ==
  ASSUME NEW e \in Works PROVE SubmitBudget[KindOf[e]] \in Nat \ {0}
BY BudgetAssumption, RuntimeAssumption

LEMMA SentFinite ==
  ASSUME TypeOK, NEW e \in Works
  PROVE  /\ IsFiniteSet(SentOf(e)) /\ SubmittedCount(e) = Cardinality(SentOf(e))
         /\ SubmittedCount(e) \in Nat
         /\ SentOf(e) \subseteq 1 .. Len(attempts[e]) /\ Len(attempts[e]) \in Nat
<1>1. attempts[e] \in Seq(Attempts)
  BY DEF TypeOK
<1>2. SentOf(e) \subseteq 1 .. Len(attempts[e]) /\ Len(attempts[e]) \in Nat
  BY <1>1 DEF SentOf
<1>3. IsFiniteSet(SentOf(e))
  <2>1. IsFiniteSet(1 .. Len(attempts[e]))
    BY <1>2, FS_Interval
  <2>2. QED
    BY <1>2, <2>1, FS_Subset
<1>4. SubmittedCount(e) = Cardinality(SentOf(e))
  BY DEF SubmittedCount, SentOf
<1>5. QED
  BY <1>2, <1>3, <1>4, FS_CardinalityType

(* Where no record of a submit comes or goes, the count is the same.       *)
LEMMA SameSent ==
  ASSUME NEW e \in Works, DOMAIN attempts'[e] = DOMAIN attempts[e],
         \A i \in DOMAIN attempts[e] :
           attempts'[e][i].submitted = attempts[e][i].submitted
  PROVE  SubmittedCount(e)' = SubmittedCount(e)
<1>1. {i \in DOMAIN attempts'[e] : attempts'[e][i].submitted} = SentOf(e)
  BY DEF SentOf
<1>2. SubmittedCount(e)' = Cardinality({i \in DOMAIN attempts'[e] : attempts'[e][i].submitted})
  BY DEF SubmittedCount
<1>3. QED
  BY <1>1, <1>2 DEF SubmittedCount, SentOf

LEMMA RetryHasBudget ==
  ASSUME NEW c, NEW s, NEW h, NEW k,
         Decide(c, s, h, k).action = "retry" \/ DecidePartial(h, k).action = "retry"
  PROVE  ~Exhausted(h, k)
<1>1. CASE Decide(c, s, h, k).action = "retry"
  BY <1>1 DEF Decide, Final, RetryOf
<1>2. CASE DecidePartial(h, k).action = "retry"
  BY <1>2 DEF DecidePartial, Final
<1>3. QED
  BY <1>1, <1>2

(* What a report puts back into the schedule may submit once more.         *)
LEMMA RetriesHaveBudget ==
  ASSUME Ledger, NEW w \in Workers, Report(w), exec'[HeldBy(w)] = "ready"
  PROVE  SubmittedCount(HeldBy(w)) < SubmitBudget[KindOf[HeldBy(w)]]
<1> DEFINE e == HeldBy(w)
<1>1. e \in Works /\ exec[e] = "leased" /\ exec \in [Works -> ExecStates]
  BY ReportCloses, HolderLeased DEF Ledger, TypeOK
<1>2. ~Succeed(w) /\ \A c : ~FailRollsBack(w, c)
  BY <1>1 DEF Succeed, FinishExec, FailRollsBack, durable
<1>3. ASSUME NEW D \in SUBSET Jobs, Partial(w, D)
      PROVE  ~Exhausted(History(e, EarlierErrors(e)), KindOf[e])
  <2>1. DecidePartial(History(e, EarlierErrors(e)), KindOf[e]).action = "retry"
    BY <1>1, <1>3 DEF Partial, FinishExec
  <2>2. QED
    BY <2>1, RetryHasBudget
<1>4. ASSUME NEW c \in ErrorClasses, Fail(w, c)
      PROVE  ~Exhausted(History(e, 0), KindOf[e])
  <2>1. FailDecision(w, c).action = "retry"
    BY <1>1, <1>4 DEF Fail, FinishExec
  <2>2. QED
    BY <2>1, RetryHasBudget DEF FailDecision
<1>5. \E r : ~Exhausted(History(e, r), KindOf[e])
  BY <1>2, <1>3, <1>4 DEF Report
<1>6. ~(SubmittedCount(e) >= SubmitBudget[KindOf[e]])
  BY <1>5 DEF Exhausted, History
<1>7. SubmittedCount(e) \in Nat /\ SubmitBudget[KindOf[e]] \in Nat
  BY <1>1, SentFinite, BudgetOf DEF Ledger
<1>8. QED
  BY <1>6, <1>7

LEMMA BudgetSame ==
  ASSUME BudgetLeft, NEW e \in Works,
         exec'[e] \in {exec[e], "finished"}, attempts'[e] = attempts[e]
  PROVE  WithinBudget(e)'
<1>1. SubmittedCount(e)' = SubmittedCount(e) /\ (OnRecord(e)' <=> OnRecord(e))
  BY SameSent DEF OnRecord, Last
<1>2. WithinBudget(e)
  BY DEF BudgetLeft
<1>3. QED
  BY <1>1, <1>2 DEF WithinBudget

LEMMA BudgetClose ==
  ASSUME Ledger, BudgetLeft, NEW e \in Works, NEW x, NEW r, Closes(e, x, r),
         x = "ready" => SubmittedCount(e) < SubmitBudget[KindOf[e]]
  PROVE  BudgetLeft'
<1>1. ASSUME NEW f \in Works \ {e} PROVE WithinBudget(f)'
  BY BudgetSame, CloseKeepsSubmits
<1>2. SubmittedCount(e)' = SubmittedCount(e)
  BY SameSent, CloseKeepsSubmits
<1>3. exec'[e] = x /\ x # "leased" /\ WithinBudget(e)
  BY CloseKeepsSubmits DEF Closes, BudgetLeft
<1>4. WithinBudget(e)'
  BY <1>2, <1>3 DEF WithinBudget
<1>5. QED
  BY <1>1, <1>4 DEF BudgetLeft

LEMMA BudgetReport ==
  ASSUME Ledger, BudgetLeft, NEW w \in Workers, Report(w) PROVE BudgetLeft'
<1> DEFINE e == HeldBy(w)
<1>1. e \in Works
  BY ReportCloses, HolderLeased
<1>2. CASE UNCHANGED durable
  BY <1>2, BudgetSame DEF durable, BudgetLeft
<1>3. ASSUME NEW x, NEW r, Closes(e, x, r) PROVE BudgetLeft'
  <2>1. exec'[e] = x
    BY <1>1, <1>3, CloseKeepsSubmits
  <2>2. QED
    BY <1>1, <1>3, <2>1, RetriesHaveBudget, BudgetClose
<1>4. QED
  BY <1>2, <1>3, ReportCloses

(* A new attempt is not on record.                                         *)
LEMMA BudgetLease ==
  ASSUME Ledger, BudgetLeft, NEW w \in Workers, LeaseNext(w) PROVE BudgetLeft'
<1>1. PICK e \in Works :
        /\ exec[e] = "ready" /\ exec' = [exec EXCEPT ![e] = "leased"]
        /\ attempts' = [attempts EXCEPT ![e] = Append(@, NewAttempt)]
  BY LeaseTaken DEF Ledger
<1> DEFINE s == attempts[e]
<1>2. /\ attempts'[e] = Append(s, NewAttempt) /\ exec'[e] = "leased"
      /\ \A f \in Works \ {e} : exec'[f] = exec[f] /\ attempts'[f] = attempts[f]
  BY <1>1 DEF Ledger, TypeOK
<1>3. s \in Seq(Attempts) /\ NewAttempt \in Attempts /\ ~NewAttempt.submitted
  BY DEF Ledger, TypeOK, NewAttempt, Attempts, Outcomes
<1>4. {i \in DOMAIN attempts'[e] : attempts'[e][i].submitted} = SentOf(e)
  BY <1>2, <1>3, AppendProperties DEF SentOf
<1>5. SubmittedCount(e)' = SubmittedCount(e)
  <2>1. SubmittedCount(e)' =
          Cardinality({i \in DOMAIN attempts'[e] : attempts'[e][i].submitted})
    BY DEF SubmittedCount
  <2>2. QED
    BY <1>4, <2>1 DEF SubmittedCount, SentOf
<1>6. WithinBudget(e)'
  BY <1>1, <1>2, <1>5 DEF WithinBudget, BudgetLeft
<1>7. QED
  BY <1>2, <1>6, BudgetSame DEF BudgetLeft

(* The record of a submit uses the budget the attempt was opened with.     *)
LEMMA BudgetDrive ==
  ASSUME Kept, BudgetLeft, NEW w \in Workers, Click(w) \/ EmitSubmitted(w)
  PROVE  BudgetLeft'
<1> DEFINE n == worker[w].number
<1>1. PICK e \in Works : e = HeldBy(w)
  BY DriveMarks DEF Kept
<1>2. /\ \A f \in Works \ {e} : attempts'[f] = attempts[f]
      /\ \A i \in DOMAIN attempts[e] :
           attempts'[e][i].submitted =
             IF i = n /\ EmitSubmitted(w) THEN TRUE ELSE attempts[e][i].submitted
  BY <1>1, DriveMarks DEF Kept
<1>3. /\ UNCHANGED exec /\ DOMAIN attempts'[e] = DOMAIN attempts[e]
      /\ Len(attempts'[e]) = Len(attempts[e])
  BY DriveKeepsOutcomes DEF Kept
<1>4. CASE ~EmitSubmitted(w)
  <2>1. \A i \in DOMAIN attempts[e] :
          attempts'[e][i].submitted = attempts[e][i].submitted
    BY <1>2, <1>4
  <2>2. SubmittedCount(e)' = SubmittedCount(e)
    BY <1>3, <2>1, SameSent
  <2>3. exec[e] = "leased" => (OnRecord(e)' <=> OnRecord(e))
    <3>1. SUFFICES ASSUME exec[e] = "leased" PROVE OnRecord(e)' <=> OnRecord(e)
      OBVIOUS
    <3>2. attempts[e] # <<>> /\ attempts[e] \in Seq(Attempts)
      BY <3>1 DEF Kept, JobsInStep, InStep, Ledger, TypeOK
    <3>3. Len(attempts[e]) \in DOMAIN attempts[e]
      BY <3>2
    <3>4. attempts'[e] # <<>>
      BY <1>3, <3>3
    <3>5. QED
      BY <1>3, <2>1, <3>2, <3>3, <3>4 DEF OnRecord, Last
  <2>4. WithinBudget(e)'
    BY <1>3, <2>2, <2>3 DEF WithinBudget, BudgetLeft
  <2>5. QED
    BY <1>2, <1>3, <2>4, BudgetSame DEF BudgetLeft
<1>5. CASE EmitSubmitted(w)
  <2>1. LeaseHeld(w) /\ worker[w].phase # "after"
    BY <1>5 DEF EmitSubmitted
  <2>2. exec[e] = "leased" /\ n = Len(attempts[e]) /\ ~OnRecord(e)
    BY <1>1, <2>1, HolderKnows, HolderLeased DEF Kept
  <2>3. SubmittedCount(e) < SubmitBudget[KindOf[e]]
    BY <2>2 DEF BudgetLeft, WithinBudget
  <2>4. attempts[e] # <<>> /\ attempts[e] \in Seq(Attempts)
    BY <2>2 DEF Kept, JobsInStep, InStep, Ledger, TypeOK
  <2>5. n \in DOMAIN attempts[e] /\ ~attempts[e][n].submitted
    BY <2>2, <2>4 DEF OnRecord, Last
  <2>6. {i \in DOMAIN attempts'[e] : attempts'[e][i].submitted} = SentOf(e) \cup {n}
    BY <1>2, <1>3, <1>5, <2>5 DEF SentOf
  <2>7. SubmittedCount(e)' =
          Cardinality({i \in DOMAIN attempts'[e] : attempts'[e][i].submitted})
    BY DEF SubmittedCount
  <2>8. n \notin SentOf(e)
    BY <2>5 DEF SentOf
  <2>9. SubmittedCount(e)' = SubmittedCount(e) + 1 /\ SubmittedCount(e) \in Nat
    BY <2>6, <2>7, <2>8, SentFinite, FS_AddElement DEF Kept, Ledger
  <2>10. OnRecord(e)'
    <3>1. attempts'[e][Len(attempts'[e])].submitted
      BY <1>2, <1>3, <1>5, <2>2, <2>5
    <3>2. attempts'[e] # <<>>
      BY <1>3, <2>5
    <3>3. QED
      BY <3>1, <3>2 DEF OnRecord, Last
  <2>11. WithinBudget(e)'
    BY <1>3, <2>2, <2>3, <2>9, <2>10, BudgetOf DEF WithinBudget
  <2>12. QED
    BY <1>2, <1>3, <2>11, BudgetSame DEF BudgetLeft
<1>6. QED
  BY <1>4, <1>5

LEMMA BudgetRecover == ASSUME Kept, BudgetLeft, Recover PROVE BudgetLeft'
<1>1. ASSUME NEW e \in Works PROVE WithinBudget(e)'
  <2>1. CASE exec[e] # "leased"
    BY <2>1, RecoverMoves, BudgetSame
  <2>2. CASE exec[e] = "leased"
    <3>1. exec'[e] = IF OnRecord(e) THEN "finished" ELSE "ready"
      BY <2>2, RecoverMoves
    <3>2. PICK r : attempts'[e] = [attempts[e] EXCEPT ![Len(attempts[e])].outcome = r]
      BY <2>2 DEF Recover
    <3>3. attempts[e] \in Seq(Attempts)
      BY DEF Kept, Ledger, TypeOK
    <3>4. DOMAIN attempts'[e] = DOMAIN attempts[e]
      BY <3>2
    <3>5. \A i \in DOMAIN attempts[e] :
            attempts'[e][i].submitted = attempts[e][i].submitted
      <4> TAKE i \in DOMAIN attempts[e]
      <4>1. attempts[e][i] \in Attempts
        BY <3>3
      <4>2. QED
        BY <3>2, <4>1 DEF Attempts
    <3>6. SubmittedCount(e)' = SubmittedCount(e)
      BY <3>4, <3>5, SameSent
    <3>7. QED
      BY <2>2, <3>1, <3>6 DEF WithinBudget, BudgetLeft
  <2>3. QED
    BY <2>1, <2>2
<1>2. QED
  BY <1>1 DEF BudgetLeft

LEMMA BudgetStep == ASSUME Kept, FreshIsEmpty, BudgetLeft, [Next]_vars PROVE BudgetLeft'
<1>1. exec \in [Works -> ExecStates]
  BY DEF Kept, Ledger, TypeOK
<1>2. ASSUME NEW j \in Jobs, UserStep(j) PROVE BudgetLeft'
  <2>1. CASE CancelLeased(j)
    BY <2>1, CancelCloses, BudgetClose DEF Kept
  <2>2. CASE CancelWaiting(j) \/ ResolveNeedsAttention(j)
    <3>1. UNCHANGED attempts /\ \A e \in Works : exec'[e] \in {exec[e], "finished"}
      BY <1>1, <2>2 DEF CancelWaiting, ResolveNeedsAttention, FinishExec
    <3>2. QED
      BY <3>1, BudgetSame DEF BudgetLeft
  <2>3. QED
    BY <1>2, <2>1, <2>2 DEF UserStep
<1>3. ASSUME NEW e \in Works, Submit(e) PROVE BudgetLeft'
  <2>1. /\ exec[e] = "none" /\ UNCHANGED attempts
        /\ exec'[e] = "ready" /\ \A f \in Works \ {e} : exec'[f] = exec[f]
    BY <1>1, <1>3 DEF Submit
  <2>2. attempts[e] = <<>>
    BY <2>1 DEF FreshIsEmpty
  <2>3. SubmittedCount(e) = 0
    <3>1. SentOf(e) = {}
      BY <2>2 DEF SentOf
    <3>2. QED
      BY <3>1, SentFinite, FS_EmptySet DEF Kept, Ledger
  <2>4. SubmittedCount(e)' = SubmittedCount(e)
    BY <2>1, SameSent
  <2>5. WithinBudget(e)'
    BY <2>1, <2>3, <2>4, BudgetOf DEF WithinBudget
  <2>6. QED
    BY <2>1, <2>5, BudgetSame DEF BudgetLeft
<1>4. CASE \/ \E w \in Workers : StopStale(w)
           \/ \E e \in Works : Due(e)
           \/ \E a \in Accounts : CooldownOver(a) \/ ChangeAccount(a)
           \/ Crash \/ UNCHANGED vars
  <2>1. UNCHANGED <<exec, attempts>>
    BY <1>4 DEF StopStale, Due, CooldownOver, ChangeAccount, Crash, vars, durable
  <2>2. QED
    BY <2>1, BudgetSame DEF BudgetLeft
<1>5. QED
  BY <1>2, <1>3, <1>4, BudgetLease, BudgetDrive, BudgetReport, BudgetRecover
     DEF Next, WorkerStep, Kept

LEMMA FreshAlways == Spec => []FreshIsEmpty
<1>1. Init => FreshIsEmpty
  BY DEF Init, FreshIsEmpty
<1>2. Ledger /\ DrivenIsStarted /\ FreshIsEmpty /\ [Next]_vars => FreshIsEmpty'
  BY FreshStep
<1>3. QED
  BY <1>1, <1>2, LedgerAlways, DrivenAlways, PTL DEF Spec

(* No execution goes on record as submitted more often than its kind may   *)
(* be, over all its retries, partial batches and restarts: the policy is   *)
(* asked only after an attempt, but every attempt that is opened has       *)
(* budget for its submit.                                                  *)
THEOREM BudgetIsKept == Spec => []SubmitBudgetKept
<1>1. Init => BudgetLeft
  <2> SUFFICES ASSUME Init, NEW e \in Works PROVE WithinBudget(e)
    BY DEF BudgetLeft
  <2>1. exec[e] = "none" /\ SentOf(e) = {}
    BY DEF Init, SentOf
  <2>2. SubmittedCount(e) = 0
    BY <2>1, TypeInit, SentFinite, FS_EmptySet
  <2>3. QED
    BY <2>1, <2>2, BudgetOf DEF WithinBudget
<1>2. /\ Ledger /\ NoStrandedJob /\ OneThreadPerExecution /\ DrivenIsStarted
      /\ PhaseKnown /\ JobsInStep /\ FreshIsEmpty /\ BudgetLeft /\ [Next]_vars
      => BudgetLeft'
  BY BudgetStep DEF Kept
<1>3. BudgetLeft => SubmitBudgetKept
  BY DEF BudgetLeft, WithinBudget, SubmitBudgetKept
<1>4. QED
  BY <1>1, <1>2, <1>3, LedgerAlways, JobsAreNotStranded, DrivenAlways, PhaseAlways,
     InStepAlways, FreshAlways, PTL DEF Spec

-----------------------------------------------------------------------------
(* Every seat has somebody who gives it back.                              *)

(* Without partial deliveries the members of a batch move together.        *)
BatchesWhole ==
  \A e \in Works : \A j \in Members[e] :
    /\ exec[e] = "leased" => job[j] = "running"
    /\ exec[e] = "ready" => job[j] \in Waiting

Attended ==
  \A e \in Works : lease[e] # 0 => \E w \in Workers : HeldBy(w) = e /\ LeaseHeld(w)

AllOrNothing == PartialDelivery = FALSE

LEMMA WholeElsewhere ==
  ASSUME BatchesWhole, NEW e \in Works,
         \A j \in Jobs \ Members[e] : job'[j] = job[j],
         \A f \in Works \ {e} : exec'[f] = exec[f],
         \A j \in Members[e] : /\ exec'[e] = "leased" => job'[j] = "running"
                               /\ exec'[e] = "ready" => job'[j] \in Waiting
  PROVE  BatchesWhole'
<1>1. \A f \in Works \ {e} : \A j \in Members[f] : j \in Jobs \ Members[e]
  BY RuntimeAssumption
<1>2. ASSUME NEW f \in Works, NEW j \in Members[f]
      PROVE  /\ exec'[f] = "leased" => job'[j] = "running"
             /\ exec'[f] = "ready" => job'[j] \in Waiting
  <2>1. CASE f = e
    BY <2>1
  <2>2. CASE f # e
    <3>1. job'[j] = job[j] /\ exec'[f] = exec[f]
      BY <1>1, <2>2
    <3>2. QED
      BY <3>1 DEF BatchesWhole
  <2>3. QED
    BY <2>1, <2>2
<1>3. QED
  BY <1>2 DEF BatchesWhole

(* A report moves all members to what the decision says.                   *)
LEMMA WholeReport ==
  ASSUME Ledger, BatchesWhole, AllOrNothing, NEW w \in Workers, Report(w)
  PROVE  BatchesWhole'
<1>1. PICK e \in Works : e = HeldBy(w) /\ exec[e] = "leased"
  BY ReportCloses, HolderLeased
<1>2. exec \in [Works -> ExecStates]
  BY DEF Ledger, TypeOK
<1>3. \A j \in Members[e] : j \in Jobs /\ job[j] = "running"
  BY <1>1, RuntimeAssumption DEF BatchesWhole
<1>4. ASSUME NEW to, \A j \in Jobs : job'[j] = IF j \in Members[e] THEN to ELSE job[j],
             \/ exec' = [exec EXCEPT ![e] = "finished"]
             \/ exec' = [exec EXCEPT ![e] = "ready"] /\ to \in Waiting
      PROVE  BatchesWhole'
  <2>1. /\ \A f \in Works \ {e} : exec'[f] = exec[f]
        /\ exec'[e] = "finished" \/ (exec'[e] = "ready" /\ to \in Waiting)
    BY <1>2, <1>4
  <2>2. /\ \A j \in Jobs \ Members[e] : job'[j] = job[j]
        /\ \A j \in Members[e] : job'[j] = to
    BY <1>3, <1>4
  <2>3. QED
    BY <2>1, <2>2, WholeElsewhere
<1>5. Running(e) = Members[e]
  BY <1>3 DEF Running
<1>6. CASE Succeed(w)
  BY <1>1, <1>4, <1>5, <1>6 DEF Succeed, FinishExec, SetJobs
<1>7. ASSUME NEW D \in SUBSET Jobs, Partial(w, D) PROVE BatchesWhole'
  <2> DEFINE d == DecidePartial(History(e, EarlierErrors(e)), KindOf[e])
  <2>1. D = {}
    BY <1>7 DEF Partial, AllOrNothing
  <2>2. job' = [j \in Jobs |-> CASE j \in D -> "completed"
                                 [] j \in Running(e) \ D -> d.to
                                 [] OTHER -> job[j]]
    BY <1>1, <1>7 DEF Partial
  <2>3. IF d.action = "retry" THEN exec' = [exec EXCEPT ![e] = "ready"]
                              ELSE exec' = [exec EXCEPT ![e] = "finished"]
    BY <1>1, <1>7 DEF Partial, Requeue, FinishExec
  <2>4. d.action = "retry" => d.to \in Waiting
    BY DecisionEnds DEF Waiting
  <2> HIDE DEF d
  <2>5. \A j \in Jobs : job'[j] = IF j \in Members[e] THEN d.to ELSE job[j]
    BY <1>5, <2>1, <2>2
  <2>6. QED
    BY <1>4, <2>3, <2>4, <2>5
<1>8. ASSUME NEW c \in ErrorClasses, Fail(w, c) PROVE BatchesWhole'
  <2> DEFINE d == FailDecision(w, c)
  <2>1. d.action = "retry" => d.to \in Waiting
    BY DecisionEnds DEF FailDecision, Waiting
  <2>2. /\ SetJobs(Members[e], d.to)
        /\ IF d.action = "retry" THEN exec' = [exec EXCEPT ![e] = "ready"]
                                 ELSE exec' = [exec EXCEPT ![e] = "finished"]
    BY <1>1, <1>8 DEF Fail, Requeue, FinishExec
  <2> HIDE DEF d
  <2>3. QED
    BY <1>4, <2>1, <2>2 DEF SetJobs
<1>9. ASSUME NEW c \in ErrorClasses, FailRollsBack(w, c) PROVE BatchesWhole'
  BY <1>9 DEF FailRollsBack, durable, BatchesWhole
<1>10. QED
  BY <1>6, <1>7, <1>8, <1>9 DEF Report

LEMMA WholeStep ==
  ASSUME Kept, BatchesWhole, AllOrNothing, [Next]_vars PROVE BatchesWhole'
<1>1. exec \in [Works -> ExecStates]
  BY DEF Kept, Ledger, TypeOK
<1>2. ASSUME NEW e \in Works, Submit(e) PROVE BatchesWhole'
  <2>1. /\ exec'[e] = "ready" /\ \A f \in Works \ {e} : exec'[f] = exec[f]
        /\ \A j \in Jobs \ Members[e] : job'[j] = job[j]
        /\ \A j \in Members[e] : job'[j] = "queued"
    BY <1>1, <1>2, RuntimeAssumption DEF Submit, SetJobs
  <2>2. QED
    BY <2>1, WholeElsewhere DEF Waiting
<1>3. ASSUME NEW w \in Workers, LeaseNext(w) PROVE BatchesWhole'
  <2>1. PICK e \in Works :
          /\ exec[e] = "ready" /\ exec' = [exec EXCEPT ![e] = "leased"]
          /\ SetJobs({j \in Members[e] : job[j] \in Waiting}, "running")
    BY <1>3, LeaseTaken DEF Kept, Ledger
  <2>2. {j \in Members[e] : job[j] \in Waiting} = Members[e]
    BY <2>1 DEF BatchesWhole
  <2>3. /\ exec'[e] = "leased" /\ \A f \in Works \ {e} : exec'[f] = exec[f]
        /\ \A j \in Jobs \ Members[e] : job'[j] = job[j]
        /\ \A j \in Members[e] : job'[j] = "running"
    BY <1>1, <2>1, <2>2, RuntimeAssumption DEF SetJobs
  <2>4. QED
    BY <2>3, WholeElsewhere
<1>4. ASSUME NEW j \in Jobs, UserStep(j) PROVE BatchesWhole'
  <2>1. CASE CancelLeased(j) \/ CancelWaiting(j)
    <3>1. PICK e \in Works : SetJobs(Live(e), "cancelled") /\ FinishExec(e)
      BY <2>1 DEF CancelLeased, CancelWaiting
    <3>2. /\ exec'[e] = "finished" /\ \A f \in Works \ {e} : exec'[f] = exec[f]
          /\ \A k \in Jobs \ Members[e] : job'[k] = job[k]
      BY <1>1, <3>1 DEF SetJobs, Live, FinishExec
    <3>3. QED
      BY <3>2, WholeElsewhere
  <2>2. CASE ResolveNeedsAttention(j)
    <3>1. /\ UNCHANGED exec /\ job[j] = "needs_attention"
          /\ \A k \in Jobs : k # j => job'[k] = job[k]
      BY <2>2 DEF ResolveNeedsAttention, SetJobs
    <3>2. QED
      BY <3>1, RuntimeAssumption DEF BatchesWhole, Waiting
  <2>3. QED
    BY <1>4, <2>1, <2>2 DEF UserStep
<1>5. CASE Recover
  <2>1. ASSUME NEW e \in Works, NEW j \in Members[e]
        PROVE  /\ exec'[e] = "leased" => job'[j] = "running"
               /\ exec'[e] = "ready" => job'[j] \in Waiting
    <3>1. CASE exec[e] = "leased"
      <4>1. job[j] = "running"
        BY <3>1 DEF BatchesWhole
      <4>2. /\ exec'[e] = IF OnRecord(e) THEN "finished" ELSE "ready"
            /\ job'[j] = IF OnRecord(e) THEN "needs_attention" ELSE "retry_wait"
        BY <1>5, <3>1, <4>1, RecoverMoves
      <4>3. QED
        BY <4>2 DEF Waiting
    <3>2. CASE exec[e] # "leased"
      BY <1>5, <3>2, RecoverMoves DEF BatchesWhole
    <3>3. QED
      BY <3>1, <3>2
  <2>2. QED
    BY <2>1 DEF BatchesWhole
<1>6. CASE \/ \E w \in Workers : Click(w) \/ EmitSubmitted(w) \/ StopStale(w)
           \/ \E e \in Works : Due(e)
           \/ \E a \in Accounts : CooldownOver(a) \/ ChangeAccount(a)
           \/ Crash \/ UNCHANGED vars
  <2>1. UNCHANGED <<job, exec>>
    BY <1>6 DEF Click, EmitSubmitted, StopStale, Due, CooldownOver, ChangeAccount,
                Crash, vars, durable
  <2>2. QED
    BY <2>1 DEF BatchesWhole
<1>7. QED
  BY <1>2, <1>3, <1>4, <1>5, <1>6, WholeReport DEF Next, WorkerStep, Kept

(* So a decision is never one that some member may not follow.             *)
LEMMA NoRollback ==
  ASSUME Ledger, BatchesWhole, NEW w \in Workers, NEW c \in ErrorClasses
  PROVE  ~FailRollsBack(w, c)
<1> SUFFICES ASSUME FailRollsBack(w, c) PROVE FALSE
  OBVIOUS
<1> DEFINE e == HeldBy(w)
           d == FailDecision(w, c)
<1>1. LeaseHeld(w) /\ c \in ClassesAt(worker[w].phase) /\ ~Allowed(e, d.to)
  BY DEF FailRollsBack, Reported
<1>2. e \in Works /\ exec[e] = "leased"
  BY <1>1, HolderLeased
<1>3. d.to \in {"retry_wait", "failed", "needs_attention"}
  BY <1>1, FailDecisions
<1> HIDE DEF d
<1>4. \A j \in Members[e] : MayBecome(job[j], d.to)
  BY <1>2, <1>3 DEF BatchesWhole, MayBecome, LegalTransitions
<1>5. QED
  BY <1>1, <1>4 DEF Allowed

(* An execution whose lease and holder are left alone stays attended.      *)
LEMMA StaysAttended ==
  ASSUME NEW e \in Works, NEW w \in Workers, HeldBy(w) = e, LeaseHeld(w),
         lease'[e] = lease[e],
         worker'[w].exec = worker[w].exec, worker'[w].number = worker[w].number,
         worker'[w] # Idle
  PROVE  HeldBy(w)' = e /\ LeaseHeld(w)'
BY DEF HeldBy, LeaseHeld

LEMMA AttendedLease ==
  ASSUME Ledger, Attended, NEW w \in Workers, LeaseNext(w) PROVE Attended'
<1>1. PICK e \in Works :
        /\ exec[e] = "ready" /\ worker[w] = Idle
        /\ lease' = [lease EXCEPT ![e] = Len(attempts[e]) + 1]
        /\ worker' = [worker EXCEPT ![w] =
                       Drive(e, Len(attempts[e]) + 1, "before", seats'[e])]
  BY LeaseTaken DEF Ledger
<1>2. /\ lease'[e] = Len(attempts[e]) + 1
      /\ \A f \in Works \ {e} : lease'[f] = lease[f]
      /\ worker'[w] = Drive(e, Len(attempts[e]) + 1, "before", seats'[e])
      /\ \A v \in Workers \ {w} : worker'[v] = worker[v]
  BY <1>1 DEF Ledger, TypeOK
<1>3. worker'[w] # Idle /\ HeldBy(w)' = e /\ LeaseHeld(w)'
  BY <1>2, RuntimeAssumption DEF Drive, Idle, HeldBy, LeaseHeld
<1>4. ASSUME NEW f \in Works \ {e}, lease'[f] # 0
      PROVE  \E v \in Workers : HeldBy(v)' = f /\ LeaseHeld(v)'
  <2>1. PICK v \in Workers : HeldBy(v) = f /\ LeaseHeld(v)
    BY <1>2, <1>4 DEF Attended
  <2>2. v # w /\ worker[v] # Idle
    BY <1>1, <2>1 DEF LeaseHeld
  <2>3. QED
    BY <1>2, <1>4, <2>1, <2>2, StaysAttended
<1>5. QED
  BY <1>3, <1>4 DEF Attended

LEMMA AttendedClose ==
  ASSUME Ledger, Attended, NEW e \in Works, NEW x, NEW r, Closes(e, x, r),
         \A v \in Workers : HeldBy(v) # e => worker'[v] = worker[v]
  PROVE  Attended'
<1>1. ASSUME NEW f \in Works, lease'[f] # 0
      PROVE  \E v \in Workers : HeldBy(v)' = f /\ LeaseHeld(v)'
  <2>1. f # e /\ lease'[f] = lease[f]
    BY <1>1, CloseKeepsSubmits
  <2>2. PICK v \in Workers : HeldBy(v) = f /\ LeaseHeld(v)
    BY <1>1, <2>1 DEF Attended
  <2>3. worker'[v] = worker[v] /\ worker[v] # Idle
    BY <2>1, <2>2 DEF LeaseHeld
  <2>4. QED
    BY <2>1, <2>2, <2>3, StaysAttended
<1>2. QED
  BY <1>1 DEF Attended

LEMMA AttendedStep ==
  ASSUME Kept, BatchesWhole, Attended, [Next]_vars PROVE Attended'
<1>1. ASSUME NEW w \in Workers, Report(w) PROVE Attended'
  <2>1. PICK x, r : Closes(HeldBy(w), x, r)
    <3>1. Succeed(w) \/ (\E D \in SUBSET Jobs : Partial(w, D))
          \/ (\E c \in ErrorClasses : Fail(w, c))
      BY <1>1, NoRollback DEF Report, Kept
    <3>2. exec'[HeldBy(w)] # exec[HeldBy(w)]
      <4>1. HeldBy(w) \in Works /\ exec[HeldBy(w)] = "leased"
        BY <1>1, ReportCloses, HolderLeased DEF Kept
      <4>2. \/ exec' = [exec EXCEPT ![HeldBy(w)] = "ready"]
            \/ exec' = [exec EXCEPT ![HeldBy(w)] = "finished"]
        BY <3>1 DEF Succeed, Partial, Fail, Requeue, FinishExec
      <4>3. QED
        BY <4>1, <4>2 DEF Kept, Ledger, TypeOK
    <3>3. QED
      BY <1>1, <3>2, ReportCloses DEF Kept, durable
  <2>2. HeldBy(w) \in Works
    BY <1>1, ReportCloses, HolderLeased DEF Kept
  <2>3. \A v \in Workers : HeldBy(v) # HeldBy(w) => worker'[v] = worker[v]
    BY <1>1, ReportCloses DEF Kept, Ledger, TypeOK
  <2>4. QED
    BY <2>1, <2>2, <2>3, AttendedClose DEF Kept
<1>2. ASSUME NEW w \in Workers, Click(w) \/ EmitSubmitted(w) PROVE Attended'
  <2>1. /\ UNCHANGED lease
        /\ \A v \in Workers \ {w} : worker'[v] = worker[v]
        /\ HeldBy(w)' = HeldBy(w) /\ worker'[w].number = worker[w].number
        /\ worker'[w].phase \in Phases
    BY <1>2, DriveMarks DEF Click, EmitSubmitted, Kept, Phases
  <2>2. worker'[w] # Idle
    BY <2>1 DEF Idle, Phases
  <2>3. \A v \in Workers : LeaseHeld(v) =>
          /\ worker'[v].exec = worker[v].exec /\ worker'[v].number = worker[v].number
          /\ worker'[v] # Idle
    BY <2>1, <2>2 DEF LeaseHeld, HeldBy
  <2>4. QED
    BY <2>1, <2>3, StaysAttended DEF Attended
<1>3. ASSUME NEW w \in Workers, StopStale(w) PROVE Attended'
  <2>1. UNCHANGED lease /\ \A v \in Workers \ {w} : worker'[v] = worker[v]
    BY <1>3 DEF StopStale, Return, Kept, Ledger, TypeOK
  <2>2. ~LeaseHeld(w)
    BY <1>3 DEF StopStale
  <2>3. \A v \in Workers : LeaseHeld(v) => v # w /\ worker[v] # Idle
    BY <2>2 DEF LeaseHeld
  <2>4. QED
    BY <2>1, <2>3, StaysAttended DEF Attended
<1>4. ASSUME NEW j \in Jobs, CancelLeased(j) PROVE Attended'
  BY <1>4, CancelCloses, AttendedClose DEF Kept
<1>5. CASE Crash \/ Recover
  BY <1>5 DEF Crash, Recover, Attended, Kept, Ledger, DownHoldsNothing
<1>6. CASE \/ \E j \in Jobs : CancelWaiting(j) \/ ResolveNeedsAttention(j)
           \/ \E e \in Works : Submit(e) \/ Due(e)
           \/ \E a \in Accounts : CooldownOver(a) \/ ChangeAccount(a)
           \/ UNCHANGED vars
  <2>1. UNCHANGED <<worker, lease>>
    BY <1>6 DEF CancelWaiting, ResolveNeedsAttention, Submit, Due, CooldownOver,
                ChangeAccount, vars, durable
  <2>2. QED
    BY <2>1 DEF Attended, HeldBy, LeaseHeld
<1>7. QED
  BY <1>1, <1>2, <1>3, <1>4, <1>5, <1>6, AttendedLease
     DEF Next, WorkerStep, UserStep, Kept

(* With executors that deliver all of a batch or nothing, a seat that is   *)
(* taken always has a worker that holds its lease and will report on it:   *)
(* no exception, cancel or restart leaves a seat behind.                   *)
THEOREM SeatsAreReleased == Spec /\ AllOrNothing => []SeatReleasedOnEveryOutcome
<1>1. CASE AllOrNothing
  <2>1. Init => BatchesWhole /\ Attended
    BY DEF Init, BatchesWhole, Attended
  <2>2. /\ Ledger /\ NoStrandedJob /\ OneThreadPerExecution /\ DrivenIsStarted
        /\ PhaseKnown /\ JobsInStep /\ BatchesWhole /\ Attended /\ [Next]_vars
        => BatchesWhole' /\ Attended'
    BY <1>1, WholeStep, AttendedStep DEF Kept
  <2>3. Ledger /\ Attended => SeatReleasedOnEveryOutcome
    BY DEF Ledger, LeaseMatchesLedger, Attended, SeatReleasedOnEveryOutcome, HeldBy
  <2>4. QED
    BY <2>1, <2>2, <2>3, LedgerAlways, JobsAreNotStranded, DrivenAlways, PhaseAlways,
       InStepAlways, PTL DEF Spec
<1>2. QED
  BY <1>1

-----------------------------------------------------------------------------
(* First come, first served.                                               *)

Scheduled == {e \in Works : exec[e] # "none"}

(* The executions that were ever submitted are numbered as they came.      *)
Numbered ==
  /\ \A e \in Scheduled : seq[e] < Cardinality(Scheduled)
  /\ \A e, f \in Scheduled : e # f => seq[e] # seq[f]

(* Of what waits for a worker of a kind, the one that was submitted first  *)
(* is taken, also after retries, crashes and restarts (ready).             *)
OldestIsTaken ==
  [][\A e \in Works : exec[e] = "ready" /\ exec'[e] = "leased" =>
       /\ e \in due
       /\ \A f \in ReadyOf(KindOf[e]) \ {e} : seq[e] < seq[f]]_vars

LEMMA LessAndMore ==
  ASSUME NEW x \in Nat, NEW y \in Nat, x <= y, x # y
  PROVE  x < y
OBVIOUS

(* Only a submission numbers, or makes something of nothing.               *)
LEMMA OnlySubmitNumbers ==
  ASSUME Ledger, [Next]_vars
  PROVE  (\E e \in Works : Submit(e)) \/ (UNCHANGED seq /\ Scheduled' = Scheduled)
<1>1. exec \in [Works -> ExecStates]
  BY DEF Ledger, TypeOK
<1>2. (\E e \in Works : Submit(e)) \/ UNCHANGED seq
  <2>1. ASSUME NEW w \in Workers, LeaseNext(w) \/ WorkerStep(w) PROVE UNCHANGED seq
    BY <2>1 DEF LeaseNext, WorkerStep, Click, EmitSubmitted, Report, Succeed, Partial, Fail,
                FailRollsBack, StopStale, durable
  <2>2. ASSUME NEW j \in Jobs, UserStep(j) PROVE UNCHANGED seq
    BY <2>2 DEF UserStep, CancelLeased, CancelWaiting, ResolveNeedsAttention
  <2>3. CASE \/ \E e \in Works : Due(e)
             \/ \E a \in Accounts : CooldownOver(a) \/ ChangeAccount(a)
             \/ Crash \/ Recover \/ UNCHANGED vars
    BY <2>3 DEF Due, CooldownOver, ChangeAccount, Crash, Recover, vars, durable
  <2>4. QED
    BY <2>1, <2>2, <2>3 DEF Next
<1>3. (\E e \in Works : Submit(e)) \/ Scheduled' = Scheduled
  <2>1. ASSUME NEW w \in Workers, LeaseNext(w) PROVE Scheduled' = Scheduled
    <3>1. PICK e \in Works : exec[e] = "ready" /\ exec' = [exec EXCEPT ![e] = "leased"]
      BY <2>1, LeaseTaken DEF Ledger
    <3>2. QED
      BY <1>1, <3>1 DEF Scheduled
  <2>2. ASSUME NEW e \in Works, NEW x, NEW r, Closes(e, x, r) PROVE Scheduled' = Scheduled
    BY <1>1, <2>2 DEF Closes, Scheduled
  <2>3. ASSUME NEW j \in Jobs, CancelWaiting(j) PROVE Scheduled' = Scheduled
    <3>1. PICK e \in Works : exec[e] = "ready" /\ exec' = [exec EXCEPT ![e] = "finished"]
      BY <2>3 DEF CancelWaiting, FinishExec
    <3>2. QED
      BY <1>1, <3>1 DEF Scheduled
  <2>4. CASE Recover
    <3>1. \A e \in Works : exec'[e] = "none" <=> exec[e] = "none"
      BY <1>1, <2>4 DEF Recover
    <3>2. QED
      BY <3>1 DEF Scheduled
  <2>5. CASE \/ \E w \in Workers : Click(w) \/ EmitSubmitted(w)
             \/ Crash \/ UNCHANGED <<exec, attempts, lease, seats, pinned, up>>
    BY <2>5 DEF Click, EmitSubmitted, Crash, durable, Scheduled
  <2>6. QED
    BY <2>1, <2>2, <2>3, <2>4, <2>5, LedgerSteps
<1>4. ASSUME NEW e \in Works, Submit(e) PROVE \E f \in Works : Submit(f)
  BY <1>4
<1>5. QED
  BY <1>2, <1>3

(* A new number is above all that were given.                              *)
LEMMA NumberedStep ==
  ASSUME Ledger, Numbered, [Next]_vars
  PROVE  Numbered'
<1>1. ASSUME NEW e \in Works, Submit(e)
      PROVE  Numbered'
  <2>1. exec \in [Works -> ExecStates] /\ seq \in [Works -> Nat]
    BY DEF Ledger, TypeOK
  <2>2. /\ exec[e] = "none" /\ exec' = [exec EXCEPT ![e] = "ready"]
        /\ seq' = [seq EXCEPT ![e] = Cardinality(Scheduled)]
    BY <1>1 DEF Submit, Scheduled
  <2>3. IsFiniteSet(Scheduled)
    BY AccountAssumption, FS_Subset DEF Scheduled
  <2>4. PICK n \in Nat : n = Cardinality(Scheduled)
    BY <2>3, FS_CardinalityType
  <2>5. Scheduled' = Scheduled \cup {e} /\ e \notin Scheduled
    BY <2>1, <2>2 DEF Scheduled
  <2>6. Cardinality(Scheduled') = n + 1
    BY <2>3, <2>4, <2>5, FS_AddElement
  <2>7. seq'[e] = n /\ \A f \in Scheduled : seq'[f] = seq[f] /\ seq[f] \in Nat /\ seq[f] < n
    BY <2>1, <2>2, <2>4, <2>5 DEF Numbered, Scheduled
  <2>8. ASSUME NEW f \in Scheduled'
        PROVE  seq'[f] < n + 1 /\ \A g \in Scheduled' : f # g => seq'[f] # seq'[g]
    BY <2>5, <2>7 DEF Numbered
  <2>9. QED
    BY <2>6, <2>8 DEF Numbered
<1>2. CASE UNCHANGED seq /\ Scheduled' = Scheduled
  BY <1>2 DEF Numbered
<1>3. QED
  BY <1>1, <1>2, OnlySubmitNumbers

LEMMA NumberedAlways == Spec => []Numbered
<1>1. Init => Numbered
  BY DEF Init, Numbered, Scheduled
<1>2. QED
  BY <1>1, NumberedStep, LedgerAlways, PTL DEF Spec

(* Only a worker that asks for work takes any.                             *)
LEMMA OnlyLeaseTakes ==
  ASSUME Ledger, [Next]_vars, NEW e \in Works, exec[e] = "ready", exec'[e] = "leased"
  PROVE  \E w \in Workers : e \in Foremost(WorkerKind[w])
<1>1. exec \in [Works -> ExecStates]
  BY DEF Ledger, TypeOK
<1>2. CASE \E w \in Workers : LeaseNext(w)
  <2>1. PICK w \in Workers : LeaseNext(w)
    BY <1>2
  <2>2. PICK f \in Foremost(WorkerKind[w]) : exec' = [exec EXCEPT ![f] = "leased"]
    BY <2>1 DEF LeaseNext
  <2>3. f = e
    BY <1>1, <2>2
  <2>4. QED
    BY <2>2, <2>3
<1>3. CASE \E f \in Works : \E x, r : Closes(f, x, r)
  BY <1>1, <1>3 DEF Closes
<1>4. CASE \E j \in Jobs : CancelWaiting(j)
  BY <1>1, <1>4 DEF CancelWaiting, FinishExec
<1>5. CASE \E f \in Works : Submit(f)
  BY <1>1, <1>5 DEF Submit
<1>6. CASE Recover
  BY <1>6 DEF Recover
<1>7. CASE \/ \E w \in Workers : Click(w) \/ EmitSubmitted(w)
           \/ Crash \/ UNCHANGED <<exec, attempts, lease, seats, pinned, up>>
  BY <1>7 DEF Click, EmitSubmitted, Crash, durable
<1>8. QED
  BY <1>2, <1>3, <1>4, <1>5, <1>6, <1>7, LedgerSteps

(* The runtime serves the executions of a kind that are due in the order   *)
(* in which they were submitted, whatever was retried, cancelled or        *)
(* recovered in between (Scheduler.ready, lease_next).                     *)
THEOREM FirstComeFirstServed == Spec => OldestIsTaken
<1>1. Ledger /\ Numbered /\ [Next]_vars =>
        \A e \in Works : exec[e] = "ready" /\ exec'[e] = "leased" =>
          /\ e \in due
          /\ \A f \in ReadyOf(KindOf[e]) \ {e} : seq[e] < seq[f]
  <2> SUFFICES ASSUME Ledger, Numbered, [Next]_vars, NEW e \in Works,
                      exec[e] = "ready", exec'[e] = "leased"
               PROVE  /\ e \in due
                      /\ \A f \in ReadyOf(KindOf[e]) \ {e} : seq[e] < seq[f]
    OBVIOUS
  <2>1. PICK w \in Workers : e \in Foremost(WorkerKind[w])
    BY OnlyLeaseTakes
  <2>2. e \in due /\ KindOf[e] = WorkerKind[w] /\ \A f \in ReadyOf(KindOf[e]) : seq[e] <= seq[f]
    BY <2>1 DEF Foremost, ReadyOf
  <2>3. ASSUME NEW f \in ReadyOf(KindOf[e]), f # e
        PROVE  seq[e] < seq[f]
    <3>1. e \in Scheduled /\ f \in Scheduled /\ f \in Works
      BY DEF ReadyOf, Scheduled
    <3>2. seq[e] \in Nat /\ seq[f] \in Nat
      BY <3>1 DEF Ledger, TypeOK
    <3>3. QED
      BY <2>2, <2>3, <3>1, <3>2, LessAndMore DEF Numbered
  <2>4. QED
    BY <2>2, <2>3
<1>2. QED
  BY <1>1, NumberedAlways, LedgerAlways, PTL DEF Spec, OldestIsTaken
=============================================================================
