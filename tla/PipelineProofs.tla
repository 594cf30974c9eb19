--------------------------- MODULE PipelineProofs ---------------------------
(***************************************************************************)
(* What the command line pipeline keeps, for any list of tasks, any scopes *)
(* and modes of its runs, and whenever the process dies: what is DONE is   *)
(* the try that was accepted, and no file is lost.                         *)
(***************************************************************************)
EXTENDS Pipeline, SequenceTheorems, TLAPS

Statuses == {"PENDING", "RUNNING", "FAILED", "DONE"}

(* While one of these is where the runner is, it has a task in hand.       *)
Accepted == {"promote", "copying", "promoted"}
Working == {"render", "manual", "copied", "gate"} \cup Accepted
AllModes == [auto : BOOLEAN, gateExtract : BOOLEAN, stop : BOOLEAN, tool : BOOLEAN,
             attended : BOOLEAN]
Runners == [at : Working \cup {"idle", "next"}, task : 0 .. NumTasks, attempts : Nat,
            scope : SUBSET Tasks, mode : AllModes, file : Nat]

PipelineTypes ==
  /\ status \in [Tasks -> Statuses] /\ asset \in [Tasks -> Nat]
  /\ tries \in [Tasks -> Seq(Nat)]
  /\ inbox \subseteq [file : Nat, for : Tasks, named : BOOLEAN] /\ made \in Nat
  /\ accepted \in [Tasks -> Nat] /\ deleted \subseteq Tasks
  /\ run \in Runners

(* The task in hand is RUNNING, so what happens to its asset and to the    *)
(* try that was accepted concerns nothing that is DONE.                    *)
InHand == run.at \in Working => Task \in Tasks /\ status[Task] = "RUNNING"

(* What is promoted is what was accepted, and is there at the end.         *)
Promoting ==
  /\ run.at \in Accepted => accepted[Task] = run.file
  /\ run.at = "promoted" => asset[Task] = run.file

(* A dropped file that was copied is among the tries.                      *)
CopyIsKept == At("copied") => \E n \in DOMAIN tries[Task] : tries[Task][n] = run.file

PipelineInv == PipelineTypes /\ InHand /\ Promoting /\ CopyIsKept /\ DoneIsAccepted

-----------------------------------------------------------------------------
(* The runner's moves.                                                     *)

LEMMA RunnerMoves ==
  ASSUME run \in Runners
  PROVE  /\ Idle \in Runners /\ Task \in 0 .. NumTasks
         /\ \A p \in Working \cup {"next", "idle"} : [run EXCEPT !.at = p] \in Runners
         /\ AfterFailure(run) \in Runners
         /\ AfterFailure(run).at \in {"idle", "next"}
         /\ [run EXCEPT !.at = "render", !.attempts = @ + 1] \in Runners
         /\ \A f \in Nat : \A p \in Working : [run EXCEPT !.at = p, !.file = f] \in Runners
<1>1. NumTasks \in Nat /\ {} \in SUBSET Tasks
  BY PipelineAssumption
<1>2. Idle \in Runners
  BY <1>1 DEF Runners, Idle, NoMode, NoFile, AllModes
<1>3. \A p \in Working \cup {"next", "idle"} : [run EXCEPT !.at = p] \in Runners
  BY DEF Runners
<1>4. AfterFailure(run) \in Runners /\ AfterFailure(run).at \in {"idle", "next"}
  <2>1. Idle.at = "idle" /\ [run EXCEPT !.at = "next"].at = "next"
    BY DEF Idle, Runners
  <2>2. QED
    BY <1>2, <1>3, <2>1 DEF AfterFailure
<1>5. [run EXCEPT !.at = "render", !.attempts = @ + 1] \in Runners
  <2>1. run.attempts + 1 \in Nat
    BY DEF Runners
  <2>2. \A k \in Nat : [run EXCEPT !.at = "render", !.attempts = k] \in Runners
    BY DEF Runners, Working
  <2>3. QED
    BY <2>1, <2>2
<1>6. \A f \in Nat : \A p \in Working : [run EXCEPT !.at = p, !.file = f] \in Runners
  BY DEF Runners
<1>7. QED
  BY <1>2, <1>3, <1>4, <1>5, <1>6 DEF Runners, Task

(* A step that leaves the task in hand where it is or lets go of it.       *)
LEMMA LetsGo ==
  ASSUME PipelineInv, run' \in Runners, run'.at \in {"idle", "next"},
         status' \in [Tasks -> Statuses],
         \A t \in Tasks : status'[t] = "DONE" => status[t] = "DONE",
         UNCHANGED <<asset, tries, inbox, made, accepted, deleted>>
  PROVE  PipelineInv'
BY DEF PipelineInv, PipelineTypes, InHand, Promoting, CopyIsKept, DoneIsAccepted,
       Working, Accepted, Task, At

LEMMA Lists ==
  ASSUME PipelineInv,
         \/ End \/ PassOver \/ LacksInput \/ StartTask \/ Quit \/ Skip
         \/ \E scope \in Scopes, mode \in Modes : Begin(scope, mode)
  PROVE  PipelineInv'
<1>1. run \in Runners /\ status \in [Tasks -> Statuses] /\ Idle \in Runners
      /\ Idle.at = "idle"
  BY RunnerMoves DEF PipelineInv, PipelineTypes, Idle
<1>2. Task < NumTasks /\ Task \in 0 .. NumTasks => Upcoming \in Tasks /\ Upcoming \in 0 .. NumTasks
  BY PipelineAssumption DEF Tasks, Upcoming
<1>3. CASE End \/ Quit
  BY <1>1, <1>3, LetsGo DEF End, Quit
<1>4. CASE PassOver
  <2>1. run' = [run EXCEPT !.task = Upcoming] /\ run.at = "next" /\ Upcoming \in 0 .. NumTasks
    BY <1>1, <1>2, <1>4, RunnerMoves DEF PassOver, At
  <2>2. run' \in Runners /\ run'.at = "next"
    BY <1>1, <2>1 DEF Runners
  <2>3. QED
    BY <1>1, <1>4, <2>2, LetsGo DEF PassOver
<1>5. CASE LacksInput
  <2> DEFINE r == [run EXCEPT !.task = Upcoming]
  <2>1. Upcoming \in Tasks /\ Upcoming \in 0 .. NumTasks
    BY <1>1, <1>2, <1>5, RunnerMoves DEF LacksInput, Wanted
  <2>2. r \in Runners
    BY <1>1, <2>1 DEF Runners
  <2>3. run' = Idle \/ run' = [r EXCEPT !.at = "next"]
    BY <1>5 DEF LacksInput, AfterFailure
  <2>4. run' \in Runners /\ run'.at \in {"idle", "next"}
    BY <1>1, <2>2, <2>3 DEF Runners
  <2>5. /\ status' \in [Tasks -> Statuses]
        /\ \A t \in Tasks : status'[t] = "DONE" => status[t] = "DONE"
    BY <1>1, <1>5 DEF LacksInput, Statuses
  <2>6. QED
    BY <1>5, <2>4, <2>5, LetsGo DEF LacksInput
<1>6. CASE StartTask
  <2>1. Upcoming \in Tasks /\ Upcoming \in 0 .. NumTasks
    BY <1>1, <1>2, <1>6, RunnerMoves DEF StartTask, Wanted
  <2>2. run' = [run EXCEPT !.at = "render", !.task = Upcoming, !.attempts = 1]
    BY <1>6 DEF StartTask
  <2>3. run' \in Runners /\ run'.at = "render" /\ run'.task = Upcoming
    BY <1>1, <2>1, <2>2 DEF Runners, Working
  <2>4. /\ status' \in [Tasks -> Statuses] /\ status'[Upcoming] = "RUNNING"
        /\ \A t \in Tasks : status'[t] = "DONE" => status[t] = "DONE"
    BY <1>1, <1>6, <2>1 DEF StartTask, Statuses
  <2>5. UNCHANGED <<asset, tries, inbox, made, accepted, deleted>>
    BY <1>6 DEF StartTask
  <2>6. QED
    BY <2>1, <2>3, <2>4, <2>5
       DEF PipelineInv, PipelineTypes, InHand, Promoting, CopyIsKept, DoneIsAccepted,
           Accepted, Task, At
<1>7. CASE Skip
  <2>1. run' = AfterFailure(run) /\ status' = [status EXCEPT ![Task] = "FAILED"]
    BY <1>7 DEF Skip, Put
  <2>2. run' \in Runners /\ run'.at \in {"idle", "next"}
    BY <1>1, <2>1, RunnerMoves
  <2>3. /\ status' \in [Tasks -> Statuses]
        /\ \A t \in Tasks : status'[t] = "DONE" => status[t] = "DONE"
    BY <1>1, <2>1 DEF Statuses
  <2>4. QED
    BY <1>7, <2>2, <2>3, LetsGo DEF Skip
<1>8. ASSUME NEW scope \in Scopes, NEW mode \in Modes, Begin(scope, mode)
      PROVE  PipelineInv'
  <2>1. run' = [Idle EXCEPT !.at = "next", !.scope = scope, !.mode = mode]
    BY <1>8 DEF Begin
  <2>2. scope \in SUBSET Tasks /\ mode \in AllModes
    BY PipelineAssumption DEF AllModes
  <2>3. run' \in Runners /\ run'.at = "next"
    BY <1>1, <2>1, <2>2 DEF Runners
  <2>4. QED
    BY <1>1, <1>8, <2>3, LetsGo DEF Begin
<1>9. QED
  BY <1>3, <1>4, <1>5, <1>6, <1>7, <1>8

-----------------------------------------------------------------------------
(* One attempt.                                                            *)

(* A file becomes a try of the task in hand.                               *)
LEMMA KeepOne ==
  ASSUME PipelineInv, Task \in Tasks, NEW f \in Nat, Keep(f)
  PROVE  /\ tries' \in [Tasks -> Seq(Nat)]
         /\ tries'[Task] = Append(tries[Task], f)
         /\ \A t \in Tasks \ {Task} : tries'[t] = tries[t]
         /\ \E n \in DOMAIN tries'[Task] : tries'[Task][n] = f
<1>1. tries \in [Tasks -> Seq(Nat)]
  BY DEF PipelineInv, PipelineTypes
<1>2. tries' = [tries EXCEPT ![Task] = Append(tries[Task], f)]
  BY DEF Keep, WithTry
<1>3. tries[Task] \in Seq(Nat)
  BY <1>1
<1>4. /\ Append(tries[Task], f) \in Seq(Nat)
      /\ Len(tries[Task]) + 1 \in DOMAIN Append(tries[Task], f)
      /\ Append(tries[Task], f)[Len(tries[Task]) + 1] = f
  BY <1>3, AppendProperties
<1>5. QED
  BY <1>1, <1>2, <1>4

(* The task stays in hand and is not yet promoted.                         *)
LEMMA StaysInHand ==
  ASSUME PipelineInv, run.at \in Working, run' \in Runners, run'.task = Task,
         run'.at \in Working \ Accepted,
         tries' \in [Tasks -> Seq(Nat)], made' \in Nat,
         run'.at = "copied" => \E n \in DOMAIN tries'[Task] : tries'[Task][n] = run'.file,
         UNCHANGED <<status, asset, inbox, accepted, deleted>>
  PROVE  PipelineInv'
BY DEF PipelineInv, PipelineTypes, InHand, Promoting, CopyIsKept, DoneIsAccepted,
       Accepted, Task, At

(* A file is accepted at once or judged by a person.                       *)
LEMMA Judging ==
  ASSUME PipelineInv, run.at \in Working, NEW f \in Nat, Judge(f),
         tries' \in [Tasks -> Seq(Nat)], made' \in Nat,
         inbox' \subseteq [file : Nat, for : Tasks, named : BOOLEAN],
         UNCHANGED <<status, asset, deleted>>
  PROVE  PipelineInv'
<1>1. run \in Runners /\ Task \in Tasks /\ status[Task] = "RUNNING"
      /\ accepted \in [Tasks -> Nat]
  BY DEF PipelineInv, PipelineTypes, InHand
<1>2. /\ run' \in Runners /\ run'.at \in {"gate", "promote"}
      /\ run'.task = Task /\ run'.file = f
  <2>1. \/ run' = [run EXCEPT !.at = "gate", !.file = f]
        \/ run' = [run EXCEPT !.at = "promote", !.file = f]
    BY DEF Judge
  <2>2. QED
    BY <1>1, <2>1 DEF Runners, Working, Accepted, Task
<1>3. /\ accepted' \in [Tasks -> Nat]
      /\ \A t \in Tasks \ {Task} : accepted'[t] = accepted[t]
      /\ run'.at = "promote" => accepted'[Task] = f
  <2>1. CASE NeedsGate
    <3>1. run' = [run EXCEPT !.at = "gate", !.file = f] /\ UNCHANGED accepted
      BY <2>1 DEF Judge
    <3>2. run'.at = "gate"
      BY <1>1, <3>1 DEF Runners
    <3>3. QED
      BY <1>1, <3>1, <3>2
  <2>2. CASE ~NeedsGate
    BY <1>1, <2>2 DEF Judge
  <2>3. QED
    BY <2>1, <2>2
<1>4. QED
  BY <1>1, <1>2, <1>3
     DEF PipelineInv, PipelineTypes, InHand, Promoting, CopyIsKept, DoneIsAccepted,
         Working, Accepted, Task, At

LEMMA TriesAgain ==
  ASSUME PipelineInv, run.at \in Working \ Accepted, TryAgainOrFail,
         UNCHANGED <<asset, tries, inbox, made, accepted, deleted>>
  PROVE  PipelineInv'
<1>1. run \in Runners /\ Task \in Tasks /\ status \in [Tasks -> Statuses]
      /\ tries \in [Tasks -> Seq(Nat)] /\ made \in Nat
  BY DEF PipelineInv, PipelineTypes, InHand
<1>2. CASE run.attempts < MaxRetry
  <2>1. run' = [run EXCEPT !.at = "render", !.attempts = @ + 1] /\ UNCHANGED status
    BY <1>2 DEF TryAgainOrFail
  <2>2. run' \in Runners /\ run'.at = "render" /\ run'.task = Task
    BY <1>1, <2>1, RunnerMoves DEF Runners, Task
  <2>3. QED
    BY <1>1, <2>1, <2>2, StaysInHand DEF Working, Accepted
<1>3. CASE ~(run.attempts < MaxRetry)
  <2>1. run' = AfterFailure(run) /\ status' = [status EXCEPT ![Task] = "FAILED"]
    BY <1>3 DEF TryAgainOrFail, Put
  <2>2. run' \in Runners /\ run'.at \in {"idle", "next"}
    BY <1>1, <2>1, RunnerMoves
  <2>3. /\ status' \in [Tasks -> Statuses]
        /\ \A t \in Tasks : status'[t] = "DONE" => status[t] = "DONE"
    BY <1>1, <2>1 DEF Statuses
  <2>4. QED
    BY <2>2, <2>3, LetsGo
<1>4. QED
  BY <1>2, <1>3

LEMMA ToManual ==
  ASSUME PipelineInv, At("render"), GoTo("manual"),
         tries' \in [Tasks -> Seq(Nat)], made' \in Nat,
         UNCHANGED <<status, asset, inbox, accepted, deleted>>
  PROVE  PipelineInv'
<1>1. run \in Runners
  BY DEF PipelineInv, PipelineTypes
<1>2. run' = [run EXCEPT !.at = "manual"]
  BY DEF GoTo
<1>3. run' \in Runners /\ run'.at = "manual" /\ run'.task = Task
  BY <1>1, <1>2 DEF Runners, Working, Task
<1>4. QED
  BY <1>3, StaysInHand DEF At, Working, Accepted

LEMMA Attempt ==
  ASSUME PipelineInv,
         Rendered \/ RenderFails \/ RenderUnreadable \/ ByHand \/ TakeDropped
         \/ RemoveDropped \/ Reject
  PROVE  PipelineInv'
<1>1. /\ run \in Runners /\ tries \in [Tasks -> Seq(Nat)] /\ made \in Nat
      /\ inbox \subseteq [file : Nat, for : Tasks, named : BOOLEAN]
      /\ run.at \in Working => Task \in Tasks
  BY DEF PipelineInv, PipelineTypes, InHand
<1>2. CASE Rendered
  <2>1. run.at \in Working /\ Task \in Tasks /\ made + 1 \in Nat
    BY <1>1, <1>2 DEF Rendered, At, Working
  <2>2. tries' \in [Tasks -> Seq(Nat)]
    BY <1>2, <2>1, KeepOne DEF Rendered
  <2>3. QED
    BY <1>1, <1>2, <2>1, <2>2, Judging DEF Rendered
<1>3. CASE RenderFails
  <2>1. run.at \in Working \ Accepted
    BY <1>3 DEF RenderFails, At, Working, Accepted
  <2>2. CASE TypeOf[Task] = "video"
    BY <1>1, <1>3, <2>2, ToManual DEF RenderFails
  <2>3. CASE TypeOf[Task] # "video"
    BY <1>3, <2>1, <2>3, TriesAgain DEF RenderFails
  <2>4. QED
    BY <2>2, <2>3
<1>4. CASE RenderUnreadable
  <2>1. run.at \in Working /\ Task \in Tasks /\ made + 1 \in Nat
    BY <1>1, <1>4 DEF RenderUnreadable, At, Working
  <2>2. tries' \in [Tasks -> Seq(Nat)]
    BY <1>4, <2>1, KeepOne DEF RenderUnreadable
  <2>3. QED
    BY <1>4, <2>1, <2>2, ToManual DEF RenderUnreadable
<1>5. CASE ByHand
  BY <1>1, <1>5, ToManual DEF ByHand
<1>6. CASE TakeDropped
  <2>1. PICK d \in inbox : Keep(d.file) /\ run' = [run EXCEPT !.at = "copied", !.file = d.file]
    BY <1>6 DEF TakeDropped, Found, NamedFor, OfKind
  <2>2. run.at \in Working /\ Task \in Tasks /\ d.file \in Nat
    BY <1>1, <1>6, <2>1 DEF TakeDropped, At, Working
  <2>3. /\ run' \in Runners /\ run'.at = "copied" /\ run'.task = Task
        /\ run'.file = d.file
    BY <1>1, <2>1, <2>2 DEF Runners, Working, Task
  <2>4. /\ tries' \in [Tasks -> Seq(Nat)]
        /\ \E n \in DOMAIN tries'[Task] : tries'[Task][n] = d.file
    BY <2>1, <2>2, KeepOne
  <2>5. UNCHANGED <<status, asset, inbox, made, accepted, deleted>>
    BY <1>6 DEF TakeDropped
  <2>6. QED
    BY <1>1, <2>2, <2>3, <2>4, <2>5, StaysInHand DEF Working, Accepted
<1>7. CASE RemoveDropped
  <2>1. run.at \in Working /\ run.file \in Nat
    BY <1>1, <1>7 DEF RemoveDropped, At, Working, Runners
  <2>2. inbox' \subseteq inbox
    BY <1>7 DEF RemoveDropped
  <2>3. QED
    BY <1>1, <1>7, <2>1, <2>2, Judging DEF RemoveDropped
<1>8. CASE Reject
  BY <1>8, TriesAgain DEF Reject, At, Working, Accepted
<1>9. QED
  BY <1>2, <1>3, <1>4, <1>5, <1>6, <1>7, <1>8

-----------------------------------------------------------------------------
(* The end of a task, and the world around.                                *)

LEMMA Ends ==
  ASSUME PipelineInv, Approve \/ RemoveOld \/ CopyTry \/ MarkDone
  PROVE  PipelineInv'
<1>1. /\ run \in Runners /\ status \in [Tasks -> Statuses] /\ asset \in [Tasks -> Nat]
      /\ accepted \in [Tasks -> Nat] /\ run.file \in Nat
      /\ run.at \in Working => Task \in Tasks /\ status[Task] = "RUNNING"
  BY DEF PipelineInv, PipelineTypes, InHand, Runners
<1>2. ASSUME NEW p \in Working \cup {"next"}, GoTo(p)
      PROVE  run' \in Runners /\ run'.at = p /\ run'.task = Task /\ run'.file = run.file
  BY <1>1, <1>2 DEF GoTo, Runners, Task
<1>3. CASE Approve
  <2>1. run' \in Runners /\ run'.at = "promote" /\ run'.task = Task /\ run'.file = run.file
    BY <1>2, <1>3 DEF Approve, Working, Accepted
  <2>2. /\ accepted' \in [Tasks -> Nat] /\ Task \in Tasks /\ accepted'[Task] = run.file
        /\ \A t \in Tasks \ {Task} : accepted'[t] = accepted[t]
    BY <1>1, <1>3 DEF Approve, At, Working
  <2>3. UNCHANGED <<status, asset, tries, inbox, made, deleted>> /\ run.at = "gate"
    BY <1>3 DEF Approve, At
  <2>4. QED
    BY <2>1, <2>2, <2>3
       DEF PipelineInv, PipelineTypes, InHand, Promoting, CopyIsKept, DoneIsAccepted,
           Working, Accepted, Task, At
<1>4. CASE RemoveOld
  <2>1. run' \in Runners /\ run'.at = "copying" /\ run'.task = Task /\ run'.file = run.file
    BY <1>2, <1>4 DEF RemoveOld, Working, Accepted
  <2>2. /\ asset' \in [Tasks -> Nat] /\ Task \in Tasks
        /\ \A t \in Tasks \ {Task} : asset'[t] = asset[t]
        /\ deleted' = deleted \ {Task}
    BY <1>1, <1>4 DEF RemoveOld, At, Working, Accepted, NoFile
  <2>3. UNCHANGED <<status, tries, inbox, made, accepted>> /\ run.at = "promote"
    BY <1>4 DEF RemoveOld, At, MarkNothing
  <2>4. QED
    BY <2>1, <2>2, <2>3
       DEF PipelineInv, PipelineTypes, InHand, Promoting, CopyIsKept, DoneIsAccepted,
           Working, Accepted, Task, At
<1>5. CASE CopyTry
  <2>1. run' \in Runners /\ run'.at = "promoted" /\ run'.task = Task /\ run'.file = run.file
    BY <1>2, <1>5 DEF CopyTry, Working, Accepted
  <2>2. /\ asset' \in [Tasks -> Nat] /\ Task \in Tasks /\ asset'[Task] = run.file
        /\ \A t \in Tasks \ {Task} : asset'[t] = asset[t]
    BY <1>1, <1>5 DEF CopyTry, At, Working, Accepted
  <2>3. UNCHANGED <<status, tries, inbox, made, accepted, deleted>> /\ run.at = "copying"
    BY <1>5 DEF CopyTry, At
  <2>4. QED
    BY <2>1, <2>2, <2>3
       DEF PipelineInv, PipelineTypes, InHand, Promoting, CopyIsKept, DoneIsAccepted,
           Working, Accepted, Task, At
<1>6. CASE MarkDone
  <2>1. run' \in Runners /\ run'.at = "next"
    BY <1>2, <1>6 DEF MarkDone
  <2>2. /\ status' \in [Tasks -> Statuses]
        /\ \A t \in Tasks \ {Task} : status'[t] = status[t]
    BY <1>1, <1>6 DEF MarkDone, Put, Statuses
  <2>3. asset[Task] = accepted[Task]
    BY <1>6 DEF PipelineInv, Promoting, MarkDone, At, Accepted
  <2>4. UNCHANGED <<asset, tries, inbox, made, accepted, deleted>>
    BY <1>6 DEF MarkDone
  <2>5. QED
    BY <2>1, <2>2, <2>3, <2>4
       DEF PipelineInv, PipelineTypes, InHand, Promoting, CopyIsKept, DoneIsAccepted,
           Working, Accepted, At
<1>7. QED
  BY <1>3, <1>4, <1>5, <1>6

LEMMA Around ==
  ASSUME PipelineInv,
         \/ Die
         \/ \E t \in Tasks, named \in BOOLEAN : Drop(t, named)
         \/ \E S \in SUBSET Tasks : Reset(S)
         \/ \E t \in Tasks : DeleteAsset(t)
  PROVE  PipelineInv'
<1>1. /\ run \in Runners /\ status \in [Tasks -> Statuses] /\ asset \in [Tasks -> Nat]
      /\ deleted \subseteq Tasks /\ made \in Nat
      /\ inbox \subseteq [file : Nat, for : Tasks, named : BOOLEAN]
      /\ run.at \in Working => Task \in Tasks /\ status[Task] = "RUNNING"
  BY DEF PipelineInv, PipelineTypes, InHand
<1>2. CASE Die
  <2>1. run' \in Runners /\ run'.at = "idle"
    BY <1>1, <1>2, RunnerMoves DEF Die, Idle
  <2>2. UNCHANGED <<status, tries, inbox, made, accepted, deleted>>
    BY <1>2 DEF Die
  <2>3. /\ asset' \in [Tasks -> Nat]
        /\ \A t \in Tasks : status[t] = "DONE" => asset'[t] = asset[t]
    <3>1. CASE At("copying")
      <4>1. PICK f \in {NoFile, Torn} : asset' = [asset EXCEPT ![Task] = f]
        BY <1>2, <3>1 DEF Die
      <4>2. f \in Nat
        BY PipelineAssumption DEF NoFile, Torn
      <4>3. QED
        BY <1>1, <3>1, <4>1, <4>2 DEF At, Working, Accepted
    <3>2. CASE ~At("copying")
      BY <1>1, <1>2, <3>2 DEF Die
    <3>3. QED
      BY <3>1, <3>2
  <2>4. QED
    BY <2>1, <2>2, <2>3
       DEF PipelineInv, PipelineTypes, InHand, Promoting, CopyIsKept, DoneIsAccepted,
           Working, Accepted, At
<1>3. ASSUME NEW t \in Tasks, NEW named \in BOOLEAN, Drop(t, named)
      PROVE  PipelineInv'
  <2>1. /\ inbox' \subseteq [file : Nat, for : Tasks, named : BOOLEAN]
        /\ made' \in Nat
    BY <1>1, <1>3 DEF Drop
  <2>2. UNCHANGED <<status, asset, tries, run, accepted, deleted>>
    BY <1>3 DEF Drop
  <2>3. QED
    BY <2>1, <2>2
       DEF PipelineInv, PipelineTypes, InHand, Promoting, CopyIsKept, DoneIsAccepted,
           Task, At
<1>4. ASSUME NEW S \in SUBSET Tasks, Reset(S) PROVE PipelineInv'
  <2>1. /\ status' \in [Tasks -> Statuses]
        /\ \A t \in Tasks : status'[t] = "DONE" => status[t] = "DONE"
    BY <1>1, <1>4 DEF Reset, Statuses
  <2>2. QED
    BY <1>1, <1>4, <2>1, LetsGo DEF Reset, At
<1>5. ASSUME NEW t \in Tasks, DeleteAsset(t) PROVE PipelineInv'
  <2>1. /\ asset' \in [Tasks -> Nat] /\ deleted' \subseteq Tasks
        /\ \A u \in Tasks : asset'[u] = asset[u] \/ u \in deleted'
        /\ deleted \subseteq deleted'
    BY <1>1, <1>5 DEF DeleteAsset, NoFile
  <2>2. UNCHANGED <<status, tries, inbox, made, run, accepted>> /\ run.at = "idle"
    BY <1>5 DEF DeleteAsset, At
  <2>3. QED
    BY <2>1, <2>2
       DEF PipelineInv, PipelineTypes, InHand, Promoting, CopyIsKept, DoneIsAccepted,
           Working, Accepted, Task, At
<1>6. QED
  BY <1>2, <1>3, <1>4, <1>5

LEMMA PipelineInit == Init => PipelineInv
<1> SUFFICES ASSUME Init PROVE PipelineInv
  OBVIOUS
<1>1. Idle \in Runners /\ Idle.at = "idle"
  BY PipelineAssumption DEF Runners, Idle, NoMode, NoFile, AllModes
<1>2. QED
  BY <1>1 DEF Init, PipelineInv, PipelineTypes, InHand, Promoting, CopyIsKept,
              DoneIsAccepted, Statuses, NoFile, Working, Accepted, At

LEMMA PipelineStep == ASSUME PipelineInv, [Next]_vars PROVE PipelineInv'
<1>1. CASE UNCHANGED vars
  BY <1>1 DEF vars, PipelineInv, PipelineTypes, InHand, Promoting, CopyIsKept,
              DoneIsAccepted, Task, At
<1>2. QED
  BY <1>1, Lists, Attempt, Ends, Around DEF Next, Runner, Person

LEMMA PipelineAlways == Spec => []PipelineInv
BY PipelineInit, PipelineStep, PTL DEF Spec

(* Whenever the process dies, whatever is tried again, reset or deleted:   *)
(* what is called DONE is the try that was accepted last, or was deleted   *)
(* by hand.                                                                *)
THEOREM DoneIsTheAcceptedTry == Spec => []DoneIsAccepted
<1>1. PipelineInv => DoneIsAccepted
  BY DEF PipelineInv
<1>2. QED
  BY <1>1, PipelineAlways, PTL

-----------------------------------------------------------------------------
(* No file is lost.                                                        *)

LEMMA AppendKeeps ==
  ASSUME NEW S, NEW s \in Seq(S), NEW x \in S PROVE IsPrefix(s, Append(s, x))
<1> DEFINE t == Append(s, x)
           n == Len(s)
<1>1. t \in Seq(S) /\ Len(t) = n + 1 /\ n \in Nat /\ \A i \in 1 .. n : t[i] = s[i]
  BY AppendProperties
<1>2. SubSeq(s, 1, n) = s
  BY SubSeqFull
<1>3. \A i \in 1 .. n : t[i] \in S
  BY <1>1
<1>4. /\ SubSeq(t, 1, n) \in Seq(S) /\ Len(SubSeq(t, 1, n)) = n
      /\ \A i \in 1 .. n : SubSeq(t, 1, n)[i] = t[i]
  <2>1. 1 \in Int /\ n \in Int
    BY <1>1
  <2> HIDE DEF t, n
  <2>2. /\ SubSeq(t, 1, n) \in Seq(S)
        /\ Len(SubSeq(t, 1, n)) = IF 1 <= n THEN n - 1 + 1 ELSE 0
        /\ \A i \in 1 .. n - 1 + 1 : SubSeq(t, 1, n)[i] = t[1 + i - 1]
    BY <1>3, <2>1, SubSeqProperties
  <2>3. n \in Nat
    BY <1>1
  <2>4. /\ Len(SubSeq(t, 1, n)) = n
        /\ \A i \in 1 .. n : SubSeq(t, 1, n)[i] = t[i]
    BY <2>2, <2>3
  <2>5. QED
    BY <2>2, <2>4
<1>5. SubSeq(t, 1, n) = s
  BY <1>1, <1>4, SeqEqual
<1>6. QED
  BY <1>1, <1>2, <1>5 DEF IsPrefix

LEMMA SamePrefix == ASSUME NEW S, NEW s \in Seq(S) PROVE IsPrefix(s, s)
BY LenProperties DEF IsPrefix

(* Files are only made; a dropped one is removed when it is among the      *)
(* tries.                                                                  *)
LEMMA FileSteps ==
  ASSUME PipelineInv, [Next]_vars
  PROVE  \/ inbox \subseteq inbox' /\ UNCHANGED tries
         \/ inbox' = inbox /\ Task \in Tasks /\ \E f \in Nat : Keep(f)
         \/ RemoveDropped
<1>1. /\ run.at \in Working => Task \in Tasks
      /\ inbox \subseteq [file : Nat, for : Tasks, named : BOOLEAN] /\ made + 1 \in Nat
  BY DEF PipelineInv, PipelineTypes, InHand
<1>2. CASE Rendered \/ RenderUnreadable
  BY <1>1, <1>2 DEF Rendered, RenderUnreadable, At, Working
<1>3. CASE TakeDropped
  <2>1. PICK d \in inbox : Keep(d.file)
    BY <1>3 DEF TakeDropped, Found, NamedFor, OfKind
  <2>2. Task \in Tasks /\ inbox' = inbox /\ d.file \in Nat
    BY <1>1, <1>3, <2>1 DEF TakeDropped, At, Working
  <2>3. QED
    BY <2>1, <2>2
<1>4. CASE \/ End \/ PassOver \/ LacksInput \/ StartTask \/ RenderFails \/ ByHand
           \/ Quit \/ RemoveOld \/ CopyTry \/ MarkDone \/ Skip \/ Approve \/ Reject
           \/ Die \/ UNCHANGED vars
  BY <1>4 DEF End, PassOver, LacksInput, StartTask, RenderFails, ByHand, Quit, RemoveOld,
              CopyTry, MarkDone, Skip, Approve, Reject, Die, vars
<1>5. CASE \/ \E scope \in Scopes, mode \in Modes : Begin(scope, mode)
           \/ \E t \in Tasks, named \in BOOLEAN : Drop(t, named)
           \/ \E S \in SUBSET Tasks : Reset(S)
           \/ \E t \in Tasks : DeleteAsset(t)
  BY <1>5 DEF Begin, Drop, Reset, DeleteAsset
<1>6. QED
  BY <1>2, <1>3, <1>4, <1>5 DEF Next, Runner, Person

(* No try is overwritten, in whatever run, and a dropped file leaves the   *)
(* inbox only when it has been copied.                                     *)
THEOREM FilesAreKept == Spec => FilesKept
<1>1. PipelineInv /\ [Next]_vars =>
        [/\ \A t \in Tasks : IsPrefix(tries[t], tries'[t])
         /\ \A d \in inbox \ inbox' :
              \E t \in Tasks : \E n \in DOMAIN tries'[t] : tries'[t][n] = d.file]_vars
  <2> SUFFICES ASSUME PipelineInv, [Next]_vars
               PROVE  /\ \A t \in Tasks : IsPrefix(tries[t], tries'[t])
                      /\ \A d \in inbox \ inbox' : \E t \in Tasks :
                           \E n \in DOMAIN tries'[t] : tries'[t][n] = d.file
    OBVIOUS
  <2>1. tries \in [Tasks -> Seq(Nat)]
    BY DEF PipelineInv, PipelineTypes
  <2>2. CASE UNCHANGED tries /\ inbox \subseteq inbox'
    BY <2>1, <2>2, SamePrefix
  <2>3. ASSUME inbox' = inbox, Task \in Tasks, NEW f \in Nat, Keep(f)
        PROVE  /\ \A t \in Tasks : IsPrefix(tries[t], tries'[t])
               /\ inbox \ inbox' = {}
    <3>1. /\ tries'[Task] = Append(tries[Task], f)
          /\ \A t \in Tasks \ {Task} : tries'[t] = tries[t]
      BY <2>3, KeepOne
    <3>2. IsPrefix(tries[Task], tries'[Task])
      BY <2>1, <2>3, <3>1, AppendKeeps
    <3>3. \A t \in Tasks \ {Task} : IsPrefix(tries[t], tries'[t])
      BY <2>1, <3>1, SamePrefix
    <3>4. QED
      BY <2>3, <3>2, <3>3
  <2>4. CASE RemoveDropped
    <3>1. UNCHANGED tries /\ \A d \in inbox \ inbox' : d.file = run.file
      BY <2>4 DEF RemoveDropped
    <3>2. Task \in Tasks /\ \E n \in DOMAIN tries[Task] : tries[Task][n] = run.file
      BY <2>4 DEF PipelineInv, InHand, CopyIsKept, RemoveDropped, At, Working
    <3>3. QED
      BY <2>1, <3>1, <3>2, SamePrefix
  <2>5. QED
    BY <2>2, <2>3, <2>4, FileSteps
<1>2. QED
  BY <1>1, PipelineAlways, PTL DEF Spec, FilesKept
=============================================================================
