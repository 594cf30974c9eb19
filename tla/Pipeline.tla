------------------------------ MODULE Pipeline ------------------------------
(***************************************************************************)
(* The command line pipeline (package grokpipe): a list of tasks that make *)
(* pictures, videos and frames out of each other, run one after the other  *)
(* and resumed by running it again (runner.py, state.py, cli.py).          *)
(*                                                                         *)
(* A run takes its tasks in their order.  What is DONE and has its file is *)
(* skipped; a task without its inputs fails; any other is RUNNING until it *)
(* is rendered, accepted and promoted, or has failed.  Every rendered file *)
(* is a try of its own; the accepted try is copied over the asset, which   *)
(* is removed first.  Between two statements the process may die.  A       *)
(* person, when there is one, drops files into the inbox, judges tries,    *)
(* skips and quits; without one every question ends the run.  Between runs *)
(* tasks are reset and assets deleted by hand.                             *)
(*                                                                         *)
(* A file is a number.  --from and --only are the set of tasks in scope.   *)
(***************************************************************************)
EXTENDS Naturals, Sequences, SequencesExt

CONSTANTS NumTasks,
          TypeOf,      \* task -> "image", "video" or "extract"
          InputsOf,    \* task -> the tasks whose outputs it needs
          MaxRetry,
          Scopes,      \* what --from and --only leave in scope
          Modes,       \* how runs are started: --auto, --gate-extract,
                       \* --stop-on-fail, whether there is a browser to drive
                       \* and a person to ask
          MaxFiles,    \* bound on the files ever made
          MaxDrops,    \* bound on the files dropped by hand
          MaxRuns,     \* bound on the runs of the pipeline
          MaxCrashes,  \* bound on the runs that die
          MaxByHand    \* bound on resets and deletions

Tasks == 1 .. NumTasks

(* _validate_refs: what a task needs is made by a task before it.          *)
InOrder == \A t \in Tasks : \A i \in InputsOf[t] : i < t

ASSUME PipelineAssumption ==
  /\ NumTasks \in Nat /\ TypeOf \in [Tasks -> {"image", "video", "extract"}]
  /\ InputsOf \in [Tasks -> SUBSET Tasks]
  /\ InOrder
  /\ Scopes \subseteq SUBSET Tasks
  /\ Modes \subseteq [auto : BOOLEAN, gateExtract : BOOLEAN, stop : BOOLEAN,
                     tool : BOOLEAN, attended : BOOLEAN]
  /\ MaxRetry \in Nat \ {0} /\ MaxFiles \in Nat /\ MaxDrops \in Nat
  /\ MaxRuns \in Nat /\ MaxCrashes \in Nat /\ MaxByHand \in Nat

VARIABLES status,    \* state.json: task -> status
          asset,     \* task -> the file under its output's name
          tries,     \* task -> the files under tries/, by number
          inbox,     \* the dropped files; a newer one has a higher number
          made,      \* how many files there are
          run,       \* the runner
          accepted,  \* history: task -> the try that was accepted last
          deleted,   \* history: assets deleted by hand
          drops, runs, crashes, byHand

counters == <<drops, runs, crashes, byHand>>
vars == <<status, asset, tries, inbox, made, run, accepted, deleted, counters>>

NoFile == 0
Torn == MaxFiles + 1
NoMode == [auto |-> FALSE, gateExtract |-> FALSE, stop |-> FALSE, tool |-> FALSE,
           attended |-> FALSE]
Idle == [at |-> "idle", task |-> 0, attempts |-> 0, scope |-> {}, mode |-> NoMode,
         file |-> NoFile]

Init ==
  /\ status = [t \in Tasks |-> "PENDING"] /\ asset = [t \in Tasks |-> NoFile]
  /\ tries = [t \in Tasks |-> <<>>] /\ inbox = {} /\ made = 0
  /\ run = Idle
  /\ accepted = [t \in Tasks |-> NoFile] /\ deleted = {}
  /\ drops = 0 /\ runs = 0 /\ crashes = 0 /\ byHand = 0

-----------------------------------------------------------------------------
(* Going through the list.                                                 *)

Task == run.task
At(place) == run.at = place
GoTo(place) == run' = [run EXCEPT !.at = place]
Put(s) == status' = [status EXCEPT ![Task] = s]

AssetExists(t) == asset[t] # NoFile

Begin(scope, mode) ==
  /\ At("idle") /\ runs < MaxRuns /\ runs' = runs + 1
  /\ run' = [Idle EXCEPT !.at = "next", !.scope = scope, !.mode = mode]
  /\ UNCHANGED <<status, asset, tries, inbox, made, accepted, deleted, drops,
                 crashes, byHand>>

Upcoming == Task + 1
IsDone(t) == status[t] = "DONE" /\ AssetExists(t)
Missing(t) == {i \in InputsOf[t] : ~AssetExists(i)}

End ==
  /\ At("next") /\ Task = NumTasks /\ run' = Idle
  /\ UNCHANGED <<status, asset, tries, inbox, made, accepted, deleted, counters>>

PassOver ==
  /\ At("next") /\ Task < NumTasks
  /\ Upcoming \notin run.scope \/ IsDone(Upcoming)
  /\ run' = [run EXCEPT !.task = Upcoming]
  /\ UNCHANGED <<status, asset, tries, inbox, made, accepted, deleted, counters>>

Wanted == /\ At("next") /\ Task < NumTasks
          /\ Upcoming \in run.scope /\ ~IsDone(Upcoming)

(* A failed task ends the run only under --stop-on-fail.                   *)
AfterFailure(r) == IF r.mode.stop THEN Idle ELSE [r EXCEPT !.at = "next"]

LacksInput ==
  /\ Wanted /\ Missing(Upcoming) # {}
  /\ status' = [status EXCEPT ![Upcoming] = "FAILED"]
  /\ run' = AfterFailure([run EXCEPT !.task = Upcoming])
  /\ UNCHANGED <<asset, tries, inbox, made, accepted, deleted, counters>>

StartTask ==
  /\ Wanted /\ Missing(Upcoming) = {}
  /\ status' = [status EXCEPT ![Upcoming] = "RUNNING"]
  /\ run' = [run EXCEPT !.at = "render", !.task = Upcoming, !.attempts = 1]
  /\ UNCHANGED <<asset, tries, inbox, made, accepted, deleted, counters>>

-----------------------------------------------------------------------------
(* One attempt.                                                            *)

(* A plausible mistake: tries are numbered by the attempt, which begins    *)
(* anew in every run.                                                      *)
ByAttempt(t, file) ==
  IF run.attempts <= Len(tries[t]) THEN [tries[t] EXCEPT ![run.attempts] = file]
  ELSE Append(tries[t], file)

(* next_try_path: the first number without a file.                         *)
WithTry(t, file) == Append(tries[t], file)

Keep(file) == tries' = [tries EXCEPT ![Task] = WithTry(Task, file)]

NeedsGate ==
  ~run.mode.auto /\ (TypeOf[Task] = "extract" => run.mode.gateExtract)

(* What is not to be judged by a person is accepted as it is.              *)
Judge(file) ==
  IF NeedsGate
  THEN run' = [run EXCEPT !.at = "gate", !.file = file] /\ UNCHANGED accepted
  ELSE /\ run' = [run EXCEPT !.at = "promote", !.file = file]
       /\ accepted' = [accepted EXCEPT ![Task] = file]

(* A plausible mistake: what is tried again is not counted.                *)
TryFreely ==
  run' = [run EXCEPT !.at = "render"] /\ UNCHANGED status

TryAgainOrFail ==
  IF run.attempts < MaxRetry
  THEN /\ run' = [run EXCEPT !.at = "render", !.attempts = @ + 1]
       /\ UNCHANGED status
  ELSE Put("FAILED") /\ run' = AfterFailure(run)

HasTool == run.mode.tool \/ TypeOf[Task] = "extract"

Rendered ==
  /\ At("render") /\ HasTool /\ made < MaxFiles
  /\ made' = made + 1 /\ Keep(made + 1) /\ Judge(made + 1)
  /\ UNCHANGED <<status, asset, inbox, deleted, counters>>

(* ExecutorError: a video is asked for by hand, anything else tried again. *)
RenderFails ==
  /\ At("render") /\ HasTool
  /\ IF TypeOf[Task] = "video" THEN GoTo("manual") /\ UNCHANGED status
     ELSE TryAgainOrFail
  /\ UNCHANGED <<asset, tries, inbox, made, accepted, deleted, counters>>

(* A video of which the length cannot be read stays among the tries.       *)
RenderUnreadable ==
  /\ At("render") /\ run.mode.tool /\ TypeOf[Task] = "video" /\ made < MaxFiles
  /\ made' = made + 1 /\ Keep(made + 1) /\ GoTo("manual")
  /\ UNCHANGED <<status, asset, inbox, accepted, deleted, counters>>

ByHand ==
  /\ At("render") /\ ~HasTool /\ GoTo("manual")
  /\ UNCHANGED <<status, asset, tries, inbox, made, accepted, deleted, counters>>

(* find_dropped: the file named for the task, else the newest of its kind. *)
OfKind(t) == {d \in inbox : TypeOf[d.for] = TypeOf[t]}
NamedFor(t) == {d \in OfKind(t) : d.named /\ d.for = t}
Found(t) ==
  LET among == IF NamedFor(t) # {} THEN NamedFor(t) ELSE OfKind(t)
  IN  {d \in among : \A c \in among : c.file <= d.file}

TakeDropped ==
  /\ At("manual") /\ run.mode.attended
  /\ \E d \in Found(Task) :
       /\ Keep(d.file)
       /\ run' = [run EXCEPT !.at = "copied", !.file = d.file]
  /\ UNCHANGED <<status, asset, inbox, made, accepted, deleted, counters>>

(* A file that cannot be removed stays, and nobody is told.                *)
RemoveDropped ==
  /\ At("copied")
  /\ inbox' \in {inbox, {d \in inbox : d.file # run.file}}
  /\ Judge(run.file)
  /\ UNCHANGED <<status, asset, tries, made, deleted, counters>>

-----------------------------------------------------------------------------
(* What the person says, and the end of a task.                            *)

Asking == At("manual") \/ At("gate")

Skip ==
  /\ Asking /\ run.mode.attended
  /\ Put("FAILED") /\ run' = AfterFailure(run)
  /\ UNCHANGED <<asset, tries, inbox, made, accepted, deleted, counters>>

(* Also the answer of a closed stdin.  The task stays RUNNING.             *)
Quit ==
  /\ Asking /\ run' = Idle
  /\ UNCHANGED <<status, asset, tries, inbox, made, accepted, deleted, counters>>

Approve ==
  /\ At("gate") /\ run.mode.attended /\ GoTo("promote")
  /\ accepted' = [accepted EXCEPT ![Task] = run.file]
  /\ UNCHANGED <<status, asset, tries, inbox, made, deleted, counters>>

Reject ==
  /\ At("gate") /\ run.mode.attended /\ TryAgainOrFail
  /\ UNCHANGED <<asset, tries, inbox, made, accepted, deleted, counters>>

(* A plausible mistake: DONE is written before the file is there.          *)
MarkEarly == Put("DONE")

(* promote removes the old file first.                                     *)
MarkNothing == UNCHANGED status

RemoveOld ==
  /\ At("promote") /\ GoTo("copying") /\ MarkNothing
  /\ asset' = [asset EXCEPT ![Task] = NoFile]
  /\ deleted' = deleted \ {Task}
  /\ UNCHANGED <<tries, inbox, made, accepted, counters>>

CopyTry ==
  /\ At("copying") /\ GoTo("promoted")
  /\ asset' = [asset EXCEPT ![Task] = run.file]
  /\ UNCHANGED <<status, tries, inbox, made, accepted, deleted, counters>>

MarkDone ==
  /\ At("promoted") /\ GoTo("next") /\ Put("DONE")
  /\ UNCHANGED <<asset, tries, inbox, made, accepted, deleted, counters>>

-----------------------------------------------------------------------------
(* The world around.                                                       *)

(* The process dies, or an error that no handler knows ends the run; in    *)
(* the middle of a copy a part of the file may be left.                    *)
Die ==
  /\ ~At("idle") /\ crashes < MaxCrashes /\ crashes' = crashes + 1
  /\ run' = Idle
  /\ IF At("copying") THEN \E f \in {NoFile, Torn} : asset' = [asset EXCEPT ![Task] = f]
     ELSE UNCHANGED asset
  /\ UNCHANGED <<status, tries, inbox, made, accepted, deleted, drops, runs, byHand>>

(* A person drops a file for a task, with its name or with another.        *)
Drop(t, named) ==
  /\ TypeOf[t] # "extract" /\ drops < MaxDrops /\ drops' = drops + 1
  /\ made < MaxFiles /\ made' = made + 1
  /\ inbox' = inbox \cup {[file |-> made + 1, for |-> t, named |-> named]}
  /\ UNCHANGED <<status, asset, tries, run, accepted, deleted, runs, crashes, byHand>>

(* cmd_reset: the assets stay.                                             *)
Reset(S) ==
  /\ At("idle") /\ byHand < MaxByHand /\ byHand' = byHand + 1
  /\ status' = [t \in Tasks |-> IF t \in S THEN "PENDING" ELSE status[t]]
  /\ UNCHANGED <<asset, tries, inbox, made, run, accepted, deleted, drops, runs,
                 crashes>>

DeleteAsset(t) ==
  /\ At("idle") /\ byHand < MaxByHand /\ byHand' = byHand + 1
  /\ AssetExists(t) /\ asset' = [asset EXCEPT ![t] = NoFile]
  /\ deleted' = deleted \cup {t}
  /\ UNCHANGED <<status, tries, inbox, made, run, accepted, drops, runs, crashes>>

Runner ==
  \/ End \/ PassOver \/ LacksInput \/ StartTask
  \/ Rendered \/ RenderFails \/ RenderUnreadable \/ ByHand
  \/ RemoveDropped \/ Quit \/ RemoveOld \/ CopyTry \/ MarkDone

Person ==
  \/ TakeDropped \/ Skip \/ Approve \/ Reject
  \/ \E scope \in Scopes, mode \in Modes : Begin(scope, mode)
  \/ \E t \in Tasks, named \in BOOLEAN : Drop(t, named)
  \/ \E S \in SUBSET Tasks : Reset(S)
  \/ \E t \in Tasks : DeleteAsset(t)

Next == Runner \/ Person \/ Die

(* A run that waits for nobody goes on.                                    *)
Spec == Init /\ [][Next]_vars /\ WF_vars(~run.mode.attended /\ Runner)

-----------------------------------------------------------------------------
(* Properties.                                                             *)

(* What the state file calls DONE is there, whole, and the very try that   *)
(* was accepted last, unless it was deleted by hand: also when the process *)
(* dies between removing the old asset and copying the new one             *)
(* (Store.promote, Runner._run_one).                                       *)
DoneIsAccepted ==
  \A t \in Tasks : status[t] = "DONE" => asset[t] = accepted[t] \/ t \in deleted

(* No file is lost that was paid for or dropped by hand: a try is never    *)
(* overwritten, in this run or a later one, and a dropped file leaves the  *)
(* inbox only when it is among the tries (next_try_path, copy_to before    *)
(* remove).                                                                *)
FilesKept ==
  [][/\ \A t \in Tasks : IsPrefix(tries[t], tries'[t])
     /\ \A d \in inbox \ inbox' :
          \E t \in Tasks : \E n \in DOMAIN tries'[t] : tries'[t][n] = d.file]_vars

(* A run that nobody attends comes to its end: what fails is tried again   *)
(* only MaxRetry times, and every question ends it.                        *)
UnattendedRunEnds == (~At("idle") /\ ~run.mode.attended) ~> At("idle")
=============================================================================
