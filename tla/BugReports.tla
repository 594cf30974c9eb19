----------------------------- MODULE BugReports -----------------------------
(***************************************************************************)
(* From an error in the board to an issue a person sees: the service that  *)
(* classifies signals and throttles repeats (jobs/runtime_service.py,      *)
(* runtime_classifier.py), the journal file and its rotated segments       *)
(* (runtime_journal.py), and the bridge that reads the journal and tells   *)
(* the issue tracker through its bd command (beads_bridge.py).             *)
(*                                                                         *)
(* A pass of the bridge loads the checkpoint, lists the segments, reads    *)
(* them and then works event by event: bd, then the checkpoint.  The board *)
(* has one bridge thread; `bugtool sync` is a pass in another process, and *)
(* a thread that outlives the two seconds stop() waits for it is one more. *)
(* None of them excludes the others.  All this is in mode auto-create,     *)
(* which a user has to ask for.  In mode journal-only, the default, the    *)
(* board starts no thread and a pass returns before it tells or writes     *)
(* anything.                                                               *)
(*                                                                         *)
(* An event is its place in the journal.  A mishap is a fault of the       *)
(* surroundings (a process that dies, a file that cannot be read or        *)
(* written, an answer of bd that is lost) or two passes getting in each    *)
(* other's or the rotation's way; they are counted because they are what   *)
(* may make the bridge repeat itself.  A bd that just refuses is none.     *)
(***************************************************************************)
EXTENDS Naturals, Sequences, FiniteSets, FiniteSetsExt

CONSTANTS Sites,       \* the places that raise signals, of the board's
          Bridges,     \* processes and threads that may make a pass
          Board,       \* the bridge that lives and dies with the board
          AutoCreate,  \* the bridges that run in mode auto-create
          BatchLimit,  \* events of one pass (batch_limit)
          Kept,        \* rotated segments that are kept (retention)
          MaxEvents,   \* bound on the events in the journal
          MaxSegments, \* bound on the segments
          MaxMishaps   \* bound on the mishaps, apart from those of the rotation

(* What a call of report_runtime_bug() gives: its typed reason, its        *)
(* category and how often the same error must come to be worth a line.     *)
Site(reason, category, every) ==
  [reason |-> reason, category |-> category, every |-> every]
WorkerCrash == Site("WORKER_CRASH", "unhandled_exception", 1)
LiveWorkerCrash == Site("LIVE_WORKER_CRASH", "authoritative_worker", 1)
Rotation == Site("PROVIDER_TRANSIENT", "render_rotate", 3)
RetriesExhausted == Site("RETRY_EXHAUSTED", "video_retry", 1)
CancelNotHonoured == Site("INVARIANT_VIOLATION", "cancel_not_honoured", 1)
ProducerDelivery == Site("PRODUCER_DELIVERY", "producer_delivery", 1)
Crashes == {WorkerCrash, LiveWorkerCrash}
CallSites == {WorkerCrash, LiveWorkerCrash, Rotation, RetriesExhausted,
              CancelNotHonoured, ProducerDelivery}

ASSUME BugAssumption ==
  /\ Sites \subseteq CallSites /\ Sites # {}
  /\ Board \in Bridges /\ IsFiniteSet(Bridges) /\ AutoCreate \subseteq Bridges
  /\ BatchLimit \in Nat \ {0} /\ Kept \in Nat \ {0}
  /\ MaxEvents \in Nat /\ MaxSegments \in Nat \ {0} /\ MaxMishaps \in Nat

VARIABLES repeats,  \* site -> how often, modulo its `every`      (memory)
          journal,  \* the events written: [site, seg, whole]     (files)
          live,     \* the number of the segment written to
          oldest,   \* the oldest segment still kept
          tail,     \* the live file ends in half a line
          disk,     \* the checkpoint                             (file)
          issues,   \* the tracker: [site, status]                (external)
          told,     \* event -> how often the tracker heard of it (external)
          pass,     \* the bridges' passes
          mishaps,
          raised    \* the crashes that were reported, the disk working

bugVars == <<repeats, journal, live, oldest, tail, disk, issues, told, pass,
             mishaps, raised>>
files == <<journal, live, oldest, tail>>
service == <<repeats, raised>>
tracker == <<issues, told>>

Events == 1 .. Len(journal)
NoIssue == 0

(* The checkpoint: what was told, and the issue of each fingerprint.  The  *)
(* fingerprint leaves out what is volatile in a message, so that it stands *)
(* for the place that raised the signal.                                   *)
EmptyState == [done |-> {}, issue |-> [s \in Sites |-> NoIssue]]
Asleep == [pc |-> "idle", copy |-> EmptyState, listed |-> {}, seen |-> {},
           todo |-> {}, dirty |-> FALSE]

ReportableReasons ==
  {"WORKER_CRASH", "RETRY_EXHAUSTED", "INVARIANT_VIOLATION", "QUEUE_STALLED",
   "SESSION_TRANSIENT", "PROVIDER_TRANSIENT", "ACCOUNT_LOST", "PERMANENT",
   "UNKNOWN_OUTCOME"}
IgnoredReasons ==
  {"VALIDATION", "CANCELLED", "EXPECTED_STOP", "NORMAL_RETRY",
   "QUOTA_RATE_LIMIT", "BRIDGE_ERROR"}

(* classify_signal: typed fields only.  Every call gives an exception.     *)
Reportable(s) ==
  /\ s.reason \notin IgnoredReasons
  /\ s.reason \in ReportableReasons \/ s.category = "unhandled_exception"

Init ==
  /\ repeats = [s \in Sites |-> 0]
  /\ journal = <<>> /\ live = 1 /\ oldest = 1 /\ tail = FALSE
  /\ disk = EmptyState
  /\ issues = <<>> /\ told = [e \in 1 .. MaxEvents |-> 0]
  /\ pass = [b \in Bridges |-> Asleep]
  /\ mishaps = 0 /\ raised = {}

(* The surroundings do it, as long as the bound allows.                    *)
Mishap == mishaps < MaxMishaps /\ mishaps' = mishaps + 1
NoMishap == UNCHANGED mishaps

-----------------------------------------------------------------------------
(* report(): classify, count the repeats, write a line.                    *)

(* A line goes to the live file or, when that is full, to a new one, and   *)
(* the oldest segments go.  A line that is written behind half a line of a *)
(* process that died cannot be read.                                       *)
Write(s) ==
  \E rotate \in BOOLEAN :
    LET seg == IF rotate THEN live + 1 ELSE live
    IN  /\ seg <= MaxSegments
        /\ journal' = Append(journal, [site |-> s, seg |-> seg,
                                       whole |-> rotate \/ ~tail])
        /\ live' = seg
        /\ oldest' = IF seg - oldest > Kept THEN oldest + 1 ELSE oldest
        /\ tail' = FALSE

Counted(s) == (repeats[s] + 1) % s.every

HoldBack(s) == Counted(s) # 0 /\ UNCHANGED files

Raise(s) ==
  /\ Len(journal) < MaxEvents
  /\ raised' = raised \cup ({s} \cap Crashes)
  /\ IF Reportable(s)
     THEN /\ repeats' = [repeats EXCEPT ![s] = Counted(s)]
          /\ HoldBack(s) \/ (Counted(s) = 0 /\ Write(s))
     ELSE UNCHANGED <<repeats, files>>
  /\ UNCHANGED <<disk, tracker, pass, mishaps>>

(* 512 other fingerprints came in between: the count starts again.         *)
Forget(s) ==
  /\ repeats[s] # 0
  /\ repeats' = [repeats EXCEPT ![s] = 0]
  /\ UNCHANGED <<files, disk, tracker, pass, mishaps, raised>>

-----------------------------------------------------------------------------
(* One pass of the bridge (sync_once).                                     *)

Overlaps(b) == \E c \in Bridges \ {b} : pass[c].pc # "idle"

(* A checkpoint that cannot be read is an empty one.                       *)
Loadable == {disk, EmptyState}

(* The thread wakes up or polls, or the tool is called.  A pass in mode    *)
(* journal-only changes nothing.                                           *)
Begin(b) ==
  /\ b \in AutoCreate /\ pass[b].pc = "idle"
  /\ \E state \in Loadable :
       /\ IF Overlaps(b) \/ state # disk THEN Mishap ELSE NoMishap
       /\ pass' = [pass EXCEPT ![b] =
                     [Asleep EXCEPT !.pc = "read", !.copy = state,
                                    !.listed = oldest .. live - 1]]
  /\ UNCHANGED <<service, files, disk, tracker>>

OnFile == {e \in Events : journal[e].whole /\ journal[e].seg >= oldest}
Readable(b) == {e \in OnFile : journal[e].seg \in pass[b].listed \cup {live}}

(* A plausible mistake: off by one.                                        *)
PendingFromSecond(seen, done) ==
  LET all == seen \ done
  IN  {e \in all : Cardinality({x \in all : x < e}) \in 1 .. BatchLimit - 1}

(* The first of what is pending, in the order of the journal.              *)
Pending(seen, done) ==
  LET all == seen \ done
  IN  {e \in all : Cardinality({x \in all : x < e}) < BatchLimit}

TakeUp(b, seen) ==
  pass' = [pass EXCEPT ![b].pc = "next", ![b].seen = seen,
                       ![b].todo = Pending(seen, pass[b].copy.done)]

(* The listed segments are read, and the live one under its name: what was *)
(* rotated since the listing is missed, as is a segment that cannot be     *)
(* opened.                                                                 *)
Read(b) ==
  /\ pass[b].pc = "read"
  /\ \/ /\ TakeUp(b, Readable(b))
        /\ mishaps' = IF Readable(b) = OnFile THEN mishaps ELSE mishaps + 1
     \/ /\ Mishap
        /\ \E bad \in pass[b].listed \cup {live} :
             TakeUp(b, {e \in Readable(b) : journal[e].seg # bad})
  /\ UNCHANGED <<service, files, disk, tracker>>

Current(b) == Min(pass[b].todo)
SiteNow(b) == journal[Current(b)].site
IssueNow(b) == pass[b].copy.issue[SiteNow(b)]

Next1(b, pc) == pass' = [pass EXCEPT ![b].pc = pc]

(* An event whose fingerprint the checkpoint does not know: a new issue.   *)
Create(b) ==
  /\ pass[b].pc = "next" /\ pass[b].todo # {} /\ IssueNow(b) = NoIssue
  /\ issues' = Append(issues, [site |-> SiteNow(b), status |-> "open"])
  /\ told' = [told EXCEPT ![Current(b)] = @ + 1]
  /\ \/ /\ pass' = [pass EXCEPT ![b].pc = "save",
                                ![b].copy.issue[SiteNow(b)] = Len(issues) + 1]
        /\ NoMishap
     \/ Next1(b, "end") /\ Mishap     \* time-out, or no id in the answer
  /\ UNCHANGED <<service, files, disk>>

(* A known fingerprint: bd show, and a note by bd update, which reopens a  *)
(* closed issue.  One step: that somebody closes the issue between the two *)
(* calls is as if it were closed after them.                               *)
Note(b) ==
  /\ pass[b].pc = "next" /\ pass[b].todo # {} /\ IssueNow(b) # NoIssue
  /\ issues' = [issues EXCEPT ![IssueNow(b)].status = "open"]
  /\ told' = [told EXCEPT ![Current(b)] = @ + 1]
  /\ \/ Next1(b, "save") /\ NoMishap
     \/ Next1(b, "end") /\ Mishap
  /\ UNCHANGED <<service, files, disk>>

(* A plausible mistake: what bd refused counts as done.                    *)
RefusedIsDone(b) ==
  /\ pass[b].pc = "next" /\ pass[b].todo # {}
  /\ Next1(b, "save")
  /\ UNCHANGED <<service, files, disk, tracker, mishaps>>

(* bd refuses, is not there, or times out before it did anything: the rest *)
(* of the pass is given up.                                                *)
Refused(b) ==
  /\ pass[b].pc = "next" /\ pass[b].todo # {}
  /\ Next1(b, "end")
  /\ UNCHANGED <<service, files, disk, tracker, mishaps>>

(* A plausible mistake: only what the pass was to do is remembered.        *)
DoneToday(b) == {Current(b)}

(* What the checkpoint keeps: nothing that has left the journal.           *)
DoneNow(b) ==
  (pass[b].copy.done \cup {Current(b)}) \cap (pass[b].seen \cup {Current(b)})

(* The checkpoint is written after every event, by replacing the file.     *)
(* When that fails the pass ends with an exception.                        *)
Save(b) ==
  /\ pass[b].pc = "save"
  /\ \/ LET copy == [pass[b].copy EXCEPT !.done = DoneNow(b)]
        IN  /\ disk' = copy
            /\ pass' = [pass EXCEPT ![b].pc = "next", ![b].copy = copy,
                          ![b].todo = @ \ {Current(b)}, ![b].dirty = TRUE]
            /\ NoMishap
     \/ pass' = [pass EXCEPT ![b] = Asleep] /\ Mishap /\ UNCHANGED disk
  /\ UNCHANGED <<service, files, tracker>>

(* The last write of a pass that wrote at all.                             *)
End(b) ==
  /\ pass[b].pc = "end" \/ (pass[b].pc = "next" /\ pass[b].todo = {})
  /\ disk' = IF pass[b].dirty
             THEN [pass[b].copy EXCEPT !.done = @ \cap pass[b].seen]
             ELSE disk
  /\ pass' = [pass EXCEPT ![b] = Asleep]
  /\ UNCHANGED <<service, files, tracker, mishaps>>

(* A process dies.  With the board go the counts, and a line that is being *)
(* written may stay behind half.                                           *)
Die(b) ==
  /\ Mishap
  /\ pass' = [pass EXCEPT ![b] = Asleep]
  /\ IF b = Board
     THEN /\ repeats' = [s \in Sites |-> 0]
          /\ tail' \in {tail, TRUE}
     ELSE UNCHANGED <<repeats, tail>>
  /\ UNCHANGED <<journal, live, oldest, disk, tracker, raised>>

(* People close issues; the bridge never does.  (An issue that is deleted  *)
(* would make bd refuse every event of its fingerprint, and the bridge     *)
(* stop there for ever: nobody deletes issues here.)                       *)
PeopleClose(i) ==
  /\ issues[i].status = "open"
  /\ issues' = [issues EXCEPT ![i].status = "closed"]
  /\ UNCHANGED <<service, files, disk, told, pass, mishaps>>

-----------------------------------------------------------------------------

Step(b) ==
  Begin(b) \/ Read(b) \/ Create(b) \/ Note(b) \/ Refused(b) \/ Save(b) \/ End(b)

Next ==
  \/ \E s \in Sites : Raise(s) \/ Forget(s)
  \/ \E b \in Bridges : Step(b) \/ Die(b)
  \/ \E i \in DOMAIN issues : PeopleClose(i)

(* The threads run, and a bd that is asked again and again answers.        *)
Fairness ==
  /\ \A b \in Bridges : WF_bugVars(Step(b))
  /\ SF_bugVars(Begin(Board)) /\ SF_bugVars(Create(Board) \/ Note(Board))

Spec == Init /\ [][Next]_bugVars /\ Fairness

-----------------------------------------------------------------------------
(* Properties.                                                             *)

(* The checkpoint never runs ahead of the tracker: an event that counts as *)
(* done was told, and the issue kept for a fingerprint is one of this      *)
(* fingerprint - also when bd failed half-way, a process died between bd   *)
(* and the checkpoint, or another pass wrote its older copy over it.       *)
TrueState(state) ==
  /\ \A e \in state.done : e \in Events /\ told[e] > 0
  /\ \A s \in Sites : state.issue[s] # NoIssue =>
       state.issue[s] \in DOMAIN issues /\ issues[state.issue[s]].site = s
CheckpointIsTrue == TrueState(disk)

IssuesOf(s) == {i \in DOMAIN issues : issues[i].site = s}

(* beads_bridge.py: one issue for each fingerprint, and an event is told   *)
(* once.  Each mishap can cause at most one repetition of an event and one *)
(* more issue of a fingerprint, however many passes there are, in whatever *)
(* batches they work and whatever the rotation removes.                    *)
OncePerMishap ==
  /\ \A e \in 1 .. MaxEvents : told[e] <= 1 + mishaps
  /\ \A s \in Sites : Cardinality(IssuesOf(s)) <= 1 + mishaps

(* When the board runs in mode auto-create, what can be read in the        *)
(* journal is told in the end, unless the rotation removes it first - over *)
(* batches, refusals of bd, deaths and other passes.                       *)
EveryBugTold ==
  Board \in AutoCreate =>
    \A e \in 1 .. MaxEvents : (e \in OnFile) ~> (told[e] > 0 \/ e \notin OnFile)

-----------------------------------------------------------------------------
(* What the code does not keep: TLC finds both violated.                   *)

(* The comment above _worker_entry: the death of a worker thread is just   *)
(* the kind of error to be kept.  What the board reports as a crash of a   *)
(* worker has a line in the journal.                                       *)
CrashIsJournaled ==
  \A s \in raised : \E e \in Events : journal[e].site = s

(* The module comment of beads_bridge.py, without any allowance.           *)
OneIssuePerFingerprint == \A s \in Sites : Cardinality(IssuesOf(s)) <= 1
=============================================================================
