---------------------------- MODULE ImageMessage ----------------------------
(***************************************************************************)
(* One attempt at a batch of pictures: one message to ChatGPT that asks    *)
(* for N pictures, driven through the web page (generate_lo in             *)
(* image_chatgpt.py, the scripts of dom_chatgpt.py, run_image_attempt in   *)
(* live_executor.py, _live_image_attempt and _pl_tai_ve in sfboard.py).    *)
(*                                                                         *)
(* Before the message goes out the executor asks for a blank chat, a mode, *)
(* the reference pictures and a clean text.  Then it polls the page.  The  *)
(* page is all it has: whether a stop button is shown, which pictures of   *)
(* the reply it can see and in which order, and whether words have come    *)
(* with them.  In the end it scans the thumbnails, downloads what it saw   *)
(* into the tray and, when the number is right, gives the k-th picture to  *)
(* the k-th prompt.                                                        *)
(*                                                                         *)
(* The page is modelled from how that code reads it.  A picture of a       *)
(* prompt may be shown as a preview first, the provider may draw a variant *)
(* nobody asked for, and it may pause without a stop button.  A reading    *)
(* sees a part of the pictures in any order, or fails and changes nothing; *)
(* only a scan of a reply that has settled shows them in the order of the  *)
(* prompts.  Time is counted in polls.                                     *)
(***************************************************************************)
EXTENDS Naturals, Sequences, FiniteSets

CONSTANTS N,            \* pictures asked for
          Refs,         \* reference pictures to attach
          Rounds,       \* _LAN_DINH_REF: how often all of them are uploaded
          Presses,      \* how often Send is tried
          Deadline,     \* polls until the attempt stops waiting
          RefusalAfter, \* idle polls until a refusal counts  (45 s)
          RescanAfter,  \* idle polls until a rescan          (300 s)
          Quiet,        \* polls without a change before the order is read
          MaxVariants,  \* bound on the pictures nobody asked for
          MaxPauses,    \* bound on the pauses without a stop button
          Flaky         \* may Send act, or the composer hide, unseen?

ASSUME MessageAssumption ==
  /\ N \in Nat \ {0} /\ Refs \in Nat /\ Rounds \in Nat \ {0}
  /\ Presses \in Nat \ {0} /\ Quiet \in Nat \ {0}
  /\ {Deadline, RefusalAfter, RescanAfter, MaxVariants, MaxPauses} \subseteq Nat
  /\ Flaky \in BOOLEAN

VARIABLES pc,       \* the executor's step
          chat,     \* is the page a blank chat or an old one
          mode,     \* the mode of the model
          uploaded, \* how many reference pictures are up
          blind,    \* the check of the upload could read no file name
          round,    \* rounds of uploading begun
          draft,    \* the text in the composer
          presses,  \* how often Send was tried
          sent,     \* the text that the provider has taken
          reply,    \* how far the provider's reply is
          drawn,    \* the pictures of the reply
          words,    \* the words that came with them; a refusal may stand
                    \* on the page without being a message
          pauses,   \* pauses so far
          bucket,   \* the pictures of the reply as last read  (theo_turn)
          moved,    \* the last poll changed their number
          idle,     \* polls without a change                  (doi_tu)
          left,     \* polls until the deadline                (het)
          calm,     \* polls of the wait for quiet
          exit,     \* why the wait ended
          scanned,  \* the last scan could read the page
          stood,    \* the reply as it stood at that scan
          tray,     \* the pictures downloaded, in their order
          lost,     \* the pictures that could not be downloaded
          outputs,  \* outputs[k]: the picture saved for prompt k
          phase,    \* the last phase the runtime was told
          verdict,  \* how the attempt ended
          cancel    \* has the user cancelled one job of the batch, or all

composeVars == <<chat, mode, uploaded, blind, round, draft, presses>>
replyVars == <<sent, reply, drawn, words, pauses>>
pollVars == <<bucket, moved, idle, left, calm>>
harvestVars == <<exit, scanned, stood>>
resultVars == <<tray, lost, outputs>>
reportVars == <<phase, verdict>>
vars == <<pc, composeVars, replyVars, pollVars, harvestVars, resultVars,
          reportVars, cancel>>

Modes == {"Instant", "High"}       \* High stands for Medium too
Prompts == 1 .. N
Picture == [of : Prompts, kind : {"preview", "final", "variant"}]
PreviewOf(p) == [of |-> p, kind |-> "preview"]
FinalOf(p) == [of |-> p, kind |-> "final"]
VariantOf(p) == [of |-> p, kind |-> "variant"]
Shown(p) == {x \in drawn : x.of = p /\ x.kind # "variant"}
Variants == {x \in drawn : x.kind = "variant"}

Seen(s) == {s[i] : i \in DOMAIN s}
Arrangements(S) == {s \in [1 .. Cardinality(S) -> S] : Seen(s) = S}
Precedes(x, y) ==
  \/ x.of < y.of
  \/ x.of = y.of /\ x.kind = "final" /\ y.kind # "final"
InOrder(S) == {s \in Arrangements(S) :
                 \A i, j \in DOMAIN s : Precedes(s[i], s[j]) => i < j}

Init ==
  /\ pc = "open" /\ chat = "old" /\ mode = "Instant"
  /\ uploaded = 0 /\ blind = TRUE /\ round = 1 /\ draft = "empty" /\ presses = 0
  /\ sent = "nothing" /\ reply = "none" /\ drawn = {} /\ words = "none"
  /\ pauses = 0
  /\ bucket = <<>> /\ moved = FALSE /\ idle = 0 /\ left = Deadline /\ calm = 0
  /\ exit = "none" /\ scanned = FALSE
  /\ stood = [drawn |-> {}, words |-> "none", reply |-> "none"]
  /\ tray = <<>> /\ lost = {} /\ outputs = <<>>
  /\ phase = "attaching" /\ verdict = "open" /\ cancel = "none"

Go(step) == pc' = step /\ UNCHANGED verdict
End(v) == pc' = "end" /\ verdict' = v

---------------------------------------------------------------------------
(* Before the message goes out.                                            *)

(* generate_lo opens a page; _ve_chat_trang then wants a blank chat and in *)
(* the end replaces the tab.  A page that cannot be reached raises.        *)
OpenChat ==
  /\ pc = "open"
  /\ chat' \in {"blank", "old"}
  /\ IF chat' = "blank" THEN Go("mode") ELSE End("not_sent")
  /\ UNCHANGED <<mode, uploaded, blind, round, draft, presses, replyVars,
                 pollVars, harvestVars, resultVars, phase, cancel>>

(* _che_do_tot_nhat moves the slider to High, else to Medium, and reads it *)
(* back; _chan_neu_che_do_kem stops when it cannot be read or is Instant.  *)
ChooseMode ==
  /\ pc = "mode"
  /\ mode' \in Modes
  /\ \E readable \in BOOLEAN :
       IF readable /\ mode' # "Instant" THEN Go("attach") ELSE End("not_sent")
  /\ UNCHANGED <<chat, uploaded, blind, round, draft, presses, replyVars,
                 pollVars, harvestVars, resultVars, phase, cancel>>

(* A plausible mistake: the thumbnails are counted in any case.            *)
MissingThumbnails(up, thumbnails, noName) == Refs - thumbnails

(* How many references the check takes for missing: it compares file names *)
(* on the buttons that stand for finished uploads.  When it reads none it  *)
(* compares the thumbnails, which are shown for unfinished uploads too.    *)
Missing(up, thumbnails, noName) == Refs - (IF noName THEN thumbnails ELSE up)

Reload == chat' \in {chat, "old"} /\ mode' \in Modes

(* _dinh_ref_ben_bi: all references are uploaded at once; when some are    *)
(* missing, the page is loaded anew and all are uploaded again, unless a   *)
(* banner says that the account's uploads are used up.  A load may pull    *)
(* the tab back to an old chat, and neither chat nor mode is looked at     *)
(* again after it.                                                         *)
Attach ==
  /\ pc = "attach"
  /\ IF Refs = 0 THEN Go("type") /\ UNCHANGED <<chat, mode, uploaded, blind, round>>
     ELSE \E thumbnails \in 0 .. Refs, readable, banner \in BOOLEAN :
            /\ uploaded' \in 0 .. thumbnails
            /\ blind' = (~readable \/ uploaded' = 0)
            /\ IF Missing(uploaded', thumbnails, blind') = 0
                 THEN Go("type") /\ UNCHANGED <<chat, mode, round>>
               ELSE IF banner \/ round >= Rounds
                 THEN End("raised") /\ UNCHANGED <<chat, mode, round>>
               ELSE Go("attach") /\ round' = round + 1 /\ Reload
  /\ UNCHANGED <<draft, presses, replyVars, pollVars, harvestVars, resultVars,
                 phase, cancel>>

(* A plausible mistake: the text is not read back.                         *)
TypeBlindly ==
  /\ pc = "type"
  /\ draft' \in {"batch", "soiled"}
  /\ Go("send")
  /\ UNCHANGED <<chat, mode, uploaded, blind, round, presses, replyVars,
                 pollVars, harvestVars, resultVars, phase, cancel>>

(* The text replaces what the composer held and is read back: a draft that *)
(* still holds other text is not sent.                                     *)
TypePrompt ==
  /\ pc = "type"
  /\ draft' \in {"batch", "soiled"}
  /\ IF draft' = "batch" THEN Go("send") ELSE End("raised")
  /\ UNCHANGED <<chat, mode, uploaded, blind, round, presses, replyVars,
                 pollVars, harvestVars, resultVars, phase, cancel>>

(* Opening the page, the upload or the composer raises.                    *)
Breaks ==
  /\ pc \in {"open", "attach", "type"}
  /\ End("raised")
  /\ UNCHANGED <<composeVars, replyVars, pollVars, harvestVars, resultVars,
                 phase, cancel>>

(* _gui: two clicks on Send, then the Enter key.                           *)
Press ==
  /\ pc = "send"
  /\ presses' = presses + 1
  /\ Go("look")
  /\ UNCHANGED <<chat, mode, uploaded, blind, round, draft, replyVars,
                 pollVars, harvestVars, resultVars, phase, cancel>>

(* The composer was seen empty: the message has gone out, the chat is a    *)
(* blank one no longer, and the tries of uploading and sending are over.   *)
Gone == Go("sent") /\ chat' = "old" /\ round' = 1 /\ presses' = 0
NotGone == UNCHANGED <<chat, round, presses>>

(* A plausible mistake: Send is tried again for ever.                      *)
LookAgain ==
  /\ pc = "look"
  /\ IF draft = "empty" THEN Gone ELSE Go("send") /\ NotGone
  /\ UNCHANGED <<mode, uploaded, blind, draft, replyVars, pollVars, harvestVars,
                 resultVars, phase, cancel>>

(* A plausible mistake: a press is believed without a look.                *)
Trust ==
  /\ pc = "look"
  /\ Gone
  /\ UNCHANGED <<mode, uploaded, blind, draft, replyVars, pollVars, harvestVars,
                 resultVars, phase, cancel>>

(* _da_roi_o_soan: the message is sent once the composer is seen empty; a  *)
(* composer that cannot be seen does not count as empty.                   *)
Look ==
  /\ pc = "look"
  /\ \E visible \in IF Flaky THEN BOOLEAN ELSE {TRUE} :
       IF draft = "empty" /\ visible THEN Gone
       ELSE IF presses < Presses THEN Go("send") /\ NotGone
       ELSE End("not_sent") /\ NotGone
  /\ UNCHANGED <<mode, uploaded, blind, draft, replyVars, pollVars, harvestVars,
                 resultVars, phase, cancel>>

(* on_submitted, on_waiting_provider: refused when the lease is revoked.   *)
TellSubmitted ==
  /\ pc = "sent"
  /\ IF cancel = "all" THEN End("raised") /\ UNCHANGED phase
     ELSE Go("told") /\ phase' = "submitted"
  /\ UNCHANGED <<composeVars, replyVars, pollVars, harvestVars, resultVars,
                 cancel>>

TellWaiting ==
  /\ pc = "told"
  /\ IF cancel = "all" THEN End("raised") /\ UNCHANGED phase
     ELSE Go("poll") /\ phase' = "waiting"
  /\ UNCHANGED <<composeVars, replyVars, pollVars, harvestVars, resultVars,
                 cancel>>

---------------------------------------------------------------------------
(* Waiting for the pictures.                                               *)

Drawing == reply = "drawing"       \* _dang_sinh: the stop button is shown

(* _gom: the bucket of the turn is replaced by what is read now, since a   *)
(* preview gives way to the finished picture; a reading that fails or sees *)
(* nothing changes nothing.  A poll sees the mounted pictures, the         *)
(* selected one, here the last, before the others.  Nothing is unmounted   *)
(* from a reply that is done, since nobody scrolls.                        *)
SelectedFirst(s) == <<s[Len(s)]>> \o SubSeq(s, 1, Len(s) - 1)
Mounted == {S \in (SUBSET drawn) \ {{}} :
              reply = "done" => Seen(bucket) \cap drawn \subseteq S}
Readings == {bucket} \cup {SelectedFirst(s) : s \in UNION {InOrder(S) : S \in Mounted}}

(* A scan goes through the thumbnails of the whole turn.                   *)
Scan == IF reply = "done" THEN InOrder(drawn) ELSE Arrangements(drawn)
Scans == {bucket} \cup (IF drawn = {} THEN {} ELSE Scan)

(* The wait ends without a look at the pictures, and why.                  *)
Leave(why) == Go("harvest") /\ exit' = why /\ UNCHANGED pollVars

(* One round of the loop.  The user's wish to stop is looked at first: the *)
(* stop button is clicked, and nothing is collected.                       *)
PollStops ==
  /\ pc = "poll" /\ left > 0 /\ cancel # "none"
  /\ reply' \in {reply} \cup (IF Drawing THEN {"done"} ELSE {})
  /\ End("empty")
  /\ UNCHANGED <<composeVars, sent, drawn, words, pauses, pollVars,
                 harvestVars, resultVars, phase, cancel>>

PollGathers ==
  /\ pc = "poll" /\ left > 0 /\ cancel = "none"
  /\ bucket' \in Readings
  /\ moved' = (Len(bucket') # Len(bucket))
  /\ Go("judge")
  /\ UNCHANGED <<composeVars, replyVars, idle, left, calm, harvestVars,
                 resultVars, phase, cancel>>

PollExpires ==
  /\ pc = "poll" /\ left = 0
  /\ Leave("deadline")
  /\ UNCHANGED <<composeVars, replyVars, scanned, stood, resultVars, phase,
                 cancel>>

(* The time since the page last moved runs only while nothing is drawn.    *)
Idle == IF Drawing \/ moved THEN 0 ELSE idle
Worded == ~Drawing /\ words \in {"text", "quota"}
Enough == ~Worded /\ ~Drawing /\ Len(bucket) >= N
Waits == ~Worded /\ ~Enough
Refusal == ~Drawing /\ words = "refusal" /\ Idle > RefusalAfter
Stale == ~Drawing /\ ~Refusal /\ Idle > RescanAfter

(* _chan_neu_het_anh: words that say the quota is used up raise.           *)
JudgeQuota ==
  /\ pc = "judge" /\ Worded /\ words = "quota"
  /\ End("raised")
  /\ UNCHANGED <<composeVars, replyVars, pollVars, harvestVars, resultVars,
                 phase, cancel>>

JudgeText ==
  /\ pc = "judge" /\ Worded /\ words = "text"
  /\ Leave("text")
  /\ UNCHANGED <<composeVars, replyVars, scanned, stood, resultVars, phase,
                 cancel>>

(* A plausible mistake: with enough pictures there is nothing to wait for. *)
TakeEnough ==
  /\ pc = "judge" /\ Enough
  /\ Leave("quiet")
  /\ UNCHANGED <<composeVars, replyVars, scanned, stood, resultVars, phase,
                 cancel>>

JudgeEnough ==
  /\ pc = "judge" /\ Enough
  /\ Go("quiet") /\ calm' = 0
  /\ moved' = FALSE /\ idle' = 0 /\ left' = 0   \* not used again
  /\ UNCHANGED <<composeVars, replyVars, bucket, harvestVars, resultVars, phase, cancel>>

JudgeRefusal ==
  /\ pc = "judge" /\ Waits /\ Refusal
  /\ Leave("refused")
  /\ UNCHANGED <<composeVars, replyVars, scanned, stood, resultVars, phase,
                 cancel>>

(* After a long time without a change the thumbnails are scanned; it goes  *)
(* on without a pause and only the deadline ends the wait.                 *)
JudgeRescan ==
  /\ pc = "judge" /\ Waits /\ Stale
  /\ bucket' \in Scans
  /\ idle' = 0 /\ moved' = FALSE
  /\ Go("poll")
  /\ UNCHANGED <<composeVars, replyVars, left, calm, harvestVars,
                 resultVars, phase, cancel>>

(* A plausible mistake: the deadline moves as long as the wait goes on.    *)
KeepWaiting ==
  /\ pc = "judge" /\ Waits /\ ~Refusal /\ ~Stale
  /\ idle' = IF Drawing THEN 0 ELSE Idle + 1
  /\ moved' = FALSE
  /\ Go("poll")
  /\ UNCHANGED <<composeVars, replyVars, bucket, left, calm,
                 harvestVars, resultVars, phase, cancel>>

JudgeWait ==
  /\ pc = "judge" /\ Waits /\ ~Refusal /\ ~Stale
  /\ idle' = IF Drawing THEN 0 ELSE Idle + 1
  /\ moved' = FALSE
  /\ left' = left - 1
  /\ Go("poll")
  /\ UNCHANGED <<composeVars, replyVars, bucket, calm, harvestVars,
                 resultVars, phase, cancel>>

(* The wait for quiet knows no deadline, no cancel and no words: a stop    *)
(* button or a change of the number of pictures starts it again.           *)
QuietStarts ==
  /\ pc = "quiet"
  /\ bucket' \in Readings
  /\ Drawing \/ Len(bucket') # Len(bucket)
  /\ calm' = 0
  /\ UNCHANGED <<pc, verdict, composeVars, replyVars, moved, idle, left,
                 harvestVars, resultVars, phase, cancel>>

(* What the authors measured of the page: when a reply with enough         *)
(* pictures has not moved for the whole time, it is done.                  *)
QuietGrows ==
  /\ pc = "quiet"
  /\ bucket' \in Readings
  /\ ~Drawing /\ Len(bucket') = Len(bucket)
  /\ calm + 1 = Quiet => reply = "done"
  /\ calm' = calm + 1
  /\ IF calm' = Quiet THEN Go("harvest") /\ exit' = "quiet"
     ELSE UNCHANGED <<pc, verdict, exit>>
  /\ UNCHANGED <<composeVars, replyVars, moved, idle, left, scanned, stood,
                 resultVars, phase, cancel>>

---------------------------------------------------------------------------
(* What was drawn is collected.                                            *)

(* A plausible mistake: the last N pictures are taken for the right ones.  *)
LastN(s) == IF Len(s) > N THEN SubSeq(s, Len(s) - N + 1, Len(s)) ELSE s
HarvestLastN ==
  /\ pc = "harvest"
  /\ \E s \in Scans : bucket' = LastN(s) /\ scanned' = (s \in Scan)
  /\ stood' = [drawn |-> drawn, words |-> words, reply |-> reply]
  /\ IF bucket' = <<>> THEN End("empty") ELSE Go("got")
  /\ moved' = FALSE /\ idle' = 0 /\ left' = 0 /\ calm' = 0
  /\ UNCHANGED <<composeVars, replyVars, exit, resultVars, phase, cancel>>

(* The last scan.  The pictures are taken in the order it shows them in;   *)
(* when there are none, nothing is downloaded.  The counters of the wait   *)
(* are not used again.                                                     *)
Harvest ==
  /\ pc = "harvest"
  /\ bucket' \in Scans
  /\ scanned' = (bucket' \in Scan)
  /\ stood' = [drawn |-> drawn, words |-> words, reply |-> reply]
  /\ IF bucket' = <<>> THEN End("empty") ELSE Go("got")
  /\ moved' = FALSE /\ idle' = 0 /\ left' = 0 /\ calm' = 0
  /\ UNCHANGED <<composeVars, replyVars, exit, resultVars, phase, cancel>>

TellDownloading ==
  /\ pc = "got"
  /\ IF cancel = "all" THEN End("raised") /\ UNCHANGED phase
     ELSE Go("download") /\ phase' = "downloading"
  /\ UNCHANGED <<composeVars, replyVars, pollVars, harvestVars, resultVars,
                 cancel>>

(* _pl_tai_ve: the next picture goes into the tray, or cannot be had.      *)
Download ==
  /\ pc = "download"
  /\ LET k == Len(tray) + Cardinality(lost) + 1 IN
       /\ k \in DOMAIN bucket
       /\ \/ tray' = Append(tray, bucket[k]) /\ UNCHANGED lost
          \/ lost' = lost \cup {bucket[k]} /\ UNCHANGED tray
  /\ UNCHANGED <<pc, verdict, composeVars, replyVars, pollVars, harvestVars,
                 outputs, phase, cancel>>

(* A plausible mistake: as many pictures as prompts are enough.            *)
AtLeast(s) == Len(s) >= N /\ exit # "text"

(* run_image_attempt compares numbers: as many pictures in the tray as     *)
(* prompts, and no words were noticed.                                     *)
Fits(s) == Len(s) = N /\ exit # "text"

Compare ==
  /\ pc = "download" /\ Len(tray) + Cardinality(lost) = Len(bucket)
  /\ IF Fits(tray) THEN Go("compared") ELSE End("empty")
  /\ UNCHANGED <<composeVars, replyVars, pollVars, harvestVars, resultVars,
                 phase, cancel>>

TellSaving ==
  /\ pc = "compared"
  /\ IF cancel = "all" THEN End("raised") /\ UNCHANGED phase
     ELSE Go("save") /\ phase' = "saving"
  /\ UNCHANGED <<composeVars, replyVars, pollVars, harvestVars, resultVars,
                 cancel>>

(* saver: the next prompt's version file is written, or that raises.       *)
Save ==
  /\ pc = "save" /\ Len(outputs) < N
  /\ \/ outputs' = Append(outputs, tray[Len(outputs) + 1]) /\ UNCHANGED <<pc, verdict>>
     \/ End("raised") /\ UNCHANGED outputs
  /\ UNCHANGED <<composeVars, replyVars, pollVars, harvestVars, tray, lost,
                 phase, cancel>>

Deliver ==
  /\ pc = "save" /\ Len(outputs) = N
  /\ End("outputs")
  /\ UNCHANGED <<composeVars, replyVars, pollVars, harvestVars, resultVars,
                 phase, cancel>>

Executor ==
  \/ OpenChat \/ ChooseMode \/ Attach \/ TypePrompt \/ Breaks
  \/ Press \/ Look \/ TellSubmitted \/ TellWaiting
  \/ PollStops \/ PollGathers \/ PollExpires
  \/ JudgeQuota \/ JudgeText \/ JudgeEnough \/ JudgeRefusal
  \/ JudgeRescan \/ JudgeWait \/ QuietStarts \/ QuietGrows
  \/ Harvest \/ TellDownloading \/ Download \/ Compare
  \/ TellSaving \/ Save \/ Deliver

---------------------------------------------------------------------------
(* The provider, as the code expects it.  What the page does after the     *)
(* last scan is of no account to the attempt and is left out.              *)

Watched == pc \in {"look", "send", "sent", "told", "poll", "judge", "quiet",
                   "harvest"}

restOfReply == <<pc, composeVars, pollVars, harvestVars, resultVars,
                 reportVars, cancel, sent>>

(* Send takes all that the composer holds, or is swallowed.                *)
Accept ==
  /\ draft # "empty" /\ presses > 0
  /\ pc = "look" \/ Flaky
  /\ sent' = draft /\ reply' = "queued"
  /\ draft' = "empty" /\ uploaded' = 0 /\ blind' = TRUE
  /\ UNCHANGED <<pc, verdict, chat, mode, round, presses, drawn, words, pauses,
                 pollVars, harvestVars, resultVars,
                 phase, cancel>>

StartDrawing == /\ reply = "queued"
                /\ reply' = "drawing"
                /\ UNCHANGED <<restOfReply, drawn, words, pauses>>

Pause == /\ Drawing /\ pauses < MaxPauses
         /\ pauses' = pauses + 1 /\ reply' = "queued"
         /\ UNCHANGED <<restOfReply, drawn, words>>

ShowPreview(p) == /\ Drawing /\ Shown(p) = {}
                  /\ drawn' = drawn \cup {PreviewOf(p)}
                  /\ UNCHANGED <<restOfReply, reply, words, pauses>>

Finish(p) == /\ Drawing /\ FinalOf(p) \notin drawn
             /\ drawn' = (drawn \ {PreviewOf(p)}) \cup {FinalOf(p)}
             /\ UNCHANGED <<restOfReply, reply, words, pauses>>

DrawVariant(p) == /\ Drawing /\ Cardinality(Variants) < MaxVariants
                  /\ drawn' = drawn \cup {VariantOf(p)}
                  /\ drawn' # drawn
                  /\ UNCHANGED <<restOfReply, reply, words, pauses>>

Say(w) == /\ reply = "queued" \/ Drawing
          /\ words = "none"
          /\ words' = w
          /\ UNCHANGED <<restOfReply, reply, drawn, pauses>>

(* No preview is left when the stop button goes for good; the order of the *)
(* pictures settles a little later.                                        *)
EndDrawing == /\ Drawing /\ \A x \in drawn : x.kind # "preview"
              /\ reply' = "settling"
              /\ UNCHANGED <<restOfReply, drawn, words, pauses>>

Settle == /\ reply = "settling"
          /\ reply' = "done"
          /\ UNCHANGED <<restOfReply, drawn, words, pauses>>

Provider ==
  /\ Watched
  /\ \/ StartDrawing \/ Pause \/ EndDrawing \/ Settle
     \/ \E p \in Prompts : ShowPreview(p) \/ Finish(p) \/ DrawVariant(p)
     \/ \E w \in {"text", "quota", "refusal"} : Say(w)

(* The user cancels one job of the batch, or all of them.  It is enough to *)
(* let that happen just before the steps that can notice it.               *)
Cancel ==
  /\ pc \in {"sent", "told", "poll", "got", "compared"} /\ cancel # "all"
  /\ cancel' \in {"one", "all"} \ {cancel}
  /\ cancel' = "one" => N > 1
  /\ UNCHANGED <<pc, composeVars, replyVars, pollVars, harvestVars, resultVars,
                 reportVars>>

Next == Executor \/ Accept \/ Provider \/ Cancel

(* The executor is a thread that is never blocked.  That the provider ends *)
(* its reply some day is needed because the wait for quiet has no deadline. *)
Fairness == WF_vars(Executor) /\ WF_vars(Provider)

Spec == Init /\ [][Next]_vars
LiveSpec == Spec /\ Fairness

---------------------------------------------------------------------------
(* Properties.                                                             *)

Words == {"none", "text", "quota", "refusal"}
Replies == {"none", "queued", "drawing", "settling", "done"}

(* Every variable of the message keeps its type.                           *)
MessageTypeOK ==
  /\ chat \in {"blank", "old"} /\ mode \in Modes
  /\ uploaded \in 0 .. Refs /\ blind \in BOOLEAN
  /\ round \in 1 .. Rounds /\ presses \in 0 .. Presses
  /\ draft \in {"empty", "batch", "soiled"}
  /\ sent \in {"nothing", "batch", "soiled"} /\ reply \in Replies
  /\ drawn \subseteq Picture /\ words \in Words
  /\ pauses \in 0 .. MaxPauses
  /\ bucket \in Seq(Picture) /\ moved \in BOOLEAN
  /\ idle \in Nat /\ left \in 0 .. Deadline /\ calm \in 0 .. Quiet
  /\ exit \in {"none", "quiet", "text", "refused", "deadline"}
  /\ scanned \in BOOLEAN
  /\ stood \in [drawn : SUBSET Picture, words : Words, reply : Replies]
  /\ tray \in Seq(Picture) /\ lost \subseteq Picture /\ outputs \in Seq(Picture)
  /\ cancel \in {"none", "one", "all"}

(* A message goes out only as the whole batch: the text and nothing else,  *)
(* with all its references unless the check of the upload could read no    *)
(* file name at all; and in a blank chat and not in Instant mode unless    *)
(* the page was loaded anew between two rounds of uploading.               *)
GoesOutComplete ==
  /\ draft = "batch"
  /\ uploaded = Refs \/ blind
  /\ round = 1 => chat = "blank" /\ mode # "Instant"
SentOnlyComplete == [][sent' # sent => GoesOutComplete]_vars

(* A picture saved for a prompt is the finished picture of that prompt,    *)
(* when the wait ended in quiet and the last scan read the page.  The      *)
(* count alone does not guarantee it: a picture nobody asked for may stand *)
(* in for one that was not drawn or could not be downloaded.               *)
PicturesMatchPrompts ==
  /\ exit = "quiet" /\ scanned
  /\ \/ \A x \in stood.drawn : x.kind # "variant"
     \/ lost = {} /\ \A p \in Prompts : FinalOf(p) \in stood.drawn
  => \A p \in DOMAIN outputs : outputs[p] = FinalOf(p)

(* Pictures that were paid for are kept: what the page showed at the last  *)
(* scan is in the tray, unless it could not be downloaded, the quota words *)
(* or the user stopped the attempt.                                        *)
PaidPicturesKept ==
  verdict \in {"empty", "outputs"} /\ scanned =>
    \A x \in stood.drawn : x \in Seen(tray) \cup lost

(* The message implements what the runtime relies on from an attempt; that *)
(* "not sent" means nothing was spent only if Send never acts unseen.      *)
Contract == INSTANCE AttemptContract WITH
  Late <- Flaky, spent <- sent # "nothing", revoked <- cancel = "all"
ImplementsAttempt == Contract!Spec

(* Every attempt ends.                                                     *)
AttemptEnds == <>(pc = "end")

(* A reply that hands up another number of pictures than there are prompts *)
(* is never mapped: "lech so giu turn nhung tuyet doi khong doan mapping". *)
MismatchNeverMapped == outputs # <<>> => Len(bucket) = N

(* A message that asked for a blank chat goes out in one ("XIN CHAT TRANG  *)
(* THI PHAI DUOC CHAT TRANG"): not when the page was loaded anew.          *)
SentInBlankChat == [][sent' # sent => chat = "blank"]_vars

(* What is reported as not sent has spent nothing: not on a flaky page.    *)
UnsentIsUnspent == verdict = "not_sent" => sent = "nothing"
=============================================================================
