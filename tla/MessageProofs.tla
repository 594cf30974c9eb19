--------------------------- MODULE MessageProofs ---------------------------
(***************************************************************************)
(* What holds of every message to ChatGPT, for any number of pictures,     *)
(* references, tries and polls: types, what is sent is complete, what was  *)
(* paid for is kept, and the runtime's contract with an attempt.           *)
(***************************************************************************)
EXTENDS ImageMessage, FiniteSetTheorems, SequenceTheorems,
        WellFoundedInduction, TLAPS

Before == {"open", "mode", "attach", "type"}
Sending == {"send", "look"}

(* What has been set up at each step before Send, and that what stands in  *)
(* the composer was read back.                                             *)
Composed ==
  /\ pc \in Before => draft = "empty" /\ presses = 0
  /\ pc \in {"open", "mode"} => round = 1
  /\ round = 1 /\ pc \in {"mode", "attach", "type"} \cup Sending => chat = "blank"
  /\ round = 1 /\ pc \in {"attach", "type"} \cup Sending => mode # "Instant"
  /\ pc \in {"type"} \cup Sending => uploaded = Refs \/ blind
  /\ draft = "batch" => GoesOutComplete
  /\ draft = "soiled" => pc = "end" /\ presses = 0
  /\ draft \in {"empty", "batch", "soiled"} /\ uploaded \in 0 .. Refs
  /\ round \in Nat \ {0}

(* After Send the executor never goes back and touches nothing of what it  *)
(* has set up.                                                             *)
AfterSend ==
  \/ TellSubmitted \/ TellWaiting \/ PollStops \/ PollGathers \/ PollExpires
  \/ JudgeQuota \/ JudgeText \/ JudgeEnough \/ JudgeRefusal
  \/ JudgeRescan \/ JudgeWait \/ QuietStarts \/ QuietGrows
  \/ Harvest \/ TellDownloading \/ Download \/ Compare
  \/ TellSaving \/ Save \/ Deliver

LEMMA AfterSendMoves ==
  ASSUME AfterSend
  PROVE  /\ pc \notin Before \cup Sending \cup {"end"}
         /\ pc' \notin Before \cup Sending
         /\ UNCHANGED <<composeVars, sent, drawn, words, pauses>>
<1>1. CASE TellSubmitted \/ TellWaiting
  BY <1>1 DEF TellSubmitted, TellWaiting, Go, End, composeVars, replyVars, Before, Sending
<1>2. CASE PollStops \/ PollGathers \/ PollExpires
  BY <1>2 DEF PollStops, PollGathers, PollExpires, Leave, Go, End, composeVars,
              replyVars, Before, Sending
<1>3. CASE JudgeQuota \/ JudgeText \/ JudgeEnough \/ JudgeRefusal
  BY <1>3 DEF JudgeQuota, JudgeText, JudgeEnough, JudgeRefusal, Leave, Go, End,
              composeVars, replyVars, Before, Sending
<1>4. CASE JudgeRescan \/ JudgeWait
  BY <1>4 DEF JudgeRescan, JudgeWait, Go, composeVars, replyVars, Before, Sending
<1>5. CASE QuietStarts \/ QuietGrows
  BY <1>5 DEF QuietStarts, QuietGrows, Go, composeVars, replyVars, Before, Sending
<1>6. CASE Harvest \/ TellDownloading \/ Download \/ Compare
  BY <1>6 DEF Harvest, TellDownloading, Download, Compare, Go, End, composeVars,
              replyVars, Before, Sending
<1>7. CASE TellSaving \/ Save \/ Deliver
  BY <1>7 DEF TellSaving, Save, Deliver, Go, End, composeVars, replyVars, Before, Sending
<1>8. QED
  BY <1>1, <1>2, <1>3, <1>4, <1>5, <1>6, <1>7 DEF AfterSend

LEMMA ProviderMoves ==
  ASSUME Provider
  PROVE  UNCHANGED restOfReply
BY DEF Provider, StartDrawing, Pause, EndDrawing, Settle, ShowPreview, Finish,
       DrawVariant, Say

LEMMA NextSteps ==
  ASSUME Next
  PROVE  \/ OpenChat \/ ChooseMode \/ Attach \/ TypePrompt \/ Breaks
         \/ Press \/ Look \/ AfterSend \/ Accept \/ Provider \/ Cancel
BY DEF Next, Executor, AfterSend

LEMMA ComposedInit == Init => Composed
BY MessageAssumption DEF Init, Composed, Before, Sending

LEMMA ComposedStep == Composed /\ [Next]_vars => Composed'
<1> SUFFICES ASSUME Composed, [Next]_vars PROVE Composed'
  OBVIOUS
<1> USE DEF Composed, Before, Sending, GoesOutComplete
<1>1. CASE OpenChat
  BY <1>1 DEF OpenChat, Go, End
<1>2. CASE ChooseMode
  BY <1>2 DEF ChooseMode, Go, End
<1>3. CASE Attach
  <2>1. UNCHANGED <<draft, presses>> /\ pc = "attach"
    BY <1>3 DEF Attach
  <2>2. CASE Refs = 0
    BY <1>3, <2>1, <2>2 DEF Attach, Go
  <2>3. CASE Refs # 0
    <3>1. PICK thumbnails \in 0 .. Refs, readable \in BOOLEAN, banner \in BOOLEAN :
            /\ uploaded' \in 0 .. thumbnails
            /\ blind' = (~readable \/ uploaded' = 0)
            /\ IF Missing(uploaded', thumbnails, blind') = 0
                 THEN Go("type") /\ UNCHANGED <<chat, mode, round>>
               ELSE IF banner \/ round >= Rounds
                 THEN End("raised") /\ UNCHANGED <<chat, mode, round>>
               ELSE Go("attach") /\ round' = round + 1 /\ Reload
      BY <1>3, <2>3 DEF Attach
    <3>2. uploaded' \in 0 .. Refs
      BY <3>1, MessageAssumption
    <3>3. pc' = "type" => uploaded' = Refs \/ blind'
      <4> SUFFICES ASSUME pc' = "type", ~blind' PROVE uploaded' = Refs
        OBVIOUS
      <4>1. Missing(uploaded', thumbnails, blind') = Refs - uploaded'
        BY DEF Missing
      <4>2. Missing(uploaded', thumbnails, blind') = 0
        BY <3>1 DEF Go, End
      <4>3. QED
        BY <3>2, <4>1, <4>2, MessageAssumption
    <3>4. pc' \in {"type", "end", "attach"}
      BY <3>1 DEF Go, End
    <3>5. \/ UNCHANGED <<chat, mode, round>>
          \/ pc' = "attach" /\ round' = round + 1
      BY <3>1 DEF Go, End
    <3>6. QED
      BY <2>1, <3>2, <3>3, <3>4, <3>5
  <2>4. QED
    BY <2>2, <2>3
<1>4. CASE TypePrompt
  BY <1>4 DEF TypePrompt, Go, End
<1>5. CASE Breaks
  BY <1>5 DEF Breaks, End, composeVars
<1>6. CASE Press
  BY <1>6 DEF Press, Go
<1>7. CASE Look
  BY <1>7 DEF Look, Gone, NotGone, Go, End
<1>8. CASE AfterSend
  BY <1>8, AfterSendMoves DEF composeVars
<1>9. CASE Accept
  BY <1>9, MessageAssumption DEF Accept
<1>10. CASE Provider \/ Cancel
  BY <1>10, ProviderMoves DEF Cancel, restOfReply, composeVars
<1>11. CASE UNCHANGED vars
  BY <1>11 DEF vars, composeVars
<1>12. QED
  BY <1>1, <1>2, <1>3, <1>4, <1>5, <1>6, <1>7, <1>8, <1>9, <1>10, <1>11, NextSteps

LEMMA ComposedAlways == Spec => []Composed
BY ComposedInit, ComposedStep, PTL DEF Spec

(* Only a complete message goes out, whatever the page did while it was    *)
(* set up: uploads that fail, Send that is swallowed or acts late, drafts  *)
(* that stay.  Chat and mode are what was chosen unless a round of uploads *)
(* failed and the page was loaded anew.                                    *)
THEOREM OnlyCompleteGoesOut == Spec => SentOnlyComplete
<1>1. Composed /\ [Next]_vars => [sent' # sent => GoesOutComplete]_vars
  <2> SUFFICES ASSUME Composed, Next, sent' # sent PROVE GoesOutComplete
    BY DEF vars, replyVars
  <2>1. CASE Accept
    BY <2>1, MessageAssumption DEF Accept, Composed
  <2>2. CASE OpenChat \/ ChooseMode \/ Attach \/ TypePrompt \/ Breaks \/ Press \/ Look
    BY <2>2 DEF OpenChat, ChooseMode, Attach, TypePrompt, Breaks, Press, Look,
              Gone, NotGone, replyVars
  <2>3. CASE AfterSend \/ Provider \/ Cancel
    BY <2>3, AfterSendMoves, ProviderMoves DEF Cancel, restOfReply, replyVars
  <2>4. QED
    BY <2>1, <2>2, <2>3, NextSteps
<1>2. QED
  BY <1>1, ComposedAlways, PTL DEF Spec, SentOnlyComplete

-----------------------------------------------------------------------------
(* The contract of an attempt.                                             *)

PhaseAt(step) ==
  CASE step \in Before \cup Sending \cup {"sent"} -> "attaching"
    [] step = "told" -> "submitted"
    [] step \in {"poll", "judge", "quiet", "harvest", "got"} -> "waiting"
    [] step \in {"download", "compared"} -> "downloading"
    [] step = "save" -> "saving"

Steps == Before \cup Sending
           \cup {"sent", "told", "poll", "judge", "quiet", "harvest", "got",
                 "download", "compared", "save", "end"}

(* What the runtime was told goes with the executor's step, and once it    *)
(* looks away from the composer the provider has the message.              *)
InPhase ==
  /\ pc \in Steps /\ cancel \in {"none", "one", "all"}
  /\ verdict = "open" <=> pc # "end"
  /\ pc # "end" => phase = PhaseAt(pc)
  /\ pc \in Before => sent = "nothing"
  /\ pc \in Sending => (draft = "empty" <=> sent # "nothing")
  /\ pc = "end" /\ draft # "empty" /\ presses # 0
       => sent = "nothing" /\ phase = "attaching" /\ verdict = "not_sent"
  /\ pc \in Steps \ (Before \cup Sending \cup {"end"})
       => sent # "nothing" /\ draft = "empty"

LEMMA InPhaseInit == Init => InPhase
BY DEF Init, InPhase, Steps, Before, Sending, PhaseAt

(* One step keeps InPhase and is a step of the contract or a stutter.      *)
LEMMA ContractStep ==
  ASSUME Composed, InPhase, [Next]_vars
  PROVE  InPhase' /\ [Contract!Next]_(Contract!vars)
<1> USE DEF Composed, InPhase, Steps, Before, Sending, PhaseAt, Contract!Next,
            Contract!vars, Go, End
<1>1. CASE OpenChat \/ ChooseMode
  BY <1>1 DEF OpenChat, ChooseMode, Contract!Conclude, Contract!Verdicts, replyVars
<1>2. CASE Attach \/ TypePrompt \/ Breaks
  BY <1>2 DEF Attach, TypePrompt, Breaks, Contract!Conclude, Contract!Verdicts, replyVars, composeVars
<1>3. CASE Press \/ Look
  BY <1>3 DEF Press, Look, Gone, NotGone, Contract!Conclude, Contract!Verdicts, replyVars
<1>4. CASE TellSubmitted \/ TellWaiting
  BY <1>4 DEF TellSubmitted, TellWaiting, Contract!Conclude, Contract!Verdicts,
              Contract!Tell, Contract!Phases, replyVars, composeVars
<1>5. CASE PollStops \/ PollGathers \/ PollExpires
  BY <1>5 DEF PollStops, PollGathers, PollExpires, Leave, Contract!Conclude,
              Contract!Verdicts, replyVars, composeVars
<1>6. CASE JudgeQuota \/ JudgeText \/ JudgeEnough \/ JudgeRefusal
  BY <1>6 DEF JudgeQuota, JudgeText, JudgeEnough, JudgeRefusal, Leave,
              Contract!Conclude, Contract!Verdicts, replyVars, composeVars
<1>7. CASE JudgeRescan \/ JudgeWait \/ QuietStarts \/ QuietGrows
  BY <1>7 DEF JudgeRescan, JudgeWait, QuietStarts, QuietGrows, replyVars, composeVars
<1>8. CASE Harvest \/ Compare
  BY <1>8 DEF Harvest, Compare, Contract!Conclude, Contract!Verdicts, replyVars, composeVars
<1>9. CASE TellDownloading \/ TellSaving
  BY <1>9 DEF TellDownloading, TellSaving, Contract!Conclude, Contract!Verdicts,
              Contract!Tell, Contract!Phases, replyVars, composeVars
<1>10. CASE Download \/ Save \/ Deliver
  BY <1>10 DEF Download, Save, Deliver, Contract!Conclude, Contract!Verdicts,
               replyVars, composeVars
<1>11. CASE Accept
  BY <1>11, MessageAssumption DEF Accept, Contract!Spend, GoesOutComplete
<1>12. CASE Provider
  BY <1>12, ProviderMoves DEF restOfReply, composeVars, reportVars
<1>13. CASE Cancel
  BY <1>13 DEF Cancel, Contract!Revoke, composeVars, replyVars, reportVars
<1>14. CASE UNCHANGED vars
  BY <1>14 DEF vars, composeVars, replyVars, reportVars
<1>15. QED
  BY <1>1, <1>2, <1>3, <1>4, <1>5, <1>6, <1>7, <1>8, <1>9, <1>10, <1>11, <1>12,
     <1>13, <1>14, NextSteps DEF AfterSend

(* Every message keeps the contract the runtime relies on: the phases are  *)
(* told in their order and only of a message that was taken, and outputs   *)
(* come at the end of all of them.  While Send acts when it is looked at   *)
(* and the composer can be seen (Flaky = FALSE), "not sent" is true; when  *)
(* they may not (Flaky = TRUE), all but that is kept.                      *)
THEOREM AttemptContractKept == Spec => ImplementsAttempt
<1>1. Init => Contract!Init
  BY DEF Init, Contract!Init
<1>2. Composed /\ InPhase /\ [Next]_vars => InPhase' /\ [Contract!Next]_(Contract!vars)
  BY ContractStep
<1>3. QED
  BY <1>1, <1>2, InPhaseInit, ComposedAlways, PTL DEF Spec, ImplementsAttempt, Contract!Spec

-----------------------------------------------------------------------------
(* What is read from the page.                                             *)

LEMMA PicturesAreFinite == IsFiniteSet(Picture)
<1> DEFINE kinds == {"preview", "final", "variant"}
           pairs == Prompts \X kinds
           f == [p \in pairs |-> [of |-> p[1], kind |-> p[2]]]
<1>1. IsFiniteSet(Prompts)
  BY FS_Interval, MessageAssumption DEF Prompts
<1>2. IsFiniteSet(kinds)
  <2>1. IsFiniteSet({} \cup {"preview"})
    BY FS_EmptySet, FS_AddElement
  <2>2. IsFiniteSet(({} \cup {"preview"}) \cup {"final"})
    BY <2>1, FS_AddElement
  <2>3. IsFiniteSet((({} \cup {"preview"}) \cup {"final"}) \cup {"variant"})
    BY <2>2, FS_AddElement
  <2>4. kinds = (({} \cup {"preview"}) \cup {"final"}) \cup {"variant"}
    OBVIOUS
  <2>5. QED
    BY <2>3, <2>4
<1>3. IsFiniteSet(pairs)
  <2> HIDE DEF kinds
  <2>1. QED
    BY <1>1, <1>2, FS_Product
<1>4. f \in Surjection(pairs, Picture)
  <2>1. f \in [pairs -> Picture]
    BY DEF Picture
  <2>2. \A x \in Picture : x = f[<<x.of, x.kind>>] /\ <<x.of, x.kind>> \in pairs
    BY DEF Picture
  <2>3. QED
    BY <2>1, <2>2 DEF Surjection
<1>5. QED
  <2> HIDE DEF f, pairs
  <2>1. QED
    BY <1>3, <1>4, FS_Surjection

LEMMA ArrangementsAreSequences ==
  ASSUME NEW S \in SUBSET Picture, NEW s \in Arrangements(S)
  PROVE  s \in Seq(Picture) /\ Seen(s) = S
<1>1. Cardinality(S) \in Nat
  BY PicturesAreFinite, FS_Subset, FS_CardinalityType
<1>2. s \in [1 .. Cardinality(S) -> Picture] /\ Seen(s) = S
  BY DEF Arrangements
<1>3. QED
  BY <1>1, <1>2, SeqDef

LEMMA ScansAreSequences ==
  ASSUME drawn \subseteq Picture, bucket \in Seq(Picture), NEW s \in Scans
  PROVE  s \in Seq(Picture) /\ (s \in Scan => Seen(s) = drawn)
<1>1. Scan \subseteq Arrangements(drawn)
  BY DEF Scan, InOrder
<1>2. s \in Scan => s \in Seq(Picture) /\ Seen(s) = drawn
  BY <1>1, ArrangementsAreSequences
<1>3. s = bucket \/ s \in Scan
  BY DEF Scans
<1>4. QED
  BY <1>2, <1>3

LEMMA ReadingsAreSequences ==
  ASSUME drawn \subseteq Picture, bucket \in Seq(Picture), NEW s \in Readings
  PROVE  s \in Seq(Picture)
<1>1. CASE s = bucket
  BY <1>1
<1>2. ASSUME NEW S \in Mounted, NEW r \in InOrder(S), s = SelectedFirst(r)
      PROVE  s \in Seq(Picture)
  <2>1. S \subseteq Picture /\ S # {} /\ r \in Arrangements(S)
    BY DEF Mounted, InOrder
  <2>2. r \in Seq(Picture) /\ Seen(r) = S
    BY <2>1, ArrangementsAreSequences
  <2>3. Len(r) \in Nat \ {0}
    BY <2>1, <2>2 DEF Seen
  <2>4. r[Len(r)] \in Picture /\ SubSeq(r, 1, Len(r) - 1) \in Seq(Picture)
    BY <2>2, <2>3
  <2>5. QED
    BY <1>2, <2>4 DEF SelectedFirst
<1>3. QED
  BY <1>1, <1>2 DEF Readings

-----------------------------------------------------------------------------
(* Types.                                                                  *)

(* The counters have room for one more where they grow, and no picture is  *)
(* saved unless there is one for every prompt.                             *)
ComposeTyped ==
  /\ chat \in {"blank", "old"} /\ mode \in Modes
  /\ uploaded \in 0 .. Refs /\ blind \in BOOLEAN
  /\ round \in 1 .. Rounds /\ presses \in 0 .. Presses
  /\ draft \in {"empty", "batch", "soiled"}
  /\ pc \in Before => presses = 0
  /\ pc = "send" => presses < Presses

ReplyTyped ==
  /\ sent \in {"nothing", "batch", "soiled"} /\ reply \in Replies
  /\ drawn \subseteq Picture /\ words \in Words /\ pauses \in 0 .. MaxPauses

PollTyped ==
  /\ bucket \in Seq(Picture) /\ moved \in BOOLEAN
  /\ idle \in Nat /\ left \in 0 .. Deadline /\ calm \in 0 .. Quiet
  /\ pc = "judge" => left > 0
  /\ pc = "quiet" => calm < Quiet

ResultTyped ==
  /\ exit \in {"none", "quiet", "text", "refused", "deadline"}
  /\ scanned \in BOOLEAN
  /\ stood \in [drawn : SUBSET Picture, words : Words, reply : Replies]
  /\ tray \in Seq(Picture) /\ lost \subseteq Picture /\ outputs \in Seq(Picture)
  /\ cancel \in {"none", "one", "all"}
  /\ pc \in {"compared", "save"} => Len(tray) = N

Typed == ComposeTyped /\ ReplyTyped /\ PollTyped /\ ResultTyped

LEMMA BoundsAreNumbers ==
  /\ Deadline \in Nat /\ MaxPauses \in Nat /\ Quiet \in Nat \ {0}
  /\ N \in Nat \ {0} /\ Refs \in Nat /\ Rounds \in Nat \ {0} /\ Presses \in Nat \ {0}
BY MessageAssumption

LEMMA TypedInit == Init => Typed
<1> SUFFICES ASSUME Init PROVE Typed
  OBVIOUS
<1>1. ComposeTyped
  BY BoundsAreNumbers DEF Init, ComposeTyped, Before, Modes
<1>2. ReplyTyped
  BY BoundsAreNumbers DEF Init, ReplyTyped, Replies, Words
<1>3. <<>> \in Seq(Picture)
  BY EmptySeq
<1>4. PollTyped
  <2>1. /\ bucket \in Seq(Picture) /\ moved \in BOOLEAN /\ idle = 0
        /\ left = Deadline /\ calm = 0 /\ pc = "open"
    BY <1>3 DEF Init
  <2>2. QED
    BY <2>1, BoundsAreNumbers DEF PollTyped
<1>5. ResultTyped
  <2>1. stood \in [drawn : SUBSET Picture, words : Words, reply : Replies]
    BY DEF Init, Words, Replies
  <2>2. tray \in Seq(Picture) /\ outputs \in Seq(Picture)
    BY <1>3 DEF Init
  <2>3. QED
    BY <2>1, <2>2 DEF Init, ResultTyped
<1>6. QED
  BY <1>1, <1>2, <1>4, <1>5 DEF Typed

LEMMA ComposeTypedStep == ComposeTyped /\ Next => ComposeTyped'
<1> SUFFICES ASSUME ComposeTyped, Next PROVE ComposeTyped'
  OBVIOUS
<1> USE BoundsAreNumbers DEF ComposeTyped, Before
<1>1. CASE OpenChat \/ ChooseMode
  BY <1>1 DEF OpenChat, ChooseMode, Go, End
<1>2. CASE Attach
  <2>1. UNCHANGED <<draft, presses>> /\ pc = "attach" /\ pc' \in Before \cup {"end"}
    BY <1>2 DEF Attach, Go, End
  <2>6. chat' \in {"blank", "old"} /\ mode' \in Modes
    BY <1>2 DEF Attach, Reload
  <2>2. uploaded' \in 0 .. Refs
    BY <1>2 DEF Attach
  <2>3. blind' \in BOOLEAN
    BY <1>2, Zenon DEF Attach
  <2>4. round' \in 1 .. Rounds
    BY <1>2 DEF Attach
  <2>5. QED
    BY <2>1, <2>2, <2>3, <2>4, <2>6
<1>3. CASE TypePrompt \/ Breaks
  BY <1>3 DEF TypePrompt, Breaks, Go, End, composeVars
<1>4. CASE Press \/ Look
  <2>1. /\ UNCHANGED <<mode, uploaded, blind, draft>> /\ pc' \notin Before
        /\ chat' \in {chat, "old"} /\ round' \in {round, 1}
    BY <1>4 DEF Press, Look, Gone, NotGone, Go, End
  <2>2. presses' \in 0 .. Presses /\ (pc' = "send" => presses' < Presses)
    <3>1. CASE Press
      BY <3>1 DEF Press, Go
    <3>2. CASE Look
      BY <3>2 DEF Look, Gone, NotGone, Go, End
    <3>3. QED
      BY <1>4, <3>1, <3>2
  <2>3. QED
    BY <2>1, <2>2
<1>5. CASE AfterSend
  BY <1>5, AfterSendMoves DEF composeVars, Sending
<1>6. CASE Accept
  BY <1>6 DEF Accept
<1>7. CASE Provider \/ Cancel
  BY <1>7, ProviderMoves DEF Cancel, restOfReply, composeVars
<1>8. QED
  BY <1>1, <1>2, <1>3, <1>4, <1>5, <1>6, <1>7, NextSteps

LEMMA ReplyTypedStep == ReplyTyped /\ ComposeTyped /\ Next => ReplyTyped'
<1> SUFFICES ASSUME ReplyTyped, ComposeTyped, Next PROVE ReplyTyped'
  OBVIOUS
<1> USE BoundsAreNumbers DEF ReplyTyped
<1>1. CASE OpenChat \/ ChooseMode \/ Attach \/ TypePrompt \/ Breaks \/ Press \/ Look
  BY <1>1 DEF OpenChat, ChooseMode, Attach, TypePrompt, Breaks, Press, Look,
              Gone, NotGone, replyVars
<1>2. CASE AfterSend
  <2>1. reply' \in Replies
    <3>1. CASE PollStops
      BY <3>1 DEF PollStops, Replies
    <3>2. CASE ~PollStops
      BY <1>2, <3>2 DEF AfterSend, TellSubmitted, TellWaiting, PollGathers,
         PollExpires, JudgeQuota, JudgeText, JudgeEnough, JudgeRefusal, JudgeRescan,
         JudgeWait, QuietStarts, QuietGrows, Harvest, TellDownloading, Download,
         Compare, TellSaving, Save, Deliver, replyVars
    <3>3. QED
      BY <3>1, <3>2
  <2>2. QED
    BY <1>2, <2>1, AfterSendMoves
<1>3. CASE Accept
  BY <1>3 DEF Accept, ComposeTyped, Replies
<1>4. CASE Provider
  <2>1. sent' = sent
    BY <1>4, ProviderMoves DEF restOfReply
  <2>2. CASE StartDrawing \/ Pause \/ EndDrawing \/ Settle
    BY <2>1, <2>2 DEF StartDrawing, Pause, EndDrawing, Settle, Replies
  <2>3. ASSUME NEW p \in Prompts, ShowPreview(p) \/ Finish(p) \/ DrawVariant(p)
        PROVE  ReplyTyped'
    <3>1. {PreviewOf(p), FinalOf(p), VariantOf(p)} \subseteq Picture
      BY DEF PreviewOf, FinalOf, VariantOf, Picture
    <3>2. QED
      BY <2>1, <2>3, <3>1 DEF ShowPreview, Finish, DrawVariant
  <2>4. ASSUME NEW w \in {"text", "quota", "refusal"}, Say(w)
        PROVE  ReplyTyped'
    BY <2>1, <2>4 DEF Say, Words
  <2>5. QED
    BY <1>4, <2>2, <2>3, <2>4 DEF Provider
<1>5. CASE Cancel
  BY <1>5 DEF Cancel, replyVars
<1>6. QED
  BY <1>1, <1>2, <1>3, <1>4, <1>5, NextSteps

LEMMA PollTypedStep == PollTyped /\ ReplyTyped /\ Next => PollTyped'
<1> SUFFICES ASSUME PollTyped, ReplyTyped, Next PROVE PollTyped'
  OBVIOUS
<1> USE BoundsAreNumbers DEF PollTyped
<1>1. CASE OpenChat \/ ChooseMode \/ Attach \/ TypePrompt \/ Breaks \/ Press \/ Look
  BY <1>1 DEF OpenChat, ChooseMode, Attach, TypePrompt, Breaks, Press, Look, Gone, NotGone,
              pollVars, Go, End
<1>2. CASE TellSubmitted \/ TellWaiting \/ PollStops \/ PollExpires
  BY <1>2 DEF TellSubmitted, TellWaiting, PollStops, PollExpires, Leave, pollVars, Go, End
<1>3. CASE PollGathers
  <2>1. bucket' \in Seq(Picture)
    BY <1>3, ReadingsAreSequences DEF PollGathers, ReplyTyped
  <2>2. QED
    BY <1>3, <2>1 DEF PollGathers, Go
<1>4. CASE JudgeQuota \/ JudgeText \/ JudgeEnough \/ JudgeRefusal
  <2>1. CASE JudgeEnough
    <3>1. /\ bucket' = bucket /\ moved' \in BOOLEAN /\ idle' = 0 /\ left' = 0
          /\ calm' = 0 /\ pc' = "quiet"
      BY <2>1 DEF JudgeEnough, Go
    <3>2. QED
      BY <3>1
  <2>2. CASE JudgeQuota \/ JudgeText \/ JudgeRefusal
    BY <2>2 DEF JudgeQuota, JudgeText, JudgeRefusal, Leave, pollVars, Go, End
  <2>3. QED
    BY <1>4, <2>1, <2>2
<1>5. CASE JudgeRescan
  <2>1. bucket' \in Seq(Picture)
    BY <1>5, ScansAreSequences DEF JudgeRescan, ReplyTyped
  <2>2. QED
    BY <1>5, <2>1 DEF JudgeRescan, Go
<1>6. CASE JudgeWait
  <2>1. left > 0 /\ left' = left - 1 /\ moved' \in BOOLEAN /\ UNCHANGED <<bucket, calm>>
        /\ pc' = "poll"
    BY <1>6 DEF JudgeWait, Go
  <2>2. idle' \in Nat
    BY <1>6 DEF JudgeWait, Idle
  <2>3. QED
    BY <2>1, <2>2
<1>7. CASE QuietStarts
  <2>1. bucket' \in Seq(Picture)
    BY <1>7, ReadingsAreSequences DEF QuietStarts, ReplyTyped
  <2>2. QED
    BY <1>7, <2>1 DEF QuietStarts
<1>8. CASE QuietGrows
  <2>1. bucket' \in Seq(Picture)
    BY <1>8, ReadingsAreSequences DEF QuietGrows, ReplyTyped
  <2>2. calm' \in 0 .. Quiet /\ (pc' = "quiet" => calm' < Quiet) /\ pc' \in {"quiet", "harvest"}
    BY <1>8 DEF QuietGrows, Go
  <2>3. QED
    BY <1>8, <2>1, <2>2 DEF QuietGrows
<1>9. CASE Harvest
  <2>1. bucket' \in Seq(Picture)
    BY <1>9, ScansAreSequences DEF Harvest, ReplyTyped
  <2>2. /\ moved' \in BOOLEAN /\ idle' = 0 /\ left' = 0 /\ calm' = 0
        /\ pc' \in {"got", "end"}
    BY <1>9 DEF Harvest, Go, End
  <2>3. QED
    BY <2>1, <2>2
<1>10. CASE TellDownloading \/ Download \/ Compare \/ TellSaving \/ Save \/ Deliver
  BY <1>10 DEF TellDownloading, Download, Compare, TellSaving, Save, Deliver,
               pollVars, Go, End
<1>11. CASE Accept \/ Provider \/ Cancel
  BY <1>11, ProviderMoves DEF Accept, Cancel, restOfReply, pollVars
<1>12. QED
  BY <1>1, <1>2, <1>3, <1>4, <1>5, <1>6, <1>7, <1>8, <1>9, <1>10, <1>11, NextSteps
     DEF AfterSend

LEMMA ResultTypedStep == ResultTyped /\ PollTyped /\ ReplyTyped /\ Next => ResultTyped'
<1> SUFFICES ASSUME ResultTyped, PollTyped, ReplyTyped, Next PROVE ResultTyped'
  OBVIOUS
<1> USE BoundsAreNumbers DEF ResultTyped
<1>1. CASE OpenChat \/ ChooseMode \/ Attach \/ TypePrompt \/ Breaks \/ Press \/ Look
  BY <1>1 DEF OpenChat, ChooseMode, Attach, TypePrompt, Breaks, Press, Look, Gone, NotGone,
              harvestVars, resultVars, Go, End
<1>2. CASE TellSubmitted \/ TellWaiting \/ PollStops \/ PollGathers \/ PollExpires
  BY <1>2 DEF TellSubmitted, TellWaiting, PollStops, PollGathers, PollExpires,
              Leave, harvestVars, resultVars, Go, End
<1>3. CASE JudgeQuota \/ JudgeText \/ JudgeEnough \/ JudgeRefusal \/ JudgeRescan \/ JudgeWait
  BY <1>3 DEF JudgeQuota, JudgeText, JudgeEnough, JudgeRefusal, JudgeRescan,
              JudgeWait, Leave, harvestVars, resultVars, Go, End
<1>4. CASE QuietStarts \/ QuietGrows
  BY <1>4 DEF QuietStarts, QuietGrows, harvestVars, resultVars, Go
<1>5. CASE Harvest
  <2>1. scanned' \in BOOLEAN
    BY <1>5 DEF Harvest
  <2>2. stood' \in [drawn : SUBSET Picture, words : Words, reply : Replies]
    BY <1>5 DEF Harvest, ReplyTyped
  <2>3. QED
    BY <1>5, <2>1, <2>2 DEF Harvest, resultVars, Go, End
<1>6. CASE Download
  <2> DEFINE k == Len(tray) + Cardinality(lost) + 1
  <2>1. /\ pc = "download" /\ pc' = pc /\ k \in DOMAIN bucket
        /\ \/ tray' = Append(tray, bucket[k]) /\ UNCHANGED lost
           \/ lost' = lost \cup {bucket[k]} /\ UNCHANGED tray
        /\ UNCHANGED <<exit, scanned, stood, outputs, cancel>>
    BY <1>6 DEF Download, harvestVars
  <2>2. bucket[k] \in Picture
    BY <2>1 DEF PollTyped
  <2>3. tray' \in Seq(Picture) /\ lost' \subseteq Picture
    <3> HIDE DEF k
    <3>1. CASE tray' = Append(tray, bucket[k]) /\ UNCHANGED lost
      BY <2>2, <3>1
    <3>2. CASE lost' = lost \cup {bucket[k]} /\ UNCHANGED tray
      BY <2>2, <3>2
    <3>3. QED
      BY <2>1, <3>1, <3>2
  <2>4. QED
    <3> HIDE DEF k
    <3>1. QED
      BY <2>1, <2>3
<1>7. CASE Compare \/ TellDownloading \/ TellSaving \/ Deliver
  BY <1>7 DEF Compare, Fits, TellDownloading, TellSaving, Deliver, harvestVars,
              resultVars, Go, End
<1>8. CASE Save
  <2>1. pc = "save" /\ Len(outputs) + 1 \in 1 .. Len(tray)
    BY <1>8 DEF Save
  <2>2. tray[Len(outputs) + 1] \in Picture
    BY <2>1
  <2>3. outputs' \in Seq(Picture)
    <3>1. CASE outputs' = Append(outputs, tray[Len(outputs) + 1])
      BY <2>2, <3>1
    <3>2. CASE outputs' = outputs
      BY <3>2
    <3>3. QED
      BY <1>8, <3>1, <3>2 DEF Save
  <2>4. QED
    BY <1>8, <2>1, <2>3 DEF Save, harvestVars, End
<1>9. CASE Accept \/ Provider
  BY <1>9, ProviderMoves DEF Accept, restOfReply, harvestVars, resultVars
<1>10. CASE Cancel
  BY <1>10 DEF Cancel, harvestVars, resultVars
<1>11. QED
  BY <1>1, <1>2, <1>3, <1>4, <1>5, <1>6, <1>7, <1>8, <1>9, <1>10, NextSteps
     DEF AfterSend

LEMMA TypedAlways == Spec => []Typed
<1>1. Typed /\ UNCHANGED vars => Typed'
  BY DEF Typed, ComposeTyped, ReplyTyped, PollTyped, ResultTyped, vars, composeVars,
         replyVars, pollVars, harvestVars, resultVars, reportVars
<1>2. Typed /\ Next => Typed'
  BY ComposeTypedStep, ReplyTypedStep, PollTypedStep, ResultTypedStep DEF Typed
<1>3. QED
  BY <1>1, <1>2, TypedInit, PTL DEF Spec

(* Every variable of a message keeps its type, for any number of pictures, *)
(* references, tries and polls.                                            *)
THEOREM MessageTypes == Spec => []MessageTypeOK
<1>1. Typed => MessageTypeOK
  BY DEF Typed, MessageTypeOK, ComposeTyped, ReplyTyped, PollTyped, ResultTyped
<1>2. QED
  BY <1>1, TypedAlways, PTL

-----------------------------------------------------------------------------
(* What was paid for.                                                      *)

Collecting == {"got", "download", "compared", "save"}

(* The pictures the downloads have come to.                                *)
Reached == 1 .. (Len(tray) + Cardinality(lost))
Kept(x) == x \in Seen(tray) \cup lost

(* Nothing is in the tray before the last scan; then what the scan saw is  *)
(* kept as far as the downloads have come.                                 *)
Collected ==
  /\ pc # "end" => verdict = "open"
  /\ pc \notin Collecting \cup {"end"} => ~scanned /\ tray = <<>> /\ lost = {}
  /\ pc = "got" => tray = <<>> /\ lost = {}
  /\ pc \in Collecting /\ scanned => Seen(bucket) = stood.drawn
  /\ pc \in Collecting => \A i \in Reached \cap DOMAIN bucket : Kept(bucket[i])
  /\ pc \in {"compared", "save"} => \A i \in DOMAIN bucket : Kept(bucket[i])
  /\ PaidPicturesKept

LEMMA CollectedInit == Init => Collected
BY DEF Init, Collected, Collecting, PaidPicturesKept

(* The steps up to the last scan.                                          *)
LEMMA NothingCollectedYet ==
  ASSUME Next, ~(Harvest \/ TellDownloading \/ Download \/ Compare \/ TellSaving
                 \/ Save \/ Deliver \/ Accept \/ Provider \/ Cancel)
  PROVE  /\ pc \notin Collecting \cup {"end"} /\ pc' \notin Collecting
         /\ pc' # "end" => verdict' = verdict
         /\ UNCHANGED <<scanned, stood, tray, lost>>
<1> USE DEF Collecting, Go, End, Leave
<1>1. CASE OpenChat \/ ChooseMode \/ Attach \/ TypePrompt \/ Breaks \/ Press \/ Look
  BY <1>1 DEF OpenChat, ChooseMode, Attach, TypePrompt, Breaks, Press, Look, Gone, NotGone,
              harvestVars, resultVars
<1>2. CASE TellSubmitted \/ TellWaiting \/ PollStops \/ PollGathers \/ PollExpires
  BY <1>2 DEF TellSubmitted, TellWaiting, PollStops, PollGathers, PollExpires,
              harvestVars, resultVars
<1>3. CASE JudgeQuota \/ JudgeText \/ JudgeEnough \/ JudgeRefusal \/ JudgeRescan \/ JudgeWait
  BY <1>3 DEF JudgeQuota, JudgeText, JudgeEnough, JudgeRefusal, JudgeRescan,
              JudgeWait, harvestVars, resultVars
<1>4. CASE QuietStarts \/ QuietGrows
  BY <1>4 DEF QuietStarts, QuietGrows, harvestVars, resultVars
<1>5. QED
  BY <1>1, <1>2, <1>3, <1>4, NextSteps DEF AfterSend

LEMMA DownloadKeeps ==
  ASSUME Typed, Collected, Download
  PROVE  /\ pc = "download" /\ pc' = pc /\ verdict' = verdict
         /\ UNCHANGED <<bucket, scanned, stood>>
         /\ \A i \in Reached' \cap DOMAIN bucket : Kept(bucket[i])'
<1> DEFINE k == Len(tray) + Cardinality(lost) + 1
<1>1. /\ pc = "download" /\ pc' = pc /\ verdict' = verdict /\ k \in DOMAIN bucket
      /\ \/ tray' = Append(tray, bucket[k]) /\ UNCHANGED lost
         \/ lost' = lost \cup {bucket[k]} /\ UNCHANGED tray
      /\ UNCHANGED <<bucket, scanned, stood>>
  BY DEF Download, pollVars, harvestVars
<1>2. tray \in Seq(Picture) /\ IsFiniteSet(lost) /\ bucket[k] \in Picture
  BY <1>1, PicturesAreFinite, FS_Subset DEF Typed, ResultTyped, PollTyped
<1>3. Cardinality(lost) \in Nat /\ Len(tray) \in Nat
  BY <1>2, FS_CardinalityType
<1>4. \A i \in Reached \cap DOMAIN bucket : bucket[i] \in Seen(tray) \cup lost
  BY <1>1 DEF Collected, Collecting, Kept
<1>5. CASE tray' = Append(tray, bucket[k]) /\ UNCHANGED lost
  <2>1. Seen(tray)' = Seen(tray) \cup {bucket[k]} /\ Len(tray') = Len(tray) + 1
    <3> HIDE DEF k
    <3>1. QED
      BY <1>2, <1>5 DEF Seen
  <2>2. Reached' = Reached \cup {k}
    BY <1>3, <1>5, <2>1 DEF Reached
  <2>3. QED
    <3> HIDE DEF k
    <3>1. QED
      BY <1>1, <1>4, <1>5, <2>1, <2>2 DEF Kept
<1>6. CASE lost' = lost \cup {bucket[k]} /\ UNCHANGED tray
  <2>1. Cardinality(lost') = Cardinality(lost) \/ Cardinality(lost') = Cardinality(lost) + 1
    <3> HIDE DEF k
    <3>1. QED
      BY <1>2, <1>6, FS_AddElement
  <2>2. Reached' \subseteq Reached \cup {k}
    BY <1>3, <1>6, <2>1 DEF Reached
  <2>3. QED
    <3> HIDE DEF k
    <3>1. QED
      BY <1>1, <1>4, <1>6, <2>2 DEF Kept
<1>7. QED
  BY <1>1, <1>5, <1>6

LEMMA CollectedStep == Typed /\ Collected /\ [Next]_vars => Collected'
<1> SUFFICES ASSUME Typed, Collected, [Next]_vars PROVE Collected'
  OBVIOUS
<1> DEFINE Later == Harvest \/ TellDownloading \/ Download \/ Compare \/ TellSaving
                    \/ Save \/ Deliver \/ Accept \/ Provider \/ Cancel
<1>1. CASE Next /\ ~Later
  BY <1>1, NothingCollectedYet DEF Collected, PaidPicturesKept, Collecting
<1>2. CASE Harvest
  <2>1. /\ pc = "harvest" /\ bucket' \in Scans /\ scanned' = (bucket' \in Scan)
        /\ stood'.drawn = drawn /\ tray' = tray /\ lost' = lost
    BY <1>2 DEF Harvest, resultVars
  <2>2. \/ pc' = "got" /\ verdict' = verdict
        \/ pc' = "end" /\ bucket' = <<>>
    BY <1>2 DEF Harvest, Go, End
  <2>3. tray = <<>> /\ lost = {} /\ verdict = "open"
    BY <2>1 DEF Collected, Collecting
  <2>4. scanned' => Seen(bucket') = stood'.drawn
    BY <2>1, ScansAreSequences DEF Typed, ReplyTyped, PollTyped
  <2>5. Reached' = {}
    BY <2>1, <2>3, FS_EmptySet DEF Reached
  <2>6. CASE pc' = "got"
    BY <2>1, <2>2, <2>3, <2>4, <2>5, <2>6 DEF Collected, Collecting, PaidPicturesKept
  <2>7. CASE pc' = "end" /\ bucket' = <<>>
    <3>1. Seen(bucket') = {}
      BY <2>7 DEF Seen
    <3>2. QED
      BY <2>4, <2>7, <3>1 DEF Collected, Collecting, PaidPicturesKept
  <2>8. QED
    BY <2>2, <2>6, <2>7
<1>3. CASE TellDownloading \/ TellSaving
  <2>1. /\ UNCHANGED <<bucket, scanned, stood, tray, lost>>
        /\ \/ pc' = "end" /\ verdict' = "raised"
           \/ pc = "got" /\ pc' = "download" /\ verdict' = verdict
           \/ pc = "compared" /\ pc' = "save" /\ verdict' = verdict
    BY <1>3 DEF TellDownloading, TellSaving, Go, End, pollVars, harvestVars, resultVars
  <2>2. Reached' = Reached /\ \A x : Kept(x)' = Kept(x)
    BY <2>1 DEF Reached, Kept, Seen
  <2>3. QED
    BY <2>1, <2>2 DEF Collected, Collecting, PaidPicturesKept
<1>4. CASE Download
  BY <1>4, DownloadKeeps DEF Collected, Collecting, PaidPicturesKept
<1>5. CASE Compare
  <2>1. /\ UNCHANGED <<bucket, scanned, stood, tray, lost>>
        /\ pc = "download" /\ Len(tray) + Cardinality(lost) = Len(bucket)
        /\ (pc' = "compared" /\ verdict' = verdict) \/ pc' = "end"
    BY <1>5 DEF Compare, Go, End, pollVars, harvestVars, resultVars
  <2>2. DOMAIN bucket = Reached
    BY <2>1 DEF Reached, Typed, PollTyped
  <2>3. \A i \in DOMAIN bucket : Kept(bucket[i])
    BY <2>1, <2>2 DEF Collected, Collecting
  <2>4. Reached' = Reached /\ \A x : Kept(x)' = Kept(x)
    BY <2>1 DEF Reached, Kept, Seen
  <2>5. CASE pc' = "compared" /\ verdict' = verdict
    BY <2>1, <2>3, <2>4, <2>5 DEF Collected, Collecting, PaidPicturesKept
  <2>6. CASE pc' = "end"
    <3>1. scanned => \A x \in stood.drawn : Kept(x)
      BY <2>1, <2>3 DEF Collected, Collecting, Seen
    <3>2. QED
      BY <2>1, <2>4, <2>6, <3>1 DEF Collected, Collecting, PaidPicturesKept, Kept
  <2>7. QED
    BY <2>1, <2>5, <2>6
<1>6. CASE Save \/ Deliver
  <2>1. /\ UNCHANGED <<bucket, scanned, stood, tray, lost>> /\ pc = "save"
        /\ (pc' = "save" /\ verdict' = verdict) \/ pc' = "end"
    BY <1>6 DEF Save, Deliver, Go, End, pollVars, harvestVars, resultVars
  <2>2. Reached' = Reached /\ \A x : Kept(x)' = Kept(x)
    BY <2>1 DEF Reached, Kept, Seen
  <2>3. scanned => \A x \in stood.drawn : Kept(x)
    BY <2>1 DEF Collected, Collecting, Seen
  <2>4. CASE pc' = "save" /\ verdict' = verdict
    BY <2>1, <2>2, <2>4 DEF Collected, Collecting, PaidPicturesKept
  <2>5. CASE pc' = "end"
    BY <2>1, <2>2, <2>3, <2>5 DEF Collected, Collecting, PaidPicturesKept, Kept
  <2>6. QED
    BY <2>1, <2>4, <2>5
<1>7. CASE Accept \/ Provider \/ Cancel \/ UNCHANGED vars
  <2>1. UNCHANGED <<pc, verdict, bucket, scanned, stood, tray, lost>>
    BY <1>7, ProviderMoves DEF Accept, Cancel, restOfReply, pollVars, harvestVars,
       resultVars, reportVars, vars
  <2>2. Reached' = Reached /\ \A x : Kept(x)' = Kept(x)
    BY <2>1 DEF Reached, Kept, Seen
  <2>3. QED
    BY <2>1, <2>2 DEF Collected, Collecting, PaidPicturesKept, Seen
<1>8. QED
  BY <1>1, <1>2, <1>3, <1>4, <1>5, <1>6, <1>7

(* Every picture the page showed at the last scan is in the tray or could  *)
(* not be downloaded, however the pictures moved before.                   *)
THEOREM PaidPicturesAreKept == Spec => []PaidPicturesKept
<1>1. Collected => PaidPicturesKept
  BY DEF Collected
<1>2. QED
  BY <1>1, TypedAlways, CollectedInit, CollectedStep, PTL DEF Spec

-----------------------------------------------------------------------------
(* Which picture goes to which prompt.                                     *)

Finals == {FinalOf(p) : p \in Prompts}

LEMMA PromptsAreN == IsFiniteSet(Prompts) /\ Cardinality(Prompts) = N
<1>1. 1 \in Int /\ N \in Int /\ ~(1 > N)
  BY MessageAssumption
<1>2. IsFiniteSet(1 .. N) /\ Cardinality(1 .. N) = N - 1 + 1
  BY <1>1, FS_Interval
<1>3. QED
  BY <1>2, MessageAssumption DEF Prompts

LEMMA FinalsAreN == IsFiniteSet(Finals) /\ Cardinality(Finals) = N
<1> DEFINE f == [p \in Prompts |-> FinalOf(p)]
<1>1. IsFiniteSet(Prompts) /\ Cardinality(Prompts) = N
  BY PromptsAreN
<1>2. f \in Bijection(Prompts, Finals)
  BY DEF Bijection, Injection, Surjection, IsInjective, Finals, FinalOf
<1>3. QED
  <2> HIDE DEF f
  <2>1. QED
    BY <1>1, <1>2, FS_Bijection DEF ExistsBijection

(* A sequence of N pictures, one for each prompt, in the order of the      *)
(* prompts: the k-th is the one of prompt k.                               *)
LEMMA OrderedFinals ==
  ASSUME NEW s \in InOrder(Finals), NEW p \in Prompts
  PROVE  s[p] = FinalOf(p)
<1> DEFINE less == {d \in Nat \X Nat : d[1] < d[2]}
           Wrong == {q \in Prompts : s[q] # FinalOf(q)}
<1>1. /\ s \in [Prompts -> Finals] /\ Seen(s) = Finals
      /\ \A i, j \in Prompts : Precedes(s[i], s[j]) => i < j
  BY FinalsAreN DEF InOrder, Arrangements, Prompts
<1>2. s \in Injection(Prompts, Finals)
  <2>1. s \in Surjection(Prompts, Finals)
    BY <1>1 DEF Surjection, Seen
  <2>2. IsFiniteSet(Prompts) /\ Cardinality(Prompts) = N
    BY PromptsAreN
  <2>3. QED
    BY <2>1, <2>2, FinalsAreN, FS_Surjection
<1>3. \A i, j \in Prompts : s[i] = s[j] => i = j
  BY <1>2 DEF Injection, IsInjective
<1>4. \A i, j \in Prompts : FinalOf(i) = FinalOf(j) => i = j
  BY DEF FinalOf
<1>5. \A i, j \in Prompts, a, b \in Prompts :
        s[i] = FinalOf(a) /\ s[j] = FinalOf(b) /\ a < b => i < j
  BY <1>1 DEF Precedes, FinalOf
<1>6. SUFFICES ASSUME Wrong # {} PROVE FALSE
  OBVIOUS
<1>7. PICK q \in Wrong : \A r \in Wrong : ~(r < q)
  <2>1. Wrong \subseteq Nat
    BY MessageAssumption DEF Prompts
  <2>2. IsWellFoundedOn(less, Nat)
    BY NatLessThanWellFounded DEF OpToRel
  <2>3. PICK q \in Wrong : \A r \in Wrong : <<r, q>> \notin less
    <3> HIDE DEF less, Wrong
    <3>1. QED
      BY <1>6, <2>1, <2>2, WFMin
  <2>4. QED
    BY <2>1, <2>3
<1>8. PICK r \in Prompts : s[q] = FinalOf(r)
  BY <1>1 DEF Finals
<1>9. r # q
  BY <1>8
<1>10. PICK m \in Prompts : s[m] = FinalOf(q)
  BY <1>1 DEF Finals, Seen
<1>11. q \in Nat /\ r \in Nat /\ m \in Nat
  BY MessageAssumption DEF Prompts
<1>12. ~(r < q)
  <2> SUFFICES ASSUME r < q PROVE FALSE
    OBVIOUS
  <2>1. s[r] = FinalOf(r)
    BY <1>7
  <2>2. QED
    BY <1>3, <1>8, <1>9, <2>1
<1>13. m < q
  BY <1>5, <1>8, <1>9, <1>10, <1>11, <1>12
<1>14. s[m] = FinalOf(m)
  BY <1>7, <1>13
<1>15. QED
  BY <1>4, <1>10, <1>11, <1>13, <1>14

NoPreview(S) == \A x \in S : x.kind # "preview"

(* A wait that ended in quiet found a reply that is done, and what it read *)
(* there in order is what is downloaded and saved.                         *)
Settled ==
  /\ exit = "quiet" => pc \in {"harvest", "end"} \cup Collecting
  /\ pc = "harvest" /\ exit = "quiet" => reply = "done"
  /\ reply \in {"settling", "done"} /\ pc # "end" => NoPreview(drawn)
  /\ pc \notin Before \cup Sending \cup {"end"} => draft = "empty"
  /\ pc \in Collecting \cup {"end"} /\ exit = "quiet" /\ scanned
       => bucket \in InOrder(stood.drawn) /\ NoPreview(stood.drawn)

Mapped ==
  /\ lost = {} => \A i \in DOMAIN tray : i \in DOMAIN bucket /\ tray[i] = bucket[i]
  /\ pc \in {"compared", "save"} => Len(tray) + Cardinality(lost) = Len(bucket)
  /\ outputs # <<>> => /\ pc \in {"save", "end"} /\ Len(tray) = N
                       /\ Len(tray) + Cardinality(lost) = Len(bucket)
  /\ \A i \in DOMAIN outputs : i \in Prompts /\ outputs[i] = tray[i]

LEMMA RightPictures ==
  ASSUME Typed, Collected, Settled, Mapped
  PROVE  PicturesMatchPrompts
<1> DEFINE D == stood.drawn
<1> SUFFICES ASSUME exit = "quiet", scanned,
                    \/ \A x \in D : x.kind # "variant"
                    \/ lost = {} /\ \A q \in Prompts : FinalOf(q) \in D,
                    NEW p \in DOMAIN outputs
             PROVE  outputs[p] = FinalOf(p)
  BY DEF PicturesMatchPrompts
<1>1. /\ outputs # <<>> /\ p \in Prompts /\ outputs[p] = tray[p] /\ Len(tray) = N
      /\ Len(tray) + Cardinality(lost) = Len(bucket) /\ pc \in {"save", "end"}
  BY DEF Mapped
<1>2. bucket \in InOrder(D) /\ NoPreview(D)
  BY <1>1 DEF Settled, Collecting
<1>3. D \subseteq Picture /\ tray \in Seq(Picture) /\ lost \subseteq Picture
  BY DEF Typed, ResultTyped
<1>4. IsFiniteSet(D) /\ IsFiniteSet(lost)
  BY <1>3, PicturesAreFinite, FS_Subset
<1>5. Cardinality(D) \in Nat /\ Cardinality(lost) \in Nat
  BY <1>4, FS_CardinalityType
<1>6. Len(bucket) = Cardinality(D)
  BY <1>2, <1>5 DEF InOrder, Arrangements
<1>7. Cardinality(D) = N + Cardinality(lost)
  BY <1>1, <1>6
<1>8. D = Finals /\ lost = {}
  <2>1. CASE \A x \in D : x.kind # "variant"
    <3>1. D \subseteq Finals
      BY <1>2, <1>3, <2>1 DEF NoPreview, Finals, FinalOf, Picture
    <3>2. Cardinality(D) <= N /\ (Cardinality(D) = N => D = Finals)
      BY <3>1, FinalsAreN, FS_Subset
    <3>3. Cardinality(lost) = 0
      BY <1>5, <1>7, <3>2, MessageAssumption
    <3>4. QED
      BY <1>4, <1>7, <3>2, <3>3, MessageAssumption, FS_EmptySet
  <2>2. CASE lost = {} /\ \A q \in Prompts : FinalOf(q) \in D
    <3>1. Finals \subseteq D
      BY <2>2 DEF Finals
    <3>2. Cardinality(lost) = 0
      BY <2>2, FS_EmptySet
    <3>3. Cardinality(D) = Cardinality(Finals)
      BY <1>7, <3>2, FinalsAreN, MessageAssumption
    <3>4. QED
      BY <1>4, <2>2, <3>1, <3>3, FS_Subset
  <2>3. QED
    BY <2>1, <2>2
<1>9. tray[p] = bucket[p]
  BY <1>1, <1>3, <1>8 DEF Mapped, Prompts
<1>10. QED
  BY <1>1, <1>2, <1>8, <1>9, OrderedFinals

LEMMA SettledInit == Init => Settled /\ Mapped
<1> SUFFICES ASSUME Init PROVE Settled /\ Mapped
  OBVIOUS
<1>1. Settled
  BY DEF Init, Settled, NoPreview, Before, Sending, Collecting
<1>2. DOMAIN tray = {} /\ DOMAIN outputs = {}
  BY DEF Init
<1>3. Mapped
  BY <1>2 DEF Init, Mapped
<1>4. QED
  BY <1>1, <1>3

(* The last scan of a reply that is done reads the pictures in order.      *)
LEMMA HarvestReadsInOrder ==
  ASSUME Settled, Harvest
  PROVE  Settled'
<1>1. /\ pc = "harvest" /\ pc' \in {"got", "end"} /\ exit' = exit
      /\ scanned' => bucket' \in Scan
      /\ stood'.drawn = drawn /\ UNCHANGED <<draft, drawn, reply>>
  BY DEF Harvest, Go, End, composeVars, replyVars
<1>2. exit = "quiet" => Scan = InOrder(drawn) /\ NoPreview(drawn)
  BY <1>1 DEF Settled, Scan
<1>3. QED
  BY <1>1, <1>2 DEF Settled, NoPreview, Before, Sending, Collecting

LEMMA SettledStep == Collected /\ Settled /\ [Next]_vars => Settled'
<1> SUFFICES ASSUME Collected, Settled, [Next]_vars PROVE Settled'
  OBVIOUS
<1>1. CASE Next /\ ~(Harvest \/ TellDownloading \/ Download \/ Compare
                       \/ TellSaving \/ Save \/ Deliver \/ Accept \/ Provider \/ Cancel)
  <2>1. /\ pc \notin Collecting \cup {"end"} /\ pc' \notin Collecting
        /\ UNCHANGED <<scanned, stood, tray, lost>>
    BY <1>1, NothingCollectedYet
  <2>2. ~scanned'
    BY <2>1 DEF Collected
  <2>3. CASE OpenChat \/ ChooseMode \/ Attach \/ TypePrompt \/ Breaks \/ Press \/ Look
    <3>1. /\ UNCHANGED <<reply, drawn, exit>> /\ pc \in Before \cup Sending
          /\ \/ pc' \in Before \cup Sending \cup {"end"}
             \/ pc' = "sent" /\ draft' = "empty"
      BY <2>3 DEF OpenChat, ChooseMode, Attach, TypePrompt, Breaks, Press, Look, Gone, NotGone,
         Go, End, replyVars, harvestVars, composeVars, Before, Sending
    <3>2. QED
      BY <2>1, <2>2, <3>1 DEF Settled, NoPreview, Before, Sending, Collecting
  <2>4. CASE AfterSend
    <3>1. /\ pc \notin Before \cup Sending \cup {"end"} /\ draft' = draft /\ drawn' = drawn
      BY <2>4, AfterSendMoves DEF composeVars
    <3>2. pc' # "end" => reply' = reply
      BY <1>1, <2>4 DEF AfterSend, TellSubmitted, TellWaiting, PollStops, PollGathers,
         PollExpires, JudgeQuota, JudgeText, JudgeEnough, JudgeRefusal, JudgeRescan,
         JudgeWait, QuietStarts, QuietGrows, replyVars, End
    <3>3. exit' = "quiet" => pc' \in {"harvest", "end"}
                             /\ (pc' = "harvest" => reply = "done")
      <4>1. CASE QuietGrows
        BY <2>1, <4>1 DEF QuietGrows, Go, Settled, Collecting
      <4>2. CASE TellSubmitted \/ TellWaiting \/ PollStops \/ PollGathers \/ PollExpires
                   \/ QuietStarts
        BY <2>1, <4>2 DEF TellSubmitted, TellWaiting, PollStops, PollGathers,
           PollExpires, QuietStarts, Leave, harvestVars, Settled, Go, End, Collecting
      <4>3. CASE JudgeQuota \/ JudgeText \/ JudgeEnough \/ JudgeRefusal
                   \/ JudgeRescan \/ JudgeWait
        BY <2>1, <4>3 DEF JudgeQuota, JudgeText, JudgeEnough, JudgeRefusal, JudgeRescan,
           JudgeWait, Leave, harvestVars, Settled, Go, End, Collecting
      <4>4. QED
        BY <1>1, <2>4, <4>1, <4>2, <4>3 DEF AfterSend
    <3>4. QED
      BY <2>1, <2>2, <3>1, <3>2, <3>3 DEF Settled, NoPreview, Collecting
  <2>5. QED
    BY <1>1, <2>3, <2>4, NextSteps
<1>2. CASE Harvest
  BY <1>2, HarvestReadsInOrder
<1>3. CASE TellDownloading \/ Download \/ Compare \/ TellSaving \/ Save \/ Deliver
  <2>1. /\ pc \in Collecting /\ pc' \in Collecting \cup {"end"}
        /\ UNCHANGED <<draft, drawn, reply, exit, bucket, scanned, stood>>
    BY <1>3 DEF TellDownloading, Download, Compare, TellSaving, Save, Deliver, Go,
       End, composeVars, replyVars, pollVars, harvestVars, Collecting
  <2>2. QED
    BY <2>1 DEF Settled, NoPreview, Before, Sending, Collecting
<1>4. CASE Accept
  BY <1>4 DEF Accept, Settled, NoPreview, pollVars, harvestVars, Before, Sending, Collecting
<1>5. CASE Provider
  <2>1. UNCHANGED <<pc, draft, exit, bucket, scanned, stood>>
    BY <1>5, ProviderMoves DEF restOfReply, composeVars, pollVars, harvestVars
  <2>2. reply = "done" => reply' = "done"
    BY <1>5 DEF Provider, StartDrawing, Pause, EndDrawing, Settle, ShowPreview,
       Finish, DrawVariant, Say, Drawing
  <2>3. reply' \in {"settling", "done"} /\ pc # "end" => NoPreview(drawn')
    BY <1>5 DEF Provider, StartDrawing, Pause, EndDrawing, Settle, ShowPreview,
       Finish, DrawVariant, Say, Drawing, Settled, NoPreview
  <2>4. QED
    BY <2>1, <2>2, <2>3 DEF Settled, NoPreview
<1>6. CASE Cancel \/ UNCHANGED vars
  BY <1>6 DEF Cancel, vars, Settled, NoPreview, composeVars, replyVars, pollVars, harvestVars
<1>7. QED
  BY <1>1, <1>2, <1>3, <1>4, <1>5, <1>6

LEMMA DownloadMaps ==
  ASSUME Typed, Collected, Mapped, Download
  PROVE  Mapped'
<1> DEFINE k == Len(tray) + Cardinality(lost) + 1
<1>1. /\ pc = "download" /\ pc' = pc /\ k \in DOMAIN bucket
      /\ \/ tray' = Append(tray, bucket[k]) /\ UNCHANGED lost
         \/ lost' = lost \cup {bucket[k]} /\ UNCHANGED tray
      /\ UNCHANGED <<bucket, outputs>>
  BY DEF Download, pollVars
<1>2. tray \in Seq(Picture) /\ Len(tray) \in Nat /\ DOMAIN tray = 1 .. Len(tray)
  BY DEF Typed, ResultTyped
<1>3. outputs = <<>> /\ DOMAIN outputs = {}
  BY <1>1 DEF Mapped
<1>4. ASSUME lost' = {}, NEW i \in DOMAIN tray'
      PROVE  i \in DOMAIN bucket /\ tray'[i] = bucket[i]
  <2>1. lost = {} /\ tray' = Append(tray, bucket[k])
    <3> HIDE DEF k
    <3>1. QED
      BY <1>1, <1>4
  <2>2. k = Len(tray) + 1
    BY <1>2, <2>1, FS_EmptySet
  <2>3. CASE i = k
    <3>1. bucket[k] \in Picture
      BY <1>1 DEF Typed, PollTyped
    <3> HIDE DEF k
    <3>2. tray'[Len(tray) + 1] = bucket[k]
      BY <1>2, <2>1, <3>1
    <3>3. QED
      BY <1>1, <2>2, <2>3, <3>2
  <2>4. CASE i # k
    <3> HIDE DEF k
    <3>1. i \in DOMAIN tray /\ tray'[i] = tray[i]
      BY <1>2, <1>4, <2>1, <2>2, <2>4
    <3>2. QED
      BY <2>1, <3>1 DEF Mapped
  <2>5. QED
    BY <2>3, <2>4
<1>5. QED
  BY <1>1, <1>3, <1>4 DEF Mapped

LEMMA MappedStep == Typed /\ Collected /\ Mapped /\ [Next]_vars => Mapped'
<1> SUFFICES ASSUME Typed, Collected, Mapped, [Next]_vars PROVE Mapped'
  OBVIOUS
<1>1. CASE \/ Harvest
           \/ Next /\ ~(Harvest \/ TellDownloading \/ Download \/ Compare
                       \/ TellSaving \/ Save \/ Deliver \/ Accept \/ Provider \/ Cancel)
  <2>1. /\ pc \notin Collecting \cup {"end"} /\ pc' \notin {"compared", "save"}
        /\ UNCHANGED <<tray, lost>>
    BY <1>1, NothingCollectedYet DEF Harvest, Go, End, resultVars, Collecting
  <2>2. outputs' = outputs
    BY <1>1, <2>1, NextSteps DEF AfterSend, OpenChat, ChooseMode, Attach, TypePrompt,
       Breaks, Press, Look, Gone, NotGone, TellSubmitted, TellWaiting, PollStops, PollGathers,
       PollExpires, JudgeQuota, JudgeText, JudgeEnough, JudgeRefusal, JudgeRescan,
       JudgeWait, QuietStarts, QuietGrows, Harvest, resultVars
  <2>3. outputs = <<>> /\ tray = <<>>
    BY <2>1 DEF Mapped, Collected, Collecting
  <2>4. DOMAIN tray' = {} /\ DOMAIN outputs' = {}
    BY <2>1, <2>2, <2>3
  <2>5. QED
    BY <2>1, <2>2, <2>3, <2>4 DEF Mapped
<1>2. CASE TellDownloading \/ TellSaving \/ Compare \/ Deliver
  <2>1. UNCHANGED <<bucket, tray, lost, outputs>>
    BY <1>2 DEF TellDownloading, TellSaving, Compare, Deliver, pollVars, resultVars
  <2>2. \/ pc \in {"compared", "got", "download"}
        \/ pc = "save" /\ pc' = "end"
    BY <1>2 DEF TellDownloading, TellSaving, Compare, Deliver, End
  <2>3. pc' \in {"compared", "save"} => Len(tray) + Cardinality(lost) = Len(bucket)
    <3>1. CASE TellDownloading \/ Deliver
      BY <3>1 DEF TellDownloading, Deliver, Go, End
    <3>2. CASE TellSaving
      BY <3>2 DEF TellSaving, Mapped
    <3>3. CASE Compare
      BY <3>3 DEF Compare
    <3>4. QED
      BY <1>2, <3>1, <3>2, <3>3
  <2>4. QED
    BY <2>1, <2>2, <2>3 DEF Mapped
<1>3. CASE Download
  BY <1>3, DownloadMaps
<1>4. CASE Save
  <2>1. /\ pc = "save" /\ pc' \in {"save", "end"} /\ UNCHANGED <<bucket, tray, lost>>
        /\ Len(outputs) < N
        /\ \/ outputs' = Append(outputs, tray[Len(outputs) + 1])
           \/ outputs' = outputs
    BY <1>4 DEF Save, End, pollVars
  <2>2. /\ Len(tray) = N /\ Len(tray) + Cardinality(lost) = Len(bucket)
        /\ outputs \in Seq(Picture)
    BY <2>1 DEF Typed, ResultTyped, Mapped
  <2>3. \A i \in DOMAIN outputs' : i \in Prompts /\ outputs'[i] = tray[i]
    <3>1. CASE outputs' = Append(outputs, tray[Len(outputs) + 1])
      BY <2>1, <2>2, <3>1, MessageAssumption DEF Mapped, Prompts
    <3>2. CASE outputs' = outputs
      BY <3>2 DEF Mapped
    <3>3. QED
      BY <2>1, <3>1, <3>2
  <2>4. QED
    BY <2>1, <2>2, <2>3 DEF Mapped
<1>5. CASE Accept \/ Provider \/ Cancel \/ UNCHANGED vars
  <2>1. UNCHANGED <<pc, bucket, tray, lost, outputs>>
    BY <1>5, ProviderMoves DEF Accept, Cancel, restOfReply, pollVars, resultVars, vars
  <2>2. QED
    BY <2>1 DEF Mapped
<1>6. QED
  BY <1>1, <1>2, <1>3, <1>4, <1>5

(* A picture that is saved for a prompt is the finished picture of that    *)
(* prompt, if the wait ended in quiet and the last scan read the page: for *)
(* any number of pictures, previews, pauses and failed readings before.    *)
THEOREM PicturesGoToTheirPrompts == Spec => []PicturesMatchPrompts
<1>1. Spec => []Collected
  BY TypedAlways, CollectedInit, CollectedStep, PTL DEF Spec
<1>2. Typed /\ Collected /\ Settled /\ Mapped => PicturesMatchPrompts
  BY RightPictures
<1>3. QED
  BY <1>1, <1>2, TypedAlways, SettledInit, SettledStep, MappedStep, PTL DEF Spec
=============================================================================
