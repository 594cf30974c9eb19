---------------------------- MODULE AutoScanner ----------------------------
(***************************************************************************)
(* The automatic scanner of a scene on top of the intents it opens:        *)
(* _auto_runner, _auto_quet_mot_vong and _auto_scene of sfboard.py, the    *)
(* switches /api/auto and /api/auto-video and the button that stops        *)
(* everything, /api/dung-het.                                              *)
(*                                                                         *)
(* A round first looks for jobs a person has to decide, then reads files   *)
(* and jobs without a lock, and then hands over lot after lot, each one    *)
(* under AUTO_LOCK after another look at the switch.  Clicks, cancels, the *)
(* runtime and the switches move on in between.  The switch is the dict in *)
(* AUTO, so pressing it again makes another one.  The stop generation is   *)
(* left out: who raises it clears the switches in the same critical        *)
(* section.  A lot is one execution: cancelling one of its jobs cancels    *)
(* them all.  A click may have looked long ago, so nobody looks here, and  *)
(* Guarded is to be empty.                                                 *)
(* The clean-up races with requests in Intents and stays idle here.        *)
(***************************************************************************)
EXTENDS Intents

CONSTANTS Images,     \* the image cards a round is about
          InScene,    \* those of the scene itself; the others are its references
          Videos,     \* the shots of the scene
          Refs,       \* image -> the images it refers to
          FrameOf,    \* video -> its image
          Written0,   \* the cards that have a prompt at first
          Cooldown,   \* AUTO_COOLDOWN, in rounds
          MaxPresses  \* bound on the presses of the two switches

ASSUME ScannerAssumption ==
  /\ InScene \subseteq Images /\ Images \cap Videos = {}
  /\ Refs \in [InScene -> SUBSET Images] /\ FrameOf \in [Videos -> Images]
  /\ Written0 \subseteq Images
  /\ Cooldown \in Nat \ {0} /\ MaxPresses \in Nat

VARIABLES auto,      \* the scene's entry in AUTO: off or the press it is from
          presses,   \* how often a switch has been pressed
          autoVideo, \* .auto-video.json
          written,   \* the cards with a prompt                 (board JSON)
          present,   \* the assets with a file
          finished,  \* jobs completed whose outcome is not applied yet
          rest,      \* asset -> rounds until it may be handed over again
          scan,      \* the round of the runner
          stop       \* a stop-all: its step, the labels it has yet to cancel,
                     \* and whether the scene was switched on again since

intents == <<lots, tables, inFlight, handed, cleaner>>
switches == <<auto, presses, autoVideo>>
board == <<written, present, finished>>
scanVars == <<intents, switches, board, rest, scan, stop>>

Off == 0
Assets == Images \cup Videos
NoRound == [step |-> "idle"]
NoStop == [step |-> "idle", labels |-> {}, again |-> FALSE]
Fresh == [a \in Assets |-> 0]

ScanInit ==
  /\ Init
  /\ auto = Off /\ presses = 0 /\ autoVideo = FALSE
  /\ written = Written0 /\ present = {} /\ finished = {}
  /\ rest = Fresh /\ scan = NoRound /\ stop = NoStop

-----------------------------------------------------------------------------
(* The switches.                                                           *)

TurnOn ==
  /\ presses < MaxPresses
  /\ presses' = presses + 1 /\ auto' = presses'
  /\ rest' = Fresh
  /\ stop' = [stop EXCEPT !.again = stop # NoStop]
  /\ UNCHANGED <<intents, autoVideo, board, scan>>

TurnOff ==
  /\ auto # Off /\ auto' = Off
  /\ UNCHANGED <<intents, presses, autoVideo, board, rest, scan, stop>>

SwitchVideo ==
  /\ presses < MaxPresses
  /\ presses' = presses + 1 /\ autoVideo' = ~autoVideo
  /\ UNCHANGED <<intents, auto, board, rest, scan, stop>>

-----------------------------------------------------------------------------
(* A round.                                                                *)

OwnAssets == InScene \cup Videos

(* _auto_cho_kiem_tra: what only a person may decide.                      *)
Waiting ==
  {a \in OwnAssets : \E n \in LotsWith(a) :
     \/ lots[n].state[a] = "needs_attention"
     \/ lots[n].state[a] = "failed" /\ OnRecord(n)}

OverLots == <<switches, intents, board, stop>>

BeginRound ==
  /\ scan = NoRound /\ auto # Off
  /\ scan' = [step |-> "check", by |-> auto]
  /\ rest' = [a \in Assets |-> IF rest[a] = 0 THEN 0 ELSE rest[a] - 1]
  /\ UNCHANGED OverLots

(* Whatever switch there is by now is taken out of AUTO.                   *)
TurnsItselfOff == auto' = Off /\ UNCHANGED <<presses, autoVideo>>

Halt ==
  /\ scan.step = "check" /\ Waiting # {}
  /\ TurnsItselfOff /\ scan' = NoRound
  /\ UNCHANGED <<intents, board, rest, stop>>

MissingRefs == UNION {Refs[i] : i \in InScene} \ present
ReadyImages == {i \in InScene \ present : Refs[i] \cap MissingRefs = {}}
MayTry(a) == rest[a] = 0
Candidates == {i \in MissingRefs \cup ReadyImages : ~Active(i) /\ MayTry(i)}

(* A card of another scene is not judged by its prompt here.               *)
HasPrompt(i) == i \in InScene => i \in written

ReadImages ==
  /\ scan.step = "check" /\ Waiting = {}
  /\ scan' = [step |-> "images", by |-> scan.by,
              todo |-> {i \in Candidates : HasPrompt(i)},
              worked |-> \E i \in Candidates : HasPrompt(i),
              passed |-> \E i \in Candidates : ~HasPrompt(i),
              whole |-> InScene \subseteq present]
  /\ UNCHANGED <<OverLots, rest>>

SwitchHolds == auto # Off /\ auto = scan.by
LotOf(r) == AssetsOf[ScopeOf[r]]

(* A plausible mistake: the look at the beginning of the round will do.    *)
HandOverUnseen(r) ==
  /\ Create(r, NoKey)
  /\ rest' = IF lots' = lots THEN rest
             ELSE [a \in Assets |-> IF a \in LotOf(r) THEN Cooldown ELSE rest[a]]
  /\ UNCHANGED <<switches, board, stop>>

(* Under AUTO_LOCK.  An answer that is a replay does not count as a try.   *)
HandOver(r) ==
  /\ SwitchHolds
  /\ Create(r, NoKey)
  /\ rest' = IF lots' = lots THEN rest
             ELSE [a \in Assets |-> IF a \in LotOf(r) THEN Cooldown ELSE rest[a]]
  /\ UNCHANGED <<switches, board, stop>>

(* _chia_lo cuts the images into lots; where it cuts, its limits tell.     *)
HandOverImages(r) ==
  /\ scan.step = "images" /\ LotOf(r) \subseteq scan.todo
  /\ HandOver(r)
  /\ scan' = [scan EXCEPT !.todo = @ \ LotOf(r)]

DropImages ==
  /\ scan.step = "images" /\ scan.todo # {} /\ ~SwitchHolds
  /\ scan' = [scan EXCEPT !.todo = {}]
  /\ UNCHANGED <<OverLots, rest>>

MissingVideos == Videos \ present
Filmable == {v \in MissingVideos : FrameOf[v] \in present}

ReadVideos ==
  /\ scan.step = "images" /\ scan.todo = {}
  /\ scan' = [scan EXCEPT !.step = "videos",
                          !.todo = IF autoVideo THEN Filmable ELSE {},
                          !.worked = @ \/ (autoVideo /\ Filmable # {}),
                          !.whole = @ /\ MissingVideos = {}]
  /\ UNCHANGED <<OverLots, rest>>

HandOverVideo(r, v) ==
  /\ scan.step = "videos" /\ v \in scan.todo /\ LotOf(r) = {v}
  /\ ~Active(v) /\ MayTry(v)
  /\ HandOver(r)
  /\ scan' = [scan EXCEPT !.todo = @ \ {v}]

(* The shot is there by now, is worked on or rests, or the switch is gone. *)
PassVideo(v) ==
  /\ scan.step = "videos" /\ v \in scan.todo
  /\ \/ ~SwitchHolds /\ scan' = [scan EXCEPT !.todo = {}]
     \/ /\ v \in present \/ (SwitchHolds /\ (Active(v) \/ ~MayTry(v)))
        /\ scan' = [scan EXCEPT !.todo = @ \ {v}]
  /\ UNCHANGED <<OverLots, rest>>

(* A plausible mistake: cards without a prompt keep the scene on.          *)
WhenWhole == scan.whole

(* Nothing could be handed over for want of a prompt, or nothing is        *)
(* missing.                                                                *)
LastRound == (scan.passed /\ ~scan.worked) \/ scan.whole

EndRound ==
  /\ scan.step = "videos" /\ scan.todo = {}
  /\ IF LastRound THEN TurnsItselfOff ELSE UNCHANGED switches
  /\ scan' = NoRound
  /\ UNCHANGED <<intents, board, rest, stop>>

(* An exception in a round turns every scene off.                          *)
RoundFails ==
  /\ scan # NoRound /\ TurnsItselfOff /\ scan' = NoRound
  /\ UNCHANGED <<intents, board, rest, stop>>

-----------------------------------------------------------------------------
(* The runtime and the board.                                              *)

Elsewhere == <<switches, rest, scan, stop>>

Completes(n, a) ==
  /\ JobEnds(n, a, "over")
  /\ finished' = finished \cup {<<n, a>>}
  /\ UNCHANGED <<Elsewhere, written, present>>

Fails(n, a, to) ==
  /\ to \in {"failed", "needs_attention"} /\ JobEnds(n, a, to)
  /\ UNCHANGED <<Elsewhere, board>>

(* _live_apply_outcome                                                     *)
Apply(x) ==
  /\ x \in finished /\ finished' = finished \ {x}
  /\ present' = present \cup {x[2]}
  /\ UNCHANGED <<intents, Elsewhere, written>>

WritePrompt(i) ==
  /\ i \notin written /\ written' = written \cup {i}
  /\ UNCHANGED <<intents, Elsewhere, present, finished>>

NewestWith(a) == CHOOSE n \in LotsWith(a) : \A m \in LotsWith(a) : m <= n

(* _runtime_cancel_label: the newest lot of the label, altogether, unless  *)
(* it is over or a video that is submitted.                                *)
CancelLabel(a) ==
  IF Active(a)
  THEN LET n == NewestWith(a)
       IN  \/ lots' = [lots EXCEPT ![n].state =
                         [b \in DOMAIN @ |-> IF @[b] = "live" THEN "over" ELSE @[b]]]
           \/ a \in Videos /\ UNCHANGED lots
  ELSE UNCHANGED lots

Cancel(a) ==
  /\ Active(a) /\ CancelLabel(a)
  /\ UNCHANGED <<tables, inFlight, handed, cleaner, Elsewhere, board>>

LiveLabels == {a \in Assets : \E n \in LotsWith(a) : lots[n].state[a] = "live"}

(* The switches are cleared under AUTO_LOCK.                               *)
StopAll ==
  /\ stop = NoStop /\ auto' = Off
  /\ stop' = [NoStop EXCEPT !.step = "look"]
  /\ UNCHANGED <<intents, presses, autoVideo, board, rest, scan>>

(* After that the labels are read, without a lock.                         *)
ReadLabels ==
  /\ stop.step = "look"
  /\ stop' = IF LiveLabels = {} THEN NoStop
             ELSE [stop EXCEPT !.step = "cancel", !.labels = LiveLabels]
  /\ UNCHANGED <<intents, switches, board, rest, scan>>

StopLabel(a) ==
  /\ stop.step = "cancel" /\ a \in stop.labels
  /\ CancelLabel(a)
  /\ stop' = IF stop.labels = {a} THEN NoStop ELSE [stop EXCEPT !.labels = @ \ {a}]
  /\ UNCHANGED <<tables, inFlight, handed, cleaner, switches, board, rest, scan>>

-----------------------------------------------------------------------------

Clients ==
  \E r \in Requests \ Automatic : \E k \in ClientKeys : Create(r, k)

Round ==
  \/ BeginRound \/ Halt \/ ReadImages \/ DropImages \/ ReadVideos
  \/ \E r \in Automatic : \/ HandOverImages(r)
                         \/ \E v \in Videos : HandOverVideo(r, v)
  \/ \E v \in Videos : PassVideo(v)
  \/ EndRound

Works ==
  \E n \in LotNumbers : \E a \in DOMAIN lots[n].state :
    Completes(n, a) \/ \E to \in LotStates : Fails(n, a, to)

Runtime == Works \/ \E x \in finished : Apply(x)

ScanNext ==
  \/ TurnOn \/ TurnOff \/ SwitchVideo
  \/ Round \/ RoundFails
  \/ Runtime
  \/ StopAll \/ ReadLabels \/ \E a \in Assets : StopLabel(a)
  \/ \E a \in Assets : Cancel(a)
  \/ \E i \in InScene : WritePrompt(i)
  \/ Clients /\ UNCHANGED <<switches, board, rest, scan, stop>>

(* The runner is a thread that never ends, and so are the runtime's        *)
(* workers; nobody has to press anything.                                  *)
ScanSpec ==
  /\ ScanInit /\ [][ScanNext]_scanVars
  /\ WF_scanVars(Round) /\ WF_scanVars(Runtime)

-----------------------------------------------------------------------------
(* Properties.                                                             *)

ByScanner(n) == lots[n].req \in Automatic

(* sfboard.py:6223-6227: what the scanner hands over before a stop-all the *)
(* stop-all cancels, and after it the scanner's old reading of the board   *)
(* hands over nothing.  When it has answered, an image of the scanner's is *)
(* still queued only behind a newer lot of the same card.                  *)
StopSweeps ==
  [][stop # NoStop /\ stop' = NoStop /\ ~stop.again
       => \A n \in LotNumbers : \A i \in Images \cap DOMAIN lots[n].state :
            ByScanner(n) /\ NewestWith(i) = n => lots'[n].state[i] # "live"]_scanVars

(* sfboard.py:4189-4190 and 4132-4136: a lit button of a scene in which    *)
(* nothing happens is what the switches off are for.  With auto-video on,  *)
(* a scene that refers to its own cards only is switched off in the end,   *)
(* whole, stuck or for want of a prompt, unless the bound on lots keeps    *)
(* the scanner from opening one for ever.                                  *)
OwnReferences == UNION {Refs[i] : i \in InScene} \subseteq InScene
OutOfLots ==
  Len(lots) = MaxLots /\ scan.step \in {"images", "videos"} /\ scan.todo # {}
SceneSettles ==
  OwnReferences =>
    ([]<>~OutOfLots /\ <>[]autoVideo => <>[](auto = Off))

-----------------------------------------------------------------------------
(* What the code does not keep.                                            *)

(* sfboard.py:4110-4112, "the shot that is nearly done": an outcome is in  *)
(* the ledger before its file is on the board, and a round that reads in   *)
(* between hands the asset over once more.                                 *)
NeverTheFinished ==
  [][\A n \in DOMAIN lots' \ DOMAIN lots : lots'[n].req \in Automatic =>
       \A x \in finished : x[2] \notin DOMAIN lots'[n].state]_scanVars

(* sfboard.py:4189, "nothing can be queued and nothing will be": a card    *)
(* without a prompt switches the scene off while its other cards are being *)
(* made, and what waits for them is not queued any more.                   *)
OffWhenNothingRuns ==
  [][EndRound /\ LastRound /\ ~scan.whole => \A x \in OwnAssets : ~Active(x)]_scanVars
=============================================================================
