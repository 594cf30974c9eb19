---------------------------- MODULE SortingTray ----------------------------
(***************************************************************************)
(* The sorting tray of the board: every picture an attempt downloads is    *)
(* kept in the folder of its turn until it is attached to a card, and      *)
(* every attaching, copying and swapping can be undone (_pl_*, _ht_* and   *)
(* the handlers gan-anh, gan-lui, sf-doi, sf-chuyen of sfboard.py).        *)
(*                                                                         *)
(* An attempt downloads a turn, saves one version a card when the numbers  *)
(* agree, writes the turn's list back from the copy it holds, trims the    *)
(* turns that are attached altogether, and is applied to its cards.        *)
(* Meanwhile the user attaches, copies, swaps and undoes, each in a few    *)
(* steps, and uploads, picks and deletes versions, each in one (the steps  *)
(* of those are told apart in BoardFiles).  A picture is a number; a       *)
(* version is a name of its card, the first that is free.                  *)
(***************************************************************************)
EXTENDS Naturals, Sequences, FiniteSetsExt, SequencesExt

CONSTANTS Cards, NoCard,
          Kept,         \* PL_GIU_TOI_DA: the attached turns that are kept
          History,      \* the entries HOAN_TAC holds
          Lots,         \* the cards an attempt is asked for, in their order
          MaxTurns,     \* bound on the turns
          MaxPictures,  \* bound on the pictures
          MaxNumbers,   \* bound on the versions of a card
          MaxCalls,     \* bound on the user's requests
          MaxCrashes    \* bound on the restarts of the board

ASSUME TrayAssumption ==
  /\ NoCard \notin Cards
  /\ Kept \in Nat /\ History \in Nat \ {0} /\ Lots \subseteq Seq(Cards) \ {<<>>}
  /\ MaxTurns \in Nat /\ MaxPictures \in Nat /\ MaxNumbers \in Nat
  /\ MaxCalls \in Nat /\ MaxCrashes \in Nat

VARIABLES tray,      \* turn -> its pictures and the cards they are marked with
          turns,     \* .so-luot: the turns there have been
          pictures,  \* how many pictures there have been
          versions,  \* card -> version -> picture
          shown,     \* card -> picture
          picked,    \* card -> version                         (board JSON)
          approved,  \* the cards that are approved             (board JSON)
          history,   \* HOAN_TAC
          call,      \* the user's request of several steps
          attempt,   \* the runtime's attempt
          changed,   \* the cards the user changed since the attempt began
          removed,   \* history: the pictures the user removed from a card
          calls, crashes

store == <<tray, turns, pictures, versions>>
card == <<shown, picked, approved>>
trayVars == <<store, card, history, call, attempt, changed, removed, calls, crashes>>

None == 0
Turns == 1 .. MaxTurns
Versions == 1 .. MaxNumbers
Idle == [at |-> "idle"]

TrayInit ==
  /\ tray = [t \in Turns |-> <<>>] /\ turns = 0 /\ pictures = 0
  /\ versions = [c \in Cards |-> [v \in Versions |-> None]]
  /\ shown = [c \in Cards |-> None] /\ picked = [c \in Cards |-> None]
  /\ approved = {} /\ history = <<>>
  /\ call = Idle /\ attempt = Idle /\ changed = {} /\ removed = {}
  /\ calls = 0 /\ crashes = 0

-----------------------------------------------------------------------------
(* Versions.                                                               *)

(* next_version_path: the first number that has no file.                   *)
Free(f, c) == {v \in Versions : f[c][v] = None}
NextVersion(f, c) == Min(Free(f, c))
Put(f, c, pic) == [f EXCEPT ![c][NextVersion(f, c)] = pic]
IsFile(f, c, v) == v # None /\ f[c][v] # None

(* A plausible mistake: a card without a mark is taken for an empty one.   *)
ByMark(f, c) ==
  [old |-> IF IsFile(f, c, picked[c]) THEN picked[c] ELSE None, own |-> FALSE, versions |-> f]

(* _ban_dang_dung: the version that is shown; a picture that is in no      *)
(* version is copied into one.                                             *)
InUse(f, c) ==
  LET same == {v \in Versions : f[c][v] = shown[c]}
  IN  IF shown[c] = None THEN [old |-> None, own |-> FALSE, versions |-> f]
      ELSE IF IsFile(f, c, picked[c]) THEN [old |-> picked[c], own |-> FALSE, versions |-> f]
      ELSE IF same # {} THEN [old |-> Min(same), own |-> FALSE, versions |-> f]
      ELSE [old |-> NextVersion(f, c), own |-> TRUE, versions |-> Put(f, c, shown[c])]

Room(c) ==
  LET copied == shown[c] # None /\ ~IsFile(versions, c, picked[c])
                  /\ shown[c] \notin Range(versions[c])
  IN  Cardinality(Free(versions, c)) >= IF copied THEN 2 ELSE 1

-----------------------------------------------------------------------------
(* The runtime's attempt.                                                  *)

AttemptAt(place) == attempt.at = place
AttemptGoes(place) == attempt' = [attempt EXCEPT !.at = place]

StartAttempt(lot) ==
  /\ AttemptAt("idle") /\ turns < MaxTurns
  /\ attempt' = [at |-> "render", lot |-> lot, turn |-> 0, copy |-> <<>>, saved |-> <<>>]
  /\ changed' = {}
  /\ UNCHANGED <<store, card, history, call, removed, calls, crashes>>

(* _pl_tai_ve: all pictures of a turn, before they are counted.            *)
Download(n) ==
  /\ AttemptAt("render") /\ pictures + n <= MaxPictures
  /\ turns' = turns + 1 /\ pictures' = pictures + n
  /\ LET new == [k \in 1 .. n |-> [pic |-> pictures + k, card |-> NoCard]]
     IN  /\ tray' = [tray EXCEPT ![turns + 1] = new]
         /\ attempt' = [attempt EXCEPT !.turn = turns + 1, !.copy = new,
                          !.at = IF n = Len(attempt.lot) THEN "save" ELSE "close"]
  /\ UNCHANGED <<versions, card, history, call, changed, removed, calls, crashes>>

(* The text that comes with the pictures makes the turn a crooked one.     *)
Crooked ==
  /\ AttemptAt("save") /\ attempt.saved = <<>> /\ AttemptGoes("close")
  /\ UNCHANGED <<store, card, history, call, changed, removed, calls, crashes>>

(* saver: one version a card, marked in the attempt's own copy.            *)
SaveNext ==
  /\ AttemptAt("save") /\ Len(attempt.saved) < Len(attempt.lot)
  /\ LET k == Len(attempt.saved) + 1
         c == attempt.lot[k]
     IN  /\ Free(versions, c) # {}
         /\ versions' = Put(versions, c, attempt.copy[k].pic)
         /\ attempt' = [attempt EXCEPT !.saved = Append(@, NextVersion(versions, c)),
                                       !.copy[k].card = c]
  /\ UNCHANGED <<tray, turns, pictures, card, history, call, changed, removed,
                 calls, crashes>>

Saved ==
  /\ AttemptAt("save") /\ Len(attempt.saved) = Len(attempt.lot) /\ AttemptGoes("close")
  /\ UNCHANGED <<store, card, history, call, changed, removed, calls, crashes>>

(* An error of the disk: nothing is applied, what was saved stays.         *)
SaveFails ==
  /\ AttemptAt("save") /\ Len(attempt.saved) < Len(attempt.lot) /\ AttemptGoes("close")
  /\ UNCHANGED <<store, card, history, call, changed, removed, calls, crashes>>

(* A plausible mistake: a turn is done with when a picture of it is.       *)
AnyAttached(turn) == \E k \in DOMAIN turn : turn[k].card # NoCard

Attached(turn) == turn # <<>> /\ \A k \in DOMAIN turn : turn[k].card # NoCard

(* _pl_don_bot: the oldest turns that are attached altogether go.          *)
Trimmed(all) ==
  LET done == {t \in Turns : Attached(all[t])}
  IN  [t \in Turns |-> IF t \in done /\ Cardinality({u \in done : u > t}) >= Kept
                       THEN <<>> ELSE all[t]]

(* finally: the list of the turn is written from the attempt's copy.       *)
Close ==
  /\ AttemptAt("close")
  /\ tray' = Trimmed([tray EXCEPT ![attempt.turn] = attempt.copy])
  /\ IF Len(attempt.saved) = Len(attempt.lot) THEN AttemptGoes("apply") ELSE attempt' = Idle
  /\ UNCHANGED <<turns, pictures, versions, card, history, call, changed, removed,
                 calls, crashes>>

(* _live_apply_outcome: card after card; what the user changed stays.      *)
Apply ==
  /\ AttemptAt("apply")
  /\ LET c == Head(attempt.lot)
         v == Head(attempt.saved)
         fits == c \notin changed /\ IsFile(versions, c, v)
     IN  /\ shown' = IF fits THEN [shown EXCEPT ![c] = versions[c][v]] ELSE shown
         /\ picked' = IF fits THEN [picked EXCEPT ![c] = v] ELSE picked
  /\ attempt' = IF Len(attempt.lot) = 1 THEN Idle
                ELSE [attempt EXCEPT !.lot = Tail(@), !.saved = Tail(@)]
  /\ UNCHANGED <<store, approved, history, call, changed, removed, calls, crashes>>

-----------------------------------------------------------------------------
(* The user's requests of several steps.                                   *)

NewCall == call.at = "idle" /\ calls < MaxCalls /\ calls' = calls + 1
Push(entries) ==
  LET all == history \o entries
  IN  history' = SubSeq(all, Max({1, Len(all) - History + 1}), Len(all))

Closed(c) == c \in approved /\ shown[c] # None

Entry(c, kept, new) ==
  [card |-> c, new |-> new, old |-> kept.old, own |-> kept.own, turn |-> 0,
   n |-> 0, sealed |-> FALSE, pair |-> 0, was |-> shown[c],
   held |-> IF kept.old = None THEN None ELSE kept.versions[c][kept.old]]

(* _pl_gan reads the list of the turn at once and writes it at the end.    *)
BeginAttach(c, t, n) ==
  /\ NewCall /\ n \in DOMAIN tray[t] /\ ~Closed(c) /\ Room(c)
  /\ LET kept == InUse(versions, c)
     IN  /\ versions' = Put(kept.versions, c, tray[t][n].pic)
         /\ call' = [at |-> "attach", copy |-> [tray[t] EXCEPT ![n].card = c],
                     entry |-> [Entry(c, kept, NextVersion(kept.versions, c))
                                EXCEPT !.turn = t, !.n = n]]
  /\ UNCHANGED <<tray, turns, pictures, card, history, attempt, changed, removed, crashes>>

ShowAttached ==
  /\ call.at = "attach"
  /\ LET e == call.entry
     IN  /\ changed' = changed \cup {e.card}
         /\ shown' = [shown EXCEPT ![e.card] = versions[e.card][e.new]]
         /\ picked' = [picked EXCEPT ![e.card] = e.new]
  /\ call' = [call EXCEPT !.at = "list"]
  /\ UNCHANGED <<store, approved, history, attempt, removed, calls, crashes>>

EndAttach ==
  /\ call.at = "list" /\ Push(<<call.entry>>) /\ call' = Idle
  /\ LET t == call.entry.turn
     IN  tray' = IF tray[t] = <<>> THEN tray ELSE [tray EXCEPT ![t] = call.copy]
  /\ UNCHANGED <<turns, pictures, versions, card, attempt, changed, removed, calls,
                 crashes>>

(* sf-chuyen: what can be undone is written down before it is shown; on an *)
(* approved card it is not shown at all.                                   *)
BeginCopy(from, c) ==
  /\ NewCall /\ shown[from] # None /\ Room(c)
  /\ LET kept == InUse(versions, c)
         e == [Entry(c, kept, NextVersion(kept.versions, c)) EXCEPT !.sealed = Closed(c)]
     IN  /\ versions' = Put(kept.versions, c, shown[from])
         /\ Push(<<e>>)
         /\ call' = IF Closed(c) THEN Idle
                    ELSE [at |-> "show", entries |-> <<e>>, push |-> <<>>]
  /\ UNCHANGED <<tray, turns, pictures, card, attempt, changed, removed, crashes>>

(* sf-doi: both entries bear the mark of the pair.                         *)
BeginSwap(a, b) ==
  /\ NewCall /\ a # b /\ shown[a] # None /\ shown[b] # None
  /\ {a, b} \cap approved = {} /\ Room(a) /\ Room(b)
  /\ LET keptA == InUse(versions, a)
         keptB == InUse(keptA.versions, b)
         first == [Entry(a, keptA, NextVersion(keptB.versions, a)) EXCEPT !.pair = calls + 1]
         second == [Entry(b, keptB, NextVersion(keptB.versions, b)) EXCEPT !.pair = calls + 1]
     IN  /\ versions' = Put(Put(keptB.versions, a, shown[b]), b, shown[a])
         /\ call' = [at |-> "show", entries |-> <<first, second>>,
                     push |-> <<first, second>>]
  /\ UNCHANGED <<tray, turns, pictures, card, history, attempt, changed, removed, crashes>>

Marking(marks, push, next) ==
  [at |-> "mark", marks |-> marks, push |-> push, next |-> next, seen |-> <<>>]

ShowCards ==
  /\ call.at = "show"
  /\ LET done == Range(call.entries)
     IN  /\ changed' = changed \cup {e.card : e \in done}
         /\ shown' = [c \in Cards |->
              IF \E e \in done : e.card = c
              THEN versions[c][(CHOOSE e \in done : e.card = c).new] ELSE shown[c]]
         /\ call' = Marking([k \in DOMAIN call.entries |->
                      <<call.entries[k].card, call.entries[k].new>>],
                    call.push, Idle)
  /\ UNCHANGED <<store, picked, approved, history, attempt, removed, calls, crashes>>

(* _mark_picked without BOARD_LOCK reads the board and writes it back.     *)
ReadBoard ==
  /\ call.at = "mark"
  /\ call' = [call EXCEPT !.at = "write", !.seen = <<picked, approved>>]
  /\ UNCHANGED <<store, card, history, attempt, changed, removed, calls, crashes>>

WriteBoard ==
  /\ call.at = "write"
  /\ LET mark == Head(call.marks)
     IN  picked' = [call.seen[1] EXCEPT ![mark[1]] = mark[2]]
  /\ approved' = call.seen[2]
  /\ IF Len(call.marks) > 1
     THEN /\ call' = Marking(Tail(call.marks), call.push, call.next)
          /\ UNCHANGED history
     ELSE call' = call.next /\ Push(call.push)
  /\ UNCHANGED <<store, shown, attempt, changed, removed, calls, crashes>>

(* _ht_lui: the last entry is taken and the version it added is removed.   *)
Undo ==
  LET e == Last(history)
      left == Front(history)
  IN  /\ history # <<>> /\ history' = left
      /\ versions' = [versions EXCEPT ![e.card][e.new] = None]
      /\ removed' = removed \cup ({versions[e.card][e.new]} \ {None})
      /\ changed' = IF e.sealed THEN changed ELSE changed \cup {e.card}
      /\ call' = [at |-> "restore", entry |-> e, again |->
           e.pair # 0 /\ left # <<>> /\ Last(left).pair = e.pair]
      /\ UNCHANGED <<tray, turns, pictures, card, attempt, crashes>>

BeginUndo == NewCall /\ Undo
UndoOther == call.at = "other" /\ Undo /\ UNCHANGED calls

(* Back to the version from before, or to no picture; a version that was   *)
(* only made to keep the picture goes, or whatever bears its name by now.  *)
(* Both removals of an undo count as the user's (UndoTakesItsOwn).         *)
Restore ==
  LET e == call.entry
      back == IsFile(versions, e.card, e.old)
      after == [at |-> "unlist", entry |-> e, again |-> call.again]
  IN  /\ call.at = "restore"
      /\ IF e.sealed THEN UNCHANGED <<shown, versions, picked, removed>> /\ call' = after
         ELSE /\ shown' = [shown EXCEPT ![e.card] =
                               IF back THEN versions[e.card][e.old] ELSE None]
              /\ IF back /\ e.own
                 THEN /\ versions' = [versions EXCEPT ![e.card][e.old] = None]
                      /\ removed' = removed \cup ({versions[e.card][e.old]} \ {e.held})
                 ELSE UNCHANGED <<versions, removed>>
              /\ IF e.old = None \/ (back /\ e.own)
                 THEN picked' = [picked EXCEPT ![e.card] = None] /\ call' = after
                 ELSE /\ call' = Marking(<<<<e.card, e.old>>>>, <<>>, after)
                      /\ UNCHANGED picked
      /\ UNCHANGED <<tray, turns, pictures, approved, history, attempt, changed, calls,
                     crashes>>

(* The picture is one to be sorted again.                                  *)
Unlist ==
  /\ call.at = "unlist"
  /\ LET e == call.entry
     IN  tray' = [t \in Turns |-> [n \in DOMAIN tray[t] |->
                   IF t = e.turn /\ n = e.n /\ tray[t][n].card = e.card
                   THEN [tray[t][n] EXCEPT !.card = NoCard] ELSE tray[t][n]]]
  /\ call' = IF call.again THEN [at |-> "other"] ELSE Idle
  /\ UNCHANGED <<turns, pictures, versions, card, history, attempt, changed, removed,
                 calls, crashes>>

-----------------------------------------------------------------------------
(* The user's requests of one step.                                        *)

Quick == calls < MaxCalls /\ calls' = calls + 1

(* save_upload: a new version that is shown; the mark is left alone.       *)
Upload(c) ==
  /\ Quick /\ pictures < MaxPictures /\ Free(versions, c) # {}
  /\ pictures' = pictures + 1 /\ changed' = changed \cup {c}
  /\ versions' = Put(versions, c, pictures + 1)
  /\ shown' = [shown EXCEPT ![c] = pictures + 1]
  /\ UNCHANGED <<tray, turns, picked, approved, history, call, attempt, removed, crashes>>

Pick(c, v) ==
  /\ Quick /\ IsFile(versions, c, v) /\ changed' = changed \cup {c}
  /\ shown' = [shown EXCEPT ![c] = versions[c][v]]
  /\ picked' = [picked EXCEPT ![c] = v]
  /\ UNCHANGED <<store, approved, history, call, attempt, removed, crashes>>

(* del-version refuses the picture that is shown.                          *)
DeleteVersion(c, v) ==
  /\ Quick /\ IsFile(versions, c, v) /\ versions[c][v] # shown[c]
  /\ versions' = [versions EXCEPT ![c][v] = None] /\ removed' = removed \cup {versions[c][v]}
  /\ picked' = IF picked[c] = v THEN [picked EXCEPT ![c] = None] ELSE picked
  /\ UNCHANGED <<tray, turns, pictures, shown, approved, history, call, attempt,
                 changed, crashes>>

(* /api/generate forgets the mark of the card it makes again.              *)
ForgetMark(c) ==
  /\ Quick /\ picked[c] # None /\ picked' = [picked EXCEPT ![c] = None]
  /\ UNCHANGED <<store, shown, approved, history, call, attempt, changed, removed,
                 crashes>>

Approve(c) ==
  /\ Quick /\ approved' = IF c \in approved THEN approved \ {c} ELSE approved \cup {c}
  /\ UNCHANGED <<store, shown, picked, history, call, attempt, changed, removed,
                 crashes>>

(* The history is in memory only, and so is the attempt's copy.            *)
Restart ==
  /\ crashes < MaxCrashes /\ crashes' = crashes + 1
  /\ history' = <<>> /\ call' = Idle /\ attempt' = Idle /\ changed' = {}
  /\ UNCHANGED <<store, card, removed, calls>>

Runtime ==
  \/ \E lot \in Lots : StartAttempt(lot)
  \/ \E n \in 1 .. MaxPictures : Download(n)
  \/ Crooked \/ SaveNext \/ Saved \/ SaveFails \/ Close \/ Apply

User ==
  \/ \E c \in Cards, t \in Turns, n \in 1 .. MaxPictures : BeginAttach(c, t, n)
  \/ \E a, b \in Cards : BeginCopy(a, b) \/ BeginSwap(a, b)
  \/ ShowAttached \/ EndAttach \/ ShowCards \/ ReadBoard \/ WriteBoard
  \/ BeginUndo \/ UndoOther \/ Restore \/ Unlist
  \/ \E c \in Cards : Upload(c) \/ ForgetMark(c) \/ Approve(c)
  \/ \E c \in Cards, v \in Versions : Pick(c, v) \/ DeleteVersion(c, v)

TrayNext == Runtime \/ User \/ Restart

TraySpec == TrayInit /\ [][TrayNext]_trayVars

-----------------------------------------------------------------------------
(* Properties.                                                             *)

(* A picture that was generated or uploaded is in the tray, in a version   *)
(* or on a card as long as the user has not removed it, or undone a        *)
(* request whose version has left its name to it: what an attempt, two     *)
(* writers of one list, the trimming or an undo of another picture do      *)
(* loses none (_pl_don_bot, _live_image_attempt, _pl_gan).                 *)
InTray(pic) == \E t \in Turns : \E n \in DOMAIN tray[t] : tray[t][n].pic = pic
InVersion(pic) == \E c \in Cards : pic \in Range(versions[c])
NothingLostUnasked ==
  \A pic \in 1 .. pictures :
    pic \in removed \/ InTray(pic) \/ InVersion(pic) \/ pic \in Range(shown)

(* Undoing shows the picture that was there when the request began, as     *)
(* long as the version that was kept of it is still what it was: also for  *)
(* a card without a mark, a swapped pair and a picture that was in no      *)
(* version (_ban_dang_dung, _ht_lui).                                      *)
Undoes(kept) ==
  LET e == call.entry
  IN  (call.at = "restore" /\ call'.at # "restore" /\ ~e.sealed
         /\ crashes' = crashes /\ kept)
        => shown'[e.card] = e.was
UndoRestores ==
  [][Undoes(call.entry.old = None
            \/ versions[call.entry.card][call.entry.old] = call.entry.was)]_trayVars

(* What the code does not keep: TLC finds both violated.                   *)

(* What the docstring of _ht_lui says: an undo brings the picture of the   *)
(* card back to the one from before, as long as nobody touched the version *)
(* that was kept.                                                          *)
UndoShowsWhatWas ==
  [][Undoes(\/ call.entry.old = None
            \/ versions[call.entry.card][call.entry.old] = call.entry.held)]_trayVars

(* The comment in _ht_lui: the version it removes besides is a copy of the *)
(* board's own.                                                            *)
UndoTakesItsOwn ==
  [][LET e == call.entry
     IN  call.at = "restore" /\ ~e.sealed /\ e.own /\ crashes' = crashes
           /\ call'.at # "restore" /\ IsFile(versions, e.card, e.old)
         => versions[e.card][e.old] = e.held]_trayVars
=============================================================================
