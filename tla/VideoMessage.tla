---------------------------- MODULE VideoMessage ----------------------------
(***************************************************************************)
(* Attempts at videos: each is one press on Submit in a tab of Grok's      *)
(* Imagine page (GrokSession in video_grok.py, run_video_attempt in        *)
(* live_executor.py, _live_video_attempt in sfboard.py, live_budget.py).   *)
(*                                                                         *)
(* Several workers drive tabs of one Chrome profile.  Grok opens a post    *)
(* for a press, or renders in the post the tab stands on; and it may pull  *)
(* a tab to any post of the profile, at any time.  Which clip belongs to   *)
(* the press is told by marks on the video elements the tab showed before, *)
(* which a navigation wipes out, and by the ledger of the posts that have  *)
(* given their clip: a set in the memory of each board, and a journal that *)
(* all boards of the user share.                                           *)
(*                                                                         *)
(* A press is paid: it is reserved in a counter on disk first, and made    *)
(* once.  A crash stops a board; Chrome, its tabs and Grok go on.          *)
(***************************************************************************)
EXTENDS Naturals, FiniteSets

CONSTANTS Seats,        \* worker threads, each with a tab of its own
          Boards,       \* processes
          BoardOf,      \* the board a worker belongs to
          MaxAttempts,  \* bound on the attempts
          Variants,     \* clips that one press renders
          Tries,        \* rounds of getting a page ready, 3 in the code
          Polls,        \* polls until an attempt gives up
          Limit,        \* GROKPIPE_LIVE_GROK_LIMIT
          MaxStrays,    \* bound on the times a tab is pulled away
          MaxCrashes,   \* bound on the crashes
          MaxMishaps    \* bound on the failures of the journal's disk

ASSUME VideoAssumption ==
  /\ Boards # {} /\ BoardOf \in [Seats -> Boards]
  /\ {MaxAttempts, Variants, Tries, Polls, Limit} \subseteq Nat \ {0}
  /\ {MaxStrays, MaxCrashes, MaxMishaps} \subseteq Nat

VARIABLES seat,     \* the workers: their step and what they remember
          tab,      \* the tabs: the post, its video elements, the marks
          attempt,  \* the attempts begun
          begun,    \* how many those are
          loaded,   \* clips whose element has a source      (provider)
          up,       \* the boards that run
          ledger,   \* board -> [read, posts]: _POST_DA_LAY  (memory)
          journal,  \* the posts on file                     (file)
          reserved, \* board -> submits reserved              (file)
          given,    \* posts an attempt took a clip from on coming to them
          strays, crashes, mishaps

vars == <<seat, tab, attempt, begun, loaded, up, ledger, journal, reserved,
          given, strays, crashes, mishaps>>
books == <<ledger, journal, given>>
bounds == <<strays, crashes, mishaps>>

Attempts == 1 .. MaxAttempts
Imagine == 0                    \* the page a message is composed on
Old == MaxAttempts + 1          \* somebody's clips of earlier, in their post
Posts == Attempts \cup {Old}    \* a post has the name of its first press
Clips == [by : Posts, n : 1 .. Variants]
NoPost == 0

Fresh == [board |-> CHOOSE b \in Boards : TRUE, phase |-> "attaching",
          verdict |-> "open", revoked |-> FALSE, clicks |-> 0,
          home |-> NoPost, empty |-> FALSE, saved |-> {}]
Idle == [pc |-> "idle", att |-> 0, session |-> FALSE, try |-> 1, round |-> 1,
         before |-> {}, url |-> Imagine, left |-> Polls, seen |-> {},
         now |-> Imagine, knew |-> {}, strayed |-> FALSE]
Blank == [at |-> Imagine, dom |-> {}, marked |-> {}]

HomeOf(a) == IF a = Old THEN Old ELSE attempt[a].home
Visit(p) == [at |-> p, dom |-> {c \in Clips : HomeOf(c.by) = p}, marked |-> {}]
Exists(p) == HomeOf(p) = p

Init ==
  /\ seat = [s \in Seats |-> Idle]
  /\ tab \in [Seats -> {Blank, [at |-> Old, marked |-> {},
                                dom |-> [by : {Old}, n : 1 .. Variants]]}]
  /\ attempt = [a \in Attempts |-> Fresh] /\ begun = 0
  /\ loaded = {}
  /\ up = Boards
  /\ ledger = [b \in Boards |-> [read |-> FALSE, posts |-> {}]]
  /\ journal = {} /\ reserved = [b \in Boards |-> 0] /\ given = {}
  /\ strays = 0 /\ crashes = 0 /\ mishaps = 0

-----------------------------------------------------------------------------
(* The ledger.                                                             *)

(* _nap_so_post_locked: the journal is read once in the life of a process; *)
(* one that cannot be read counts as empty.                                *)
Load(b, failed) ==
  IF ledger[b].read THEN ledger[b].posts ELSE IF failed THEN {} ELSE journal

DiskFails(failed) ==
  /\ failed \in BOOLEAN
  /\ failed => mishaps < MaxMishaps
  /\ mishaps' = IF failed THEN mishaps + 1 ELSE mishaps

(* A plausible mistake: the ledger is kept in memory only.                 *)
InMemory(b, p, failed) ==
  /\ ledger' = [ledger EXCEPT ![b] = [read |-> TRUE, posts |-> Load(b, failed) \cup {p}]]
  /\ UNCHANGED journal

(* ghi_so_post: a post that is not known is added to the journal and to    *)
(* the memory.  When the disk fails, the memory still has it.              *)
WriteDown(b, p, failed) ==
  /\ ledger' = [ledger EXCEPT ![b] = [read |-> TRUE, posts |-> Load(b, failed) \cup {p}]]
  /\ journal' = IF p \in Load(b, failed) \/ failed THEN journal
                ELSE journal \cup {p}

-----------------------------------------------------------------------------
(* What a step of a worker changes.                                        *)

Att(s) == seat[s].att
Go(s, step) == seat' = [seat EXCEPT ![s].pc = step]
Restless(s) == seat[s].pc # "idle"
Keep == UNCHANGED <<begun, up>>

Rest(s) == [Idle EXCEPT !.session = seat[s].session]

(* The end of _live_video_attempt: a version file that is still empty is   *)
(* removed, however the attempt ended.                                     *)
End(s, v) ==
  /\ seat' = [seat EXCEPT ![s] = Rest(s)]
  /\ attempt' = [attempt EXCEPT ![Att(s)].verdict = v,
                                ![Att(s)].empty = FALSE]

-----------------------------------------------------------------------------
(* Before the press.                                                       *)

(* _live_video_request puts an empty file in the place of the version.     *)
Begin(s) ==
  /\ seat[s].pc = "idle" /\ BoardOf[s] \in up /\ begun < MaxAttempts
  /\ begun' = begun + 1
  /\ seat' = [seat EXCEPT ![s].pc = "open", ![s].att = begun']
  /\ attempt' = [attempt EXCEPT ![begun'].board = BoardOf[s],
                                ![begun'].empty = TRUE]
  /\ UNCHANGED <<tab, loaded, up, books, reserved, bounds>>

(* start(): the post the tab stands on is put into the ledger before the   *)
(* tab leaves it.  Without a page that can be used there is no session.    *)
OpenSession(s) ==
  /\ seat[s].pc = "open" /\ ~seat[s].session
  /\ \E failed \in BOOLEAN :
       /\ DiskFails(failed)
       /\ IF tab[s].at = Imagine THEN ~failed /\ UNCHANGED <<ledger, journal>>
          ELSE WriteDown(BoardOf[s], tab[s].at, failed)
  /\ \/ /\ tab' = [tab EXCEPT ![s] = Blank]
        /\ seat' = [seat EXCEPT ![s].pc = "goto", ![s].session = TRUE]
        /\ UNCHANGED attempt
     \/ End(s, "not_sent") /\ UNCHANGED tab
  /\ Keep /\ UNCHANGED <<loaded, reserved, given, strays, crashes>>

(* The first of the two questions whether the user wants to stop.          *)
Start(s) ==
  /\ seat[s].pc = "open" /\ seat[s].session
  /\ IF attempt[Att(s)].revoked THEN End(s, "not_sent")
     ELSE Go(s, "goto") /\ UNCHANGED attempt
  /\ Keep /\ UNCHANGED <<tab, loaded, books, reserved, bounds>>

(* _ve_trang_imagine: the page is loaded; Grok may bring back the post the *)
(* tab was on, and then its New Generation button is pressed.  The last    *)
(* try is made in a new tab.                                               *)
GoToImagine(s) ==
  /\ seat[s].pc = "goto"
  /\ \/ tab' = [tab EXCEPT ![s] = Blank] /\ Go(s, "compose")
     \/ /\ tab' = IF seat[s].try = Tries THEN [tab EXCEPT ![s] = Blank] ELSE tab
        /\ Go(s, "stuck")
  /\ Keep /\ UNCHANGED <<attempt, loaded, books, reserved, bounds>>

(* A plausible mistake: it goes on until the page is there.                *)
TryForEver(s) == seat' = [seat EXCEPT ![s].pc = "goto"]

TryAgain(s) ==
  /\ seat[s].try < Tries
  /\ seat' = [seat EXCEPT ![s].pc = "goto", ![s].try = @ + 1]

NewGeneration(s) ==
  /\ seat[s].pc = "stuck"
  /\ \/ /\ tab' = [tab EXCEPT ![s] = Blank]
        /\ seat' = [seat EXCEPT ![s].pc = "compose", ![s].try = 1]
        /\ UNCHANGED attempt
     \/ TryAgain(s) /\ UNCHANGED <<tab, attempt>>
     \/ seat[s].try = Tries /\ End(s, "not_sent") /\ UNCHANGED tab
  /\ Keep /\ UNCHANGED <<loaded, books, reserved, bounds>>

AnotherRound(n) == n < Tries

(* Mode, chips, upload, a clean composer; and then the tab must still be   *)
(* where messages are composed, with a Submit button, or all begins again. *)
Compose(s) ==
  /\ seat[s].pc = "compose"
  /\ \/ /\ tab[s].at = Imagine
        /\ seat' = [seat EXCEPT ![s].pc = "stamp", ![s].try = 1, ![s].round = 1]
        /\ UNCHANGED attempt
     \/ /\ AnotherRound(seat[s].round)
        /\ seat' = [seat EXCEPT ![s].pc = "goto", ![s].try = 1, ![s].round = @ + 1]
        /\ UNCHANGED attempt
     \/ seat[s].round = Tries /\ End(s, "not_sent")
  /\ Keep /\ UNCHANGED <<tab, loaded, books, reserved, bounds>>

(* A clip is known to have a source when a tab with its element is looked  *)
(* at.                                                                     *)
Rendered(s) == \E new \in SUBSET (tab[s].dom \ loaded) : loaded' = loaded \cup new

(* A plausible mistake: only what has a source already gets a mark.        *)
StampLoaded(t) == t.dom \cap loaded'

(* The elements that get the mark: those without a source too.             *)
Stamped(t) == t.dom

(* The sources and the elements that are there before the press are        *)
(* remembered.  Without credit it ends here; marking may fail.             *)
Stamp(s) ==
  /\ seat[s].pc = "stamp"
  /\ \/ End(s, "not_sent") /\ UNCHANGED <<tab, loaded>>
     \/ /\ Rendered(s)
        /\ \E works \in BOOLEAN :
             /\ tab[s].dom = {} => works
             /\ tab' = [tab EXCEPT ![s].marked = IF works THEN Stamped(tab[s]) ELSE {}]
             /\ seat' = [seat EXCEPT ![s].pc = "type", ![s].strayed = ~works,
                                     ![s].before = tab[s].dom \cap loaded']
        /\ UNCHANGED attempt
  /\ Keep /\ UNCHANGED <<books, reserved, bounds>>

(* The prompt must be read back; the user may have stopped the attempt.    *)
(* The last thing before the reservation is the address of the page.       *)
Type(s) ==
  /\ seat[s].pc = "type"
  /\ \/ End(s, "not_sent")
     \/ /\ ~attempt[Att(s)].revoked
        /\ seat' = [seat EXCEPT ![s].pc = "reserve", ![s].url = tab[s].at]
        /\ UNCHANGED attempt
  /\ Keep /\ UNCHANGED <<tab, loaded, books, reserved, bounds>>

(* A plausible mistake: a counter that cannot be read counts as new.       *)
CountedAnew(n) == {n + 1, 1}

Counted(n) == {n + 1}

(* reserve(), under a file lock: a counter that cannot be read or is used  *)
(* up ends the attempt; so may a failure after the counter was replaced.   *)
Reserve(s) ==
  /\ seat[s].pc = "reserve"
  /\ LET b == BoardOf[s] IN
       \/ /\ reserved[b] < Limit
          /\ \E n \in Counted(reserved[b]) : reserved' = [reserved EXCEPT ![b] = n]
          /\ (Go(s, "click") /\ UNCHANGED attempt) \/ End(s, "not_sent")
       \/ End(s, "not_sent") /\ UNCHANGED reserved
  /\ Keep /\ UNCHANGED <<tab, loaded, books, bounds>>

(* What a press comes to: Grok opens a post for it, renders in the post    *)
(* the tab is on, or does not take it.                                     *)
Outcomes(s) == {NoPost, Att(s)} \cup ({tab[s].at} \ {Imagine})
OwnClips(s) == [by : {Att(s)}, n : 1 .. Variants]

Pressed(s) ==
  \E p \in Outcomes(s) :
    /\ attempt' = [attempt EXCEPT ![Att(s)].clicks = @ + 1,
                                  ![Att(s)].home = p]
    /\ tab' = IF p # NoPost /\ p = tab[s].at
                THEN [tab EXCEPT ![s].dom = @ \cup OwnClips(s)] ELSE tab

(* A plausible mistake: when the press fails it is made once more.         *)
PressAgain(s) ==
  /\ seat[s].pc = "click"
  /\ \/ Pressed(s) /\ seat' = [seat EXCEPT ![s].pc = "clicked", ![s].knew = given]
     \/ Pressed(s) /\ Go(s, "click")
     \/ End(s, "raised") /\ UNCHANGED tab
  /\ Keep /\ UNCHANGED <<loaded, books, reserved, bounds>>

(* _bam_submit presses once.  Without a button nothing is sent; a press    *)
(* that raises may have been taken and counts as made.                     *)
Press(s) ==
  /\ seat[s].pc = "click"
  /\ \/ Pressed(s) /\ seat' = [seat EXCEPT ![s].pc = "clicked", ![s].knew = given]
     \/ End(s, "raised") /\ UNCHANGED tab
  /\ Keep /\ UNCHANGED <<loaded, books, reserved, bounds>>

-----------------------------------------------------------------------------
(* After the press.                                                        *)

(* The phases that are told, at which step, and the step that follows.     *)
Telling == [clicked |-> <<"submitted", "told">>, told |-> <<"waiting", "poll">>,
            got |-> <<"downloading", "download">>, down |-> <<"saving", "save">>]

(* The runtime refuses a phase of an attempt whose lease it has revoked.   *)
Tell(s) ==
  /\ seat[s].pc \in DOMAIN Telling
  /\ LET next == Telling[seat[s].pc] IN
       IF attempt[Att(s)].revoked THEN End(s, "raised")
       ELSE /\ attempt' = [attempt EXCEPT ![Att(s)].phase = next[1]]
            /\ Go(s, next[2])
  /\ Keep /\ UNCHANGED <<tab, loaded, books, reserved, bounds>>

NewClips(s) == ((tab[s].dom \cap loaded') \ tab[s].marked) \ seat[s].before

(* One look at the page; it may fail or show nothing new.                  *)
Poll(s) ==
  /\ seat[s].pc = "poll" /\ seat[s].left > 0
  /\ \/ /\ Rendered(s)
        /\ NewClips(s) # {}
        /\ seat' = [seat EXCEPT ![s].pc = "seen", ![s].seen = NewClips(s)]
     \/ seat' = [seat EXCEPT ![s].left = @ - 1] /\ UNCHANGED loaded
  /\ Keep /\ UNCHANGED <<tab, attempt, books, reserved, bounds>>

Expire(s) ==
  /\ seat[s].pc = "poll" /\ seat[s].left = 0
  /\ End(s, "raised")
  /\ Keep /\ UNCHANGED <<tab, loaded, books, reserved, bounds>>

(* What the worker saw is taken; the rest it remembers is not used again.  *)
Take(s) ==
  seat' = [seat EXCEPT ![s] =
             [Rest(s) EXCEPT !.pc = "got", !.att = Att(s), !.seen = seat[s].seen,
                             !.strayed = seat[s].strayed]]

(* nhan_duoc_clip: the address is read after the page.  On the same page   *)
(* the marks are trusted; a post that has given its clip is refused.       *)
Judge(s) ==
  /\ seat[s].pc = "seen"
  /\ LET b == BoardOf[s]
         p == tab[s].at
     IN IF p \in {Imagine, seat[s].url}
        THEN /\ Take(s)
             /\ UNCHANGED <<attempt, ledger, mishaps>>
        ELSE \E failed \in BOOLEAN :
               /\ ledger[b].read => ~failed
               /\ DiskFails(failed)
               /\ ledger' = [ledger EXCEPT ![b] =
                               [read |-> TRUE, posts |-> Load(b, failed)]]
               /\ IF p \in Load(b, failed) THEN End(s, "raised")
                  ELSE /\ seat' = [seat EXCEPT ![s].pc = "new", ![s].now = p]
                       /\ UNCHANGED attempt
  /\ Keep /\ UNCHANGED <<tab, loaded, journal, given, reserved, strays, crashes>>

(* The lock is taken anew to write the post down.                          *)
Record(s) ==
  /\ seat[s].pc = "new"
  /\ \E failed \in BOOLEAN :
       /\ DiskFails(failed)
       /\ WriteDown(BoardOf[s], seat[s].now, failed)
  /\ given' = given \cup {seat[s].now}
  /\ Take(s)
  /\ Keep /\ UNCHANGED <<tab, attempt, loaded, reserved, strays, crashes>>

(* _tai_ve, tried four times.                                              *)
Download(s) ==
  /\ seat[s].pc = "download"
  /\ \/ Go(s, "down") /\ UNCHANGED attempt
     \/ End(s, "raised")
  /\ Keep /\ UNCHANGED <<tab, loaded, books, reserved, bounds>>

(* The first clip is written over the empty file; of the others those that *)
(* can be had go into versions of their own.                               *)
Save(s) ==
  /\ seat[s].pc = "save"
  /\ \/ End(s, "raised")
     \/ \E c \in seat[s].seen, others \in SUBSET seat[s].seen :
          /\ seat' = [seat EXCEPT ![s] = Rest(s)]
          /\ attempt' = [attempt EXCEPT ![Att(s)].saved = {c} \cup others,
                                        ![Att(s)].empty = FALSE,
                                        ![Att(s)].verdict = "outputs"]
  /\ Keep /\ UNCHANGED <<tab, loaded, books, reserved, bounds>>

Step(s) ==
  \/ OpenSession(s) \/ Start(s) \/ GoToImagine(s) \/ NewGeneration(s)
  \/ Compose(s) \/ Stamp(s) \/ Type(s) \/ Reserve(s) \/ Press(s)
  \/ Tell(s) \/ Poll(s) \/ Expire(s) \/ Judge(s) \/ Record(s)
  \/ Download(s) \/ Save(s)

-----------------------------------------------------------------------------
(* Grok, the user, and crashes.                                            *)

(* Grok shows the post it has opened, before the worker looks for it.      *)
ShowPost(s) ==
  /\ seat[s].pc \in {"poll", "seen"}
  /\ attempt[Att(s)].home = Att(s) /\ tab[s].at # Att(s)
  /\ tab' = [tab EXCEPT ![s] = Visit(Att(s))]
  /\ UNCHANGED <<seat, attempt, begun, loaded, up, books, reserved, bounds>>

(* Grok pulls the tab to some post, or reloads the one it is on.           *)
Stray(s) ==
  /\ seat[s].pc \in {"compose", "stamp", "type", "reserve", "click", "poll", "seen"}
  /\ strays < MaxStrays /\ strays' = strays + 1
  /\ \E p \in Posts : Exists(p) /\ tab' = [tab EXCEPT ![s] = Visit(p)]
  /\ seat' = [seat EXCEPT ![s].strayed = TRUE]
  /\ UNCHANGED <<attempt, begun, loaded, up, books, reserved, crashes, mishaps>>

(* The lease of the attempt is revoked.  It is enough to let that happen   *)
(* just before the steps that can notice it.                               *)
Revoke(s) ==
  /\ seat[s].pc \in {"open", "type"} \cup DOMAIN Telling
  /\ ~attempt[Att(s)].revoked
  /\ attempt' = [attempt EXCEPT ![Att(s)].revoked = TRUE]
  /\ UNCHANGED <<seat, tab, begun, loaded, up, books, reserved, bounds>>

Crash(b) ==
  /\ b \in up /\ crashes < MaxCrashes
  /\ crashes' = crashes + 1
  /\ up' = up \ {b}
  /\ seat' = [s \in Seats |-> IF BoardOf[s] = b THEN Idle ELSE seat[s]]
  /\ ledger' = [ledger EXCEPT ![b] = [read |-> FALSE, posts |-> {}]]
  /\ UNCHANGED <<tab, attempt, begun, loaded, journal, given, reserved, strays,
                 mishaps>>

(* Before the workers start, the board removes the empty versions.         *)
Restart(b) ==
  /\ b \in Boards \ up
  /\ up' = up \cup {b}
  /\ attempt' = [a \in Attempts |->
                   IF attempt[a].board = b /\ attempt[a].empty
                   THEN [attempt[a] EXCEPT !.empty = FALSE] ELSE attempt[a]]
  /\ UNCHANGED <<seat, tab, begun, loaded, books, reserved, bounds>>

Next ==
  \/ \E s \in Seats : Begin(s) \/ Step(s) \/ ShowPost(s) \/ Stray(s) \/ Revoke(s)
  \/ \E b \in Boards : Crash(b) \/ Restart(b)

Spec == Init /\ [][Next]_vars

-----------------------------------------------------------------------------
(* Properties.                                                             *)

(* An attempt whose tab has come to another post than it pressed Submit on *)
(* takes no clip there if an attempt before its press had come to that     *)
(* post and taken one: not in another tab, and not after a crash unless    *)
(* the disk has failed.  A clip taken in place is not such a taking: it is *)
(* neither looked up in the ledger nor written down (nhan_duoc_clip).      *)
OneArrivalPerPost ==
  [][\A s \in Seats : seat[s].pc = "new" /\ seat'[s].pc = "got" =>
       seat[s].now \notin seat[s].knew \/ (crashes > 0 /\ mishaps > 0)]_vars

(* Not checked, for it does not hold: a post that has given a clip gives   *)
(* no other one (the comment on the ledger in video_grok.py), so that no   *)
(* clip is saved by two attempts.  One that was taken in place can be      *)
(* taken again by an attempt whose tab is pulled to that post.             *)
PostGivesOnce ==
  \A a, b \in Attempts : a # b => attempt[a].saved \cap attempt[b].saved = {}

(* An attempt saves a clip that is not its own only if its tab was pulled  *)
(* away after the marks were made (or they could not be made), or if that  *)
(* clip was rendered in a post that is not its own.                        *)
OwnClip ==
  [][\A a \in Attempts : \A c \in attempt'[a].saved \ attempt[a].saved :
       \/ c.by = a
       \/ \E s \in Seats : Att(s) = a /\ seat[s].strayed
       \/ HomeOf(c.by) # c.by]_vars

(* Over all crashes, no more is pressed than was reserved, within the      *)
(* limit, and an attempt presses once.                                     *)
PressesReserved ==
  /\ \A b \in Boards :
       /\ Cardinality({a \in Attempts : attempt[a].board = b /\ attempt[a].clicks > 0})
            <= reserved[b]
       /\ reserved[b] <= Limit
  /\ \A a \in Attempts : attempt[a].clicks <= 1

(* Each attempt keeps to what the runtime relies on.                       *)
Contract(a) == INSTANCE AttemptContract WITH Late <- FALSE,
  spent <- attempt[a].clicks > 0, phase <- attempt[a].phase,
  verdict <- attempt[a].verdict, revoked <- attempt[a].revoked
ImplementsAttempts ==
  /\ \A a \in Attempts : Contract(a)!Init
  /\ [][\A a \in Attempts : attempt'[a] = attempt[a]
                              \/ UNCHANGED Contract(a)!vars \/ Contract(a)!Next]_vars

(* How many steps are left to an attempt at most.  Within a round there    *)
(* are Tries tries of two steps and a look at the page.                    *)
StepsLeft(w) ==
  LET round == 2 * Tries + 1
      later == (Tries - w.round) * round
      after == Polls + 14
  IN CASE w.pc = "open"    -> after + Tries * round + 2 - (IF w.session THEN 1 ELSE 0)
       [] w.pc = "goto"    -> after + later + 2 * (Tries - w.try) + 3
       [] w.pc = "stuck"   -> after + later + 2 * (Tries - w.try) + 2
       [] w.pc = "compose" -> after + later + 1
       [] w.pc = "stamp"   -> after
       [] w.pc = "type"    -> Polls + 13
       [] w.pc = "reserve" -> Polls + 12
       [] w.pc = "click"   -> Polls + 11
       [] w.pc = "clicked" -> Polls + 10
       [] w.pc = "told"    -> Polls + 9
       [] w.pc = "poll"    -> w.left + 8
       [] w.pc = "seen"    -> 7
       [] w.pc = "new"     -> 6
       [] w.pc = "got"     -> 5
       [] w.pc = "download" -> 4
       [] w.pc = "down"    -> 3
       [] w.pc = "save"    -> 2
       [] OTHER            -> 0

(* Every attempt comes to its end: a worker that has one takes it nearer   *)
(* the end with every step, whatever Grok and the other workers do, and    *)
(* Grok can take no step back.                                             *)
AttemptsEnd ==
  [][\A s \in Seats : Att(s) # 0 /\ seat'[s] # seat[s] =>
       /\ StepsLeft(seat'[s]) <= StepsLeft(seat[s])
       /\ seat'[s].pc # seat[s].pc => StepsLeft(seat'[s]) < StepsLeft(seat[s])
       /\ seat'[s].left # seat[s].left => StepsLeft(seat'[s]) < StepsLeft(seat[s])]_vars
=============================================================================
