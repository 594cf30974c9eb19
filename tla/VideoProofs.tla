---------------------------- MODULE VideoProofs ----------------------------
(***************************************************************************)
(* What attempts at videos keep for any workers, boards, numbers of        *)
(* attempts, tries, clips and faults: no more is pressed than reserved,    *)
(* every attempt keeps its contract with the runtime and comes to its end, *)
(* a clip that is saved is the attempt's own unless its tab was pulled     *)
(* away, and only one attempt of a board takes a clip on coming to a post. *)
(***************************************************************************)
EXTENDS VideoMessage, FiniteSetTheorems, TLAPS

(* The steps on either side of the press.                                  *)
BeforePress == {"open", "goto", "stuck", "compose", "stamp", "type", "reserve", "click"}
AfterPress ==
  {"clicked", "told", "poll", "seen", "new", "got", "download", "down", "save"}

Places == Posts \cup {Imagine}
Worker ==
  [pc : {"idle"} \cup BeforePress \cup AfterPress, att : 0 .. MaxAttempts,
   session : BOOLEAN, try : 1 .. Tries, round : 1 .. Tries, before : SUBSET Clips,
   url : Places, left : 0 .. Polls, seen : SUBSET Clips, now : Places,
   knew : SUBSET Places, strayed : BOOLEAN]
Page == [at : Places, dom : SUBSET Clips, marked : SUBSET Clips]
Entry ==
  [board : Boards, phase : {"attaching", "submitted", "waiting", "downloading", "saving"},
   verdict : {"open", "not_sent", "raised", "outputs"}, revoked : BOOLEAN,
   clicks : Nat, home : Places, empty : BOOLEAN, saved : SUBSET Clips]

BooksTyped ==
  /\ begun \in 0 .. MaxAttempts /\ loaded \subseteq Clips /\ up \subseteq Boards
  /\ ledger \in [Boards -> [read : BOOLEAN, posts : SUBSET Places]]
  /\ journal \subseteq Places /\ given \subseteq Places
  /\ reserved \in [Boards -> 0 .. Limit]
  /\ strays \in Nat /\ crashes \in Nat /\ mishaps \in Nat
VideoTypes ==
  /\ seat \in [Seats -> Worker] /\ tab \in [Seats -> Page]
  /\ attempt \in [Attempts -> Entry]
  /\ BooksTyped

(* A worker has an attempt of its own while it is not idle, one that its   *)
(* board began and that has no verdict yet.                                *)
Owned ==
  /\ \A s \in Seats : Att(s) = 0 <=> seat[s].pc = "idle"
  /\ \A s \in Seats : Att(s) # 0 =>
       /\ Att(s) <= begun
       /\ attempt[Att(s)].board = BoardOf[s] /\ attempt[Att(s)].verdict = "open"
  /\ \A s, t \in Seats : s # t /\ Att(s) # 0 => Att(s) # Att(t)
  /\ \A a \in Attempts : begun < a => attempt[a] = Fresh

(* What has been told and pressed goes with the worker's step.             *)
PhaseAt(pc) ==
  CASE pc = "told"                        -> "submitted"
    [] pc \in {"poll", "seen", "new", "got"} -> "waiting"
    [] pc \in {"download", "down"}        -> "downloading"
    [] pc = "save"                        -> "saving"
    [] OTHER                              -> "attaching"
InPhase ==
  /\ \A s \in Seats : Att(s) # 0 =>
       /\ attempt[Att(s)].phase = PhaseAt(seat[s].pc)
       /\ attempt[Att(s)].clicks = IF seat[s].pc \in BeforePress THEN 0 ELSE 1
  /\ \A a \in Attempts : /\ attempt[a].clicks <= 1
                         /\ attempt[a].clicks = 0 => attempt[a].home = NoPost

(* The attempts of a board that have pressed or are about to.              *)
AboutToPress(a) == \E s \in Seats : Att(s) = a /\ seat[s].pc = "click"
Held(b) ==
  {a \in Attempts : attempt[a].board = b /\ (attempt[a].clicks > 0 \/ AboutToPress(a))}
Covered == \A b \in Boards : Cardinality(Held(b)) <= reserved[b]

VideoInv == VideoTypes /\ Owned /\ InPhase /\ Covered

(* A worker that has not begun to go to a page has all its tries before it. *)
FirstTry ==
  \A s \in Seats : seat[s].pc \in {"idle", "open"} =>
    seat[s].try = 1 /\ seat[s].round = 1

(* A clip that is not the attempt's own was rendered away from home.       *)
OwnOrAway(c, a) == c.by = a \/ HomeOf(c.by) \notin {c.by, NoPost}
Watching == {"type", "reserve", "click", "clicked", "told", "poll"}
Holding == {"seen", "new", "got", "download", "down", "save"}
Watches(w, t, a) ==
  ~w.strayed =>
    /\ w.pc \in Watching => \A c \in t.dom \ t.marked : OwnOrAway(c, a)
    /\ w.pc \in Holding => \A c \in w.seen : OwnOrAway(c, a)
Recognised == \A s \in Seats : Att(s) # 0 => Watches(seat[s], tab[s], Att(s))

(* What a board remembers, and the journal behind it, are what has been    *)
(* given, until a crash and a failure of the disk have come together.      *)
Excused == crashes > 0 /\ mishaps > 0
BoardsRemember ==
  /\ \A b \in Boards :
       /\ ledger[b].read => given \subseteq ledger[b].posts \/ Excused
       /\ ~ledger[b].read => given \subseteq journal \/ Excused
       /\ ~ledger[b].read /\ crashes = 0 => given = {}
       /\ mishaps = 0 => ledger[b].posts \subseteq journal
  /\ mishaps = 0 => given \subseteq journal
Remembered ==
  /\ BoardsRemember
  /\ \A s \in Seats : seat[s].pc \in AfterPress => seat[s].knew \subseteq given
  /\ \A s \in Seats : seat[s].pc = "new" => seat[s].now \notin seat[s].knew \/ Excused

-----------------------------------------------------------------------------
(* Types.                                                                  *)

LEMMA Numbers ==
  /\ MaxAttempts \in Nat \ {0} /\ Variants \in Nat \ {0} /\ Tries \in Nat \ {0}
  /\ Polls \in Nat \ {0} /\ Limit \in Nat \ {0}
  /\ MaxStrays \in Nat /\ MaxCrashes \in Nat /\ MaxMishaps \in Nat
  /\ BoardOf \in [Seats -> Boards]
BY VideoAssumption

LEMMA Rounds == 1 \in 1 .. Tries /\ \A n \in 1 .. Tries : n < Tries => n + 1 \in 1 .. Tries
BY Numbers

LEMMA FreshTyped == Fresh \in Entry
BY VideoAssumption DEF Fresh, Entry, Places, NoPost, Imagine

LEMMA IdleTyped == Idle \in Worker
BY Numbers DEF Idle, Worker, Places, Imagine

LEMMA BlankTyped == Blank \in Page
BY DEF Blank, Page, Places

LEMMA VisitTyped == ASSUME NEW p \in Posts PROVE Visit(p) \in Page
BY DEF Visit, Page, Places

LEMMA InitTyped == Init => VideoTypes
<1> SUFFICES ASSUME Init
             PROVE  VideoTypes
  OBVIOUS
<1>1. seat \in [Seats -> Worker] /\ attempt \in [Attempts -> Entry]
  BY IdleTyped, FreshTyped DEF Init
<1>2. [at |-> Old, marked |-> {}, dom |-> [by : {Old}, n : 1 .. Variants]] \in Page
  BY DEF Page, Places, Posts, Clips
<1>3. tab \in [Seats -> Page]
  BY <1>2, BlankTyped DEF Init
<1>4. QED
  BY <1>1, <1>3, Numbers DEF Init, VideoTypes, BooksTyped

(* The worker of an attempt.                                               *)
LEMMA Working ==
  ASSUME VideoTypes, Owned, NEW s \in Seats, Restless(s)
  PROVE  Att(s) \in Attempts /\ Att(s) # 0
BY Numbers DEF VideoTypes, Owned, Restless, Worker, Att, Attempts

LEMMA RestTyped ==
  ASSUME VideoTypes, NEW s \in Seats
  PROVE  Rest(s) \in Worker
BY IdleTyped DEF VideoTypes, Rest, Worker, Idle

(* Writing over one place.                                                 *)
LEMMA PutSeat ==
  ASSUME VideoTypes, NEW s \in Seats, NEW w \in Worker
  PROVE  [seat EXCEPT ![s] = w] \in [Seats -> Worker]
BY DEF VideoTypes

LEMMA PutTab ==
  ASSUME VideoTypes, NEW s \in Seats, NEW p \in Page
  PROVE  [tab EXCEPT ![s] = p] \in [Seats -> Page]
BY DEF VideoTypes

LEMMA PutEntry ==
  ASSUME VideoTypes, NEW a \in Attempts, NEW e \in Entry
  PROVE  [attempt EXCEPT ![a] = e] \in [Attempts -> Entry]
BY DEF VideoTypes

LEMMA LedgerTyped ==
  ASSUME VideoTypes, NEW b \in Boards, NEW p \in Places, NEW failed \in BOOLEAN
  PROVE  /\ Load(b, failed) \subseteq Places
         /\ WriteDown(b, p, failed) =>
              /\ ledger' \in [Boards -> [read : BOOLEAN, posts : SUBSET Places]]
              /\ journal' \subseteq Places
<1>1. Load(b, failed) \subseteq Places
  BY DEF VideoTypes, BooksTyped, Load
<1>2. [read |-> TRUE, posts |-> Load(b, failed) \cup {p}]
        \in [read : BOOLEAN, posts : SUBSET Places]
  BY <1>1
<1>3. QED
  BY <1>1, <1>2 DEF VideoTypes, BooksTyped, WriteDown

LEMMA DiskTyped ==
  ASSUME VideoTypes, NEW failed, DiskFails(failed)
  PROVE  mishaps' \in Nat /\ mishaps <= mishaps' /\ failed \in BOOLEAN
         /\ (mishaps' = 0 => ~failed /\ mishaps = 0)
BY Numbers DEF VideoTypes, BooksTyped, DiskFails

-----------------------------------------------------------------------------
(* What a step of a worker changes: its own place, its tab, its attempt.   *)

Proceeds(s) ==
  /\ seat'[s].pc \in BeforePress \cup AfterPress /\ seat'[s].att = Att(s)
  /\ attempt'[Att(s)].verdict = attempt[Att(s)].verdict
Moves(s) ==
  /\ seat' = [seat EXCEPT ![s] = seat'[s]] /\ seat'[s] \in Worker
  /\ tab' = [tab EXCEPT ![s] = tab'[s]] /\ tab'[s] \in Page
  /\ attempt' = [attempt EXCEPT ![Att(s)] = attempt'[Att(s)]]
  /\ attempt'[Att(s)] \in Entry /\ attempt'[Att(s)].board = attempt[Att(s)].board
  /\ seat'[s] = Rest(s) \/ Proceeds(s)
  /\ Keep

LEMMA SameTab ==
  ASSUME VideoTypes, NEW s \in Seats, UNCHANGED tab
  PROVE  tab' = [tab EXCEPT ![s] = tab'[s]] /\ tab'[s] \in Page
BY DEF VideoTypes

LEMMA OtherTab ==
  ASSUME VideoTypes, NEW s \in Seats, NEW p \in Page, tab' = [tab EXCEPT ![s] = p]
  PROVE  tab' = [tab EXCEPT ![s] = tab'[s]] /\ tab'[s] \in Page
BY DEF VideoTypes

LEMMA EndMoves ==
  ASSUME VideoTypes, Owned, NEW s \in Seats, Restless(s),
         NEW v \in {"not_sent", "raised"}, End(s, v),
         tab' = [tab EXCEPT ![s] = tab'[s]] /\ tab'[s] \in Page, Keep
  PROVE  Moves(s)
<1> DEFINE e == attempt[Att(s)]
<1>1. Att(s) \in Attempts /\ e \in Entry
  BY Working DEF VideoTypes
<1>2. [e EXCEPT !.verdict = v, !.empty = FALSE] \in Entry
  BY <1>1 DEF Entry
<1>3. attempt' = [attempt EXCEPT ![Att(s)] = [e EXCEPT !.verdict = v, !.empty = FALSE]]
  BY <1>1 DEF End, VideoTypes
<1>4. attempt'[Att(s)] = [e EXCEPT !.verdict = v, !.empty = FALSE]
  BY <1>1, <1>3 DEF VideoTypes
<1>5. [e EXCEPT !.verdict = v, !.empty = FALSE].board = e.board
  BY <1>1 DEF Entry
<1>6. seat' = [seat EXCEPT ![s] = Rest(s)] /\ seat'[s] = Rest(s)
  BY DEF End, VideoTypes
<1>7. attempt' = [attempt EXCEPT ![Att(s)] = attempt'[Att(s)]]
  BY <1>3, <1>4
<1>8. QED
  BY <1>2, <1>4, <1>5, <1>6, <1>7, RestTyped DEF Moves

(* The worker goes on, and its attempt is not touched.                     *)
LEMMA GoesOn ==
  ASSUME VideoTypes, Owned, NEW s \in Seats, Restless(s), NEW w \in Worker,
         seat' = [seat EXCEPT ![s] = w],
         w.pc \in BeforePress \cup AfterPress, w.att = Att(s), UNCHANGED attempt,
         tab' = [tab EXCEPT ![s] = tab'[s]] /\ tab'[s] \in Page, Keep
  PROVE  Moves(s)
<1>1. seat'[s] = w
  BY DEF VideoTypes
<1>2. attempt[Att(s)] \in Entry /\ Att(s) \in Attempts
  BY Working DEF VideoTypes
<1>3. attempt' = [attempt EXCEPT ![Att(s)] = attempt'[Att(s)]]
  BY <1>2 DEF VideoTypes
<1>4. QED
  BY <1>1, <1>2, <1>3 DEF Moves, Proceeds

(* The worker goes on and writes something about its attempt.              *)
LEMMA GoesOnWith ==
  ASSUME VideoTypes, Owned, NEW s \in Seats, Restless(s), NEW w \in Worker,
         seat' = [seat EXCEPT ![s] = w],
         w.pc \in BeforePress \cup AfterPress, w.att = Att(s), NEW e \in Entry,
         attempt' = [attempt EXCEPT ![Att(s)] = e],
         e.board = attempt[Att(s)].board, e.verdict = attempt[Att(s)].verdict,
         tab' = [tab EXCEPT ![s] = tab'[s]] /\ tab'[s] \in Page, Keep
  PROVE  Moves(s) /\ attempt'[Att(s)] = e /\ seat'[s] = w
<1>1. seat'[s] = w
  BY DEF VideoTypes
<1>2. Att(s) \in Attempts
  BY Working
<1>3. attempt'[Att(s)] = e
  BY <1>2 DEF VideoTypes
<1>4. QED
  BY <1>1, <1>2, <1>3 DEF Moves, Proceeds

LEMMA Quiet ==
  ASSUME VideoTypes, Keep, UNCHANGED <<loaded, books, reserved, bounds>>
  PROVE  BooksTyped'
BY DEF VideoTypes, BooksTyped, Keep, books, bounds

LEMMA OpenSessionMoves ==
  ASSUME VideoTypes, Owned, NEW s \in Seats, OpenSession(s)
  PROVE  Moves(s) /\ BooksTyped'
<1>1. Restless(s) /\ Keep /\ UNCHANGED <<loaded, reserved, given, strays, crashes>>
  BY DEF OpenSession, Restless
<1>2. BooksTyped'
  <2>1. PICK failed \in BOOLEAN :
          /\ DiskFails(failed)
          /\ IF tab[s].at = Imagine THEN ~failed /\ UNCHANGED <<ledger, journal>>
             ELSE WriteDown(BoardOf[s], tab[s].at, failed)
    BY DEF OpenSession
  <2>2. tab[s].at \in Places /\ BoardOf[s] \in Boards
    BY Numbers DEF VideoTypes, Page
  <2>3. /\ ledger' \in [Boards -> [read : BOOLEAN, posts : SUBSET Places]]
        /\ journal' \subseteq Places
    BY <2>1, <2>2, LedgerTyped DEF VideoTypes, BooksTyped
  <2>4. QED
    BY <1>1, <2>1, <2>3, DiskTyped DEF VideoTypes, BooksTyped, Keep
<1>3. CASE End(s, "not_sent") /\ UNCHANGED tab
  BY <1>1, <1>2, <1>3, SameTab, EndMoves
<1>4. CASE /\ tab' = [tab EXCEPT ![s] = Blank]
           /\ seat' = [seat EXCEPT ![s].pc = "goto", ![s].session = TRUE]
           /\ UNCHANGED attempt
  <2> DEFINE w == seat[s]
  <2>1. w \in Worker
    BY DEF VideoTypes
  <2>2. [w EXCEPT !.pc = "goto", !.session = TRUE] \in Worker
    BY <2>1 DEF Worker, BeforePress
  <2>3. /\ [w EXCEPT !.pc = "goto", !.session = TRUE].pc \in BeforePress
        /\ [w EXCEPT !.pc = "goto", !.session = TRUE].att = Att(s)
    BY <2>1 DEF Worker, BeforePress, Att
  <2>4. seat' = [seat EXCEPT ![s] = [w EXCEPT !.pc = "goto", !.session = TRUE]]
    BY <1>4
  <2>5. QED
    BY <1>1, <1>2, <1>4, <2>2, <2>3, <2>4, GoesOn, OtherTab, BlankTyped
<1>5. QED
  BY <1>3, <1>4 DEF OpenSession

LEMMA GoMoves ==
  ASSUME VideoTypes, Owned, NEW s \in Seats, Restless(s),
         NEW step \in BeforePress \cup AfterPress, Go(s, step), UNCHANGED attempt,
         tab' = [tab EXCEPT ![s] = tab'[s]] /\ tab'[s] \in Page, Keep
  PROVE  Moves(s)
<1> DEFINE w == seat[s]
           next == [w EXCEPT !.pc = step]
<1>1. w \in Worker
  BY DEF VideoTypes
<1>2. next \in Worker
  BY <1>1 DEF Worker
<1>3. next.pc \in BeforePress \cup AfterPress /\ next.att = Att(s)
  BY <1>1 DEF Worker, Att
<1>4. seat' = [seat EXCEPT ![s] = next]
  BY DEF Go
<1>5. QED
  BY <1>2, <1>3, <1>4, GoesOn

LEMMA StartMoves ==
  ASSUME VideoTypes, Owned, NEW s \in Seats, Start(s)
  PROVE  Moves(s) /\ BooksTyped'
<1>1. Restless(s) /\ Keep /\ UNCHANGED <<tab, loaded, books, reserved, bounds>>
  BY DEF Start, Restless
<1>2. CASE End(s, "not_sent")
  BY <1>1, <1>2, SameTab, EndMoves, Quiet
<1>3. CASE Go(s, "goto") /\ UNCHANGED attempt
  BY <1>1, <1>3, SameTab, GoMoves, Quiet DEF BeforePress
<1>4. QED
  BY <1>2, <1>3 DEF Start

LEMMA GoToImagineMoves ==
  ASSUME VideoTypes, Owned, NEW s \in Seats, GoToImagine(s)
  PROVE  Moves(s) /\ BooksTyped'
<1>1. /\ Restless(s) /\ Keep /\ UNCHANGED <<attempt, loaded, books, reserved, bounds>>
      /\ Go(s, "compose") \/ Go(s, "stuck")
      /\ tab' = [tab EXCEPT ![s] = Blank] \/ UNCHANGED tab
  BY DEF GoToImagine, Restless
<1>2. tab' = [tab EXCEPT ![s] = tab'[s]] /\ tab'[s] \in Page
  BY <1>1, SameTab, OtherTab, BlankTyped
<1>3. QED
  BY <1>1, <1>2, GoMoves, Quiet DEF BeforePress

LEMMA NewGenerationMoves ==
  ASSUME VideoTypes, Owned, NEW s \in Seats, NewGeneration(s)
  PROVE  Moves(s) /\ BooksTyped'
<1>1. Restless(s) /\ Keep /\ UNCHANGED <<loaded, books, reserved, bounds>>
  BY DEF NewGeneration, Restless
<1>2. BooksTyped'
  BY <1>1, Quiet
<1>3. CASE /\ tab' = [tab EXCEPT ![s] = Blank]
           /\ seat' = [seat EXCEPT ![s].pc = "compose", ![s].try = 1]
           /\ UNCHANGED attempt
  <2> DEFINE w == seat[s]
             next == [w EXCEPT !.pc = "compose", !.try = 1]
  <2>1. w \in Worker
    BY DEF VideoTypes
  <2>2. next \in Worker
    BY <2>1, Rounds DEF Worker, BeforePress, AfterPress
  <2>3. next.pc \in BeforePress \cup AfterPress /\ next.att = Att(s)
    BY <2>1 DEF Worker, BeforePress, AfterPress, Att
  <2>4. seat' = [seat EXCEPT ![s] = next]
    BY <1>3
  <2>5. QED
    BY <1>1, <1>2, <1>3, <2>2, <2>3, <2>4, GoesOn, OtherTab, BlankTyped
<1>4. CASE TryAgain(s) /\ UNCHANGED <<tab, attempt>>
  <2> DEFINE w == seat[s]
             next == [w EXCEPT !.pc = "goto", !.try = @ + 1]
  <2>1. w \in Worker
    BY DEF VideoTypes
  <2>2. next \in Worker
    <3>1. w.try \in 1 .. Tries
      BY <2>1 DEF Worker
    <3>2. w.try + 1 \in 1 .. Tries
      BY <1>4, <3>1, Rounds DEF TryAgain
    <3>3. QED
      BY <2>1, <3>2, Rounds DEF Worker, BeforePress
  <2>3. next.pc \in BeforePress \cup AfterPress /\ next.att = Att(s)
    BY <2>1 DEF Worker, BeforePress, AfterPress, Att
  <2>4. seat' = [seat EXCEPT ![s] = next]
    BY <1>4 DEF TryAgain
  <2>5. QED
    BY <1>1, <1>2, <1>4, <2>2, <2>3, <2>4, GoesOn, SameTab
<1>5. CASE End(s, "not_sent") /\ UNCHANGED tab
  BY <1>1, <1>2, <1>5, SameTab, EndMoves
<1>6. QED
  BY <1>3, <1>4, <1>5 DEF NewGeneration

LEMMA ComposeMoves ==
  ASSUME VideoTypes, Owned, NEW s \in Seats, Compose(s)
  PROVE  Moves(s) /\ BooksTyped'
<1>1. Restless(s) /\ Keep /\ UNCHANGED <<tab, loaded, books, reserved, bounds>>
  BY DEF Compose, Restless
<1>2. BooksTyped'
  BY <1>1, Quiet
<1>3. CASE /\ seat' = [seat EXCEPT ![s].pc = "stamp", ![s].try = 1, ![s].round = 1]
           /\ UNCHANGED attempt
  <2> DEFINE w == seat[s]
             next == [w EXCEPT !.pc = "stamp", !.try = 1, !.round = 1]
  <2>1. w \in Worker
    BY DEF VideoTypes
  <2>2. next \in Worker
    BY <2>1, Rounds DEF Worker, BeforePress, AfterPress
  <2>3. next.pc \in BeforePress \cup AfterPress /\ next.att = Att(s)
    BY <2>1 DEF Worker, BeforePress, AfterPress, Att
  <2>4. seat' = [seat EXCEPT ![s] = next]
    BY <1>3
  <2>5. QED
    BY <1>1, <1>2, <1>3, <2>2, <2>3, <2>4, GoesOn, SameTab
<1>4. CASE /\ AnotherRound(seat[s].round)
           /\ seat' = [seat EXCEPT ![s].pc = "goto", ![s].try = 1, ![s].round = @ + 1]
           /\ UNCHANGED attempt
  <2> DEFINE w == seat[s]
             next == [w EXCEPT !.pc = "goto", !.try = 1, !.round = @ + 1]
  <2>1. w \in Worker
    BY DEF VideoTypes
  <2>2. next \in Worker
    <3>1. w.round \in 1 .. Tries
      BY <2>1 DEF Worker
    <3>2. w.round + 1 \in 1 .. Tries
      BY <1>4, <3>1, Rounds DEF AnotherRound
    <3>3. QED
      BY <2>1, <3>2, Rounds DEF Worker, BeforePress
  <2>3. next.pc \in BeforePress \cup AfterPress /\ next.att = Att(s)
    BY <2>1 DEF Worker, BeforePress, AfterPress, Att
  <2>4. seat' = [seat EXCEPT ![s] = next]
    BY <1>4
  <2>5. QED
    BY <1>1, <1>2, <1>4, <2>2, <2>3, <2>4, GoesOn, SameTab
<1>5. CASE End(s, "not_sent")
  BY <1>1, <1>2, <1>5, SameTab, EndMoves
<1>6. QED
  BY <1>3, <1>4, <1>5 DEF Compose

LEMMA RenderedTyped ==
  ASSUME VideoTypes, NEW s \in Seats, Rendered(s)
  PROVE  loaded' \subseteq Clips
BY DEF VideoTypes, BooksTyped, Page, Rendered

LEMMA StampMoves ==
  ASSUME VideoTypes, Owned, NEW s \in Seats, Stamp(s)
  PROVE  Moves(s) /\ BooksTyped'
<1>1. Restless(s) /\ Keep /\ UNCHANGED <<books, reserved, bounds>>
  BY DEF Stamp, Restless
<1>2. CASE End(s, "not_sent") /\ UNCHANGED <<tab, loaded>>
  BY <1>1, <1>2, SameTab, EndMoves, Quiet
<1>3. ASSUME NEW works \in BOOLEAN, Rendered(s), UNCHANGED attempt,
             tab' = [tab EXCEPT ![s].marked = IF works THEN Stamped(tab[s]) ELSE {}],
             seat' = [seat EXCEPT ![s].pc = "type", ![s].strayed = ~works,
                                  ![s].before = tab[s].dom \cap loaded']
      PROVE  Moves(s) /\ BooksTyped'
  <2>1. BooksTyped'
    BY <1>1, <1>3, RenderedTyped DEF VideoTypes, BooksTyped, Keep, books, bounds
  <2> DEFINE page == tab[s]
             made == [page EXCEPT !.marked = IF works THEN Stamped(page) ELSE {}]
             w == seat[s]
             next == [w EXCEPT !.pc = "type", !.strayed = ~works,
                               !.before = page.dom \cap loaded']
  <2>2. page \in Page /\ w \in Worker
    BY DEF VideoTypes
  <2>3. made \in Page
    BY <2>2 DEF Page, Stamped
  <2>4. page.dom \cap loaded' \in SUBSET Clips
    BY <2>2 DEF Page
  <2>5. next \in Worker
    BY <2>2, <2>4 DEF Worker, BeforePress
  <2>6. next.pc \in BeforePress \cup AfterPress /\ next.att = Att(s)
    BY <2>2 DEF Worker, BeforePress, Att
  <2>7. tab' = [tab EXCEPT ![s] = made] /\ seat' = [seat EXCEPT ![s] = next]
    BY <1>3
  <2>8. QED
    BY <1>1, <1>3, <2>1, <2>3, <2>5, <2>6, <2>7, GoesOn, OtherTab
<1>4. QED
  BY <1>2, <1>3 DEF Stamp

LEMMA TypeMoves ==
  ASSUME VideoTypes, Owned, NEW s \in Seats, Type(s)
  PROVE  Moves(s) /\ BooksTyped'
<1>1. Restless(s) /\ Keep /\ UNCHANGED <<tab, loaded, books, reserved, bounds>>
  BY DEF Type, Restless
<1>2. CASE End(s, "not_sent")
  BY <1>1, <1>2, SameTab, EndMoves, Quiet
<1>3. CASE /\ seat' = [seat EXCEPT ![s].pc = "reserve", ![s].url = tab[s].at]
           /\ UNCHANGED attempt
  <2> DEFINE w == seat[s]
             next == [w EXCEPT !.pc = "reserve", !.url = tab[s].at]
  <2>1. w \in Worker /\ tab[s].at \in Places
    BY DEF VideoTypes, Page
  <2>2. next \in Worker
    BY <2>1 DEF Worker, BeforePress
  <2>3. next.pc \in BeforePress \cup AfterPress /\ next.att = Att(s)
    BY <2>1 DEF Worker, BeforePress, Att
  <2>4. seat' = [seat EXCEPT ![s] = next]
    BY <1>3
  <2>5. QED
    BY <1>1, <1>3, <2>2, <2>3, <2>4, GoesOn, SameTab, Quiet
<1>4. QED
  BY <1>2, <1>3 DEF Type

LEMMA ReserveMoves ==
  ASSUME VideoTypes, Owned, NEW s \in Seats, Reserve(s)
  PROVE  Moves(s) /\ BooksTyped'
<1>1. Restless(s) /\ Keep /\ UNCHANGED <<tab, loaded, books, bounds>>
  BY DEF Reserve, Restless
<1>2. reserved' \in [Boards -> 0 .. Limit]
  <2>1. reserved \in [Boards -> 0 .. Limit]
    BY DEF VideoTypes, BooksTyped
  <2>2. CASE UNCHANGED reserved
    BY <2>1, <2>2
  <2>3. CASE /\ reserved[BoardOf[s]] < Limit
             /\ \E n \in Counted(reserved[BoardOf[s]]) :
                  reserved' = [reserved EXCEPT ![BoardOf[s]] = n]
    <3>1. BoardOf[s] \in Boards /\ reserved[BoardOf[s]] \in 0 .. Limit
      BY <2>1, Numbers
    <3>2. reserved[BoardOf[s]] + 1 \in 0 .. Limit
      BY <2>3, <3>1, Numbers
    <3>3. reserved' = [reserved EXCEPT ![BoardOf[s]] = reserved[BoardOf[s]] + 1]
      BY <2>3 DEF Counted
    <3>4. QED
      BY <2>1, <3>2, <3>3
  <2>4. QED
    BY <2>2, <2>3 DEF Reserve
<1>3. BooksTyped'
  BY <1>1, <1>2 DEF VideoTypes, BooksTyped, Keep, books, bounds
<1>4. (Go(s, "click") /\ UNCHANGED attempt) \/ End(s, "not_sent")
  BY DEF Reserve
<1>5. QED
  BY <1>1, <1>3, <1>4, SameTab, GoMoves, EndMoves DEF BeforePress

LEMMA PressMoves ==
  ASSUME VideoTypes, Owned, NEW s \in Seats, Press(s)
  PROVE  Moves(s) /\ BooksTyped'
<1>1. Restless(s) /\ Keep /\ UNCHANGED <<loaded, books, reserved, bounds>>
  BY DEF Press, Restless
<1>2. CASE End(s, "raised") /\ UNCHANGED tab
  BY <1>1, <1>2, SameTab, EndMoves, Quiet
<1>3. ASSUME NEW p \in Outcomes(s),
             attempt' = [attempt EXCEPT ![Att(s)].clicks = @ + 1, ![Att(s)].home = p],
             tab' = IF p # NoPost /\ p = tab[s].at
                    THEN [tab EXCEPT ![s].dom = @ \cup OwnClips(s)] ELSE tab,
             seat' = [seat EXCEPT ![s].pc = "clicked", ![s].knew = given]
      PROVE  Moves(s)
  <2> DEFINE w == seat[s]
             next == [w EXCEPT !.pc = "clicked", !.knew = given]
             e == attempt[Att(s)]
             made == [e EXCEPT !.clicks = @ + 1, !.home = p]
             page == tab[s]
             grown == [page EXCEPT !.dom = @ \cup OwnClips(s)]
  <2>1. Att(s) \in Attempts /\ e \in Entry /\ w \in Worker /\ page \in Page
    BY <1>1, Working DEF VideoTypes
  <2>2. p \in Places
    BY <2>1 DEF Outcomes, Places, Posts, NoPost, Imagine, Page
  <2>3. OwnClips(s) \subseteq Clips
    BY <2>1 DEF OwnClips, Clips, Posts
  <2>4. grown \in Page
    BY <2>1, <2>3 DEF Page
  <2>5. tab' = [tab EXCEPT ![s] = tab'[s]] /\ tab'[s] \in Page
    <3>1. tab' = [tab EXCEPT ![s] = grown] \/ UNCHANGED tab
      BY <1>3
    <3>2. QED
      BY <2>4, <3>1, SameTab, OtherTab
  <2>6. next \in Worker
    BY <2>1 DEF Worker, AfterPress, VideoTypes, BooksTyped
  <2>7. next.pc \in BeforePress \cup AfterPress /\ next.att = Att(s)
    BY <2>1 DEF Worker, AfterPress, Att
  <2>8. made \in Entry /\ made.board = e.board /\ made.verdict = e.verdict
    <3>1. e.clicks + 1 \in Nat
      BY <2>1 DEF Entry
    <3>2. QED
      BY <2>1, <2>2, <3>1 DEF Entry
  <2>9. seat' = [seat EXCEPT ![s] = next] /\ attempt' = [attempt EXCEPT ![Att(s)] = made]
    BY <1>3
  <2>10. QED
    BY <1>1, <2>5, <2>6, <2>7, <2>8, <2>9, GoesOnWith
<1>4. QED
  BY <1>1, <1>2, <1>3, Quiet DEF Press, Pressed

LEMMA TellMoves ==
  ASSUME VideoTypes, Owned, NEW s \in Seats, Tell(s)
  PROVE  Moves(s) /\ BooksTyped'
<1>1. Restless(s) /\ Keep /\ UNCHANGED <<tab, loaded, books, reserved, bounds>>
  BY DEF Tell, Restless, Telling
<1>2. CASE End(s, "raised")
  BY <1>1, <1>2, SameTab, EndMoves, Quiet
<1>3. ASSUME attempt' = [attempt EXCEPT ![Att(s)].phase = Telling[seat[s].pc][1]],
             Go(s, Telling[seat[s].pc][2])
      PROVE  Moves(s)
  <2> DEFINE w == seat[s]
             next == [w EXCEPT !.pc = Telling[w.pc][2]]
             e == attempt[Att(s)]
             made == [e EXCEPT !.phase = Telling[w.pc][1]]
  <2>1. e \in Entry /\ w \in Worker
    BY <1>1, Working DEF VideoTypes
  <2>2. /\ Telling[w.pc][1] \in {"submitted", "waiting", "downloading", "saving"}
        /\ Telling[w.pc][2] \in AfterPress
    BY DEF Tell, Telling, AfterPress
  <2>3. next \in Worker
    BY <2>1, <2>2 DEF Worker
  <2>4. next.pc \in BeforePress \cup AfterPress /\ next.att = Att(s)
    BY <2>1, <2>2 DEF Worker, Att
  <2>5. made \in Entry /\ made.board = e.board /\ made.verdict = e.verdict
    BY <2>1, <2>2 DEF Entry
  <2>6. seat' = [seat EXCEPT ![s] = next] /\ attempt' = [attempt EXCEPT ![Att(s)] = made]
    BY <1>3 DEF Go
  <2> HIDE DEF next, made
  <2>7. QED
    BY <1>1, <2>3, <2>4, <2>5, <2>6, GoesOnWith, SameTab
<1>4. QED
  BY <1>1, <1>2, <1>3, Quiet DEF Tell

LEMMA PollMoves ==
  ASSUME VideoTypes, Owned, NEW s \in Seats, Poll(s)
  PROVE  Moves(s) /\ BooksTyped'
<1>1. Restless(s) /\ Keep /\ UNCHANGED <<tab, attempt, books, reserved, bounds>>
  BY DEF Poll, Restless
<1> DEFINE w == seat[s]
<1>2. w \in Worker /\ tab[s] \in Page
  BY DEF VideoTypes
<1>3. CASE Rendered(s) /\ seat' = [seat EXCEPT ![s].pc = "seen", ![s].seen = NewClips(s)]
  <2> DEFINE next == [w EXCEPT !.pc = "seen", !.seen = NewClips(s)]
  <2>1. BooksTyped'
    BY <1>1, <1>3, RenderedTyped DEF VideoTypes, BooksTyped, Keep, books, bounds
  <2>2. NewClips(s) \in SUBSET Clips
    BY <1>2 DEF NewClips, Page
  <2>3. next \in Worker
    BY <1>2, <2>2 DEF Worker, AfterPress
  <2>4. next.pc \in BeforePress \cup AfterPress /\ next.att = Att(s)
    BY <1>2 DEF Worker, AfterPress, Att
  <2>5. seat' = [seat EXCEPT ![s] = next]
    BY <1>3
  <2>6. QED
    BY <1>1, <2>1, <2>3, <2>4, <2>5, GoesOn, SameTab
<1>4. CASE seat' = [seat EXCEPT ![s].left = @ - 1] /\ UNCHANGED loaded
  <2> DEFINE next == [w EXCEPT !.left = @ - 1]
  <2>1. w.left - 1 \in 0 .. Polls
    BY <1>2, Numbers DEF Worker, Poll
  <2>2. next \in Worker
    BY <1>2, <2>1 DEF Worker
  <2>3. next.pc \in BeforePress \cup AfterPress /\ next.att = Att(s)
    BY <1>2 DEF Worker, AfterPress, Att, Poll
  <2>4. seat' = [seat EXCEPT ![s] = next]
    BY <1>4
  <2>5. QED
    BY <1>1, <1>4, <2>2, <2>3, <2>4, GoesOn, SameTab, Quiet
<1>5. QED
  BY <1>3, <1>4 DEF Poll

LEMMA TakeMoves ==
  ASSUME VideoTypes, Owned, NEW s \in Seats, Restless(s), Take(s), UNCHANGED <<tab, attempt>>,
         Keep
  PROVE  Moves(s)
<1> DEFINE r == Rest(s)
           next == [r EXCEPT !.pc = "got", !.att = Att(s), !.seen = seat[s].seen,
                             !.strayed = seat[s].strayed]
<1>1. r \in Worker /\ seat[s] \in Worker
  BY RestTyped DEF VideoTypes
<1>2. Att(s) \in 0 .. MaxAttempts /\ seat[s].seen \in SUBSET Clips /\ seat[s].strayed \in BOOLEAN
  BY <1>1 DEF Worker, Att
<1> HIDE DEF r
<1>3. next \in Worker
  BY <1>1, <1>2 DEF Worker, AfterPress
<1>4. next.pc \in BeforePress \cup AfterPress /\ next.att = Att(s)
  BY <1>1 DEF Worker, AfterPress
<1>5. seat' = [seat EXCEPT ![s] = next]
  BY DEF Take, r
<1> HIDE DEF next
<1>6. QED
  BY <1>3, <1>4, <1>5, GoesOn, SameTab

LEMMA JudgeMoves ==
  ASSUME VideoTypes, Owned, NEW s \in Seats, Judge(s)
  PROVE  Moves(s) /\ BooksTyped'
<1> DEFINE b == BoardOf[s]
           p == tab[s].at
<1>1. Restless(s) /\ Keep /\ UNCHANGED <<tab, loaded, journal, given, reserved, strays, crashes>>
  BY DEF Judge, Restless
<1>2. b \in Boards /\ p \in Places
  BY Numbers DEF VideoTypes, Page
<1>3. CASE Take(s) /\ UNCHANGED <<attempt, ledger, mishaps>>
  BY <1>1, <1>3, TakeMoves DEF VideoTypes, BooksTyped, Keep
<1>4. ASSUME NEW failed \in BOOLEAN, DiskFails(failed),
             ledger' = [ledger EXCEPT ![b] = [read |-> TRUE, posts |-> Load(b, failed)]],
             IF p \in Load(b, failed) THEN End(s, "raised")
             ELSE /\ seat' = [seat EXCEPT ![s].pc = "new", ![s].now = p]
                  /\ UNCHANGED attempt
      PROVE  Moves(s) /\ BooksTyped'
  <2>1. Load(b, failed) \subseteq Places
    BY <1>2, LedgerTyped
  <2>2. ledger' \in [Boards -> [read : BOOLEAN, posts : SUBSET Places]]
    BY <1>2, <1>4, <2>1 DEF VideoTypes, BooksTyped
  <2>3. BooksTyped'
    BY <1>1, <1>4, <2>2, DiskTyped DEF VideoTypes, BooksTyped, Keep
  <2>4. CASE End(s, "raised")
    BY <1>1, <2>3, <2>4, SameTab, EndMoves
  <2>5. CASE /\ seat' = [seat EXCEPT ![s].pc = "new", ![s].now = p]
             /\ UNCHANGED attempt
    <3> DEFINE w == seat[s]
               next == [w EXCEPT !.pc = "new", !.now = p]
    <3>1. w \in Worker
      BY DEF VideoTypes
    <3>2. next \in Worker
      BY <1>2, <3>1 DEF Worker, AfterPress
    <3>3. next.pc \in BeforePress \cup AfterPress /\ next.att = Att(s)
      BY <3>1 DEF Worker, AfterPress, Att
    <3>4. seat' = [seat EXCEPT ![s] = next]
      BY <2>5
    <3>5. QED
      BY <1>1, <2>3, <2>5, <3>2, <3>3, <3>4, GoesOn, SameTab
  <2>6. QED
    BY <1>4, <2>4, <2>5
<1>5. QED
  BY <1>3, <1>4 DEF Judge

LEMMA RecordMoves ==
  ASSUME VideoTypes, Owned, NEW s \in Seats, Record(s)
  PROVE  Moves(s) /\ BooksTyped'
<1>1. /\ Restless(s) /\ Keep /\ UNCHANGED <<tab, attempt, loaded, reserved, strays, crashes>>
      /\ Take(s) /\ given' = given \cup {seat[s].now}
  BY DEF Record, Restless
<1>2. PICK failed \in BOOLEAN :
        DiskFails(failed) /\ WriteDown(BoardOf[s], seat[s].now, failed)
  BY DEF Record
<1>3. BoardOf[s] \in Boards /\ seat[s].now \in Places
  BY Numbers DEF VideoTypes, Worker
<1>4. /\ ledger' \in [Boards -> [read : BOOLEAN, posts : SUBSET Places]]
      /\ journal' \subseteq Places
  BY <1>2, <1>3, LedgerTyped
<1>5. BooksTyped'
  BY <1>1, <1>2, <1>3, <1>4, DiskTyped DEF VideoTypes, BooksTyped, Keep
<1>6. QED
  BY <1>1, <1>5, TakeMoves

LEMMA DownloadMoves ==
  ASSUME VideoTypes, Owned, NEW s \in Seats, Download(s)
  PROVE  Moves(s) /\ BooksTyped'
<1>1. Restless(s) /\ Keep /\ UNCHANGED <<tab, loaded, books, reserved, bounds>>
  BY DEF Download, Restless
<1>2. CASE End(s, "raised")
  BY <1>1, <1>2, SameTab, EndMoves, Quiet
<1>3. CASE Go(s, "down") /\ UNCHANGED attempt
  BY <1>1, <1>3, SameTab, GoMoves, Quiet DEF AfterPress
<1>4. QED
  BY <1>2, <1>3 DEF Download

LEMMA ExpireMoves ==
  ASSUME VideoTypes, Owned, NEW s \in Seats, Expire(s)
  PROVE  Moves(s) /\ BooksTyped'
<1>1. /\ Restless(s) /\ Keep /\ UNCHANGED <<tab, loaded, books, reserved, bounds>>
      /\ End(s, "raised")
  BY DEF Expire, Restless
<1>2. QED
  BY <1>1, SameTab, EndMoves, Quiet

LEMMA SaveMoves ==
  ASSUME VideoTypes, Owned, NEW s \in Seats, Save(s)
  PROVE  Moves(s) /\ BooksTyped'
<1>1. Restless(s) /\ Keep /\ UNCHANGED <<tab, loaded, books, reserved, bounds>>
  BY DEF Save, Restless
<1>2. CASE End(s, "raised")
  BY <1>1, <1>2, SameTab, EndMoves, Quiet
<1>3. ASSUME NEW c \in seat[s].seen, NEW others \in SUBSET seat[s].seen,
             seat' = [seat EXCEPT ![s] = Rest(s)],
             attempt' = [attempt EXCEPT ![Att(s)].saved = {c} \cup others,
                                        ![Att(s)].empty = FALSE,
                                        ![Att(s)].verdict = "outputs"]
      PROVE  Moves(s)
  <2> DEFINE e == attempt[Att(s)]
             made == [e EXCEPT !.saved = {c} \cup others, !.empty = FALSE,
                               !.verdict = "outputs"]
  <2>1. Att(s) \in Attempts /\ e \in Entry /\ seat[s] \in Worker
    BY <1>1, Working DEF VideoTypes
  <2>2. {c} \cup others \in SUBSET Clips
    BY <2>1 DEF Worker
  <2>3. made \in Entry /\ made.board = e.board
    BY <2>1, <2>2 DEF Entry
  <2>4. attempt' = [attempt EXCEPT ![Att(s)] = made]
    BY <1>3
  <2>5. attempt'[Att(s)] = made
    BY <2>1, <2>4 DEF VideoTypes
  <2>6. seat'[s] = Rest(s) /\ seat' = [seat EXCEPT ![s] = seat'[s]]
    BY <1>3 DEF VideoTypes
  <2> HIDE DEF made
  <2>7. QED
    BY <1>1, <2>3, <2>4, <2>5, <2>6, RestTyped, SameTab DEF Moves
<1>4. QED
  BY <1>1, <1>2, <1>3, Quiet DEF Save

LEMMA StepMoves ==
  ASSUME VideoTypes, Owned, NEW s \in Seats, Step(s)
  PROVE  Moves(s) /\ BooksTyped'
BY OpenSessionMoves, StartMoves, GoToImagineMoves, NewGenerationMoves, ComposeMoves,
   StampMoves, TypeMoves, ReserveMoves, PressMoves, TellMoves, PollMoves, ExpireMoves,
   JudgeMoves, RecordMoves, DownloadMoves, SaveMoves DEF Step

-----------------------------------------------------------------------------
(* Each attempt has one worker.                                            *)

LEMMA MovedTyped ==
  ASSUME VideoTypes, Owned, NEW s \in Seats, Restless(s), Moves(s), BooksTyped'
  PROVE  VideoTypes'
<1>1. seat' \in [Seats -> Worker] /\ tab' \in [Seats -> Page]
  BY DEF VideoTypes, Moves
<1>2. attempt' \in [Attempts -> Entry]
  BY Working, PutEntry DEF Moves
<1>3. QED
  BY <1>1, <1>2 DEF VideoTypes

LEMMA MovedOwned ==
  ASSUME VideoTypes, Owned, NEW s \in Seats, Restless(s), Moves(s)
  PROVE  Owned'
<1>1. /\ Att(s) \in Attempts /\ Att(s) # 0 /\ Att(s) <= begun /\ begun' = begun
      /\ begun \in Nat
  BY Working DEF Owned, Moves, Keep, VideoTypes, BooksTyped
<1>2. \A t \in Seats : t # s => seat'[t] = seat[t]
  BY DEF Moves, VideoTypes
<1>3. \A a \in Attempts : a # Att(s) => attempt'[a] = attempt[a]
  BY DEF Moves, VideoTypes
<1>4. \A t \in Seats : t # s => Att(t) # Att(s)
  BY <1>1 DEF Owned
<1>5. \A t \in Seats : Att(t) # 0 => Att(t) \in Attempts
  BY Working DEF Owned, Restless
<1>6. \/ seat'[s].att = 0 /\ seat'[s].pc = "idle"
      \/ /\ seat'[s].pc # "idle" /\ seat'[s].att = Att(s)
         /\ attempt'[Att(s)].verdict = attempt[Att(s)].verdict
  BY DEF Moves, Proceeds, Rest, Idle, BeforePress, AfterPress
<1>7. attempt'[Att(s)].board = attempt[Att(s)].board
  BY DEF Moves
<1>8. (\A t \in Seats : Att(t) = 0 <=> seat[t].pc = "idle")'
  BY <1>1, <1>2, <1>6 DEF Owned, Att
<1>9. (\A t \in Seats : Att(t) # 0 =>
         /\ Att(t) <= begun
         /\ attempt[Att(t)].board = BoardOf[t] /\ attempt[Att(t)].verdict = "open")'
  BY <1>1, <1>2, <1>3, <1>4, <1>5, <1>6, <1>7 DEF Owned, Att
<1>10. (\A t, u \in Seats : t # u /\ Att(t) # 0 => Att(t) # Att(u))'
  BY <1>1, <1>2, <1>6 DEF Owned, Att
<1>11. (\A a \in Attempts : begun < a => attempt[a] = Fresh)'
  BY <1>1, <1>3 DEF Owned, Attempts
<1>12. QED
  BY <1>8, <1>9, <1>10, <1>11 DEF Owned

-----------------------------------------------------------------------------
(* What a step means to its attempt: nothing, a phase that is told, the    *)
(* press, or the end.                                                      *)

Before(s) == attempt[Att(s)]
After(s) == attempt'[Att(s)]
Stays(s) ==
  /\ UNCHANGED attempt /\ seat'[s].att = Att(s)
  /\ PhaseAt(seat'[s].pc) = PhaseAt(seat[s].pc)
  /\ \/ seat[s].pc \in BeforePress /\ seat'[s].pc \in BeforePress
     \/ seat[s].pc \in AfterPress /\ seat'[s].pc \in AfterPress
Tells(s) ==
  /\ seat[s].pc \in AfterPress /\ seat'[s].pc \in AfterPress /\ seat'[s].att = Att(s)
  /\ ~Before(s).revoked /\ After(s).phase = PhaseAt(seat'[s].pc)
  /\ \E i \in 1 .. 4 : /\ PhaseAt(seat[s].pc) = Contract(Att(s))!Phases[i]
                       /\ PhaseAt(seat'[s].pc) = Contract(Att(s))!Phases[i + 1]
  /\ After(s).clicks = Before(s).clicks /\ After(s).home = Before(s).home
  /\ After(s).revoked = Before(s).revoked /\ After(s).verdict = Before(s).verdict
  /\ After(s).saved = Before(s).saved
Presses(s) ==
  /\ seat[s].pc = "click" /\ seat'[s].pc = "clicked" /\ seat'[s].att = Att(s)
  /\ After(s).clicks = Before(s).clicks + 1 /\ After(s).phase = Before(s).phase
  /\ After(s).revoked = Before(s).revoked /\ After(s).verdict = Before(s).verdict
  /\ After(s).saved = Before(s).saved
Concludes(s) ==
  /\ seat'[s] = Rest(s)
  /\ \/ After(s).verdict = "not_sent" /\ seat[s].pc \in BeforePress
     \/ After(s).verdict = "raised" /\ seat[s].pc = "click"
     \/ /\ After(s).verdict = "raised" /\ seat[s].pc \in AfterPress
        /\ seat[s].pc = "clicked" => Before(s).revoked
     \/ After(s).verdict = "outputs" /\ seat[s].pc = "save"
  /\ After(s).clicks = Before(s).clicks /\ After(s).home = Before(s).home
  /\ After(s).revoked = Before(s).revoked /\ After(s).phase = Before(s).phase
  /\ \/ After(s).saved = Before(s).saved
     \/ seat[s].pc = "save" /\ After(s).saved \subseteq seat[s].seen

LEMMA EndConcludes ==
  ASSUME VideoTypes, Owned, NEW s \in Seats, Restless(s), NEW v, End(s, v),
         \/ v = "not_sent" /\ seat[s].pc \in BeforePress
         \/ v = "raised" /\ seat[s].pc = "click"
         \/ /\ v = "raised" /\ seat[s].pc \in AfterPress
            /\ seat[s].pc = "clicked" => attempt[Att(s)].revoked
  PROVE  Concludes(s)
<1>1. Att(s) \in Attempts /\ Before(s) \in Entry
  BY Working DEF VideoTypes, Before
<1>2. After(s) = [Before(s) EXCEPT !.verdict = v, !.empty = FALSE]
  BY <1>1 DEF End, VideoTypes, Before, After
<1>3. /\ After(s).verdict = v /\ After(s).clicks = Before(s).clicks
      /\ After(s).home = Before(s).home /\ After(s).revoked = Before(s).revoked
      /\ After(s).phase = Before(s).phase /\ After(s).saved = Before(s).saved
  BY <1>1, <1>2 DEF Entry
<1>4. seat'[s] = Rest(s)
  BY DEF End, VideoTypes
<1>5. QED
  BY <1>3, <1>4 DEF Concludes, Before

LEMMA StepStage ==
  ASSUME VideoTypes, Owned, NEW s \in Seats, Step(s)
  PROVE  Stays(s) \/ Tells(s) \/ Presses(s) \/ Concludes(s)
<1>1. seat[s] \in Worker /\ seat \in [Seats -> Worker]
  BY DEF VideoTypes
<1>2. CASE OpenSession(s)
  BY <1>1, <1>2, EndConcludes
  DEF OpenSession, Restless, Stays, PhaseAt, BeforePress, AfterPress, Att, Worker
<1>3. CASE Start(s)
  BY <1>1, <1>3, EndConcludes
  DEF Start, Restless, Go, Stays, PhaseAt, BeforePress, AfterPress, Att, Worker
<1>4. CASE GoToImagine(s)
  BY <1>1, <1>4
  DEF GoToImagine, Restless, Go, Stays, PhaseAt, BeforePress, AfterPress, Att, Worker
<1>5. CASE NewGeneration(s)
  BY <1>1, <1>5, EndConcludes
  DEF NewGeneration, TryAgain, Restless, Stays, PhaseAt, BeforePress, AfterPress, Att, Worker
<1>6. CASE Compose(s)
  BY <1>1, <1>6, EndConcludes
  DEF Compose, Restless, Stays, PhaseAt, BeforePress, AfterPress, Att, Worker
<1>7. CASE Stamp(s)
  <2>1. CASE End(s, "not_sent")
    BY <1>7, <2>1, EndConcludes DEF Stamp, Restless, BeforePress
  <2>2. ASSUME NEW x, NEW y, UNCHANGED attempt,
               seat' = [seat EXCEPT ![s].pc = "type", ![s].strayed = x, ![s].before = y]
        PROVE  Stays(s)
    <3>1. seat'[s].pc = "type" /\ seat'[s].att = Att(s) /\ seat[s].pc = "stamp"
      BY <1>1, <1>7, <2>2 DEF Stamp, Worker, Att
    <3>2. QED
      BY <2>2, <3>1 DEF Stays, PhaseAt, BeforePress
  <2>3. QED
    BY <1>7, <2>1, <2>2 DEF Stamp
<1>8. CASE Type(s)
  BY <1>1, <1>8, EndConcludes
  DEF Type, Restless, Stays, PhaseAt, BeforePress, AfterPress, Att, Worker
<1>9. CASE Reserve(s)
  BY <1>1, <1>9, EndConcludes
  DEF Reserve, Restless, Go, Stays, PhaseAt, BeforePress, AfterPress, Att, Worker
<1>10. CASE Press(s)
  <2>1. CASE End(s, "raised")
    BY <1>10, <2>1, EndConcludes DEF Press, Restless
  <2>2. CASE Pressed(s) /\ seat' = [seat EXCEPT ![s].pc = "clicked", ![s].knew = given]
    <3>1. Att(s) \in Attempts /\ Before(s) \in Entry
      BY <1>10, Working DEF VideoTypes, Before, Press, Restless
    <3>2. PICK p \in Outcomes(s) :
            After(s) = [Before(s) EXCEPT !.clicks = @ + 1, !.home = p]
      BY <2>2, <3>1 DEF Pressed, After, Before, VideoTypes
    <3>3. seat[s].pc = "click" /\ seat'[s].pc = "clicked" /\ seat'[s].att = Att(s)
      BY <1>1, <1>10, <2>2 DEF Press, Worker, Att
    <3>4. QED
      BY <3>1, <3>2, <3>3 DEF Presses, Entry
  <2>3. QED
    BY <1>10, <2>1, <2>2 DEF Press
<1>11. CASE Tell(s)
  <2>1. Restless(s) /\ seat[s].pc \in AfterPress
    BY <1>11 DEF Tell, Telling, Restless, AfterPress
  <2>2. CASE attempt[Att(s)].revoked
    BY <1>11, <2>1, <2>2, EndConcludes DEF Tell
  <2>3. CASE ~attempt[Att(s)].revoked
    <3>1. Att(s) \in Attempts /\ Before(s) \in Entry
      BY <2>1, Working DEF VideoTypes, Before
    <3>2. /\ After(s) = [Before(s) EXCEPT !.phase = Telling[seat[s].pc][1]]
          /\ seat'[s].pc = Telling[seat[s].pc][2] /\ seat'[s].att = Att(s)
      BY <1>1, <1>11, <2>3, <3>1 DEF Tell, Go, After, Before, VideoTypes, Att, Worker
    <3>3. seat[s].pc \in {"clicked", "told", "got", "down"}
      BY <1>11 DEF Tell, Telling
    <3>4. \E i \in 1 .. 4 : /\ PhaseAt(seat[s].pc) = Contract(Att(s))!Phases[i]
                            /\ PhaseAt(seat'[s].pc) = Contract(Att(s))!Phases[i + 1]
      BY <3>2, <3>3 DEF Telling, PhaseAt, Contract!Phases
    <3>5. After(s).phase = PhaseAt(seat'[s].pc) /\ seat'[s].pc \in AfterPress
      BY <3>1, <3>2, <3>3 DEF Telling, PhaseAt, Entry, AfterPress
    <3>6. QED
      BY <2>1, <2>3, <3>1, <3>2, <3>4, <3>5 DEF Tells, Before, Entry
  <2>4. QED
    BY <2>2, <2>3
<1>12. CASE Poll(s)
  BY <1>1, <1>12
  DEF Poll, Restless, Stays, PhaseAt, BeforePress, AfterPress, Att, Worker
<1>13. CASE Expire(s)
  BY <1>1, <1>13, EndConcludes DEF Expire, Restless, AfterPress
<1>14. CASE Judge(s)
  <2>1. CASE End(s, "raised")
    BY <1>14, <2>1, EndConcludes DEF Judge, Restless, AfterPress
  <2>2. CASE Take(s) /\ UNCHANGED attempt
    BY <1>1, <1>14, <2>2, RestTyped
    DEF Judge, Take, Stays, PhaseAt, BeforePress, AfterPress, Worker
  <2>3. CASE seat' = [seat EXCEPT ![s].pc = "new", ![s].now = tab[s].at] /\ UNCHANGED attempt
    BY <1>1, <1>14, <2>3
    DEF Judge, Stays, PhaseAt, BeforePress, AfterPress, Att, Worker
  <2>4. QED
    BY <1>14, <2>1, <2>2, <2>3 DEF Judge
<1>15. CASE Record(s)
  BY <1>1, <1>15, RestTyped
  DEF Record, Take, Stays, PhaseAt, BeforePress, AfterPress, Worker
<1>16. CASE Download(s)
  BY <1>1, <1>16, EndConcludes
  DEF Download, Restless, Go, Stays, PhaseAt, BeforePress, AfterPress, Att, Worker
<1>17. CASE Save(s)
  <2>1. CASE End(s, "raised")
    BY <1>17, <2>1, EndConcludes DEF Save, Restless, AfterPress
  <2>2. ASSUME NEW c \in seat[s].seen, NEW others \in SUBSET seat[s].seen,
               seat' = [seat EXCEPT ![s] = Rest(s)],
               attempt' = [attempt EXCEPT ![Att(s)].saved = {c} \cup others,
                                          ![Att(s)].empty = FALSE,
                                          ![Att(s)].verdict = "outputs"]
        PROVE  Concludes(s)
    <3>1. Att(s) \in Attempts /\ Before(s) \in Entry
      BY <1>17, Working DEF VideoTypes, Before, Save, Restless
    <3>2. After(s) = [Before(s) EXCEPT !.saved = {c} \cup others, !.empty = FALSE,
                                       !.verdict = "outputs"]
      BY <2>2, <3>1 DEF VideoTypes, Before, After
    <3>3. seat'[s] = Rest(s)
      BY <1>1, <2>2
    <3>4. QED
      BY <1>17, <3>1, <3>2, <3>3 DEF Concludes, Save, Entry
  <2>3. QED
    BY <1>17, <2>1, <2>2 DEF Save
<1>18. QED
  BY <1>2, <1>3, <1>4, <1>5, <1>6, <1>7, <1>8, <1>9, <1>10, <1>11, <1>12, <1>13,
     <1>14, <1>15, <1>16, <1>17 DEF Step

LEMMA AttemptOf ==
  ASSUME VideoTypes, Owned, NEW s \in Seats, Restless(s), Moves(s)
  PROVE  /\ \A t \in Seats : t # s => seat'[t] = seat[t] /\ Att(t) # Att(s)
         /\ \A a \in Attempts : a # Att(s) => attempt'[a] = attempt[a]
         /\ \A t \in Seats : Att(t) # 0 => Att(t) \in Attempts
<1>1. \A t \in Seats : t # s => seat'[t] = seat[t] /\ Att(t) # Att(s)
  BY Working DEF Moves, VideoTypes, Owned
<1>2. \A a \in Attempts : a # Att(s) => attempt'[a] = attempt[a]
  BY DEF Moves, VideoTypes
<1>3. QED
  BY <1>1, <1>2, Working DEF Owned, Restless

LEMMA StepInPhase ==
  ASSUME VideoTypes, Owned, InPhase, NEW s \in Seats, Step(s), Moves(s)
  PROVE  InPhase'
<1>1. Restless(s)
  BY StepStage, IdleTyped DEF Step, Restless, OpenSession, Start, GoToImagine, NewGeneration,
     Compose, Stamp, Type, Reserve, Press, Tell, Telling, Poll, Expire, Judge, Record,
     Download, Save
<1>2. /\ \A t \in Seats : t # s => seat'[t] = seat[t] /\ Att(t) # Att(s)
      /\ \A a \in Attempts : a # Att(s) => attempt'[a] = attempt[a]
      /\ \A t \in Seats : Att(t) # 0 => Att(t) \in Attempts
  BY <1>1, AttemptOf
<1>3. Att(s) \in Attempts /\ Att(s) # 0 /\ Before(s) \in Entry /\ After(s) \in Entry
  BY <1>1, Working DEF VideoTypes, Moves, Before, After
<1>4. /\ Before(s).phase = PhaseAt(seat[s].pc)
      /\ Before(s).clicks = IF seat[s].pc \in BeforePress THEN 0 ELSE 1
      /\ Before(s).clicks <= 1 /\ (Before(s).clicks = 0 => Before(s).home = NoPost)
  BY <1>3 DEF InPhase, Before
<1>5. /\ seat'[s].att # 0 =>
           /\ seat'[s].att = Att(s) /\ After(s).phase = PhaseAt(seat'[s].pc)
           /\ After(s).clicks = IF seat'[s].pc \in BeforePress THEN 0 ELSE 1
      /\ After(s).clicks <= 1 /\ (After(s).clicks = 0 => After(s).home = NoPost)
  <2>1. CASE Stays(s)
    BY <1>4, <2>1 DEF Stays, Before, After, BeforePress, AfterPress
  <2>2. CASE Tells(s)
    BY <1>4, <2>2 DEF Tells, BeforePress, AfterPress
  <2>3. CASE Presses(s)
    BY <1>4, <2>3 DEF Presses, PhaseAt, BeforePress
  <2>4. CASE Concludes(s)
    BY <1>4, <2>4 DEF Concludes, Rest, Idle
  <2>5. QED
    BY <2>1, <2>2, <2>3, <2>4, StepStage
<1>6. (\A t \in Seats : Att(t) # 0 =>
         /\ attempt[Att(t)].phase = PhaseAt(seat[t].pc)
         /\ attempt[Att(t)].clicks = IF seat[t].pc \in BeforePress THEN 0 ELSE 1)'
  BY <1>2, <1>5 DEF InPhase, After, Att
<1>7. (\A a \in Attempts : /\ attempt[a].clicks <= 1
                           /\ attempt[a].clicks = 0 => attempt[a].home = NoPost)'
  BY <1>2, <1>3, <1>5 DEF InPhase, After
<1>8. QED
  BY <1>6, <1>7 DEF InPhase

(* A step of a worker is a step of its attempt's contract.                 *)
LEMMA StepContract ==
  ASSUME VideoTypes, Owned, InPhase, NEW s \in Seats, Restless(s), Step(s), Moves(s)
  PROVE  \A a \in Attempts : attempt'[a] = attempt[a]
           \/ UNCHANGED Contract(a)!vars \/ Contract(a)!Next
<1>1. /\ \A a \in Attempts : a # Att(s) => attempt'[a] = attempt[a]
      /\ Att(s) \in Attempts /\ Att(s) # 0 /\ Before(s) \in Entry /\ After(s) \in Entry
  BY AttemptOf, Working DEF VideoTypes, Moves, Before, After
<1>2. /\ Before(s).phase = PhaseAt(seat[s].pc)
      /\ Before(s).clicks = IF seat[s].pc \in BeforePress THEN 0 ELSE 1
      /\ Before(s).verdict = "open"
  BY <1>1 DEF InPhase, Before, Owned
<1> SUFFICES ASSUME NEW a \in Attempts, a = Att(s), attempt'[a] # attempt[a]
             PROVE  Contract(a)!Next
  BY <1>1
<1>3. Before(s) = attempt[a] /\ After(s) = attempt'[a]
  BY DEF Before, After
<1>4. CASE Tells(s)
  <2>1. /\ attempt[a].clicks > 0 /\ attempt'[a].clicks > 0
        /\ ~attempt[a].revoked /\ attempt'[a].revoked = attempt[a].revoked
        /\ attempt[a].verdict = "open" /\ attempt'[a].verdict = "open"
    BY <1>1, <1>2, <1>3, <1>4 DEF Tells, BeforePress, AfterPress, Entry
  <2>2. \E i \in 1 .. 4 : /\ attempt[a].phase = Contract(a)!Phases[i]
                          /\ attempt'[a].phase = Contract(a)!Phases[i + 1]
    BY <1>2, <1>3, <1>4 DEF Tells
  <2>3. Contract(a)!Tell
    BY <2>1, <2>2 DEF Contract!Tell
  <2>4. QED
    BY <2>3 DEF Contract!Next
<1>5. CASE Presses(s)
  <2>1. /\ ~(attempt[a].clicks > 0) /\ attempt'[a].clicks > 0
        /\ attempt[a].phase = "attaching" /\ attempt'[a].phase = "attaching"
    BY <1>1, <1>2, <1>3, <1>5 DEF Presses, BeforePress, PhaseAt
  <2>2. Contract(a)!Spend
    BY <1>2, <1>3, <1>5, <2>1 DEF Presses, Contract!Spend
  <2>3. QED
    BY <2>2 DEF Contract!Next
<1>6. CASE Concludes(s)
  <2>1. UNCHANGED <<attempt[a].clicks, attempt[a].phase, attempt[a].revoked>>
    BY <1>3, <1>6 DEF Concludes
  <2>2. attempt'[a].verdict \in {"not_sent", "raised", "outputs"}
    BY <1>3, <1>6 DEF Concludes
  <2>3. attempt'[a].verdict = "not_sent" => ~(attempt[a].clicks > 0)
    BY <1>2, <1>3, <1>6 DEF Concludes
  <2>4. attempt'[a].verdict = "raised" /\ attempt[a].phase = "attaching" =>
          ~(attempt[a].clicks > 0) \/ attempt[a].revoked
    BY <1>2, <1>3, <1>6 DEF Concludes, PhaseAt, BeforePress, AfterPress
  <2>5. attempt'[a].verdict = "outputs" => attempt[a].phase = "saving"
    BY <1>2, <1>3, <1>6 DEF Concludes, PhaseAt
  <2>6. Contract(a)!Conclude
    BY <1>2, <1>3, <2>1, <2>2, <2>3, <2>4, <2>5 DEF Contract!Conclude, Contract!Verdicts
  <2>7. QED
    BY <2>6 DEF Contract!Next
<1>7. ~Stays(s)
  BY DEF Stays
<1>8. QED
  BY <1>4, <1>5, <1>6, <1>7, StepStage

-----------------------------------------------------------------------------
(* The steps that are not a worker's own.                                  *)

(* Nothing is changed of what the runtime relies on.                       *)
SameContracts ==
  \A a \in Attempts :
    /\ attempt'[a].phase = attempt[a].phase /\ attempt'[a].clicks = attempt[a].clicks
    /\ attempt'[a].verdict = attempt[a].verdict /\ attempt'[a].home = attempt[a].home
    /\ attempt'[a].saved = attempt[a].saved

LEMMA BeginKeeps ==
  ASSUME VideoTypes, Owned, InPhase, NEW s \in Seats, Begin(s)
  PROVE  /\ VideoTypes' /\ Owned' /\ InPhase' /\ SameContracts
         /\ \A a \in Attempts : attempt'[a].revoked = attempt[a].revoked
         /\ begun' \in Attempts /\ begun' = begun + 1 /\ seat'[s].att = begun'
         /\ seat'[s].pc = "open"
         /\ \A t \in Seats : t # s => seat'[t] = seat[t]
         /\ \A a \in Attempts : a # begun' => attempt'[a] = attempt[a]
<1>1. begun \in 0 .. MaxAttempts /\ begun' = begun + 1 /\ begun < MaxAttempts
  BY DEF VideoTypes, BooksTyped, Begin
<1>2. begun' \in Attempts /\ begun' \in 0 .. MaxAttempts /\ begun' # 0
  BY <1>1, Numbers DEF Attempts
<1> DEFINE w == seat[s]
           next == [w EXCEPT !.pc = "open", !.att = begun']
           made == [Fresh EXCEPT !.board = BoardOf[s], !.empty = TRUE]
<1>3. w \in Worker /\ w.pc = "idle" /\ Att(s) = 0 /\ attempt[begun'] = Fresh
  BY <1>1, <1>2 DEF VideoTypes, Owned, Begin
<1>4. next \in Worker /\ next.pc = "open" /\ next.att = begun'
  BY <1>2, <1>3 DEF Worker, BeforePress
<1>5. /\ made \in Entry /\ made.board = BoardOf[s] /\ made.phase = "attaching"
      /\ made.verdict = "open" /\ made.clicks = 0 /\ made.home = NoPost
      /\ made.revoked = FALSE /\ made.saved = {}
  BY FreshTyped, Numbers DEF Entry, Fresh
<1>6. seat' = [seat EXCEPT ![s] = next]
  BY DEF Begin
<1>7. attempt' = [attempt EXCEPT ![begun'] = made]
  BY <1>2, <1>3 DEF Begin, VideoTypes
<1> HIDE DEF w, next, made
<1>8. /\ seat' \in [Seats -> Worker] /\ seat'[s] = next
      /\ \A t \in Seats : t # s => seat'[t] = seat[t]
  BY <1>4, <1>6 DEF VideoTypes
<1>9. /\ attempt' \in [Attempts -> Entry] /\ attempt'[begun'] = made
      /\ \A a \in Attempts : a # begun' => attempt'[a] = attempt[a]
  BY <1>2, <1>5, <1>7 DEF VideoTypes
<1>10. VideoTypes'
  BY <1>2, <1>8, <1>9 DEF VideoTypes, BooksTyped, Begin, books, bounds
<1>11. \A t \in Seats : Att(t) # 0 => Att(t) \in Attempts /\ Att(t) # begun'
  BY <1>1, Working DEF Owned, Restless, VideoTypes, Worker, Att
<1>12. Owned'
  <2>1. (\A t \in Seats : Att(t) = 0 <=> seat[t].pc = "idle")'
    BY <1>2, <1>4, <1>8 DEF Owned, Att
  <2>2. (\A t \in Seats : Att(t) # 0 =>
           /\ Att(t) <= begun
           /\ attempt[Att(t)].board = BoardOf[t] /\ attempt[Att(t)].verdict = "open")'
    <3>1. \A t \in Seats : Att(t) # 0 => Att(t) <= begun'
      BY <1>1, <1>11 DEF Owned, Attempts
    <3>2. begun' <= begun'
      BY <1>1
    <3>3. QED
      BY <1>4, <1>5, <1>8, <1>9, <1>11, <3>1, <3>2 DEF Owned, Att
  <2>3. (\A t, u \in Seats : t # u /\ Att(t) # 0 => Att(t) # Att(u))'
    BY <1>2, <1>4, <1>8, <1>11 DEF Owned, Att
  <2>4. (\A a \in Attempts : begun < a => attempt[a] = Fresh)'
    BY <1>1, <1>9 DEF Owned, Attempts
  <2>5. QED
    BY <2>1, <2>2, <2>3, <2>4 DEF Owned
<1>13. InPhase'
  <2>1. (\A t \in Seats : Att(t) # 0 =>
           /\ attempt[Att(t)].phase = PhaseAt(seat[t].pc)
           /\ attempt[Att(t)].clicks = IF seat[t].pc \in BeforePress THEN 0 ELSE 1)'
    BY <1>4, <1>5, <1>8, <1>9, <1>11 DEF InPhase, Att, PhaseAt, BeforePress
  <2>2. QED
    BY <1>5, <1>9, <2>1 DEF InPhase
<1>14. SameContracts /\ \A a \in Attempts : attempt'[a].revoked = attempt[a].revoked
  <2>1. /\ Fresh.phase = "attaching" /\ Fresh.verdict = "open" /\ Fresh.clicks = 0
        /\ Fresh.home = NoPost /\ Fresh.revoked = FALSE /\ Fresh.saved = {}
    BY DEF Fresh
  <2>2. QED
    BY <1>3, <1>5, <1>9, <2>1 DEF SameContracts
<1>15. QED
  BY <1>1, <1>2, <1>4, <1>8, <1>9, <1>10, <1>12, <1>13, <1>14

(* Grok may take a worker's tab to some post; that is all it does.         *)
LEMMA GrokKeeps ==
  ASSUME VideoTypes, Owned, InPhase, NEW s \in Seats, ShowPost(s) \/ Stray(s)
  PROVE  /\ VideoTypes' /\ Owned' /\ InPhase' /\ UNCHANGED attempt
         /\ \A t \in Seats : /\ seat'[t].pc = seat[t].pc
                             /\ seat'[t].att = Att(t)
<1> DEFINE w == seat[s]
           pulled == [w EXCEPT !.strayed = TRUE]
<1>1. w \in Worker /\ Restless(s)
  BY DEF VideoTypes, ShowPost, Stray, Restless
<1>2. pulled \in Worker /\ pulled.pc = w.pc /\ pulled.att = w.att
  BY <1>1 DEF Worker
<1>3. Att(s) \in Posts
  BY <1>1, Working DEF Posts
<1>4. tab' \in [Seats -> Page]
  <2>1. \E p \in Posts : tab' = [tab EXCEPT ![s] = Visit(p)]
    BY <1>3 DEF ShowPost, Stray
  <2>2. QED
    BY <2>1, VisitTyped, PutTab
<1>5. seat' = [seat EXCEPT ![s] = pulled] \/ seat' = seat
  BY DEF ShowPost, Stray
<1> HIDE DEF pulled
<1>6. /\ seat' \in [Seats -> Worker]
      /\ \A t \in Seats : seat'[t].pc = seat[t].pc /\ seat'[t].att = Att(t)
  BY <1>2, <1>5 DEF VideoTypes, Att
<1>7. UNCHANGED <<attempt, begun>>
  BY DEF ShowPost, Stray
<1>8. VideoTypes'
  BY <1>4, <1>6, <1>7, Numbers DEF VideoTypes, BooksTyped, ShowPost, Stray, books, bounds
<1>9. Owned'
  BY <1>6, <1>7 DEF Owned, Att
<1>10. InPhase'
  BY <1>6, <1>7 DEF InPhase, Att
<1>11. QED
  BY <1>6, <1>7, <1>8, <1>9, <1>10

LEMMA RevokeKeeps ==
  ASSUME VideoTypes, Owned, InPhase, NEW s \in Seats, Revoke(s)
  PROVE  /\ VideoTypes' /\ Owned' /\ InPhase' /\ SameContracts /\ UNCHANGED seat
         /\ \A a \in Attempts : /\ attempt'[a].board = attempt[a].board
                                /\ attempt'[a].revoked \in {attempt[a].revoked, TRUE}
<1>1. Restless(s) /\ seat[s] \in Worker
  BY DEF Revoke, Restless, Telling, VideoTypes
<1> DEFINE e == attempt[Att(s)]
           made == [e EXCEPT !.revoked = TRUE]
<1>2. Att(s) \in Attempts /\ e \in Entry /\ Att(s) # 0 /\ Att(s) <= begun
  BY <1>1, Working DEF VideoTypes, Owned
<1>3. made \in Entry /\ made.board = e.board /\ made.phase = e.phase
      /\ made.verdict = e.verdict /\ made.clicks = e.clicks /\ made.home = e.home
      /\ made.revoked = TRUE /\ made.saved = e.saved
  BY <1>2 DEF Entry
<1>4. attempt' = [attempt EXCEPT ![Att(s)] = made]
  BY DEF Revoke
<1> HIDE DEF made
<1>5. /\ attempt' \in [Attempts -> Entry] /\ attempt'[Att(s)] = made
      /\ \A a \in Attempts : a # Att(s) => attempt'[a] = attempt[a]
  BY <1>2, <1>3, <1>4 DEF VideoTypes
<1>6. /\ SameContracts
      /\ \A a \in Attempts : /\ attempt'[a].board = attempt[a].board
                             /\ attempt'[a].revoked \in {attempt[a].revoked, TRUE}
  BY <1>3, <1>5 DEF SameContracts
<1>7. UNCHANGED <<seat, tab, begun, loaded, up, books, reserved, bounds>>
  BY DEF Revoke
<1>8. VideoTypes'
  BY <1>5, <1>7 DEF VideoTypes, BooksTyped, books, bounds
<1>9. \A t \in Seats : Att(t) # 0 => Att(t) \in Attempts
  BY Working DEF Owned, Restless
<1>10. Owned'
  <2>1. \A a \in Attempts : begun < a => attempt'[a] = attempt[a]
    BY <1>2, <1>5 DEF Attempts, VideoTypes, BooksTyped
  <2>2. QED
    BY <1>6, <1>7, <1>9, <2>1 DEF Owned, Att, SameContracts
<1>11. InPhase'
  BY <1>6, <1>7, <1>9 DEF InPhase, Att, SameContracts
<1>12. QED
  BY <1>6, <1>7, <1>8, <1>10, <1>11

LEMMA CrashKeeps ==
  ASSUME VideoTypes, Owned, InPhase, NEW b \in Boards, Crash(b)
  PROVE  /\ VideoTypes' /\ Owned' /\ InPhase' /\ UNCHANGED <<attempt, reserved>>
         /\ \A t \in Seats : seat'[t] = seat[t] \/ seat'[t] = Idle
<1>1. UNCHANGED <<tab, attempt, begun, loaded, journal, given, reserved, strays, mishaps>>
  BY DEF Crash
<1>2. /\ seat' \in [Seats -> Worker]
      /\ \A t \in Seats : seat'[t] = seat[t] \/ seat'[t] = Idle
  BY IdleTyped DEF Crash, VideoTypes
<1>3. ledger' \in [Boards -> [read : BOOLEAN, posts : SUBSET Places]]
  BY DEF Crash, VideoTypes, BooksTyped
<1>4. up' \subseteq Boards /\ crashes' \in Nat
  BY DEF Crash, VideoTypes, BooksTyped
<1>5. VideoTypes'
  BY <1>1, <1>2, <1>3, <1>4 DEF VideoTypes, BooksTyped
<1>6. Idle.att = 0 /\ Idle.pc = "idle"
  BY DEF Idle
<1> HIDE DEF Crash
<1>7. Owned'
  BY <1>1, <1>2, <1>6 DEF Owned, Att
<1>8. InPhase'
  BY <1>1, <1>2, <1>6 DEF InPhase, Att
<1>9. QED
  BY <1>1, <1>2, <1>5, <1>7, <1>8

LEMMA RestartKeeps ==
  ASSUME VideoTypes, Owned, InPhase, NEW b \in Boards, Restart(b)
  PROVE  /\ VideoTypes' /\ Owned' /\ InPhase' /\ SameContracts /\ UNCHANGED seat
         /\ \A a \in Attempts : /\ attempt'[a].board = attempt[a].board
                                /\ attempt'[a].revoked = attempt[a].revoked
<1>1. UNCHANGED <<seat, tab, begun, loaded, books, reserved, bounds>>
  BY DEF Restart
<1>2. ASSUME NEW a \in Attempts
      PROVE  /\ attempt'[a] \in Entry /\ attempt'[a].board = attempt[a].board
             /\ attempt'[a].phase = attempt[a].phase
             /\ attempt'[a].clicks = attempt[a].clicks
             /\ attempt'[a].verdict = attempt[a].verdict
             /\ attempt'[a].home = attempt[a].home
             /\ attempt'[a].saved = attempt[a].saved
             /\ attempt'[a].revoked = attempt[a].revoked
             /\ ~attempt[a].empty => attempt'[a] = attempt[a]
  <2> DEFINE e == attempt[a]
  <2>1. e \in Entry
    BY DEF VideoTypes
  <2>2. attempt'[a] = [e EXCEPT !.empty = FALSE] \/ attempt'[a] = e
    BY DEF Restart
  <2>3. ~e.empty => attempt'[a] = e
    BY DEF Restart
  <2>4. QED
    BY <2>1, <2>2, <2>3 DEF Entry
<1>3. attempt' \in [Attempts -> Entry]
  <2>1. attempt' = [a \in Attempts |-> attempt'[a]]
    BY DEF Restart
  <2>2. QED
    BY <1>2, <2>1
<1>4. VideoTypes'
  BY <1>1, <1>3 DEF VideoTypes, BooksTyped, books, bounds, Restart
<1>5. \A t \in Seats : Att(t) # 0 => Att(t) \in Attempts
  BY Working DEF Owned, Restless
<1>6. ~Fresh.empty
  BY DEF Fresh
<1>7. Owned'
  BY <1>1, <1>2, <1>5, <1>6 DEF Owned, Att
<1>8. InPhase'
  BY <1>1, <1>2, <1>5 DEF InPhase, Att
<1>9. QED
  BY <1>1, <1>2, <1>4, <1>7, <1>8 DEF SameContracts

-----------------------------------------------------------------------------
(* What is pressed is covered by what is reserved.                         *)

LEMMA FewAttempts ==
  ASSUME NEW S, S \subseteq Attempts
  PROVE  IsFiniteSet(S) /\ Cardinality(S) \in Nat
<1>1. IsFiniteSet(Attempts)
  BY Numbers, FS_Interval DEF Attempts
<1>2. QED
  BY <1>1, FS_Subset, FS_CardinalityType

(* A board that holds no more attempts, and has no less reserved.          *)
LEMMA StillCovered ==
  ASSUME VideoTypes, Covered, VideoTypes', NEW b \in Boards,
         Held(b)' \subseteq Held(b), reserved[b] <= reserved'[b]
  PROVE  Cardinality(Held(b)') <= reserved'[b]
<1>1. Held(b) \subseteq Attempts
  BY DEF Held
<1>2. IsFiniteSet(Held(b)) /\ Cardinality(Held(b)) \in Nat
  BY <1>1, FewAttempts
<1>3. Cardinality(Held(b)') <= Cardinality(Held(b)) /\ Cardinality(Held(b)') \in Nat
  BY <1>2, FS_Subset, FS_CardinalityType
<1>4. reserved[b] \in Nat /\ reserved'[b] \in Nat
  BY Numbers DEF VideoTypes, BooksTyped
<1>5. Cardinality(Held(b)) <= reserved[b]
  BY DEF Covered
<1> HIDE DEF Held
<1>6. QED
  BY <1>2, <1>3, <1>4, <1>5

(* One attempt more, and one submit more reserved for it.                  *)
LEMMA CoveredOnceMore ==
  ASSUME VideoTypes, Covered, VideoTypes', NEW b \in Boards, NEW a \in Attempts,
         Held(b)' \subseteq Held(b) \cup {a}, reserved'[b] = reserved[b] + 1
  PROVE  Cardinality(Held(b)') <= reserved'[b]
<1>1. Held(b) \subseteq Attempts
  BY DEF Held
<1>2. IsFiniteSet(Held(b)) /\ Cardinality(Held(b)) \in Nat
  BY <1>1, FewAttempts
<1>3. /\ IsFiniteSet(Held(b) \cup {a}) /\ Cardinality(Held(b) \cup {a}) \in Nat
      /\ Cardinality(Held(b) \cup {a}) <= Cardinality(Held(b)) + 1
  <2> DEFINE H == Held(b)
  <2> HIDE DEF H
  <2>1. IsFiniteSet(H) /\ Cardinality(H) \in Nat
    BY <1>2 DEF H
  <2>2. /\ IsFiniteSet(H \cup {a})
        /\ Cardinality(H \cup {a}) = IF a \in H THEN Cardinality(H) ELSE Cardinality(H) + 1
    BY <2>1, FS_AddElement
  <2>3. QED
    BY <2>1, <2>2 DEF H
<1>4. Cardinality(Held(b)') <= Cardinality(Held(b) \cup {a}) /\ Cardinality(Held(b)') \in Nat
  BY <1>3, FS_Subset, FS_CardinalityType
<1>5. reserved[b] \in Nat
  BY Numbers DEF VideoTypes, BooksTyped
<1>6. Cardinality(Held(b)) <= reserved[b]
  BY DEF Covered
<1> HIDE DEF Held
<1>7. QED
  BY <1>2, <1>3, <1>4, <1>5, <1>6

(* Only a reservation takes a worker to the press, and none begins anew.   *)
LEMMA ReservedFirst ==
  ASSUME VideoTypes, Owned, NEW s \in Seats, Step(s)
  PROVE  /\ \A b \in Boards : reserved[b] <= reserved'[b]
         /\ seat'[s].pc = "click" => reserved'[BoardOf[s]] = reserved[BoardOf[s]] + 1
         /\ seat'[s].pc # "open"
<1>1. seat[s] \in Worker /\ seat \in [Seats -> Worker]
  BY DEF VideoTypes
<1> DEFINE Ended == seat' = [seat EXCEPT ![s] = Rest(s)]
<1>0. Ended => seat'[s].pc = "idle"
  BY <1>1 DEF Rest, Idle
<1>2. reserved \in [Boards -> Nat] /\ \A b \in Boards : reserved[b] <= reserved[b]
  BY Numbers DEF VideoTypes, BooksTyped
<1>3. CASE Reserve(s)
  <2> DEFINE b == BoardOf[s]
  <2>1. b \in Boards /\ reserved[b] <= reserved[b] + 1
    BY <1>2, Numbers
  <2>2. seat'[s].pc # "open"
    BY <1>0, <1>1, <1>3 DEF Reserve, Go, End, Worker
  <2>3. CASE reserved' = [reserved EXCEPT ![b] = reserved[b] + 1]
    BY <1>2, <2>1, <2>2, <2>3
  <2>4. CASE UNCHANGED reserved /\ End(s, "not_sent")
    BY <1>0, <1>2, <2>2, <2>4 DEF End
  <2>5. QED
    BY <1>3, <2>3, <2>4 DEF Reserve, Counted
<1>4. CASE ~Reserve(s)
  <2>1. UNCHANGED reserved
    BY <1>4 DEF Step, OpenSession, Start, GoToImagine, NewGeneration, Compose, Stamp, Type,
       Press, Tell, Poll, Expire, Judge, Record, Download, Save
  <2>2. seat'[s].pc \notin {"click", "open"}
    <3> HIDE DEF Ended
    <3> SUFFICES ASSUME ~Ended
                 PROVE  seat'[s].pc \notin {"click", "open"}
      BY <1>0
    <3>0. \A v : ~End(s, v)
      BY DEF End, Ended
    <3>1. CASE OpenSession(s) \/ Start(s) \/ GoToImagine(s) \/ NewGeneration(s)
      BY <1>1, <3>0, <3>1 DEF OpenSession, Start, GoToImagine, NewGeneration, TryAgain, Go, Worker
    <3>2. CASE Compose(s) \/ Type(s)
      BY <1>1, <3>0, <3>2 DEF Compose, Type, Worker
    <3>3. CASE Stamp(s)
      <4>1. \E x, y : seat' = [seat EXCEPT ![s].pc = "type", ![s].strayed = x, ![s].before = y]
        BY <3>0, <3>3 DEF Stamp
      <4>2. QED
        BY <1>1, <4>1 DEF Worker
    <3>4. CASE Press(s)
      BY <1>1, <3>0, <3>4 DEF Press, Worker
    <3>5. CASE Tell(s)
      <4>1. Telling[seat[s].pc][2] \notin {"click", "open"}
        BY <3>5 DEF Tell, Telling
      <4>2. Go(s, Telling[seat[s].pc][2])
        BY <3>0, <3>5 DEF Tell
      <4>3. QED
        BY <1>1, <4>1, <4>2 DEF Go, Worker
    <3>6. CASE Poll(s)
      <4>1. \/ \E x : seat' = [seat EXCEPT ![s].pc = "seen", ![s].seen = x]
            \/ seat' = [seat EXCEPT ![s].left = @ - 1]
        BY <3>6 DEF Poll
      <4>2. QED
        BY <1>1, <3>6, <4>1 DEF Poll, Worker
    <3>7. CASE Expire(s) \/ Download(s) \/ Save(s)
      BY <1>1, <3>0, <3>7 DEF Expire, Download, Save, Ended, Go, Worker
    <3>8. CASE Judge(s) \/ Record(s)
      <4>1. Take(s) => seat'[s].pc = "got"
        BY <1>1, RestTyped DEF Take, Worker
      <4>2. CASE Judge(s) /\ ~Take(s)
        <5>1. seat' = [seat EXCEPT ![s].pc = "new", ![s].now = tab[s].at]
          BY <3>0, <4>2 DEF Judge
        <5>2. QED
          BY <1>1, <5>1 DEF Worker
      <4>3. QED
        BY <3>8, <4>1, <4>2 DEF Record
    <3>9. QED
      BY <1>4, <3>1, <3>2, <3>3, <3>4, <3>5, <3>6, <3>7, <3>8 DEF Step
  <2>3. QED
    BY <1>2, <2>1, <2>2
<1>5. QED
  BY <1>3, <1>4

LEMMA StepCovered ==
  ASSUME VideoInv, NEW s \in Seats, Restless(s), Step(s), Moves(s), VideoTypes'
  PROVE  Covered'
<1> USE DEF VideoInv
<1>1. /\ \A t \in Seats : t # s => seat'[t] = seat[t] /\ Att(t) # Att(s)
      /\ \A a \in Attempts : a # Att(s) => attempt'[a] = attempt[a]
      /\ Att(s) \in Attempts /\ Att(s) # 0
  BY AttemptOf, Working
<1>2. attempt'[Att(s)].board = BoardOf[s] /\ attempt[Att(s)].board = BoardOf[s]
  BY <1>1 DEF Moves, Owned
<1>3. \A a \in Attempts : attempt'[a].clicks > 0 =>
        attempt[a].clicks > 0 \/ AboutToPress(a)
  BY <1>1, StepStage DEF Stays, Tells, Presses, Concludes, AboutToPress, Before, After
<1>4. \A a \in Attempts : AboutToPress(a)' =>
        AboutToPress(a) \/ (a = Att(s) /\ seat'[s].pc = "click")
  <2>1. seat'[s].pc = "click" => seat'[s].att = Att(s)
    BY DEF Moves, Proceeds, Rest, Idle
  <2>2. QED
    BY <1>1, <2>1 DEF AboutToPress, Att
<1> SUFFICES ASSUME NEW b \in Boards
             PROVE  Cardinality(Held(b)') <= reserved'[b]
  BY DEF Covered
<1>5. CASE seat'[s].pc = "click" /\ b = BoardOf[s]
  <2>1. Held(b)' \subseteq Held(b) \cup {Att(s)}
    BY <1>1, <1>2, <1>3, <1>4 DEF Held
  <2>2. QED
    BY <1>1, <1>5, <2>1, ReservedFirst, CoveredOnceMore
<1>6. CASE ~(seat'[s].pc = "click" /\ b = BoardOf[s])
  <2>1. Held(b)' \subseteq Held(b)
    BY <1>1, <1>2, <1>3, <1>4, <1>6 DEF Held
  <2>2. QED
    BY <2>1, ReservedFirst, StillCovered
<1>7. QED
  BY <1>5, <1>6

-----------------------------------------------------------------------------
(* The inductive invariant.                                                *)

LEMMA VideoInit == Init => VideoInv
<1> SUFFICES ASSUME Init
             PROVE  VideoInv
  OBVIOUS
<1>1. VideoTypes
  BY InitTyped
<1>2. /\ \A s \in Seats : seat[s] = Idle /\ Att(s) = 0 /\ seat[s].pc = "idle"
      /\ \A a \in Attempts : attempt[a] = Fresh
  BY DEF Init, Att, Idle
<1>3. Owned
  BY <1>2 DEF Owned
<1>4. Fresh.clicks = 0 /\ Fresh.home = NoPost
  BY DEF Fresh
<1>5. InPhase
  BY <1>2, <1>4 DEF InPhase
<1>6. Covered
  <2>1. \A b \in Boards : Held(b) = {}
    BY <1>2, <1>4 DEF Held, AboutToPress
  <2>2. \A b \in Boards : reserved[b] = 0
    BY DEF Init
  <2>3. QED
    BY <2>1, <2>2, FS_EmptySet DEF Covered
<1>7. QED
  BY <1>1, <1>3, <1>5, <1>6 DEF VideoInv

LEMMA StepRestless ==
  ASSUME NEW s \in Seats, Step(s)
  PROVE  Restless(s)
BY DEF Step, Restless, OpenSession, Start, GoToImagine, NewGeneration, Compose, Stamp,
   Type, Reserve, Press, Tell, Telling, Poll, Expire, Judge, Record, Download, Save

(* The boards' holdings when no worker comes to the press.                 *)
LEMMA NoneMoreHeld ==
  ASSUME VideoInv, VideoTypes', UNCHANGED reserved,
         \A a \in Attempts : attempt'[a].clicks = attempt[a].clicks,
         \A a \in Attempts : attempt'[a].board = attempt[a].board
                               \/ ~(attempt'[a].clicks > 0 \/ AboutToPress(a)'),
         \A a \in Attempts : AboutToPress(a)' => AboutToPress(a)
  PROVE  Covered'
<1> SUFFICES ASSUME NEW b \in Boards
             PROVE  Cardinality(Held(b)') <= reserved'[b]
  BY DEF Covered
<1>1. Held(b)' \subseteq Held(b)
  BY DEF Held
<1>2. reserved[b] <= reserved'[b]
  BY Numbers DEF VideoInv, VideoTypes, BooksTyped
<1>3. QED
  BY <1>1, <1>2, StillCovered DEF VideoInv

LEMMA VideoNext ==
  ASSUME VideoInv, [Next]_vars
  PROVE  /\ VideoInv'
         /\ \A a \in Attempts : attempt'[a] = attempt[a]
              \/ UNCHANGED Contract(a)!vars \/ Contract(a)!Next
<1>1. VideoTypes /\ Owned /\ InPhase /\ Covered
  BY DEF VideoInv
<1>2. ASSUME NEW s \in Seats, Step(s)
      PROVE  /\ VideoInv'
             /\ \A a \in Attempts : attempt'[a] = attempt[a]
                  \/ UNCHANGED Contract(a)!vars \/ Contract(a)!Next
  <2>1. Restless(s) /\ Moves(s) /\ BooksTyped'
    BY <1>1, <1>2, StepRestless, StepMoves
  <2>2. VideoTypes' /\ Owned' /\ InPhase'
    BY <1>1, <1>2, <2>1, MovedTyped, MovedOwned, StepInPhase
  <2>3. Covered'
    BY <1>2, <2>1, <2>2, StepCovered
  <2>4. QED
    BY <1>1, <1>2, <2>1, <2>2, <2>3, StepContract DEF VideoInv
<1>3. ASSUME NEW s \in Seats, Begin(s)
      PROVE  /\ VideoInv'
             /\ \A a \in Attempts : attempt'[a] = attempt[a]
                  \/ UNCHANGED Contract(a)!vars \/ Contract(a)!Next
  <2>1. /\ VideoTypes' /\ Owned' /\ InPhase' /\ SameContracts
        /\ \A a \in Attempts : attempt'[a].revoked = attempt[a].revoked
        /\ begun' \in Attempts /\ begun' = begun + 1 /\ seat'[s].att = begun'
        /\ seat'[s].pc = "open"
        /\ \A t \in Seats : t # s => seat'[t] = seat[t]
        /\ \A a \in Attempts : a # begun' => attempt'[a] = attempt[a]
    BY <1>1, <1>3, BeginKeeps
  <2>2. \A a \in Attempts : AboutToPress(a)' => AboutToPress(a)
    BY <2>1 DEF AboutToPress, Att
  <2>3. ~(attempt'[begun'].clicks > 0)
    <3>1. attempt[begun'] = Fresh
      BY <1>1, <2>1 DEF Owned, VideoTypes, BooksTyped
    <3>2. Fresh.clicks = 0
      BY DEF Fresh
    <3>3. QED
      BY <2>1, <3>1, <3>2 DEF SameContracts
  <2>4. \A a \in Attempts : AboutToPress(a)' => a # begun'
    <3>1. \A t \in Seats : t # s => seat'[t].att # begun'
      BY <2>1 DEF Owned, Att, Attempts
    <3>2. QED
      BY <2>1, <3>1 DEF AboutToPress, Att
  <2>5. UNCHANGED reserved
    BY <1>3 DEF Begin
  <2>6. Covered'
    <3>1. \A a \in Attempts : attempt'[a].board = attempt[a].board
                                 \/ ~(attempt'[a].clicks > 0 \/ AboutToPress(a)')
      BY <2>1, <2>3, <2>4
    <3>2. QED
      BY <2>1, <2>2, <2>5, <3>1, NoneMoreHeld DEF SameContracts
  <2>7. \A a \in Attempts : UNCHANGED Contract(a)!vars
    BY <2>1 DEF SameContracts, Contract!vars
  <2>8. QED
    BY <2>1, <2>6, <2>7 DEF VideoInv
<1>4. ASSUME NEW s \in Seats, ShowPost(s) \/ Stray(s)
      PROVE  VideoInv' /\ UNCHANGED attempt
  <2>1. /\ VideoTypes' /\ Owned' /\ InPhase' /\ UNCHANGED attempt
        /\ \A t \in Seats : seat'[t].pc = seat[t].pc /\ seat'[t].att = Att(t)
    BY <1>1, <1>4, GrokKeeps
  <2>2. UNCHANGED reserved
    BY <1>4 DEF ShowPost, Stray
  <2>3. Covered'
    BY <2>1, <2>2, NoneMoreHeld DEF AboutToPress, Att
  <2>4. QED
    BY <2>1, <2>3 DEF VideoInv
<1>5. ASSUME NEW s \in Seats, Revoke(s)
      PROVE  /\ VideoInv'
             /\ \A a \in Attempts : UNCHANGED Contract(a)!vars \/ Contract(a)!Next
  <2>1. /\ VideoTypes' /\ Owned' /\ InPhase' /\ SameContracts /\ UNCHANGED seat
        /\ \A a \in Attempts : /\ attempt'[a].board = attempt[a].board
                               /\ attempt'[a].revoked \in {attempt[a].revoked, TRUE}
    BY <1>1, <1>5, RevokeKeeps
  <2>2. UNCHANGED reserved
    BY <1>5 DEF Revoke
  <2>3. Covered'
    BY <2>1, <2>2, NoneMoreHeld DEF SameContracts, AboutToPress, Att
  <2>4. ASSUME NEW a \in Attempts
        PROVE  UNCHANGED Contract(a)!vars \/ Contract(a)!Next
    <3>1. CASE attempt'[a].revoked = attempt[a].revoked
      BY <2>1, <3>1 DEF SameContracts, Contract!vars
    <3>2. CASE attempt'[a].revoked = TRUE
      BY <2>1, <3>2 DEF SameContracts, Contract!Next, Contract!Revoke
    <3>3. QED
      BY <2>1, <3>1, <3>2
  <2>5. QED
    BY <2>1, <2>3, <2>4 DEF VideoInv
<1>6. ASSUME NEW b \in Boards, Crash(b)
      PROVE  VideoInv' /\ UNCHANGED attempt
  <2>1. /\ VideoTypes' /\ Owned' /\ InPhase' /\ UNCHANGED <<attempt, reserved>>
        /\ \A t \in Seats : seat'[t] = seat[t] \/ seat'[t] = Idle
    BY <1>1, <1>6, CrashKeeps
  <2>2. Idle.pc = "idle"
    BY DEF Idle
  <2>3. Covered'
    BY <2>1, <2>2, NoneMoreHeld DEF AboutToPress, Att
  <2>4. QED
    BY <2>1, <2>3 DEF VideoInv
<1>7. ASSUME NEW b \in Boards, Restart(b)
      PROVE  VideoInv' /\ \A a \in Attempts : UNCHANGED Contract(a)!vars
  <2>1. /\ VideoTypes' /\ Owned' /\ InPhase' /\ SameContracts /\ UNCHANGED seat
        /\ \A a \in Attempts : /\ attempt'[a].board = attempt[a].board
                               /\ attempt'[a].revoked = attempt[a].revoked
    BY <1>1, <1>7, RestartKeeps
  <2>2. UNCHANGED reserved
    BY <1>7 DEF Restart
  <2>3. Covered'
    BY <2>1, <2>2, NoneMoreHeld DEF SameContracts, AboutToPress, Att
  <2>4. QED
    BY <2>1, <2>3 DEF VideoInv, SameContracts, Contract!vars
<1>8. CASE UNCHANGED vars
  <2>1. VideoInv'
    BY <1>8 DEF vars, books, bounds, VideoInv, VideoTypes, BooksTyped, Owned, Att, InPhase,
       Covered, Held, AboutToPress
  <2>2. QED
    BY <1>8, <2>1 DEF vars
<1>9. QED
  BY <1>2, <1>3, <1>4, <1>5, <1>6, <1>7, <1>8 DEF Next

THEOREM VideoInvariant == Spec => []VideoInv
<1>1. VideoInv /\ [Next]_vars => VideoInv'
  BY VideoNext
<1>2. QED
  BY VideoInit, <1>1, PTL DEF Spec

(* Over all crashes and restarts of the boards, and whatever reserving     *)
(* meets on the disk, no board has pressed Submit more often than its      *)
(* budget says, and none has reserved more than the limit.                 *)
THEOREM NoPressUnreserved == Spec => []PressesReserved
<1>1. ASSUME VideoInv
      PROVE  PressesReserved
  <2>1. \A a \in Attempts : attempt[a].clicks <= 1
    BY <1>1 DEF VideoInv, InPhase
  <2>2. ASSUME NEW b \in Boards
        PROVE  /\ Cardinality({a \in Attempts :
                                 attempt[a].board = b /\ attempt[a].clicks > 0}) <= reserved[b]
               /\ reserved[b] <= Limit
    <3> DEFINE pressed == {a \in Attempts : attempt[a].board = b /\ attempt[a].clicks > 0}
    <3>1. pressed \subseteq Held(b) /\ Held(b) \subseteq Attempts
      BY DEF Held
    <3>2. /\ Cardinality(pressed) <= Cardinality(Held(b))
          /\ Cardinality(pressed) \in Nat /\ Cardinality(Held(b)) \in Nat
      BY <3>1, FewAttempts, FS_Subset, FS_CardinalityType
    <3>3. Cardinality(Held(b)) <= reserved[b] /\ reserved[b] \in 0 .. Limit
      BY <1>1 DEF VideoInv, Covered, VideoTypes, BooksTyped
    <3> HIDE DEF pressed
    <3>4. Cardinality(pressed) <= reserved[b] /\ reserved[b] <= Limit
      BY <3>2, <3>3, Numbers
    <3>5. QED
      BY <3>4 DEF pressed
  <2>3. QED
    BY <2>1, <2>2 DEF PressesReserved
<1>2. QED
  BY VideoInvariant, <1>1, PTL

(* Each attempt of each worker does for the runtime what the runtime       *)
(* relies on, whatever Grok, the user, the disk and crashes do to it.      *)
THEOREM AttemptsKeepContract == Spec => ImplementsAttempts
<1>1. Init => \A a \in Attempts : Contract(a)!Init
  <2> SUFFICES ASSUME Init, NEW a \in Attempts
               PROVE  Contract(a)!Init
    OBVIOUS
  <2>1. attempt[a] = Fresh
    BY DEF Init
  <2>2. /\ Fresh.clicks = 0 /\ Fresh.phase = "attaching" /\ Fresh.verdict = "open"
        /\ Fresh.revoked = FALSE
    BY DEF Fresh
  <2>3. QED
    BY <2>1, <2>2 DEF Contract!Init
<1>2. VideoInv /\ [Next]_vars =>
        [\A a \in Attempts : attempt'[a] = attempt[a]
                               \/ UNCHANGED Contract(a)!vars \/ Contract(a)!Next]_vars
  BY VideoNext
<1>3. QED
  BY VideoInvariant, <1>1, <1>2, PTL DEF Spec, ImplementsAttempts

-----------------------------------------------------------------------------
(* Every attempt comes to its end.                                         *)

RoundSteps == 2 * Tries + 1
LaterSteps(r) == (Tries - r) * RoundSteps

LEMMA Products == \A m, n \in Nat : m * n \in Nat
OBVIOUS

LEMMA LaterRounds ==
  ASSUME NEW r \in 1 .. Tries
  PROVE  /\ RoundSteps \in Nat /\ LaterSteps(r) \in Nat
         /\ r < Tries => LaterSteps(r) = LaterSteps(r + 1) + RoundSteps
         /\ Tries * RoundSteps = LaterSteps(1) + RoundSteps
<1>1. RoundSteps \in Nat /\ Tries - r \in Nat /\ Tries \in Nat
  BY Numbers DEF RoundSteps
<1>2. \A m, n \in Nat : (m + 1) * n = m * n + n
  OBVIOUS
<1> HIDE DEF RoundSteps
<1>3. LaterSteps(r) \in Nat
  BY <1>1, Products DEF LaterSteps
<1>4. ASSUME r < Tries
      PROVE  LaterSteps(r) = LaterSteps(r + 1) + RoundSteps
  <2> DEFINE m == Tries - (r + 1)
  <2>1. m \in Nat /\ Tries - r = m + 1
    BY <1>1, <1>4
  <2> HIDE DEF m
  <2>2. (m + 1) * RoundSteps = m * RoundSteps + RoundSteps
    BY <1>1, <1>2, <2>1
  <2>3. QED
    BY <2>1, <2>2 DEF LaterSteps, m
<1>5. Tries * RoundSteps = LaterSteps(1) + RoundSteps
  <2> DEFINE m == Tries - 1
  <2>1. m \in Nat /\ Tries = m + 1
    BY Numbers
  <2>2. LaterSteps(1) = m * RoundSteps
    BY DEF LaterSteps
  <2> HIDE DEF m
  <2>3. (m + 1) * RoundSteps = m * RoundSteps + RoundSteps
    BY <1>1, <1>2, <2>1
  <2>4. QED
    BY <2>1, <2>2, <2>3
<1>6. QED
  BY <1>1, <1>3, <1>4, <1>5

LEMMA StepsAt ==
  ASSUME NEW w \in Worker
  PROVE  /\ w.pc = "idle" => StepsLeft(w) = 0
         /\ w.pc = "open" => StepsLeft(w) =
              Polls + 14 + Tries * RoundSteps + 2 - (IF w.session THEN 1 ELSE 0)
         /\ w.pc = "goto" => StepsLeft(w) =
              Polls + 14 + LaterSteps(w.round) + 2 * (Tries - w.try) + 3
         /\ w.pc = "stuck" => StepsLeft(w) =
              Polls + 14 + LaterSteps(w.round) + 2 * (Tries - w.try) + 2
         /\ w.pc = "compose" => StepsLeft(w) = Polls + 14 + LaterSteps(w.round) + 1
         /\ w.pc = "stamp" => StepsLeft(w) = Polls + 14
         /\ w.pc = "type" => StepsLeft(w) = Polls + 13
         /\ w.pc = "reserve" => StepsLeft(w) = Polls + 12
         /\ w.pc = "click" => StepsLeft(w) = Polls + 11
         /\ w.pc = "clicked" => StepsLeft(w) = Polls + 10
         /\ w.pc = "told" => StepsLeft(w) = Polls + 9
         /\ w.pc = "poll" => StepsLeft(w) = w.left + 8
         /\ w.pc = "seen" => StepsLeft(w) = 7
         /\ w.pc = "new" => StepsLeft(w) = 6
         /\ w.pc = "got" => StepsLeft(w) = 5
         /\ w.pc = "download" => StepsLeft(w) = 4
         /\ w.pc = "down" => StepsLeft(w) = 3
         /\ w.pc = "save" => StepsLeft(w) = 2
BY DEF StepsLeft, RoundSteps, LaterSteps

LEMMA StepsRemain ==
  ASSUME NEW w \in Worker, w.pc # "idle"
  PROVE  StepsLeft(w) \in Nat /\ StepsLeft(w) > 0
<1>1. /\ w.left \in Nat /\ Polls \in Nat /\ w.session \in BOOLEAN
      /\ w.try \in 1 .. Tries /\ w.round \in 1 .. Tries
      /\ w.pc \in BeforePress \cup AfterPress
  BY Numbers DEF Worker
<1>2. Tries - w.try \in Nat
  BY <1>1, Numbers
<1>3. LaterSteps(w.round) \in Nat /\ Tries * RoundSteps \in Nat
  BY <1>1, LaterRounds, Products, Numbers
<1> DEFINE a == LaterSteps(w.round)
           b == Tries * RoundSteps
           c == Tries - w.try
           n == StepsLeft(w)
<1>4. \/ n = Polls + 14 + b + 2 - (IF w.session THEN 1 ELSE 0)
      \/ n = Polls + 14 + a + 2 * c + 3 \/ n = Polls + 14 + a + 2 * c + 2
      \/ n = Polls + 14 + a + 1
      \/ \E k \in 9 .. 14 : n = Polls + k
      \/ n = w.left + 8 \/ \E k \in 2 .. 7 : n = k
  BY <1>1, StepsAt DEF BeforePress, AfterPress
<1> HIDE DEF a, b, c, n
<1>5. n \in Nat /\ n > 0
  BY <1>1, <1>2, <1>3, <1>4 DEF a, b, c
<1>6. QED
  BY <1>5 DEF n

LEMMA FirstTryNext == VideoInv /\ FirstTry /\ [Next]_vars => FirstTry'
<1> SUFFICES ASSUME VideoInv, FirstTry, [Next]_vars
             PROVE  FirstTry'
  OBVIOUS
<1>1. VideoTypes /\ Owned /\ InPhase
  BY DEF VideoInv
<1>2. \A t \in Seats : Rest(t).try = 1 /\ Rest(t).round = 1
  BY DEF Rest, Idle
<1>3. ASSUME NEW s \in Seats, Step(s)
      PROVE  FirstTry'
  <2>1. Restless(s) /\ Moves(s)
    BY <1>1, <1>3, StepRestless, StepMoves
  <2>2. \A t \in Seats : t # s => seat'[t] = seat[t]
    BY <1>1, <2>1, AttemptOf
  <2>3. seat'[s] = Rest(s) \/ seat'[s].pc \notin {"idle", "open"}
    BY <1>1, <1>3, <2>1, ReservedFirst DEF Moves, Proceeds, BeforePress, AfterPress
  <2>4. QED
    BY <1>2, <2>2, <2>3 DEF FirstTry
<1>4. ASSUME NEW s \in Seats, Begin(s)
      PROVE  FirstTry'
  <2>1. seat' = [seat EXCEPT ![s].pc = "open", ![s].att = begun'] /\ seat[s].pc = "idle"
    BY <1>4 DEF Begin
  <2>2. seat'[s].try = seat[s].try /\ seat'[s].round = seat[s].round
    BY <1>1, <2>1 DEF VideoTypes, Worker
  <2>3. QED
    BY <1>1, <2>1, <2>2 DEF FirstTry, VideoTypes
<1>5. ASSUME NEW s \in Seats, ShowPost(s) \/ Stray(s)
      PROVE  FirstTry'
  <2>1. seat' = [seat EXCEPT ![s].strayed = TRUE] \/ seat' = seat
    BY <1>5 DEF ShowPost, Stray
  <2>2. \A t \in Seats : /\ seat'[t].pc = seat[t].pc /\ seat'[t].try = seat[t].try
                         /\ seat'[t].round = seat[t].round
    BY <1>1, <2>1 DEF VideoTypes, Worker
  <2>3. QED
    BY <2>2 DEF FirstTry
<1>6. ASSUME NEW b \in Boards, Crash(b)
      PROVE  FirstTry'
  <2>1. \A t \in Seats : seat'[t] = seat[t] \/ seat'[t] = Idle
    BY <1>1, <1>6, CrashKeeps
  <2>2. QED
    BY <2>1 DEF FirstTry, Idle
<1>7. CASE UNCHANGED seat
  BY <1>7 DEF FirstTry
<1>8. ASSUME NEW s \in Seats, Revoke(s)
      PROVE  UNCHANGED seat
  BY <1>8 DEF Revoke
<1>9. ASSUME NEW b \in Boards, Restart(b)
      PROVE  UNCHANGED seat
  BY <1>9 DEF Restart
<1>10. QED
  BY <1>3, <1>4, <1>5, <1>6, <1>7, <1>8, <1>9 DEF Next, vars

(* A worker that goes to its next step has fewer of them left.             *)
LEMMA StepNearer ==
  ASSUME VideoTypes, Owned, FirstTry, NEW s \in Seats, Step(s), Moves(s)
  PROVE  StepsLeft(seat'[s]) < StepsLeft(seat[s])
<1> DEFINE w == seat[s]
           u == seat'[s]
<1>1. /\ w \in Worker /\ u \in Worker /\ w.pc # "idle" /\ seat \in [Seats -> Worker]
  BY StepRestless DEF VideoTypes, Moves, Restless
<1>2. /\ w.left \in Nat /\ Polls \in Nat /\ w.session \in BOOLEAN
      /\ w.try \in 1 .. Tries /\ w.round \in 1 .. Tries /\ Tries \in Nat
      /\ RoundSteps = 2 * Tries + 1
  BY <1>1, Numbers DEF Worker, RoundSteps
<1>3. /\ LaterSteps(w.round) \in Nat
      /\ w.round < Tries => LaterSteps(w.round) = LaterSteps(w.round + 1) + RoundSteps
      /\ Tries * RoundSteps = LaterSteps(1) + RoundSteps /\ LaterSteps(1) \in Nat
  BY <1>2, LaterRounds, Rounds
<1>4. u = Rest(s) => StepsLeft(u) < StepsLeft(w)
  <2>1. Rest(s).pc = "idle"
    BY DEF Rest, Idle
  <2>2. QED
    BY <1>1, <2>1, StepsAt, StepsRemain
<1> SUFFICES ASSUME u # Rest(s)
             PROVE  StepsLeft(u) < StepsLeft(w)
  BY <1>4
<1>5. \A v : ~End(s, v)
  BY <1>1 DEF End
<1>6. CASE OpenSession(s)
  <2>1. u = [w EXCEPT !.pc = "goto", !.session = TRUE] /\ w.pc = "open" /\ w.session = FALSE
    BY <1>1, <1>2, <1>5, <1>6 DEF OpenSession
  <2>2. u.pc = "goto" /\ u.try = 1 /\ u.round = 1
    BY <1>1, <2>1 DEF Worker, FirstTry
  <2>3. StepsLeft(w) = Polls + 14 + Tries * RoundSteps + 2 - (IF w.session THEN 1 ELSE 0)
    BY <1>1, <2>1, StepsAt
  <2>4. StepsLeft(u) = Polls + 14 + LaterSteps(1) + 2 * (Tries - 1) + 3
    BY <1>1, <2>2, StepsAt
  <2>5. QED
    BY <1>2, <1>3, <2>1, <2>3, <2>4
<1>7. CASE Start(s)
  <2>1. u = [w EXCEPT !.pc = "goto"] /\ w.pc = "open" /\ w.session = TRUE
    BY <1>1, <1>2, <1>5, <1>7 DEF Start, Go
  <2>2. u.pc = "goto" /\ u.try = 1 /\ u.round = 1
    BY <1>1, <2>1 DEF Worker, FirstTry
  <2>3. StepsLeft(w) = Polls + 14 + Tries * RoundSteps + 2 - (IF w.session THEN 1 ELSE 0)
    BY <1>1, <2>1, StepsAt
  <2>4. StepsLeft(u) = Polls + 14 + LaterSteps(1) + 2 * (Tries - 1) + 3
    BY <1>1, <2>2, StepsAt
  <2>5. QED
    BY <1>2, <1>3, <2>1, <2>3, <2>4
<1>8. CASE GoToImagine(s)
  <2>1. (u = [w EXCEPT !.pc = "compose"] \/ u = [w EXCEPT !.pc = "stuck"]) /\ w.pc = "goto"
    BY <1>1, <1>8 DEF GoToImagine, Go
  <2>2. /\ u.pc = "compose" \/ u.pc = "stuck"
        /\ u.try = w.try /\ u.round = w.round
    BY <1>1, <2>1 DEF Worker
  <2>3. /\ StepsLeft(w) = Polls + 14 + LaterSteps(w.round) + 2 * (Tries - w.try) + 3
        /\ \/ StepsLeft(u) = Polls + 14 + LaterSteps(w.round) + 1
           \/ StepsLeft(u) = Polls + 14 + LaterSteps(w.round) + 2 * (Tries - w.try) + 2
    BY <1>1, <2>1, <2>2, StepsAt
  <2>4. QED
    BY <1>2, <1>3, <2>3
<1>9. CASE NewGeneration(s)
  <2>1. StepsLeft(w) = Polls + 14 + LaterSteps(w.round) + 2 * (Tries - w.try) + 2
    BY <1>1, <1>9, StepsAt DEF NewGeneration
  <2>2. CASE u = [w EXCEPT !.pc = "compose", !.try = 1]
    <3>1. u.pc = "compose" /\ u.round = w.round
      BY <1>1, <2>2 DEF Worker
    <3>2. StepsLeft(u) = Polls + 14 + LaterSteps(w.round) + 1
      BY <1>1, <3>1, StepsAt
    <3>3. QED
      BY <1>2, <1>3, <2>1, <3>2
  <2>3. CASE u = [w EXCEPT !.pc = "goto", !.try = @ + 1]
    <3>1. u.pc = "goto" /\ u.round = w.round /\ u.try = w.try + 1
      BY <1>1, <2>3 DEF Worker
    <3>2. StepsLeft(u) = Polls + 14 + LaterSteps(w.round) + 2 * (Tries - (w.try + 1)) + 3
      BY <1>1, <3>1, StepsAt
    <3>3. QED
      BY <1>2, <1>3, <2>1, <3>2
  <2>4. QED
    BY <1>1, <1>5, <1>9, <2>2, <2>3 DEF NewGeneration, TryAgain
<1>10. CASE Compose(s)
  <2>1. StepsLeft(w) = Polls + 14 + LaterSteps(w.round) + 1
    BY <1>1, <1>10, StepsAt DEF Compose
  <2>2. CASE u = [w EXCEPT !.pc = "stamp", !.try = 1, !.round = 1]
    <3>1. StepsLeft(u) = Polls + 14
      BY <1>1, <2>2, StepsAt DEF Worker
    <3>2. QED
      BY <1>2, <1>3, <2>1, <3>1
  <2>3. CASE w.round < Tries /\ u = [w EXCEPT !.pc = "goto", !.try = 1, !.round = @ + 1]
    <3>1. u.pc = "goto" /\ u.round = w.round + 1 /\ u.try = 1
      BY <1>1, <2>3 DEF Worker
    <3>2. StepsLeft(u) = Polls + 14 + LaterSteps(w.round + 1) + 2 * (Tries - 1) + 3
      BY <1>1, <3>1, StepsAt
    <3>3. LaterSteps(w.round + 1) \in Nat
      BY <1>2, <2>3, Rounds, LaterRounds
    <3>4. QED
      BY <1>2, <1>3, <2>1, <2>3, <3>2, <3>3
  <2>4. QED
    BY <1>1, <1>5, <1>10, <2>2, <2>3 DEF Compose, AnotherRound
<1>11. CASE Stamp(s)
  <2>1. /\ w.pc = "stamp"
        /\ \E x, y : seat' = [seat EXCEPT ![s].pc = "type", ![s].strayed = x, ![s].before = y]
    BY <1>5, <1>11 DEF Stamp
  <2>2. u.pc = "type"
    BY <1>1, <2>1 DEF Worker
  <2>3. StepsLeft(w) = Polls + 14 /\ StepsLeft(u) = Polls + 13
    BY <1>1, <2>1, <2>2, StepsAt
  <2>4. QED
    BY <1>2, <2>3
<1>12. CASE Type(s) \/ Reserve(s) \/ Press(s)
  <2>1. \/ w.pc = "type" /\ u.pc = "reserve"
        \/ w.pc = "reserve" /\ u.pc = "click"
        \/ w.pc = "click" /\ u.pc = "clicked"
    BY <1>1, <1>5, <1>12 DEF Type, Reserve, Press, Go, Worker
  <2>2. /\ w.pc = "type" => StepsLeft(w) = Polls + 13
        /\ w.pc = "reserve" => StepsLeft(w) = Polls + 12
        /\ w.pc = "click" => StepsLeft(w) = Polls + 11
    BY <1>1, StepsAt
  <2>3. /\ u.pc = "reserve" => StepsLeft(u) = Polls + 12
        /\ u.pc = "click" => StepsLeft(u) = Polls + 11
        /\ u.pc = "clicked" => StepsLeft(u) = Polls + 10
    BY <1>1, StepsAt
  <2>4. QED
    BY <1>2, <2>1, <2>2, <2>3
<1>13. CASE Tell(s)
  <2>1. w.pc \in {"clicked", "told", "got", "down"}
    BY <1>13 DEF Tell, Telling
  <2>2. u.pc = Telling[w.pc][2] /\ u.left = w.left
    BY <1>1, <1>5, <1>13 DEF Tell, Go, Worker
  <2>3. \/ w.pc = "clicked" /\ u.pc = "told"
        \/ w.pc = "told" /\ u.pc = "poll"
        \/ w.pc = "got" /\ u.pc = "download"
        \/ w.pc = "down" /\ u.pc = "save"
    BY <2>1, <2>2 DEF Telling
  <2>4. w.left <= Polls
    BY <1>1, Numbers DEF Worker
  <2>5. /\ w.pc = "clicked" => StepsLeft(w) = Polls + 10
        /\ w.pc = "told" => StepsLeft(w) = Polls + 9
        /\ w.pc = "got" => StepsLeft(w) = 5
        /\ w.pc = "down" => StepsLeft(w) = 3
    BY <1>1, StepsAt
  <2>6. /\ u.pc = "told" => StepsLeft(u) = Polls + 9
        /\ u.pc = "poll" => StepsLeft(u) = w.left + 8
        /\ u.pc = "download" => StepsLeft(u) = 4
        /\ u.pc = "save" => StepsLeft(u) = 2
    BY <1>1, <2>2, StepsAt
  <2>7. QED
    BY <1>2, <2>3, <2>4, <2>5, <2>6
<1>14. CASE Poll(s)
  <2>1. w.pc = "poll" /\ StepsLeft(w) = w.left + 8
    BY <1>1, <1>14, StepsAt DEF Poll
  <2>2. CASE u.pc = "seen"
    BY <1>1, <1>2, <2>1, <2>2, StepsAt
  <2>3. CASE u = [w EXCEPT !.left = @ - 1]
    <3>1. u.pc = "poll" /\ u.left = w.left - 1
      BY <1>1, <2>1, <2>3 DEF Worker
    <3>2. QED
      BY <1>1, <1>2, <2>1, <3>1, StepsAt
  <2>4. QED
    <3>1. \/ \E x : seat' = [seat EXCEPT ![s].pc = "seen", ![s].seen = x]
          \/ seat' = [seat EXCEPT ![s].left = @ - 1]
      BY <1>14 DEF Poll
    <3>2. QED
      BY <1>1, <2>2, <2>3, <3>1 DEF Worker
<1>15. CASE Judge(s)
  <2>1. Take(s) => u.pc = "got"
    BY <1>1, RestTyped DEF Take, Worker
  <2>2. Take(s) \/ seat' = [seat EXCEPT ![s].pc = "new", ![s].now = tab[s].at]
    BY <1>5, <1>15 DEF Judge
  <2>3. w.pc = "seen" /\ (u.pc = "got" \/ u.pc = "new")
    BY <1>1, <1>15, <2>1, <2>2 DEF Judge, Worker
  <2>4. QED
    BY <1>1, <2>3, StepsAt
<1>16. CASE Record(s)
  <2>1. w.pc = "new" /\ u.pc = "got"
    BY <1>1, <1>16, RestTyped DEF Record, Take, Worker
  <2>2. QED
    BY <1>1, <2>1, StepsAt
<1>17. CASE Download(s)
  <2>1. w.pc = "download" /\ u.pc = "down"
    BY <1>1, <1>5, <1>17 DEF Download, Go, Worker
  <2>2. QED
    BY <1>1, <2>1, StepsAt
<1>18. ~Expire(s) /\ ~Save(s)
  BY <1>1, <1>5 DEF Expire, Save
<1>19. QED
  BY <1>6, <1>7, <1>8, <1>9, <1>10, <1>11, <1>12, <1>13, <1>14, <1>15, <1>16, <1>17,
     <1>18 DEF Step

(* Every attempt comes to its end: each step of its worker takes it nearer *)
(* there, and no crash, no other worker and nothing Grok does takes it     *)
(* back, for any numbers of tries, rounds and polls.                       *)
THEOREM AttemptsComeToEnd == Spec => AttemptsEnd
<1> DEFINE Nearer == \A s \in Seats : Att(s) # 0 /\ seat'[s] # seat[s] =>
             /\ StepsLeft(seat'[s]) <= StepsLeft(seat[s])
             /\ seat'[s].pc # seat[s].pc => StepsLeft(seat'[s]) < StepsLeft(seat[s])
             /\ seat'[s].left # seat[s].left => StepsLeft(seat'[s]) < StepsLeft(seat[s])
<1>1. Init => FirstTry
  BY DEF Init, FirstTry, Idle
<1>2. VideoInv /\ FirstTry /\ [Next]_vars => [Nearer]_vars
  <2> SUFFICES ASSUME VideoInv, FirstTry, Next, NEW t \in Seats,
                      Att(t) # 0, seat'[t] # seat[t]
               PROVE  /\ StepsLeft(seat'[t]) <= StepsLeft(seat[t])
                      /\ seat'[t].pc # seat[t].pc =>
                           StepsLeft(seat'[t]) < StepsLeft(seat[t])
                      /\ seat'[t].left # seat[t].left =>
                           StepsLeft(seat'[t]) < StepsLeft(seat[t])
    BY DEF vars
  <2>1. VideoTypes /\ Owned /\ InPhase /\ VideoTypes'
    BY VideoNext DEF VideoInv
  <2>2. seat[t] \in Worker /\ seat'[t] \in Worker /\ seat[t].pc # "idle"
    BY <2>1 DEF VideoTypes, Owned
  <2>3. StepsLeft(seat[t]) \in Nat /\ StepsLeft(seat[t]) > 0
    BY <2>2, StepsRemain
  <2>4. StepsLeft(seat'[t]) \in Nat
    <3>1. CASE seat'[t].pc = "idle"
      BY <2>2, <3>1, StepsAt
    <3>2. CASE seat'[t].pc # "idle"
      BY <2>2, <3>2, StepsRemain
    <3>3. QED
      BY <3>1, <3>2
  <2>5. ASSUME NEW s \in Seats, Step(s)
        PROVE  StepsLeft(seat'[t]) < StepsLeft(seat[t])
    <3>1. Restless(s) /\ Moves(s)
      BY <2>1, <2>5, StepRestless, StepMoves
    <3>2. t = s
      BY <2>1, <3>1, AttemptOf
    <3>3. QED
      BY <2>1, <2>5, <3>1, <3>2, StepNearer
  <2>6. ASSUME NEW s \in Seats, Begin(s)
        PROVE  FALSE
    <3>1. Att(s) = 0
      BY <2>1, <2>6 DEF Begin, Owned
    <3>2. \A x \in Seats : x # s => seat'[x] = seat[x]
      BY <2>1, <2>6, BeginKeeps
    <3>3. QED
      BY <3>1, <3>2
  <2>7. ASSUME NEW s \in Seats, ShowPost(s) \/ Stray(s)
        PROVE  /\ StepsLeft(seat'[t]) = StepsLeft(seat[t])
               /\ seat'[t].pc = seat[t].pc /\ seat'[t].left = seat[t].left
    <3>1. seat' = [seat EXCEPT ![s].strayed = TRUE]
      BY <2>7 DEF ShowPost, Stray
    <3>2. /\ seat'[t].pc = seat[t].pc /\ seat'[t].left = seat[t].left
          /\ seat'[t].try = seat[t].try /\ seat'[t].round = seat[t].round
          /\ seat'[t].session = seat[t].session
      BY <2>1, <2>2, <3>1 DEF VideoTypes, Worker
    <3>3. QED
      BY <3>2 DEF StepsLeft
  <2>8. ASSUME NEW s \in Seats, Revoke(s)
        PROVE  FALSE
    BY <2>8 DEF Revoke
  <2>9. ASSUME NEW b \in Boards, Crash(b)
        PROVE  StepsLeft(seat'[t]) < StepsLeft(seat[t])
    <3>1. seat'[t] = Idle /\ Idle.pc = "idle"
      BY <2>1, <2>9, CrashKeeps DEF Idle
    <3>2. QED
      BY <2>2, <2>3, <3>1, StepsAt
  <2>10. ASSUME NEW b \in Boards, Restart(b)
         PROVE  FALSE
    BY <2>10 DEF Restart
  <2>11. QED
    BY <2>3, <2>4, <2>5, <2>6, <2>7, <2>8, <2>9, <2>10 DEF Next
<1>3. QED
  BY VideoInvariant, FirstTryNext, <1>1, <1>2, PTL DEF Spec, AttemptsEnd

-----------------------------------------------------------------------------
(* The clips that are saved.                                               *)

(* A press is made once, so what has a home keeps it.                      *)
LEMMA HomesKept ==
  ASSUME VideoInv, [Next]_vars
  PROVE  /\ \A a \in Attempts : attempt[a].home # NoPost =>
              attempt'[a].home = attempt[a].home
         /\ \A c \in Clips, a \in Attempts : OwnOrAway(c, a) => OwnOrAway(c, a)'
<1>1. VideoTypes /\ Owned /\ InPhase
  BY DEF VideoInv
<1>2. \A a \in Attempts : attempt[a].home # NoPost => attempt'[a].home = attempt[a].home
  <2>1. ASSUME NEW s \in Seats, Step(s)
        PROVE  \A a \in Attempts : attempt[a].home # NoPost =>
                 attempt'[a].home = attempt[a].home
    <3>1. Restless(s) /\ Moves(s)
      BY <1>1, <2>1, StepRestless, StepMoves
    <3>2. /\ \A a \in Attempts : a # Att(s) => attempt'[a] = attempt[a]
          /\ Att(s) \in Attempts /\ Att(s) # 0
      BY <1>1, <3>1, AttemptOf, Working
    <3>3. Before(s).home # NoPost => After(s).home = Before(s).home
      <4>1. CASE Presses(s)
        BY <1>1, <3>2, <4>1 DEF Presses, InPhase, Before, BeforePress
      <4>2. QED
        BY <1>1, <2>1, <4>1, StepStage DEF Stays, Tells, Concludes, Before, After
    <3>4. QED
      BY <3>2, <3>3 DEF Before, After
  <2>2. ASSUME NEW s \in Seats, Begin(s)
        PROVE  SameContracts
    BY <1>1, <2>2, BeginKeeps
  <2>3. ASSUME NEW s \in Seats, ShowPost(s) \/ Stray(s)
        PROVE  UNCHANGED attempt
    BY <2>3 DEF ShowPost, Stray
  <2>4. ASSUME NEW s \in Seats, Revoke(s)
        PROVE  SameContracts
    BY <1>1, <2>4, RevokeKeeps
  <2>5. ASSUME NEW b \in Boards, Crash(b)
        PROVE  UNCHANGED attempt
    BY <2>5 DEF Crash
  <2>6. ASSUME NEW b \in Boards, Restart(b)
        PROVE  SameContracts
    BY <1>1, <2>6, RestartKeeps
  <2>7. QED
    BY <2>1, <2>2, <2>3, <2>4, <2>5, <2>6 DEF Next, vars, SameContracts
<1>3. ASSUME NEW c \in Clips, NEW a \in Attempts, OwnOrAway(c, a)
      PROVE  OwnOrAway(c, a)'
  <2>1. c.by \in Attempts \cup {Old}
    BY DEF Clips, Posts
  <2>2. CASE c.by = a
    BY <2>2 DEF OwnOrAway
  <2>3. CASE c.by = Old /\ c.by # a
    BY <1>3, <2>3 DEF OwnOrAway, HomeOf
  <2>4. CASE c.by \in Attempts /\ c.by # Old /\ c.by # a
    BY <1>2, <1>3, <2>4 DEF OwnOrAway, HomeOf
  <2>5. QED
    BY <2>1, <2>2, <2>3, <2>4
<1>4. QED
  BY <1>2, <1>3

LEMMA StepWatches ==
  ASSUME VideoTypes, Owned, NEW s \in Seats, Step(s), Moves(s),
         Watches(seat[s], tab[s], Att(s))
  PROVE  Watches(seat'[s], tab'[s], Att(s))
<1> DEFINE w == seat[s]
           u == seat'[s]
           a == Att(s)
<1>1. /\ w \in Worker /\ u \in Worker /\ w.pc # "idle" /\ seat \in [Seats -> Worker]
      /\ tab[s] \in Page /\ tab \in [Seats -> Page] /\ a \in Attempts
  BY StepRestless, Working DEF VideoTypes, Moves, Restless
<1>2. u = Rest(s) => Watches(u, tab'[s], a)
  BY DEF Rest, Idle, Watches, Watching, Holding
<1> SUFFICES ASSUME u # Rest(s)
             PROVE  Watches(u, tab'[s], a)
  BY <1>2
<1>3. \A v : ~End(s, v)
  BY <1>1 DEF End
(* The tab and the list of what was seen stay as they are.                 *)
<1>4. ASSUME tab'[s] = tab[s], u.strayed = w.strayed, u.seen = w.seen,
             \/ u.pc \in Watching /\ w.pc \in Watching
             \/ u.pc \in Holding /\ w.pc \in Holding
      PROVE  Watches(u, tab'[s], a)
  BY <1>4 DEF Watches, Watching, Holding
<1>5. CASE OpenSession(s) \/ Start(s) \/ GoToImagine(s) \/ NewGeneration(s) \/ Compose(s)
  <2>1. u.pc \in {"goto", "compose", "stuck", "stamp"}
    <3>1. CASE OpenSession(s) \/ Start(s)
      BY <1>1, <1>3, <3>1 DEF OpenSession, Start, Go, Worker
    <3>2. CASE GoToImagine(s)
      BY <1>1, <3>2 DEF GoToImagine, Go, Worker
    <3>3. CASE NewGeneration(s)
      BY <1>1, <1>3, <3>3 DEF NewGeneration, TryAgain, Worker
    <3>4. CASE Compose(s)
      BY <1>1, <1>3, <3>4 DEF Compose, Worker
    <3>5. QED
      BY <1>5, <3>1, <3>2, <3>3, <3>4
  <2>2. QED
    BY <2>1 DEF Watches, Watching, Holding
<1>6. CASE Stamp(s)
  <2>1. PICK works \in BOOLEAN :
          /\ tab' = [tab EXCEPT ![s].marked = IF works THEN Stamped(tab[s]) ELSE {}]
          /\ seat' = [seat EXCEPT ![s].pc = "type", ![s].strayed = ~works,
                                  ![s].before = tab[s].dom \cap loaded']
    BY <1>3, <1>6 DEF Stamp
  <2>2. u = [w EXCEPT !.pc = "type", !.strayed = ~works, !.before = tab[s].dom \cap loaded']
    BY <1>1, <2>1
  <2>3. u.pc = "type" /\ u.strayed = ~works
    BY <1>1, <2>2 DEF Worker
  <2>4. works => tab'[s].dom = tab[s].dom /\ tab'[s].marked = tab[s].dom
    BY <1>1, <2>1 DEF Page, Stamped
  <2>5. QED
    BY <2>3, <2>4 DEF Watches, Watching, Holding
<1>7. CASE Type(s) \/ Reserve(s)
  <2>1. tab'[s] = tab[s]
    BY <1>7 DEF Type, Reserve
  <2>2. \/ u.pc = "reserve" /\ w.pc = "type"
        \/ u.pc = "click" /\ w.pc = "reserve"
    BY <1>1, <1>3, <1>7 DEF Type, Reserve, Go, Worker
  <2>3. u.strayed = w.strayed /\ u.seen = w.seen
    BY <1>1, <1>3, <1>7 DEF Type, Reserve, Go, Worker
  <2>4. QED
    BY <1>4, <2>1, <2>2, <2>3 DEF Watching
<1>8. CASE Press(s)
  <2>1. /\ w.pc = "click"
        /\ seat' = [seat EXCEPT ![s].pc = "clicked", ![s].knew = given]
        /\ tab' = tab \/ tab' = [tab EXCEPT ![s].dom = @ \cup OwnClips(s)]
    BY <1>3, <1>8 DEF Press, Pressed
  <2>2. u.pc = "clicked" /\ u.strayed = w.strayed
    BY <1>1, <2>1 DEF Worker
  <2>3. tab'[s].dom \subseteq tab[s].dom \cup OwnClips(s) /\ tab'[s].marked = tab[s].marked
    BY <1>1, <2>1 DEF Page
  <2>4. \A c \in OwnClips(s) : OwnOrAway(c, a)
    BY DEF OwnClips, OwnOrAway
  <2>5. QED
    BY <2>1, <2>2, <2>3, <2>4 DEF Watches, Watching, Holding
<1>9. CASE Tell(s)
  <2>1. w.pc \in {"clicked", "told", "got", "down"} /\ tab'[s] = tab[s]
    BY <1>9 DEF Tell, Telling
  <2>2. u.pc = Telling[w.pc][2] /\ u.strayed = w.strayed /\ u.seen = w.seen
    BY <1>1, <1>3, <1>9 DEF Tell, Go, Worker
  <2>3. \/ u.pc \in Watching /\ w.pc \in Watching
        \/ u.pc \in Holding /\ w.pc \in Holding
    BY <2>1, <2>2 DEF Telling, Watching, Holding
  <2>4. QED
    BY <1>4, <2>1, <2>2, <2>3
<1>10. CASE Poll(s)
  <2>1. w.pc = "poll" /\ tab'[s] = tab[s]
    BY <1>10 DEF Poll
  <2>2. CASE seat' = [seat EXCEPT ![s].pc = "seen", ![s].seen = NewClips(s)]
    <3>1. u.pc = "seen" /\ u.seen = NewClips(s) /\ u.strayed = w.strayed
      BY <1>1, <2>2 DEF Worker
    <3>2. NewClips(s) \subseteq tab[s].dom \ tab[s].marked
      BY DEF NewClips
    <3>3. QED
      BY <2>1, <3>1, <3>2 DEF Watches, Watching, Holding
  <2>3. CASE seat' = [seat EXCEPT ![s].left = @ - 1]
    <3>1. u.pc = "poll" /\ u.seen = w.seen /\ u.strayed = w.strayed
      BY <1>1, <2>1, <2>3 DEF Worker
    <3>2. QED
      BY <1>4, <2>1, <3>1 DEF Watching
  <2>4. QED
    BY <1>10, <2>2, <2>3 DEF Poll
<1>11. Take(s) => u.pc = "got" /\ u.seen = w.seen /\ u.strayed = w.strayed
  BY <1>1, RestTyped DEF Take, Worker
<1>12. CASE Judge(s)
  <2>1. w.pc = "seen" /\ tab'[s] = tab[s]
    BY <1>12 DEF Judge
  <2>2. Take(s) \/ seat' = [seat EXCEPT ![s].pc = "new", ![s].now = tab[s].at]
    BY <1>3, <1>12 DEF Judge
  <2>3. u.pc \in Holding /\ u.seen = w.seen /\ u.strayed = w.strayed
    BY <1>1, <1>11, <2>2 DEF Worker, Holding
  <2>4. QED
    BY <1>4, <2>1, <2>3 DEF Holding
<1>13. CASE Record(s)
  BY <1>4, <1>11, <1>13 DEF Record, Holding
<1>14. CASE Download(s)
  <2>1. w.pc = "download" /\ tab'[s] = tab[s] /\ seat' = [seat EXCEPT ![s].pc = "down"]
    BY <1>3, <1>14 DEF Download, Go
  <2>2. u.pc = "down" /\ u.seen = w.seen /\ u.strayed = w.strayed
    BY <1>1, <2>1 DEF Worker
  <2>3. QED
    BY <1>4, <2>1, <2>2 DEF Holding
<1>15. ~Expire(s) /\ ~Save(s)
  BY <1>1, <1>3 DEF Expire, Save
<1>16. QED
  BY <1>5, <1>6, <1>7, <1>8, <1>9, <1>10, <1>12, <1>13, <1>14, <1>15 DEF Step

(* What was own or away from home stays so.                                *)
LEMMA WatchesOn ==
  ASSUME VideoInv, [Next]_vars, NEW w \in Worker, NEW t \in Page, NEW a \in Attempts,
         Watches(w, t, a)
  PROVE  Watches(w, t, a)'
<1>1. t.dom \subseteq Clips /\ w.seen \subseteq Clips
  BY DEF Worker, Page
<1>2. QED
  BY <1>1, HomesKept DEF Watches

LEMMA RecognisedNext == VideoInv /\ Recognised /\ [Next]_vars => Recognised'
<1> SUFFICES ASSUME VideoInv, Recognised, [Next]_vars, NEW t \in Seats, seat'[t].att # 0
             PROVE  Watches(seat[t], tab[t], Att(t))'
  BY DEF Recognised, Att
<1>1. VideoTypes /\ Owned /\ InPhase /\ VideoInv' /\ VideoTypes' /\ Owned'
  BY VideoNext DEF VideoInv
<1>2. /\ seat'[t] \in Worker /\ tab'[t] \in Page /\ seat'[t].att \in Attempts
      /\ seat'[t].pc # "idle"
  BY <1>1, Numbers DEF VideoTypes, Worker, Owned, Att, Attempts
<1>3. ASSUME NEW a \in Attempts, NEW w, NEW p, w = seat'[t], p = tab'[t],
             a = seat'[t].att, Watches(w, p, a)
      PROVE  Watches(seat[t], tab[t], Att(t))'
  <2>1. w \in Worker /\ p \in Page
    BY <1>2, <1>3
  <2>2. Watches(w, p, a)'
    BY <1>3, <2>1, WatchesOn
  <2>3. QED
    BY <1>3, <2>2 DEF Watches, OwnOrAway, HomeOf, Att
<1> SUFFICES Watches(seat'[t], tab'[t], seat'[t].att)
  BY <1>2, <1>3
(* A worker to which nothing happened.                                     *)
<1>4. ASSUME seat'[t] = seat[t], tab'[t] = tab[t]
      PROVE  Watches(seat'[t], tab'[t], seat'[t].att)
  BY <1>4 DEF Recognised, Att
<1>5. ASSUME NEW s \in Seats, Step(s)
      PROVE  Watches(seat'[t], tab'[t], seat'[t].att)
  <2>1. Restless(s) /\ Moves(s)
    BY <1>1, <1>5, StepRestless, StepMoves
  <2>2. CASE t = s
    <3>1. Watches(seat[s], tab[s], Att(s))
      BY <1>1, <2>1, Working DEF Recognised
    <3>2. seat'[s].att = Att(s)
      BY <1>2, <2>1, <2>2 DEF Moves, Proceeds, Rest, Idle
    <3>3. QED
      BY <1>1, <1>5, <2>1, <2>2, <3>1, <3>2, StepWatches
  <2>3. CASE t # s
    BY <1>1, <1>4, <2>1, <2>3, AttemptOf DEF Moves, VideoTypes
  <2>4. QED
    BY <2>2, <2>3
<1>6. ASSUME NEW s \in Seats, Begin(s)
      PROVE  Watches(seat'[t], tab'[t], seat'[t].att)
  <2>1. /\ seat'[s].pc = "open" /\ \A x \in Seats : x # s => seat'[x] = seat[x]
        /\ tab' = tab
    BY <1>1, <1>6, BeginKeeps DEF Begin
  <2>2. QED
    BY <1>4, <2>1 DEF Watches, Watching, Holding
<1>7. ASSUME NEW s \in Seats, ShowPost(s)
      PROVE  Watches(seat'[t], tab'[t], seat'[t].att)
  <2>1. /\ seat' = seat /\ tab' = [tab EXCEPT ![s] = Visit(Att(s))]
        /\ seat[s].pc \in {"poll", "seen"}
    BY <1>7 DEF ShowPost
  <2>2. CASE t = s
    <3>1. tab'[t] = Visit(Att(t)) /\ Att(t) \in Attempts /\ Att(t) # NoPost /\ Att(t) # 0
      BY <1>1, <1>2, <2>1, <2>2 DEF VideoTypes, NoPost, Att, Attempts
    <3>2. \A c \in tab'[t].dom : OwnOrAway(c, Att(t))
      BY <3>1 DEF Visit, OwnOrAway
    <3>3. Watches(seat[t], tab[t], Att(t))
      BY <3>1 DEF Recognised
    <3>4. QED
      BY <2>1, <2>2, <3>2, <3>3 DEF Watches, Watching, Holding, Att
  <2>3. CASE t # s
    BY <1>1, <1>4, <2>1, <2>3 DEF VideoTypes
  <2>4. QED
    BY <2>2, <2>3
<1>8. ASSUME NEW s \in Seats, Stray(s)
      PROVE  Watches(seat'[t], tab'[t], seat'[t].att)
  <2>1. seat' = [seat EXCEPT ![s].strayed = TRUE] /\ \E p : tab' = [tab EXCEPT ![s] = p]
    BY <1>8 DEF Stray
  <2>2. CASE t = s
    <3>1. seat'[t].strayed = TRUE
      BY <1>1, <2>1, <2>2 DEF VideoTypes, Worker
    <3>2. QED
      BY <3>1 DEF Watches
  <2>3. CASE t # s
    BY <1>1, <1>4, <2>1, <2>3 DEF VideoTypes
  <2>4. QED
    BY <2>2, <2>3
<1>9. ASSUME NEW b \in Boards, Crash(b)
      PROVE  Watches(seat'[t], tab'[t], seat'[t].att)
  BY <1>1, <1>2, <1>4, <1>9, CrashKeeps DEF Idle, Crash
<1>10. ASSUME UNCHANGED seat, UNCHANGED tab
       PROVE  Watches(seat'[t], tab'[t], seat'[t].att)
  BY <1>4, <1>10
<1>11. ASSUME NEW s \in Seats, Revoke(s)
       PROVE  UNCHANGED seat /\ UNCHANGED tab
  BY <1>11 DEF Revoke
<1>12. ASSUME NEW b \in Boards, Restart(b)
       PROVE  UNCHANGED seat /\ UNCHANGED tab
  BY <1>12 DEF Restart
<1>13. QED
  BY <1>5, <1>6, <1>7, <1>8, <1>9, <1>10, <1>11, <1>12 DEF Next, vars

(* Whatever Grok shows in a tab, in whatever order, an attempt saves only  *)
(* clips of its own press, unless its tab was pulled to another post after *)
(* the marks were made (or could not be made), or the clip was rendered in *)
(* a post that is not its own.                                             *)
THEOREM SavesOwnClip == Spec => OwnClip
<1> DEFINE Own == \A a \in Attempts : \A c \in attempt'[a].saved \ attempt[a].saved :
             \/ c.by = a
             \/ \E s \in Seats : Att(s) = a /\ seat[s].strayed
             \/ HomeOf(c.by) # c.by
<1>1. Init => Recognised
  BY DEF Init, Recognised, Att, Idle
<1>2. VideoInv /\ Recognised /\ [Next]_vars => [Own]_vars
  <2> SUFFICES ASSUME VideoInv, Recognised, Next, NEW a \in Attempts,
                      NEW c \in attempt'[a].saved \ attempt[a].saved
               PROVE  \/ c.by = a
                      \/ \E s \in Seats : Att(s) = a /\ seat[s].strayed
                      \/ HomeOf(c.by) # c.by
    OBVIOUS
  <2>1. VideoTypes /\ Owned /\ InPhase
    BY DEF VideoInv
  <2>2. ASSUME NEW s \in Seats, Step(s)
        PROVE  \/ c.by = a
               \/ \E t \in Seats : Att(t) = a /\ seat[t].strayed
               \/ HomeOf(c.by) # c.by
    <3>1. Restless(s) /\ Moves(s) /\ Att(s) # 0
      BY <2>1, <2>2, StepRestless, StepMoves, Working
    <3>2. a = Att(s)
      BY <2>1, <3>1, AttemptOf
    <3>3. seat[s].pc = "save" /\ c \in seat[s].seen
      BY <2>1, <2>2, <3>2, StepStage DEF Stays, Tells, Presses, Concludes, Before, After
    <3>4. seat[s].strayed \/ OwnOrAway(c, a)
      BY <3>1, <3>2, <3>3 DEF Recognised, Watches, Holding
    <3>5. QED
      BY <3>2, <3>4 DEF OwnOrAway
  <2>3. ASSUME SameContracts
        PROVE  FALSE
    BY <2>3 DEF SameContracts
  <2>4. ASSUME UNCHANGED attempt
        PROVE  FALSE
    BY <2>4
  <2>5. ASSUME NEW s \in Seats, Begin(s) \/ ShowPost(s) \/ Stray(s) \/ Revoke(s)
        PROVE  FALSE
    BY <2>1, <2>3, <2>4, <2>5, BeginKeeps, GrokKeeps, RevokeKeeps
  <2>6. ASSUME NEW b \in Boards, Crash(b) \/ Restart(b)
        PROVE  FALSE
    BY <2>1, <2>3, <2>4, <2>6, CrashKeeps, RestartKeeps
  <2>7. QED
    BY <2>2, <2>5, <2>6 DEF Next
<1>3. QED
  BY VideoInvariant, RecognisedNext, <1>1, <1>2, PTL DEF Spec, OwnClip

-----------------------------------------------------------------------------
(* The posts whose clip was taken on arrival.                              *)

(* One board runs, as the default has it.                                  *)
OneBoard == \A b, c \in Boards : b = c

LEMMA LoadKnows ==
  ASSUME VideoTypes, Remembered, NEW b \in Boards, NEW failed \in BOOLEAN,
         DiskFails(failed), crashes' = crashes
  PROVE  /\ given \subseteq Load(b, failed) \/ Excused'
         /\ mishaps' = 0 => Load(b, failed) \subseteq journal /\ mishaps = 0 /\ ~failed
         /\ Excused => Excused'
<1>1. /\ mishaps' \in Nat /\ mishaps <= mishaps' /\ (mishaps' = 0 => ~failed /\ mishaps = 0)
      /\ mishaps \in Nat /\ crashes \in Nat /\ (failed => mishaps' > 0)
  BY DiskTyped DEF DiskFails, VideoTypes, BooksTyped
<1>2. Excused => Excused'
  BY <1>1 DEF Excused
<1>3. mishaps' = 0 => Load(b, failed) \subseteq journal
  BY <1>1 DEF Remembered, BoardsRemember, Load
<1>4. given \subseteq Load(b, failed) \/ Excused'
  <2>1. CASE ledger[b].read
    BY <1>2, <2>1 DEF Remembered, BoardsRemember, Load
  <2>2. CASE ~ledger[b].read /\ ~failed
    BY <1>2, <2>2 DEF Remembered, BoardsRemember, Load
  <2>3. CASE ~ledger[b].read /\ failed
    <3>1. crashes = 0 => given = {}
      BY <2>3 DEF Remembered, BoardsRemember
    <3>2. crashes > 0 => Excused'
      BY <1>1, <2>3 DEF Excused
    <3>3. QED
      BY <1>1, <3>1, <3>2
  <2>4. QED
    BY <2>1, <2>2, <2>3
<1>5. QED
  BY <1>1, <1>2, <1>3, <1>4

LEMMA WrittenDown ==
  ASSUME VideoTypes, Remembered, OneBoard, NEW b \in Boards, NEW p, NEW failed \in BOOLEAN,
         DiskFails(failed), crashes' = crashes, WriteDown(b, p, failed),
         given' = given \/ given' = given \cup {p}
  PROVE  BoardsRemember'
<1>1. /\ given \subseteq Load(b, failed) \/ Excused'
      /\ mishaps' = 0 => Load(b, failed) \subseteq journal /\ mishaps = 0 /\ ~failed
  BY LoadKnows
<1>2. ledger'[b].read = TRUE /\ ledger'[b].posts = Load(b, failed) \cup {p}
  BY DEF WriteDown, VideoTypes, BooksTyped
<1>3. given' \subseteq ledger'[b].posts \/ Excused'
  BY <1>1, <1>2
<1>4. mishaps' = 0 => ledger'[b].posts \subseteq journal' /\ given' \subseteq journal'
  <2> SUFFICES ASSUME mishaps' = 0
               PROVE  ledger'[b].posts \subseteq journal' /\ given' \subseteq journal'
    OBVIOUS
  <2>1. journal \subseteq journal' /\ p \in journal'
    BY <1>1 DEF WriteDown
  <2>2. given \subseteq journal
    BY <1>1 DEF Remembered, BoardsRemember
  <2>3. QED
    BY <1>1, <1>2, <2>1, <2>2
<1>5. QED
  BY <1>2, <1>3, <1>4 DEF BoardsRemember, OneBoard

LEMMA OnlyRead ==
  ASSUME VideoTypes, Remembered, OneBoard, NEW b \in Boards, NEW failed \in BOOLEAN,
         DiskFails(failed), crashes' = crashes, UNCHANGED <<given, journal>>,
         ledger' = [ledger EXCEPT ![b] = [read |-> TRUE, posts |-> Load(b, failed)]]
  PROVE  BoardsRemember'
<1>1. /\ given \subseteq Load(b, failed) \/ Excused'
      /\ mishaps' = 0 => Load(b, failed) \subseteq journal /\ mishaps = 0 /\ ~failed
  BY LoadKnows
<1>2. ledger'[b].read = TRUE /\ ledger'[b].posts = Load(b, failed)
  BY DEF VideoTypes, BooksTyped
<1>3. mishaps' = 0 => given' \subseteq journal'
  BY <1>1 DEF Remembered, BoardsRemember
<1>4. QED
  BY <1>1, <1>2, <1>3 DEF BoardsRemember, OneBoard

LEMMA BooksLeft ==
  ASSUME Remembered, UNCHANGED <<books, crashes, mishaps>>
  PROVE  BoardsRemember' /\ Excused' = Excused
BY DEF Remembered, BoardsRemember, Excused, books

LEMMA StepRemembers ==
  ASSUME VideoTypes, Owned, Remembered, OneBoard, NEW s \in Seats, Step(s), Moves(s)
  PROVE  /\ BoardsRemember' /\ given \subseteq given' /\ (Excused => Excused')
         /\ seat'[s].pc \in AfterPress =>
              \/ seat'[s].knew = {} \/ seat'[s].knew = given
              \/ seat[s].pc \in AfterPress /\ seat'[s].knew = seat[s].knew
         /\ seat'[s].pc = "new" => seat'[s].now \notin seat'[s].knew \/ Excused'
<1> DEFINE w == seat[s]
           u == seat'[s]
           b == BoardOf[s]
           Knows == /\ u.pc \in AfterPress =>
                         \/ u.knew = {} \/ u.knew = given
                         \/ w.pc \in AfterPress /\ u.knew = w.knew
                    /\ u.pc = "new" => u.now \notin u.knew \/ Excused'
<1>1. /\ w \in Worker /\ u \in Worker /\ w.pc # "idle" /\ seat \in [Seats -> Worker]
      /\ b \in Boards
  BY StepRestless, Numbers DEF VideoTypes, Moves, Restless
<1>2. u.pc \in BeforePress \cup {"idle"} => Knows
  BY DEF BeforePress, AfterPress
<1>3. Rest(s).pc = "idle" /\ Rest(s).knew = {} /\ \A v : End(s, v) => u.pc = "idle"
  BY <1>1 DEF Rest, Idle, End
<1>4. Take(s) => u.pc = "got" /\ u.knew = {}
  BY <1>1, <1>3, RestTyped DEF Take, Worker
<1>5. UNCHANGED books /\ UNCHANGED <<crashes, mishaps>> =>
        BoardsRemember' /\ given \subseteq given' /\ (Excused => Excused')
  BY BooksLeft DEF books
<1>6. CASE OpenSession(s)
  <2>1. PICK failed \in BOOLEAN :
          /\ DiskFails(failed)
          /\ IF tab[s].at = Imagine THEN ~failed /\ UNCHANGED <<ledger, journal>>
             ELSE WriteDown(b, tab[s].at, failed)
    BY <1>6 DEF OpenSession
  <2>2. given' = given /\ crashes' = crashes
    BY <1>6 DEF OpenSession
  <2>3. Excused => Excused'
    BY <1>1, <2>1, <2>2, LoadKnows
  <2>4. BoardsRemember'
    <3>1. CASE tab[s].at = Imagine
      BY <2>1, <2>2, <3>1, BooksLeft DEF DiskFails, books
    <3>2. CASE tab[s].at # Imagine
      BY <1>1, <2>1, <2>2, <3>2, WrittenDown
    <3>3. QED
      BY <3>1, <3>2
  <2>5. Knows
    <3>1. u.pc \in {"idle", "goto"}
      BY <1>1, <1>3, <1>6 DEF OpenSession, Worker
    <3>2. QED
      BY <1>2, <3>1 DEF BeforePress
  <2> HIDE DEF Knows
  <2>6. QED
    BY <2>2, <2>3, <2>4, <2>5 DEF Knows
<1>7. CASE Judge(s)
  <2>1. CASE Take(s) /\ UNCHANGED <<ledger, mishaps>>
    BY <1>4, <1>5, <1>7, <2>1 DEF Judge, books
  <2>2. ASSUME NEW failed \in BOOLEAN, DiskFails(failed),
               ledger' = [ledger EXCEPT ![b] = [read |-> TRUE, posts |-> Load(b, failed)]],
               \/ End(s, "raised")
               \/ /\ seat' = [seat EXCEPT ![s].pc = "new", ![s].now = tab[s].at]
                  /\ tab[s].at \notin Load(b, failed)
        PROVE  BoardsRemember' /\ given \subseteq given' /\ (Excused => Excused') /\ Knows
    <3>1. w.pc = "seen" /\ UNCHANGED <<given, journal, crashes>>
      BY <1>7 DEF Judge
    <3>2. BoardsRemember' /\ given \subseteq given'
      BY <1>1, <2>2, <3>1, OnlyRead
    <3>3. (given \subseteq Load(b, failed) \/ Excused') /\ (Excused => Excused')
      BY <1>1, <2>2, <3>1, LoadKnows
    <3>4. CASE End(s, "raised")
      BY <1>2, <1>3, <3>2, <3>3, <3>4
    <3>5. CASE /\ seat' = [seat EXCEPT ![s].pc = "new", ![s].now = tab[s].at]
               /\ tab[s].at \notin Load(b, failed)
      <4>1. u.pc = "new" /\ u.now = tab[s].at /\ u.knew = w.knew
        BY <1>1, <3>5 DEF Worker
      <4>2. w.knew \subseteq given /\ w.pc \in AfterPress
        BY <3>1 DEF Remembered, AfterPress
      <4>3. u.now \notin u.knew \/ Excused'
        BY <3>3, <3>5, <4>1, <4>2
      <4>4. QED
        BY <3>2, <3>3, <4>1, <4>2, <4>3
    <3>6. QED
      BY <2>2, <3>4, <3>5
  <2> HIDE DEF Knows
  <2>3. BoardsRemember' /\ given \subseteq given' /\ (Excused => Excused') /\ Knows
    BY <1>7, <2>1, <2>2 DEF Judge, Knows
  <2>4. QED
    BY <2>3 DEF Knows
<1>8. CASE Record(s)
  <2>1. PICK failed \in BOOLEAN : DiskFails(failed) /\ WriteDown(b, w.now, failed)
    BY <1>8 DEF Record
  <2>2. given' = given \cup {w.now} /\ crashes' = crashes /\ Take(s)
    BY <1>8 DEF Record
  <2>3. BoardsRemember'
    BY <1>1, <2>1, <2>2, WrittenDown
  <2>4. Excused => Excused'
    BY <1>1, <2>1, <2>2, LoadKnows
  <2>5. QED
    BY <1>4, <2>2, <2>3, <2>4
<1>9. CASE ~OpenSession(s) /\ ~Judge(s) /\ ~Record(s)
  <2>1. UNCHANGED books /\ UNCHANGED <<crashes, mishaps>>
    BY <1>9 DEF Step, Start, GoToImagine, NewGeneration, Compose, Stamp, Type, Reserve,
       Press, Tell, Poll, Expire, Download, Save, bounds
  <2>2. Knows
    <3>1. CASE w.pc \in BeforePress /\ ~Press(s)
      <4>1. Stays(s) \/ Concludes(s)
        BY <3>1, StepStage DEF Tells, Presses, BeforePress, AfterPress, Step, Start, OpenSession,
           GoToImagine, NewGeneration, Compose, Stamp, Type, Reserve, Tell, Telling, Poll,
           Expire, Judge, Record, Download, Save
      <4>2. u.pc \in BeforePress \cup {"idle"}
        BY <1>3, <3>1, <4>1 DEF Stays, Concludes, BeforePress, AfterPress
      <4>3. QED
        BY <1>2, <4>2
    <3>2. CASE Press(s)
      <4>1. End(s, "raised") \/ seat' = [seat EXCEPT ![s].pc = "clicked", ![s].knew = given]
        BY <3>2 DEF Press
      <4>2. u.pc = "idle" \/ (u.pc = "clicked" /\ u.knew = given)
        BY <1>1, <1>3, <4>1 DEF Worker
      <4>3. QED
        BY <4>2 DEF AfterPress
    <3>3. CASE w.pc \in AfterPress
      <4>1. Tell(s) \/ Poll(s) \/ Expire(s) \/ Download(s) \/ Save(s)
        BY <1>9, <3>3 DEF Step, AfterPress, Start, OpenSession, GoToImagine, NewGeneration,
           Compose, Stamp, Type, Reserve, Press
      <4>2. u.pc # "idle" => u.pc # "new" /\ u.knew = w.knew
        <5>1. CASE Tell(s)
          <6>1. Telling[w.pc][2] # "new"
            BY <5>1 DEF Tell, Telling
          <6>2. End(s, "raised") \/ Go(s, Telling[w.pc][2])
            BY <5>1 DEF Tell
          <6>3. QED
            BY <1>1, <1>3, <6>1, <6>2 DEF Go, Worker
        <5>2. CASE Poll(s)
          <6>1. \/ seat' = [seat EXCEPT ![s].pc = "seen", ![s].seen = NewClips(s)]
                \/ seat' = [seat EXCEPT ![s].left = @ - 1]
            BY <5>2 DEF Poll
          <6>2. QED
            BY <1>1, <5>2, <6>1 DEF Worker, Poll
        <5>3. CASE Expire(s) \/ Download(s)
          BY <1>1, <1>3, <5>3 DEF Expire, Download, Go, Worker
        <5>4. CASE Save(s)
          BY <1>1, <1>3, <5>4 DEF Save
        <5>5. QED
          BY <4>1, <5>1, <5>2, <5>3, <5>4
      <4>3. QED
        BY <3>3, <4>2 DEF AfterPress
    <3>4. QED
      BY <1>1, <3>1, <3>2, <3>3 DEF Worker
  <2> HIDE DEF Knows
  <2>3. QED
    BY <1>5, <2>1, <2>2 DEF Knows
<1>10. QED
  BY <1>6, <1>7, <1>8, <1>9

LEMMA RememberedNext == VideoInv /\ OneBoard /\ Remembered /\ [Next]_vars => Remembered'
<1> SUFFICES ASSUME VideoInv, OneBoard, Remembered, [Next]_vars
             PROVE  Remembered'
  OBVIOUS
<1>1. VideoTypes /\ Owned /\ InPhase /\ BoardsRemember
  BY DEF VideoInv, Remembered
(* Workers that go on remembering what they did, or nothing.               *)
<1>2. ASSUME BoardsRemember', given \subseteq given', Excused => Excused',
             \A t \in Seats : \/ seat'[t].pc \notin AfterPress
                              \/ /\ seat'[t].pc = seat[t].pc /\ seat'[t].knew = seat[t].knew
                                 /\ seat'[t].now = seat[t].now
      PROVE  Remembered'
  <2>1. (\A t \in Seats : seat[t].pc \in AfterPress => seat[t].knew \subseteq given)'
    BY <1>2 DEF Remembered
  <2>2. (\A t \in Seats : seat[t].pc = "new" => seat[t].now \notin seat[t].knew \/ Excused)'
    BY <1>2 DEF Remembered, AfterPress
  <2>3. QED
    BY <1>2, <2>1, <2>2 DEF Remembered
<1>3. ASSUME NEW s \in Seats, Step(s)
      PROVE  Remembered'
  <2>1. Restless(s) /\ Moves(s)
    BY <1>1, <1>3, StepRestless, StepMoves
  <2>2. \A t \in Seats : t # s => seat'[t] = seat[t]
    BY <1>1, <2>1, AttemptOf
  <2>3. /\ BoardsRemember' /\ given \subseteq given' /\ (Excused => Excused')
        /\ seat'[s].pc \in AfterPress =>
             \/ seat'[s].knew = {} \/ seat'[s].knew = given
             \/ seat[s].pc \in AfterPress /\ seat'[s].knew = seat[s].knew
        /\ seat'[s].pc = "new" => seat'[s].now \notin seat'[s].knew \/ Excused'
    BY <1>1, <1>3, <2>1, StepRemembers
  <2>4. (\A t \in Seats : seat[t].pc \in AfterPress => seat[t].knew \subseteq given)'
    BY <2>2, <2>3 DEF Remembered
  <2>5. (\A t \in Seats : seat[t].pc = "new" => seat[t].now \notin seat[t].knew \/ Excused)'
    BY <2>2, <2>3 DEF Remembered
  <2>6. QED
    BY <2>3, <2>4, <2>5 DEF Remembered
<1>4. ASSUME UNCHANGED <<books, crashes, mishaps>>
      PROVE  BoardsRemember' /\ given \subseteq given' /\ (Excused => Excused')
  BY <1>4, BooksLeft DEF books
<1>5. ASSUME NEW s \in Seats, Begin(s)
      PROVE  Remembered'
  <2>1. /\ seat'[s].pc = "open" /\ \A t \in Seats : t # s => seat'[t] = seat[t]
        /\ UNCHANGED <<books, crashes, mishaps>>
    BY <1>1, <1>5, BeginKeeps DEF Begin, bounds
  <2>2. QED
    BY <1>2, <1>4, <2>1 DEF AfterPress
<1>6. ASSUME NEW s \in Seats, ShowPost(s) \/ Stray(s)
      PROVE  Remembered'
  <2>1. /\ seat' = seat \/ seat' = [seat EXCEPT ![s].strayed = TRUE]
        /\ UNCHANGED <<books, crashes, mishaps>>
    BY <1>6 DEF ShowPost, Stray, bounds
  <2>2. \A t \in Seats : /\ seat'[t].pc = seat[t].pc /\ seat'[t].knew = seat[t].knew
                         /\ seat'[t].now = seat[t].now
    BY <1>1, <2>1 DEF VideoTypes, Worker
  <2>3. QED
    BY <1>2, <1>4, <2>1, <2>2
<1>7. ASSUME UNCHANGED seat, UNCHANGED <<books, crashes, mishaps>>
      PROVE  Remembered'
  BY <1>2, <1>4, <1>7
<1>8. ASSUME NEW s \in Seats, Revoke(s)
      PROVE  UNCHANGED seat /\ UNCHANGED <<books, crashes, mishaps>>
  BY <1>8 DEF Revoke, bounds
<1>9. ASSUME NEW b \in Boards, Restart(b)
      PROVE  UNCHANGED seat /\ UNCHANGED <<books, crashes, mishaps>>
  BY <1>9 DEF Restart, bounds
<1>10. ASSUME NEW b \in Boards, Crash(b)
       PROVE  Remembered'
  <2>1. /\ \A t \in Seats : seat'[t] = seat[t] \/ seat'[t].pc = "idle"
        /\ UNCHANGED <<journal, given, mishaps>> /\ crashes' = crashes + 1
    BY <1>1, <1>10, CrashKeeps DEF Crash, Idle
  <2>2. crashes \in Nat /\ mishaps \in Nat
    BY <1>1 DEF VideoTypes, BooksTyped
  <2>3. crashes' > 0 /\ (mishaps > 0 => Excused') /\ (Excused => Excused')
    BY <2>1, <2>2 DEF Excused
  <2>4. mishaps = 0 => given \subseteq journal
    BY DEF Remembered, BoardsRemember
  <2>5. ledger'[b].read = FALSE /\ ledger'[b].posts = {}
    BY <1>1, <1>10 DEF Crash, VideoTypes, BooksTyped
  <2>6. BoardsRemember'
    BY <2>1, <2>2, <2>3, <2>4, <2>5 DEF BoardsRemember, OneBoard
  <2>7. QED
    BY <1>2, <2>1, <2>3, <2>6 DEF AfterPress
<1>11. QED
  BY <1>3, <1>5, <1>6, <1>7, <1>8, <1>9, <1>10 DEF Next, vars, books, bounds

(* While one board runs, an attempt whose tab is pulled to a post takes no *)
(* clip there if an attempt before its press had come to that post and     *)
(* taken one, across crashes and restarts; unless both a crash and a       *)
(* failure of the disk have come.  Clips taken in place are not counted.   *)
THEOREM ArrivalsTakeOnce == Spec /\ OneBoard => OneArrivalPerPost
<1> DEFINE Once == \A s \in Seats : seat[s].pc = "new" /\ seat'[s].pc = "got" =>
             seat[s].now \notin seat[s].knew \/ (crashes > 0 /\ mishaps > 0)
<1>1. Init => Remembered
  <2> SUFFICES ASSUME Init
               PROVE  Remembered
    OBVIOUS
  <2>1. BoardsRemember
    BY DEF Init, BoardsRemember
  <2>2. \A s \in Seats : seat[s].pc = "idle"
    BY DEF Init, Idle
  <2>3. QED
    BY <2>1, <2>2 DEF Remembered, AfterPress
<1>2. Remembered => [Once]_vars
  BY DEF Remembered, Excused
<1>3. CASE OneBoard
  <2>1. VideoInv /\ Remembered /\ [Next]_vars => Remembered'
    BY <1>3, RememberedNext
  <2>2. QED
    BY VideoInvariant, <1>1, <1>2, <2>1, PTL DEF Spec, OneArrivalPerPost
<1>4. QED
  BY <1>3
=============================================================================
