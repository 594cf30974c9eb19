----------------------------- MODULE BoardFiles -----------------------------
(***************************************************************************)
(* The pictures of a card: the numbered version files, the current file    *)
(* shown on the board, and the mark in the board's JSON that says which    *)
(* version the current one is (class Board, the handlers for pictures and  *)
(* _live_apply_outcome in sfboard.py, results.py).                         *)
(*                                                                         *)
(* Three parties write them.  A worker saves its picture as a new version, *)
(* commits its result and applies it to the board.  The user's requests,   *)
(* each in a thread of its own, upload, pick, copy and delete.  The web    *)
(* page posts its whole copy of the board.  Some of this happens under     *)
(* BOARD_LOCK and some does not.  A worker that applies a result holds     *)
(* BOARD_LOCK and the lock that a user's change takes to leave its         *)
(* timestamp; a result is late when a user's change is not older than the  *)
(* beginning of its attempt.  A file is abstracted to whose picture it is. *)
(***************************************************************************)
EXTENDS Naturals, FiniteSets

CONSTANTS Assets,
          Attempts,
          AssetOf,      \* attempt -> asset
          Handlers,     \* request threads
          Nothing,      \* no picture, no name, nobody
          MaxVersions,  \* bound on the version numbers of an asset
          MaxRequests   \* bound on the user's requests

ASSUME BoardAssumption ==
  /\ AssetOf \in [Attempts -> Assets]
  /\ Nothing \notin Attempts \cup Handlers \cup {"empty"}
  /\ Attempts \cap Handlers = {}
  /\ MaxVersions \in Nat /\ MaxRequests \in Nat

VARIABLES files,     \* asset -> version name -> whose picture, or Nothing
          current,   \* asset -> [pic, by]: the file shown, and who put it
          marks,     \* asset -> the name marked as picked      (board JSON)
          stage,     \* how far an attempt has come
          path,      \* attempt -> the version name it saves to
          revoked,   \* attempts whose lease was revoked by a cancel
          overtaken, \* attempts not younger than a user's change
          request,   \* what each request thread is doing
          requests,  \* how many requests there have been
          holder,    \* the attempt that is being applied, or Nothing
          page       \* the marks in the web page's copy of the board

vars == <<files, current, marks, stage, path, revoked, overtaken, request,
          requests, holder, page>>
attemptVars == <<stage, path, revoked>>

Formats == {"png", "jpg"}
Names == (1 .. MaxVersions) \X Formats
Pictures == Attempts \cup Handlers
NoCurrent == [pic |-> Nothing, by |-> Nothing]
NoRequest == [op |-> Nothing, asset |-> Nothing, name |-> Nothing,
              step |-> "idle", seen |-> Nothing]
Ops == {"upload", "pick", "delete", "copy"}

Exists(x, name) == files[x][name] # Nothing

(* next_version_path: the first number without a png file.                 *)
FreeNumbers(x) == {n \in 1 .. MaxVersions : ~Exists(x, <<n, "png">>)}
NextName(x, format) ==
  <<CHOOSE n \in FreeNumbers(x) : \A m \in FreeNumbers(x) : n <= m, format>>

Store(x, name, pic) == files' = [files EXCEPT ![x][name] = pic]
Show(x, pic, who) == current' = [current EXCEPT ![x] = [pic |-> pic, by |-> who]]

(* A plausible mistake: the mark names the card.                           *)
MarkCard(x, name) == marks' = [marks EXCEPT ![x] = x]

Mark(x, name) == marks' = [marks EXCEPT ![x] = name]

-----------------------------------------------------------------------------

Init ==
  /\ files = [x \in Assets |-> [name \in Names |-> Nothing]]
  /\ current = [x \in Assets |-> NoCurrent]
  /\ marks = [x \in Assets |-> Nothing] /\ page = marks
  /\ stage = [a \in Attempts |-> "idle"]
  /\ path = [a \in Attempts |-> Nothing]
  /\ revoked = {} /\ overtaken = {}
  /\ request = [h \in Handlers |-> NoRequest] /\ requests = 0
  /\ holder = Nothing

(* A worker's attempt, from its lease to the board.                        *)

To(a, s) == stage' = [stage EXCEPT ![a] = s]

Begin(a) ==
  /\ stage[a] = "idle" /\ To(a, "working")
  /\ UNCHANGED <<files, current, marks, path, revoked, overtaken, request,
                 requests, holder, page>>

(* The saver takes a name by an empty file, then copies the picture in.    *)
Reserve(a) ==
  LET x == AssetOf[a]
      name == NextName(x, "png")
  IN  /\ stage[a] = "working" /\ holder = Nothing /\ FreeNumbers(x) # {}
      /\ Store(x, name, "empty") /\ path' = [path EXCEPT ![a] = name]
      /\ To(a, "reserved")
      /\ UNCHANGED <<current, marks, revoked, overtaken, request, requests,
                     holder, page>>

Save(a) ==
  /\ stage[a] = "reserved" /\ Store(AssetOf[a], path[a], a) /\ To(a, "saved")
  /\ UNCHANGED <<current, marks, path, revoked, overtaken, request, requests,
                 holder, page>>

(* A cancel revokes the lease as long as the result is not committed.      *)
Cancel(a) ==
  /\ stage[a] \in {"working", "reserved", "saved"} /\ a \notin revoked
  /\ revoked' = revoked \cup {a}
  /\ UNCHANGED <<files, current, marks, stage, path, overtaken, request,
                 requests, holder, page>>

(* A plausible mistake: a result counts whatever became of its lease.      *)
AnyLease(a) == IF a \in overtaken THEN "done" ELSE "accepted"

(* ResultCommit.commit: rejected, kept as a version only, or accepted.     *)
Verdict(a) ==
  IF a \in revoked \cup overtaken THEN "done" ELSE "accepted"

Commit(a) ==
  /\ stage[a] = "saved" /\ To(a, Verdict(a))
  /\ UNCHANGED <<files, current, marks, path, revoked, overtaken, request,
                 requests, holder, page>>

(* A plausible mistake: what the verdict said is not asked again.          *)
OnceAccepted(a) == TRUE

(* _live_apply_outcome looks again: the user may have been faster.         *)
StillWanted(a) == a \notin overtaken

(* set_current removes the current file before it copies: when the version *)
(* is gone by now the card is left without a picture.                      *)
ShowFile(x, name, who) ==
  IF Exists(x, name) THEN Show(x, files[x][name], who) ELSE Show(x, Nothing, Nothing)

ApplyFile(a) ==
  LET x == AssetOf[a]
  IN  /\ stage[a] = "accepted" /\ holder = Nothing
      /\ IF StillWanted(a) THEN ShowFile(x, path[a], a) ELSE UNCHANGED current
      /\ IF StillWanted(a) /\ Exists(x, path[a])
         THEN holder' = a /\ UNCHANGED stage
         ELSE To(a, "done") /\ UNCHANGED holder
      /\ UNCHANGED <<files, marks, path, revoked, overtaken, request,
                     requests, page>>

ApplyMark(a) ==
  /\ holder = a /\ holder' = Nothing
  /\ Mark(AssetOf[a], path[a]) /\ To(a, "done")
  /\ UNCHANGED <<files, current, path, revoked, overtaken, request, requests,
                 page>>

-----------------------------------------------------------------------------
(* The user's requests.                                                    *)

Asks(h, op, x, name, step) ==
  /\ request[h] = NoRequest /\ requests < MaxRequests
  /\ request' = [request EXCEPT ![h] = [op |-> op, asset |-> x, name |-> name,
                                        step |-> step, seen |-> Nothing]]
  /\ requests' = requests + 1
  /\ UNCHANGED <<files, current, marks, attemptVars, overtaken, holder, page>>

(* An upload names its format and a pick its version; a copy remembers the *)
(* card it copies from.                                                    *)
StartRequest(h, x) ==
  \/ \E f \in Formats : Asks(h, "upload", x, <<0, f>>, "note")
  \/ \E name \in Names :
       /\ files[x][name] \in Pictures
       /\ Asks(h, "pick", x, name, "note")
  \/ Asks(h, "delete", x, Nothing, "note")
  \/ \E y \in Assets \ {x} :
       /\ current[y].pic # Nothing
       /\ Asks(h, "copy", x, y, "reserve")

At(h, ops, step) == request[h].op \in ops /\ request[h].step = step
Goes(h, step) == request' = [request EXCEPT ![h].step = step]
GoesWith(h, step, name) ==
  request' = [request EXCEPT ![h].step = step, ![h].name = name]
Ends(h) == request' = [request EXCEPT ![h] = NoRequest]

(* _runtime_note_user_mutation: the attempts that have begun are late now. *)
Late(x) == overtaken \cup {a \in Attempts : AssetOf[a] = x /\ stage[a] # "idle"}

Note(h) ==
  LET next == [upload |-> "name", pick |-> "set", delete |-> "wipe", copy |-> "set"]
  IN  /\ At(h, Ops, "note") /\ holder = Nothing
      /\ overtaken' = Late(request[h].asset)
      /\ Goes(h, next[request[h].op])
      /\ UNCHANGED <<files, current, marks, attemptVars, requests, holder, page>>

(* An upload takes the next number without reserving it, in its own        *)
(* format.                                                                 *)
NameUpload(h) ==
  LET r == request[h]
  IN  /\ At(h, {"upload"}, "name") /\ FreeNumbers(r.asset) # {}
      /\ GoesWith(h, "write", NextName(r.asset, r.name[2]))
      /\ UNCHANGED <<files, current, marks, attemptVars, overtaken, requests,
                     holder, page>>

WriteUpload(h) ==
  /\ At(h, {"upload"}, "write")
  /\ Store(request[h].asset, request[h].name, h) /\ Goes(h, "set")
  /\ UNCHANGED <<current, marks, attemptVars, overtaken, requests, holder, page>>

(* A copy reserves a name and copies the other card's current file.        *)
CopyOther(h) ==
  LET r == request[h]
      pic == current[r.name].pic
      name == NextName(r.asset, "png")
  IN  /\ At(h, {"copy"}, "reserve") /\ holder = Nothing
      /\ FreeNumbers(r.asset) # {}
      /\ IF pic = Nothing
         THEN Ends(h) /\ UNCHANGED files
         ELSE GoesWith(h, "note", name) /\ Store(r.asset, name, pic)
      /\ UNCHANGED <<current, marks, attemptVars, overtaken, requests, holder, page>>

(* Of the handlers only a copy takes the lock to set the current file.     *)
SetCurrent(h) ==
  LET r == request[h]
      next == [pick |-> "mark", copy |-> "read"]
  IN  /\ At(h, Ops \ {"delete"}, "set") /\ (r.op = "copy" => holder = Nothing)
      /\ ShowFile(r.asset, r.name, h)
      /\ IF r.op # "upload" /\ Exists(r.asset, r.name)
         THEN Goes(h, next[r.op])
         ELSE Ends(h)
      /\ UNCHANGED <<files, marks, attemptVars, overtaken, requests, holder, page>>

(* A pick is marked under the lock; a copy's mark reads the board and      *)
(* writes it back in two steps.                                            *)
MarkPick(h) ==
  /\ At(h, {"pick"}, "mark") /\ holder = Nothing
  /\ Mark(request[h].asset, request[h].name) /\ Ends(h)
  /\ UNCHANGED <<files, current, attemptVars, overtaken, requests, holder, page>>

ReadMarks(h) ==
  /\ At(h, {"copy"}, "read")
  /\ request' = [request EXCEPT ![h].step = "mark", ![h].seen = marks]
  /\ UNCHANGED <<files, current, marks, attemptVars, overtaken, requests,
                 holder, page>>

WriteMarks(h) ==
  LET r == request[h]
  IN  /\ At(h, {"copy"}, "mark") /\ holder = Nothing
      /\ marks' = [r.seen EXCEPT ![r.asset] = r.name] /\ Ends(h)
      /\ UNCHANGED <<files, current, attemptVars, overtaken, requests, holder, page>>

(* Deleting a card's pictures deletes names that are only reserved, too.   *)
Wipe(h) ==
  LET x == request[h].asset
  IN  /\ At(h, {"delete"}, "wipe")
      /\ files' = [files EXCEPT ![x] = [name \in Names |-> Nothing]]
      /\ current' = [current EXCEPT ![x] = NoCurrent]
      /\ Goes(h, "unmark")
      /\ UNCHANGED <<marks, attemptVars, overtaken, requests, holder, page>>

Unmark(h) ==
  /\ At(h, {"delete"}, "unmark") /\ holder = Nothing
  /\ Mark(request[h].asset, Nothing) /\ Ends(h)
  /\ UNCHANGED <<files, current, attemptVars, overtaken, requests, holder, page>>

RequestStep(h) ==
  \/ Note(h) \/ NameUpload(h) \/ WriteUpload(h) \/ CopyOther(h) \/ SetCurrent(h)
  \/ MarkPick(h) \/ ReadMarks(h) \/ WriteMarks(h) \/ Wipe(h) \/ Unmark(h)

-----------------------------------------------------------------------------
(* The web page.                                                           *)

PageLoads ==
  /\ page # marks /\ page' = marks
  /\ UNCHANGED <<files, current, marks, attemptVars, overtaken, request,
                 requests, holder>>

(* _giu_dau_ban keeps the marks the board file has; where it has none the  *)
(* page's is written.                                                      *)
PageSaves ==
  /\ holder = Nothing
  /\ marks' = [x \in Assets |-> IF marks[x] # Nothing THEN marks[x] ELSE page[x]]
  /\ UNCHANGED <<files, current, attemptVars, overtaken, request, requests,
                 holder, page>>

AttemptStep(a) ==
  \/ Begin(a) \/ Reserve(a) \/ Save(a) \/ Cancel(a) \/ Commit(a)
  \/ ApplyFile(a) \/ ApplyMark(a)

Next ==
  \/ \E a \in Attempts : AttemptStep(a)
  \/ \E h \in Handlers : RequestStep(h) \/ \E x \in Assets : StartRequest(h, x)
  \/ PageLoads \/ PageSaves

Spec == Init /\ [][Next]_vars

-----------------------------------------------------------------------------
(* Properties.                                                             *)

Stages == {"idle", "working", "reserved", "saved", "accepted", "done"}
Steps == {"note", "name", "write", "set", "mark", "read", "reserve", "wipe", "unmark"}
Marks == [Assets -> Names \cup {Nothing}]

(* What the name of a request may be: a pick's version, the format of an   *)
(* upload and then its version, the card a copy reads and then its version.*)
RequestNames(r) ==
  CASE r.op = "upload" -> IF r.step \in {"note", "name"} THEN {0} \X Formats ELSE Names
    [] r.op = "pick"   -> Names
    [] r.op = "copy"   -> IF r.step = "reserve" THEN Assets ELSE Names
    [] OTHER           -> {Nothing}

IsRequest(r) ==
  /\ DOMAIN r = DOMAIN NoRequest
  /\ r.op \in Ops /\ r.asset \in Assets /\ r.step \in Steps
  /\ r.name \in RequestNames(r)
  /\ r.step = "mark" /\ r.op = "copy" => r.seen \in Marks

BoardTypeOK ==
  /\ files \in [Assets -> [Names -> Pictures \cup {"empty", Nothing}]]
  /\ current \in [Assets -> [pic : Pictures \cup {"empty", Nothing},
                             by : Pictures \cup {Nothing}]]
  /\ marks \in Marks /\ page \in Marks
  /\ stage \in [Attempts -> Stages]
  /\ path \in [Attempts -> Names \cup {Nothing}]
  /\ revoked \subseteq Attempts /\ overtaken \subseteq Attempts
  /\ DOMAIN request = Handlers
  /\ \A h \in Handlers : request[h] = NoRequest \/ IsRequest(request[h])
  /\ requests \in 0 .. MaxRequests
  /\ holder \in Attempts \cup {Nothing}

(* results.py: what the user put in is final, no running attempt may       *)
(* cover it.  The board never shows what an attempt put there although the *)
(* user changed the card after the attempt began, unless the user's change *)
(* is still on its way.                                                    *)
UserChoiceWins ==
  \A x \in Assets :
    current[x].by \in overtaken =>
      \E h \in Handlers : /\ request[h].asset = x
                          /\ request[h].step \in {"name", "write", "set", "wipe"}

(* README invariant 5: a result is committed by a valid lease only.  No    *)
(* attempt that was cancelled ever shows its picture.                      *)
RevokedStaysOff ==
  \A x \in Assets : current[x].by \notin revoked

(* next_version_path: two threads must not get the same name and write     *)
(* over each other.  The picture in a version file is there until the      *)
(* version is deleted.                                                     *)
VersionsKept ==
  [][\A x \in Assets : \A name \in Names :
       files[x][name] \in Pictures => files'[x][name] \in {files[x][name], Nothing}]_vars
=============================================================================
