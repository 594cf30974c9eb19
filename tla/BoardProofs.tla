---------------------------- MODULE BoardProofs ----------------------------
(***************************************************************************)
(* What the pictures of a card keep for any cards, attempts, request       *)
(* threads and bounds: types, no picture of a cancelled attempt on the     *)
(* board, and the user's changes above the results of older attempts       *)
(* (BoardFiles); then, for any turns, lists of cards and requests, that no *)
(* picture is lost unasked and that an undo shows what was there           *)
(* (SortingTray).                                                          *)
(***************************************************************************)
EXTENDS BoardFiles, SortingTray, FiniteSetTheorems, SequenceTheorems,
        WellFoundedInduction, TLAPS

(* An attempt that has reserved its version knows the name.                *)
PathKnown ==
  \A a \in Attempts : stage[a] \in {"reserved", "saved", "accepted"} => path[a] \in Names

(* Only an accepted attempt that nobody cancelled gets on the board, and   *)
(* only on its own card.                                                   *)
ShownWasAccepted ==
  /\ \A a \in Attempts : stage[a] = "accepted" => a \notin revoked
  /\ \A x \in Assets : current[x].by \in Attempts =>
       /\ AssetOf[current[x].by] = x
       /\ stage[current[x].by] \in {"accepted", "done"}
       /\ current[x].by \notin revoked

-----------------------------------------------------------------------------
(* The helpers.                                                            *)

(* next_version_path finds a number as long as one is free.                *)
LEMMA NextNameIsName ==
  ASSUME NEW x, NEW format \in Formats, FreeNumbers(x) # {}
  PROVE  NextName(x, format) \in Names
<1> DEFINE F == FreeNumbers(x)
           less == {p \in Nat \X Nat : p[1] < p[2]}
<1>1. F \subseteq 1 .. MaxVersions /\ F \subseteq Nat
  BY BoardAssumption DEF FreeNumbers
<1>2. IsWellFoundedOn(less, Nat)
  BY NatLessThanWellFounded DEF OpToRel
<1>3. PICK i \in F : \A k \in F : <<k, i>> \notin less
  <2> HIDE DEF less, F
  <2>1. F # {}
    BY DEF F
  <2>2. QED
    BY <1>1, <1>2, <2>1, WFMin
<1>4. \A k \in F : i <= k
  <2> TAKE k \in F
  <2>1. k \in Nat /\ i \in Nat
    BY <1>1
  <2>2. k < i => <<k, i>> \in less
    BY <2>1
  <2>3. ~(k < i)
    <3> HIDE DEF less
    <3>1. QED
      BY <1>3, <2>2
  <2>4. QED
    BY <2>1, <2>3
<1> DEFINE number == CHOOSE n \in F : \A m \in F : n <= m
<1>5. number \in F
  BY <1>4
<1>6. NextName(x, format) = <<number, format>>
  BY DEF NextName
<1>7. number \in 1 .. MaxVersions
  BY <1>1, <1>5
<1> HIDE DEF number
<1>8. QED
  BY <1>6, <1>7 DEF Names

LEMMA FileStored ==
  ASSUME BoardTypeOK, NEW x \in Assets, NEW name \in Names,
         NEW pic \in Pictures \cup {"empty", Nothing}, Store(x, name, pic)
  PROVE  files' \in [Assets -> [Names -> Pictures \cup {"empty", Nothing}]]
BY DEF Store, BoardTypeOK

(* What a card shows after set_current.                                    *)
LEMMA FileShown ==
  ASSUME BoardTypeOK, NEW x \in Assets, NEW name \in Names,
         NEW who \in Pictures \cup {Nothing}, ShowFile(x, name, who)
  PROVE  /\ current' \in [Assets -> [pic : Pictures \cup {"empty", Nothing},
                                     by : Pictures \cup {Nothing}]]
         /\ current'[x].by \in {who, Nothing}
         /\ \A y \in Assets \ {x} : current'[y] = current[y]
<1>1. files[x][name] \in Pictures \cup {"empty", Nothing}
  BY DEF BoardTypeOK
<1>2. \/ current' = [current EXCEPT ![x] = [pic |-> files[x][name], by |-> who]]
      \/ current' = [current EXCEPT ![x] = [pic |-> Nothing, by |-> Nothing]]
  BY DEF ShowFile, Show
<1>3. QED
  BY <1>1, <1>2 DEF BoardTypeOK

LEMMA MarkType ==
  ASSUME BoardTypeOK, NEW x \in Assets, NEW name \in Names \cup {Nothing}, Mark(x, name)
  PROVE  marks' \in Marks
BY DEF Mark, BoardTypeOK, Marks

LEMMA StageType ==
  ASSUME BoardTypeOK, NEW a \in Attempts, NEW s \in Stages, To(a, s)
  PROVE  /\ stage' \in [Attempts -> Stages] /\ stage'[a] = s
         /\ \A b \in Attempts \ {a} : stage'[b] = stage[b]
BY DEF To, BoardTypeOK

-----------------------------------------------------------------------------
(* The requests keep their shape.                                          *)

RequestsOK ==
  /\ DOMAIN request = Handlers
  /\ \A h \in Handlers : request[h] = NoRequest \/ IsRequest(request[h])

(* A thread on some step serves a request.                                 *)
LEMMA Asked ==
  ASSUME BoardTypeOK, NEW h \in Handlers, NEW ops, NEW step \in Steps, At(h, ops, step)
  PROVE  IsRequest(request[h]) /\ request[h].op \in ops /\ request[h].step = step
<1>1. request[h] # NoRequest
  BY DEF At, NoRequest, Steps
<1>2. QED
  BY <1>1 DEF BoardTypeOK, At

LEMMA RequestReplaced ==
  ASSUME BoardTypeOK, NEW h \in Handlers, NEW r, r = NoRequest \/ IsRequest(r),
         request' = [request EXCEPT ![h] = r]
  PROVE  /\ RequestsOK' /\ request'[h] = r
         /\ \A g \in Handlers \ {h} : request'[g] = request[g]
BY DEF BoardTypeOK, RequestsOK, IsRequest, NoRequest, RequestNames

-----------------------------------------------------------------------------
(* Types.                                                                  *)

BoardInv == BoardTypeOK /\ PathKnown

LEMMA BoardInit == Init => BoardInv
<1> SUFFICES ASSUME Init PROVE BoardInv
  OBVIOUS
<1>1. BoardTypeOK
  BY BoardAssumption
     DEF Init, BoardTypeOK, Marks, Stages, NoCurrent
<1>2. PathKnown
  BY DEF Init, PathKnown
<1>3. QED
  BY <1>1, <1>2 DEF BoardInv

(* A worker's steps.                                                       *)
LEMMA AttemptTypes ==
  ASSUME BoardInv, NEW a \in Attempts, AttemptStep(a)
  PROVE  BoardInv'
<1> USE DEF BoardInv
<1> DEFINE x == AssetOf[a]
<1>0. x \in Assets
  BY BoardAssumption
<1>1. CASE Begin(a)
  <2>1. To(a, "working") /\ "working" \in Stages
    BY <1>1 DEF Begin, Stages
  <2>2. QED
    BY <1>1, <2>1, StageType DEF Begin, BoardTypeOK, PathKnown
<1>2. CASE Reserve(a)
  <2> DEFINE name == NextName(x, "png")
  <2>1. name \in Names
    BY <1>2, NextNameIsName DEF Reserve, Formats
  <2>2. Store(x, name, "empty") /\ path' = [path EXCEPT ![a] = name] /\ To(a, "reserved")
    BY <1>2 DEF Reserve
  <2> HIDE DEF name
  <2>3. files' \in [Assets -> [Names -> Pictures \cup {"empty", Nothing}]]
    BY <1>0, <2>1, <2>2, FileStored
  <2>4. stage' \in [Attempts -> Stages] /\ \A b \in Attempts \ {a} : stage'[b] = stage[b]
    BY <2>2, StageType DEF Stages
  <2>5. path' \in [Attempts -> Names \cup {Nothing}]
    BY <2>1, <2>2 DEF BoardTypeOK
  <2>6. PathKnown'
    BY <2>1, <2>2, <2>4 DEF BoardTypeOK, PathKnown
  <2>7. QED
    BY <1>2, <2>3, <2>4, <2>5, <2>6 DEF Reserve, BoardTypeOK
<1>3. CASE Save(a)
  <2>1. path[a] \in Names /\ Store(x, path[a], a) /\ To(a, "saved") /\ stage[a] = "reserved"
    BY <1>3 DEF Save, PathKnown
  <2>2. files' \in [Assets -> [Names -> Pictures \cup {"empty", Nothing}]]
    BY <1>0, <2>1, FileStored DEF Pictures
  <2>3. stage' \in [Attempts -> Stages] /\ \A b \in Attempts \ {a} : stage'[b] = stage[b]
    BY <2>1, StageType DEF Stages
  <2>4. QED
    BY <1>3, <2>1, <2>2, <2>3 DEF Save, BoardTypeOK, PathKnown
<1>4. CASE Cancel(a)
  BY <1>4 DEF Cancel, BoardTypeOK, PathKnown
<1>5. CASE Commit(a)
  <2>1. To(a, Verdict(a)) /\ Verdict(a) \in Stages /\ stage[a] = "saved"
    BY <1>5 DEF Commit, Verdict, Stages
  <2>2. stage' \in [Attempts -> Stages] /\ \A b \in Attempts \ {a} : stage'[b] = stage[b]
    BY <2>1, StageType
  <2>3. QED
    BY <1>5, <2>1, <2>2 DEF Commit, BoardTypeOK, PathKnown
<1>6. CASE ApplyFile(a)
  <2>1. path[a] \in Names /\ stage[a] = "accepted"
    BY <1>6 DEF ApplyFile, PathKnown
  <2>2. ShowFile(x, path[a], a) \/ UNCHANGED current
    BY <1>6 DEF ApplyFile
  <2>3. current' \in [Assets -> [pic : Pictures \cup {"empty", Nothing},
                                by : Pictures \cup {Nothing}]]
    BY <1>0, <2>1, <2>2, FileShown DEF Pictures, BoardTypeOK
  <2>4. (holder' = a /\ UNCHANGED stage) \/ (To(a, "done") /\ UNCHANGED holder)
    BY <1>6 DEF ApplyFile
  <2>5. stage' \in [Attempts -> Stages] /\ \A b \in Attempts \ {a} : stage'[b] = stage[b]
    BY <2>4, StageType DEF Stages, BoardTypeOK
  <2>6. holder' \in Attempts \cup {Nothing}
    BY <2>4 DEF BoardTypeOK
  <2>7. QED
    BY <1>6, <2>1, <2>3, <2>5, <2>6 DEF ApplyFile, BoardTypeOK, PathKnown
<1>7. CASE ApplyMark(a)
  <2>1. Mark(x, path[a]) /\ To(a, "done") /\ path[a] \in Names \cup {Nothing}
    BY <1>7 DEF ApplyMark, BoardTypeOK
  <2>2. marks' \in Marks
    BY <1>0, <2>1, MarkType
  <2>3. stage' \in [Attempts -> Stages] /\ stage'[a] = "done"
        /\ \A b \in Attempts \ {a} : stage'[b] = stage[b]
    BY <2>1, StageType DEF Stages
  <2>4. QED
    BY <1>7, <2>2, <2>3 DEF ApplyMark, BoardTypeOK, PathKnown
<1>8. QED
  BY <1>1, <1>2, <1>3, <1>4, <1>5, <1>6, <1>7 DEF AttemptStep

(* A new request.                                                          *)
LEMMA AskTypes ==
  ASSUME BoardInv, NEW h \in Handlers, NEW op \in Ops, NEW x \in Assets, NEW name,
         NEW step \in Steps, Asks(h, op, x, name, step),
         name \in RequestNames([op |-> op, asset |-> x, name |-> name,
                               step |-> step, seen |-> Nothing]),
         step # "mark"
  PROVE  BoardInv'
<1> DEFINE r == [op |-> op, asset |-> x, name |-> name, step |-> step, seen |-> Nothing]
<1>1. DOMAIN r = DOMAIN NoRequest
  BY DEF NoRequest
<1>2. name \in RequestNames(r)
  OBVIOUS
<1>3. r.op = op /\ r.asset = x /\ r.step = step /\ r.name = name
  OBVIOUS
<1>4. request' = [request EXCEPT ![h] = r]
  BY DEF Asks
<1> HIDE DEF r
<1>5. IsRequest(r)
  BY <1>1, <1>2, <1>3 DEF IsRequest
<1>6. RequestsOK'
  BY <1>4, <1>5, RequestReplaced DEF BoardInv
<1>7. requests' \in 0 .. MaxRequests
  BY BoardAssumption DEF Asks, BoardInv, BoardTypeOK
<1>8. QED
  BY <1>6, <1>7 DEF Asks, attemptVars, RequestsOK, BoardInv, BoardTypeOK, PathKnown

LEMMA StartTypes ==
  ASSUME BoardInv, NEW h \in Handlers, NEW x \in Assets, StartRequest(h, x)
  PROVE  BoardInv'
<1>1. ASSUME NEW f \in Formats, Asks(h, "upload", x, <<0, f>>, "note") PROVE BoardInv'
  BY <1>1, AskTypes DEF RequestNames, Ops, Steps
<1>2. ASSUME NEW name \in Names, Asks(h, "pick", x, name, "note") PROVE BoardInv'
  BY <1>2, AskTypes DEF RequestNames, Ops, Steps
<1>3. ASSUME Asks(h, "delete", x, Nothing, "note") PROVE BoardInv'
  BY <1>3, AskTypes DEF RequestNames, Ops, Steps
<1>4. ASSUME NEW y \in Assets, Asks(h, "copy", x, y, "reserve") PROVE BoardInv'
  BY <1>4, AskTypes DEF RequestNames, Ops, Steps
<1>5. QED
  BY <1>1, <1>2, <1>3, <1>4 DEF StartRequest

(* A request that goes on or ends.                                         *)
LEMMA GoesType ==
  ASSUME BoardTypeOK, NEW h \in Handlers, NEW step \in Steps, IsRequest(request[h]),
         Goes(h, step), request[h].name \in RequestNames([request[h] EXCEPT !.step = step]),
         step = "mark" => request[h].op # "copy"
  PROVE  RequestsOK'
<1> DEFINE r == [request[h] EXCEPT !.step = step]
<1>1. request' = [request EXCEPT ![h] = r]
  BY DEF Goes
<1>2. IsRequest(r)
  BY DEF IsRequest, NoRequest
<1> HIDE DEF r
<1>3. QED
  BY <1>1, <1>2, RequestReplaced

LEMMA GoesWithType ==
  ASSUME BoardTypeOK, NEW h \in Handlers, NEW step \in Steps, NEW name \in Names,
         IsRequest(request[h]), GoesWith(h, step, name), step # "mark",
         name \in RequestNames([request[h] EXCEPT !.step = step, !.name = name])
  PROVE  RequestsOK'
<1> DEFINE r == [request[h] EXCEPT !.step = step, !.name = name]
<1>1. request' = [request EXCEPT ![h] = r]
  BY DEF GoesWith, BoardTypeOK
<1>2. IsRequest(r)
  BY DEF IsRequest, NoRequest
<1> HIDE DEF r
<1>3. QED
  BY <1>1, <1>2, RequestReplaced

LEMMA EndsType ==
  ASSUME BoardTypeOK, NEW h \in Handlers, Ends(h)
  PROVE  RequestsOK'
BY RequestReplaced DEF Ends

(* The steps of a request.                                                 *)
LEMMA RequestTypes ==
  ASSUME BoardInv, NEW h \in Handlers, RequestStep(h)
  PROVE  BoardInv'
<1> USE DEF BoardInv
<1> DEFINE r == request[h]
<1>1. CASE Note(h)
  <2>1. IsRequest(r) /\ r.op \in Ops /\ r.step = "note"
    BY <1>1, Asked DEF Note, Steps
  <2>2. PICK step \in {"name", "set", "wipe"} :
          /\ Goes(h, step)
          /\ step = "name" => r.op = "upload"
          /\ step = "set" => r.op \in {"pick", "copy"}
          /\ step = "wipe" => r.op = "delete"
    BY <1>1, <2>1 DEF Note, Ops
  <2>3. r.name \in RequestNames([r EXCEPT !.step = step])
    BY <2>1, <2>2 DEF IsRequest, RequestNames, NoRequest, Ops
  <2>4. RequestsOK'
    BY <2>1, <2>2, <2>3, GoesType DEF Steps
  <2>5. overtaken' \subseteq Attempts
    BY <1>1 DEF Note, Late, BoardTypeOK
  <2>6. QED
    BY <1>1, <2>4, <2>5 DEF Note, attemptVars, RequestsOK, BoardTypeOK, PathKnown
<1>2. CASE NameUpload(h)
  <2>1. IsRequest(r) /\ r.op = "upload" /\ r.step = "name"
    BY <1>2, Asked DEF NameUpload, Steps
  <2>2. r.name \in {0} \X Formats
    BY <2>1 DEF IsRequest, RequestNames
  <2> DEFINE name == NextName(r.asset, r.name[2])
  <2>3. name \in Names
    BY <1>2, <2>2, NextNameIsName DEF NameUpload
  <2>4. GoesWith(h, "write", name)
    BY <1>2 DEF NameUpload
  <2> HIDE DEF name
  <2>5. RequestsOK'
    BY <2>1, <2>3, <2>4, GoesWithType DEF IsRequest, RequestNames, NoRequest, Steps
  <2>6. QED
    BY <1>2, <2>5 DEF NameUpload, attemptVars, RequestsOK, BoardTypeOK, PathKnown
<1>3. CASE WriteUpload(h)
  <2>1. IsRequest(r) /\ r.op = "upload" /\ r.step = "write"
    BY <1>3, Asked DEF WriteUpload, Steps
  <2>2. r.name \in Names /\ r.asset \in Assets
    BY <2>1 DEF IsRequest, RequestNames
  <2>3. files' \in [Assets -> [Names -> Pictures \cup {"empty", Nothing}]]
    BY <1>3, <2>2, FileStored DEF WriteUpload, Pictures
  <2>4. r.name \in RequestNames([r EXCEPT !.step = "set"])
    BY <2>1, <2>2 DEF IsRequest, NoRequest, RequestNames
  <2>5. RequestsOK'
    BY <1>3, <2>1, <2>4, GoesType DEF WriteUpload, Steps
  <2>6. QED
    BY <1>3, <2>3, <2>5 DEF WriteUpload, attemptVars, RequestsOK, BoardTypeOK, PathKnown
<1>4. CASE CopyOther(h)
  <2>1. IsRequest(r) /\ r.op = "copy" /\ r.step = "reserve"
    BY <1>4, Asked DEF CopyOther, Steps
  <2>2. r.name \in Assets /\ r.asset \in Assets
    BY <2>1 DEF IsRequest, RequestNames
  <2>3. CASE current[r.name].pic = Nothing
    <3>1. RequestsOK' /\ UNCHANGED files
      BY <1>4, <2>3, EndsType DEF CopyOther
    <3>2. QED
      BY <1>4, <3>1 DEF CopyOther, attemptVars, RequestsOK, BoardTypeOK, PathKnown
  <2>4. CASE current[r.name].pic # Nothing
    <3> DEFINE name == NextName(r.asset, "png")
               pic == current[r.name].pic
    <3>1. name \in Names
      BY <1>4, NextNameIsName DEF CopyOther, Formats
    <3>2. pic \in Pictures \cup {"empty", Nothing}
      BY <2>2 DEF BoardTypeOK
    <3>3. GoesWith(h, "note", name) /\ Store(r.asset, name, pic)
      BY <1>4, <2>4 DEF CopyOther
    <3> HIDE DEF name, pic
    <3>4. files' \in [Assets -> [Names -> Pictures \cup {"empty", Nothing}]]
      BY <2>2, <3>1, <3>2, <3>3, FileStored
    <3>5. RequestsOK'
      BY <2>1, <3>1, <3>3, GoesWithType DEF IsRequest, RequestNames, NoRequest, Steps
    <3>6. QED
      BY <1>4, <3>4, <3>5 DEF CopyOther, attemptVars, RequestsOK, BoardTypeOK, PathKnown
  <2>5. QED
    BY <2>3, <2>4
<1>5. CASE SetCurrent(h)
  <2>1. IsRequest(r) /\ r.op \in Ops \ {"delete"} /\ r.step = "set"
    BY <1>5, Asked DEF SetCurrent, Steps
  <2>2. r.name \in Names /\ r.asset \in Assets
    BY <2>1 DEF IsRequest, RequestNames, Ops
  <2>3. current' \in [Assets -> [pic : Pictures \cup {"empty", Nothing},
                                by : Pictures \cup {Nothing}]]
    BY <1>5, <2>2, FileShown DEF SetCurrent, Pictures
  <2>4. \/ Ends(h)
        \/ Goes(h, "mark") /\ r.op = "pick"
        \/ Goes(h, "read") /\ r.op = "copy"
    BY <1>5, <2>1 DEF SetCurrent, Ops
  <2>5. r.op \in {"pick", "copy"} =>
          \A step \in {"mark", "read"} : r.name \in RequestNames([r EXCEPT !.step = step])
    BY <2>1, <2>2 DEF IsRequest, NoRequest, RequestNames
  <2>6. RequestsOK'
    BY <2>1, <2>4, <2>5, EndsType, GoesType DEF Steps
  <2>7. QED
    BY <1>5, <2>3, <2>6 DEF SetCurrent, attemptVars, RequestsOK, BoardTypeOK, PathKnown
<1>6. CASE MarkPick(h)
  <2>1. IsRequest(r) /\ r.op = "pick"
    BY <1>6, Asked DEF MarkPick, Steps
  <2>2. r.asset \in Assets /\ r.name \in Names
    BY <2>1 DEF IsRequest, RequestNames
  <2>3. marks' \in Marks
    BY <1>6, <2>2, MarkType DEF MarkPick
  <2>4. RequestsOK'
    BY <1>6, EndsType DEF MarkPick
  <2>5. QED
    BY <1>6, <2>3, <2>4 DEF MarkPick, attemptVars, RequestsOK, BoardTypeOK, PathKnown
<1>7. CASE ReadMarks(h)
  <2>1. IsRequest(r) /\ r.op = "copy" /\ r.step = "read"
    BY <1>7, Asked DEF ReadMarks, Steps
  <2> DEFINE s == [r EXCEPT !.step = "mark", !.seen = marks]
  <2>2. request' = [request EXCEPT ![h] = s]
    BY <1>7 DEF ReadMarks, BoardTypeOK
  <2>3. IsRequest(s)
    BY <2>1 DEF IsRequest, RequestNames, NoRequest, Steps, BoardTypeOK
  <2> HIDE DEF s
  <2>4. RequestsOK'
    BY <2>2, <2>3, RequestReplaced
  <2>5. QED
    BY <1>7, <2>4 DEF ReadMarks, attemptVars, RequestsOK, BoardTypeOK, PathKnown
<1>8. CASE WriteMarks(h)
  <2>1. IsRequest(r) /\ r.op = "copy" /\ r.step = "mark"
    BY <1>8, Asked DEF WriteMarks, Steps
  <2>2. r.asset \in Assets /\ r.name \in Names /\ r.seen \in Marks
    BY <2>1 DEF IsRequest, RequestNames
  <2>3. marks' \in Marks
    BY <1>8, <2>2 DEF WriteMarks, Marks
  <2>4. RequestsOK'
    BY <1>8, EndsType DEF WriteMarks
  <2>5. QED
    BY <1>8, <2>3, <2>4 DEF WriteMarks, attemptVars, RequestsOK, BoardTypeOK, PathKnown
<1>9. CASE Wipe(h)
  <2>1. IsRequest(r) /\ r.op = "delete" /\ r.step = "wipe"
    BY <1>9, Asked DEF Wipe, Steps
  <2>2. r.name \in RequestNames([r EXCEPT !.step = "unmark"])
    BY <2>1 DEF IsRequest, NoRequest, RequestNames
  <2>3. RequestsOK'
    BY <1>9, <2>1, <2>2, GoesType DEF Wipe, Steps
  <2>4. files' \in [Assets -> [Names -> Pictures \cup {"empty", Nothing}]]
    BY <1>9 DEF Wipe, BoardTypeOK
  <2>5. current' \in [Assets -> [pic : Pictures \cup {"empty", Nothing},
                                by : Pictures \cup {Nothing}]]
    BY <1>9 DEF Wipe, BoardTypeOK, NoCurrent
  <2>6. QED
    BY <1>9, <2>3, <2>4, <2>5 DEF Wipe, attemptVars, RequestsOK, BoardTypeOK, PathKnown
<1>10. CASE Unmark(h)
  <2>1. IsRequest(r)
    BY <1>10, Asked DEF Unmark, Steps
  <2>2. r.asset \in Assets
    BY <2>1 DEF IsRequest
  <2>3. marks' \in Marks
    BY <1>10, <2>2, MarkType DEF Unmark
  <2>4. RequestsOK'
    BY <1>10, EndsType DEF Unmark
  <2>5. QED
    BY <1>10, <2>3, <2>4 DEF Unmark, attemptVars, RequestsOK, BoardTypeOK, PathKnown
<1>11. QED
  BY <1>1, <1>2, <1>3, <1>4, <1>5, <1>6, <1>7, <1>8, <1>9, <1>10 DEF RequestStep

LEMMA BoardStep ==
  ASSUME BoardInv, [Next]_vars
  PROVE  BoardInv'
<1>1. CASE PageLoads
  BY <1>1 DEF PageLoads, attemptVars, BoardInv, BoardTypeOK, PathKnown
<1>2. CASE PageSaves
  <2>1. marks' \in Marks
    BY <1>2 DEF PageSaves, Marks, BoardInv, BoardTypeOK
  <2>2. QED
    BY <1>2, <2>1 DEF PageSaves, attemptVars, BoardInv, BoardTypeOK, PathKnown
<1>3. CASE UNCHANGED vars
  BY <1>3 DEF vars, BoardInv, BoardTypeOK, PathKnown
<1>4. QED
  BY <1>1, <1>2, <1>3, AttemptTypes, RequestTypes, StartTypes DEF Next

(* The files, the board and the requests keep their types; a request on    *)
(* the step that copies, sets or marks a version has the name of one.      *)
THEOREM BoardTypes == Spec => []BoardTypeOK
<1>1. Init => BoardInv
  BY BoardInit
<1>2. BoardInv /\ [Next]_vars => BoardInv'
  BY BoardStep
<1>3. BoardInv => BoardTypeOK
  BY DEF BoardInv
<1>4. QED
  BY <1>1, <1>2, <1>3, PTL DEF Spec

-----------------------------------------------------------------------------
(* What a step of a request does to the board.                             *)

(* A request shows its own picture or takes the current one away, and      *)
(* changes the card it is for only.                                        *)
LEMMA RequestShows ==
  ASSUME BoardInv, NEW h \in Handlers, RequestStep(h)
  PROVE  /\ UNCHANGED <<stage, path, revoked>>
         /\ \/ UNCHANGED current
            \/ /\ request[h].asset \in Assets /\ request[h].step \in {"set", "wipe"}
               /\ current'[request[h].asset].by \in {h, Nothing}
               /\ \A y \in Assets \ {request[h].asset} : current'[y] = current[y]
<1> USE DEF BoardInv
<1>1. CASE SetCurrent(h)
  <2>1. IsRequest(request[h]) /\ request[h].op \in Ops \ {"delete"} /\ request[h].step = "set"
    BY <1>1, Asked DEF SetCurrent, Steps
  <2>2. request[h].name \in Names /\ request[h].asset \in Assets
    BY <2>1 DEF IsRequest, RequestNames, Ops
  <2>3. /\ current'[request[h].asset].by \in {h, Nothing}
        /\ \A y \in Assets \ {request[h].asset} : current'[y] = current[y]
    BY <1>1, <2>2, FileShown DEF SetCurrent, Pictures
  <2>4. QED
    BY <1>1, <2>1, <2>2, <2>3 DEF SetCurrent, attemptVars
<1>2. CASE Wipe(h)
  <2>1. IsRequest(request[h]) /\ request[h].step = "wipe"
    BY <1>2, Asked DEF Wipe, Steps
  <2>2. QED
    BY <1>2, <2>1 DEF Wipe, attemptVars, IsRequest, NoCurrent, BoardTypeOK
<1>3. CASE ~(SetCurrent(h) \/ Wipe(h))
  BY <1>3 DEF RequestStep, Note, NameUpload, WriteUpload, CopyOther, MarkPick,
              ReadMarks, WriteMarks, Unmark, attemptVars
<1>4. QED
  BY <1>1, <1>2, <1>3

(* An attempt shows its picture when it is accepted and no user's change   *)
(* has come after it began.                                                *)
LEMMA AttemptShows ==
  ASSUME BoardInv, NEW a \in Attempts, AttemptStep(a)
  PROVE  /\ UNCHANGED <<overtaken, request>>
         /\ \/ UNCHANGED current
            \/ /\ stage[a] = "accepted" /\ a \notin overtaken /\ UNCHANGED revoked
               /\ current'[AssetOf[a]].by \in {a, Nothing}
               /\ \A y \in Assets \ {AssetOf[a]} : current'[y] = current[y]
<1>1. CASE ApplyFile(a)
  <2>1. CASE a \in overtaken
    BY <1>1, <2>1 DEF ApplyFile, StillWanted
  <2>2. CASE a \notin overtaken
    <3>1. stage[a] = "accepted" /\ ShowFile(AssetOf[a], path[a], a)
      BY <1>1, <2>2 DEF ApplyFile, StillWanted
    <3>2. path[a] \in Names /\ AssetOf[a] \in Assets
      BY <3>1, BoardAssumption DEF BoardInv, PathKnown
    <3>3. /\ current'[AssetOf[a]].by \in {a, Nothing}
          /\ \A y \in Assets \ {AssetOf[a]} : current'[y] = current[y]
      BY <3>1, <3>2, FileShown DEF BoardInv, Pictures
    <3>4. QED
      BY <1>1, <2>2, <3>1, <3>3 DEF ApplyFile
  <2>3. QED
    BY <2>1, <2>2
<1>2. CASE ~ApplyFile(a)
  BY <1>2 DEF AttemptStep, Begin, Reserve, Save, Cancel, Commit, ApplyMark
<1>3. QED
  BY <1>1, <1>2

(* How far the attempts come.                                              *)
LEMMA AttemptGoesOn ==
  ASSUME BoardInv, ShownWasAccepted, NEW a \in Attempts, AttemptStep(a)
  PROVE  /\ \A b \in Attempts \ {a} : stage'[b] = stage[b]
         /\ revoked' \subseteq revoked \cup {a}
         /\ stage'[a] = "accepted" => a \notin revoked'
         /\ stage[a] \in {"accepted", "done"} =>
              stage'[a] \in {"accepted", "done"} /\ UNCHANGED revoked
<1> USE DEF BoardInv
<1>1. CASE Begin(a)
  BY <1>1, StageType DEF Begin, Stages
<1>2. CASE Reserve(a)
  BY <1>2, StageType DEF Reserve, Stages
<1>3. CASE Save(a)
  BY <1>3, StageType DEF Save, Stages
<1>4. CASE Cancel(a)
  BY <1>4 DEF Cancel
<1>5. CASE Commit(a)
  BY <1>5, StageType DEF Commit, Verdict, Stages
<1>6. CASE ApplyMark(a)
  BY <1>6, StageType DEF ApplyMark, Stages
<1>7. CASE ApplyFile(a)
  <2>1. stage[a] = "accepted" /\ a \notin revoked /\ UNCHANGED revoked
    BY <1>7 DEF ApplyFile, ShownWasAccepted
  <2>2. To(a, "done") \/ UNCHANGED stage
    BY <1>7 DEF ApplyFile
  <2>3. QED
    BY <2>1, <2>2, StageType DEF Stages
<1>8. QED
  BY <1>1, <1>2, <1>3, <1>4, <1>5, <1>6, <1>7 DEF AttemptStep

LEMMA ShownStep ==
  ASSUME BoardInv, ShownWasAccepted, [Next]_vars
  PROVE  ShownWasAccepted'
<1>1. ASSUME NEW a \in Attempts, AttemptStep(a) PROVE ShownWasAccepted'
  <2>1. \A b \in Attempts : stage'[b] = "accepted" => b \notin revoked'
    BY <1>1, AttemptGoesOn DEF ShownWasAccepted
  <2>2. ASSUME NEW x \in Assets, current'[x].by \in Attempts, current'[x] = current[x]
        PROVE  /\ AssetOf[current'[x].by] = x
               /\ stage'[current'[x].by] \in {"accepted", "done"}
               /\ current'[x].by \notin revoked'
    <3> DEFINE b == current[x].by
    <3>1. AssetOf[b] = x /\ stage[b] \in {"accepted", "done"} /\ b \notin revoked /\ b \in Attempts
      BY <2>2 DEF ShownWasAccepted
    <3> HIDE DEF b
    <3>2. stage'[b] \in {"accepted", "done"} /\ b \notin revoked'
      BY <1>1, <3>1, AttemptGoesOn
    <3>3. QED
      BY <2>2, <3>1, <3>2 DEF b
  <2>3. ASSUME NEW x \in Assets, current'[x].by \in Attempts, current'[x] # current[x]
        PROVE  /\ AssetOf[current'[x].by] = x
               /\ stage'[current'[x].by] \in {"accepted", "done"}
               /\ current'[x].by \notin revoked'
    <3>1. x = AssetOf[a] /\ current'[x].by = a /\ stage[a] = "accepted"
      BY <1>1, <2>3, AttemptShows, BoardAssumption
    <3>2. a \notin revoked /\ UNCHANGED revoked /\ stage'[a] \in {"accepted", "done"}
      BY <1>1, <3>1, AttemptGoesOn DEF ShownWasAccepted
    <3>3. QED
      BY <3>1, <3>2
  <2>4. QED
    BY <2>1, <2>2, <2>3 DEF ShownWasAccepted
<1>2. ASSUME NEW h \in Handlers, RequestStep(h) PROVE ShownWasAccepted'
  <2>1. UNCHANGED <<stage, path, revoked>>
    BY <1>2, RequestShows
  <2>2. \A x \in Assets : current'[x].by \in Attempts => current'[x] = current[x]
    BY <1>2, RequestShows, BoardAssumption
  <2>3. QED
    BY <2>1, <2>2 DEF ShownWasAccepted
<1>3. ASSUME NEW h \in Handlers, NEW x \in Assets, StartRequest(h, x) PROVE ShownWasAccepted'
  BY <1>3 DEF StartRequest, Asks, attemptVars, ShownWasAccepted
<1>4. CASE PageLoads \/ PageSaves
  BY <1>4 DEF PageLoads, PageSaves, attemptVars, ShownWasAccepted
<1>5. CASE UNCHANGED vars
  BY <1>5 DEF vars, ShownWasAccepted
<1>6. QED
  BY <1>1, <1>2, <1>3, <1>4, <1>5 DEF Next

LEMMA ShownInit == Init => ShownWasAccepted
BY BoardAssumption DEF Init, NoCurrent, ShownWasAccepted

(* A result that a cancel revoked never gets on the board, however the     *)
(* cancel, the commit and the application follow each other.               *)
THEOREM CancelledStaysOff == Spec => []RevokedStaysOff
<1>1. Init => BoardInv /\ ShownWasAccepted
  BY BoardInit, ShownInit
<1>2. BoardInv /\ ShownWasAccepted /\ [Next]_vars => (BoardInv /\ ShownWasAccepted)'
  BY BoardStep, ShownStep
<1>3. BoardInv /\ ShownWasAccepted => RevokedStaysOff
  BY DEF BoardInv, BoardTypeOK, ShownWasAccepted, RevokedStaysOff
<1>4. QED
  BY <1>1, <1>2, <1>3, PTL DEF Spec

-----------------------------------------------------------------------------
(* The user's choice.                                                      *)

(* A user's change of the card x is on its way.                            *)
OnItsWay(h, x) ==
  request[h].asset = x /\ request[h].step \in {"name", "write", "set", "wipe"}

(* A change stays on its way until the card shows what the user put there  *)
(* or nothing.                                                             *)
LEMMA StaysOnItsWay ==
  ASSUME BoardInv, NEW h \in Handlers, NEW x \in Assets, NEW g \in Handlers,
         RequestStep(g), OnItsWay(h, x)
  PROVE  OnItsWay(h, x)' \/ current'[x].by \in {h, Nothing}
<1>1. CASE g = h
  <2>1. CASE NameUpload(h) \/ WriteUpload(h)
    <3>1. IsRequest(request[h])
      BY <2>1, Asked DEF NameUpload, WriteUpload, Steps, BoardInv
    <3>2. DOMAIN request[h] = DOMAIN NoRequest /\ DOMAIN request = Handlers
      BY <3>1 DEF IsRequest, BoardInv, BoardTypeOK
    <3>3. Goes(h, "set") \/ \E name : GoesWith(h, "write", name)
      BY <2>1 DEF NameUpload, WriteUpload
    <3>4. request'[h].asset = request[h].asset /\ request'[h].step \in {"set", "write"}
      BY <3>2, <3>3 DEF Goes, GoesWith, NoRequest
    <3>5. QED
      BY <3>4 DEF OnItsWay
  <2>2. CASE SetCurrent(h)
    <3>1. IsRequest(request[h]) /\ request[h].op \in Ops \ {"delete"} /\ request[h].step = "set"
      BY <2>2, Asked DEF SetCurrent, Steps, BoardInv
    <3>2. request[h].name \in Names /\ request[h].asset = x
      BY <3>1 DEF IsRequest, RequestNames, Ops, OnItsWay
    <3>3. QED
      BY <2>2, <3>2, FileShown DEF SetCurrent, Pictures, BoardInv
  <2>3. CASE Wipe(h)
    BY <2>3 DEF Wipe, OnItsWay, NoCurrent, BoardInv, BoardTypeOK
  <2>4. CASE ~(NameUpload(h) \/ WriteUpload(h) \/ SetCurrent(h) \/ Wipe(h))
    <3>1. request[h].step \in {"note", "reserve", "mark", "read", "unmark"}
      BY <1>1, <2>4 DEF RequestStep, Note, CopyOther, MarkPick, ReadMarks, WriteMarks,
                        Unmark, At
    <3>2. QED
      BY <3>1 DEF OnItsWay
  <2>5. QED
    BY <2>1, <2>2, <2>3, <2>4
<1>2. CASE g # h
  <2>0. DOMAIN request = Handlers
    BY DEF BoardInv, BoardTypeOK
  <2>1. request'[h] = request[h]
    BY <1>2, <2>0 DEF RequestStep, Note, NameUpload, WriteUpload, CopyOther, SetCurrent,
                MarkPick, ReadMarks, WriteMarks, Wipe, Unmark, Goes, GoesWith, Ends
  <2>2. QED
    BY <2>1 DEF OnItsWay
<1>3. QED
  BY <1>1, <1>2

(* A step that makes attempts late is the note of a change that is on its  *)
(* way from then on.                                                       *)
LEMMA NoteIsOnItsWay ==
  ASSUME BoardInv, NEW h \in Handlers, RequestStep(h), overtaken' # overtaken
  PROVE  /\ request'[h].asset = request[h].asset
         /\ request'[h].step \in {"name", "set", "wipe"}
         /\ overtaken' = Late(request[h].asset)
         /\ UNCHANGED current
<1>1. Note(h)
  BY DEF RequestStep, Note, NameUpload, WriteUpload, CopyOther, SetCurrent, MarkPick,
         ReadMarks, WriteMarks, Wipe, Unmark
<1>2. IsRequest(request[h]) /\ request[h].op \in Ops
  BY <1>1, Asked DEF Note, Steps, BoardInv
<1>3. PICK step \in {"name", "set", "wipe"} : Goes(h, step)
  BY <1>1, <1>2 DEF Note, Ops
<1>4. request'[h].step = step /\ request'[h].asset = request[h].asset
  BY <1>2, <1>3 DEF Goes, IsRequest, NoRequest, BoardInv, BoardTypeOK
<1>5. QED
  BY <1>1, <1>3, <1>4 DEF Note

LEMMA ChoiceStep ==
  ASSUME BoardInv, ShownWasAccepted, UserChoiceWins, [Next]_vars
  PROVE  UserChoiceWins'
<1> USE DEF BoardInv
<1>0. \A x \in Assets : current[x].by \in overtaken => \E h \in Handlers : OnItsWay(h, x)
  BY DEF UserChoiceWins, OnItsWay
<1> SUFFICES ASSUME NEW x \in Assets, current'[x].by \in overtaken'
             PROVE  \E h \in Handlers : OnItsWay(h, x)'
  BY DEF UserChoiceWins, OnItsWay
<1>1. ASSUME NEW a \in Attempts, AttemptStep(a) PROVE \E h \in Handlers : OnItsWay(h, x)'
  <2>1. UNCHANGED <<overtaken, request>>
    BY <1>1, AttemptShows
  <2>2. current'[x].by = current[x].by
    <3>1. current'[x].by \in overtaken /\ current'[x].by # Nothing
      BY <2>1, BoardAssumption DEF BoardTypeOK
    <3>2. QED
      BY <1>1, <3>1, AttemptShows
  <2>3. QED
    BY <1>0, <2>1, <2>2 DEF OnItsWay
<1>2. ASSUME NEW g \in Handlers, RequestStep(g) PROVE \E h \in Handlers : OnItsWay(h, x)'
  <2>1. CASE overtaken' = overtaken
    <3>1. current'[x].by \notin Handlers \cup {Nothing}
      BY <2>1, BoardAssumption DEF BoardTypeOK
    <3>2. current'[x] = current[x]
      BY <1>2, <3>1, RequestShows
    <3>3. PICK h \in Handlers : OnItsWay(h, x)
      BY <1>0, <2>1, <3>2
    <3>4. QED
      BY <1>2, <3>1, <3>3, StaysOnItsWay
  <2>2. CASE overtaken' # overtaken
    <3>1. /\ request'[g].asset = request[g].asset
          /\ request'[g].step \in {"name", "set", "wipe"}
          /\ overtaken' = Late(request[g].asset) /\ UNCHANGED current
      BY <1>2, <2>2, NoteIsOnItsWay
    <3>2. CASE current[x].by \in overtaken
      <4>1. current'[x].by \notin Handlers \cup {Nothing}
        BY <3>1, <3>2, BoardAssumption DEF BoardTypeOK
      <4>2. QED
        BY <1>0, <1>2, <3>2, <4>1, StaysOnItsWay
    <3>3. CASE current[x].by \notin overtaken
      <4>1. current[x].by \in Attempts /\ AssetOf[current[x].by] = request[g].asset
        BY <3>1, <3>3 DEF Late
      <4>2. request[g].asset = x
        BY <4>1 DEF ShownWasAccepted
      <4>3. QED
        BY <3>1, <4>2 DEF OnItsWay
    <3>4. QED
      BY <3>2, <3>3
  <2>3. QED
    BY <2>1, <2>2
<1>3. ASSUME NEW g \in Handlers, NEW y \in Assets, StartRequest(g, y)
      PROVE  \E h \in Handlers : OnItsWay(h, x)'
  <2>1. request[g] = NoRequest /\ UNCHANGED <<current, overtaken>>
    BY <1>3 DEF StartRequest, Asks
  <2>2. \A h \in Handlers \ {g} : request'[h] = request[h]
    BY <1>3 DEF StartRequest, Asks, BoardTypeOK
  <2>3. PICK h \in Handlers : OnItsWay(h, x)
    BY <1>0, <2>1
  <2>4. h # g
    BY <2>1, <2>3 DEF OnItsWay, NoRequest
  <2>5. QED
    BY <2>2, <2>3, <2>4 DEF OnItsWay
<1>4. CASE PageLoads \/ PageSaves
  BY <1>0, <1>4 DEF PageLoads, PageSaves, OnItsWay
<1>5. CASE UNCHANGED vars
  BY <1>0, <1>5 DEF vars, OnItsWay
<1>6. QED
  BY <1>1, <1>2, <1>3, <1>4, <1>5 DEF Next

(* What the user put on a card is never covered by an attempt that began   *)
(* before, whatever the interleaving of workers, requests and the page.    *)
THEOREM TheUserWins == Spec => []UserChoiceWins
<1> DEFINE I == BoardInv /\ ShownWasAccepted /\ UserChoiceWins
<1>1. Init => I
  <2>1. Init => UserChoiceWins
    BY DEF Init, UserChoiceWins
  <2>2. QED
    BY <2>1, BoardInit, ShownInit
<1>2. I /\ [Next]_vars => I'
  BY BoardStep, ShownStep, ChoiceStep
<1>3. QED
  BY <1>1, <1>2, PTL DEF Spec

-----------------------------------------------------------------------------
(* The sorting tray: its inductive invariant.                              *)
(*                                                                         *)
(* A turn may be trimmed because every picture it marks as attached is     *)
(* Secured; two writers of one list lose nothing because both copies have  *)
(* the pictures of the turn; what a card shows is Secured as well, so that *)
(* removing its version or showing another picture loses none.             *)

(* A picture that is marked as attached can be found on a card's files, or *)
(* was removed.                                                            *)
Secured(pic) == pic \in removed \/ InVersion(pic)
Slots == {p \in [pic : Nat \ {0}, card : Cards \cup {NoCard}] :
            p.card # NoCard => Secured(p.pic)}
SamePictures(one, other) ==
  Len(one) = Len(other) /\ \A n \in DOMAIN one : one[n].pic = other[n].pic

(* What can be undone: a copy is only made of a picture that was removed   *)
(* from the versions while it was shown.                                   *)
Numbers == 0 .. MaxNumbers
Entries ==
  [card : Cards, new : Versions, old : Numbers, own : BOOLEAN, turn : Nat, n : Nat,
   sealed : BOOLEAN, pair : Nat, was : Nat, held : Nat]
Undoable ==
  {e \in Entries : /\ e.own => e.held \in removed
                   /\ e.old = None => e.was = None}

(* The shapes of a request and of an attempt.                              *)
Attaching(S, E) == [at : {"attach", "list"}, copy : Seq(S), entry : E]
Showing(E) == [at : {"show"}, entries : Seq(E) \ {<<>>}, push : Seq(E)]
Restoring(E) == [at : {"restore"}, entry : E, again : BOOLEAN]
Unlisting(E) == [at : {"unlist"}, entry : E, again : BOOLEAN]
After(E) == {Idle} \cup Unlisting(E)
PickLists == Seq(Cards \X Numbers) \ {<<>>}
Reading(E) ==
  [at : {"mark"}, marks : PickLists, push : Seq(E), next : After(E), seen : {<<>>}]
Writing(E) ==
  [at : {"write"}, marks : PickLists, push : Seq(E), next : After(E),
   seen : [Cards -> Numbers] \X SUBSET Cards]
Calls(S, E) ==
  {Idle} \cup [at : {"other"}] \cup Attaching(S, E) \cup Showing(E) \cup Restoring(E)
    \cup Unlisting(E) \cup Reading(E) \cup Writing(E)

Tries(S) ==
  [at : {"render", "save", "close", "apply"}, lot : Seq(Cards) \ {<<>>}, turn : Nat,
   copy : Seq(S), saved : Seq(Versions)]

TrayTypes ==
  /\ turns \in 0 .. MaxTurns /\ pictures \in Nat /\ calls \in Nat
  /\ tray \in [Turns -> Seq(Slots)]
  /\ versions \in [Cards -> [Versions -> Nat]]
  /\ shown \in [Cards -> Nat] /\ picked \in [Cards -> Numbers] /\ approved \subseteq Cards
  /\ history \in Seq(Undoable)
  /\ call \in Calls(Slots, Undoable)
  /\ attempt \in {Idle} \cup Tries(Slots)

(* The two copies of a turn's list have the pictures of the turn.          *)
Blank == \A t \in Turns : t > turns => tray[t] = <<>>
CallAgrees ==
  call.at \in {"attach", "list"} =>
    /\ call.entry.turn \in 1 .. turns
    /\ \/ tray[call.entry.turn] = <<>>
       \/ SamePictures(tray[call.entry.turn], call.copy)
AttemptAgrees ==
  /\ attempt.at = "render" => turns < MaxTurns /\ attempt.saved = <<>>
  /\ attempt.at \in {"save", "close"} =>
       attempt.turn \in 1 .. turns /\ SamePictures(tray[attempt.turn], attempt.copy)
  /\ attempt.at = "save" => /\ Len(attempt.copy) = Len(attempt.lot)
                            /\ Len(attempt.saved) <= Len(attempt.lot)
  /\ attempt.at = "apply" => Len(attempt.saved) = Len(attempt.lot)
CopiesAgree == Blank /\ CallAgrees /\ AttemptAgrees

ShownIsSecured == \A c \in Cards : shown[c] # None =>
                    shown[c] \in removed \/ shown[c] \in Range(versions[c])
PicturesHeld == \A pic \in 1 .. pictures : Secured(pic) \/ InTray(pic)

TrayInv == TrayTypes /\ CopiesAgree /\ ShownIsSecured /\ PicturesHeld

-----------------------------------------------------------------------------
(* The versions.                                                           *)

Table == [Cards -> [Versions -> Nat]]

(* Whatever was in one table is in the other.                              *)
Within(f, g) ==
  \A c \in Cards : \A v \in Versions : f[c][v] # None => g[c][v] = f[c][v]

LEMMA LeastIsIn ==
  ASSUME NEW S, S \subseteq Nat, S # {}
  PROVE  Min(S) \in S
<1> DEFINE less == {p \in Nat \X Nat : p[1] < p[2]}
<1>1. IsWellFoundedOn(less, Nat)
  BY NatLessThanWellFounded DEF OpToRel
<1>2. PICK x \in S : \A y \in S : <<y, x>> \notin less
  <2> HIDE DEF less
  <2>1. QED
    BY <1>1, WFMin
<1>3. \A y \in S : x <= y
  <2> TAKE y \in S
  <2>1. y \in Nat /\ x \in Nat /\ (y < x => <<y, x>> \in less)
    OBVIOUS
  <2>2. ~(y < x)
    <3> HIDE DEF less
    <3>1. QED
      BY <1>2, <2>1
  <2>3. QED
    BY <2>1, <2>2
<1>4. QED
  BY <1>3 DEF Min

LEMMA NumbersOf == /\ Versions \subseteq Nat \ {0} /\ Versions \subseteq Numbers
                   /\ None \in Numbers /\ Numbers = Versions \cup {None}
BY TrayAssumption DEF Versions, Numbers, None

LEMMA NextIsFree ==
  ASSUME NEW f, NEW c, Free(f, c) # {}
  PROVE  NextVersion(f, c) \in Versions /\ f[c][NextVersion(f, c)] = None
<1>1. Free(f, c) \subseteq Nat
  BY NumbersOf DEF Free
<1>2. NextVersion(f, c) \in Free(f, c)
  BY <1>1, LeastIsIn DEF NextVersion
<1>3. QED
  BY <1>2 DEF Free

(* A new version overwrites none.                                          *)
LEMMA PutAdds ==
  ASSUME NEW f \in Table, NEW c \in Cards, NEW pic \in Nat, Free(f, c) # {}
  PROVE  /\ Put(f, c, pic) \in Table /\ Within(f, Put(f, c, pic))
         /\ Put(f, c, pic)[c][NextVersion(f, c)] = pic
         /\ \A v \in Versions \ {NextVersion(f, c)} : Put(f, c, pic)[c][v] = f[c][v]
         /\ \A d \in Cards \ {c} : Put(f, c, pic)[d] = f[d]
<1>1. NextVersion(f, c) \in Versions /\ f[c][NextVersion(f, c)] = None
  BY NextIsFree
<1> DEFINE new == NextVersion(f, c)
<1> HIDE DEF new
<1>2. [f EXCEPT ![c][new] = pic] \in Table
  BY <1>1 DEF Table
<1>3. QED
  BY <1>1, <1>2 DEF Put, Table, Within, new

LEMMA WithinTwice ==
  ASSUME NEW f \in Table, NEW g \in Table, NEW h \in Table, Within(f, g), Within(g, h)
  PROVE  Within(f, h)
BY DEF Within

(* A copy leaves a number for the version it was made for.                 *)
LEMMA OneMoreFree ==
  ASSUME NEW f \in Table, NEW c \in Cards, NEW pic \in Nat, Cardinality(Free(f, c)) >= 2
  PROVE  Free(f, c) # {} /\ Free(Put(f, c, pic), c) # {}
<1>1. Cardinality({}) = 0 /\ IsFiniteSet({})
  BY FS_EmptySet
<1>2. Free(f, c) # {}
  BY <1>1
<1>3. PICK v \in Free(f, c) : v # NextVersion(f, c)
  <2> SUFFICES ASSUME Free(f, c) \subseteq {NextVersion(f, c)} PROVE FALSE
    OBVIOUS
  <2>1. Free(f, c) = {NextVersion(f, c)}
    BY <1>2
  <2>2. Cardinality(Free(f, c)) = 1
    BY <2>1, FS_Singleton
  <2>3. QED
    BY <2>2
<1>4. Put(f, c, pic)[c][v] = f[c][v] /\ v \in Versions /\ f[c][v] = None
  BY <1>2, <1>3, PutAdds DEF Free
<1>5. QED
  BY <1>2, <1>4 DEF Free

LEMMA SomeFree ==
  ASSUME NEW f, NEW c, Cardinality(Free(f, c)) >= 1
  PROVE  Free(f, c) # {}
BY FS_EmptySet

(* _ban_dang_dung: what is kept of the shown picture, and what it takes.   *)
LEMMA InUseKeeps ==
  ASSUME NEW f \in Table, NEW c \in Cards, f[c] = versions[c], Room(c),
         shown[c] \in Nat, picked[c] \in Numbers
  PROVE  /\ InUse(f, c).versions \in Table /\ Within(f, InUse(f, c).versions)
         /\ InUse(f, c).old \in Numbers /\ InUse(f, c).own \in BOOLEAN
         /\ InUse(f, c).old = None => shown[c] = None
         /\ InUse(f, c).own => /\ shown[c] # None /\ shown[c] \notin Range(f[c])
                               /\ InUse(f, c).versions[c][InUse(f, c).old] = shown[c]
         /\ \A d \in Cards \ {c} : InUse(f, c).versions[d] = f[d]
         /\ Free(InUse(f, c).versions, c) # {}
<1> DEFINE same == {v \in Versions : f[c][v] = shown[c]}
<1>1. f[c] \in [Versions -> Nat] /\ Free(f, c) = Free(versions, c) /\ Within(f, f)
  BY DEF Table, Free, Within
<1>2. CASE shown[c] = None
  <2>1. InUse(f, c) = [old |-> None, own |-> FALSE, versions |-> f]
    BY <1>2 DEF InUse
  <2>2. Free(f, c) # {}
    BY <1>1, <1>2, SomeFree DEF Room
  <2>3. QED
    BY <1>1, <1>2, <2>1, <2>2, NumbersOf
<1>3. CASE shown[c] # None /\ IsFile(f, c, picked[c])
  <2>1. InUse(f, c) = [old |-> picked[c], own |-> FALSE, versions |-> f]
    BY <1>3 DEF InUse
  <2>2. Free(f, c) # {} /\ picked[c] # None
    BY <1>1, <1>3, SomeFree DEF Room, IsFile
  <2>3. QED
    BY <1>1, <1>3, <2>1, <2>2
<1>4. CASE shown[c] # None /\ ~IsFile(f, c, picked[c]) /\ same # {}
  <2>1. InUse(f, c) = [old |-> Min(same), own |-> FALSE, versions |-> f]
    BY <1>4 DEF InUse
  <2>2. Min(same) \in same /\ Min(same) \in Versions
    BY <1>4, NumbersOf, LeastIsIn
  <2>3. shown[c] \in Range(f[c])
    BY <1>1, <1>4 DEF Range
  <2>4. Free(f, c) # {}
    BY <1>1, <1>4, <2>3, SomeFree DEF Room, IsFile
  <2>5. Min(same) \in Numbers /\ Min(same) # None
    BY <2>2, NumbersOf DEF None
  <2>6. QED
    BY <1>1, <1>4, <2>1, <2>4, <2>5
<1>5. CASE shown[c] # None /\ ~IsFile(f, c, picked[c]) /\ same = {}
  <2> DEFINE new == NextVersion(f, c)
  <2>1. InUse(f, c) = [old |-> new, own |-> TRUE, versions |-> Put(f, c, shown[c])]
    BY <1>5 DEF InUse
  <2>2. shown[c] \notin Range(f[c])
    BY <1>1, <1>5 DEF Range
  <2>3. Free(f, c) # {} /\ Free(Put(f, c, shown[c]), c) # {}
    BY <1>1, <1>5, <2>2, OneMoreFree DEF Room, IsFile
  <2>4. new \in Versions /\ new \in Numbers /\ new # None
    BY <2>3, NextIsFree, NumbersOf DEF None
  <2> HIDE DEF new
  <2>5. /\ Put(f, c, shown[c]) \in Table /\ Within(f, Put(f, c, shown[c]))
        /\ Put(f, c, shown[c])[c][new] = shown[c]
        /\ \A d \in Cards \ {c} : Put(f, c, shown[c])[d] = f[d]
    BY <2>3, PutAdds DEF new
  <2>6. QED
    BY <1>5, <2>1, <2>2, <2>3, <2>4, <2>5
<1>6. QED
  BY <1>2, <1>3, <1>4, <1>5

-----------------------------------------------------------------------------
(* What a step leaves as it is.                                            *)

(* A version goes only with the user's leave.                              *)
Keeps ==
  /\ removed \subseteq removed'
  /\ \A c \in Cards : \A v \in Versions :
       versions[c][v] # None => versions'[c][v] = versions[c][v] \/ versions[c][v] \in removed'

LEMMA SecuredStays ==
  ASSUME versions \in Table, versions' \in Table, Keeps, NEW pic, pic # None, Secured(pic)
  PROVE  Secured(pic)'
<1>1. CASE pic \in removed
  BY <1>1 DEF Keeps, Secured
<1>2. ASSUME NEW c \in Cards, pic \in Range(versions[c])
      PROVE  Secured(pic)'
  <2>1. PICK v \in Versions : versions[c][v] = pic
    BY <1>2 DEF Range, Table
  <2>2. versions'[c][v] = pic \/ pic \in removed'
    BY <2>1 DEF Keeps
  <2>3. versions'[c][v] \in Range(versions'[c])
    BY DEF Range, Table
  <2>4. QED
    BY <2>2, <2>3 DEF Secured, InVersion
<1>3. QED
  BY <1>1, <1>2 DEF Secured, InVersion

LEMMA SlotsStay ==
  ASSUME versions \in Table, versions' \in Table, Keeps
  PROVE  Slots \subseteq Slots' /\ Undoable \subseteq Undoable'
<1>1. \A p \in Slots : p.pic # None
  BY DEF Slots, None
<1>2. Slots \subseteq Slots'
  BY <1>1, SecuredStays DEF Slots
<1>3. Undoable \subseteq Undoable'
  BY DEF Undoable, Keeps
<1>4. QED
  BY <1>2, <1>3

LEMMA SeqsGrow ==
  ASSUME NEW S, NEW T, S \subseteq T
  PROVE  Seq(S) \subseteq Seq(T)
OBVIOUS

(* What was well formed stays so when there is more to be formed of.       *)
LEMMA CallsGrow ==
  ASSUME NEW S, NEW T, NEW D, NEW E, S \subseteq T, D \subseteq E
  PROVE  /\ Attaching(S, D) \subseteq Attaching(T, E) /\ Showing(D) \subseteq Showing(E)
         /\ Restoring(D) \subseteq Restoring(E) /\ After(D) \subseteq After(E)
         /\ Reading(D) \subseteq Reading(E) /\ Writing(D) \subseteq Writing(E)
         /\ Calls(S, D) \subseteq Calls(T, E) /\ Tries(S) \subseteq Tries(T)
<1>1. Seq(S) \subseteq Seq(T) /\ Seq(D) \subseteq Seq(E)
  BY SeqsGrow
<1>2. /\ Attaching(S, D) \subseteq Attaching(T, E) /\ Showing(D) \subseteq Showing(E)
      /\ Restoring(D) \subseteq Restoring(E) /\ Unlisting(D) \subseteq Unlisting(E)
  BY <1>1 DEF Attaching, Showing, Restoring, Unlisting
<1>3. After(D) \subseteq After(E)
  BY <1>2 DEF After
<1>4. Reading(D) \subseteq Reading(E)
  BY <1>1, <1>3 DEF Reading
<1>5. Writing(D) \subseteq Writing(E)
  BY <1>1, <1>3 DEF Writing
<1>6. Calls(S, D) \subseteq Calls(T, E)
  BY <1>2, <1>3, <1>4, <1>5 DEF Calls
<1>7. Tries(S) \subseteq Tries(T)
  BY <1>1 DEF Tries
<1>8. QED
  BY <1>2, <1>3, <1>4, <1>5, <1>6, <1>7

(* All that was typed is so after a step that takes no picture away.       *)
TypedStill ==
  /\ tray \in [Turns -> Seq(Slots')] /\ history \in Seq(Undoable')
  /\ call \in Calls(Slots', Undoable') /\ attempt \in {Idle} \cup Tries(Slots')
LEMMA TypesStay ==
  ASSUME TrayTypes, versions' \in Table, Keeps
  PROVE  /\ TypedStill /\ Slots \subseteq Slots' /\ Undoable \subseteq Undoable'
         /\ \A pic : pic # None /\ Secured(pic) => Secured(pic)'
<1>1. versions \in Table
  BY DEF TrayTypes, Table
<1>2. Slots \subseteq Slots' /\ Undoable \subseteq Undoable'
  BY <1>1, SlotsStay
<1>3. Seq(Slots) \subseteq Seq(Slots') /\ Seq(Undoable) \subseteq Seq(Undoable')
  BY <1>2, SeqsGrow
<1>4. Calls(Slots, Undoable) \subseteq Calls(Slots', Undoable')
  BY <1>2, CallsGrow
<1>5. Tries(Slots) \subseteq Tries(Slots')
  BY <1>2, CallsGrow
<1>6. TypedStill
  BY <1>3, <1>4, <1>5 DEF TrayTypes, TypedStill
<1>7. QED
  BY <1>1, <1>2, <1>6, SecuredStays

(* The shape of a request tells where it is.                               *)
LEMMA CallAt ==
  ASSUME NEW S, NEW E, NEW r \in Calls(S, E)
  PROVE  /\ r.at \in {"attach", "list"} => r \in Attaching(S, E)
         /\ r.at = "show" => r \in Showing(E)
         /\ r.at = "restore" => r \in Restoring(E)
         /\ r.at = "unlist" => r \in Unlisting(E)
         /\ r.at = "mark" => r \in Reading(E)
         /\ r.at = "write" => r \in Writing(E)
         /\ r.at = "idle" => r = Idle
BY DEF Calls, Attaching, Showing, Restoring, Unlisting, Reading, Writing, Idle

LEMMA TryAt ==
  ASSUME NEW S, NEW r \in {Idle} \cup Tries(S)
  PROVE  r.at # "idle" => r \in Tries(S)
BY DEF Idle

LEMMA GreaterOfTwo ==
  ASSUME NEW x \in Int, NEW y \in Int
  PROVE  Max({x, y}) = IF x >= y THEN x ELSE y
BY DEF Max

(* HOAN_TAC holds what was pushed and some of what was there.              *)
LEMMA PushTyped ==
  ASSUME NEW E, history \in Seq(E), NEW entries \in Seq(E), Push(entries)
  PROVE  history' \in Seq(E)
<1> DEFINE all == history \o entries
<1>1. all \in Seq(E) /\ Len(all) \in Nat
  OBVIOUS
<1> HIDE DEF all
<1>2. History \in Nat \ {0}
  BY TrayAssumption
<1>3. Max({1, Len(all) - History + 1}) \in 1 .. Len(all) + 1
  BY <1>1, <1>2, GreaterOfTwo
<1>4. \A i \in 1 .. Len(all) + 1 : SubSeq(all, i, Len(all)) \in Seq(E)
  BY <1>1, SubSeqProperties
<1>5. history' = SubSeq(all, Max({1, Len(all) - History + 1}), Len(all))
  BY DEF Push, all
<1>6. QED
  BY <1>3, <1>4, <1>5

-----------------------------------------------------------------------------
(* The helpers of the requests.                                            *)

LEMMA VersionsTyped == ASSUME TrayTypes PROVE versions \in Table
BY DEF TrayTypes, Table

LEMMA OnlyAdds ==
  ASSUME Within(versions, versions'), removed' = removed
  PROVE  Keeps
BY DEF Within, Keeps

LEMMA NothingGoes ==
  ASSUME UNCHANGED <<versions, removed>>
  PROVE  Keeps
BY DEF Keeps

(* An own copy is only made of a picture that has been removed.            *)
LEMMA EntryIsUndoable ==
  ASSUME TrayTypes, ShownIsSecured, NEW f \in Table, NEW c \in Cards, f[c] = versions[c],
         Room(c), NEW new \in Versions
  PROVE  /\ Entry(c, InUse(f, c), new) \in Undoable
         /\ Entry(c, InUse(f, c), new).card = c
<1>1. shown[c] \in Nat /\ picked[c] \in Numbers
  BY DEF TrayTypes
<1> DEFINE k == InUse(f, c)
           held == IF k.old = None THEN None ELSE k.versions[c][k.old]
<1>2. /\ k.versions \in Table /\ k.old \in Numbers /\ k.own \in BOOLEAN
      /\ k.old = None => shown[c] = None
      /\ k.own => /\ shown[c] # None /\ shown[c] \notin Range(f[c])
                  /\ k.versions[c][k.old] = shown[c]
  BY <1>1, InUseKeeps
<1>3. Entry(c, k, new) =
        [card |-> c, new |-> new, old |-> k.old, own |-> k.own, turn |-> 0, n |-> 0,
         sealed |-> FALSE, pair |-> 0, was |-> shown[c], held |-> held]
  BY DEF Entry
<1> HIDE DEF k
<1>4. held \in Nat
  BY <1>2, NumbersOf DEF Table, None
<1>5. k.own => held \in removed
  BY <1>2 DEF ShownIsSecured
<1> HIDE DEF held
<1>6. Entry(c, k, new) \in Entries
  BY <1>1, <1>2, <1>3, <1>4 DEF Entries
<1>7. /\ Entry(c, k, new).own => Entry(c, k, new).held \in removed
      /\ Entry(c, k, new).old = None => Entry(c, k, new).was = None
      /\ Entry(c, k, new).card = c
  BY <1>2, <1>3, <1>5
<1>8. QED
  BY <1>6, <1>7 DEF Undoable, k

LEMMA EntryMarked ==
  ASSUME NEW e \in Undoable, NEW t \in Nat, NEW n \in Nat, NEW s \in BOOLEAN, NEW p \in Nat
  PROVE  /\ [e EXCEPT !.turn = t, !.n = n] \in Undoable
         /\ [e EXCEPT !.turn = t, !.n = n].turn = t
         /\ [e EXCEPT !.sealed = s] \in Undoable
         /\ [e EXCEPT !.pair = p] \in Undoable
BY DEF Undoable, Entries

LEMMA SequencesOf ==
  ASSUME NEW S, NEW x \in S, NEW y \in S
  PROVE  /\ <<x>> \in Seq(S) /\ <<x, y>> \in Seq(S) /\ <<>> \in Seq(S)
         /\ <<x>> # <<>> /\ <<x, y>> # <<>>
OBVIOUS

LEMMA AttachTyped ==
  ASSUME TrayTypes, ShownIsSecured, NEW c \in Cards, NEW t \in Turns, NEW n \in Nat,
         BeginAttach(c, t, n)
  PROVE  /\ versions' \in Table /\ Keeps
         /\ call' \in Attaching(Slots', Undoable')
         /\ call'.entry.turn = t /\ SamePictures(tray[t], call'.copy)
<1> DEFINE k == InUse(versions, c)
           new == NextVersion(k.versions, c)
           copy == [tray[t] EXCEPT ![n].card = c]
<1>1. /\ tray[t] \in Seq(Slots) /\ n \in DOMAIN tray[t] /\ Room(c) /\ t \in Nat
      /\ versions \in Table /\ shown[c] \in Nat /\ picked[c] \in Numbers
  BY TrayAssumption, VersionsTyped DEF BeginAttach, TrayTypes, Turns
<1>2. PICK pic \in Nat \ {0} : pic = tray[t][n].pic
  BY <1>1 DEF Slots
<1>3. /\ k.versions \in Table /\ Within(versions, k.versions) /\ Free(k.versions, c) # {}
  BY <1>1, InUseKeeps
<1>4. new \in Versions
  BY <1>3, NextIsFree
<1>5. /\ Put(k.versions, c, pic) \in Table /\ Within(k.versions, Put(k.versions, c, pic))
      /\ Put(k.versions, c, pic)[c][new] = pic
  BY <1>2, <1>3, PutAdds
<1>6. versions' = Put(k.versions, c, pic) /\ removed' = removed
  BY <1>2 DEF BeginAttach
<1>7. versions' \in Table /\ Keeps
  BY <1>1, <1>3, <1>5, <1>6, WithinTwice, OnlyAdds
<1>8. Entry(c, k, new) \in Undoable
  BY <1>1, <1>4, EntryIsUndoable
<1>9. Secured(pic)'
  <2>1. pic \in Range(versions'[c])
    BY <1>4, <1>5, <1>6 DEF Range, Table
  <2>2. QED
    BY <2>1 DEF Secured, InVersion
<1>10. call' = [at |-> "attach", copy |-> copy,
                entry |-> [Entry(c, k, new) EXCEPT !.turn = t, !.n = n]]
  BY DEF BeginAttach
<1>11. Slots \subseteq Slots' /\ Undoable \subseteq Undoable'
  BY <1>7, TypesStay
<1> HIDE DEF k, new
<1>12. copy \in Seq(Slots') /\ SamePictures(tray[t], copy)
  <2>1. [tray[t][n] EXCEPT !.card = c] \in Slots'
    <3>1. tray[t][n] \in [pic : Nat \ {0}, card : Cards \cup {NoCard}]
      BY <1>1 DEF Slots
    <3>2. [tray[t][n] EXCEPT !.card = c] = [pic |-> pic, card |-> c]
      BY <1>2, <3>1
    <3>3. QED
      BY <1>9, <3>2 DEF Slots
  <2>2. tray[t] \in Seq(Slots')
    BY <1>1, <1>11, SeqsGrow
  <2>3. copy \in Seq(Slots') /\ Len(copy) = Len(tray[t])
    BY <1>1, <2>1, <2>2
  <2>4. \A m \in DOMAIN tray[t] : tray[t][m].pic = copy[m].pic
    BY <1>1, <1>2 DEF Slots
  <2>5. QED
    BY <2>3, <2>4 DEF SamePictures
<1> HIDE DEF copy
<1>13. /\ [Entry(c, k, new) EXCEPT !.turn = t, !.n = n] \in Undoable'
       /\ [Entry(c, k, new) EXCEPT !.turn = t, !.n = n].turn = t
  <2>1. n \in Nat
    OBVIOUS
  <2>2. QED
    BY <1>1, <1>8, <1>11, <2>1, EntryMarked
<1>14. QED
  BY <1>7, <1>10, <1>12, <1>13 DEF Attaching

LEMMA CopyTyped ==
  ASSUME TrayTypes, ShownIsSecured, NEW from \in Cards, NEW c \in Cards, BeginCopy(from, c)
  PROVE  /\ versions' \in Table /\ Keeps
         /\ history' \in Seq(Undoable')
         /\ call' \in {Idle} \cup Showing(Undoable')
<1> DEFINE k == InUse(versions, c)
           new == NextVersion(k.versions, c)
           e == [Entry(c, k, new) EXCEPT !.sealed = Closed(c)]
<1>1. /\ Room(c) /\ versions \in Table /\ shown[c] \in Nat /\ picked[c] \in Numbers
      /\ shown[from] \in Nat /\ history \in Seq(Undoable)
  BY VersionsTyped DEF BeginCopy, TrayTypes
<1>2. /\ k.versions \in Table /\ Within(versions, k.versions) /\ Free(k.versions, c) # {}
  BY <1>1, InUseKeeps
<1>3. new \in Versions
  BY <1>2, NextIsFree
<1>4. versions' = Put(k.versions, c, shown[from]) /\ removed' = removed
  BY DEF BeginCopy
<1>5. versions' \in Table /\ Keeps
  <2>1. /\ Put(k.versions, c, shown[from]) \in Table
        /\ Within(k.versions, Put(k.versions, c, shown[from]))
    BY <1>1, <1>2, PutAdds
  <2>2. QED
    BY <1>1, <1>2, <1>4, <2>1, WithinTwice, OnlyAdds
<1>6. Entry(c, k, new) \in Undoable
  BY <1>1, <1>3, EntryIsUndoable
<1>7. e \in Undoable
  <2>1. Closed(c) \in BOOLEAN
    BY DEF Closed
  <2>2. QED
    BY <1>6, <2>1, EntryMarked
<1>8. /\ Push(<<e>>)
      /\ call' = IF Closed(c) THEN Idle
                 ELSE [at |-> "show", entries |-> <<e>>, push |-> <<>>]
  BY DEF BeginCopy
<1> HIDE DEF e
<1>9. Undoable \subseteq Undoable'
  BY <1>5, TypesStay
<1>10. <<e>> \in Seq(Undoable') /\ <<>> \in Seq(Undoable') /\ history \in Seq(Undoable')
  BY <1>1, <1>7, <1>9, SeqsGrow
<1>11. history' \in Seq(Undoable')
  BY <1>8, <1>10, PushTyped
<1>12. QED
  BY <1>5, <1>8, <1>10, <1>11 DEF Showing

LEMMA SwapTyped ==
  ASSUME TrayTypes, ShownIsSecured, NEW a \in Cards, NEW b \in Cards, BeginSwap(a, b)
  PROVE  /\ versions' \in Table /\ Keeps
         /\ call' \in Showing(Undoable')
<1> DEFINE kA == InUse(versions, a)
           kB == InUse(kA.versions, b)
           newA == NextVersion(kB.versions, a)
           newB == NextVersion(kB.versions, b)
           first == [Entry(a, kA, newA) EXCEPT !.pair = calls + 1]
           second == [Entry(b, kB, newB) EXCEPT !.pair = calls + 1]
           half == Put(kB.versions, a, shown[b])
<1>1. /\ Room(a) /\ Room(b) /\ a # b /\ versions \in Table /\ calls \in Nat
      /\ shown[a] \in Nat /\ picked[a] \in Numbers
      /\ shown[b] \in Nat /\ picked[b] \in Numbers
  BY VersionsTyped DEF BeginSwap, TrayTypes
<1>2. /\ kA.versions \in Table /\ Within(versions, kA.versions)
      /\ Free(kA.versions, a) # {} /\ kA.versions[b] = versions[b]
  BY <1>1, InUseKeeps
<1>3. /\ kB.versions \in Table /\ Within(kA.versions, kB.versions)
      /\ Free(kB.versions, b) # {} /\ kB.versions[a] = kA.versions[a]
  BY <1>1, <1>2, InUseKeeps
<1>4. Free(kB.versions, a) # {}
  BY <1>2, <1>3 DEF Free
<1>5. newA \in Versions /\ newB \in Versions
  BY <1>3, <1>4, NextIsFree
<1>6. Entry(a, kA, newA) \in Undoable /\ Entry(b, kB, newB) \in Undoable
  BY <1>1, <1>2, <1>5, EntryIsUndoable
<1>7. first \in Undoable /\ second \in Undoable
  <2>1. calls + 1 \in Nat
    BY <1>1
  <2>2. QED
    BY <1>6, <2>1, EntryMarked
<1>8. /\ versions' = Put(half, b, shown[a]) /\ removed' = removed
      /\ call' = [at |-> "show", entries |-> <<first, second>>, push |-> <<first, second>>]
  BY DEF BeginSwap
<1>9. half \in Table /\ Within(kB.versions, half) /\ half[b] = kB.versions[b]
  BY <1>1, <1>3, <1>4, PutAdds
<1>10. Free(half, b) # {}
  BY <1>3, <1>9 DEF Free
<1> HIDE DEF kA, kB, half, first, second
<1>11. versions' \in Table /\ Within(half, versions')
  BY <1>1, <1>8, <1>9, <1>10, PutAdds
<1>12. Within(versions, versions')
  <2>1. Within(versions, kB.versions)
    BY <1>1, <1>2, <1>3, WithinTwice
  <2>2. Within(versions, half)
    BY <1>1, <1>3, <1>9, <2>1, WithinTwice
  <2>3. QED
    BY <1>1, <1>9, <1>11, <2>2, WithinTwice
<1>13. Keeps
  BY <1>8, <1>12, OnlyAdds
<1>14. Undoable \subseteq Undoable'
  BY <1>11, <1>13, TypesStay
<1>15. <<first, second>> \in Seq(Undoable')
  BY <1>7, <1>14, SequencesOf
<1>16. QED
  BY <1>8, <1>11, <1>13, <1>15 DEF Showing

-----------------------------------------------------------------------------
(* Types.                                                                  *)

Shelf == tray \in [Turns -> Seq(Slots)]
Undos == history \in Seq(Undoable)
Caller == call \in Calls(Slots, Undoable)
Maker == attempt \in {Idle} \cup Tries(Slots)
Books ==
  /\ turns \in 0 .. MaxTurns /\ pictures \in Nat /\ calls \in Nat
  /\ shown \in [Cards -> Nat] /\ picked \in [Cards -> Numbers] /\ approved \subseteq Cards
Shape == Shelf /\ Undos /\ Caller /\ Maker /\ Books

LEMMA TypesAre == TrayTypes <=> Shape /\ versions \in Table
BY DEF TrayTypes, Shape, Shelf, Undos, Caller, Maker, Books, Table

LEMMA TypesNext ==
  ASSUME Shape', versions' \in Table
  PROVE  TrayTypes'
BY DEF TrayTypes, Shape, Shelf, Undos, Caller, Maker, Books, Table

(* What a step that takes no picture away does not touch stays typed.      *)
LEMMA ShapeStays ==
  ASSUME TrayTypes, versions' \in Table, Keeps
  PROVE  /\ tray' = tray => Shelf'
         /\ history' = history \/ history' = <<>> => Undos'
         /\ call' = call \/ call' = Idle => Caller'
         /\ attempt' = attempt \/ attempt' = Idle => Maker'
         /\ Slots \subseteq Slots' /\ Undoable \subseteq Undoable'
<1>1. TypedStill /\ Slots \subseteq Slots' /\ Undoable \subseteq Undoable'
  BY TypesStay
<1>2. Idle \in Calls(Slots', Undoable') /\ <<>> \in Seq(Undoable')
  BY DEF Calls
<1>3. QED
  BY <1>1, <1>2 DEF TypedStill, Shelf, Undos, Caller, Maker

LEMMA TrayTypesInit == TrayInit => TrayTypes
<1> SUFFICES ASSUME TrayInit PROVE TrayTypes
  OBVIOUS
<1>1. <<>> \in Seq(Slots) /\ <<>> \in Seq(Undoable) /\ Idle \in Calls(Slots, Undoable)
  BY DEF Calls
<1>2. None \in Nat /\ None \in Numbers /\ 0 \in 0 .. MaxTurns
  BY NumbersOf, TrayAssumption DEF None
<1>3. QED
  BY <1>1, <1>2 DEF TrayInit, TrayTypes

(* The attempt goes on with its lists.                                     *)
LEMMA GoesTyped ==
  ASSUME Maker, attempt.at # "idle", NEW place \in {"render", "save", "close", "apply"},
         AttemptGoes(place), Slots \subseteq Slots'
  PROVE  Maker'
<1>1. attempt \in Tries(Slots)
  BY TryAt DEF Maker
<1>2. attempt' \in Tries(Slots)
  BY <1>1 DEF AttemptGoes, Tries
<1>3. Seq(Slots) \subseteq Seq(Slots')
  BY SeqsGrow
<1>4. QED
  BY <1>2, <1>3 DEF Maker, Tries

LEMMA StartTyped ==
  ASSUME TrayTypes, NEW lot \in Lots, StartAttempt(lot)
  PROVE  TrayTypes' /\ Keeps
<1>1. versions' \in Table /\ Keeps
  BY VersionsTyped, NothingGoes DEF StartAttempt, store
<1>2. Shelf' /\ Undos' /\ Caller'
  BY <1>1, ShapeStays DEF StartAttempt, store
<1>3. lot \in Seq(Cards) \ {<<>>} /\ 0 \in Nat
  BY TrayAssumption
<1>4. attempt' \in Tries(Slots')
  BY <1>3 DEF StartAttempt, Tries
<1>5. Books'
  BY TypesAre DEF StartAttempt, Shape, Books, store, card
<1>6. QED
  BY <1>1, <1>2, <1>4, <1>5, TypesNext DEF Shape, Maker

LEMMA DownloadTyped ==
  ASSUME TrayTypes, NEW n \in 1 .. MaxPictures, Download(n), turns < MaxTurns
  PROVE  TrayTypes' /\ Keeps
<1> DEFINE new == [k \in 1 .. n |-> [pic |-> pictures + k, card |-> NoCard]]
<1>1. versions' \in Table /\ Keeps
  BY VersionsTyped, NothingGoes DEF Download
<1>2. Undos' /\ Caller' /\ Slots \subseteq Slots'
  BY <1>1, ShapeStays DEF Download
<1>3. /\ Books /\ attempt \in Tries(Slots) /\ turns + 1 \in Turns /\ turns + 1 \in Nat
      /\ tray \in [Turns -> Seq(Slots)]
  BY TypesAre, TryAt, TrayAssumption
     DEF Shape, Maker, Shelf, Books, Download, AttemptAt, Turns
<1>4. new \in Seq(Slots')
  <2>1. \A k \in 1 .. n : [pic |-> pictures + k, card |-> NoCard] \in Slots'
    BY <1>3 DEF Slots, Books
  <2>2. n \in Nat
    BY TrayAssumption
  <2>3. QED
    BY <2>1, <2>2
<1>5. /\ turns' = turns + 1 /\ pictures' = pictures + n
      /\ tray' = [tray EXCEPT ![turns + 1] = new]
      /\ attempt' = [attempt EXCEPT !.turn = turns + 1, !.copy = new,
                       !.at = IF n = Len(attempt.lot) THEN "save" ELSE "close"]
      /\ UNCHANGED <<card, calls>>
  BY DEF Download
<1> HIDE DEF new
<1>6. Seq(Slots) \subseteq Seq(Slots')
  BY <1>2, SeqsGrow
<1>7. Shelf'
  BY <1>3, <1>4, <1>5, <1>6 DEF Shelf
<1>8. Maker'
  BY <1>3, <1>4, <1>5, <1>6 DEF Maker, Tries
<1>9. Books'
  <2>1. turns + 1 \in 0 .. MaxTurns /\ pictures + n \in Nat
    BY <1>3, TrayAssumption DEF Books, Turns
  <2>2. QED
    BY <1>3, <1>5, <2>1 DEF Books, card
<1>10. QED
  BY <1>1, <1>2, <1>7, <1>8, <1>9, TypesNext DEF Shape

LEMMA EndSaveTyped ==
  ASSUME TrayTypes, Crooked \/ Saved \/ SaveFails
  PROVE  TrayTypes' /\ Keeps
<1>1. /\ AttemptGoes("close") /\ attempt.at # "idle"
      /\ UNCHANGED <<store, card, history, call, removed, calls>>
  BY DEF Crooked, Saved, SaveFails, AttemptAt
<1>2. versions' \in Table /\ Keeps
  BY <1>1, VersionsTyped, NothingGoes DEF store
<1>3. Shelf' /\ Undos' /\ Caller' /\ Slots \subseteq Slots'
  BY <1>1, <1>2, ShapeStays DEF store
<1>4. Maker' /\ Books'
  BY <1>1, <1>3, GoesTyped, TypesAre DEF Shape, Books, store, card
<1>5. QED
  BY <1>2, <1>3, <1>4, TypesNext DEF Shape

LEMMA SaveTyped ==
  ASSUME TrayTypes, CopiesAgree, SaveNext
  PROVE  /\ TrayTypes' /\ Keeps
         /\ attempt'.copy \in Seq(Slots') /\ SamePictures(attempt.copy, attempt'.copy)
         /\ Len(attempt'.saved) = Len(attempt.saved) + 1
<1> DEFINE k == Len(attempt.saved) + 1
           c == attempt.lot[k]
           new == NextVersion(versions, c)
<1>1. /\ attempt \in Tries(Slots) /\ Books /\ Len(attempt.copy) = Len(attempt.lot)
      /\ Len(attempt.saved) < Len(attempt.lot) /\ Free(versions, c) # {}
  BY TypesAre, TryAt DEF Shape, Maker, SaveNext, AttemptAt, CopiesAgree, AttemptAgrees
<1>2. /\ attempt.saved \in Seq(Versions) /\ attempt.copy \in Seq(Slots)
      /\ attempt.lot \in Seq(Cards)
  BY <1>1 DEF Tries
<1>3. k \in DOMAIN attempt.copy /\ k \in DOMAIN attempt.lot /\ c \in Cards /\ k \in Nat
  BY <1>1, <1>2
<1>4. PICK pic \in Nat \ {0} : pic = attempt.copy[k].pic
  BY <1>2, <1>3 DEF Slots
<1>5. /\ versions' = Put(versions, c, pic)
      /\ UNCHANGED <<tray, card, turns, pictures, history, call, removed>>
      /\ attempt' = [attempt EXCEPT !.saved = Append(@, new), !.copy[k].card = c]
      /\ calls' = calls
  BY <1>4 DEF SaveNext
<1>6. new \in Versions
  BY <1>1, NextIsFree
<1>7. versions' \in Table /\ Keeps /\ versions'[c][new] = pic
  BY <1>1, <1>3, <1>4, <1>5, VersionsTyped, PutAdds, OnlyAdds
<1>8. Shelf' /\ Undos' /\ Caller' /\ Slots \subseteq Slots'
  BY <1>5, <1>7, ShapeStays
<1> DEFINE copy == [attempt.copy EXCEPT ![k].card = c]
<1>9. [attempt.copy[k] EXCEPT !.card = c] \in Slots'
  <2>1. attempt.copy[k] \in [pic : Nat \ {0}, card : Cards \cup {NoCard}]
    BY <1>2, <1>3 DEF Slots
  <2>2. [attempt.copy[k] EXCEPT !.card = c] = [pic |-> pic, card |-> c]
    BY <1>4, <2>1
  <2>3. pic \in Range(versions'[c])
    BY <1>3, <1>6, <1>7 DEF Range, Table
  <2>4. Secured(pic)'
    BY <1>3, <2>3 DEF Secured, InVersion
  <2>5. QED
    BY <1>3, <2>2, <2>4 DEF Slots
<1>10. attempt.copy \in Seq(Slots')
  BY <1>2, <1>8, SeqsGrow
<1>11. copy \in Seq(Slots') /\ SamePictures(attempt.copy, copy)
  <2>1. copy \in Seq(Slots') /\ Len(copy) = Len(attempt.copy)
    BY <1>3, <1>9, <1>10
  <2>2. \A m \in DOMAIN attempt.copy : attempt.copy[m].pic = copy[m].pic
    BY <1>2, <1>3 DEF Slots
  <2>3. QED
    BY <2>1, <2>2 DEF SamePictures
<1>12. Append(attempt.saved, new) \in Seq(Versions)
  BY <1>2, <1>6
<1> HIDE DEF new, c, k
<1>13. /\ attempt' \in Tries(Slots') /\ attempt'.copy = copy
       /\ attempt'.saved = Append(attempt.saved, new)
  <2>1. attempt' = [attempt EXCEPT !.saved = Append(attempt.saved, new), !.copy = copy]
    BY <1>1, <1>5 DEF Tries
  <2> HIDE DEF copy
  <2>2. QED
    BY <1>1, <1>11, <1>12, <2>1 DEF Tries
<1>14. Books'
  BY <1>1, <1>5 DEF Books, card
<1>15. QED
  BY <1>2, <1>6, <1>7, <1>8, <1>11, <1>13, <1>14, TypesNext DEF Shape, Maker

(* Trimming leaves a list as it is, or takes one whose pictures are all on *)
(* cards.                                                                  *)
LEMMA TrimmedLists ==
  ASSUME NEW S, NEW all \in [Turns -> Seq(S)]
  PROVE  /\ Trimmed(all) \in [Turns -> Seq(S)]
         /\ \A t \in Turns : \/ Trimmed(all)[t] = all[t]
                             \/ Trimmed(all)[t] = <<>> /\ Attached(all[t])
<1> DEFINE done == {t \in Turns : Attached(all[t])}
           gone(t) == t \in done /\ Cardinality({u \in done : u > t}) >= Kept
<1>1. Trimmed(all) = [t \in Turns |-> IF gone(t) THEN <<>> ELSE all[t]]
  BY DEF Trimmed
<1>2. \A t \in Turns : gone(t) => Attached(all[t])
  OBVIOUS
<1> HIDE DEF gone
<1>3. QED
  BY <1>1, <1>2

LEMMA CloseTyped ==
  ASSUME TrayTypes, CopiesAgree, Close
  PROVE  /\ TrayTypes' /\ Keeps
         /\ attempt.turn \in Turns /\ attempt.copy \in Seq(Slots)
         /\ [tray EXCEPT ![attempt.turn] = attempt.copy] \in [Turns -> Seq(Slots)]
<1> DEFINE all == [tray EXCEPT ![attempt.turn] = attempt.copy]
<1>1. /\ attempt \in Tries(Slots) /\ tray \in [Turns -> Seq(Slots)] /\ turns \in 0 .. MaxTurns
      /\ attempt.turn \in 1 .. turns
  BY TypesAre, TryAt DEF Shape, Shelf, Maker, Books, Close, AttemptAt, CopiesAgree, AttemptAgrees
<1>2. attempt.turn \in Turns /\ attempt.copy \in Seq(Slots)
  BY <1>1, TrayAssumption DEF Tries, Turns
<1>3. all \in [Turns -> Seq(Slots)]
  BY <1>1, <1>2
<1>4. /\ tray' = Trimmed(all)
      /\ AttemptGoes("apply") \/ attempt' = Idle
      /\ attempt.at # "idle"
      /\ UNCHANGED <<turns, pictures, versions, card, history, call, removed, calls>>
  BY DEF Close, AttemptAt
<1> HIDE DEF all
<1>5. versions' \in Table /\ Keeps
  BY <1>4, VersionsTyped, NothingGoes
<1>6. Undos' /\ Caller' /\ Slots \subseteq Slots' /\ (attempt' = Idle => Maker')
  BY <1>4, <1>5, ShapeStays
<1>7. Maker'
  BY <1>4, <1>6, GoesTyped, TypesAre DEF Shape
<1>8. Shelf'
  <2>1. Seq(Slots) \subseteq Seq(Slots')
    BY <1>6, SeqsGrow
  <2>2. tray' \in [Turns -> Seq(Slots)]
    BY <1>3, <1>4, TrimmedLists
  <2>3. QED
    BY <2>1, <2>2 DEF Shelf
<1>9. Books'
  BY <1>4, TypesAre DEF Shape, Books, card
<1>10. QED
  BY <1>2, <1>3, <1>5, <1>6, <1>7, <1>8, <1>9, TypesNext DEF Shape, all

LEMMA TailOfMore ==
  ASSUME NEW S, NEW s \in Seq(S), s # <<>>, Len(s) # 1
  PROVE  Tail(s) \in Seq(S) \ {<<>>} /\ Len(Tail(s)) = Len(s) - 1
<1>1. Len(s) \in Nat /\ Len(s) # 0 /\ Tail(s) \in Seq(S) /\ Len(Tail(s)) = Len(s) - 1
  OBVIOUS
<1>2. Len(Tail(s)) # 0 /\ Len(<<>>) = 0
  BY <1>1
<1>3. QED
  BY <1>1, <1>2

LEMMA ApplyTyped ==
  ASSUME TrayTypes, CopiesAgree, Apply
  PROVE  /\ TrayTypes' /\ Keeps
         /\ \A c \in Cards : shown'[c] = shown[c] \/ shown'[c] \in Range(versions[c])
         /\ attempt'.at # "idle" => Len(attempt'.saved) = Len(attempt'.lot)
<1> DEFINE c == Head(attempt.lot)
           v == Head(attempt.saved)
           fits == c \notin changed /\ IsFile(versions, c, v)
<1>1. /\ attempt \in Tries(Slots) /\ Books /\ versions \in Table
      /\ Len(attempt.saved) = Len(attempt.lot)
  BY TypesAre, TryAt DEF Shape, Maker, Apply, AttemptAt, CopiesAgree, AttemptAgrees
<1>2. /\ attempt.saved \in Seq(Versions) \ {<<>>} /\ attempt.lot \in Seq(Cards) \ {<<>>}
      /\ Len(attempt.lot) # 0 /\ attempt.copy \in Seq(Slots)
  BY <1>1 DEF Tries
<1>3. c \in Cards /\ v \in Versions /\ v \in Numbers
  BY <1>2, NumbersOf
<1>4. versions[c][v] \in Nat /\ versions[c][v] \in Range(versions[c])
  BY <1>1, <1>3 DEF Table, Range
<1>5. /\ shown' = IF fits THEN [shown EXCEPT ![c] = versions[c][v]] ELSE shown
      /\ picked' = IF fits THEN [picked EXCEPT ![c] = v] ELSE picked
      /\ attempt' = IF Len(attempt.lot) = 1 THEN Idle
                    ELSE [attempt EXCEPT !.lot = Tail(@), !.saved = Tail(@)]
      /\ UNCHANGED <<store, approved, history, call, removed, calls>>
  BY DEF Apply
<1> HIDE DEF c, v, fits
<1>6. versions' \in Table /\ Keeps
  BY <1>1, <1>5, NothingGoes DEF store
<1>7. Undos' /\ Caller' /\ Shelf' /\ Slots \subseteq Slots' /\ (attempt' = Idle => Maker')
  BY <1>5, <1>6, ShapeStays DEF store
<1>8. Books' /\ \A d \in Cards : shown'[d] = shown[d] \/ shown'[d] \in Range(versions[d])
  BY <1>1, <1>3, <1>4, <1>5 DEF Books, store
<1>9. Maker' /\ (attempt'.at # "idle" => Len(attempt'.saved) = Len(attempt'.lot))
  <2>1. CASE Len(attempt.lot) = 1
    BY <1>5, <1>7, <2>1 DEF Idle
  <2>2. CASE Len(attempt.lot) # 1
    <3>1. /\ Tail(attempt.lot) \in Seq(Cards) \ {<<>>} /\ Tail(attempt.saved) \in Seq(Versions)
          /\ Len(Tail(attempt.lot)) = Len(Tail(attempt.saved))
      BY <1>1, <1>2, <2>2, TailOfMore
    <3>2. attempt.copy \in Seq(Slots')
      BY <1>2, <1>7, SeqsGrow
    <3>3. attempt' = [attempt EXCEPT !.lot = Tail(attempt.lot), !.saved = Tail(attempt.saved)]
      BY <1>1, <1>5, <2>2 DEF Tries
    <3>4. /\ attempt' \in Tries(Slots') /\ attempt'.lot = Tail(attempt.lot)
          /\ attempt'.saved = Tail(attempt.saved)
      BY <1>1, <3>1, <3>2, <3>3 DEF Tries
    <3>5. QED
      BY <3>1, <3>4 DEF Maker
  <2>3. QED
    BY <2>1, <2>2
<1>10. QED
  BY <1>6, <1>7, <1>8, <1>9, TypesNext DEF Shape

LEMMA AskTyped ==
  ASSUME TrayTypes, ShownIsSecured,
         \/ \E c \in Cards, t \in Turns, n \in 1 .. MaxPictures : BeginAttach(c, t, n)
         \/ \E a, b \in Cards : BeginCopy(a, b) \/ BeginSwap(a, b)
  PROVE  TrayTypes' /\ Keeps
<1>1. Books
  BY TypesAre DEF Shape
<1>2. ASSUME NEW c \in Cards, NEW t \in Turns, NEW n \in 1 .. MaxPictures, BeginAttach(c, t, n)
      PROVE  TrayTypes' /\ Keeps
  <2>1. n \in Nat
    BY TrayAssumption
  <2>2. versions' \in Table /\ Keeps /\ call' \in Attaching(Slots', Undoable')
    BY <1>2, <2>1, AttachTyped
  <2>3. Shelf' /\ Undos' /\ Maker'
    BY <1>2, <2>2, ShapeStays DEF BeginAttach
  <2>4. Books'
    <3>1. UNCHANGED <<turns, pictures, card>> /\ calls' = calls + 1
      BY <1>2 DEF BeginAttach, NewCall
    <3>2. QED
      BY <1>1, <3>1 DEF Books, card
  <2>5. QED
    BY <2>2, <2>3, <2>4, TypesNext DEF Shape, Caller, Calls
<1>3. ASSUME NEW a \in Cards, NEW b \in Cards, BeginCopy(a, b)
      PROVE  TrayTypes' /\ Keeps
  <2>1. /\ versions' \in Table /\ Keeps /\ history' \in Seq(Undoable')
        /\ call' \in {Idle} \cup Showing(Undoable')
    BY <1>3, CopyTyped
  <2>2. Shelf' /\ Maker'
    BY <1>3, <2>1, ShapeStays DEF BeginCopy
  <2>3. Books'
    BY <1>1, <1>3 DEF BeginCopy, Books, card, NewCall
  <2>4. QED
    BY <2>1, <2>2, <2>3, TypesNext DEF Shape, Caller, Calls, Undos
<1>4. ASSUME NEW a \in Cards, NEW b \in Cards, BeginSwap(a, b)
      PROVE  TrayTypes' /\ Keeps
  <2>1. versions' \in Table /\ Keeps /\ call' \in Showing(Undoable')
    BY <1>4, SwapTyped
  <2>2. Shelf' /\ Undos' /\ Maker'
    BY <1>4, <2>1, ShapeStays DEF BeginSwap
  <2>3. Books'
    BY <1>1, <1>4 DEF BeginSwap, Books, card, NewCall
  <2>4. QED
    BY <2>1, <2>2, <2>3, TypesNext DEF Shape, Caller, Calls
<1>5. QED
  BY <1>2, <1>3, <1>4

(* What a card shows next it showed before, or it is one of its versions.  *)
ShowsVersions ==
  \A c \in Cards : shown'[c] \in {shown[c], None} \cup Range(versions[c])

LEMMA VersionOf ==
  ASSUME TrayTypes, NEW c \in Cards, NEW v \in Versions
  PROVE  versions[c][v] \in Nat /\ versions[c][v] \in Range(versions[c])
BY DEF TrayTypes, Range

LEMMA EntryTyped ==
  ASSUME NEW e \in Undoable
  PROVE  /\ e.card \in Cards /\ e.new \in Versions /\ e.new \in Numbers
         /\ e.old \in Numbers /\ e.own \in BOOLEAN /\ e.was \in Nat
         /\ e.old # None => e.old \in Versions
         /\ e.own => e.held \in removed
         /\ e.old = None => e.was = None
BY NumbersOf DEF Undoable, Entries

LEMMA ShowAttachedTyped ==
  ASSUME TrayTypes, ShowAttached
  PROVE  /\ TrayTypes' /\ Keeps /\ ShowsVersions
         /\ call'.copy = call.copy /\ call'.entry = call.entry
<1>1. Books /\ call \in Attaching(Slots, Undoable)
  BY CallAt, TypesAre DEF Shape, Caller, ShowAttached
<1>2. PICK e \in Undoable : e = call.entry
  BY <1>1 DEF Attaching
<1>3. /\ shown' = [shown EXCEPT ![e.card] = versions[e.card][e.new]]
      /\ picked' = [picked EXCEPT ![e.card] = e.new]
      /\ call' = [call EXCEPT !.at = "list"]
      /\ UNCHANGED <<store, approved, history, attempt, removed, calls>>
  BY <1>2 DEF ShowAttached
<1>4. e.card \in Cards /\ e.new \in Versions /\ e.new \in Numbers
  BY EntryTyped
<1>5. /\ versions[e.card][e.new] \in Nat
      /\ versions[e.card][e.new] \in Range(versions[e.card])
  BY <1>4, VersionOf
<1>6. versions' \in Table /\ Keeps
  BY <1>3, VersionsTyped, NothingGoes DEF store
<1>7. Shelf' /\ Undos' /\ Maker' /\ Slots \subseteq Slots' /\ Undoable \subseteq Undoable'
  BY <1>3, <1>6, ShapeStays DEF store
<1>8. Books' /\ ShowsVersions
  BY <1>1, <1>3, <1>4, <1>5 DEF Books, store, ShowsVersions
<1>9. /\ call' \in Attaching(Slots', Undoable')
      /\ call'.copy = call.copy /\ call'.entry = call.entry
  <2>1. Seq(Slots) \subseteq Seq(Slots')
    BY <1>7, SeqsGrow
  <2>2. QED
    BY <1>1, <1>3, <1>7, <2>1 DEF Attaching
<1>10. QED
  BY <1>6, <1>7, <1>8, <1>9, TypesNext DEF Shape, Caller, Calls

LEMMA EndAttachTyped ==
  ASSUME TrayTypes, CopiesAgree, EndAttach
  PROVE  TrayTypes' /\ Keeps
<1>1. /\ Books /\ call \in Attaching(Slots, Undoable) /\ tray \in [Turns -> Seq(Slots)]
      /\ history \in Seq(Undoable)
  BY CallAt, TypesAre DEF Shape, Caller, Shelf, Undos, EndAttach
<1>2. /\ call.entry \in Undoable /\ call.copy \in Seq(Slots)
  BY <1>1 DEF Attaching
<1>3. versions' \in Table /\ Keeps
  BY VersionsTyped, NothingGoes DEF EndAttach
<1>4. Maker' /\ Caller' /\ Slots \subseteq Slots' /\ Undoable \subseteq Undoable'
  BY <1>3, ShapeStays DEF EndAttach
<1>5. Seq(Slots) \subseteq Seq(Slots') /\ Seq(Undoable) \subseteq Seq(Undoable')
  BY <1>4, SeqsGrow
<1>6. Undos'
  <2>1. <<call.entry>> \in Seq(Undoable)
    BY <1>2, SequencesOf
  <2>2. Push(<<call.entry>>)
    BY DEF EndAttach
  <2>3. QED
    BY <1>1, <1>5, <2>1, <2>2, PushTyped DEF Undos
<1>7. Shelf'
  <2>1. tray' = tray \/ tray' = [tray EXCEPT ![call.entry.turn] = call.copy]
    BY DEF EndAttach
  <2>2. QED
    BY <1>1, <1>2, <1>5, <2>1 DEF Shelf
<1>8. Books'
  BY <1>1 DEF EndAttach, Books, card
<1>9. QED
  BY <1>3, <1>4, <1>6, <1>7, <1>8, TypesNext DEF Shape

LEMMA MarkingTyped ==
  ASSUME NEW E, NEW chosen \in PickLists, NEW push \in Seq(E), NEW next \in After(E)
  PROVE  Marking(chosen, push, next) \in Reading(E)
BY DEF Marking, Reading

LEMMA ShowTyped ==
  ASSUME TrayTypes, ShowCards
  PROVE  /\ TrayTypes' /\ Keeps /\ ShowsVersions /\ call'.at = "mark"
<1> DEFINE all == call.entries
           chosen == [k \in DOMAIN all |-> <<all[k].card, all[k].new>>]
<1>1. Books /\ call \in Showing(Undoable)
  BY CallAt, TypesAre DEF Shape, Caller, ShowCards
<1>2. all \in Seq(Undoable) \ {<<>>} /\ call.push \in Seq(Undoable)
  BY <1>1 DEF Showing
<1>3. /\ shown' = [c \in Cards |->
              IF \E e \in Range(all) : e.card = c
              THEN versions[c][(CHOOSE e \in Range(all) : e.card = c).new] ELSE shown[c]]
      /\ call' = Marking(chosen, call.push, Idle)
      /\ UNCHANGED <<store, picked, approved, history, attempt, removed, calls>>
  BY DEF ShowCards
<1>4. versions' \in Table /\ Keeps
  BY <1>3, VersionsTyped, NothingGoes DEF store
<1>5. Shelf' /\ Undos' /\ Maker' /\ Undoable \subseteq Undoable'
  BY <1>3, <1>4, ShapeStays DEF store
<1>6. ASSUME NEW c \in Cards
      PROVE  shown'[c] \in Nat /\ shown'[c] \in {shown[c]} \cup Range(versions[c])
  <2>1. CASE \E e \in Range(all) : e.card = c
    <3>1. PICK e \in Range(all) : e = CHOOSE f \in Range(all) : f.card = c
      BY <2>1
    <3>2. e \in Undoable
      BY <1>2 DEF Range
    <3>3. shown'[c] = versions[c][e.new]
      BY <1>3, <2>1, <3>1
    <3>4. QED
      BY <3>2, <3>3, EntryTyped, VersionOf
  <2>2. CASE ~\E e \in Range(all) : e.card = c
    BY <1>1, <1>3, <2>2 DEF Books
  <2>3. QED
    BY <2>1, <2>2
<1>7. Books'
  <2>1. DOMAIN shown' = Cards /\ shown' = [c \in Cards |-> shown'[c]]
    BY <1>3
  <2>2. shown' \in [Cards -> Nat]
    BY <1>6, <2>1
  <2>3. QED
    BY <1>1, <1>3, <2>2 DEF Books, store
<1>8. chosen \in PickLists
  <2>1. \A k \in DOMAIN all : <<all[k].card, all[k].new>> \in Cards \X Numbers
    BY <1>2, EntryTyped
  <2>2. chosen \in Seq(Cards \X Numbers) /\ Len(chosen) = Len(all)
    <3>1. DOMAIN all = 1 .. Len(all) /\ Len(all) \in Nat
      BY <1>2
    <3> HIDE DEF all
    <3>2. chosen \in [1 .. Len(all) -> Cards \X Numbers]
      BY <2>1, <3>1
    <3>3. QED
      BY <3>1, <3>2
  <2>3. Len(all) # 0
    BY <1>2
  <2>4. chosen # <<>>
    BY <2>2, <2>3
  <2>5. QED
    BY <2>2, <2>4 DEF PickLists
<1> HIDE DEF chosen
<1>9. call' \in Reading(Undoable') /\ call'.at = "mark"
  <2>1. call.push \in Seq(Undoable') /\ Idle \in After(Undoable')
    BY <1>2, <1>5, SeqsGrow DEF After
  <2>2. QED
    BY <1>3, <1>8, <2>1, MarkingTyped DEF Reading
<1>10. QED
  BY <1>4, <1>5, <1>6, <1>7, <1>9, TypesNext DEF Shape, Caller, Calls, ShowsVersions

LEMMA ReadTyped ==
  ASSUME TrayTypes, ReadBoard
  PROVE  TrayTypes' /\ Keeps /\ call'.at = "write"
<1>1. Books /\ call \in Reading(Undoable)
  BY CallAt, TypesAre DEF Shape, Caller, ReadBoard
<1>2. /\ call' = [call EXCEPT !.at = "write", !.seen = <<picked, approved>>]
      /\ UNCHANGED <<store, card, history, attempt, removed, calls>>
  BY DEF ReadBoard
<1>3. versions' \in Table /\ Keeps
  BY <1>2, VersionsTyped, NothingGoes DEF store
<1>4. Shelf' /\ Undos' /\ Maker' /\ Undoable \subseteq Undoable'
  BY <1>2, <1>3, ShapeStays DEF store
<1>5. Books'
  BY <1>1, <1>2 DEF Books, store, card
<1>6. call' \in Writing(Undoable')
  <2>1. call \in Reading(Undoable')
    BY <1>1, <1>4, SlotsStay, CallsGrow
  <2>2. <<picked, approved>> \in [Cards -> Numbers] \X SUBSET Cards
    BY <1>1 DEF Books
  <2>3. QED
    BY <1>2, <2>1, <2>2 DEF Reading, Writing
<1>7. QED
  BY <1>3, <1>4, <1>5, <1>6, TypesNext DEF Shape, Caller, Calls, Writing

LEMMA WriteTyped ==
  ASSUME TrayTypes, WriteBoard
  PROVE  /\ TrayTypes' /\ Keeps /\ call'.at \in {"mark", "unlist", "idle"}
<1> DEFINE mark == Head(call.marks)
<1>1. Books /\ call \in Writing(Undoable) /\ history \in Seq(Undoable)
  BY CallAt, TypesAre DEF Shape, Caller, Undos, WriteBoard
<1>2. /\ call.marks \in Seq(Cards \X Numbers) /\ call.marks # <<>>
      /\ call.push \in Seq(Undoable) /\ call.next \in After(Undoable)
      /\ call.seen[1] \in [Cards -> Numbers] /\ call.seen[2] \subseteq Cards
  BY <1>1 DEF Writing, PickLists
<1>3. mark \in Cards \X Numbers
  BY <1>2
<1>4. /\ picked' = [call.seen[1] EXCEPT ![mark[1]] = mark[2]]
      /\ approved' = call.seen[2]
      /\ \/ /\ Len(call.marks) > 1 /\ history' = history
            /\ call' = Marking(Tail(call.marks), call.push, call.next)
         \/ call' = call.next /\ Push(call.push)
      /\ UNCHANGED <<store, shown, attempt, removed, calls>>
  BY DEF WriteBoard
<1> HIDE DEF mark
<1>5. versions' \in Table /\ Keeps
  BY <1>4, VersionsTyped, NothingGoes DEF store
<1>6. Shelf' /\ Maker' /\ Undoable \subseteq Undoable' /\ (history' = history => Undos')
  BY <1>4, <1>5, ShapeStays DEF store
<1>7. Books'
  BY <1>1, <1>2, <1>3, <1>4 DEF Books, store
<1>8. /\ call.push \in Seq(Undoable') /\ call.next \in After(Undoable')
      /\ history \in Seq(Undoable')
  BY <1>1, <1>2, <1>6, SeqsGrow, CallsGrow, SlotsStay
<1>9. CASE Len(call.marks) > 1 /\ history' = history
           /\ call' = Marking(Tail(call.marks), call.push, call.next)
  <2>1. Len(call.marks) # 1
    <3>1. Len(call.marks) \in Nat /\ Len(call.marks) > 1
      BY <1>2, <1>9
    <3>2. \A n \in Nat : n > 1 => n # 1
      OBVIOUS
    <3>3. QED
      BY <3>1, <3>2, Zenon
  <2>2. Tail(call.marks) \in PickLists
    BY <1>2, <2>1, TailOfMore DEF PickLists
  <2>3. call' \in Reading(Undoable')
    BY <1>8, <1>9, <2>2, MarkingTyped
  <2>4. QED
    BY <1>5, <1>6, <1>7, <1>9, <2>3, TypesNext DEF Shape, Caller, Calls, Reading
<1>10. CASE call' = call.next /\ Push(call.push)
  <2>1. Undos'
    BY <1>8, <1>10, PushTyped DEF Undos
  <2>2. call' \in After(Undoable')
    BY <1>8, <1>10
  <2>3. QED
    BY <1>5, <1>6, <1>7, <2>1, <2>2, TypesNext
       DEF Shape, Caller, Calls, After, Unlisting, Idle
<1>11. QED
  BY <1>4, <1>9, <1>10

LEMMA UndoTyped ==
  ASSUME TrayTypes, BeginUndo \/ UndoOther
  PROVE  TrayTypes' /\ Keeps /\ call'.at = "restore"
<1> DEFINE e == Last(history)
           left == Front(history)
           again == e.pair # 0 /\ left # <<>> /\ Last(left).pair = e.pair
<1>1. Books /\ versions \in Table /\ history \in Seq(Undoable) /\ history # <<>>
  BY VersionsTyped, TypesAre DEF Shape, Undos, BeginUndo, UndoOther, Undo
<1>2. e \in Undoable /\ left \in Seq(Undoable)
  <2>1. Len(history) \in Nat \ {0}
    BY <1>1
  <2>2. history[Len(history)] \in Undoable
    BY <1>1, <2>1
  <2>3. SubSeq(history, 1, Len(history) - 1) \in Seq(Undoable)
    BY <1>1, <2>1, SubSeqProperties
  <2>4. QED
    BY <2>2, <2>3 DEF Last, Front
<1>3. /\ history' = left
      /\ versions' = [versions EXCEPT ![e.card][e.new] = None]
      /\ removed' = removed \cup ({versions[e.card][e.new]} \ {None})
      /\ call' = [at |-> "restore", entry |-> e, again |-> again]
      /\ calls' = calls \/ calls' = calls + 1
      /\ UNCHANGED <<tray, turns, pictures, card, attempt>>
  BY DEF BeginUndo, UndoOther, Undo, NewCall
<1>4. again \in BOOLEAN
  OBVIOUS
<1> HIDE DEF e, left, again
<1>5. e.card \in Cards /\ e.new \in Versions
  BY <1>2, EntryTyped
<1>6. versions' \in Table /\ Keeps
  BY <1>1, <1>3, <1>5 DEF Table, Keeps, None
<1>7. Shelf' /\ Maker' /\ Undoable \subseteq Undoable'
  BY <1>3, <1>6, ShapeStays
<1>8. Undos'
  BY <1>2, <1>3, <1>7, SeqsGrow DEF Undos
<1>9. Books'
  BY <1>1, <1>3 DEF Books, card
<1>10. call' \in Restoring(Undoable') /\ call'.at = "restore"
  BY <1>2, <1>3, <1>4, <1>7 DEF Restoring
<1>11. QED
  BY <1>6, <1>7, <1>8, <1>9, <1>10, TypesNext DEF Shape, Caller, Calls

LEMMA RestoreTyped ==
  ASSUME TrayTypes, Restore
  PROVE  /\ TrayTypes' /\ Keeps /\ ShowsVersions
         /\ call'.at \in {"unlist", "mark"}
         /\ call.entry \in Undoable
         /\ ~call.entry.sealed => shown' = [shown EXCEPT ![call.entry.card] =
              IF IsFile(versions, call.entry.card, call.entry.old)
              THEN versions[call.entry.card][call.entry.old] ELSE None]
<1>1. Books /\ versions \in Table /\ call \in Restoring(Undoable)
  BY CallAt, VersionsTyped, TypesAre DEF Shape, Caller, Restore
<1>2. PICK e \in Undoable : e = call.entry
  BY <1>1 DEF Restoring
<1> DEFINE back == IsFile(versions, e.card, e.old)
           after == [at |-> "unlist", entry |-> e, again |-> call.again]
           now == IF back THEN versions[e.card][e.old] ELSE None
<1>3. /\ e.card \in Cards /\ e.old \in Numbers /\ (e.old # None => e.old \in Versions)
      /\ e.own => e.held \in removed
  BY EntryTyped
<1>4. back => /\ e.old \in Versions /\ versions[e.card][e.old] \in Nat
              /\ versions[e.card][e.old] \in Range(versions[e.card])
  BY <1>3, VersionOf DEF IsFile
<1>5. now \in Nat /\ now \in {None} \cup Range(versions[e.card])
  BY <1>4 DEF None
<1>6. /\ tray' = tray /\ turns' = turns /\ pictures' = pictures /\ calls' = calls
      /\ approved' = approved /\ history' = history /\ attempt' = attempt
      /\ \/ e.sealed /\ UNCHANGED <<shown, versions, picked, removed>> /\ call' = after
         \/ /\ shown' = [shown EXCEPT ![e.card] = now]
            /\ \/ /\ back /\ e.own
                  /\ versions' = [versions EXCEPT ![e.card][e.old] = None]
                  /\ removed' = removed \cup ({versions[e.card][e.old]} \ {e.held})
               \/ UNCHANGED <<versions, removed>>
            /\ \/ picked' = [picked EXCEPT ![e.card] = None] /\ call' = after
               \/ /\ call' = Marking(<<<<e.card, e.old>>>>, <<>>, after)
                  /\ picked' = picked
  BY <1>2 DEF Restore
<1>7. versions' \in Table /\ Keeps
  <2>1. CASE UNCHANGED <<versions, removed>>
    BY <1>1, <2>1, NothingGoes
  <2>2. CASE /\ back /\ e.own
             /\ versions' = [versions EXCEPT ![e.card][e.old] = None]
             /\ removed' = removed \cup ({versions[e.card][e.old]} \ {e.held})
    BY <1>1, <1>3, <1>4, <2>2 DEF Table, Keeps, None
  <2>3. QED
    BY <1>6, <2>1, <2>2
<1>8. after \in Unlisting(Undoable)
  BY <1>1, <1>2 DEF Restoring, Unlisting
<1>9. Shelf' /\ Maker' /\ Undos' /\ Undoable \subseteq Undoable'
  BY <1>6, <1>7, ShapeStays
<1>10. call' \in Unlisting(Undoable') \cup Reading(Undoable')
  <2>1. after \in Unlisting(Undoable') /\ after \in After(Undoable')
    BY <1>8, <1>9 DEF Unlisting, After
  <2>2. <<<<e.card, e.old>>>> \in PickLists /\ <<>> \in Seq(Undoable')
    BY <1>3, SequencesOf DEF PickLists
  <2> HIDE DEF after
  <2>3. Marking(<<<<e.card, e.old>>>>, <<>>, after) \in Reading(Undoable')
    BY <2>1, <2>2, MarkingTyped
  <2>4. QED
    BY <1>6, <2>1, <2>3
<1> HIDE DEF now, back, after
<1>11. Books'
  BY <1>1, <1>3, <1>5, <1>6, NumbersOf DEF Books
<1>12. ShowsVersions
  BY <1>1, <1>3, <1>5, <1>6 DEF ShowsVersions, Books
<1>13. ~e.sealed => shown' = [shown EXCEPT ![e.card] = now]
  BY <1>6
<1>14. TrayTypes'
  BY <1>7, <1>9, <1>10, <1>11, TypesNext DEF Shape, Caller, Calls
<1>15. call'.at \in {"unlist", "mark"}
  BY <1>10 DEF Unlisting, Reading
<1>16. QED
  BY <1>2, <1>7, <1>12, <1>13, <1>14, <1>15 DEF now, back

LEMMA UnlistTyped ==
  ASSUME TrayTypes, Unlist
  PROVE  /\ TrayTypes' /\ Keeps /\ call'.at \in {"other", "idle"}
         /\ \A t \in Turns : SamePictures(tray[t], tray'[t])
<1>1. Books /\ tray \in [Turns -> Seq(Slots)]
  BY TypesAre DEF Shape, Shelf
<1> DEFINE of(t, n) == IF t = call.entry.turn /\ n = call.entry.n
                            /\ tray[t][n].card = call.entry.card
                       THEN [tray[t][n] EXCEPT !.card = NoCard] ELSE tray[t][n]
<1>2. /\ tray' = [t \in Turns |-> [n \in DOMAIN tray[t] |-> of(t, n)]]
      /\ call' = IF call.again THEN [at |-> "other"] ELSE Idle
      /\ UNCHANGED <<turns, pictures, versions, card, history, attempt, removed, calls>>
  BY DEF Unlist
<1>3. versions' \in Table /\ Keeps
  BY <1>2, VersionsTyped, NothingGoes
<1>4. Undos' /\ Maker' /\ Slots \subseteq Slots'
  BY <1>2, <1>3, ShapeStays
<1>5. ASSUME NEW t \in Turns, NEW n \in DOMAIN tray[t]
      PROVE  of(t, n) \in Slots /\ of(t, n).pic = tray[t][n].pic
  <2>1. tray[t] \in Seq(Slots)
    BY <1>1
  <2>2. tray[t][n] \in Slots
    BY <2>1
  <2>3. QED
    BY <2>2 DEF Slots
<1> HIDE DEF of
<1>6. ASSUME NEW t \in Turns
      PROVE  tray'[t] \in Seq(Slots') /\ SamePictures(tray[t], tray'[t])
  <2>1. PICK all \in Seq(Slots) : all = tray[t]
    BY <1>1
  <2>2. DOMAIN all = 1 .. Len(all) /\ Len(all) \in Nat
    BY <2>1
  <2>3. tray'[t] = [n \in 1 .. Len(all) |-> of(t, n)]
    BY <1>2, <2>1, <2>2
  <2>4. \A n \in 1 .. Len(all) : of(t, n) \in Slots' /\ of(t, n).pic = all[n].pic
    BY <1>4, <1>5, <2>1, <2>2
  <2>5. tray'[t] \in Seq(Slots') /\ Len(tray'[t]) = Len(all)
    BY <2>2, <2>3, <2>4
  <2>6. \A n \in DOMAIN all : all[n].pic = tray'[t][n].pic
    BY <2>2, <2>3, <2>4
  <2>7. QED
    BY <2>1, <2>5, <2>6 DEF SamePictures
<1>7. Shelf'
  <2>1. tray' = [t \in Turns |-> tray'[t]]
    BY <1>2
  <2>2. QED
    BY <1>6, <2>1 DEF Shelf
<1>8. call' \in {Idle, [at |-> "other"]}
  BY <1>2
<1>9. Caller' /\ call'.at \in {"other", "idle"}
  BY <1>8 DEF Caller, Calls, Idle
<1>10. Books'
  BY <1>1, <1>2 DEF Books, card
<1>11. QED
  BY <1>3, <1>4, <1>6, <1>7, <1>9, <1>10, TypesNext DEF Shape

LEMMA UploadTyped ==
  ASSUME TrayTypes, NEW c \in Cards, Upload(c)
  PROVE  /\ TrayTypes' /\ Keeps /\ pictures' = pictures + 1
         /\ pictures + 1 \in Range(versions'[c]) /\ shown'[c] = pictures + 1
         /\ \A d \in Cards \ {c} : shown'[d] = shown[d]
<1>1. Books /\ versions \in Table
  BY VersionsTyped, TypesAre DEF Shape
<1>2. PICK pic \in Nat : pic = pictures + 1
  BY <1>1 DEF Books
<1>3. /\ pictures' = pic /\ versions' = Put(versions, c, pic) /\ shown' = [shown EXCEPT ![c] = pic]
      /\ Free(versions, c) # {} /\ calls' = calls + 1
      /\ UNCHANGED <<tray, turns, picked, approved, history, call, attempt, removed>>
  BY <1>2 DEF Upload, Quick
<1>4. NextVersion(versions, c) \in Versions
  BY <1>3, NextIsFree
<1>5. /\ versions' \in Table /\ Within(versions, versions')
      /\ versions'[c][NextVersion(versions, c)] = pic
  BY <1>1, <1>3, PutAdds
<1>6. Keeps
  BY <1>3, <1>5, OnlyAdds
<1>7. pic \in Range(versions'[c])
  BY <1>4, <1>5 DEF Range, Table
<1>8. Shelf' /\ Undos' /\ Caller' /\ Maker'
  BY <1>3, <1>5, <1>6, ShapeStays
<1>9. Books' /\ shown'[c] = pic /\ \A d \in Cards \ {c} : shown'[d] = shown[d]
  BY <1>1, <1>3 DEF Books
<1>10. QED
  BY <1>2, <1>3, <1>5, <1>6, <1>7, <1>8, <1>9, TypesNext DEF Shape

(* The requests of one step, without an upload.                            *)
QuickRequests ==
  \/ \E c \in Cards : ForgetMark(c) \/ Approve(c)
  \/ \E c \in Cards, v \in Versions : Pick(c, v) \/ DeleteVersion(c, v)

LEMMA QuickRequestsTyped ==
  ASSUME TrayTypes, QuickRequests
  PROVE  TrayTypes' /\ Keeps /\ ShowsVersions
<1>1. Books /\ versions \in Table
  BY VersionsTyped, TypesAre DEF Shape
<1>2. UNCHANGED <<tray, turns, pictures, history, call, attempt>> /\ calls' = calls + 1
  BY DEF QuickRequests, ForgetMark, Approve, Pick, DeleteVersion, Quick, store
<1>3. ASSUME NEW c \in Cards, ForgetMark(c) \/ Approve(c)
      PROVE  versions' \in Table /\ Keeps /\ Books' /\ ShowsVersions
  <2>1. UNCHANGED <<versions, removed, shown>>
    BY <1>3 DEF ForgetMark, Approve, store
  <2>2. versions' \in Table /\ Keeps
    BY <1>1, <2>1, NothingGoes
  <2>3. picked' \in [Cards -> Numbers] /\ approved' \subseteq Cards
    <3>1. picked' = [picked EXCEPT ![c] = None] \/ picked' = picked
      BY <1>3 DEF ForgetMark, Approve
    <3>2. approved' \in {approved, approved \ {c}, approved \cup {c}}
      BY <1>3 DEF ForgetMark, Approve
    <3>3. QED
      BY <1>1, <3>1, <3>2, NumbersOf DEF Books
  <2>4. Books' /\ ShowsVersions
    BY <1>1, <1>2, <2>1, <2>3 DEF Books, ShowsVersions
  <2>5. QED
    BY <2>2, <2>4
<1>4. ASSUME NEW c \in Cards, NEW v \in Versions, Pick(c, v)
      PROVE  versions' \in Table /\ Keeps /\ Books' /\ ShowsVersions
  <2>1. /\ shown' = [shown EXCEPT ![c] = versions[c][v]]
        /\ picked' = [picked EXCEPT ![c] = v]
        /\ UNCHANGED <<versions, removed, approved>>
    BY <1>4 DEF Pick, store
  <2>2. versions' \in Table /\ Keeps
    BY <1>1, <2>1, NothingGoes
  <2>3. versions[c][v] \in Nat /\ versions[c][v] \in Range(versions[c]) /\ v \in Numbers
    BY VersionOf, NumbersOf
  <2>4. Books' /\ ShowsVersions
    BY <1>1, <1>2, <2>1, <2>3 DEF Books, ShowsVersions
  <2>5. QED
    BY <2>2, <2>4
<1>5. ASSUME NEW c \in Cards, NEW v \in Versions, DeleteVersion(c, v)
      PROVE  versions' \in Table /\ Keeps /\ Books' /\ ShowsVersions
  <2>1. /\ versions' = [versions EXCEPT ![c][v] = None]
        /\ removed' = removed \cup {versions[c][v]}
        /\ picked' = [picked EXCEPT ![c] = None] \/ picked' = picked
        /\ UNCHANGED <<shown, approved>>
    BY <1>5 DEF DeleteVersion
  <2>2. versions' \in Table /\ Keeps
    BY <1>1, <2>1 DEF Table, Keeps, None
  <2>3. Books' /\ ShowsVersions
    BY <1>1, <1>2, <2>1, NumbersOf DEF Books, ShowsVersions
  <2>4. QED
    BY <2>2, <2>3
<1>6. versions' \in Table /\ Keeps /\ Books' /\ ShowsVersions
  BY <1>3, <1>4, <1>5 DEF QuickRequests
<1>7. Shelf' /\ Undos' /\ Caller' /\ Maker'
  BY <1>2, <1>6, ShapeStays
<1>8. QED
  BY <1>6, <1>7, TypesNext DEF Shape

LEMMA RestartTyped ==
  ASSUME TrayTypes, Restart
  PROVE  TrayTypes' /\ Keeps
<1>1. versions' \in Table /\ Keeps
  BY VersionsTyped, NothingGoes DEF Restart, store
<1>2. Shelf' /\ Undos' /\ Caller' /\ Maker'
  BY <1>1, ShapeStays DEF Restart, store
<1>3. Books'
  BY TypesAre DEF Restart, Shape, Books, store, card
<1>4. QED
  BY <1>1, <1>2, <1>3, TypesNext DEF Shape

-----------------------------------------------------------------------------
(* Two lists of the same pictures.                                         *)

LEMMA SamePair ==
  ASSUME NEW S, NEW a \in Seq(S), NEW b \in Seq(S), SamePictures(a, b)
  PROVE  /\ SamePictures(b, a) /\ (a = <<>> <=> b = <<>>)
         /\ \A c \in Seq(S) : SamePictures(b, c) => SamePictures(a, c)
<1>1. DOMAIN a = DOMAIN b /\ Len(a) = Len(b) /\ Len(<<>>) = 0
  BY DEF SamePictures
<1>2. SamePictures(b, a)
  BY <1>1 DEF SamePictures
<1>3. ASSUME NEW c \in Seq(S), SamePictures(b, c)
      PROVE  SamePictures(a, c)
  BY <1>1, <1>3 DEF SamePictures
<1>4. a = <<>> <=> b = <<>>
  BY <1>1
<1>5. QED
  BY <1>2, <1>3, <1>4

(* A step that leaves every turn its pictures.                             *)
SameTray == turns' = turns /\ \A t \in Turns : SamePictures(tray[t], tray'[t])

LEMMA TrayStays ==
  ASSUME UNCHANGED <<tray, turns>>
  PROVE  SameTray
BY DEF SameTray, SamePictures

(* Both trays as lists of the same set.                                    *)
LEMMA BothTrays ==
  ASSUME TrayTypes, TrayTypes', Keeps, NEW t \in Turns
  PROVE  /\ tray[t] \in Seq(Slots') /\ tray'[t] \in Seq(Slots') /\ Seq(Slots) \subseteq Seq(Slots')
         /\ call.at \in {"attach", "list"} => call.copy \in Seq(Slots')
         /\ attempt.at # "idle" => attempt.copy \in Seq(Slots')
<1>1. versions' \in Table
  BY DEF TrayTypes, Table
<1>2. Seq(Slots) \subseteq Seq(Slots')
  BY <1>1, TypesStay, SeqsGrow
<1>3. tray[t] \in Seq(Slots) /\ tray'[t] \in Seq(Slots')
  BY DEF TrayTypes
<1>4. call.at \in {"attach", "list"} => call.copy \in Seq(Slots)
  BY CallAt DEF TrayTypes, Attaching
<1>5. attempt.at # "idle" => attempt.copy \in Seq(Slots)
  <2>1. attempt.at # "idle" => attempt \in Tries(Slots)
    BY TryAt DEF TrayTypes
  <2>2. QED
    BY <2>1 DEF Tries
<1>6. QED
  BY <1>2, <1>3, <1>4, <1>5

LEMMA BlankStays ==
  ASSUME TrayTypes, TrayTypes', Keeps, SameTray, Blank
  PROVE  Blank'
<1> SUFFICES ASSUME NEW t \in Turns, t > turns' PROVE tray'[t] = <<>>
  BY DEF Blank
<1>1. tray[t] = <<>> /\ SamePictures(tray[t], tray'[t])
  BY DEF Blank, SameTray
<1>2. QED
  BY <1>1, BothTrays, SamePair

LEMMA CallStays ==
  ASSUME TrayTypes, TrayTypes', Keeps, SameTray, CallAgrees,
         \/ call' = call
         \/ call'.at \notin {"attach", "list"}
         \/ /\ call.at \in {"attach", "list"}
            /\ call'.entry = call.entry /\ call'.copy = call.copy
  PROVE  CallAgrees'
<1> SUFFICES ASSUME call'.at \in {"attach", "list"} PROVE CallAgrees'
  BY DEF CallAgrees
<1>1. call.at \in {"attach", "list"} /\ call'.entry = call.entry /\ call'.copy = call.copy
  OBVIOUS
<1>2. PICK t \in 1 .. turns : t = call.entry.turn
  BY <1>1 DEF CallAgrees
<1>3. t \in Turns /\ turns' = turns
  BY <1>2, TrayAssumption DEF TrayTypes, Turns, SameTray
<1>4. tray[t] = <<>> \/ SamePictures(tray[t], call.copy)
  BY <1>1, <1>2 DEF CallAgrees
<1>5. tray'[t] = <<>> \/ SamePictures(tray'[t], call.copy)
  <2>1. /\ tray[t] \in Seq(Slots') /\ tray'[t] \in Seq(Slots') /\ call.copy \in Seq(Slots')
        /\ SamePictures(tray[t], tray'[t])
    BY <1>1, <1>3, BothTrays DEF SameTray
  <2>2. SamePictures(tray'[t], tray[t]) /\ (tray[t] = <<>> => tray'[t] = <<>>)
    BY <2>1, SamePair
  <2>3. QED
    BY <1>4, <2>1, <2>2, SamePair
<1>6. QED
  BY <1>1, <1>2, <1>3, <1>5 DEF CallAgrees

LEMMA AttemptStays ==
  ASSUME TrayTypes, TrayTypes', Keeps, SameTray, AttemptAgrees,
         attempt' = attempt \/ attempt' = Idle
  PROVE  AttemptAgrees'
<1>1. CASE attempt' = Idle
  BY <1>1 DEF AttemptAgrees, Idle
<1>2. CASE attempt' = attempt /\ attempt.at \in {"save", "close"}
  <2>1. PICK t \in 1 .. turns : t = attempt.turn
    BY <1>2 DEF AttemptAgrees
  <2>2. t \in Turns
    BY <2>1, TrayAssumption DEF TrayTypes, Turns
  <2>3. /\ tray[t] \in Seq(Slots') /\ tray'[t] \in Seq(Slots') /\ attempt.copy \in Seq(Slots')
        /\ SamePictures(tray[t], tray'[t]) /\ SamePictures(tray[t], attempt.copy)
    BY <1>2, <2>1, <2>2, BothTrays DEF SameTray, AttemptAgrees
  <2>4. SamePictures(tray'[t], tray[t])
    BY <2>3, SamePair
  <2>5. SamePictures(tray'[t], attempt.copy)
    BY <2>3, <2>4, SamePair
  <2>6. QED
    BY <1>2, <2>1, <2>5 DEF AttemptAgrees, SameTray
<1>3. CASE attempt' = attempt /\ attempt.at \notin {"save", "close"}
  BY <1>3 DEF AttemptAgrees, SameTray
<1>4. QED
  BY <1>1, <1>2, <1>3

(* What a card shows stays found.                                          *)
LEMMA ShownStays ==
  ASSUME TrayTypes, TrayTypes', Keeps, ShownIsSecured, NEW c \in Cards,
         shown'[c] \in {shown[c], None} \cup Range(versions[c]), shown'[c] # None
  PROVE  shown'[c] \in removed' \/ shown'[c] \in Range(versions'[c])
<1>1. CASE shown'[c] \in removed
  BY <1>1 DEF Keeps
<1>2. CASE shown'[c] \in Range(versions[c])
  <2>1. PICK v \in Versions : versions[c][v] = shown'[c]
    BY <1>2 DEF Range, TrayTypes
  <2>2. versions'[c][v] = shown'[c] \/ shown'[c] \in removed'
    BY <2>1 DEF Keeps
  <2>3. versions'[c][v] \in Range(versions'[c])
    BY DEF Range, TrayTypes
  <2>4. QED
    BY <2>2, <2>3
<1>3. QED
  BY <1>1, <1>2 DEF ShownIsSecured

LEMMA StillSecured ==
  ASSUME TrayTypes, TrayTypes', Keeps, NEW pic, pic # None, Secured(pic)
  PROVE  Secured(pic)'
<1>1. versions' \in Table
  BY DEF TrayTypes, Table
<1>2. QED
  BY <1>1, TypesStay

LEMMA StillInTray ==
  ASSUME SameTray, TrayTypes, TrayTypes', Keeps, NEW pic, InTray(pic)
  PROVE  InTray(pic)'
<1>1. PICK t \in Turns : \E n \in DOMAIN tray[t] : tray[t][n].pic = pic
  BY DEF InTray
<1>2. PICK n \in DOMAIN tray[t] : tray[t][n].pic = pic
  BY <1>1
<1>3. tray[t] \in Seq(Slots') /\ tray'[t] \in Seq(Slots') /\ SamePictures(tray[t], tray'[t])
  BY BothTrays DEF SameTray
<1>4. n \in DOMAIN tray'[t] /\ tray'[t][n].pic = pic
  BY <1>2, <1>3 DEF SamePictures
<1>5. QED
  BY <1>4 DEF InTray

(* What every step but a download, a trimming and an upload has to show.   *)
LEMMA StepKeeps ==
  ASSUME TrayInv, TrayTypes', Keeps, SameTray, ShowsVersions, pictures' = pictures,
         CallAgrees', AttemptAgrees'
  PROVE  TrayInv'
<1>1. TrayTypes /\ CopiesAgree /\ ShownIsSecured /\ PicturesHeld
  BY DEF TrayInv
<1>2. CopiesAgree'
  BY <1>1, BlankStays DEF CopiesAgree
<1>3. ShownIsSecured'
  BY <1>1, ShownStays DEF ShownIsSecured, ShowsVersions
<1>4. PicturesHeld'
  <2> SUFFICES ASSUME NEW pic \in 1 .. pictures PROVE Secured(pic)' \/ InTray(pic)'
    BY DEF PicturesHeld
  <2>1. pic # None
    BY <1>1 DEF None, TrayTypes
  <2>2. QED
    BY <1>1, <2>1, StillSecured, StillInTray DEF PicturesHeld
<1>5. QED
  BY <1>2, <1>3, <1>4 DEF TrayInv

-----------------------------------------------------------------------------
(* The steps of the attempt.                                               *)

LEMMA ShownAsBefore ==
  ASSUME TrayTypes, shown' = shown
  PROVE  ShowsVersions
BY DEF ShowsVersions

LEMMA StartKeeps ==
  ASSUME TrayInv, NEW lot \in Lots, StartAttempt(lot)
  PROVE  TrayInv'
<1>1. TrayTypes /\ CopiesAgree
  BY DEF TrayInv
<1>2. TrayTypes' /\ Keeps
  BY <1>1, StartTyped
<1>3. /\ UNCHANGED <<tray, turns, pictures, shown, call>> /\ turns < MaxTurns
      /\ attempt' = [at |-> "render", lot |-> lot, turn |-> 0, copy |-> <<>>, saved |-> <<>>]
  BY DEF StartAttempt, store, card
<1>4. SameTray /\ ShowsVersions
  BY <1>1, <1>3, TrayStays, ShownAsBefore
<1>5. CallAgrees'
  BY <1>1, <1>2, <1>3, <1>4, CallStays DEF CopiesAgree
<1>6. AttemptAgrees'
  BY <1>3 DEF AttemptAgrees
<1>7. QED
  BY <1>2, <1>3, <1>4, <1>5, <1>6, StepKeeps

LEMMA EndSaveKeeps ==
  ASSUME TrayInv, Crooked \/ Saved \/ SaveFails
  PROVE  TrayInv'
<1>1. TrayTypes /\ CopiesAgree
  BY DEF TrayInv
<1>2. TrayTypes' /\ Keeps
  BY <1>1, EndSaveTyped
<1>3. /\ UNCHANGED <<tray, turns, pictures, shown, call>>
      /\ attempt.at = "save" /\ attempt' = [attempt EXCEPT !.at = "close"]
  BY DEF Crooked, Saved, SaveFails, store, card, AttemptAt, AttemptGoes
<1>4. SameTray /\ ShowsVersions
  BY <1>1, <1>3, TrayStays, ShownAsBefore
<1>5. CallAgrees'
  BY <1>1, <1>2, <1>3, <1>4, CallStays DEF CopiesAgree
<1>6. attempt \in Tries(Slots)
  BY <1>1, <1>3, TryAt DEF TrayTypes
<1>7. /\ attempt'.at = "close" /\ attempt'.turn = attempt.turn
      /\ attempt'.copy = attempt.copy
  BY <1>3, <1>6 DEF Tries
<1>8. AttemptAgrees'
  BY <1>1, <1>3, <1>7 DEF CopiesAgree, AttemptAgrees
<1>9. QED
  BY <1>2, <1>3, <1>4, <1>5, <1>8, StepKeeps

LEMMA SaveKeeps ==
  ASSUME TrayInv, SaveNext
  PROVE  TrayInv'
<1>1. TrayTypes /\ CopiesAgree
  BY DEF TrayInv
<1>2. /\ TrayTypes' /\ Keeps
      /\ attempt'.copy \in Seq(Slots') /\ SamePictures(attempt.copy, attempt'.copy)
      /\ Len(attempt'.saved) = Len(attempt.saved) + 1
  BY <1>1, SaveTyped
<1>3. /\ UNCHANGED <<tray, turns, pictures, shown, call>>
      /\ attempt.at = "save" /\ Len(attempt.saved) < Len(attempt.lot)
  BY DEF SaveNext, card, AttemptAt
<1>4. SameTray /\ ShowsVersions
  BY <1>1, <1>3, TrayStays, ShownAsBefore
<1>5. CallAgrees'
  BY <1>1, <1>2, <1>3, <1>4, CallStays DEF CopiesAgree
<1>6. attempt \in Tries(Slots)
  BY <1>1, <1>3, TryAt DEF TrayTypes
<1>7. /\ attempt'.at = "save" /\ attempt'.turn = attempt.turn /\ attempt'.lot = attempt.lot
  BY <1>3, <1>6 DEF SaveNext, Tries
<1>8. PICK t \in 1 .. turns : t = attempt.turn
  BY <1>1, <1>3 DEF CopiesAgree, AttemptAgrees
<1>9. t \in Turns
  BY <1>1, <1>8, TrayAssumption DEF TrayTypes, Turns
<1>10. SamePictures(tray'[t], attempt'.copy)
  <2>1. tray[t] \in Seq(Slots') /\ attempt.copy \in Seq(Slots')
    BY <1>1, <1>2, <1>3, <1>9, BothTrays
  <2>2. SamePictures(tray[t], attempt.copy)
    BY <1>1, <1>3, <1>8 DEF CopiesAgree, AttemptAgrees
  <2>3. SamePictures(tray[t], attempt'.copy)
    BY <1>2, <2>1, <2>2, SamePair
  <2>4. QED
    BY <1>3, <2>3
<1>11. /\ Len(attempt'.copy) = Len(attempt'.lot) /\ Len(attempt'.saved) <= Len(attempt'.lot)
  <2>1. Len(attempt'.copy) = Len(attempt.copy) /\ Len(attempt.copy) = Len(attempt.lot)
    BY <1>1, <1>2, <1>3 DEF CopiesAgree, AttemptAgrees, SamePictures
  <2>2. PICK l \in Nat : l = Len(attempt.lot)
    BY <1>6 DEF Tries
  <2>3. PICK s \in Nat : s = Len(attempt.saved)
    BY <1>6 DEF Tries
  <2>4. s + 1 <= l
    BY <1>3, <2>2, <2>3
  <2>5. QED
    BY <1>2, <1>7, <2>1, <2>2, <2>3, <2>4
<1>12. AttemptAgrees'
  BY <1>3, <1>7, <1>8, <1>10, <1>11 DEF AttemptAgrees
<1>13. QED
  BY <1>2, <1>3, <1>4, <1>5, <1>12, StepKeeps

LEMMA ApplyKeeps ==
  ASSUME TrayInv, Apply
  PROVE  TrayInv'
<1>1. TrayTypes /\ CopiesAgree
  BY DEF TrayInv
<1>2. /\ TrayTypes' /\ Keeps
      /\ \A c \in Cards : shown'[c] = shown[c] \/ shown'[c] \in Range(versions[c])
      /\ attempt'.at # "idle" => Len(attempt'.saved) = Len(attempt'.lot)
  BY <1>1, ApplyTyped
<1>3. UNCHANGED <<tray, turns, pictures, call>> /\ attempt.at = "apply"
  BY DEF Apply, store, AttemptAt
<1>4. SameTray /\ ShowsVersions
  BY <1>2, <1>3, TrayStays DEF ShowsVersions
<1>5. CallAgrees'
  BY <1>1, <1>2, <1>3, <1>4, CallStays DEF CopiesAgree
<1>6. attempt \in Tries(Slots)
  BY <1>1, <1>3, TryAt DEF TrayTypes
<1>7. attempt'.at \in {"idle", "apply"}
  BY <1>3, <1>6 DEF Apply, Tries, Idle
<1>8. AttemptAgrees'
  BY <1>2, <1>7 DEF AttemptAgrees
<1>9. QED
  BY <1>2, <1>3, <1>4, <1>5, <1>8, StepKeeps

(* The turns before a download stay as they are; the new one has the new   *)
(* pictures.                                                               *)
LEMMA DownloadKeeps ==
  ASSUME TrayInv, NEW n \in 1 .. MaxPictures, Download(n)
  PROVE  TrayInv'
<1> DEFINE list == [k \in 1 .. n |-> [pic |-> pictures + k, card |-> NoCard]]
<1>1. TrayTypes /\ CopiesAgree /\ ShownIsSecured /\ PicturesHeld
  BY DEF TrayInv
<1>2. attempt.at = "render" /\ turns < MaxTurns /\ attempt.saved = <<>>
  BY <1>1 DEF Download, AttemptAt, CopiesAgree, AttemptAgrees
<1>3. TrayTypes' /\ Keeps
  BY <1>1, <1>2, DownloadTyped
<1>4. /\ turns' = turns + 1 /\ pictures' = pictures + n
      /\ tray' = [tray EXCEPT ![turns + 1] = list]
      /\ attempt' = [attempt EXCEPT !.turn = turns + 1, !.copy = list,
                       !.at = IF n = Len(attempt.lot) THEN "save" ELSE "close"]
      /\ UNCHANGED <<shown, call>>
  BY DEF Download, card
<1>5. /\ n \in Nat /\ pictures \in Nat /\ turns \in Nat /\ turns + 1 \in Turns
      /\ tray \in [Turns -> Seq(Slots)] /\ attempt \in Tries(Slots)
  BY <1>1, <1>2, TryAt, TrayAssumption DEF TrayTypes, Turns
<1>6. /\ DOMAIN list = 1 .. n /\ Len(list) = n
      /\ \A k \in 1 .. n : list[k].pic = pictures + k
  BY <1>5
<1> HIDE DEF list
<1>7. tray'[turns + 1] = list /\ \A t \in Turns \ {turns + 1} : tray'[t] = tray[t]
  BY <1>4, <1>5
<1>8. Blank'
  BY <1>1, <1>4, <1>5, <1>7 DEF Blank, CopiesAgree, Turns
<1>9. CallAgrees'
  <2> SUFFICES ASSUME call.at \in {"attach", "list"} PROVE CallAgrees'
    BY <1>4 DEF CallAgrees
  <2>1. PICK t \in 1 .. turns : t = call.entry.turn
    BY <1>1 DEF CallAgrees, CopiesAgree
  <2>2. t \in Turns \ {turns + 1} /\ t \in 1 .. turns'
    BY <1>4, <1>5, <2>1, TrayAssumption DEF Turns
  <2>3. tray'[t] = tray[t]
    BY <1>7, <2>2
  <2>4. QED
    BY <1>1, <1>4, <2>1, <2>2, <2>3 DEF CallAgrees, CopiesAgree
<1>10. AttemptAgrees'
  <2>1. /\ attempt'.turn = turns + 1 /\ attempt'.copy = list /\ attempt'.saved = <<>>
        /\ attempt'.lot = attempt.lot
        /\ attempt'.at \in {"save", "close"} /\ (attempt'.at = "save" => n = Len(attempt.lot))
    BY <1>2, <1>4, <1>5 DEF Tries
  <2>2. SamePictures(tray'[turns + 1], list)
    BY <1>7 DEF SamePictures
  <2>3. attempt'.turn \in 1 .. turns'
    BY <1>4, <1>5, <2>1
  <2>4. attempt'.at = "save" => /\ Len(attempt'.copy) = Len(attempt'.lot)
                                /\ Len(attempt'.saved) <= Len(attempt'.lot)
    <3>1. Len(<<>>) = 0 /\ 0 <= n
      BY <1>5
    <3>2. QED
      BY <1>6, <2>1, <3>1
  <2>5. QED
    BY <2>1, <2>2, <2>3, <2>4 DEF AttemptAgrees
<1>11. ShownIsSecured'
  BY <1>1, <1>3, <1>4, ShownStays DEF ShownIsSecured
<1>12. PicturesHeld'
  <2> SUFFICES ASSUME NEW pic \in 1 .. pictures + n PROVE Secured(pic)' \/ InTray(pic)'
    BY <1>4 DEF PicturesHeld
  <2>1. CASE pic \in 1 .. pictures
    <3>1. pic # None
      BY <2>1 DEF None
    <3>2. CASE Secured(pic)
      BY <1>1, <1>3, <3>1, <3>2, StillSecured
    <3>3. CASE InTray(pic)
      <4>1. PICK t \in Turns : \E m \in DOMAIN tray[t] : tray[t][m].pic = pic
        BY <3>3 DEF InTray
      <4>2. t # turns + 1
        <5>1. tray[turns + 1] = <<>>
          BY <1>1, <1>5 DEF Blank, CopiesAgree
        <5>2. QED
          BY <4>1, <5>1
      <4>3. tray'[t] = tray[t]
        BY <1>7, <4>2
      <4>4. QED
        BY <4>1, <4>3 DEF InTray
    <3>4. QED
      BY <1>1, <2>1, <3>2, <3>3 DEF PicturesHeld
  <2>2. CASE pic \notin 1 .. pictures
    <3>1. PICK k \in 1 .. n : pic = pictures + k
      <4>1. pic - pictures \in 1 .. n /\ pic = pictures + (pic - pictures)
        BY <1>5, <2>2
      <4>2. QED
        BY <4>1
    <3>2. k \in DOMAIN tray'[turns + 1] /\ tray'[turns + 1][k].pic = pic
      BY <1>6, <1>7, <3>1
    <3>3. QED
      BY <1>5, <3>2 DEF InTray
  <2>3. QED
    BY <2>1, <2>2
<1>13. QED
  BY <1>3, <1>8, <1>9, <1>10, <1>11, <1>12 DEF TrayInv, CopiesAgree

(* Writing a turn back loses none of its pictures; trimming only takes     *)
(* pictures that are on cards.                                             *)
LEMMA CloseKeeps ==
  ASSUME TrayInv, Close
  PROVE  TrayInv'
<1> DEFINE all == [tray EXCEPT ![attempt.turn] = attempt.copy]
<1>1. TrayTypes /\ CopiesAgree /\ ShownIsSecured /\ PicturesHeld
  BY DEF TrayInv
<1>2. /\ TrayTypes' /\ Keeps /\ attempt.turn \in Turns /\ attempt.copy \in Seq(Slots)
      /\ all \in [Turns -> Seq(Slots)]
  BY <1>1, CloseTyped
<1>3. /\ tray' = Trimmed(all) /\ UNCHANGED <<turns, pictures, shown, call>>
      /\ attempt.at = "close"
      /\ attempt' = IF Len(attempt.saved) = Len(attempt.lot)
                    THEN [attempt EXCEPT !.at = "apply"] ELSE Idle
  BY DEF Close, card, AttemptAt, AttemptGoes
<1>4. PICK u \in 1 .. turns : u = attempt.turn /\ SamePictures(tray[u], attempt.copy)
  BY <1>1, <1>3 DEF AttemptAgrees, CopiesAgree
<1>5. /\ u \in Turns /\ all[u] = attempt.copy
      /\ \A t \in Turns \ {u} : all[t] = tray[t]
      /\ tray \in [Turns -> Seq(Slots)]
  BY <1>1, <1>2, <1>4 DEF TrayTypes
<1> HIDE DEF all
<1>6. \A t \in Turns : SamePictures(tray[t], all[t])
  BY <1>4, <1>5 DEF SamePictures
<1>7. \A t \in Turns : tray'[t] = all[t] \/ (tray'[t] = <<>> /\ Attached(all[t]))
  BY <1>2, <1>3, TrimmedLists
<1>8. Blank'
  <2> SUFFICES ASSUME NEW t \in Turns, t > turns PROVE tray'[t] = <<>>
    BY <1>3 DEF Blank
  <2>1. tray[t] = <<>>
    BY <1>1 DEF Blank, CopiesAgree
  <2>2. all[t] = <<>>
    BY <1>2, <1>5, <1>6, <2>1, SamePair
  <2>3. QED
    BY <1>7, <2>2
<1>9. CallAgrees'
  <2> SUFFICES ASSUME call.at \in {"attach", "list"} PROVE CallAgrees'
    BY <1>3 DEF CallAgrees
  <2>1. PICK t \in 1 .. turns : t = call.entry.turn
    BY <1>1 DEF CallAgrees, CopiesAgree
  <2>2. t \in Turns
    BY <1>1, <2>1, TrayAssumption DEF TrayTypes, Turns
  <2>3. tray[t] = <<>> \/ SamePictures(tray[t], call.copy)
    BY <1>1, <2>1 DEF CallAgrees, CopiesAgree
  <2>4. call.copy \in Seq(Slots)
    BY <1>1, CallAt DEF TrayTypes, Attaching
  <2>5. all[t] = <<>> \/ SamePictures(all[t], call.copy)
    <3>1. tray[t] \in Seq(Slots) /\ all[t] \in Seq(Slots) /\ SamePictures(tray[t], all[t])
      BY <1>2, <1>5, <1>6, <2>2
    <3>2. SamePictures(all[t], tray[t]) /\ (tray[t] = <<>> => all[t] = <<>>)
      BY <3>1, SamePair
    <3>3. QED
      BY <2>3, <2>4, <3>1, <3>2, SamePair
  <2>6. tray'[t] = <<>> \/ SamePictures(tray'[t], call.copy)
    BY <1>7, <2>2, <2>5
  <2>7. QED
    BY <1>3, <2>1, <2>6 DEF CallAgrees
<1>10. AttemptAgrees'
  <2>1. attempt \in Tries(Slots)
    BY <1>1, <1>3, TryAt DEF TrayTypes
  <2>2. CASE attempt' = Idle
    BY <2>2 DEF AttemptAgrees, Idle
  <2>3. CASE Len(attempt.saved) = Len(attempt.lot) /\ attempt' = [attempt EXCEPT !.at = "apply"]
    <3>1. attempt'.at = "apply" /\ attempt'.saved = attempt.saved /\ attempt'.lot = attempt.lot
      BY <2>1, <2>3 DEF Tries
    <3>2. QED
      BY <2>3, <3>1 DEF AttemptAgrees
  <2>4. QED
    BY <1>3, <2>2, <2>3
<1>11. ShownIsSecured'
  BY <1>1, <1>2, <1>3, ShownStays DEF ShownIsSecured
<1>12. PicturesHeld'
  <2> SUFFICES ASSUME NEW pic \in 1 .. pictures PROVE Secured(pic)' \/ InTray(pic)'
    BY <1>3 DEF PicturesHeld
  <2>1. pic # None
    BY DEF None
  <2>2. Secured(pic) => Secured(pic)'
    BY <1>1, <1>2, <2>1, StillSecured
  <2>3. CASE InTray(pic)
    <3>1. PICK t \in Turns : \E n \in DOMAIN tray[t] : tray[t][n].pic = pic
      BY <2>3 DEF InTray
    <3>2. PICK n \in DOMAIN tray[t] : tray[t][n].pic = pic
      BY <3>1
    <3>3. tray[t] \in Seq(Slots) /\ all[t] \in Seq(Slots) /\ SamePictures(tray[t], all[t])
      BY <1>2, <1>5, <1>6
    <3>4. n \in DOMAIN all[t] /\ all[t][n].pic = pic
      BY <3>2, <3>3 DEF SamePictures
    <3>5. CASE tray'[t] = all[t]
      BY <3>4, <3>5 DEF InTray
    <3>6. CASE Attached(all[t])
      <4>1. all[t][n] \in Slots /\ all[t][n].card # NoCard
        BY <3>3, <3>4, <3>6 DEF Attached
      <4>2. Secured(pic)
        BY <3>4, <4>1 DEF Slots
      <4>3. QED
        BY <2>2, <4>2
    <3>7. QED
      BY <1>7, <3>5, <3>6
  <2>4. QED
    BY <1>1, <2>2, <2>3 DEF PicturesHeld
<1>13. QED
  BY <1>2, <1>8, <1>9, <1>10, <1>11, <1>12 DEF TrayInv, CopiesAgree

-----------------------------------------------------------------------------
(* The steps of the user.                                                  *)

LEMMA AskKeeps ==
  ASSUME TrayInv,
         \/ \E c \in Cards, t \in Turns, n \in 1 .. MaxPictures : BeginAttach(c, t, n)
         \/ \E a, b \in Cards : BeginCopy(a, b) \/ BeginSwap(a, b)
  PROVE  TrayInv'
<1>1. TrayTypes /\ CopiesAgree /\ ShownIsSecured
  BY DEF TrayInv
<1>2. TrayTypes' /\ Keeps
  BY <1>1, AskTyped
<1>3. UNCHANGED <<tray, turns, pictures, shown, attempt>>
  BY DEF BeginAttach, BeginCopy, BeginSwap, card
<1>4. SameTray /\ ShowsVersions
  BY <1>1, <1>3, TrayStays, ShownAsBefore
<1>5. AttemptAgrees'
  BY <1>1, <1>2, <1>3, <1>4, AttemptStays DEF CopiesAgree
<1>6. CallAgrees'
  <2>1. ASSUME NEW c \in Cards, NEW t \in Turns, NEW n \in 1 .. MaxPictures, BeginAttach(c, t, n)
        PROVE  CallAgrees'
    <3>1. n \in Nat
      BY TrayAssumption
    <3>2. call'.entry.turn = t /\ SamePictures(tray[t], call'.copy)
      BY <1>1, <2>1, <3>1, AttachTyped
    <3>3. t \in 1 .. turns
      <4>1. tray[t] # <<>>
        <5>1. n \in DOMAIN tray[t]
          BY <2>1 DEF BeginAttach
        <5>2. QED
          BY <5>1
      <4>2. ~(t > turns)
        BY <1>1, <4>1 DEF CopiesAgree, Blank
      <4>3. t \in Nat /\ t >= 1 /\ turns \in Nat
        BY <1>1, TrayAssumption DEF Turns, TrayTypes
      <4>4. QED
        BY <4>2, <4>3
    <3>4. QED
      BY <1>3, <3>2, <3>3 DEF CallAgrees
  <2>2. ASSUME NEW a \in Cards, NEW b \in Cards, BeginCopy(a, b) \/ BeginSwap(a, b)
        PROVE  CallAgrees'
    <3>1. call'.at \in {"idle", "show"}
      BY <2>2 DEF BeginCopy, BeginSwap, Idle
    <3>2. QED
      BY <3>1 DEF CallAgrees
  <2>3. QED
    BY <2>1, <2>2
<1>7. QED
  BY <1>2, <1>3, <1>4, <1>5, <1>6, StepKeeps

(* The steps of a request that change no list.                             *)
LEMMA GoOnKeeps ==
  ASSUME TrayInv,
         \/ ShowAttached \/ ShowCards \/ ReadBoard \/ WriteBoard
         \/ BeginUndo \/ UndoOther \/ Restore
  PROVE  TrayInv'
<1>1. TrayTypes /\ CopiesAgree
  BY DEF TrayInv
<1>2. UNCHANGED <<tray, turns, pictures, attempt>>
  BY DEF ShowAttached, ShowCards, ReadBoard, WriteBoard, BeginUndo, UndoOther, Undo, Restore, store
<1>3. SameTray
  BY <1>2, TrayStays
<1>4. CASE ShowAttached
  <2>1. call.at = "attach"
    BY <1>4 DEF ShowAttached
  <2>2. QED
    BY <1>1, <1>2, <1>3, <1>4, <2>1, ShowAttachedTyped, CallStays, AttemptStays, StepKeeps
       DEF CopiesAgree
<1>5. CASE ShowCards
  BY <1>1, <1>2, <1>3, <1>5, ShowTyped, CallStays, AttemptStays, StepKeeps DEF CopiesAgree
<1>6. CASE ReadBoard \/ WriteBoard
  <2>1. shown' = shown
    BY <1>6 DEF ReadBoard, WriteBoard, card
  <2>2. TrayTypes' /\ Keeps /\ call'.at \notin {"attach", "list"}
    BY <1>1, <1>6, ReadTyped, WriteTyped
  <2>3. QED
    BY <1>1, <1>2, <1>3, <2>1, <2>2, ShownAsBefore, CallStays, AttemptStays, StepKeeps
       DEF CopiesAgree
<1>7. CASE BeginUndo \/ UndoOther
  <2>1. shown' = shown
    BY <1>7 DEF BeginUndo, UndoOther, Undo, card
  <2>2. TrayTypes' /\ Keeps /\ call'.at = "restore"
    BY <1>1, <1>7, UndoTyped
  <2>3. QED
    BY <1>1, <1>2, <1>3, <2>1, <2>2, ShownAsBefore, CallStays, AttemptStays, StepKeeps
       DEF CopiesAgree
<1>8. CASE Restore
  BY <1>1, <1>2, <1>3, <1>8, RestoreTyped, CallStays, AttemptStays, StepKeeps DEF CopiesAgree
<1>9. QED
  BY <1>4, <1>5, <1>6, <1>7, <1>8

(* The list that is written back has the pictures of the turn.             *)
LEMMA EndAttachKeeps ==
  ASSUME TrayInv, EndAttach
  PROVE  TrayInv'
<1>1. TrayTypes /\ CopiesAgree
  BY DEF TrayInv
<1>2. TrayTypes' /\ Keeps
  BY <1>1, EndAttachTyped
<1>3. /\ UNCHANGED <<turns, pictures, shown, attempt>> /\ call.at = "list" /\ call' = Idle
      /\ tray' = IF tray[call.entry.turn] = <<>> THEN tray
                 ELSE [tray EXCEPT ![call.entry.turn] = call.copy]
  BY DEF EndAttach, card
<1>4. SameTray
  <2>1. PICK u \in 1 .. turns : u = call.entry.turn
    BY <1>1, <1>3 DEF CallAgrees, CopiesAgree
  <2>2. u \in Turns /\ tray \in [Turns -> Seq(Slots)]
    BY <1>1, <2>1, TrayAssumption DEF TrayTypes, Turns
  <2>3. tray[u] = <<>> \/ SamePictures(tray[u], call.copy)
    BY <1>1, <1>3, <2>1 DEF CallAgrees, CopiesAgree
  <2>4. CASE tray[u] = <<>>
    BY <1>3, <2>1, <2>4, TrayStays
  <2>5. CASE tray[u] # <<>>
    <3>1. tray' = [tray EXCEPT ![u] = call.copy]
      BY <1>3, <2>1, <2>5
    <3>2. tray'[u] = call.copy /\ \A t \in Turns \ {u} : tray'[t] = tray[t]
      BY <2>2, <3>1
    <3>3. \A t \in Turns : SamePictures(tray[t], tray'[t])
      BY <2>3, <2>5, <3>2 DEF SamePictures
    <3>4. QED
      BY <1>3, <3>3 DEF SameTray
  <2>6. QED
    BY <2>4, <2>5
<1>5. CallAgrees'
  BY <1>3 DEF CallAgrees, Idle
<1>6. AttemptAgrees'
  BY <1>1, <1>2, <1>3, <1>4, AttemptStays DEF CopiesAgree
<1>7. QED
  BY <1>1, <1>2, <1>3, <1>4, <1>5, <1>6, ShownAsBefore, StepKeeps

LEMMA UnlistKeeps ==
  ASSUME TrayInv, Unlist
  PROVE  TrayInv'
<1>1. TrayTypes /\ CopiesAgree
  BY DEF TrayInv
<1>2. /\ TrayTypes' /\ Keeps /\ call'.at \in {"other", "idle"}
      /\ \A t \in Turns : SamePictures(tray[t], tray'[t])
  BY <1>1, UnlistTyped
<1>3. UNCHANGED <<turns, pictures, shown, attempt>>
  BY DEF Unlist, card
<1>4. SameTray /\ ShowsVersions
  BY <1>1, <1>2, <1>3, ShownAsBefore DEF SameTray
<1>5. CallAgrees'
  BY <1>2 DEF CallAgrees
<1>6. AttemptAgrees'
  BY <1>1, <1>2, <1>3, <1>4, AttemptStays DEF CopiesAgree
<1>7. QED
  BY <1>2, <1>3, <1>4, <1>5, <1>6, StepKeeps

LEMMA QuickRequestsKeep ==
  ASSUME TrayInv, QuickRequests
  PROVE  TrayInv'
<1>1. TrayTypes /\ CopiesAgree
  BY DEF TrayInv
<1>2. TrayTypes' /\ Keeps /\ ShowsVersions
  BY <1>1, QuickRequestsTyped
<1>3. UNCHANGED <<tray, turns, pictures, call, attempt>>
  BY DEF QuickRequests, ForgetMark, Approve, Pick, DeleteVersion, store
<1>4. SameTray
  BY <1>3, TrayStays
<1>5. CallAgrees' /\ AttemptAgrees'
  BY <1>1, <1>2, <1>3, <1>4, CallStays, AttemptStays DEF CopiesAgree
<1>6. QED
  BY <1>2, <1>3, <1>4, <1>5, StepKeeps

LEMMA UploadKeeps ==
  ASSUME TrayInv, NEW c \in Cards, Upload(c)
  PROVE  TrayInv'
<1>1. TrayTypes /\ CopiesAgree /\ ShownIsSecured /\ PicturesHeld
  BY DEF TrayInv
<1>2. /\ TrayTypes' /\ Keeps /\ pictures' = pictures + 1
      /\ pictures + 1 \in Range(versions'[c]) /\ shown'[c] = pictures + 1
      /\ \A d \in Cards \ {c} : shown'[d] = shown[d]
  BY <1>1, UploadTyped
<1>3. UNCHANGED <<tray, turns, call, attempt>>
  BY DEF Upload
<1>4. SameTray
  BY <1>3, TrayStays
<1>5. CopiesAgree'
  BY <1>1, <1>2, <1>3, <1>4, BlankStays, CallStays, AttemptStays DEF CopiesAgree
<1>6. ShownIsSecured'
  <2> SUFFICES ASSUME NEW d \in Cards, shown'[d] # None
               PROVE  shown'[d] \in removed' \/ shown'[d] \in Range(versions'[d])
    BY DEF ShownIsSecured
  <2>1. CASE d = c
    BY <1>2, <2>1
  <2>2. CASE d # c
    BY <1>1, <1>2, <2>2, ShownStays
  <2>3. QED
    BY <2>1, <2>2
<1>7. PicturesHeld'
  <2> SUFFICES ASSUME NEW pic \in 1 .. pictures + 1 PROVE Secured(pic)' \/ InTray(pic)'
    BY <1>2 DEF PicturesHeld
  <2>1. CASE pic \in 1 .. pictures
    <3>1. pic # None
      BY <2>1 DEF None
    <3>2. QED
      BY <1>1, <1>2, <1>4, <2>1, <3>1, StillSecured, StillInTray DEF PicturesHeld
  <2>2. CASE pic \notin 1 .. pictures
    <3>1. pic = pictures + 1
      BY <1>1, <2>2 DEF TrayTypes
    <3>2. QED
      BY <1>2, <3>1 DEF Secured, InVersion
  <2>3. QED
    BY <2>1, <2>2
<1>8. QED
  BY <1>2, <1>5, <1>6, <1>7 DEF TrayInv

LEMMA RestartKeeps ==
  ASSUME TrayInv, Restart
  PROVE  TrayInv'
<1>1. TrayTypes /\ CopiesAgree
  BY DEF TrayInv
<1>2. TrayTypes' /\ Keeps
  BY <1>1, RestartTyped
<1>3. UNCHANGED <<tray, turns, pictures, shown>> /\ call' = Idle /\ attempt' = Idle
  BY DEF Restart, store, card
<1>4. SameTray /\ ShowsVersions
  BY <1>1, <1>3, TrayStays, ShownAsBefore
<1>5. CallAgrees' /\ AttemptAgrees'
  BY <1>3 DEF CallAgrees, AttemptAgrees, Idle
<1>6. QED
  BY <1>2, <1>3, <1>4, <1>5, StepKeeps

-----------------------------------------------------------------------------
(* The theorems.                                                           *)

LEMMA TrayInvInit == TrayInit => TrayInv
<1> SUFFICES ASSUME TrayInit PROVE TrayInv
  OBVIOUS
<1>1. TrayTypes
  BY TrayTypesInit
<1>2. CopiesAgree
  BY DEF TrayInit, CopiesAgree, Blank, CallAgrees, AttemptAgrees, Idle
<1>3. ShownIsSecured
  BY DEF TrayInit, ShownIsSecured
<1>4. PicturesHeld
  BY DEF TrayInit, PicturesHeld
<1>5. QED
  BY <1>1, <1>2, <1>3, <1>4 DEF TrayInv

LEMMA TrayInvNext == TrayInv /\ [TrayNext]_trayVars => TrayInv'
<1> SUFFICES ASSUME TrayInv, [TrayNext]_trayVars PROVE TrayInv'
  OBVIOUS
<1>1. CASE Runtime
  <2>1. ASSUME NEW lot \in Lots, StartAttempt(lot) PROVE TrayInv'
    BY <2>1, StartKeeps
  <2>2. ASSUME NEW n \in 1 .. MaxPictures, Download(n) PROVE TrayInv'
    BY <2>2, DownloadKeeps
  <2>3. QED
    BY <1>1, <2>1, <2>2, EndSaveKeeps, SaveKeeps, CloseKeeps, ApplyKeeps DEF Runtime
<1>2. CASE User
  <2>1. ASSUME NEW c \in Cards, Upload(c) PROVE TrayInv'
    BY <2>1, UploadKeeps
  <2>2. QED
    BY <1>2, <2>1, AskKeeps, GoOnKeeps, EndAttachKeeps, UnlistKeeps, QuickRequestsKeep
       DEF User, QuickRequests
<1>3. CASE Restart
  BY <1>3, RestartKeeps
<1>4. CASE UNCHANGED trayVars
  BY <1>4 DEF trayVars, store, card, TrayInv, TrayTypes, CopiesAgree, Blank, CallAgrees,
     AttemptAgrees, ShownIsSecured, PicturesHeld, Secured, Slots, Undoable, InTray, InVersion
<1>5. QED
  BY <1>1, <1>2, <1>3, <1>4 DEF TrayNext

LEMMA TrayInvAlways == TraySpec => []TrayInv
BY TrayInvInit, TrayInvNext, PTL DEF TraySpec

(* The state of the tray keeps its types: a picture that is marked as      *)
(* attached is a version of a card or was removed by the user, and an undo *)
(* only holds an own copy of a picture that was removed (_pl_gan, _ht_ghi). *)
THEOREM TrayIsTyped == TraySpec => []TrayTypes
<1>1. TrayInv => TrayTypes
  BY DEF TrayInv
<1>2. QED
  BY <1>1, TrayInvAlways, PTL

(* Every picture that was generated or uploaded can be found, however many *)
(* turns, cards, versions and requests there are, unless the user removed  *)
(* it (_pl_don_bot, _live_image_attempt, _pl_gan).                         *)
THEOREM NothingIsLost == TraySpec => []NothingLostUnasked
<1>1. TrayInv => NothingLostUnasked
  BY DEF TrayInv, PicturesHeld, Secured, NothingLostUnasked
<1>2. QED
  BY <1>1, TrayInvAlways, PTL

CrashesCounted == crashes \in Nat

LEMMA CrashesCount == TraySpec => []CrashesCounted
<1>1. TrayInit => CrashesCounted
  BY DEF TrayInit, CrashesCounted
<1>2. CrashesCounted /\ [TrayNext]_trayVars => CrashesCounted'
  <2> SUFFICES ASSUME CrashesCounted, [TrayNext]_trayVars PROVE CrashesCounted'
    OBVIOUS
  <2>1. CASE Runtime
    BY <2>1 DEF CrashesCounted, Runtime, StartAttempt, Download, Crooked, SaveNext, Saved,
       SaveFails, Close, Apply
  <2>2. CASE User
    BY <2>2 DEF CrashesCounted, User, Upload, ForgetMark, Approve, Pick, DeleteVersion,
       BeginAttach, BeginCopy, BeginSwap, ShowAttached, EndAttach, ShowCards, ReadBoard,
       WriteBoard, BeginUndo, UndoOther, Undo, Restore, Unlist
  <2>3. CASE Restart \/ UNCHANGED trayVars
    BY <2>3 DEF CrashesCounted, Restart, trayVars
  <2>4. QED
    BY <2>1, <2>2, <2>3 DEF TrayNext
<1>3. QED
  BY <1>1, <1>2, PTL DEF TraySpec

(* Only Restore ends the undoing of an entry, besides a restart.           *)
LEMMA OnlyRestoreEnds ==
  ASSUME TrayNext, call.at = "restore", call'.at # "restore", crashes' = crashes,
         CrashesCounted
  PROVE  Restore
<1>1. CASE Runtime
  <2>1. call' = call
    BY <1>1 DEF Runtime, StartAttempt, Download, Crooked, SaveNext, Saved, SaveFails, Close,
       Apply
  <2>2. QED
    BY <2>1
<1>2. CASE User
  <2>1. CASE QuickRequests \/ \E c \in Cards : Upload(c)
    <3>1. call' = call
      BY <2>1 DEF QuickRequests, Upload, ForgetMark, Approve, Pick, DeleteVersion
    <3>2. QED
      BY <3>1
  <2>2. QED
    BY <1>2, <2>1 DEF User, QuickRequests, BeginAttach, BeginCopy, BeginSwap, ShowAttached,
       EndAttach, ShowCards, ReadBoard, WriteBoard, BeginUndo, UndoOther, Unlist, NewCall
<1>3. CASE Restart
  BY <1>3 DEF Restart, CrashesCounted
<1>4. QED
  BY <1>1, <1>2, <1>3 DEF TrayNext

(* An undo shows what the card showed when the request began, when the     *)
(* version that was kept still has that picture (_ban_dang_dung, _ht_lui). *)
THEOREM UndosRestore == TraySpec => UndoRestores
<1> DEFINE kept == call.entry.old = None
                     \/ versions[call.entry.card][call.entry.old] = call.entry.was
<1>1. TrayInv /\ CrashesCounted /\ [TrayNext]_trayVars => Undoes(kept)
  <2> SUFFICES ASSUME TrayInv, CrashesCounted, [TrayNext]_trayVars, call.at = "restore",
                      call'.at # "restore", ~call.entry.sealed, crashes' = crashes, kept
               PROVE  shown'[call.entry.card] = call.entry.was
    BY DEF Undoes
  <2>1. Restore
    BY OnlyRestoreEnds DEF trayVars
  <2>2. PICK e \in Undoable : e = call.entry
    BY <2>1, RestoreTyped DEF TrayInv
  <2>3. shown'[e.card] = IF IsFile(versions, e.card, e.old)
                         THEN versions[e.card][e.old] ELSE None
    <3>1. e.card \in Cards /\ shown \in [Cards -> Nat]
      BY <2>2, EntryTyped DEF TrayInv, TrayTypes
    <3>2. QED
      BY <2>1, <2>2, <3>1, RestoreTyped DEF TrayInv
  <2>4. e.old = None => e.was = None
    BY EntryTyped
  <2>5. QED
    BY <2>2, <2>3, <2>4 DEF IsFile
<1>2. QED
  BY <1>1, TrayInvAlways, CrashesCount, PTL DEF TraySpec, UndoRestores
=============================================================================
