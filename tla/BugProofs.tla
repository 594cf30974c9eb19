----------------------------- MODULE BugProofs -----------------------------
(***************************************************************************)
(* The bridge for any number of passes, events, segments and mishaps: what *)
(* counts as told was told, and every repetition has a mishap of its own.  *)
(*                                                                         *)
(* The second is a matter of counting.  A pass that does not know of an    *)
(* event on file may tell it, and may write a checkpoint without it; the   *)
(* times an event was told and the passes that may still tell it are never *)
(* more than the mishaps and one, and when neither the checkpoint nor a    *)
(* pass about to write it knows the event, the one is left over.  It is    *)
(* the same with the issues of a fingerprint.                              *)
(***************************************************************************)
EXTENDS BugReports, FiniteSetTheorems, SequenceTheorems, WellFoundedInduction, TLAPS

Places == {"idle", "read", "next", "save", "end"}
States == [done : SUBSET Nat, issue : [Sites -> Nat]]
Passes == [pc : Places, copy : States, listed : SUBSET Int, seen : SUBSET Nat,
           todo : SUBSET Nat, dirty : BOOLEAN]
Lines == [site : Sites, seg : Nat, whole : BOOLEAN]
Issues == [site : Sites, status : {"open", "closed"}]

BugTypes ==
  /\ journal \in Seq(Lines) /\ Len(journal) <= MaxEvents
  /\ live \in Nat /\ oldest \in Nat
  /\ disk \in States /\ issues \in Seq(Issues)
  /\ told \in [1 .. MaxEvents -> Nat]
  /\ pass \in [Bridges -> Passes] /\ mishaps \in Nat

(* What a pass holds of the checkpoint is true, and what it works on is in *)
(* the journal and not yet done.                                           *)
CopyIsTrue(b) == TrueState(pass[b].copy)
Works(b) ==
  pass[b].pc \in {"next", "save"} =>
    /\ pass[b].seen \subseteq Events
    /\ pass[b].todo \subseteq pass[b].seen \ pass[b].copy.done
HasTold(b) ==
  pass[b].pc = "save" => /\ pass[b].todo # {} /\ told[Current(b)] > 0
                         /\ IssueNow(b) # NoIssue
Untold == \A e \in 1 .. MaxEvents : e \notin Events => told[e] = 0

TrueInv ==
  /\ BugTypes /\ CheckpointIsTrue /\ Untold
  /\ \A b \in Bridges : CopyIsTrue(b) /\ Works(b) /\ HasTold(b)

(* What a pass knows, and its next checkpoint will say; what it has still  *)
(* to tell.                                                                *)
InHand(p) == IF p.pc = "save" THEN {Min(p.todo)} ELSE {}
Knows(p) ==
  IF p.pc = "read" THEN p.copy.done ELSE (p.copy.done \cup InHand(p)) \cap p.seen
Owes(p) == IF p.pc \in {"next", "save"} THEN p.todo \ Knows(p) ELSE {}

(* The passes on their way, those that may still tell an event, and those  *)
(* that may still open an issue.                                           *)
Active == {b \in Bridges : pass[b].pc # "idle"}
MayTell(e) ==
  {b \in Active : e \in Owes(pass[b]) \/ (e \in OnFile /\ e \notin Knows(pass[b]))}
MayOpen(s) == {b \in Active : pass[b].copy.issue[s] = NoIssue}

(* n times so far and the passes in T, each once more, are paid for.       *)
Paid(n, T, m) == n + Cardinality(T) <= 1 + m

(* Nobody is about to write down what the checkpoint does not know.        *)
Forgotten(e) ==
  /\ e \in OnFile /\ e \notin disk.done
  /\ \A b \in Bridges : pass[b].pc = "save" => e \notin Knows(pass[b])
Unnamed(s) ==
  /\ disk.issue[s] = NoIssue
  /\ \A b \in Bridges : pass[b].pc = "save" => pass[b].copy.issue[s] = NoIssue

EventPaid(e) ==
  Paid(told[e], MayTell(e), mishaps) /\ (Forgotten(e) => told[e] <= mishaps)
IssuePaid(s) ==
  /\ Paid(Cardinality(IssuesOf(s)), MayOpen(s), mishaps)
  /\ Unnamed(s) => Cardinality(IssuesOf(s)) <= mishaps

PaidInv ==
  /\ TrueInv /\ Paid(0, Active, mishaps)
  /\ \A e \in Events : EventPaid(e)
  /\ \A s \in Sites : IssuePaid(s)

-----------------------------------------------------------------------------
(* Counting.                                                               *)

LEMMA Counting ==
  ASSUME NEW T, T \subseteq Bridges
  PROVE  IsFiniteSet(T) /\ Cardinality(T) \in Nat
BY BugAssumption, FS_Subset, FS_CardinalityType

(* Who is still to tell becomes fewer, or one more for a mishap.           *)
LEMMA PaidFewer ==
  ASSUME NEW n \in Nat, NEW m \in Nat, NEW k \in Nat, m <= k,
         NEW T, NEW U, T \subseteq Bridges, U \subseteq T, Paid(n, T, m)
  PROVE  Paid(n, U, k)
<1>1. IsFiniteSet(T) /\ Cardinality(T) \in Nat
  BY Counting
<1>2. Cardinality(U) \in Nat /\ Cardinality(U) <= Cardinality(T)
  BY <1>1, FS_Subset, FS_CardinalityType
<1>3. QED
  BY <1>1, <1>2 DEF Paid

LEMMA PaidMore ==
  ASSUME NEW n \in Nat, NEW m \in Nat, NEW b \in Bridges,
         NEW T, NEW U, T \subseteq Bridges, U \subseteq T \cup {b}, Paid(n, T, m)
  PROVE  Paid(n, U, m + 1)
<1>1. IsFiniteSet(T) /\ Cardinality(T) \in Nat
  BY Counting
<1>2. /\ IsFiniteSet(T \cup {b}) /\ Cardinality(T \cup {b}) \in Nat
      /\ Cardinality(T \cup {b}) <= Cardinality(T) + 1
  <2>1. /\ IsFiniteSet(T \cup {b})
        /\ Cardinality(T \cup {b}) = IF b \in T THEN Cardinality(T) ELSE Cardinality(T) + 1
    BY <1>1, FS_AddElement
  <2>2. QED
    BY <1>1, <2>1
<1>3. Cardinality(U) \in Nat /\ Cardinality(U) <= Cardinality(T \cup {b})
  BY <1>2, FS_Subset, FS_CardinalityType
<1>4. QED
  BY <1>1, <1>2, <1>3 DEF Paid

(* One of those who were to tell does.                                     *)
LEMMA PaidOut ==
  ASSUME NEW n \in Nat, NEW m \in Nat, NEW T, NEW U, T \subseteq Bridges,
         NEW b \in T, U \subseteq T \ {b}, Paid(n, T, m)
  PROVE  Paid(n + 1, U, m)
<1>1. IsFiniteSet(T) /\ Cardinality(T) \in Nat
  BY Counting
<1>2. /\ IsFiniteSet(T \ {b}) /\ Cardinality(T \ {b}) \in Nat
      /\ Cardinality(T \ {b}) = Cardinality(T) - 1
  <2>1. /\ IsFiniteSet(T \ {b})
        /\ Cardinality(T \ {b}) = IF b \in T THEN Cardinality(T) - 1 ELSE Cardinality(T)
    BY <1>1, FS_RemoveElement
  <2>2. Cardinality(T \ {b}) \in Nat
    BY <2>1, FS_CardinalityType
  <2>3. QED
    BY <2>1, <2>2
<1>3. Cardinality(U) \in Nat /\ Cardinality(U) <= Cardinality(T \ {b})
  BY <1>2, FS_Subset, FS_CardinalityType
<1>4. QED
  BY <1>1, <1>2, <1>3 DEF Paid

(* While there is one who is to tell, or only one at all.                  *)
LEMMA PaidAhead ==
  ASSUME NEW n \in Nat, NEW m \in Nat, NEW T, T \subseteq Bridges, Paid(n, T, m)
  PROVE  n <= 1 + m /\ (T # {} => n <= m)
<1>1. IsFiniteSet(T) /\ Cardinality(T) \in Nat
  BY Counting
<1>2. T # {} => Cardinality(T) # 0
  BY <1>1, FS_EmptySet
<1>3. QED
  BY <1>1, <1>2 DEF Paid

LEMMA PaidAlone ==
  ASSUME NEW n \in Nat, NEW m \in Nat, NEW b \in Bridges, NEW T, T \subseteq {b},
         n <= 1 + m, T # {} => n <= m
  PROVE  Paid(n, T, m)
<1>1. CASE T = {}
  BY <1>1, FS_EmptySet DEF Paid
<1>2. CASE T = {b}
  <2>1. Cardinality(T) = 1
    BY <1>2, FS_Singleton
  <2>2. n <= m
    BY <1>2
  <2>3. QED
    BY <2>1, <2>2 DEF Paid
<1>3. QED
  BY <1>1, <1>2

-----------------------------------------------------------------------------
(* What counts as told was told.                                           *)

LEMMA EarliestIsIn ==
  ASSUME NEW S, S \subseteq Nat, S # {}
  PROVE  Min(S) \in S
<1> DEFINE less == {p \in Nat \X Nat : p[1] < p[2]}
<1>1. IsWellFoundedOn(less, Nat)
  BY NatLessThanWellFounded DEF OpToRel
<1>2. PICK x \in S : \A y \in S : <<y, x>> \notin less
  <2> HIDE DEF less
  <2>1. QED
    BY <1>1, WFMin
<1>3. \A y \in S : x <= y
  <2> TAKE y \in S
  <2>1. x \in Nat /\ y \in Nat
    OBVIOUS
  <2>2. y < x => <<y, x>> \in less
    BY <2>1
  <2>3. ~(y < x)
    <3> HIDE DEF less
    <3>1. QED
      BY <1>2, <2>2
  <2>4. QED
    BY <2>1, <2>3
<1>4. QED
  BY <1>3 DEF Min

(* Nothing is taken back: not a line, not what was told, not an issue.     *)
Grown ==
  /\ Len(journal) <= Len(journal') /\ \A e \in Events : journal'[e] = journal[e]
  /\ \A e \in 1 .. MaxEvents : told[e] <= told'[e]
  /\ \A i \in DOMAIN issues : i \in DOMAIN issues' /\ issues'[i].site = issues[i].site

LEMMA EventsAreNumbers ==
  ASSUME BugTypes
  PROVE  Events \subseteq 1 .. MaxEvents /\ Len(journal) \in Nat
BY BugAssumption DEF BugTypes, Events

LEMMA StaysTrue ==
  ASSUME BugTypes, BugTypes', Grown, NEW state \in States, TrueState(state)
  PROVE  TrueState(state)'
<1>1. \A e \in state.done : e \in Events' /\ told'[e] > 0
  <2> SUFFICES ASSUME NEW e \in state.done PROVE e \in Events' /\ told'[e] > 0
    OBVIOUS
  <2>1. e \in Events /\ told[e] > 0 /\ e \in 1 .. MaxEvents
    BY EventsAreNumbers DEF TrueState
  <2>2. told[e] \in Nat /\ told'[e] \in Nat /\ told[e] <= told'[e]
    BY <2>1 DEF BugTypes, Grown
  <2>3. e \in Events'
    BY <2>1 DEF Events, Grown, BugTypes
  <2>4. QED
    BY <2>1, <2>2, <2>3
<1>2. \A s \in Sites : state.issue[s] # NoIssue =>
        state.issue[s] \in DOMAIN issues' /\ issues'[state.issue[s]].site = s
  BY DEF TrueState, Grown
<1>3. QED
  BY <1>1, <1>2 DEF TrueState

LEMMA CurrentIsAnEvent ==
  ASSUME TrueInv, NEW b \in Bridges, pass[b].pc \in {"next", "save"}, pass[b].todo # {}
  PROVE  /\ Current(b) \in pass[b].todo /\ Current(b) \in Events
         /\ Current(b) \in 1 .. MaxEvents /\ Current(b) \in pass[b].seen
         /\ SiteNow(b) \in Sites
<1>1. pass[b] \in Passes
  BY DEF TrueInv, BugTypes
<1>2. Current(b) \in pass[b].todo
  BY <1>1, EarliestIsIn DEF Current, Passes
<1>3. Current(b) \in pass[b].seen /\ Current(b) \in Events
  BY <1>2 DEF TrueInv, Works
<1>4. journal[Current(b)] \in Lines
  BY <1>3 DEF TrueInv, BugTypes, Events
<1>5. QED
  BY <1>2, <1>3, <1>4, EventsAreNumbers DEF TrueInv, SiteNow, Lines

(* A pass that is left alone.                                              *)
LEMMA RestStays ==
  ASSUME TrueInv, BugTypes', Grown, NEW c \in Bridges, pass'[c] = pass[c]
  PROVE  (CopyIsTrue(c) /\ Works(c) /\ HasTold(c))'
<1>1. pass[c] \in Passes /\ pass[c].copy \in States
  BY DEF TrueInv, BugTypes, Passes
<1>2. CopyIsTrue(c)'
  <2>1. TrueState(pass[c].copy)
    BY DEF TrueInv, CopyIsTrue
  <2>2. /\ \A e \in pass[c].copy.done : e \in Events' /\ told'[e] > 0
        /\ \A s \in Sites : pass[c].copy.issue[s] # NoIssue =>
             /\ pass[c].copy.issue[s] \in DOMAIN issues'
             /\ issues'[pass[c].copy.issue[s]].site = s
    BY <1>1, <2>1, StaysTrue DEF TrueInv, TrueState
  <2>3. QED
    BY <2>2 DEF CopyIsTrue, TrueState
<1>3. Works(c)'
  <2>1. Works(c) /\ Events \subseteq Events'
    BY DEF TrueInv, Events, Grown, BugTypes
  <2>2. QED
    BY <2>1 DEF Works
<1>4. HasTold(c)'
  <2> SUFFICES ASSUME pass[c].pc = "save"
               PROVE  /\ pass[c].todo # {} /\ told'[Min(pass[c].todo)] > 0
                      /\ pass[c].copy.issue[journal'[Min(pass[c].todo)].site] # NoIssue
    BY DEF HasTold, Current, IssueNow, SiteNow
  <2>1. /\ pass[c].todo # {} /\ told[Min(pass[c].todo)] > 0
        /\ pass[c].copy.issue[journal[Min(pass[c].todo)].site] # NoIssue
    BY DEF TrueInv, HasTold, Current, IssueNow, SiteNow
  <2>2. Min(pass[c].todo) \in Events /\ Min(pass[c].todo) \in 1 .. MaxEvents
    BY <2>1, CurrentIsAnEvent DEF Current
  <2>3. journal'[Min(pass[c].todo)] = journal[Min(pass[c].todo)]
    BY <2>2 DEF Grown
  <2>4. /\ told[Min(pass[c].todo)] \in Nat /\ told'[Min(pass[c].todo)] \in Nat
        /\ told[Min(pass[c].todo)] <= told'[Min(pass[c].todo)]
    BY <2>2 DEF Grown, TrueInv, BugTypes
  <2>5. QED
    BY <2>1, <2>3, <2>4
<1>5. QED
  BY <1>2, <1>3, <1>4

LEMMA MoveKeeps ==
  ASSUME TrueInv, BugTypes', Grown, CheckpointIsTrue', Untold',
         NEW b \in Bridges, \A c \in Bridges \ {b} : pass'[c] = pass[c],
         CopyIsTrue(b)', Works(b)', HasTold(b)'
  PROVE  TrueInv'
<1>1. \A c \in Bridges \ {b} : (CopyIsTrue(c) /\ Works(c) /\ HasTold(c))'
  BY RestStays
<1>2. QED
  BY <1>1 DEF TrueInv

-----------------------------------------------------------------------------
(* The steps.                                                              *)

LEMMA InitTrue == Init => TrueInv /\ PaidInv
<1> SUFFICES ASSUME Init PROVE TrueInv /\ PaidInv
  OBVIOUS
<1>1. EmptyState \in States /\ Asleep \in Passes
  BY DEF EmptyState, States, Asleep, Passes, Places, NoIssue
<1>2. BugTypes
  BY <1>1, BugAssumption DEF Init, BugTypes
<1>3. CheckpointIsTrue /\ TrueState(EmptyState)
  BY DEF Init, CheckpointIsTrue, TrueState, EmptyState
<1>4. \A b \in Bridges : pass[b].pc = "idle" /\ pass[b].copy = EmptyState
  BY DEF Init, Asleep
<1>5. TrueInv
  BY <1>2, <1>3, <1>4 DEF TrueInv, CopyIsTrue, Works, HasTold, Untold, Init, Events
<1>6. Active = {} /\ Events = {}
  BY <1>4 DEF Active, Events, Init
<1>7. \A s \in Sites : MayOpen(s) = {} /\ IssuesOf(s) = {}
  BY <1>6 DEF MayOpen, IssuesOf, Init
<1>8. Paid(0, {}, mishaps) /\ 0 <= mishaps /\ Cardinality({}) = 0
  BY FS_EmptySet DEF Paid, Init
<1>9. QED
  BY <1>5, <1>6, <1>7, <1>8 DEF PaidInv, IssuePaid

(* The record of a pass after each of its steps.                           *)
LEMMA PassTyped ==
  ASSUME NEW p \in Passes
  PROVE  /\ Asleep \in Passes
         /\ \A pc \in Places : [p EXCEPT !.pc = pc] \in Passes
         /\ \A state \in States : \A old \in SUBSET Int :
              [Asleep EXCEPT !.pc = "read", !.copy = state, !.listed = old] \in Passes
         /\ \A seen, todo \in SUBSET Nat :
              [p EXCEPT !.pc = "next", !.seen = seen, !.todo = todo] \in Passes
         /\ \A s \in Sites : \A i \in Nat :
              [p EXCEPT !.pc = "save", !.copy.issue[s] = i] \in Passes
         /\ \A done, todo \in SUBSET Nat :
              [p EXCEPT !.pc = "next", !.copy = [p.copy EXCEPT !.done = done],
                        !.todo = todo, !.dirty = TRUE] \in Passes
<1>1. EmptyState \in States
  BY DEF EmptyState, States, NoIssue
<1>2. Asleep \in Passes
  BY <1>1 DEF Asleep, Passes, Places
<1>3. \A pc \in Places : [p EXCEPT !.pc = pc] \in Passes
  BY DEF Passes
<1>4. \A state \in States : \A old \in SUBSET Int :
        [Asleep EXCEPT !.pc = "read", !.copy = state, !.listed = old] \in Passes
  BY DEF Asleep, Passes, Places
<1>5. \A seen, todo \in SUBSET Nat :
        [p EXCEPT !.pc = "next", !.seen = seen, !.todo = todo] \in Passes
  BY DEF Passes, Places
<1>6. \A s \in Sites : \A i \in Nat :
        [p EXCEPT !.pc = "save", !.copy.issue[s] = i] \in Passes
  BY DEF Passes, Places, States
<1>7. \A done, todo \in SUBSET Nat :
        [p EXCEPT !.pc = "next", !.copy = [p.copy EXCEPT !.done = done],
                  !.todo = todo, !.dirty = TRUE] \in Passes
  BY DEF Passes, Places, States
<1>8. QED
  BY <1>2, <1>3, <1>4, <1>5, <1>6, <1>7

(* report() adds at most a line; segments go, none comes back.             *)
LEMMA RaiseAdds ==
  ASSUME BugTypes, NEW s \in Sites, Raise(s)
  PROVE  /\ UNCHANGED <<disk, issues, told, pass, mishaps>>
         /\ live' \in Nat /\ oldest' \in Nat /\ oldest <= oldest'
         /\ \/ UNCHANGED <<journal, oldest>>
            \/ /\ Len(journal) < MaxEvents
               /\ \E line \in Lines : journal' = Append(journal, line)
<1>1. UNCHANGED <<disk, issues, told, pass, mishaps>> /\ Len(journal) < MaxEvents
  BY DEF Raise, tracker
<1>2. CASE UNCHANGED files
  BY <1>1, <1>2 DEF files, BugTypes
<1>3. CASE Write(s)
  <2>1. PICK rotate \in BOOLEAN :
          LET seg == IF rotate THEN live + 1 ELSE live
          IN  /\ journal' = Append(journal, [site |-> s, seg |-> seg,
                                             whole |-> rotate \/ ~tail])
              /\ live' = seg
              /\ oldest' = IF seg - oldest > Kept THEN oldest + 1 ELSE oldest
    BY <1>3 DEF Write
  <2>2. live' \in Nat /\ oldest' \in Nat /\ oldest <= oldest'
    BY <2>1 DEF BugTypes
  <2>3. journal' = Append(journal, [site |-> s, seg |-> live', whole |-> rotate \/ ~tail])
    BY <2>1
  <2>4. (rotate \/ ~tail) \in BOOLEAN
    OBVIOUS
  <2>5. [site |-> s, seg |-> live', whole |-> rotate \/ ~tail] \in Lines
    BY <2>2, <2>4 DEF Lines
  <2>6. QED
    BY <1>1, <2>2, <2>3, <2>5
<1>4. QED
  BY <1>2, <1>3 DEF Raise, HoldBack, files

LEMMA RaiseTrue ==
  ASSUME TrueInv, NEW s \in Sites, Raise(s)
  PROVE  TrueInv' /\ Grown
<1>1. /\ UNCHANGED <<disk, issues, told, pass, mishaps>>
      /\ live' \in Nat /\ oldest' \in Nat
      /\ \/ journal' = journal
         \/ /\ Len(journal) < MaxEvents
            /\ \E line \in Lines : journal' = Append(journal, line)
  BY RaiseAdds DEF TrueInv
<1>2. /\ journal' \in Seq(Lines) /\ Len(journal') <= MaxEvents
      /\ Len(journal) <= Len(journal') /\ \A e \in Events : journal'[e] = journal[e]
  <2>1. CASE journal' = journal
    BY <2>1, EventsAreNumbers DEF TrueInv, BugTypes
  <2>2. CASE Len(journal) < MaxEvents /\ \E line \in Lines : journal' = Append(journal, line)
    <3>1. PICK line \in Lines : journal' = Append(journal, line)
      BY <2>2
    <3>2. journal \in Seq(Lines) /\ MaxEvents \in Nat
      BY BugAssumption DEF TrueInv, BugTypes
    <3>3. Len(journal') = Len(journal) + 1 /\ journal' \in Seq(Lines) /\ Len(journal) \in Nat
      BY <3>1, <3>2
    <3>4. \A e \in 1 .. Len(journal) : journal'[e] = journal[e]
      BY <3>1, <3>2
    <3>5. QED
      BY <2>2, <3>2, <3>3, <3>4 DEF Events
  <2>3. QED
    BY <1>1, <2>1, <2>2
<1>3. BugTypes' /\ Grown
  <2>1. \A e \in 1 .. MaxEvents : told[e] <= told'[e]
    BY <1>1 DEF TrueInv, BugTypes
  <2>2. BugTypes'
    BY <1>1, <1>2 DEF TrueInv, BugTypes
  <2>3. QED
    BY <1>1, <1>2, <2>1, <2>2 DEF Grown
<1>4. CheckpointIsTrue'
  <2>1. TrueState(disk)'
    BY <1>1, <1>3, StaysTrue DEF TrueInv, BugTypes, CheckpointIsTrue, TrueState
  <2>2. QED
    BY <2>1 DEF CheckpointIsTrue
<1>5. Untold'
  <2>1. Events \subseteq Events'
    BY <1>2, EventsAreNumbers DEF Events, TrueInv, BugTypes
  <2>2. QED
    BY <1>1, <2>1 DEF TrueInv, Untold
<1>6. \A c \in Bridges : (CopyIsTrue(c) /\ Works(c) /\ HasTold(c))'
  BY <1>1, <1>3, RestStays
<1>7. QED
  BY <1>3, <1>4, <1>5, <1>6 DEF TrueInv

(* The tracker's issues change, none goes.                                 *)
LEMMA CloseTrue ==
  ASSUME TrueInv, NEW i \in DOMAIN issues, PeopleClose(i)
  PROVE  /\ TrueInv' /\ Grown
         /\ \A s \in Sites : IssuesOf(s)' = IssuesOf(s)
<1>1. /\ issues' = [issues EXCEPT ![i].status = "closed"]
      /\ UNCHANGED <<journal, live, oldest, disk, told, pass, mishaps>>
  BY DEF PeopleClose, files
<1>2. issues' \in Seq(Issues) /\ DOMAIN issues' = DOMAIN issues
      /\ \A k \in DOMAIN issues : issues'[k].site = issues[k].site
  <2>1. issues \in Seq(Issues)
    BY DEF TrueInv, BugTypes
  <2>2. /\ [issues[i] EXCEPT !.status = "closed"] \in Issues
        /\ [issues[i] EXCEPT !.status = "closed"].site = issues[i].site
    <3>1. issues[i] \in Issues
      BY <2>1
    <3>2. QED
      BY <3>1 DEF Issues
  <2>3. QED
    BY <1>1, <2>1, <2>2
<1>3. BugTypes' /\ Grown
  <2>1. \A e \in 1 .. MaxEvents : told[e] <= told'[e]
    BY <1>1 DEF TrueInv, BugTypes
  <2>2. BugTypes'
    BY <1>1, <1>2 DEF TrueInv, BugTypes
  <2>3. Len(journal) <= Len(journal')
    BY <1>1, EventsAreNumbers DEF TrueInv
  <2>4. QED
    BY <1>1, <1>2, <2>1, <2>2, <2>3 DEF Grown
<1>4. CheckpointIsTrue'
  BY <1>1, <1>3, StaysTrue DEF TrueInv, BugTypes, CheckpointIsTrue, TrueState
<1>5. Untold'
  BY <1>1 DEF TrueInv, Untold, Events
<1>6. \A c \in Bridges : (CopyIsTrue(c) /\ Works(c) /\ HasTold(c))'
  BY <1>1, <1>3, RestStays
<1>7. QED
  BY <1>2, <1>3, <1>4, <1>5, <1>6 DEF TrueInv, IssuesOf

(* A step of a pass that tells the tracker nothing.                        *)
LEMMA QuietMove ==
  ASSUME TrueInv, UNCHANGED <<journal, live, oldest, told, issues>>, mishaps' \in Nat,
         disk' \in States, TrueState(disk'),
         NEW b \in Bridges, NEW q \in Passes, pass' = [pass EXCEPT ![b] = q],
         TrueState(q.copy), q.pc # "save",
         q.pc = "next" => /\ q.seen \subseteq Events
                          /\ q.todo \subseteq q.seen \ q.copy.done
  PROVE  TrueInv' /\ Grown
<1>1. pass'[b] = q /\ \A c \in Bridges \ {b} : pass'[c] = pass[c]
  BY DEF TrueInv, BugTypes
<1>2. BugTypes' /\ Grown
  <2>1. BugTypes'
    BY DEF TrueInv, BugTypes
  <2>2. Len(journal) <= Len(journal') /\ \A e \in 1 .. MaxEvents : told[e] <= told'[e]
    BY EventsAreNumbers DEF TrueInv, BugTypes
  <2>3. QED
    BY <2>1, <2>2 DEF Grown
<1>3. CheckpointIsTrue'
  BY DEF CheckpointIsTrue, TrueState, Events
<1>4. CopyIsTrue(b)' /\ Works(b)' /\ HasTold(b)'
  BY <1>1 DEF CopyIsTrue, TrueState, Works, HasTold, Events
<1>5. Untold'
  BY DEF TrueInv, Untold, Events
<1>6. QED
  BY <1>1, <1>2, <1>3, <1>4, <1>5, MoveKeeps

LEMMA CopiesAreTrue ==
  ASSUME TrueInv, NEW b \in Bridges
  PROVE  /\ pass[b] \in Passes /\ pass[b].copy \in States /\ disk \in States
         /\ pass[b].pc \in Places
         /\ mishaps \in Nat /\ mishaps + 1 \in Nat
         /\ TrueState(pass[b].copy) /\ TrueState(disk)
         /\ TrueState(EmptyState) /\ EmptyState \in States
         /\ Asleep \in Passes /\ Asleep.copy = EmptyState /\ Asleep.pc = "idle"
<1>1. pass[b] \in Passes /\ disk \in States /\ mishaps \in Nat
  BY DEF TrueInv, BugTypes
<1>2. TrueState(EmptyState) /\ EmptyState \in States
  BY DEF TrueState, EmptyState, NoIssue, States
<1>3. Asleep \in Passes /\ Asleep.copy = EmptyState /\ Asleep.pc = "idle"
  BY <1>1, PassTyped DEF Asleep
<1>4. QED
  BY <1>1, <1>2, <1>3 DEF TrueInv, CopyIsTrue, CheckpointIsTrue, Passes

(* The steps by what they make of the pass.                                *)
LEMMA BeginMoves ==
  ASSUME TrueInv, NEW b \in Bridges, Begin(b)
  PROVE  /\ TrueInv' /\ Grown /\ pass[b].pc = "idle"
         /\ UNCHANGED <<journal, oldest, disk, told, issues>>
         /\ \E state \in Loadable : \E q \in Passes :
              /\ pass' = [pass EXCEPT ![b] = q] /\ q.pc = "read" /\ q.copy = state
              /\ IF Overlaps(b) \/ state # disk THEN mishaps' = mishaps + 1
                 ELSE mishaps' = mishaps
<1> DEFINE q(state) == [Asleep EXCEPT !.pc = "read", !.copy = state,
                                      !.listed = oldest .. live - 1]
<1>1. PICK state \in Loadable :
        /\ IF Overlaps(b) \/ state # disk THEN mishaps' = mishaps + 1
           ELSE mishaps' = mishaps
        /\ pass' = [pass EXCEPT ![b] = q(state)]
  BY DEF Begin, Mishap, NoMishap
<1>2. /\ pass[b].pc = "idle"
      /\ UNCHANGED <<journal, live, oldest, disk, told, issues>>
  BY DEF Begin, files, tracker
<1>3. state \in States /\ TrueState(state)
  BY CopiesAreTrue DEF Loadable
<1>4. q(state) \in Passes /\ q(state).pc = "read" /\ q(state).copy = state
  <2>1. oldest .. live - 1 \in SUBSET Int
    OBVIOUS
  <2>2. q(state) \in Passes
    BY <1>3, <2>1, PassTyped, CopiesAreTrue
  <2>3. QED
    BY <2>2 DEF Asleep
<1>5. mishaps' \in Nat
  BY <1>1, CopiesAreTrue
<1> HIDE DEF q
<1>6. TrueInv' /\ Grown
  <2>1. disk' \in States /\ TrueState(disk')
    BY <1>2, CopiesAreTrue
  <2>2. q(state).pc # "save" /\ q(state).pc # "next" /\ TrueState(q(state).copy)
    BY <1>3, <1>4
  <2>3. QED
    BY <1>1, <1>2, <1>4, <1>5, <2>1, <2>2, QuietMove
<1>7. QED
  BY <1>1, <1>2, <1>4, <1>6

LEMMA ReadMoves ==
  ASSUME TrueInv, NEW b \in Bridges, Read(b)
  PROVE  /\ TrueInv' /\ Grown /\ pass[b].pc = "read"
         /\ UNCHANGED <<journal, oldest, disk, told, issues>>
         /\ \E q \in Passes :
              /\ pass' = [pass EXCEPT ![b] = q]
              /\ q.pc = "next" /\ q.copy = pass[b].copy
              /\ q.seen \subseteq OnFile /\ q.todo \subseteq q.seen \ q.copy.done
              /\ mishaps' = mishaps + 1 \/ (mishaps' = mishaps /\ q.seen = OnFile)
<1> DEFINE q(seen) == [pass[b] EXCEPT !.pc = "next", !.seen = seen,
                                      !.todo = Pending(seen, pass[b].copy.done)]
<1>1. PICK seen \in SUBSET OnFile :
        /\ pass' = [pass EXCEPT ![b] = q(seen)]
        /\ mishaps' = mishaps + 1 \/ (mishaps' = mishaps /\ seen = OnFile)
  <2>1. Readable(b) \subseteq OnFile
    BY DEF Readable
  <2>2. \A seen : TakeUp(b, seen) => pass' = [pass EXCEPT ![b] = q(seen)]
    BY DEF TakeUp, TrueInv, BugTypes
  <2>3. CASE /\ TakeUp(b, Readable(b))
             /\ mishaps' = IF Readable(b) = OnFile THEN mishaps ELSE mishaps + 1
    BY <2>1, <2>2, <2>3
  <2>4. CASE /\ Mishap
             /\ \E bad \in pass[b].listed \cup {live} :
                  TakeUp(b, {e \in Readable(b) : journal[e].seg # bad})
    <3>1. PICK bad : TakeUp(b, {e \in Readable(b) : journal[e].seg # bad})
      BY <2>4
    <3>2. {e \in Readable(b) : journal[e].seg # bad} \in SUBSET OnFile
      BY <2>1
    <3>3. QED
      BY <2>2, <2>4, <3>1, <3>2 DEF Mishap
  <2>5. QED
    BY <2>3, <2>4 DEF Read
<1>2. /\ pass[b].pc = "read"
      /\ UNCHANGED <<journal, live, oldest, disk, told, issues>>
  BY DEF Read, files, tracker
<1>3. seen \subseteq Events /\ seen \in SUBSET Nat
  BY EventsAreNumbers DEF OnFile, TrueInv, Events
<1>4. Pending(seen, pass[b].copy.done) \subseteq seen \ pass[b].copy.done
  BY DEF Pending
<1>5. /\ q(seen) \in Passes /\ q(seen).pc = "next" /\ q(seen).copy = pass[b].copy
      /\ q(seen).seen = seen /\ q(seen).todo = Pending(seen, pass[b].copy.done)
  <2>1. q(seen) \in Passes
    BY <1>3, <1>4, PassTyped, CopiesAreTrue
  <2>2. pass[b] \in Passes
    BY CopiesAreTrue
  <2>3. QED
    BY <2>1, <2>2 DEF Passes
<1>6. mishaps' \in Nat
  BY <1>1, CopiesAreTrue
<1> HIDE DEF q
<1>7. TrueInv' /\ Grown
  <2>1. disk' \in States /\ TrueState(disk')
    BY <1>2, CopiesAreTrue
  <2>2. q(seen).pc # "save" /\ TrueState(q(seen).copy)
    BY <1>5, CopiesAreTrue
  <2>3. q(seen).seen \subseteq Events /\ q(seen).todo \subseteq q(seen).seen \ q(seen).copy.done
    BY <1>3, <1>4, <1>5
  <2>4. QED
    BY <1>1, <1>2, <1>5, <1>6, <2>1, <2>2, <2>3, QuietMove
<1>8. QED
  BY <1>1, <1>2, <1>4, <1>5, <1>7

LEMMA RefusedMoves ==
  ASSUME TrueInv, NEW b \in Bridges, Refused(b)
  PROVE  /\ TrueInv' /\ Grown /\ pass[b].pc = "next"
         /\ UNCHANGED <<journal, oldest, disk, told, issues, mishaps>>
         /\ [pass[b] EXCEPT !.pc = "end"] \in Passes
         /\ pass' = [pass EXCEPT ![b] = [pass[b] EXCEPT !.pc = "end"]]
<1>1. /\ pass' = [pass EXCEPT ![b] = [pass[b] EXCEPT !.pc = "end"]] /\ pass[b].pc = "next"
      /\ UNCHANGED <<journal, live, oldest, disk, told, issues, mishaps>>
  BY DEF Refused, Next1, files, tracker, TrueInv, BugTypes
<1> DEFINE q == [pass[b] EXCEPT !.pc = "end"]
<1>2. q \in Passes /\ q.pc = "end" /\ q.copy = pass[b].copy
  <2>1. q \in Passes
    BY PassTyped, CopiesAreTrue DEF Places
  <2>2. pass[b] \in Passes
    BY CopiesAreTrue
  <2>3. QED
    BY <2>1, <2>2 DEF Passes
<1> HIDE DEF q
<1>3. disk' \in States /\ TrueState(disk') /\ mishaps' \in Nat /\ TrueState(q.copy)
  BY <1>1, <1>2, CopiesAreTrue
<1>4. pass' = [pass EXCEPT ![b] = q]
  BY <1>1 DEF q
<1>5. TrueInv' /\ Grown
  BY <1>1, <1>2, <1>3, <1>4, QuietMove
<1>6. QED
  BY <1>1, <1>2, <1>5 DEF q

LEMMA DieMoves ==
  ASSUME TrueInv, NEW b \in Bridges, Die(b)
  PROVE  /\ TrueInv' /\ Grown /\ mishaps' = mishaps + 1
         /\ UNCHANGED <<journal, oldest, disk, told, issues>>
         /\ pass' = [pass EXCEPT ![b] = Asleep]
<1>1. /\ pass' = [pass EXCEPT ![b] = Asleep] /\ mishaps' = mishaps + 1
      /\ UNCHANGED <<journal, live, oldest, disk, told, issues>>
  BY DEF Die, Mishap, files, tracker
<1>2. /\ disk' \in States /\ TrueState(disk') /\ mishaps' \in Nat
      /\ Asleep \in Passes /\ TrueState(Asleep.copy) /\ Asleep.pc = "idle"
  BY <1>1, CopiesAreTrue
<1>3. TrueInv' /\ Grown
  BY <1>1, <1>2, QuietMove
<1>4. QED
  BY <1>1, <1>3

(* The checkpoint that is written: what the pass knows.                    *)
LEMMA SaveMoves ==
  ASSUME TrueInv, NEW b \in Bridges, Save(b)
  PROVE  /\ TrueInv' /\ Grown /\ pass[b].pc = "save"
         /\ UNCHANGED <<journal, oldest, told, issues>>
         /\ \/ /\ mishaps' = mishaps + 1 /\ disk' = disk
               /\ pass' = [pass EXCEPT ![b] = Asleep]
            \/ /\ mishaps' = mishaps
               /\ \E q \in Passes :
                    /\ pass' = [pass EXCEPT ![b] = q]
                    /\ disk' = q.copy /\ q.copy.done = Knows(pass[b])
                    /\ q.copy.issue = pass[b].copy.issue
                    /\ q.pc = "next" /\ q.seen = pass[b].seen
                    /\ q.todo = pass[b].todo \ {Current(b)}
<1> DEFINE copy == [pass[b].copy EXCEPT !.done = DoneNow(b)]
           todo == pass[b].todo \ {Current(b)}
           q == [pass[b] EXCEPT !.pc = "next", !.copy = copy,
                                !.todo = todo, !.dirty = TRUE]
<1>1. /\ pass[b].pc = "save"
      /\ UNCHANGED <<journal, live, oldest, told, issues>>
      /\ \/ /\ mishaps' = mishaps + 1 /\ disk' = disk
            /\ pass' = [pass EXCEPT ![b] = Asleep]
         \/ /\ mishaps' = mishaps /\ disk' = copy
            /\ pass' = [pass EXCEPT ![b] = q]
  BY DEF Save, Mishap, NoMishap, files, tracker, TrueInv, BugTypes
<1>2. /\ pass[b].todo # {} /\ told[Current(b)] > 0
      /\ Current(b) \in pass[b].todo /\ Current(b) \in Events /\ Current(b) \in pass[b].seen
  BY <1>1, CurrentIsAnEvent DEF TrueInv, HasTold
<1>3. /\ pass[b].copy.done \in SUBSET Nat /\ pass[b].todo \in SUBSET Nat
      /\ pass[b].seen \subseteq Events
      /\ pass[b].todo \subseteq pass[b].seen \ pass[b].copy.done
  BY <1>1, CopiesAreTrue DEF TrueInv, Works, Passes, States
<1>4. /\ DoneNow(b) \subseteq pass[b].copy.done \cup {Current(b)}
      /\ DoneNow(b) = Knows(pass[b])
  BY <1>1, <1>2 DEF DoneNow, Knows, InHand, Current
<1>5. /\ copy \in States /\ copy.done = DoneNow(b)
      /\ copy.issue = pass[b].copy.issue
  <2>1. DoneNow(b) \in SUBSET Nat
    BY <1>2, <1>3, <1>4
  <2>2. pass[b].copy \in States
    BY CopiesAreTrue
  <2>3. QED
    BY <2>1, <2>2 DEF States
<1>6. TrueState(copy)
  <2>1. TrueState(pass[b].copy)
    BY CopiesAreTrue
  <2>2. QED
    BY <1>2, <1>4, <1>5, <2>1 DEF TrueState
<1>7. /\ q \in Passes /\ q.pc = "next" /\ q.copy = copy /\ q.seen = pass[b].seen
      /\ q.todo = todo
  <2>1. DoneNow(b) \in SUBSET Nat /\ todo \in SUBSET Nat
    BY <1>2, <1>3, <1>4
  <2>2. q \in Passes
    BY <2>1, PassTyped, CopiesAreTrue
  <2>3. pass[b] \in Passes
    BY CopiesAreTrue
  <2>4. QED
    BY <2>2, <2>3 DEF Passes
<1>8. q.seen \subseteq Events /\ q.todo \subseteq q.seen \ q.copy.done
  BY <1>3, <1>4, <1>5, <1>7
<1>9. mishaps' \in Nat /\ TrueState(Asleep.copy)
  BY <1>1, CopiesAreTrue
<1> HIDE DEF q, copy
<1>10. TrueInv' /\ Grown
  <2>1. CASE disk' = disk /\ pass' = [pass EXCEPT ![b] = Asleep]
    <3>1. disk' \in States /\ TrueState(disk') /\ Asleep \in Passes /\ Asleep.pc = "idle"
      BY <2>1, CopiesAreTrue
    <3>2. QED
      BY <1>1, <1>9, <2>1, <3>1, QuietMove
  <2>2. CASE disk' = copy /\ pass' = [pass EXCEPT ![b] = q]
    <3>1. disk' \in States /\ TrueState(disk') /\ TrueState(q.copy) /\ q.pc # "save"
      BY <1>5, <1>6, <1>7, <2>2
    <3>2. QED
      BY <1>1, <1>7, <1>8, <1>9, <2>2, <3>1, QuietMove
  <2>3. QED
    BY <1>1, <2>1, <2>2
<1>11. QED
  BY <1>1, <1>4, <1>5, <1>7, <1>10

LEMMA EndMoves ==
  ASSUME TrueInv, NEW b \in Bridges, End(b)
  PROVE  /\ TrueInv' /\ Grown /\ pass[b].pc \in {"next", "end"}
         /\ UNCHANGED <<journal, oldest, told, issues, mishaps>>
         /\ pass' = [pass EXCEPT ![b] = Asleep]
         /\ \/ disk' = disk
            \/ disk'.done = Knows(pass[b]) /\ disk'.issue = pass[b].copy.issue
<1> DEFINE copy == [pass[b].copy EXCEPT !.done = @ \cap pass[b].seen]
<1>1. /\ pass[b].pc \in {"next", "end"} /\ pass' = [pass EXCEPT ![b] = Asleep]
      /\ UNCHANGED <<journal, live, oldest, told, issues, mishaps>>
      /\ disk' = copy \/ disk' = disk
  BY DEF End, files, tracker
<1>2. /\ copy \in States /\ copy.done = pass[b].copy.done \cap pass[b].seen
      /\ copy.issue = pass[b].copy.issue
  <2>1. pass[b].copy \in States
    BY CopiesAreTrue
  <2>2. QED
    BY <2>1 DEF States
<1>3. copy.done = Knows(pass[b])
  BY <1>1, <1>2 DEF Knows, InHand
<1>4. TrueState(copy)
  <2>1. TrueState(pass[b].copy)
    BY CopiesAreTrue
  <2>2. QED
    BY <1>2, <2>1 DEF TrueState
<1> HIDE DEF copy
<1>5. disk' \in States /\ TrueState(disk') /\ mishaps' \in Nat
  BY <1>1, <1>2, <1>4, CopiesAreTrue
<1>6. Asleep \in Passes /\ TrueState(Asleep.copy) /\ Asleep.pc = "idle"
  BY CopiesAreTrue
<1>7. TrueInv' /\ Grown
  BY <1>1, <1>5, <1>6, QuietMove
<1>8. QED
  BY <1>1, <1>2, <1>3, <1>7

(* A step that tells the tracker the current event.                        *)
LEMMA TellingMove ==
  ASSUME TrueInv, NEW b \in Bridges, pass[b].pc = "next", pass[b].todo # {},
         UNCHANGED <<journal, live, oldest, disk>>, mishaps' \in Nat,
         told' = [told EXCEPT ![Current(b)] = @ + 1],
         issues' \in Seq(Issues),
         \A i \in DOMAIN issues : i \in DOMAIN issues' /\ issues'[i].site = issues[i].site,
         NEW q \in Passes, pass' = [pass EXCEPT ![b] = q], q.pc \in {"save", "end"},
         q.seen = pass[b].seen, q.todo = pass[b].todo, q.copy.done = pass[b].copy.done,
         \A s \in Sites : q.copy.issue[s] # NoIssue =>
           q.copy.issue[s] \in DOMAIN issues' /\ issues'[q.copy.issue[s]].site = s,
         q.pc = "save" => q.copy.issue[SiteNow(b)] # NoIssue
  PROVE  TrueInv' /\ Grown
<1>1. pass'[b] = q /\ \A c \in Bridges \ {b} : pass'[c] = pass[c]
  BY DEF TrueInv, BugTypes
<1>2. Current(b) \in 1 .. MaxEvents /\ Current(b) \in Events
  BY CurrentIsAnEvent
<1>3. /\ told' \in [1 .. MaxEvents -> Nat]
      /\ \A e \in 1 .. MaxEvents : told[e] <= told'[e]
      /\ told'[Current(b)] > 0
      /\ \A e \in 1 .. MaxEvents : e # Current(b) => told'[e] = told[e]
  <2>1. told \in [1 .. MaxEvents -> Nat]
    BY DEF TrueInv, BugTypes
  <2>2. told[Current(b)] \in Nat /\ \A e \in 1 .. MaxEvents : told[e] \in Nat
    BY <1>2, <2>1
  <2>3. /\ told'[Current(b)] = told[Current(b)] + 1
        /\ \A e \in 1 .. MaxEvents : e # Current(b) => told'[e] = told[e]
    BY <1>2, <2>1
  <2>4. told' \in [1 .. MaxEvents -> Nat]
    BY <1>2, <2>1, <2>2
  <2>5. told'[Current(b)] > 0 /\ told[Current(b)] <= told'[Current(b)]
    BY <2>2, <2>3
  <2>6. \A e \in 1 .. MaxEvents : told[e] <= told'[e]
    BY <2>2, <2>3, <2>5
  <2>7. QED
    BY <2>3, <2>4, <2>5, <2>6
<1>4. BugTypes' /\ Grown
  <2>1. BugTypes'
    BY <1>3 DEF TrueInv, BugTypes
  <2>2. Len(journal) <= Len(journal')
    BY EventsAreNumbers DEF TrueInv
  <2>3. QED
    BY <1>3, <2>1, <2>2 DEF Grown
<1>5. CheckpointIsTrue'
  BY <1>4, StaysTrue DEF TrueInv, BugTypes, CheckpointIsTrue, TrueState
<1>6. CopyIsTrue(b)'
  <2>1. \A e \in pass[b].copy.done : e \in Events' /\ told'[e] > 0
    BY <1>4, StaysTrue, CopiesAreTrue DEF TrueInv, TrueState
  <2>2. QED
    BY <1>1, <2>1 DEF CopyIsTrue, TrueState
<1>7. Works(b)'
  BY <1>1 DEF TrueInv, Works, Events
<1>8. HasTold(b)'
  <2>1. Min(q.todo) = Current(b) /\ journal'[Current(b)].site = SiteNow(b)
    BY DEF Current, SiteNow
  <2>2. QED
    BY <1>1, <1>3, <2>1 DEF HasTold, Current, IssueNow, SiteNow
<1>9. Untold'
  BY <1>2, <1>3 DEF TrueInv, Untold, Events
<1>10. QED
  BY <1>1, <1>4, <1>5, <1>6, <1>7, <1>8, <1>9, MoveKeeps

LEMMA CreateMoves ==
  ASSUME TrueInv, NEW b \in Bridges, Create(b)
  PROVE  /\ TrueInv' /\ Grown /\ pass[b].pc = "next" /\ pass[b].todo # {}
         /\ UNCHANGED <<journal, oldest, disk>>
         /\ told' = [told EXCEPT ![Current(b)] = @ + 1]
         /\ pass[b].copy.issue[SiteNow(b)] = NoIssue
         /\ issues' = Append(issues, [site |-> SiteNow(b), status |-> "open"])
         /\ \E q \in Passes :
              /\ pass' = [pass EXCEPT ![b] = q] /\ q.seen = pass[b].seen
              /\ q.todo = pass[b].todo /\ q.copy.done = pass[b].copy.done
              /\ \/ /\ q.pc = "save" /\ mishaps' = mishaps
                    /\ q.copy.issue = [pass[b].copy.issue EXCEPT ![SiteNow(b)] = Len(issues) + 1]
                 \/ /\ q.pc = "end" /\ mishaps' = mishaps + 1
                    /\ q.copy.issue = pass[b].copy.issue
<1> DEFINE s == SiteNow(b)
           n == Len(issues) + 1
           q == [pass[b] EXCEPT !.pc = "save", !.copy.issue[s] = n]
           r == [pass[b] EXCEPT !.pc = "end"]
<1>1. /\ pass[b].pc = "next" /\ pass[b].todo # {}
      /\ UNCHANGED <<journal, live, oldest, disk>>
      /\ told' = [told EXCEPT ![Current(b)] = @ + 1]
      /\ pass[b].copy.issue[s] = NoIssue
      /\ issues' = Append(issues, [site |-> s, status |-> "open"])
  BY DEF Create, IssueNow, files
<1>2. \/ pass' = [pass EXCEPT ![b] = q] /\ mishaps' = mishaps
      \/ pass' = [pass EXCEPT ![b] = r] /\ mishaps' = mishaps + 1
  BY DEF Create, Next1, Mishap, NoMishap, TrueInv, BugTypes
<1>3. s \in Sites
  BY <1>1, CurrentIsAnEvent
<1>4. /\ issues \in Seq(Issues) /\ Len(issues) \in Nat /\ n \in Nat
      /\ issues' \in Seq(Issues) /\ DOMAIN issues' = 1 .. n /\ DOMAIN issues = 1 .. Len(issues)
      /\ \A i \in DOMAIN issues : i \in DOMAIN issues' /\ issues'[i] = issues[i]
      /\ issues'[n].site = s /\ n # NoIssue
  <2>1. issues \in Seq(Issues) /\ Len(issues) \in Nat
    BY DEF TrueInv, BugTypes
  <2>2. [site |-> s, status |-> "open"] \in Issues
    BY <1>3 DEF Issues
  <2>3. /\ issues' \in Seq(Issues) /\ Len(issues') = n
        /\ \A i \in 1 .. Len(issues) : issues'[i] = issues[i]
        /\ issues'[n] = [site |-> s, status |-> "open"]
    BY <1>1, <2>1, <2>2
  <2>4. n \in Nat /\ n # NoIssue
    BY <2>1 DEF NoIssue
  <2>5. DOMAIN issues' = 1 .. n /\ DOMAIN issues = 1 .. Len(issues)
    BY <2>1, <2>3
  <2>6. issues'[n].site = s /\ 1 .. Len(issues) \subseteq 1 .. n
    <3>1. issues'[n].site = s
      BY <2>3
    <3>2. \A k \in Nat : 1 .. k \subseteq 1 .. k + 1
      OBVIOUS
    <3>3. QED
      BY <2>1, <3>1, <3>2
  <2> HIDE DEF n
  <2>7. QED
    BY <2>1, <2>3, <2>4, <2>5, <2>6
<1>5. pass[b] \in Passes /\ pass[b].copy \in States /\ mishaps \in Nat /\ mishaps + 1 \in Nat
  BY CopiesAreTrue
<1>6. /\ q \in Passes /\ q.pc = "save" /\ q.seen = pass[b].seen /\ q.todo = pass[b].todo
      /\ q.copy.done = pass[b].copy.done
      /\ q.copy.issue = [pass[b].copy.issue EXCEPT ![s] = n]
      /\ q.copy.issue[s] = n /\ \A x \in Sites \ {s} : q.copy.issue[x] = pass[b].copy.issue[x]
  <2>1. q \in Passes
    BY <1>3, <1>4, <1>5, PassTyped
  <2>2. /\ q.pc = "save" /\ q.seen = pass[b].seen /\ q.todo = pass[b].todo
        /\ q.copy = [pass[b].copy EXCEPT !.issue[s] = n]
    BY <1>5 DEF Passes
  <2>3. /\ q.copy.done = pass[b].copy.done
        /\ q.copy.issue = [pass[b].copy.issue EXCEPT ![s] = n]
    BY <1>5, <2>2 DEF States
  <2>4. pass[b].copy.issue \in [Sites -> Nat]
    BY <1>5 DEF States
  <2> HIDE DEF q, n, s
  <2>5. /\ q.copy.issue[s] = n
        /\ \A x \in Sites \ {s} : q.copy.issue[x] = pass[b].copy.issue[x]
    BY <1>3, <2>3, <2>4
  <2>6. QED
    BY <2>1, <2>2, <2>3, <2>5
<1>7. /\ r \in Passes /\ r.pc = "end" /\ r.seen = pass[b].seen /\ r.todo = pass[b].todo
      /\ r.copy = pass[b].copy
  <2>1. r \in Passes
    BY <1>5, PassTyped DEF Places
  <2>2. QED
    BY <1>5, <2>1 DEF Passes
<1>8. \A x \in Sites : pass[b].copy.issue[x] # NoIssue =>
        /\ pass[b].copy.issue[x] \in DOMAIN issues'
        /\ issues'[pass[b].copy.issue[x]].site = x
  BY <1>4, CopiesAreTrue DEF TrueState
<1>9. n \in DOMAIN issues'
  BY <1>4
<1> HIDE DEF q, r, s, n
<1>10. \A x \in Sites : q.copy.issue[x] # NoIssue =>
         q.copy.issue[x] \in DOMAIN issues' /\ issues'[q.copy.issue[x]].site = x
  BY <1>4, <1>6, <1>8, <1>9
<1>11. s = SiteNow(b) /\ q.copy.issue[SiteNow(b)] # NoIssue
  BY <1>4, <1>6 DEF s
<1>12. TrueInv' /\ Grown
  <2>1. CASE pass' = [pass EXCEPT ![b] = q] /\ mishaps' = mishaps
    BY <1>1, <1>4, <1>5, <1>6, <1>10, <1>11, <2>1, TellingMove
  <2>2. CASE pass' = [pass EXCEPT ![b] = r] /\ mishaps' = mishaps + 1
    <3>1. mishaps' \in Nat /\ r.pc \in {"save", "end"} /\ r.pc # "save"
      BY <1>5, <1>7, <2>2
    <3>2. \A i \in DOMAIN issues : i \in DOMAIN issues' /\ issues'[i].site = issues[i].site
      BY <1>4
    <3>3. r.copy.done = pass[b].copy.done /\ \A x \in Sites : r.copy.issue[x] # NoIssue =>
            r.copy.issue[x] \in DOMAIN issues' /\ issues'[r.copy.issue[x]].site = x
      BY <1>7, <1>8
    <3>4. QED
      BY <1>1, <1>4, <1>7, <2>2, <3>1, <3>2, <3>3, TellingMove
  <2>3. QED
    BY <1>2, <2>1, <2>2
<1>13. \E x \in Passes :
          /\ pass' = [pass EXCEPT ![b] = x] /\ x.seen = pass[b].seen
          /\ x.todo = pass[b].todo /\ x.copy.done = pass[b].copy.done
          /\ \/ /\ x.pc = "save" /\ mishaps' = mishaps
                /\ x.copy.issue = [pass[b].copy.issue EXCEPT ![s] = n]
             \/ /\ x.pc = "end" /\ mishaps' = mishaps + 1
                /\ x.copy.issue = pass[b].copy.issue
  BY <1>2, <1>6, <1>7
<1>14. QED
  BY <1>1, <1>12, <1>13 DEF s, n

LEMMA NoteMoves ==
  ASSUME TrueInv, NEW b \in Bridges, Note(b)
  PROVE  /\ TrueInv' /\ Grown /\ pass[b].pc = "next" /\ pass[b].todo # {}
         /\ UNCHANGED <<journal, oldest, disk>>
         /\ told' = [told EXCEPT ![Current(b)] = @ + 1]
         /\ \A s \in Sites : IssuesOf(s)' = IssuesOf(s)
         /\ \E q \in Passes :
              /\ pass' = [pass EXCEPT ![b] = q] /\ q.seen = pass[b].seen
              /\ q.todo = pass[b].todo /\ q.copy = pass[b].copy
              /\ \/ q.pc = "save" /\ mishaps' = mishaps
                 \/ q.pc = "end" /\ mishaps' = mishaps + 1
<1> DEFINE i == IssueNow(b)
           q(pc) == [pass[b] EXCEPT !.pc = pc]
<1>1. /\ pass[b].pc = "next" /\ pass[b].todo # {}
      /\ UNCHANGED <<journal, live, oldest, disk>>
      /\ told' = [told EXCEPT ![Current(b)] = @ + 1]
      /\ i # NoIssue /\ issues' = [issues EXCEPT ![i].status = "open"]
  BY DEF Note, files
<1>2. \E pc \in {"save", "end"} :
        /\ pass' = [pass EXCEPT ![b] = q(pc)]
        /\ mishaps' = IF pc = "save" THEN mishaps ELSE mishaps + 1
  BY DEF Note, Next1, Mishap, NoMishap, TrueInv, BugTypes
<1>3. SiteNow(b) \in Sites
  BY <1>1, CurrentIsAnEvent
<1>4. i \in DOMAIN issues
  BY <1>1, <1>3, CopiesAreTrue DEF TrueState, IssueNow
<1>5. /\ issues' \in Seq(Issues) /\ DOMAIN issues' = DOMAIN issues
      /\ \A k \in DOMAIN issues : issues'[k].site = issues[k].site
  <2>1. issues \in Seq(Issues)
    BY DEF TrueInv, BugTypes
  <2>2. issues[i] \in Issues
    BY <1>4, <2>1
  <2>3. /\ [issues[i] EXCEPT !.status = "open"] \in Issues
        /\ [issues[i] EXCEPT !.status = "open"].site = issues[i].site
    BY <2>2 DEF Issues
  <2>4. QED
    BY <1>1, <1>4, <2>1, <2>3
<1>6. pass[b] \in Passes /\ mishaps \in Nat /\ mishaps + 1 \in Nat
  BY CopiesAreTrue
<1>7. \A pc \in {"save", "end"} :
        /\ q(pc) \in Passes /\ q(pc).pc = pc /\ q(pc).seen = pass[b].seen
        /\ q(pc).todo = pass[b].todo /\ q(pc).copy = pass[b].copy
  <2>1. \A pc \in {"save", "end"} : q(pc) \in Passes
    BY <1>6, PassTyped DEF Places
  <2>2. QED
    BY <1>6, <2>1 DEF Passes
<1>8. \A x \in Sites : pass[b].copy.issue[x] # NoIssue =>
        /\ pass[b].copy.issue[x] \in DOMAIN issues'
        /\ issues'[pass[b].copy.issue[x]].site = x
  BY <1>5, CopiesAreTrue DEF TrueState
<1>9. PICK pc \in {"save", "end"} :
        /\ pass' = [pass EXCEPT ![b] = q(pc)]
        /\ mishaps' = IF pc = "save" THEN mishaps ELSE mishaps + 1
  BY <1>2
<1>10. pass[b].copy.issue[SiteNow(b)] # NoIssue
  BY <1>1 DEF IssueNow
<1> HIDE DEF q, i
<1>11. TrueInv' /\ Grown
  <2>1. mishaps' \in Nat
    BY <1>6, <1>9
  <2>2. QED
    <3> DEFINE p == q(pc)
    <3>1. /\ p \in Passes /\ p.pc \in {"save", "end"} /\ p.seen = pass[b].seen
          /\ p.todo = pass[b].todo /\ p.copy = pass[b].copy
          /\ p.copy.done = pass[b].copy.done
          /\ pass' = [pass EXCEPT ![b] = p]
      BY <1>7, <1>9
    <3> HIDE DEF p
    <3>2. /\ \A x \in Sites : p.copy.issue[x] # NoIssue =>
              p.copy.issue[x] \in DOMAIN issues' /\ issues'[p.copy.issue[x]].site = x
          /\ p.copy.issue[SiteNow(b)] # NoIssue
      BY <1>8, <1>10, <3>1
    <3>3. \A k \in DOMAIN issues : k \in DOMAIN issues' /\ issues'[k].site = issues[k].site
      BY <1>5
    <3>4. QED
      BY <1>1, <1>5, <2>1, <3>1, <3>2, <3>3, TellingMove
<1>12. \A s \in Sites : IssuesOf(s)' = IssuesOf(s)
  BY <1>5 DEF IssuesOf
<1>13. QED
  BY <1>1, <1>7, <1>9, <1>11, <1>12

-----------------------------------------------------------------------------

LEMMA StepIsTrue == TrueInv /\ [Next]_bugVars => TrueInv'
<1> SUFFICES ASSUME TrueInv, [Next]_bugVars PROVE TrueInv'
  OBVIOUS
<1>1. ASSUME UNCHANGED bugVars PROVE TrueInv'
  <2>1. BugTypes' /\ CheckpointIsTrue' /\ Untold'
    BY <1>1 DEF bugVars, TrueInv, BugTypes, CheckpointIsTrue, TrueState, Untold, Events
  <2>2. \A b \in Bridges : (CopyIsTrue(b) /\ Works(b) /\ HasTold(b))'
    BY <1>1 DEF bugVars, TrueInv, CopyIsTrue, TrueState, Works, HasTold, Current, IssueNow,
                SiteNow, Events
  <2>3. QED
    BY <2>1, <2>2 DEF TrueInv
<1>2. ASSUME NEW s \in Sites, Raise(s) PROVE TrueInv'
  BY <1>2, RaiseTrue
<1>3. ASSUME NEW s \in Sites, Forget(s) PROVE TrueInv'
  <2>1. UNCHANGED <<journal, live, oldest, disk, issues, told, pass, mishaps>>
    BY <1>3 DEF Forget, files, tracker
  <2>2. BugTypes' /\ CheckpointIsTrue' /\ Untold'
    BY <2>1 DEF TrueInv, BugTypes, CheckpointIsTrue, TrueState, Untold, Events
  <2>3. \A b \in Bridges : (CopyIsTrue(b) /\ Works(b) /\ HasTold(b))'
    BY <2>1 DEF TrueInv, CopyIsTrue, TrueState, Works, HasTold, Current, IssueNow, SiteNow,
                Events
  <2>4. QED
    BY <2>2, <2>3 DEF TrueInv
<1>4. ASSUME NEW b \in Bridges, Step(b) \/ Die(b) PROVE TrueInv'
  BY <1>4, BeginMoves, ReadMoves, CreateMoves, NoteMoves, RefusedMoves, SaveMoves, EndMoves,
     DieMoves DEF Step
<1>5. ASSUME NEW i \in DOMAIN issues, PeopleClose(i) PROVE TrueInv'
  BY <1>5, CloseTrue
<1>6. QED
  BY <1>1, <1>2, <1>3, <1>4, <1>5 DEF Next

(* The checkpoint never runs ahead of the tracker: what it calls done was  *)
(* told, and the issue it keeps for a fingerprint is one of that           *)
(* fingerprint, for any number of passes that write over each other.       *)
THEOREM CheckpointsAreTrue == Spec => []CheckpointIsTrue
<1>1. TrueInv => CheckpointIsTrue
  BY DEF TrueInv
<1>2. QED
  BY <1>1, InitTrue, StepIsTrue, PTL DEF Spec

-----------------------------------------------------------------------------
(* Every repetition has a mishap of its own.                               *)

LEMMA PaidByMishap ==
  ASSUME NEW n \in Nat, NEW m \in Nat, NEW T, T \subseteq Bridges, Paid(n, T, m)
  PROVE  Paid(n + 1, T, m + 1)
<1>1. Cardinality(T) \in Nat
  BY Counting
<1>2. QED
  BY <1>1 DEF Paid

LEMMA MayAreBridges ==
  /\ Active \subseteq Bridges
  /\ \A e : MayTell(e) \subseteq Bridges
  /\ \A s : MayOpen(s) \subseteq Bridges
BY DEF Active, MayTell, MayOpen

LEMMA IssuesCount ==
  ASSUME BugTypes, NEW s
  PROVE  IsFiniteSet(IssuesOf(s)) /\ Cardinality(IssuesOf(s)) \in Nat
<1>1. issues \in Seq(Issues) /\ Len(issues) \in Nat
  BY DEF BugTypes
<1>2. IssuesOf(s) \subseteq 1 .. Len(issues)
  BY <1>1 DEF IssuesOf
<1>3. 1 \in Int /\ Len(issues) \in Int
  BY <1>1
<1>4. IsFiniteSet(1 .. Len(issues))
  BY ONLY <1>3, FS_Interval
<1>5. IsFiniteSet(IssuesOf(s))
  BY <1>2, <1>4, FS_Subset
<1>6. QED
  BY <1>5, FS_CardinalityType

(* What a step of one pass makes of who may still tell or open.            *)
OneMove(b, q) ==
  /\ pass'[b] = q /\ \A c \in Bridges \ {b} : pass'[c] = pass[c]
  /\ Active' \subseteq Active \cup {b}
  /\ b \in Active' => q.pc # "idle"
  /\ \A e : MayTell(e)' \subseteq MayTell(e) \cup {b}
  /\ \A e : b \in MayTell(e)' =>
       q.pc # "idle" /\ (e \in Owes(q) \/ (e \in OnFile /\ e \notin Knows(q)))
  /\ \A s : MayOpen(s)' \subseteq MayOpen(s) \cup {b}
  /\ \A s : b \in MayOpen(s)' => q.pc # "idle" /\ q.copy.issue[s] = NoIssue
  /\ Events' = Events /\ OnFile' = OnFile

LEMMA OneMoves ==
  ASSUME TrueInv, NEW b \in Bridges, NEW q, pass' = [pass EXCEPT ![b] = q],
         journal' = journal, oldest' = oldest
  PROVE  OneMove(b, q)
<1>1. pass'[b] = q /\ \A c \in Bridges \ {b} : pass'[c] = pass[c]
  BY DEF TrueInv, BugTypes
<1>2. Events' = Events /\ OnFile' = OnFile
  BY DEF Events, OnFile
<1>3. Active' \subseteq Active \cup {b} /\ (b \in Active' => q.pc # "idle")
  BY <1>1 DEF Active
<1>4. ASSUME NEW e
      PROVE  /\ MayTell(e)' \subseteq MayTell(e) \cup {b}
             /\ b \in MayTell(e)' =>
                  q.pc # "idle" /\ (e \in Owes(q) \/ (e \in OnFile /\ e \notin Knows(q)))
  <2>1. MayTell(e)' = {c \in Bridges : /\ pass'[c].pc # "idle"
                                       /\ \/ e \in Owes(pass'[c])
                                          \/ e \in OnFile /\ e \notin Knows(pass'[c])}
    BY <1>2 DEF MayTell, Active
  <2>2. MayTell(e) = {c \in Bridges : /\ pass[c].pc # "idle"
                                      /\ \/ e \in Owes(pass[c])
                                         \/ e \in OnFile /\ e \notin Knows(pass[c])}
    BY DEF MayTell, Active
  <2>3. QED
    BY <1>1, <2>1, <2>2
<1>5. \A s : /\ MayOpen(s)' \subseteq MayOpen(s) \cup {b}
             /\ b \in MayOpen(s)' => q.pc # "idle" /\ q.copy.issue[s] = NoIssue
  BY <1>1 DEF MayOpen, Active
<1>6. QED
  BY <1>1, <1>2, <1>3, <1>4, <1>5 DEF OneMove

(* A step that tells nothing: without a mishap no pass may tell or open    *)
(* more than before, and nothing is forgotten by a pass that knew it.      *)
LEMMA QuietPaid ==
  ASSUME PaidInv, TrueInv', NEW b \in Bridges, NEW q, pass' = [pass EXCEPT ![b] = q],
         UNCHANGED <<journal, oldest, told, issues>>,
         \/ mishaps' = mishaps + 1
         \/ /\ mishaps' = mishaps
            /\ b \in Active' => b \in Active
            /\ \A e \in Events : /\ b \in MayTell(e)' => b \in MayTell(e)
                                 /\ Forgotten(e)' => Forgotten(e) \/ b \in MayTell(e)
            /\ \A s \in Sites : /\ b \in MayOpen(s)' => b \in MayOpen(s)
                                /\ Unnamed(s)' => Unnamed(s) \/ b \in MayOpen(s)
  PROVE  PaidInv'
<1>1. /\ Active' \subseteq Active \cup {b}
      /\ \A e : MayTell(e)' \subseteq MayTell(e) \cup {b}
      /\ \A s : MayOpen(s)' \subseteq MayOpen(s) \cup {b}
      /\ Events' = Events
  BY OneMoves DEF PaidInv, OneMove
<1>2. /\ mishaps \in Nat /\ mishaps' \in Nat /\ 0 \in Nat
      /\ \A e \in Events : told[e] \in Nat
  <2>1. mishaps \in Nat /\ mishaps' \in Nat /\ told \in [1 .. MaxEvents -> Nat]
    BY DEF PaidInv, TrueInv, BugTypes
  <2>2. QED
    BY <2>1, EventsAreNumbers DEF PaidInv, TrueInv
<1>3. \A s : IssuesOf(s)' = IssuesOf(s) /\ Cardinality(IssuesOf(s)) \in Nat
  BY IssuesCount DEF IssuesOf, PaidInv, TrueInv
<1>4. Paid(0, Active', mishaps')
  <2>1. Paid(0, Active, mishaps)
    BY DEF PaidInv
  <2>2. CASE mishaps' = mishaps + 1
    BY <1>1, <1>2, <2>1, <2>2, MayAreBridges, PaidMore
  <2>3. CASE mishaps' = mishaps /\ (b \in Active' => b \in Active)
    BY <1>1, <1>2, <2>1, <2>3, MayAreBridges, PaidFewer
  <2>4. QED
    BY <2>2, <2>3
<1>5. ASSUME NEW e \in Events PROVE EventPaid(e)'
  <2>1. Paid(told[e], MayTell(e), mishaps) /\ told[e] \in Nat /\ MayTell(e) \subseteq Bridges
    BY <1>2, MayAreBridges DEF PaidInv, EventPaid
  <2>2. /\ told[e] <= 1 + mishaps /\ (MayTell(e) # {} => told[e] <= mishaps)
        /\ Forgotten(e) => told[e] <= mishaps
    BY <1>2, <2>1, PaidAhead DEF PaidInv, EventPaid
  <2>3. CASE mishaps' = mishaps + 1
    <3>1. Paid(told[e], MayTell(e)', mishaps')
      BY <1>1, <1>2, <2>1, <2>3, PaidMore
    <3>2. told[e] <= mishaps'
      BY <1>2, <2>1, <2>2, <2>3
    <3>3. QED
      BY <3>1, <3>2 DEF EventPaid
  <2>4. CASE /\ mishaps' = mishaps /\ (b \in MayTell(e)' => b \in MayTell(e))
             /\ Forgotten(e)' => Forgotten(e) \/ b \in MayTell(e)
    <3>1. Paid(told[e], MayTell(e)', mishaps')
      BY <1>1, <1>2, <2>1, <2>4, PaidFewer
    <3>2. Forgotten(e)' => told[e] <= mishaps'
      BY <2>2, <2>4
    <3>3. QED
      BY <3>1, <3>2 DEF EventPaid
  <2>5. QED
    BY <2>3, <2>4
<1>6. ASSUME NEW s \in Sites PROVE IssuePaid(s)'
  <2> DEFINE n == Cardinality(IssuesOf(s))
  <2>1. Paid(n, MayOpen(s), mishaps) /\ n \in Nat /\ MayOpen(s) \subseteq Bridges
    BY <1>3, MayAreBridges DEF PaidInv, IssuePaid
  <2>2. /\ n <= 1 + mishaps /\ (MayOpen(s) # {} => n <= mishaps)
        /\ Unnamed(s) => n <= mishaps
    <3>1. Unnamed(s) => n <= mishaps
      BY DEF PaidInv, IssuePaid
    <3> HIDE DEF n
    <3>2. QED
      BY <1>2, <2>1, <3>1, PaidAhead
  <2>3. n' = n
    BY <1>3
  <2> HIDE DEF n
  <2>4. CASE mishaps' = mishaps + 1
    <3>1. Paid(n, MayOpen(s)', mishaps')
      BY <1>1, <1>2, <2>1, <2>4, PaidMore
    <3>2. n <= mishaps'
      BY <1>2, <2>1, <2>2, <2>4
    <3>3. QED
      BY <2>3, <3>1, <3>2 DEF IssuePaid, n
  <2>5. CASE /\ mishaps' = mishaps /\ (b \in MayOpen(s)' => b \in MayOpen(s))
             /\ Unnamed(s)' => Unnamed(s) \/ b \in MayOpen(s)
    <3>1. Paid(n, MayOpen(s)', mishaps')
      BY <1>1, <1>2, <2>1, <2>5, PaidFewer
    <3>2. Unnamed(s)' => n <= mishaps'
      BY <2>2, <2>5
    <3>3. QED
      BY <2>3, <3>1, <3>2 DEF IssuePaid, n
  <2>6. QED
    BY <2>4, <2>5
<1>7. QED
  BY <1>1, <1>4, <1>5, <1>6 DEF PaidInv

(* The steps of a pass that tell nothing.                                  *)
LEMMA BeginPaid ==
  ASSUME PaidInv, NEW b \in Bridges, Begin(b)
  PROVE  PaidInv'
<1>1. /\ TrueInv /\ TrueInv' /\ pass[b].pc = "idle"
      /\ UNCHANGED <<journal, oldest, disk, told, issues>>
  BY BeginMoves DEF PaidInv
<1>2. PICK state \in Loadable, q \in Passes :
        /\ pass' = [pass EXCEPT ![b] = q] /\ q.pc = "read" /\ q.copy = state
        /\ IF Overlaps(b) \/ state # disk THEN mishaps' = mishaps + 1
           ELSE mishaps' = mishaps
  BY BeginMoves DEF PaidInv
<1>3. CASE mishaps' = mishaps + 1
  BY <1>1, <1>2, <1>3, QuietPaid
<1>4. CASE ~Overlaps(b) /\ state = disk /\ mishaps' = mishaps
  <2>1. /\ pass'[b] = q
        /\ Active' \subseteq Active \cup {b}
        /\ \A e : MayTell(e)' \subseteq MayTell(e) \cup {b}
        /\ \A e : b \in MayTell(e)' => e \in Owes(q) \/ (e \in OnFile /\ e \notin Knows(q))
        /\ \A s : MayOpen(s)' \subseteq MayOpen(s) \cup {b}
        /\ \A s : b \in MayOpen(s)' => q.copy.issue[s] = NoIssue
        /\ Events' = Events /\ OnFile' = OnFile
        /\ \A c \in Bridges \ {b} : pass'[c] = pass[c]
    <3>1. OneMove(b, q)
      BY <1>1, <1>2, OneMoves
    <3>2. QED
      BY <3>1 DEF OneMove
  <2>2. \A c \in Bridges : pass[c].pc = "idle"
    BY <1>1, <1>4 DEF Overlaps
  <2>3. Active = {} /\ (\A e : MayTell(e) = {}) /\ \A s : MayOpen(s) = {}
    BY <2>2 DEF Active, MayTell, MayOpen
  <2>4. /\ Active' \subseteq {b} /\ (\A e : MayTell(e)' \subseteq {b})
        /\ \A s : MayOpen(s)' \subseteq {b}
    BY <2>1, <2>3
  <2>5. Owes(q) = {} /\ Knows(q) = disk.done /\ q.copy = disk
    BY <1>2, <1>4 DEF Owes, Knows
  <2>6. mishaps \in Nat /\ 0 \in Nat /\ 0 <= 1 + mishaps /\ 0 <= mishaps
    BY <1>1 DEF TrueInv, BugTypes
  <2>7. Paid(0, Active', mishaps')
    BY <1>4, <2>4, <2>6, PaidAlone
  <2>8. ASSUME NEW e \in Events PROVE EventPaid(e)'
    <3>1. told[e] \in Nat
      BY <1>1, EventsAreNumbers DEF TrueInv, BugTypes
    <3>2. Paid(told[e], MayTell(e), mishaps) /\ (Forgotten(e) => told[e] <= mishaps)
      BY DEF PaidInv, EventPaid
    <3>3. told[e] <= 1 + mishaps
      BY <2>6, <3>1, <3>2, MayAreBridges, PaidAhead
    <3>4. b \in MayTell(e)' => Forgotten(e)
      BY <2>1, <2>2, <2>5 DEF Forgotten
    <3>5. Forgotten(e)' => Forgotten(e)
      BY <1>1, <2>1, <2>2 DEF Forgotten
    <3>6. Paid(told[e], MayTell(e)', mishaps)
      BY <2>4, <2>6, <3>1, <3>2, <3>3, <3>4, PaidAlone
    <3>7. QED
      BY <1>1, <1>4, <3>2, <3>5, <3>6 DEF EventPaid
  <2>9. ASSUME NEW s \in Sites PROVE IssuePaid(s)'
    <3> DEFINE n == Cardinality(IssuesOf(s))
    <3>1. n \in Nat /\ n' = n
      BY <1>1, IssuesCount DEF TrueInv, IssuesOf
    <3>2. Paid(n, MayOpen(s), mishaps) /\ (Unnamed(s) => n <= mishaps)
      BY DEF PaidInv, IssuePaid
    <3> HIDE DEF n
    <3>3. n <= 1 + mishaps
      BY <2>6, <3>1, <3>2, MayAreBridges, PaidAhead
    <3>4. b \in MayOpen(s)' => Unnamed(s)
      BY <2>1, <2>2, <2>5 DEF Unnamed
    <3>5. Unnamed(s)' => Unnamed(s)
      BY <1>1, <2>1, <2>2 DEF Unnamed
    <3>6. Paid(n, MayOpen(s)', mishaps)
      BY <2>4, <2>6, <3>1, <3>2, <3>3, <3>4, PaidAlone
    <3>7. QED
      BY <1>4, <3>1, <3>2, <3>5, <3>6 DEF IssuePaid, n
  <2>10. QED
    BY <1>1, <2>1, <2>7, <2>8, <2>9 DEF PaidInv
<1>5. QED
  BY <1>2, <1>3, <1>4

LEMMA ReadPaid ==
  ASSUME PaidInv, NEW b \in Bridges, Read(b)
  PROVE  PaidInv'
<1>1. /\ TrueInv /\ TrueInv' /\ pass[b].pc = "read"
      /\ UNCHANGED <<journal, oldest, disk, told, issues>>
  BY ReadMoves DEF PaidInv
<1>2. PICK q \in Passes :
        /\ pass' = [pass EXCEPT ![b] = q]
        /\ q.pc = "next" /\ q.copy = pass[b].copy
        /\ q.seen \subseteq OnFile /\ q.todo \subseteq q.seen \ q.copy.done
        /\ mishaps' = mishaps + 1 \/ (mishaps' = mishaps /\ q.seen = OnFile)
  BY ReadMoves DEF PaidInv
<1>3. CASE mishaps' = mishaps + 1
  BY <1>1, <1>2, <1>3, QuietPaid
<1>4. CASE mishaps' = mishaps /\ q.seen = OnFile
  <2>1. /\ pass'[b] = q /\ \A c \in Bridges \ {b} : pass'[c] = pass[c]
        /\ \A e : b \in MayTell(e)' => e \in Owes(q) \/ (e \in OnFile /\ e \notin Knows(q))
        /\ \A s : b \in MayOpen(s)' => q.copy.issue[s] = NoIssue
        /\ OnFile' = OnFile
    <3>1. OneMove(b, q)
      BY <1>1, <1>2, OneMoves
    <3>2. QED
      BY <3>1 DEF OneMove
  <2>2. b \in Active
    BY <1>1 DEF Active
  <2>3. Owes(q) \subseteq OnFile \ Knows(q) /\ OnFile \ Knows(q) = OnFile \ pass[b].copy.done
    BY <1>2, <1>4 DEF Owes, Knows, InHand
  <2>4. \A e : b \in MayTell(e)' => b \in MayTell(e)
    BY <1>1, <2>1, <2>2, <2>3 DEF MayTell, Knows
  <2>5. \A s : b \in MayOpen(s)' => b \in MayOpen(s)
    BY <1>2, <2>1, <2>2 DEF MayOpen
  <2>6. \A e : Forgotten(e)' => Forgotten(e)
    BY <1>1, <2>1 DEF Forgotten
  <2>7. \A s : Unnamed(s)' => Unnamed(s)
    BY <1>1, <2>1 DEF Unnamed
  <2>8. QED
    BY <1>1, <1>2, <1>4, <2>2, <2>4, <2>5, <2>6, <2>7, QuietPaid
<1>5. QED
  BY <1>2, <1>3, <1>4

LEMMA RefusedPaid ==
  ASSUME PaidInv, NEW b \in Bridges, Refused(b)
  PROVE  PaidInv'
<1> DEFINE q == [pass[b] EXCEPT !.pc = "end"]
<1>1. /\ TrueInv /\ TrueInv' /\ pass[b].pc = "next"
      /\ UNCHANGED <<journal, oldest, disk, told, issues, mishaps>>
      /\ pass' = [pass EXCEPT ![b] = q] /\ pass[b] \in Passes
  BY RefusedMoves, CopiesAreTrue DEF PaidInv
<1>2. q.pc = "end" /\ q.copy = pass[b].copy /\ q.seen = pass[b].seen
  BY <1>1 DEF Passes
<1> HIDE DEF q
<1>3. /\ pass'[b] = q /\ \A c \in Bridges \ {b} : pass'[c] = pass[c]
      /\ \A e : b \in MayTell(e)' => e \in Owes(q) \/ (e \in OnFile /\ e \notin Knows(q))
      /\ \A s : b \in MayOpen(s)' => q.copy.issue[s] = NoIssue
      /\ OnFile' = OnFile
  <2>1. OneMove(b, q)
    BY <1>1, OneMoves
  <2>2. QED
    BY <2>1 DEF OneMove
<1>4. b \in Active
  BY <1>1 DEF Active
<1>5. Owes(q) = {} /\ Knows(q) = Knows(pass[b])
  BY <1>1, <1>2 DEF Owes, Knows, InHand
<1>6. \A e : /\ b \in MayTell(e)' => b \in MayTell(e)
             /\ Forgotten(e)' => Forgotten(e)
  BY <1>1, <1>3, <1>4, <1>5 DEF MayTell, Forgotten
<1>7. \A s : /\ b \in MayOpen(s)' => b \in MayOpen(s)
             /\ Unnamed(s)' => Unnamed(s)
  BY <1>1, <1>2, <1>3, <1>4 DEF MayOpen, Unnamed
<1>8. QED
  BY <1>1, <1>4, <1>6, <1>7, QuietPaid

LEMMA SavePaid ==
  ASSUME PaidInv, NEW b \in Bridges, Save(b)
  PROVE  PaidInv'
<1>1. /\ TrueInv /\ TrueInv' /\ pass[b].pc = "save"
      /\ UNCHANGED <<journal, oldest, told, issues>>
  BY SaveMoves DEF PaidInv
<1>2. CASE mishaps' = mishaps + 1 /\ pass' = [pass EXCEPT ![b] = Asleep]
  BY <1>1, <1>2, QuietPaid
<1>3. CASE /\ mishaps' = mishaps
           /\ \E q \in Passes :
                /\ pass' = [pass EXCEPT ![b] = q]
                /\ disk' = q.copy /\ q.copy.done = Knows(pass[b])
                /\ q.copy.issue = pass[b].copy.issue
                /\ q.pc = "next" /\ q.seen = pass[b].seen
                /\ q.todo = pass[b].todo \ {Current(b)}
  <2>1. PICK q \in Passes :
          /\ pass' = [pass EXCEPT ![b] = q]
          /\ disk' = q.copy /\ q.copy.done = Knows(pass[b])
          /\ q.copy.issue = pass[b].copy.issue
          /\ q.pc = "next" /\ q.seen = pass[b].seen
          /\ q.todo = pass[b].todo \ {Current(b)}
    BY <1>3
  <2>2. /\ pass'[b] = q /\ \A c \in Bridges \ {b} : pass'[c] = pass[c]
        /\ \A e : b \in MayTell(e)' => e \in Owes(q) \/ (e \in OnFile /\ e \notin Knows(q))
        /\ \A s : b \in MayOpen(s)' => q.copy.issue[s] = NoIssue
        /\ OnFile' = OnFile
    <3>1. OneMove(b, q)
      BY <1>1, <2>1, OneMoves
    <3>2. QED
      BY <3>1 DEF OneMove
  <2>3. b \in Active
    BY <1>1 DEF Active
  <2>4. Knows(q) = Knows(pass[b]) /\ Owes(q) \subseteq Owes(pass[b])
    <3>1. Knows(q) = Knows(pass[b])
      BY <1>1, <2>1 DEF Knows, InHand
    <3>2. QED
      BY <1>1, <2>1, <3>1 DEF Owes
  <2>5. \A e : b \in MayTell(e)' => b \in MayTell(e)
    BY <2>2, <2>3, <2>4 DEF MayTell
  <2>6. \A e : Forgotten(e)' => b \in MayTell(e)
    BY <2>1, <2>2, <2>3 DEF Forgotten, MayTell
  <2>7. \A s : /\ b \in MayOpen(s)' => b \in MayOpen(s)
               /\ Unnamed(s)' => b \in MayOpen(s)
    BY <2>1, <2>2, <2>3 DEF MayOpen, Unnamed
  <2>8. QED
    BY <1>1, <1>3, <2>1, <2>3, <2>5, <2>6, <2>7, QuietPaid
<1>4. QED
  BY <1>2, <1>3, SaveMoves DEF PaidInv

LEMMA EndPaid ==
  ASSUME PaidInv, NEW b \in Bridges, End(b)
  PROVE  PaidInv'
<1>1. /\ TrueInv /\ TrueInv' /\ pass[b].pc \in {"next", "end"}
      /\ UNCHANGED <<journal, oldest, told, issues, mishaps>>
      /\ pass' = [pass EXCEPT ![b] = Asleep]
      /\ \/ disk' = disk
         \/ disk'.done = Knows(pass[b]) /\ disk'.issue = pass[b].copy.issue
  BY EndMoves DEF PaidInv
<1>2. Asleep.pc = "idle"
  BY DEF Asleep
<1>3. /\ pass'[b] = Asleep /\ \A c \in Bridges \ {b} : pass'[c] = pass[c]
      /\ \A e : b \notin MayTell(e)'
      /\ \A s : b \notin MayOpen(s)'
      /\ OnFile' = OnFile /\ b \notin Active'
  <2>1. OneMove(b, Asleep)
    BY <1>1, <1>2, OneMoves
  <2>2. QED
    BY <1>2, <2>1 DEF OneMove
<1>4. b \in Active
  BY <1>1 DEF Active
<1>5. \A e : Forgotten(e)' => Forgotten(e) \/ b \in MayTell(e)
  BY <1>1, <1>3, <1>4 DEF Forgotten, MayTell
<1>6. \A s : Unnamed(s)' => Unnamed(s) \/ b \in MayOpen(s)
  BY <1>1, <1>3, <1>4 DEF Unnamed, MayOpen
<1>7. QED
  BY <1>1, <1>3, <1>5, <1>6, QuietPaid

LEMMA DiePaid ==
  ASSUME PaidInv, NEW b \in Bridges, Die(b)
  PROVE  PaidInv'
<1>1. /\ TrueInv' /\ mishaps' = mishaps + 1
      /\ UNCHANGED <<journal, oldest, told, issues>>
      /\ pass' = [pass EXCEPT ![b] = Asleep]
  BY DieMoves DEF PaidInv
<1>2. QED
  BY <1>1, QuietPaid

-----------------------------------------------------------------------------
(* The steps that tell.                                                    *)

(* The current event is told once more, by one who was to tell it.         *)
LEMMA TellingPaid ==
  ASSUME PaidInv, TrueInv', NEW b \in Bridges, NEW q, pass' = [pass EXCEPT ![b] = q],
         pass[b].pc = "next", pass[b].todo # {}, UNCHANGED <<journal, oldest, disk>>,
         told' = [told EXCEPT ![Current(b)] = @ + 1],
         q.seen = pass[b].seen, q.todo = pass[b].todo, q.copy.done = pass[b].copy.done,
         \/ q.pc = "save" /\ mishaps' = mishaps
         \/ q.pc = "end" /\ mishaps' = mishaps + 1
  PROVE  /\ Paid(0, Active', mishaps')
         /\ \A e \in Events' : EventPaid(e)'
<1> DEFINE cur == Current(b)
<1>1. TrueInv /\ mishaps \in Nat /\ mishaps + 1 \in Nat /\ mishaps' \in Nat
  BY CopiesAreTrue DEF PaidInv, TrueInv, BugTypes
<1>2. OneMove(b, q)
  BY <1>1, OneMoves
<1>3. /\ cur \in pass[b].todo /\ cur \in 1 .. MaxEvents /\ cur \in Events
      /\ cur \in pass[b].seen /\ cur \notin pass[b].copy.done
      /\ cur = Min(pass[b].todo) /\ cur = Min(q.todo)
  BY <1>1, CurrentIsAnEvent DEF TrueInv, Works, Current
<1>4. /\ told'[cur] = told[cur] + 1 /\ \A e \in Events : told[e] \in Nat
      /\ \A e \in Events : e # cur => told'[e] = told[e]
  <2>1. told \in [1 .. MaxEvents -> Nat] /\ Events \subseteq 1 .. MaxEvents
    BY <1>1, EventsAreNumbers DEF TrueInv, BugTypes
  <2>2. QED
    BY <1>3, <2>1
<1> HIDE DEF cur
<1>5. b \in Active
  BY DEF Active
<1>6. b \in MayTell(cur)
  BY <1>3, <1>5 DEF MayTell, Owes, Knows, InHand
<1>7. /\ q.pc = "save" => cur \in Knows(q) /\ cur \notin Owes(q)
      /\ Owes(q) \subseteq Owes(pass[b]) /\ Knows(pass[b]) \subseteq Knows(q)
  <2>1. Knows(pass[b]) = pass[b].copy.done \cap pass[b].seen
    BY DEF Knows, InHand
  <2>2. CASE q.pc = "save"
    <3>1. Knows(q) = (pass[b].copy.done \cup {cur}) \cap pass[b].seen
      BY <1>3, <2>2 DEF Knows, InHand
    <3>2. Owes(q) = pass[b].todo \ Knows(q) /\ Owes(pass[b]) = pass[b].todo \ Knows(pass[b])
      BY <2>2 DEF Owes
    <3>3. QED
      BY <1>3, <2>1, <3>1, <3>2
  <2>3. CASE q.pc = "end"
    <3>1. Knows(q) = pass[b].copy.done \cap pass[b].seen /\ Owes(q) = {}
      BY <2>3 DEF Knows, InHand, Owes
    <3>2. QED
      BY <2>1, <2>3, <3>1
  <2>4. QED
    BY <2>2, <2>3
<1>8. \A e : MayTell(e)' \subseteq MayTell(e)
  <2> SUFFICES ASSUME NEW e, b \in MayTell(e)' PROVE b \in MayTell(e)
    BY <1>2 DEF OneMove
  <2>1. e \in Owes(q) \/ (e \in OnFile /\ e \notin Knows(q))
    BY <1>2 DEF OneMove
  <2>2. QED
    BY <1>5, <1>7, <2>1 DEF MayTell
<1>9. Paid(0, Active', mishaps')
  <2>1. Active' \subseteq Active
    BY <1>2, <1>5 DEF OneMove
  <2>2. 0 \in Nat /\ mishaps <= mishaps' /\ Paid(0, Active, mishaps)
    BY <1>1 DEF PaidInv
  <2>3. QED
    BY <1>1, <2>1, <2>2, MayAreBridges, PaidFewer
<1>10. ASSUME NEW e \in Events, e # cur PROVE EventPaid(e)'
  <2>1. Paid(told[e], MayTell(e), mishaps) /\ (Forgotten(e) => told[e] <= mishaps)
    BY DEF PaidInv, EventPaid
  <2>2. told[e] \in Nat /\ mishaps <= mishaps' /\ MayTell(e) \subseteq Bridges
    BY <1>1, <1>4, MayAreBridges
  <2>3. Paid(told[e], MayTell(e)', mishaps')
    BY <1>1, <1>8, <2>1, <2>2, PaidFewer
  <2>4. Forgotten(e)' => Forgotten(e)
    BY <1>2 DEF Forgotten, OneMove
  <2>5. Forgotten(e)' => told[e] <= mishaps'
    BY <1>1, <2>1, <2>2, <2>4
  <2>6. told'[e] = told[e]
    BY <1>4, <1>10
  <2>7. QED
    BY <2>3, <2>5, <2>6 DEF EventPaid
<1>11. ASSUME NEW e \in Events, e = cur PROVE EventPaid(e)'
  <2>1. /\ told[e] \in Nat /\ told'[e] = told[e] + 1
        /\ MayTell(e) \subseteq Bridges /\ b \in MayTell(e)
    BY <1>3, <1>4, <1>6, <1>11, MayAreBridges
  <2>2. Paid(told[e], MayTell(e), mishaps)
    BY DEF PaidInv, EventPaid
  <2>3. CASE q.pc = "save" /\ mishaps' = mishaps
    <3>1. b \notin MayTell(e)'
      BY <1>2, <1>7, <1>11, <2>3 DEF OneMove
    <3>2. MayTell(e)' \subseteq MayTell(e) \ {b}
      BY <1>8, <3>1
    <3>3. ~Forgotten(e)'
      BY <1>2, <1>7, <1>11, <2>3 DEF Forgotten, OneMove
    <3>4. Paid(told[e] + 1, MayTell(e)', mishaps')
      BY <1>1, <2>1, <2>2, <2>3, <3>2, PaidOut
    <3>5. QED
      BY <2>1, <3>3, <3>4 DEF EventPaid
  <2>4. CASE q.pc = "end" /\ mishaps' = mishaps + 1
    <3>1. MayTell(e)' \subseteq MayTell(e) /\ MayTell(e)' \subseteq Bridges
      BY <1>8, <2>1
    <3>2. mishaps <= mishaps
      BY <1>1
    <3>3. Paid(told[e], MayTell(e)', mishaps)
      BY <1>1, <2>1, <2>2, <3>1, <3>2, PaidFewer
    <3>4. Paid(told[e] + 1, MayTell(e)', mishaps')
      BY <1>1, <2>1, <2>4, <3>1, <3>3, PaidByMishap
    <3>5. told[e] <= mishaps
      BY <1>1, <2>1, <2>2, PaidAhead
    <3>6. told[e] + 1 <= mishaps'
      BY <1>1, <2>1, <2>4, <3>5
    <3>7. QED
      BY <2>1, <3>4, <3>6 DEF EventPaid
  <2>5. QED
    BY <2>3, <2>4
<1>12. Events' = Events
  BY <1>2 DEF OneMove
<1>13. QED
  BY <1>9, <1>10, <1>11, <1>12

(* A fingerprint that gets no issue in the step.                           *)
LEMMA IssuesStay ==
  ASSUME PaidInv, TrueInv', NEW b \in Bridges, NEW q, pass' = [pass EXCEPT ![b] = q],
         pass[b].pc = "next", UNCHANGED <<journal, oldest, disk>>,
         mishaps' \in {mishaps, mishaps + 1},
         NEW s \in Sites, q.copy.issue[s] = pass[b].copy.issue[s],
         IssuesOf(s)' = IssuesOf(s)
  PROVE  IssuePaid(s)'
<1>1. TrueInv /\ mishaps \in Nat /\ mishaps' \in Nat /\ mishaps <= mishaps'
  BY CopiesAreTrue DEF PaidInv, TrueInv, BugTypes
<1>2. OneMove(b, q)
  BY <1>1, OneMoves
<1>3. b \in Active
  BY DEF Active
<1>4. MayOpen(s)' \subseteq MayOpen(s) /\ MayOpen(s) \subseteq Bridges
  BY <1>2, <1>3, MayAreBridges DEF OneMove, MayOpen
<1>5. Unnamed(s)' => Unnamed(s)
  BY <1>2 DEF OneMove, Unnamed
<1> DEFINE n == Cardinality(IssuesOf(s))
<1>6. Paid(n, MayOpen(s), mishaps) /\ (Unnamed(s) => n <= mishaps)
  BY DEF PaidInv, IssuePaid
<1>7. n \in Nat /\ n' = n
  BY <1>1, IssuesCount DEF TrueInv
<1> HIDE DEF n
<1>8. Paid(n, MayOpen(s)', mishaps')
  BY <1>1, <1>4, <1>6, <1>7, PaidFewer
<1>9. Unnamed(s)' => n <= mishaps'
  BY <1>1, <1>5, <1>6, <1>7
<1>10. QED
  BY <1>7, <1>8, <1>9 DEF IssuePaid, n

LEMMA NotePaid ==
  ASSUME PaidInv, NEW b \in Bridges, Note(b)
  PROVE  PaidInv'
<1>1. /\ TrueInv /\ TrueInv' /\ pass[b].pc = "next" /\ pass[b].todo # {}
      /\ UNCHANGED <<journal, oldest, disk>>
      /\ told' = [told EXCEPT ![Current(b)] = @ + 1]
      /\ \A s \in Sites : IssuesOf(s)' = IssuesOf(s)
  BY NoteMoves DEF PaidInv
<1>2. PICK q \in Passes :
        /\ pass' = [pass EXCEPT ![b] = q] /\ q.seen = pass[b].seen
        /\ q.todo = pass[b].todo /\ q.copy = pass[b].copy
        /\ \/ q.pc = "save" /\ mishaps' = mishaps
           \/ q.pc = "end" /\ mishaps' = mishaps + 1
  BY NoteMoves DEF PaidInv
<1>3. Paid(0, Active', mishaps') /\ \A e \in Events' : EventPaid(e)'
  BY <1>1, <1>2, TellingPaid
<1>4. \A s \in Sites : IssuePaid(s)'
  BY <1>1, <1>2, IssuesStay
<1>5. QED
  BY <1>1, <1>3, <1>4 DEF PaidInv

(* A new issue: one more of its fingerprint, opened by one who was to.     *)
LEMMA CreatePaid ==
  ASSUME PaidInv, NEW b \in Bridges, Create(b)
  PROVE  PaidInv'
<1>1. /\ TrueInv /\ TrueInv' /\ pass[b].pc = "next" /\ pass[b].todo # {}
      /\ UNCHANGED <<journal, oldest, disk>>
      /\ told' = [told EXCEPT ![Current(b)] = @ + 1]
      /\ pass[b].copy.issue[SiteNow(b)] = NoIssue
      /\ issues' = Append(issues, [site |-> SiteNow(b), status |-> "open"])
  BY CreateMoves DEF PaidInv
<1>2. PICK q \in Passes :
        /\ pass' = [pass EXCEPT ![b] = q] /\ q.seen = pass[b].seen
        /\ q.todo = pass[b].todo /\ q.copy.done = pass[b].copy.done
        /\ \/ /\ q.pc = "save" /\ mishaps' = mishaps
              /\ q.copy.issue = [pass[b].copy.issue EXCEPT ![SiteNow(b)] = Len(issues) + 1]
           \/ /\ q.pc = "end" /\ mishaps' = mishaps + 1
              /\ q.copy.issue = pass[b].copy.issue
  BY CreateMoves DEF PaidInv
<1>3. Paid(0, Active', mishaps') /\ \A e \in Events' : EventPaid(e)'
  BY <1>1, <1>2, TellingPaid
<1>4. /\ SiteNow(b) \in Sites /\ issues \in Seq(Issues) /\ Len(issues) \in Nat
      /\ pass[b].copy.issue \in [Sites -> Nat]
      /\ mishaps \in Nat /\ mishaps' \in Nat /\ mishaps + 1 \in Nat
  BY <1>1, CurrentIsAnEvent, CopiesAreTrue DEF TrueInv, BugTypes, States
<1>5. /\ DOMAIN issues = 1 .. Len(issues) /\ DOMAIN issues' = 1 .. Len(issues) + 1
      /\ \A i \in 1 .. Len(issues) : issues'[i] = issues[i]
      /\ issues'[Len(issues) + 1].site = SiteNow(b)
  BY <1>1, <1>4
<1>6. 1 .. Len(issues) + 1 = (1 .. Len(issues)) \cup {Len(issues) + 1}
  BY <1>4
<1>7. ASSUME NEW s \in Sites
      PROVE  /\ s = SiteNow(b) => IssuesOf(s)' = IssuesOf(s) \cup {Len(issues) + 1}
             /\ s # SiteNow(b) => IssuesOf(s)' = IssuesOf(s)
  BY <1>5, <1>6 DEF IssuesOf
<1>8. ASSUME NEW s \in Sites, s # SiteNow(b) PROVE IssuePaid(s)'
  <2>1. q.copy.issue[s] = pass[b].copy.issue[s]
    BY <1>2, <1>4, <1>8
  <2>2. mishaps' \in {mishaps, mishaps + 1}
    BY <1>2
  <2>3. IssuesOf(s)' = IssuesOf(s)
    BY <1>7, <1>8
  <2>4. QED
    BY <1>1, <1>2, <2>1, <2>2, <2>3, IssuesStay
<1>9. ASSUME NEW s \in Sites, s = SiteNow(b) PROVE IssuePaid(s)'
  <2> DEFINE n == Cardinality(IssuesOf(s))
  <2>1. IsFiniteSet(IssuesOf(s)) /\ n \in Nat
    BY <1>1, IssuesCount DEF TrueInv
  <2>2. Len(issues) + 1 \notin IssuesOf(s)
    BY <1>4, <1>5 DEF IssuesOf
  <2>3. Cardinality(IssuesOf(s) \cup {Len(issues) + 1}) = n + 1
    BY <2>1, <2>2, FS_AddElement
  <2>4. n' = n + 1
    BY <1>7, <1>9, <2>3
  <2>5. Paid(n, MayOpen(s), mishaps)
    BY DEF PaidInv, IssuePaid
  <2> HIDE DEF n
  <2>6. OneMove(b, q)
    BY <1>1, <1>2, OneMoves
  <2>7. b \in MayOpen(s) /\ MayOpen(s) \subseteq Bridges
    BY <1>1, <1>9, MayAreBridges DEF MayOpen, Active
  <2>8. MayOpen(s)' \subseteq MayOpen(s)
    BY <2>6, <2>7 DEF OneMove
  <2>9. CASE /\ q.pc = "save" /\ mishaps' = mishaps
             /\ q.copy.issue = [pass[b].copy.issue EXCEPT ![SiteNow(b)] = Len(issues) + 1]
    <3>1. q.copy.issue[s] # NoIssue
      BY <1>4, <1>9, <2>9 DEF NoIssue
    <3>2. b \notin MayOpen(s)' /\ ~Unnamed(s)'
      BY <2>6, <2>9, <3>1 DEF OneMove, Unnamed
    <3>3. MayOpen(s)' \subseteq MayOpen(s) \ {b}
      BY <2>8, <3>2
    <3>4. Paid(n + 1, MayOpen(s)', mishaps)
      BY <1>4, <2>1, <2>5, <2>7, <3>3, PaidOut
    <3>5. QED
      BY <2>4, <2>9, <3>2, <3>4 DEF IssuePaid, n
  <2>10. CASE q.pc = "end" /\ mishaps' = mishaps + 1
    <3>1. mishaps <= mishaps /\ MayOpen(s)' \subseteq Bridges
      BY <1>4, <2>7, <2>8
    <3>2. Paid(n, MayOpen(s)', mishaps)
      BY <1>4, <2>1, <2>5, <2>7, <2>8, <3>1, PaidFewer
    <3>3. Paid(n + 1, MayOpen(s)', mishaps')
      BY <1>4, <2>1, <2>10, <3>1, <3>2, PaidByMishap
    <3>4. n <= mishaps
      BY <1>4, <2>1, <2>5, <2>7, PaidAhead
    <3>5. n + 1 <= mishaps'
      BY <1>4, <2>1, <2>10, <3>4
    <3>6. QED
      BY <2>4, <3>3, <3>5 DEF IssuePaid, n
  <2>11. QED
    BY <1>2, <2>9, <2>10
<1>10. QED
  BY <1>1, <1>3, <1>8, <1>9 DEF PaidInv

(* A new line: nobody has told it yet.                                     *)
LEMMA RaisePaid ==
  ASSUME PaidInv, NEW s \in Sites, Raise(s)
  PROVE  PaidInv'
<1>1. /\ TrueInv /\ TrueInv' /\ BugTypes /\ BugTypes'
      /\ UNCHANGED <<disk, issues, told, pass, mishaps>>
      /\ oldest \in Nat /\ oldest' \in Nat /\ oldest <= oldest'
      /\ \/ UNCHANGED <<journal, oldest>>
         \/ /\ Len(journal) < MaxEvents
            /\ \E line \in Lines : journal' = Append(journal, line)
  BY RaiseTrue, RaiseAdds DEF PaidInv, TrueInv, BugTypes
<1>2. /\ mishaps \in Nat /\ 0 \in Nat
      /\ \A e \in Events : told[e] \in Nat
  BY <1>1, EventsAreNumbers DEF BugTypes
<1>3. Active' = Active /\ \A x \in Sites : /\ MayOpen(x)' = MayOpen(x)
                                           /\ IssuesOf(x)' = IssuesOf(x)
                                           /\ Unnamed(x)' = Unnamed(x)
  BY <1>1 DEF Active, MayOpen, IssuesOf, Unnamed
<1>4. Paid(0, Active', mishaps')
  BY <1>1, <1>3 DEF PaidInv
<1>5. ASSUME NEW x \in Sites PROVE IssuePaid(x)'
  BY <1>1, <1>3 DEF PaidInv, IssuePaid
<1>6. OnFile' \cap Events \subseteq OnFile
  <2>1. \A e \in Events : journal'[e] = journal[e] /\ journal[e] \in Lines
    BY <1>1, RaiseTrue DEF Grown, BugTypes, Events
  <2>2. \A e \in Events : journal[e].seg \in Nat
    BY <2>1 DEF Lines
  <2>3. \A e \in Events : journal[e].seg >= oldest' => journal[e].seg >= oldest
    BY <1>1, <2>2
  <2>4. QED
    BY <2>1, <2>3 DEF OnFile
<1>7. ASSUME NEW e \in Events PROVE EventPaid(e)'
  <2>1. Paid(told[e], MayTell(e), mishaps) /\ (Forgotten(e) => told[e] <= mishaps)
    BY DEF PaidInv, EventPaid
  <2>2. MayTell(e)' \subseteq MayTell(e) /\ (Forgotten(e)' => Forgotten(e))
    BY <1>1, <1>3, <1>6 DEF MayTell, Forgotten
  <2>3. mishaps <= mishaps /\ MayTell(e) \subseteq Bridges
    BY <1>2, MayAreBridges
  <2>4. Paid(told[e], MayTell(e)', mishaps)
    BY <1>2, <2>1, <2>2, <2>3, PaidFewer
  <2>5. QED
    BY <1>1, <2>1, <2>2, <2>4 DEF EventPaid
<1>8. ASSUME NEW e \in Events', e \notin Events PROVE EventPaid(e)'
  <2>1. told[e] = 0
    BY <1>1, <1>8, EventsAreNumbers DEF TrueInv, Untold, BugTypes, Events
  <2>2. MayTell(e)' \subseteq Active /\ Active \subseteq Bridges
    BY <1>3, MayAreBridges DEF MayTell
  <2>3. Paid(0, Active, mishaps) /\ mishaps <= mishaps /\ 0 <= mishaps
    BY <1>2 DEF PaidInv
  <2>4. Paid(0, MayTell(e)', mishaps)
    BY <1>2, <2>2, <2>3, PaidFewer
  <2>5. QED
    BY <1>1, <2>1, <2>3, <2>4 DEF EventPaid
<1>9. QED
  BY <1>1, <1>4, <1>5, <1>7, <1>8 DEF PaidInv

(* What concerns neither the passes nor the files leaves the count alone.  *)
LEMMA RestPaid ==
  ASSUME PaidInv, TrueInv',
         UNCHANGED <<journal, oldest, disk, told, pass, mishaps>>,
         \A s \in Sites : IssuesOf(s)' = IssuesOf(s)
  PROVE  PaidInv'
<1>1. /\ Active' = Active /\ Events' = Events /\ OnFile' = OnFile
      /\ \A s \in Sites : MayOpen(s)' = MayOpen(s) /\ (Unnamed(s)' => Unnamed(s))
  BY DEF Active, Events, OnFile, MayOpen, Unnamed
<1>2. \A e \in Events : MayTell(e)' = MayTell(e) /\ (Forgotten(e)' => Forgotten(e))
  BY <1>1 DEF MayTell, Forgotten
<1>3. ASSUME NEW e \in Events PROVE EventPaid(e)'
  BY <1>2 DEF PaidInv, EventPaid
<1>4. ASSUME NEW s \in Sites PROVE IssuePaid(s)'
  BY <1>1 DEF PaidInv, IssuePaid
<1>5. QED
  BY <1>1, <1>3, <1>4 DEF PaidInv

LEMMA StepIsPaid == PaidInv /\ [Next]_bugVars => PaidInv'
<1> SUFFICES ASSUME PaidInv, [Next]_bugVars PROVE PaidInv'
  OBVIOUS
<1>1. TrueInv /\ TrueInv'
  BY StepIsTrue DEF PaidInv
<1>2. ASSUME UNCHANGED bugVars PROVE PaidInv'
  BY <1>1, <1>2, RestPaid DEF bugVars, IssuesOf
<1>3. ASSUME NEW s \in Sites, Raise(s) PROVE PaidInv'
  BY <1>3, RaisePaid
<1>4. ASSUME NEW s \in Sites, Forget(s) PROVE PaidInv'
  BY <1>1, <1>4, RestPaid DEF Forget, files, tracker, IssuesOf
<1>5. ASSUME NEW b \in Bridges, Step(b) \/ Die(b) PROVE PaidInv'
  BY <1>5, BeginPaid, ReadPaid, CreatePaid, NotePaid, RefusedPaid, SavePaid, EndPaid, DiePaid
     DEF Step
<1>6. ASSUME NEW i \in DOMAIN issues, PeopleClose(i) PROVE PaidInv'
  <2>1. UNCHANGED <<journal, oldest, disk, told, pass, mishaps>>
    BY <1>6 DEF PeopleClose, files
  <2>2. QED
    BY <1>1, <1>6, <2>1, CloseTrue, RestPaid
<1>7. QED
  BY <1>2, <1>3, <1>4, <1>5, <1>6 DEF Next

(* One issue for each fingerprint, an event told once, and each mishap -   *)
(* a death, a failed read or write, a lost answer, two passes at a time -  *)
(* is good for one repetition at most, for any number of passes, batches,  *)
(* segments and mishaps.                                                   *)
THEOREM RepetitionsArePaid == Spec => []OncePerMishap
<1>1. PaidInv => OncePerMishap
  <2> SUFFICES ASSUME PaidInv PROVE OncePerMishap
    OBVIOUS
  <2>1. TrueInv /\ mishaps \in Nat /\ 0 <= 1 + mishaps /\ told \in [1 .. MaxEvents -> Nat]
    BY DEF PaidInv, TrueInv, BugTypes
  <2>2. ASSUME NEW e \in 1 .. MaxEvents PROVE told[e] <= 1 + mishaps
    <3>1. CASE e \in Events
      <4>1. Paid(told[e], MayTell(e), mishaps) /\ told[e] \in Nat
        BY <2>1, <3>1 DEF PaidInv, EventPaid
      <4>2. QED
        BY <2>1, <4>1, MayAreBridges, PaidAhead
    <3>2. CASE e \notin Events
      <4>1. told[e] = 0
        BY <2>1, <3>2 DEF TrueInv, Untold
      <4>2. QED
        BY <2>1, <4>1
    <3>3. QED
      BY <3>1, <3>2
  <2>3. ASSUME NEW s \in Sites PROVE Cardinality(IssuesOf(s)) <= 1 + mishaps
    <3>1. Paid(Cardinality(IssuesOf(s)), MayOpen(s), mishaps)
      BY DEF PaidInv, IssuePaid
    <3>2. Cardinality(IssuesOf(s)) \in Nat
      BY <2>1, IssuesCount DEF TrueInv
    <3>3. QED
      BY <2>1, <3>1, <3>2, MayAreBridges, PaidAhead
  <2>4. QED
    BY <2>2, <2>3 DEF OncePerMishap
<1>2. QED
  BY <1>1, InitTrue, StepIsPaid, PTL DEF Spec

=============================================================================
