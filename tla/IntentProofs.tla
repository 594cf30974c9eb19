---------------------------- MODULE IntentProofs ----------------------------
(***************************************************************************)
(* The dedupe tables for any requests, scopes, keys and bounds: types, one *)
(* undecided lot a scope, keys that keep leading to the lot their client   *)
(* was told of, and a scanner that never continues from a failure; the     *)
(* same beneath the scanner; and the button that stops everything.         *)
(*                                                                         *)
(* The invariant that is inductive says what the joins rest on: a record   *)
(* is named by its own key (SelfNamed), no key leads to two lots           *)
(* (OneLotEach), and an undecided lot on record is the one its scope       *)
(* points to (LiveIsLatest).  The stop rests on what it has still to       *)
(* cancel: everything the scanner has queued, the scanner being off        *)
(* (StopCovers).                                                           *)
(***************************************************************************)
EXTENDS AutoScanner, WellFoundedInduction, TLAPS

OneLotEach ==
  /\ \A x, y \in records : x[1] = y[1] => x[2] = y[2]
  /\ \A x, y \in records : x[2] = y[2] => x[1] = y[1]
  /\ \A x, y \in aliases : x[1] = y[1] => x[2] = y[2]

SelfNamed == \A x \in records : <<x[1], x[1]>> \in aliases

(* A scope points to a lot of its own.                                     *)
PointsHome ==
  \A s \in Scopes : latest[s] # NoKey =>
    \E x \in records : x[1] = latest[s] /\ ScopeOfLot(x[2]) = s

LiveIsLatest ==
  \A x \in records :
    InState(x[2], Undecided) # {} => latest[ScopeOfLot(x[2])] = x[1]

(* The key a client was told a lot under is an alias of that lot.          *)
ToldIsAlias ==
  \A h \in handed :
    /\ ScopeOf[h[2]] = ScopeOfLot(h[3]) /\ SamePayload(h[3], h[2])
    /\ \A x \in records : x[2] = h[3] => <<ClientKey(h[1]), x[1]>> \in aliases

(* What a lot is a rerun of is decided, and failed nowhere if the scanner  *)
(* opened the rerun.                                                       *)
ParentsDecided ==
  \A n \in LotNumbers : lots[n].parent # 0 =>
    /\ InState(lots[n].parent, Undecided) = {}
    /\ lots[n].req \in Automatic => InState(lots[n].parent, {"failed"}) = {}

Inv ==
  /\ IntentTypeOK /\ OneLotEach /\ SelfNamed /\ PointsHome
  /\ LiveIsLatest /\ ToldIsAlias /\ ParentsDecided

-----------------------------------------------------------------------------
(* The lots.                                                               *)

LEMMA ElementOfSeq ==
  ASSUME NEW S, NEW q \in Seq(S), NEW i \in 1 .. Len(q)
  PROVE  q[i] \in S
OBVIOUS

Lot == [req : Requests, parent : Nat,
        state : UNION {[AssetsOf[s] -> LotStates] : s \in Scopes}]

(* A lot that is there is well formed, and so is the one it reruns.        *)
LEMMA LotTyped ==
  ASSUME IntentTypeOK, NEW n \in LotNumbers
  PROVE  /\ lots[n] \in Lot
         /\ lots[n].req \in Requests /\ ScopeOfLot(n) \in Scopes
         /\ lots[n].parent # 0 => lots[n].parent \in LotNumbers
<1>1. lots \in Seq(Lot) /\ Len(lots) \in Nat /\ n \in 1 .. Len(lots)
  BY DEF IntentTypeOK, Lot, LotNumbers
<1>2. lots[n] \in Lot
  BY <1>1, ElementOfSeq
<1>3. lots[n].req \in Requests /\ lots[n].parent \in Nat
  BY <1>2 DEF Lot
<1>4. lots[n].parent < n
  BY DEF IntentTypeOK
<1>5. QED
  BY <1>1, <1>2, <1>3, <1>4, IntentAssumption DEF ScopeOfLot, LotNumbers

-----------------------------------------------------------------------------
(* The joins.                                                              *)

LEMMA LotsUnderAKey ==
  ASSUME NEW key, NEW n
  PROVE  n \in LotsUnder(key)
           <=> \E x \in records : x[2] = n /\ <<key, x[1]>> \in aliases
BY DEF LotsUnder

(* Nothing is known under a key that leads nowhere.                        *)
LEMMA UnknownKey ==
  ASSUME IntentTypeOK, NEW key, LotsUnder(key) = {}
  PROVE  \A y \in aliases : y[1] # key
<1> SUFFICES ASSUME NEW y \in aliases, y[1] = key
             PROVE  FALSE
  OBVIOUS
<1>1. y[2] \in {rec[1] : rec \in records} /\ y = <<y[1], y[2]>>
  BY DEF IntentTypeOK
<1>2. PICK x \in records : x[1] = y[2]
  BY <1>1
<1>3. <<key, x[1]>> \in aliases
  BY <1>1, <1>2
<1>4. x[2] \in LotsUnder(key)
  BY <1>3, LotsUnderAKey
<1>5. QED
  BY <1>4

(* The scope's pointer leads to one lot, of that scope.                    *)
LEMMA PointedAt ==
  ASSUME Inv, NEW s \in Scopes, NEW n \in LatestLots(s)
  PROVE  /\ n \in LotNumbers /\ ScopeOfLot(n) = s
         /\ <<latest[s], n>> \in records
         /\ latest[s] # NoKey /\ LatestLots(s) = {n}
<1>1. PICK x \in records : x[2] = n /\ <<latest[s], x[1]>> \in aliases
  BY LotsUnderAKey DEF LatestLots
<1>2. latest[s] \in Keys
  BY <1>1 DEF Inv, IntentTypeOK
<1>3. latest[s] # NoKey
  BY <1>2, IntentAssumption
<1>4. PICK y \in records : y[1] = latest[s] /\ ScopeOfLot(y[2]) = s
  BY <1>3 DEF Inv, PointsHome
<1>5. <<y[1], y[1]>> \in aliases
  BY DEF Inv, SelfNamed
<1>6. x[1] = y[1]
  BY <1>1, <1>4, <1>5 DEF Inv, OneLotEach
<1>7. n = y[2] /\ y = <<y[1], y[2]>> /\ y[2] \in LotNumbers
  BY <1>1, <1>6 DEF Inv, OneLotEach, IntentTypeOK
<1>8. ASSUME NEW m \in LatestLots(s) PROVE m = n
  <2>1. PICK z \in records : z[2] = m /\ <<latest[s], z[1]>> \in aliases
    BY LotsUnderAKey DEF LatestLots
  <2>2. z[1] = y[1]
    BY <1>4, <1>5, <2>1 DEF Inv, OneLotEach
  <2>3. QED
    BY <1>7, <2>1, <2>2 DEF Inv, OneLotEach
<1>9. QED
  BY <1>3, <1>4, <1>7, <1>8

(* The key that a request is made under is one of the keys.                *)
LEMMA KeyForIsAKey ==
  ASSUME Inv, NEW r \in Requests, NEW k \in ClientKeys \cup {NoKey},
         r \notin Automatic => k \in ClientKeys
  PROVE  KeyFor(r, k) \in Keys
<1>1. CASE r \notin Automatic
  BY <1>1 DEF KeyFor, Keys
<1>2. CASE r \in Automatic
  <2>1. ScopeOf[r] \in Scopes
    BY IntentAssumption
  <2>2. ParentOf(ScopeOf[r]) \in 0 .. MaxLots
    <3>1. CASE TerminalParents(ScopeOf[r]) = {}
      BY <3>1, IntentAssumption DEF ParentOf
    <3>2. CASE TerminalParents(ScopeOf[r]) # {}
      <4>1. ParentOf(ScopeOf[r]) \in LatestLots(ScopeOf[r])
        BY <3>2 DEF ParentOf, TerminalParents
      <4>2. ParentOf(ScopeOf[r]) \in LotNumbers
        BY <2>1, <4>1, PointedAt
      <4>3. QED
        BY <4>2, IntentAssumption DEF LotNumbers, Inv, IntentTypeOK
    <3>3. QED
      BY <3>1, <3>2
  <2>3. QED
    BY <1>2, <2>1, <2>2 DEF KeyFor, Keys
<1>3. QED
  BY <1>1, <1>2

-----------------------------------------------------------------------------
(* The steps.                                                              *)

LEMMA InitInv == Init => Inv
<1> SUFFICES ASSUME Init PROVE Inv
  OBVIOUS
<1>1. IntentTypeOK
  BY IntentAssumption DEF Init, IntentTypeOK, LotNumbers, Asleep
<1>2. QED
  BY <1>1 DEF Init, Inv, OneLotEach, SelfNamed, PointsHome, LiveIsLatest,
              ToldIsAlias, ParentsDecided, LotNumbers

(* What the requests in flight and the clean-up may become.                *)
SidesTyped ==
  /\ inFlight \subseteq Guarded \X (ClientKeys \cup {NoKey})
  /\ cleaner \in [todo : SUBSET (LotNumbers \X AllAssets \X LotStates),
                  scope : Scopes \cup {NoScope}, retired : SUBSET Scopes]
  /\ \A x \in cleaner.todo : x[2] \in DOMAIN lots[x[1]].state

(* A step that changes neither a lot nor a table nor what was handed out.  *)
LEMMA QuietStep ==
  ASSUME Inv, UNCHANGED <<lots, tables, handed>>, SidesTyped'
  PROVE  Inv'
<1> USE DEF tables
<1>1. IntentTypeOK'
  BY DEF Inv, IntentTypeOK, SidesTyped, LotNumbers, ScopeOfLot
<1>2. OneLotEach' /\ SelfNamed' /\ PointsHome'
  BY DEF Inv, OneLotEach, SelfNamed, PointsHome, ScopeOfLot
<1>3. LiveIsLatest' /\ ToldIsAlias' /\ ParentsDecided'
  BY DEF Inv, LiveIsLatest, ToldIsAlias, ParentsDecided, ScopeOfLot,
         SamePayload, InState, LotNumbers
<1>4. QED
  BY <1>1, <1>2, <1>3 DEF Inv

(* A request as the next-state relation makes it.                          *)
Asks(r, k) ==
  /\ r \in Requests
  /\ \/ r \in Automatic /\ k = NoKey
     \/ r \notin Automatic /\ k \in ClientKeys

LEMMA SidesOfCreate ==
  ASSUME Inv, NEW r, NEW k, inFlight' = inFlight \ {<<r, k>>},
         UNCHANGED <<lots, cleaner>>
  PROVE  SidesTyped'
BY DEF Inv, IntentTypeOK, SidesTyped, LotNumbers

LEMMA ReplayKeeps ==
  ASSUME Inv, NEW r, NEW k, Asks(r, k), Replay(r, k),
         inFlight' = inFlight \ {<<r, k>>}
  PROVE  Inv'
<1>1. PICK n \in LotsUnder(KeyFor(r, k)) :
        /\ ScopeOfLot(n) = ScopeOf[r] /\ SamePayload(n, r)
        /\ Hand(k, r, n)
        /\ UNCHANGED <<lots, tables, cleaner>>
  BY DEF Replay
<1>2. PICK x \in records : x[2] = n /\ <<KeyFor(r, k), x[1]>> \in aliases
  BY LotsUnderAKey
<1>3. n \in LotNumbers
  BY <1>2 DEF Inv, IntentTypeOK
<1>4. SidesTyped'
  BY <1>1, SidesOfCreate
<1>5. IntentTypeOK'
  <2>1. handed' \subseteq ClientKeys \X Requests \X LotNumbers
    BY <1>1, <1>3 DEF Hand, Asks, Inv, IntentTypeOK
  <2>2. QED
    BY <1>1, <1>4, <2>1
       DEF Inv, IntentTypeOK, SidesTyped, tables, LotNumbers, ScopeOfLot
<1>6. ToldIsAlias'
  <2>1. ASSUME NEW h \in handed'
        PROVE  /\ ScopeOf[h[2]] = ScopeOfLot(h[3]) /\ SamePayload(h[3], h[2])
               /\ \A y \in records :
                    y[2] = h[3] => <<ClientKey(h[1]), y[1]>> \in aliases
    <3>1. CASE h \in handed
      BY <3>1 DEF Inv, ToldIsAlias
    <3>2. CASE h \notin handed
      <4>1. h = <<k, r, n>> /\ k # NoKey
        BY <1>1, <3>2 DEF Hand
      <4>2. KeyFor(r, k) = ClientKey(k)
        BY <4>1 DEF Asks, KeyFor
      <4>3. \A y \in records : y[2] = n => y[1] = x[1]
        BY <1>2 DEF Inv, OneLotEach
      <4>4. QED
        BY <1>1, <1>2, <4>1, <4>2, <4>3
    <3>3. QED
      BY <3>1, <3>2
  <2>2. QED
    BY <1>1, <2>1 DEF ToldIsAlias, tables, ScopeOfLot, SamePayload
<1>7. OneLotEach' /\ SelfNamed' /\ PointsHome' /\ LiveIsLatest' /\ ParentsDecided'
  BY <1>1 DEF Inv, OneLotEach, SelfNamed, PointsHome, LiveIsLatest,
              ParentsDecided, tables, ScopeOfLot, InState, LotNumbers
<1>8. QED
  BY <1>5, <1>6, <1>7 DEF Inv

LEMMA JoinKeeps ==
  ASSUME Inv, NEW r, NEW k, Asks(r, k), Join(r, k),
         inFlight' = inFlight \ {<<r, k>>}
  PROVE  Inv'
<1> DEFINE s == ScopeOf[r]
           key == KeyFor(r, k)
<1>1. LotsUnder(key) = {} /\ UNCHANGED <<lots, records, latest, cleaner>>
  BY DEF Join
<1>2. PICK n \in Blockers(s, r) :
        /\ SamePayload(n, r)
        /\ AddAlias(key, latest[s])
        /\ Hand(k, r, n)
  BY DEF Join
<1>3. s \in Scopes /\ n \in LatestLots(s)
  BY IntentAssumption DEF Asks, Blockers
<1>4. n \in LotNumbers /\ ScopeOfLot(n) = s /\ <<latest[s], n>> \in records
  BY <1>3, PointedAt
<1>5. key \in Keys
  BY KeyForIsAKey DEF Asks
<1>6. \A y \in aliases : y[1] # key
  BY <1>1, UnknownKey DEF Inv
<1>7. aliases' = aliases \cup {<<key, latest[s]>>}
  BY <1>2 DEF AddAlias
<1> HIDE DEF s, key
<1>8. SidesTyped'
  BY <1>1, SidesOfCreate
<1>9. IntentTypeOK'
  <2>1. aliases' \subseteq Keys \X {rec[1] : rec \in records'}
    <3>1. latest[s] \in {rec[1] : rec \in records}
      BY <1>4
    <3>2. QED
      BY <1>1, <1>5, <1>7, <3>1 DEF Inv, IntentTypeOK
  <2>2. handed' \subseteq ClientKeys \X Requests \X LotNumbers
    BY <1>2, <1>4 DEF Hand, Asks, Inv, IntentTypeOK
  <2>3. QED
    BY <1>1, <1>8, <2>1, <2>2
       DEF Inv, IntentTypeOK, SidesTyped, LotNumbers, ScopeOfLot
<1>10. OneLotEach'
  BY <1>1, <1>6, <1>7 DEF Inv, OneLotEach
<1>11. SelfNamed' /\ PointsHome' /\ LiveIsLatest' /\ ParentsDecided'
  BY <1>1, <1>7 DEF Inv, SelfNamed, PointsHome, LiveIsLatest,
                    ParentsDecided, ScopeOfLot, InState, LotNumbers
<1>12. ToldIsAlias'
  <2>1. ASSUME NEW h \in handed'
        PROVE  /\ ScopeOf[h[2]] = ScopeOfLot(h[3]) /\ SamePayload(h[3], h[2])
               /\ \A y \in records :
                    y[2] = h[3] => <<ClientKey(h[1]), y[1]>> \in aliases'
    <3>1. CASE h \in handed
      BY <1>7, <3>1 DEF Inv, ToldIsAlias
    <3>2. CASE h \notin handed
      <4>1. h = <<k, r, n>> /\ k # NoKey
        BY <1>2, <3>2 DEF Hand
      <4>2. key = ClientKey(k)
        BY <4>1 DEF Asks, KeyFor, key
      <4>3. \A y \in records : y[2] = n => y[1] = latest[s]
        BY <1>4 DEF Inv, OneLotEach
      <4>4. ScopeOf[r] = ScopeOfLot(n) /\ SamePayload(n, r)
        BY <1>2, <1>4 DEF s
      <4>5. QED
        BY <1>7, <4>1, <4>2, <4>3, <4>4
    <3>3. QED
      BY <3>1, <3>2
  <2>2. QED
    BY <1>1, <2>1 DEF ToldIsAlias, ScopeOfLot, SamePayload
<1>13. QED
  BY <1>9, <1>10, <1>11, <1>12 DEF Inv

(* A lot that is opened: nothing undecided holds its scope, and what it    *)
(* reruns is decided.                                                      *)
LEMMA ParentIsDecided ==
  ASSUME Inv, NEW s \in Scopes, ParentOf(s) # 0
  PROVE  /\ ParentOf(s) \in LatestLots(s) /\ ParentOf(s) \in LotNumbers
         /\ InState(ParentOf(s), Undecided) = {}
<1>1. ParentOf(s) \in TerminalParents(s)
  BY DEF ParentOf
<1>2. ParentOf(s) \in LatestLots(s) /\ InState(ParentOf(s), Undecided) = {}
  BY <1>1 DEF TerminalParents
<1>3. QED
  BY <1>2, PointedAt

LEMMA OpenKeeps ==
  ASSUME Inv, NEW r, NEW k, Asks(r, k), Open(r, k),
         inFlight' = inFlight \ {<<r, k>>}
  PROVE  Inv'
<1>0. PICK s, key, n, lot :
        /\ s = ScopeOf[r] /\ key = KeyFor(r, k) /\ n = Len(lots) + 1
        /\ lot = [req |-> r, parent |-> ParentOf(s),
                  state |-> [a \in AssetsOf[s] |-> "live"]]
  OBVIOUS
<1>1. /\ Len(lots) < MaxLots
      /\ LotsUnder(key) = {} /\ Blockers(s, r) = {}
      /\ lots' = Append(lots, lot)
      /\ records' = records \cup {<<key, n>>}
      /\ aliases' = aliases \cup {<<key, key>>}
      /\ latest' = [latest EXCEPT ![s] = key]
      /\ Hand(k, r, n)
      /\ cleaner' = cleaner
  BY <1>0 DEF Open
<1>1a. <<key, n>> \in records'
  BY <1>1
<1>1b. PICK new \in records' : new = <<key, n>> /\ new[1] = key /\ new[2] = n
  BY <1>1a
<1>2. s \in Scopes /\ r \in Requests
  BY <1>0, IntentAssumption DEF Asks
<1>3. key \in Keys
  BY <1>0, KeyForIsAKey DEF Asks
<1>4. \A y \in aliases : y[1] # key
  BY <1>1, UnknownKey DEF Inv
<1>5. \A x \in records : x[1] # key
  BY <1>4 DEF Inv, SelfNamed
<1>6. ParentOf(s) \in 0 .. Len(lots)
  <2>1. CASE ParentOf(s) = 0
    BY <2>1 DEF Inv, IntentTypeOK
  <2>2. CASE ParentOf(s) # 0
    BY <1>2, <2>2, ParentIsDecided DEF LotNumbers
  <2>3. QED
    BY <2>1, <2>2
<1>7. lots \in Seq(Lot) /\ lot \in Lot /\ Len(lots) \in Nat
  <2>1. [a \in AssetsOf[s] |-> "live"] \in [AssetsOf[s] -> LotStates]
    BY DEF LotStates
  <2>2. lots \in Seq(Lot)
    BY DEF Inv, IntentTypeOK, Lot
  <2>3. lot \in Lot
    BY <1>0, <1>2, <1>6, <2>1, <2>2 DEF Lot
  <2>4. QED
    BY <2>2, <2>3
<1>8. /\ lots' \in Seq(Lot) /\ Len(lots') = n
      /\ lots'[n] = lot
      /\ \A m \in LotNumbers : lots'[m] = lots[m]
  BY <1>0, <1>1, <1>7 DEF LotNumbers
<1>9. LotNumbers' = LotNumbers \cup {n} /\ n \notin LotNumbers
  BY <1>0, <1>7, <1>8 DEF LotNumbers
<1>10. \A x \in records : x = <<x[1], x[2]>> /\ x[2] \in LotNumbers
  BY DEF Inv, IntentTypeOK
<1>11. ScopeOfLot(n)' = s /\ \A m \in LotNumbers : ScopeOfLot(m)' = ScopeOfLot(m)
  BY <1>0, <1>8 DEF ScopeOfLot
<1>12. \A S : \A m \in LotNumbers : InState(m, S)' = InState(m, S)
  BY <1>8 DEF InState
<1>13. IntentTypeOK'
  <2>1. Len(lots') <= MaxLots
    BY <1>0, <1>1, <1>7, <1>8, IntentAssumption
  <2>2. \A m \in LotNumbers' :
          lots'[m].parent < m /\ DOMAIN lots'[m].state = AssetsOf[ScopeOfLot(m)']
    <3>1. \A m \in LotNumbers :
            lots'[m].parent < m /\ DOMAIN lots'[m].state = AssetsOf[ScopeOfLot(m)']
      BY <1>8, <1>11 DEF Inv, IntentTypeOK
    <3>2. lots'[n].parent < n
      BY <1>0, <1>6, <1>7, <1>8
    <3>3. DOMAIN lots'[n].state = AssetsOf[s]
      BY <1>0, <1>8
    <3>4. QED
      BY <1>9, <1>11, <3>1, <3>2, <3>3
  <2>3. records' \subseteq Keys \X LotNumbers'
    BY <1>1, <1>3, <1>9 DEF Inv, IntentTypeOK
  <2>4. aliases' \subseteq Keys \X {rec[1] : rec \in records'}
    <3>1. key \in {rec[1] : rec \in records'}
      BY <1>1b
    <3>2. {rec[1] : rec \in records} \subseteq {rec[1] : rec \in records'}
      BY <1>1
    <3>3. aliases \subseteq Keys \X {rec[1] : rec \in records}
      BY DEF Inv, IntentTypeOK
    <3>4. QED
      BY <1>1, <1>3, <3>1, <3>2, <3>3
  <2>5. latest' \in [Scopes -> {rec[1] : rec \in records'} \cup {NoKey}]
    <3>1. key \in {rec[1] : rec \in records'}
      BY <1>1b
    <3>2. {rec[1] : rec \in records} \subseteq {rec[1] : rec \in records'}
      BY <1>1
    <3>3. latest \in [Scopes -> {rec[1] : rec \in records} \cup {NoKey}]
      BY DEF Inv, IntentTypeOK
    <3>4. QED
      BY <1>1, <1>2, <3>1, <3>2, <3>3
  <2>6. inFlight' \subseteq Guarded \X (ClientKeys \cup {NoKey})
    BY DEF Inv, IntentTypeOK
  <2>7. handed' \subseteq ClientKeys \X Requests \X LotNumbers'
    <3>1. handed \subseteq ClientKeys \X Requests \X LotNumbers
      BY DEF Inv, IntentTypeOK
    <3>2. QED
      BY <1>1, <1>2, <1>9, <3>1 DEF Hand, Asks
  <2>8. cleaner' \in [todo : SUBSET (LotNumbers' \X AllAssets \X LotStates),
                      scope : Scopes \cup {NoScope}, retired : SUBSET Scopes]
    <3>1. cleaner \in [todo : SUBSET (LotNumbers \X AllAssets \X LotStates),
                       scope : Scopes \cup {NoScope}, retired : SUBSET Scopes]
      BY DEF Inv, IntentTypeOK
    <3>2. (LotNumbers \X AllAssets \X LotStates)
            \subseteq (LotNumbers' \X AllAssets \X LotStates)
      BY <1>9
    <3>3. QED
      BY <1>1, <3>1, <3>2
  <2>9. \A x \in cleaner'.todo : x[2] \in DOMAIN lots'[x[1]].state
    BY <1>1, <1>8 DEF Inv, IntentTypeOK
  <2>10. QED
    BY <1>8, <2>1, <2>2, <2>3, <2>4, <2>5, <2>6, <2>7, <2>8, <2>9
       DEF IntentTypeOK, Lot
<1>14. OneLotEach'
  BY <1>1, <1>4, <1>5, <1>9, <1>10 DEF Inv, OneLotEach
<1>15. SelfNamed'
  <2>1. ASSUME NEW x \in records' PROVE <<x[1], x[1]>> \in aliases'
    BY <1>1, <1>1b DEF Inv, SelfNamed
  <2>2. QED
    BY <2>1 DEF SelfNamed
<1>16. PointsHome'
  <2>1. ASSUME NEW t \in Scopes, latest'[t] # NoKey
        PROVE  \E x \in records' : x[1] = latest'[t] /\ ScopeOfLot(x[2])' = t
    <3>1. CASE t = s
      <4>1. latest'[t] = key
        BY <1>1, <1>2, <3>1 DEF Inv, IntentTypeOK
      <4>2. QED
        BY <1>1b, <1>11, <3>1, <4>1
    <3>2. CASE t # s
      BY <1>1, <1>10, <1>11, <2>1, <3>2 DEF Inv, IntentTypeOK, PointsHome
    <3>3. QED
      BY <3>1, <3>2
  <2>2. QED
    BY <2>1 DEF PointsHome, ScopeOfLot
<1>17. LiveIsLatest'
  <2>1. ASSUME NEW x \in records', InState(x[2], Undecided)' # {}
        PROVE  latest'[ScopeOfLot(x[2])'] = x[1]
    <3>1. CASE x = <<key, n>>
      BY <1>1, <1>2, <1>11, <3>1 DEF Inv, IntentTypeOK
    <3>2. CASE x # <<key, n>>
      <4>1. x \in records /\ x[2] \in LotNumbers
        BY <1>1, <1>10, <3>2
      <4>2. InState(x[2], Undecided) # {}
        BY <1>12, <2>1, <4>1 DEF Undecided
      <4>3. latest[ScopeOfLot(x[2])] = x[1]
        BY <4>1, <4>2 DEF Inv, LiveIsLatest
      <4>4. ScopeOfLot(x[2]) # s
        <5>1. SUFFICES ASSUME ScopeOfLot(x[2]) = s PROVE FALSE
          OBVIOUS
        <5>2. <<latest[s], x[1]>> \in aliases
          BY <4>1, <4>3, <5>1 DEF Inv, SelfNamed
        <5>3. x[2] \in LatestLots(s)
          BY <4>1, <5>2, LotsUnderAKey DEF LatestLots
        <5>4. InState(x[2], BlockingStates(r)) # {}
          BY <4>2 DEF InState, BlockingStates
        <5>5. QED
          BY <1>1, <5>3, <5>4 DEF Blockers
      <4>5. QED
        BY <1>1, <1>11, <4>1, <4>3, <4>4 DEF Inv, IntentTypeOK
    <3>3. QED
      BY <3>1, <3>2
  <2>2. QED
    BY <2>1 DEF LiveIsLatest, ScopeOfLot, InState, Undecided
<1>18. ToldIsAlias'
  <2>1. ASSUME NEW h \in handed'
        PROVE  /\ ScopeOf[h[2]] = ScopeOfLot(h[3])'
               /\ PayloadOf[lots'[h[3]].req] = PayloadOf[h[2]]
               /\ \A y \in records' :
                    y[2] = h[3] => <<ClientKey(h[1]), y[1]>> \in aliases'
    <3>1. CASE h \in handed
      <4>1. h[3] \in LotNumbers
        BY <3>1 DEF Inv, IntentTypeOK
      <4>2. /\ ScopeOf[h[2]] = ScopeOfLot(h[3]) /\ SamePayload(h[3], h[2])
            /\ \A y \in records :
                 y[2] = h[3] => <<ClientKey(h[1]), y[1]>> \in aliases
        BY <3>1 DEF Inv, ToldIsAlias
      <4>3. \A y \in records' : y[2] = h[3] => y \in records
        BY <1>1, <1>9, <4>1
      <4>4. QED
        BY <1>1, <1>8, <1>11, <4>1, <4>2, <4>3 DEF SamePayload
    <3>2. CASE h \notin handed
      <4>1. h = <<k, r, n>> /\ k # NoKey
        BY <1>1, <3>2 DEF Hand
      <4>2. key = ClientKey(k)
        BY <1>0, <4>1 DEF Asks, KeyFor
      <4>3. \A y \in records' : y[2] = n => y[1] = key
        BY <1>1, <1>9, <1>10
      <4>4. lots'[n].req = r
        BY <1>0, <1>8
      <4>5. QED
        BY <1>1, <1>11, <4>1, <4>2, <4>3, <4>4, <1>0
    <3>3. QED
      BY <3>1, <3>2
  <2>2. QED
    BY <2>1 DEF ToldIsAlias, ScopeOfLot, SamePayload
<1>19. ParentsDecided'
  <2>1. ASSUME NEW m \in LotNumbers', NEW p, p = lots'[m].parent, p # 0
        PROVE  /\ InState(p, Undecided)' = {}
               /\ lots'[m].req \in Automatic => InState(p, {"failed"})' = {}
    <3>1. CASE m \in LotNumbers
      <4>1. lots'[m] = lots[m]
        BY <1>8, <3>1
      <4>2. p \in LotNumbers
        BY <2>1, <3>1, <4>1, LotTyped DEF Inv
      <4>3. /\ InState(p, Undecided) = {}
            /\ lots[m].req \in Automatic => InState(p, {"failed"}) = {}
        BY <2>1, <3>1, <4>1 DEF Inv, ParentsDecided
      <4>4. QED
        BY <1>12, <4>1, <4>2, <4>3 DEF Undecided
    <3>2. CASE m = n
      <4>1. p = ParentOf(s) /\ lots'[m].req = r
        BY <1>0, <1>8, <2>1, <3>2
      <4>2. p \in LatestLots(s) /\ p \in LotNumbers /\ InState(p, Undecided) = {}
        BY <1>2, <2>1, <4>1, ParentIsDecided
      <4>3. r \in Automatic => InState(p, {"failed"}) = {}
        BY <1>1, <4>2 DEF Blockers, BlockingStates, InState
      <4>4. QED
        BY <1>12, <4>1, <4>2, <4>3 DEF Undecided
    <3>3. QED
      BY <1>9, <3>1, <3>2
  <2>2. QED
    BY <2>1 DEF ParentsDecided, InState, Undecided
<1>20. QED
  BY <1>13, <1>14, <1>15, <1>16, <1>17, <1>18, <1>19 DEF Inv

(* Jobs that were undecided get other states: no lot becomes undecided,    *)
(* and a lot that is decided stays as it is.                               *)
LEMMA ChangesKeep ==
  ASSUME Inv, NEW n \in LotNumbers, NEW new \in [DOMAIN lots[n].state -> LotStates],
         \A b \in DOMAIN lots[n].state :
           \/ new[b] = lots[n].state[b]
           \/ lots[n].state[b] \in Undecided /\ new[b] # "live",
         lots' = [lots EXCEPT ![n].state = new],
         UNCHANGED <<tables, handed>>, SidesTyped'
  PROVE  Inv'
<1>1. lots \in Seq(Lot) /\ Len(lots) \in Nat
  BY DEF Inv, IntentTypeOK, Lot
<1>2. n \in 1 .. Len(lots) /\ lots[n] \in Lot
  BY LotTyped DEF Inv, LotNumbers
<1>3. PICK t \in Scopes : lots[n].state \in [AssetsOf[t] -> LotStates]
  BY <1>2 DEF Lot
<1>4. new \in [AssetsOf[t] -> LotStates]
  BY <1>3
<1>5. [lots[n] EXCEPT !.state = new] \in Lot
  BY <1>2, <1>4 DEF Lot
<1>6. lots' \in Seq(Lot) /\ LotNumbers' = LotNumbers
  BY <1>1, <1>2, <1>5 DEF LotNumbers
<1>7. \A m \in LotNumbers :
        /\ lots'[m].req = lots[m].req /\ lots'[m].parent = lots[m].parent
        /\ DOMAIN lots'[m].state = DOMAIN lots[m].state
        /\ m # n => lots'[m] = lots[m]
  BY <1>1, <1>2 DEF LotNumbers
<1>8. \A b \in DOMAIN lots[n].state : lots'[n].state[b] = new[b]
  BY <1>1, <1>2, <1>3 DEF Lot
<1>9. \A m \in LotNumbers : InState(m, Undecided)' \subseteq InState(m, Undecided)
  BY <1>7, <1>8 DEF InState, Undecided
<1>10. \A S : \A m \in LotNumbers :
         InState(m, Undecided) = {} => InState(m, S)' = InState(m, S)
  BY <1>7 DEF InState
<1>11. IntentTypeOK'
  <2>1. Len(lots') <= MaxLots
    BY <1>1, <1>2 DEF Inv, IntentTypeOK
  <2>2. \A m \in LotNumbers' :
          lots'[m].parent < m /\ DOMAIN lots'[m].state = AssetsOf[ScopeOfLot(m)']
    BY <1>6, <1>7 DEF Inv, IntentTypeOK, ScopeOfLot
  <2>3. /\ records' \subseteq Keys \X LotNumbers'
        /\ aliases' \subseteq Keys \X {rec[1] : rec \in records'}
        /\ latest' \in [Scopes -> {rec[1] : rec \in records'} \cup {NoKey}]
        /\ handed' \subseteq ClientKeys \X Requests \X LotNumbers'
    BY <1>6 DEF Inv, IntentTypeOK, tables
  <2>4. QED
    BY <1>6, <2>1, <2>2, <2>3 DEF IntentTypeOK, SidesTyped, Lot
<1>12. OneLotEach' /\ SelfNamed'
  BY DEF Inv, OneLotEach, SelfNamed, tables
<1>13. \A x \in records : x[2] \in LotNumbers
  BY DEF Inv, IntentTypeOK
<1>14. \A m \in LotNumbers : ScopeOfLot(m)' = ScopeOfLot(m)
  BY <1>7 DEF ScopeOfLot
<1>15. PointsHome'
  BY <1>13, <1>14 DEF Inv, PointsHome, tables, ScopeOfLot
<1>16. LiveIsLatest'
  <2>1. ASSUME NEW x \in records, InState(x[2], Undecided)' # {}
        PROVE  latest[ScopeOfLot(x[2])'] = x[1]
    BY <1>9, <1>13, <1>14, <2>1 DEF Inv, LiveIsLatest
  <2>2. QED
    BY <2>1 DEF LiveIsLatest, tables, ScopeOfLot, InState, Undecided
<1>17. ToldIsAlias'
  <2>1. \A h \in handed : h[3] \in LotNumbers
    BY DEF Inv, IntentTypeOK
  <2>2. QED
    BY <1>7, <2>1 DEF Inv, ToldIsAlias, tables, ScopeOfLot, SamePayload
<1>18. ParentsDecided'
  <2>1. ASSUME NEW m \in LotNumbers, NEW p, p = lots[m].parent, p # 0
        PROVE  /\ InState(p, Undecided)' = {}
               /\ lots[m].req \in Automatic => InState(p, {"failed"})' = {}
    <3>1. p \in LotNumbers
      BY <2>1, LotTyped DEF Inv
    <3>2. /\ InState(p, Undecided) = {}
          /\ lots[m].req \in Automatic => InState(p, {"failed"}) = {}
      BY <2>1 DEF Inv, ParentsDecided
    <3>3. QED
      BY <1>10, <3>1, <3>2 DEF Undecided
  <2>2. QED
    BY <1>6, <1>7, <2>1 DEF ParentsDecided, InState, Undecided
<1>19. QED
  BY <1>11, <1>12, <1>15, <1>16, <1>17, <1>18 DEF Inv

LEMMA ChangeKeeps ==
  ASSUME Inv, NEW n \in LotNumbers, NEW a \in DOMAIN lots[n].state,
         lots[n].state[a] \in Undecided, NEW to \in LotStates \ {"live"},
         lots' = [lots EXCEPT ![n].state[a] = to],
         UNCHANGED <<tables, handed>>, SidesTyped'
  PROVE  Inv'
<1>1. lots \in Seq(Lot) /\ n \in 1 .. Len(lots) /\ lots[n] \in Lot
  BY LotTyped DEF Inv, IntentTypeOK, Lot, LotNumbers
<1>2. PICK t \in Scopes : lots[n].state \in [AssetsOf[t] -> LotStates]
  BY <1>1 DEF Lot
<1>3. PICK new \in [DOMAIN lots[n].state -> LotStates] :
        new = [lots[n].state EXCEPT ![a] = to]
  BY <1>2
<1>4. \A b \in DOMAIN lots[n].state :
        \/ new[b] = lots[n].state[b]
        \/ lots[n].state[b] \in Undecided /\ new[b] # "live"
  BY <1>2, <1>3
<1>5. lots' = [lots EXCEPT ![n].state = new]
  BY <1>1, <1>3
<1>6. QED
  BY <1>4, <1>5, ChangesKeep

(* A clean-up takes a lot off the record with every key that leads to it.  *)
LEMMA RetireKeeps ==
  ASSUME Inv, NEW s \in Scopes, latest[s] # NoKey,
         latest' = [latest EXCEPT ![s] = NoKey],
         aliases' = {al \in aliases : al[2] # latest[s]},
         records' = {rec \in records : rec[1] # latest[s]},
         UNCHANGED <<lots, handed>>, SidesTyped'
  PROVE  Inv'
<1>1. PICK key : key = latest[s]
  OBVIOUS
<1>2. latest \in [Scopes -> {rec[1] : rec \in records} \cup {NoKey}]
  BY DEF Inv, IntentTypeOK
<1>3. \A t \in Scopes : latest'[t] = IF t = s THEN NoKey ELSE latest[t]
  BY <1>2
<1>4. \A t \in Scopes \ {s} : latest[t] # key
  <2>1. SUFFICES ASSUME NEW t \in Scopes \ {s}, latest[t] = key
                 PROVE  FALSE
    OBVIOUS
  <2>2. PICK x \in records : x[1] = key /\ ScopeOfLot(x[2]) = s
    BY <1>1 DEF Inv, PointsHome
  <2>3. PICK y \in records : y[1] = key /\ ScopeOfLot(y[2]) = t
    BY <1>1, <2>1 DEF Inv, PointsHome
  <2>4. QED
    BY <2>2, <2>3 DEF Inv, OneLotEach
<1>5. IntentTypeOK'
  <2>1. aliases' \subseteq Keys \X {rec[1] : rec \in records'}
    <3>1. ASSUME NEW al \in aliases' PROVE al \in Keys \X {rec[1] : rec \in records'}
      <4>1. /\ al = <<al[1], al[2]>> /\ al[1] \in Keys
            /\ al[2] \in {rec[1] : rec \in records} /\ al[2] # key
        BY <1>1, <3>1 DEF Inv, IntentTypeOK
      <4>2. al[2] \in {rec[1] : rec \in records'}
        BY <1>1, <4>1
      <4>3. QED
        BY <4>1, <4>2
    <3>2. QED
      BY <3>1
  <2>2. latest' \in [Scopes -> {rec[1] : rec \in records'} \cup {NoKey}]
    <3>1. ASSUME NEW t \in Scopes
          PROVE  latest'[t] \in {rec[1] : rec \in records'} \cup {NoKey}
      BY <1>1, <1>2, <1>3, <1>4
    <3>2. QED
      BY <1>2, <3>1
  <2>3. records' \subseteq Keys \X LotNumbers
    BY DEF Inv, IntentTypeOK
  <2>4. QED
    BY <2>1, <2>2, <2>3
       DEF Inv, IntentTypeOK, SidesTyped, LotNumbers, ScopeOfLot
<1>6. OneLotEach' /\ SelfNamed'
  BY DEF Inv, OneLotEach, SelfNamed
<1>7. PointsHome'
  BY <1>1, <1>3, <1>4 DEF Inv, PointsHome, ScopeOfLot
<1>8. LiveIsLatest'
  <2>1. ASSUME NEW x \in records', InState(x[2], Undecided) # {}
        PROVE  latest'[ScopeOfLot(x[2])] = x[1]
    <3>1. x \in records /\ x[1] # key /\ latest[ScopeOfLot(x[2])] = x[1]
      BY <1>1, <2>1 DEF Inv, LiveIsLatest
    <3>2. ScopeOfLot(x[2]) \in Scopes
      BY <3>1, LotTyped DEF Inv, IntentTypeOK
    <3>3. QED
      BY <1>1, <1>3, <3>1, <3>2
  <2>2. QED
    BY <2>1 DEF LiveIsLatest, ScopeOfLot, InState
<1>9. ToldIsAlias'
  BY DEF Inv, ToldIsAlias, ScopeOfLot, SamePayload
<1>10. ParentsDecided'
  BY DEF Inv, ParentsDecided, InState, LotNumbers
<1>11. QED
  BY <1>5, <1>6, <1>7, <1>8, <1>9, <1>10 DEF Inv

-----------------------------------------------------------------------------
(* The clean-up.                                                           *)

Cleaners == [todo : SUBSET (LotNumbers \X AllAssets \X LotStates),
             scope : Scopes \cup {NoScope}, retired : SUBSET Scopes]

LEMMA CleanerTyped ==
  ASSUME Inv
  PROVE  /\ cleaner \in Cleaners
         /\ \A x \in cleaner.todo :
              x \in LotNumbers \X AllAssets \X LotStates
              /\ x[2] \in DOMAIN lots[x[1]].state
BY DEF Inv, IntentTypeOK, Cleaners

(* What is left to do is less than what there was.                         *)
LEMMA RestTyped ==
  ASSUME Inv, NEW x
  PROVE  Rest(x) \in Cleaners /\ Rest(x).todo \subseteq cleaner.todo
<1>1. cleaner \in Cleaners
  BY CleanerTyped
<1>2. CASE cleaner.todo = {x}
  BY <1>2 DEF Rest, Asleep, Cleaners
<1>3. CASE cleaner.todo # {x}
  <2>1. Rest(x) = [cleaner EXCEPT !.todo = @ \ {x}, !.scope = NoScope]
    BY <1>3 DEF Rest
  <2>2. QED
    BY <1>1, <2>1 DEF Cleaners
<1>4. QED
  BY <1>2, <1>3

(* A clean-up that goes on with part of what it had to do.                 *)
LEMMA SidesOfClean ==
  ASSUME Inv, cleaner' \in Cleaners, cleaner'.todo \subseteq cleaner.todo,
         UNCHANGED inFlight, LotNumbers' = LotNumbers,
         \A m \in LotNumbers : DOMAIN lots'[m].state = DOMAIN lots[m].state
  PROVE  SidesTyped'
<1>1. \A x \in cleaner'.todo : x[2] \in DOMAIN lots'[x[1]].state
  <2>1. ASSUME NEW x \in cleaner'.todo PROVE x[2] \in DOMAIN lots'[x[1]].state
    <3>1. x \in LotNumbers \X AllAssets \X LotStates
          /\ x[2] \in DOMAIN lots[x[1]].state
      BY CleanerTyped
    <3>2. x[1] \in LotNumbers
      BY <3>1
    <3>3. QED
      BY <3>1, <3>2
  <2>2. QED
    BY <2>1
<1>2. QED
  BY <1>1 DEF SidesTyped, Cleaners, Inv, IntentTypeOK

LEMMA StartCleaningKeeps ==
  ASSUME Inv, NEW assets \in SUBSET AllAssets, StartCleaning(assets)
  PROVE  Inv'
<1> DEFINE seen == {x \in LotNumbers \X assets :
                      x[2] \in InState(x[1], {"failed", "needs_attention"})}
           todo == {<<x[1], x[2], lots[x[1]].state[x[2]]>> : x \in seen}
<1>1. /\ cleaner = Asleep /\ cleaner' = [cleaner EXCEPT !.todo = todo]
      /\ UNCHANGED <<lots, tables, inFlight, handed>>
  BY DEF StartCleaning
<1>2. ASSUME NEW y \in todo
      PROVE  /\ y \in LotNumbers \X AllAssets \X LotStates
             /\ y[2] \in DOMAIN lots[y[1]].state
  <2>1. PICK x \in seen : y = <<x[1], x[2], lots[x[1]].state[x[2]]>>
    OBVIOUS
  <2>2. x[1] \in LotNumbers /\ x[2] \in AllAssets
    OBVIOUS
  <2>3. /\ x[2] \in DOMAIN lots[x[1]].state
        /\ lots[x[1]].state[x[2]] \in {"failed", "needs_attention"}
    BY DEF InState
  <2>4. QED
    BY <2>1, <2>2, <2>3 DEF LotStates
<1> HIDE DEF seen, todo
<1>3. cleaner' = [todo |-> todo, scope |-> NoScope, retired |-> {}]
  BY <1>1 DEF Asleep
<1>4. cleaner' \in Cleaners
  BY <1>2, <1>3 DEF Cleaners
<1>5. SidesTyped'
  BY <1>1, <1>2, <1>3, <1>4
     DEF SidesTyped, Cleaners, LotNumbers, Inv, IntentTypeOK
<1>6. QED
  BY <1>1, <1>5, QuietStep

LEMMA CleanStuckKeeps ==
  ASSUME Inv, NEW x \in cleaner.todo, CleanStuck(x)
  PROVE  Inv'
<1>1. cleaner' = Rest(x) /\ UNCHANGED <<tables, inFlight, handed>>
  BY DEF CleanStuck
<1>2. cleaner' \in Cleaners /\ cleaner'.todo \subseteq cleaner.todo
  BY <1>1, RestTyped
<1>3. x[1] \in LotNumbers /\ x[2] \in DOMAIN lots[x[1]].state
  BY CleanerTyped
<1>4. CASE lots[x[1]].state[x[2]] = "needs_attention"
  <2>1. lots' = [lots EXCEPT ![x[1]].state[x[2]] = "over"]
    BY <1>4 DEF CleanStuck
  <2>2. lots \in Seq(Lot) /\ lots[x[1]] \in Lot
    BY <1>3, LotTyped DEF Inv, IntentTypeOK, Lot
  <2>3. /\ LotNumbers' = LotNumbers
        /\ \A m \in LotNumbers : DOMAIN lots'[m].state = DOMAIN lots[m].state
    BY <1>3, <2>1, <2>2 DEF LotNumbers
  <2>4. SidesTyped'
    BY <1>1, <1>2, <2>3, SidesOfClean
  <2>5. /\ lots[x[1]].state[x[2]] \in Undecided
        /\ "over" \in LotStates \ {"live"}
    BY <1>4 DEF Undecided, LotStates
  <2>6. UNCHANGED <<tables, handed>>
    BY <1>1
  <2>7. QED
    BY <1>3, <2>1, <2>4, <2>5, <2>6, ChangeKeeps
<1>5. CASE lots[x[1]].state[x[2]] # "needs_attention"
  <2>1. lots' = lots
    BY <1>5 DEF CleanStuck
  <2>2. SidesTyped'
    BY <1>1, <1>2, <2>1, SidesOfClean DEF LotNumbers
  <2>3. QED
    BY <1>1, <2>1, <2>2, QuietStep
<1>6. QED
  BY <1>4, <1>5

LEMMA FindScopeKeeps ==
  ASSUME Inv, NEW x \in cleaner.todo, FindScope(x)
  PROVE  Inv'
<1>1. UNCHANGED <<lots, tables, inFlight, handed>>
  BY DEF FindScope
<1>2. cleaner' \in Cleaners /\ cleaner'.todo \subseteq cleaner.todo
  <2>1. CASE cleaner' = Rest(x)
    BY <2>1, RestTyped
  <2>2. CASE cleaner' = [cleaner EXCEPT !.scope = ScopeOfLot(x[1])]
    <3>1. cleaner \in Cleaners /\ x[1] \in LotNumbers
      BY CleanerTyped
    <3>2. ScopeOfLot(x[1]) \in Scopes
      BY <3>1, LotTyped DEF Inv
    <3>3. QED
      BY <2>2, <3>1, <3>2 DEF Cleaners
  <2>3. QED
    BY <2>1, <2>2 DEF FindScope
<1>3. SidesTyped'
  BY <1>1, <1>2, SidesOfClean DEF LotNumbers
<1>4. QED
  BY <1>1, <1>3, QuietStep

LEMMA RetireScopeKeeps ==
  ASSUME Inv, NEW x \in cleaner.todo, RetireScope(x)
  PROVE  Inv'
<1>1. PICK s : s = cleaner.scope
  OBVIOUS
<1>2. s \in Scopes /\ cleaner \in Cleaners
  BY <1>1, CleanerTyped DEF Cleaners, RetireScope
<1>3. UNCHANGED <<lots, inFlight, handed>>
  BY DEF RetireScope
<1>4. cleaner' \in Cleaners /\ cleaner'.todo \subseteq cleaner.todo
  <2>1. Rest(x) \in Cleaners /\ Rest(x).todo \subseteq cleaner.todo
    BY RestTyped
  <2>2. CASE cleaner' = Rest(x)
    BY <2>1, <2>2
  <2>3. CASE cleaner' = Asleep
    BY <2>3 DEF Asleep, Cleaners
  <2>4. CASE cleaner' = [Rest(x) EXCEPT !.retired = @ \cup {s}]
    BY <1>2, <2>1, <2>4 DEF Cleaners
  <2>5. QED
    BY <1>1, <2>2, <2>3, <2>4 DEF RetireScope
<1>5. SidesTyped'
  BY <1>3, <1>4, SidesOfClean DEF LotNumbers
<1>6. CASE latest[s] = NoKey
  <2>1. UNCHANGED tables
    BY <1>1, <1>6 DEF RetireScope
  <2>2. QED
    BY <1>3, <1>5, <2>1, QuietStep
<1>7. CASE latest[s] # NoKey
  <2>1. /\ latest' = [latest EXCEPT ![s] = NoKey]
        /\ aliases' = {al \in aliases : al[2] # latest[s]}
        /\ records' = {rec \in records : rec[1] # latest[s]}
    BY <1>1, <1>7 DEF RetireScope
  <2>2. QED
    BY <1>2, <1>3, <1>5, <1>7, <2>1, RetireKeeps
<1>8. QED
  BY <1>6, <1>7

-----------------------------------------------------------------------------
(* Every step, and the theorems.                                           *)

LEMMA LookKeeps ==
  ASSUME Inv, NEW r, NEW k, Asks(r, k), Look(r, k)
  PROVE  Inv'
<1>1. inFlight' \subseteq Guarded \X (ClientKeys \cup {NoKey})
  BY DEF Look, Asks, Inv, IntentTypeOK
<1>2. SidesTyped'
  BY <1>1 DEF Look, Inv, IntentTypeOK, SidesTyped, LotNumbers
<1>3. QED
  BY <1>2, QuietStep DEF Look

LEMMA CreateKeeps ==
  ASSUME Inv, NEW r, NEW k, Asks(r, k), Create(r, k)
  PROVE  Inv'
<1>1. inFlight' = inFlight \ {<<r, k>>}
  BY DEF Create
<1>2. CASE Replay(r, k)
  BY <1>1, <1>2, ReplayKeeps
<1>3. CASE Join(r, k)
  BY <1>1, <1>3, JoinKeeps
<1>4. CASE Open(r, k)
  BY <1>1, <1>4, OpenKeeps
<1>5. CASE Refuse(r, k)
  BY <1>1, <1>5, SidesOfCreate, QuietStep DEF Refuse
<1>6. QED
  BY <1>2, <1>3, <1>4, <1>5 DEF Create

LEMMA JobEndsKeeps ==
  ASSUME Inv, NEW n \in LotNumbers, NEW a \in DOMAIN lots[n].state,
         NEW to \in LotStates \ {"live"}, JobEnds(n, a, to)
  PROVE  Inv'
<1>1. lots \in Seq(Lot) /\ lots[n] \in Lot
  BY LotTyped DEF Inv, IntentTypeOK, Lot
<1>2. /\ LotNumbers' = LotNumbers
      /\ \A m \in LotNumbers : DOMAIN lots'[m].state = DOMAIN lots[m].state
  BY <1>1 DEF JobEnds, LotNumbers
<1>3. SidesTyped'
  BY <1>2, CleanerTyped, SidesOfClean DEF JobEnds
<1>4. QED
  BY <1>3, ChangeKeeps DEF JobEnds, Undecided

LEMMA CleanKeeps ==
  ASSUME Inv, Clean
  PROVE  Inv'
<1>1. CASE StartCleaning(AllAssets)
  BY <1>1, StartCleaningKeeps
<1>2. ASSUME NEW s \in Scopes, NEW a \in AssetsOf[s], StartCleaning({a})
      PROVE  Inv'
  <2>1. {a} \in SUBSET AllAssets
    BY DEF AllAssets
  <2>2. QED
    BY <1>2, <2>1, StartCleaningKeeps
<1>3. ASSUME NEW x \in cleaner.todo,
             CleanStuck(x) \/ FindScope(x) \/ RetireScope(x)
      PROVE  Inv'
  BY <1>3, CleanStuckKeeps, FindScopeKeeps, RetireScopeKeeps
<1>4. QED
  BY <1>1, <1>2, <1>3 DEF Clean

LEMMA StepKeepsInv == Inv /\ [Next]_vars => Inv'
<1> SUFFICES ASSUME Inv, [Next]_vars
             PROVE  Inv'
  OBVIOUS
<1>1. ASSUME NEW r \in Automatic, Look(r, NoKey) \/ Create(r, NoKey)
      PROVE  Inv'
  <2>1. Asks(r, NoKey)
    BY IntentAssumption DEF Asks
  <2>2. QED
    BY <1>1, <2>1, LookKeeps, CreateKeeps
<1>2. ASSUME NEW r \in Requests \ Automatic, NEW k \in ClientKeys,
             Look(r, k) \/ Create(r, k)
      PROVE  Inv'
  <2>1. Asks(r, k)
    BY DEF Asks
  <2>2. QED
    BY <1>2, <2>1, LookKeeps, CreateKeeps
<1>3. ASSUME NEW n \in LotNumbers, NEW a \in DOMAIN lots[n].state,
             NEW to \in LotStates \ {"live"}, JobEnds(n, a, to)
      PROVE  Inv'
  BY <1>3, JobEndsKeeps
<1>4. CASE Clean
  BY <1>4, CleanKeeps
<1>5. CASE UNCHANGED vars
  <2>1. SidesTyped'
    BY <1>5 DEF vars, Inv, IntentTypeOK, SidesTyped, LotNumbers
  <2>2. QED
    BY <1>5, <2>1, QuietStep DEF vars, tables
<1>6. QED
  BY <1>1, <1>2, <1>3, <1>4, <1>5 DEF Next

THEOREM InvAlways == Spec => []Inv
<1>1. Init => Inv
  BY InitInv
<1>2. Inv /\ [Next]_vars => Inv'
  BY StepKeepsInv
<1>3. QED
  BY <1>1, <1>2, PTL DEF Spec

(* The tables keep their types: every record, alias and scope points to a  *)
(* lot that there is, whatever requests and clean-ups come.                *)
THEOREM TypeCorrect == Spec => []IntentTypeOK
<1>1. Inv => IntentTypeOK
  BY DEF Inv
<1>2. QED
  BY <1>1, InvAlways, PTL

(* What the invariant promises.                                            *)
LEMMA InvPromises ==
  Inv => LiveLotHoldsItsScope /\ KeyKeepsItsLot /\ ScannerLeavesFailures
<1>1. ASSUME Inv, NEW n \in LotNumbers, OnRecord(n), InState(n, Undecided) # {}
      PROVE  LatestLots(ScopeOfLot(n)) = {n}
  <2>1. PICK x \in records : x[2] = n
    BY <1>1 DEF OnRecord
  <2>2. latest[ScopeOfLot(n)] = x[1] /\ <<x[1], x[1]>> \in aliases
    BY <1>1, <2>1 DEF Inv, LiveIsLatest, SelfNamed
  <2>3. n \in LatestLots(ScopeOfLot(n))
    BY <2>1, <2>2, LotsUnderAKey DEF LatestLots
  <2>4. ScopeOfLot(n) \in Scopes
    BY <1>1, LotTyped DEF Inv
  <2>5. QED
    BY <1>1, <2>3, <2>4, PointedAt
<1>2. Inv => LiveLotHoldsItsScope
  BY <1>1 DEF LiveLotHoldsItsScope
<1>3. ASSUME Inv, NEW h \in handed
      PROVE  /\ ScopeOf[h[2]] = ScopeOfLot(h[3]) /\ SamePayload(h[3], h[2])
             /\ OnRecord(h[3]) => LotsUnder(ClientKey(h[1])) = {h[3]}
  <2>1. /\ ScopeOf[h[2]] = ScopeOfLot(h[3]) /\ SamePayload(h[3], h[2])
        /\ \A x \in records :
             x[2] = h[3] => <<ClientKey(h[1]), x[1]>> \in aliases
    BY <1>3 DEF Inv, ToldIsAlias
  <2>2. ASSUME OnRecord(h[3])
        PROVE  LotsUnder(ClientKey(h[1])) = {h[3]}
    <3>1. PICK x \in records : x[2] = h[3]
      BY <2>2 DEF OnRecord
    <3>2. <<ClientKey(h[1]), x[1]>> \in aliases
      BY <2>1, <3>1
    <3>3. h[3] \in LotsUnder(ClientKey(h[1]))
      BY <3>1, <3>2, LotsUnderAKey
    <3>4. ASSUME NEW m \in LotsUnder(ClientKey(h[1])) PROVE m = h[3]
      <4>1. PICK y \in records : y[2] = m /\ <<ClientKey(h[1]), y[1]>> \in aliases
        BY LotsUnderAKey
      <4>2. y[1] = x[1]
        BY <1>3, <3>2, <4>1 DEF Inv, OneLotEach
      <4>3. QED
        BY <1>3, <3>1, <4>1, <4>2 DEF Inv, OneLotEach
    <3>5. QED
      BY <3>3, <3>4
  <2>3. QED
    BY <2>1, <2>2
<1>4. Inv => KeyKeepsItsLot
  BY <1>3 DEF KeyKeepsItsLot
<1>5. Inv => ScannerLeavesFailures
  BY DEF Inv, ParentsDecided, ScannerLeavesFailures
<1>6. QED
  BY <1>2, <1>4, <1>5

(* An undecided lot on record is the one and only lot its scope leads to.  *)
THEOREM OneUndecidedLot == Spec => []LiveLotHoldsItsScope
BY InvPromises, InvAlways, PTL

(* A key a client was answered under leads to that lot for as long as the  *)
(* lot is on record, and no client is handed another payload's lot.        *)
THEOREM KeysAreKept == Spec => []KeyKeepsItsLot
BY InvPromises, InvAlways, PTL

(* No lot the scanner opened is a rerun of a lot with a failed job.        *)
THEOREM FailuresAreAPersons == Spec => []ScannerLeavesFailures
BY InvPromises, InvAlways, PTL

-----------------------------------------------------------------------------
(* The scanner and the button that stops everything.                       *)

(* The newest lot of a card, and whether the card is at work in it.        *)
Newest(n, a) == n \in LotsWith(a) /\ \A m \in LotsWith(a) : m <= n
Queued(n, a) == Newest(n, a) /\ lots[n].state[a] = "live"

(* While a stop goes on and nobody presses the switch again, the scanner   *)
(* is off, and once the labels are read, what it has queued is still to be *)
(* cancelled.                                                              *)
StopCovers ==
  stop.step # "idle" /\ ~stop.again =>
    /\ auto = Off
    /\ stop.step = "cancel" =>
         \A n \in LotNumbers : \A i \in Images :
           ByScanner(n) /\ Queued(n, i) => i \in stop.labels

(* A stop-all: none, the switches cleared, or labels read to cancel.       *)
Stops == [step : {"idle", "look", "cancel"}, labels : SUBSET Assets, again : BOOLEAN]
StopTyped == stop \in Stops /\ (stop.step = "idle" => stop = NoStop)

ScanInv == Inv /\ StopTyped /\ StopCovers

(* No job comes back to life, and no lot comes or goes.                    *)
NothingRevived ==
  /\ LotNumbers' = LotNumbers
  /\ \A m \in LotNumbers :
       /\ lots'[m].req = lots[m].req
       /\ DOMAIN lots'[m].state = DOMAIN lots[m].state
       /\ \A b \in DOMAIN lots[m].state :
            lots'[m].state[b] = "live" => lots[m].state[b] = "live"

LEMMA NewestThere ==
  ASSUME Inv, NEW a, LotsWith(a) # {}
  PROVE  Newest(NewestWith(a), a)
<1> DEFINE above == {p \in Nat \X Nat : p[1] < p[2]}
           later == {k \in Nat : \E n \in LotsWith(a) : n + k = Len(lots)}
<1>1. Len(lots) \in Nat /\ LotsWith(a) \subseteq 1 .. Len(lots)
  BY DEF Inv, IntentTypeOK, LotsWith, LotNumbers
<1>2. \A n \in LotsWith(a) : Len(lots) - n \in later
  BY <1>1
<1>3. IsWellFoundedOn(above, Nat)
  BY NatLessThanWellFounded DEF OpToRel
<1>4. later \subseteq Nat /\ later # {}
  BY <1>2
<1>5. PICK k \in later : \A j \in later : <<j, k>> \notin above
  <2> HIDE DEF above, later
  <2>1. QED
    BY <1>3, <1>4, WFMin
<1>6. PICK n \in LotsWith(a) : n + k = Len(lots)
  OBVIOUS
<1>7. \A m \in LotsWith(a) : m <= n
  <2> TAKE m \in LotsWith(a)
  <2>1. m \in Nat /\ n \in Nat /\ k \in Nat /\ Len(lots) - m \in later
    <3> HIDE DEF above, later
    <3>1. QED
      BY <1>1, <1>2, <1>4
  <2>2. ~(Len(lots) - m < k)
    <3>1. Len(lots) - m \in Nat
      BY <2>1
    <3>2. Len(lots) - m < k => <<Len(lots) - m, k>> \in above
      BY <2>1, <3>1
    <3> HIDE DEF above, later
    <3>3. QED
      BY <1>5, <2>1, <3>2
  <2> HIDE DEF above, later
  <2>3. QED
    BY <1>1, <1>6, <2>1, <2>2
<1>8. QED
  BY <1>7 DEF Newest, NewestWith

LEMMA OneNewest ==
  ASSUME Inv, NEW a, NEW n, Newest(n, a)
  PROVE  NewestWith(a) = n /\ n \in LotNumbers /\ a \in DOMAIN lots[n].state
<1>1. Newest(NewestWith(a), a)
  BY NewestThere DEF Newest
<1>2. n \in Nat /\ NewestWith(a) \in Nat /\ n \in LotNumbers /\ a \in DOMAIN lots[n].state
  BY <1>1 DEF Newest, LotsWith, LotNumbers
<1>3. n <= NewestWith(a) /\ NewestWith(a) <= n
  BY <1>1 DEF Newest
<1>4. QED
  BY <1>2, <1>3

LEMMA EndRevivesNothing ==
  ASSUME Inv, NEW n \in LotNumbers, NEW a \in DOMAIN lots[n].state,
         NEW to \in LotStates \ {"live"}, JobEnds(n, a, to)
  PROVE  NothingRevived
<1>1. lots \in Seq(Lot) /\ n \in 1 .. Len(lots) /\ lots[n] \in Lot
  BY LotTyped DEF Inv, IntentTypeOK, Lot, LotNumbers
<1>2. PICK t \in Scopes : lots[n].state \in [AssetsOf[t] -> LotStates]
  BY <1>1 DEF Lot
<1>3. lots' = [lots EXCEPT ![n].state[a] = to]
  BY DEF JobEnds
<1>4. lots'[n] = [lots[n] EXCEPT !.state[a] = to] /\ Len(lots') = Len(lots)
  BY <1>1, <1>3
<1>5. /\ lots'[n].req = lots[n].req
      /\ lots'[n].state = [lots[n].state EXCEPT ![a] = to]
  BY <1>1, <1>4 DEF Lot
<1>6. \A m \in LotNumbers \ {n} : lots'[m] = lots[m]
  BY <1>1, <1>3 DEF LotNumbers
<1>7. QED
  BY <1>2, <1>4, <1>5, <1>6 DEF NothingRevived, LotNumbers

(* A cancelled label: all that is alive in its newest lot ends.            *)
LEMMA CancelKeeps ==
  ASSUME Inv, NEW a, CancelLabel(a), UNCHANGED <<tables, inFlight, handed, cleaner>>
  PROVE  /\ Inv' /\ NothingRevived
         /\ a \notin Videos => \A n : Queued(n, a) => lots'[n].state[a] # "live"
<1>1. CASE lots' = lots /\ (Active(a) => a \in Videos)
  <2>1. Inv'
    BY <1>1, QuietStep DEF Inv, IntentTypeOK, SidesTyped, LotNumbers
  <2>2. \A n : Queued(n, a) => Active(a)
    BY DEF Queued, Newest, Active
  <2>3. QED
    BY <1>1, <2>1, <2>2 DEF NothingRevived, LotNumbers
<1>2. CASE /\ Active(a)
           /\ LET n == NewestWith(a)
              IN  lots' = [lots EXCEPT ![n].state =
                        [b \in DOMAIN @ |-> IF @[b] = "live" THEN "over" ELSE @[b]]]
  <2>1. PICK n : Queued(n, a)
    BY <1>2 DEF Active, Queued, Newest
  <2>2. NewestWith(a) = n /\ n \in LotNumbers /\ a \in DOMAIN lots[n].state
    BY <2>1, OneNewest DEF Queued
  <2>3. lots \in Seq(Lot) /\ n \in 1 .. Len(lots) /\ lots[n] \in Lot
    BY <2>2, LotTyped DEF Inv, IntentTypeOK, Lot, LotNumbers
  <2>4. PICK t \in Scopes : lots[n].state \in [AssetsOf[t] -> LotStates]
    BY <2>3 DEF Lot
  <2>5. PICK new \in [DOMAIN lots[n].state -> LotStates] :
          new = [b \in DOMAIN lots[n].state |->
                  IF lots[n].state[b] = "live" THEN "over" ELSE lots[n].state[b]]
    BY <2>4 DEF LotStates
  <2>6. lots' = [lots EXCEPT ![n].state = new]
    BY <1>2, <2>2, <2>5
  <2>7. \A b \in DOMAIN lots[n].state :
          /\ new[b] # "live"
          /\ \/ new[b] = lots[n].state[b]
             \/ lots[n].state[b] \in Undecided /\ new[b] # "live"
    BY <2>5 DEF Undecided
  <2>8. /\ LotNumbers' = LotNumbers /\ lots'[n].req = lots[n].req /\ lots'[n].state = new
        /\ \A m \in LotNumbers \ {n} : lots'[m] = lots[m]
    <3>1. lots'[n] = [lots[n] EXCEPT !.state = new] /\ Len(lots') = Len(lots)
      BY <2>3, <2>6
    <3>2. lots'[n].req = lots[n].req /\ lots'[n].state = new
      BY <2>3, <3>1 DEF Lot
    <3>3. QED
      BY <2>3, <2>6, <3>1, <3>2 DEF LotNumbers
  <2>9. NothingRevived
    BY <2>7, <2>8 DEF NothingRevived
  <2>10. SidesTyped'
    <3>1. \A x \in cleaner.todo : x[1] \in LotNumbers /\ x[2] \in DOMAIN lots[x[1]].state
      BY CleanerTyped
    <3>2. \A x \in cleaner.todo : x[2] \in DOMAIN lots'[x[1]].state
      BY <2>9, <3>1 DEF NothingRevived
    <3>3. QED
      BY <2>8, <3>2 DEF SidesTyped, Inv, IntentTypeOK
  <2>11. Inv'
    BY <2>2, <2>6, <2>7, <2>10, ChangesKeep
  <2>12. \A m : Queued(m, a) => m = n
    BY <2>2, OneNewest DEF Queued
  <2>13. lots'[n].state[a] # "live"
    BY <2>2, <2>7, <2>8
  <2>14. QED
    BY <2>9, <2>11, <2>12, <2>13
<1>3. QED
  BY <1>1, <1>2 DEF CancelLabel

(* Who is queued afterwards was queued before.                             *)
LEMMA QueuedBefore ==
  ASSUME NothingRevived, NEW n \in LotNumbers, NEW i,
         ByScanner(n)', Queued(n, i)'
  PROVE  ByScanner(n) /\ Queued(n, i)
<1>1. \A m \in LotNumbers : DOMAIN lots'[m].state = DOMAIN lots[m].state
  BY DEF NothingRevived
<1>2. LotsWith(i)' = LotsWith(i)
  <2>1. LotsWith(i)' = {m \in LotNumbers' : i \in DOMAIN lots'[m].state}
    BY DEF LotsWith
  <2>2. QED
    BY <1>1, <2>1 DEF LotsWith, NothingRevived
<1>3. n \in LotsWith(i) /\ (\A m \in LotsWith(i) : m <= n) /\ lots'[n].state[i] = "live"
  BY <1>2 DEF Queued, Newest
<1>4. QED
  BY <1>3 DEF Queued, Newest, ByScanner, NothingRevived, LotsWith

(* A step that leaves the stop alone and queues nothing for the scanner.   *)
LEMMA StopGoesOn ==
  ASSUME ScanInv, Inv', stop' = stop, auto' \in {auto, Off}, NothingRevived
  PROVE  ScanInv'
<1>1. ASSUME stop.step # "idle", ~stop.again
      PROVE  /\ auto' = Off
             /\ stop.step = "cancel" =>
                  \A n \in LotNumbers' : \A i \in Images :
                    ByScanner(n)' /\ Queued(n, i)' => i \in stop.labels
  <2>1. /\ auto = Off
        /\ stop.step = "cancel" =>
             \A n \in LotNumbers : \A i \in Images :
               ByScanner(n) /\ Queued(n, i) => i \in stop.labels
    BY <1>1 DEF ScanInv, StopCovers
  <2>2. LotNumbers' = LotNumbers
    BY DEF NothingRevived
  <2>3. QED
    BY <2>1, <2>2, QueuedBefore
<1>2. StopTyped'
  BY DEF ScanInv, StopTyped, Stops, Assets
<1>3. StopCovers'
  BY <1>1 DEF StopCovers
<1>4. QED
  BY <1>2, <1>3 DEF ScanInv

(* A request of a client: what it opens is not the scanner's.              *)
LEMMA ClientOpens ==
  ASSUME ScanInv, NEW r \in Requests \ Automatic, NEW k \in ClientKeys, Create(r, k),
         UNCHANGED <<stop, auto>>
  PROVE  ScanInv'
<1>1. Inv'
  BY CreateKeeps DEF ScanInv, Asks
<1>2. CASE lots' = lots
  BY <1>1, <1>2, StopGoesOn DEF NothingRevived, LotNumbers
<1>3. CASE \E lot \in Lot : lots' = Append(lots, lot) /\ lot.req = r
  <2>1. PICK lot \in Lot : lots' = Append(lots, lot) /\ lot.req = r
    BY <1>3
  <2>2. lots \in Seq(Lot) /\ Len(lots) \in Nat
    BY DEF ScanInv, Inv, IntentTypeOK, Lot
  <2>3. /\ Len(lots') = Len(lots) + 1 /\ lots'[Len(lots) + 1] = lot
        /\ \A n \in 1 .. Len(lots) : lots'[n] = lots[n]
    BY <2>1, <2>2
  <2>4. LotNumbers = 1 .. Len(lots) /\ LotNumbers' = 1 .. Len(lots) + 1
    BY <2>3 DEF LotNumbers
  <2>5. LotNumbers \subseteq LotNumbers' /\ LotNumbers' \subseteq LotNumbers \cup {Len(lots) + 1}
    BY <2>2, <2>4
  <2>6. ASSUME NEW n \in LotNumbers', NEW i, ByScanner(n)', Queued(n, i)'
        PROVE  n \in LotNumbers /\ ByScanner(n) /\ Queued(n, i)
    <3>1. lots'[n].req \in Automatic
      BY <2>6 DEF ByScanner
    <3>2. n \in LotNumbers
      BY <2>1, <2>3, <2>5, <3>1
    <3>3. LotsWith(i) \subseteq LotsWith(i)'
      BY <2>3, <2>4, <2>5 DEF LotsWith
    <3>4. lots'[n] = lots[n]
      BY <2>3, <2>4, <3>2
    <3>5. n \in LotsWith(i)' /\ (\A m \in LotsWith(i)' : m <= n) /\ lots'[n].state[i] = "live"
      BY <2>6 DEF Queued, Newest
    <3>6. n \in LotsWith(i)
      BY <3>2, <3>4, <3>5 DEF LotsWith
    <3>7. QED
      BY <3>1, <3>2, <3>3, <3>4, <3>5, <3>6 DEF ByScanner, Queued, Newest
  <2>7. QED
    <3>1. StopTyped'
      BY DEF ScanInv, StopTyped, Stops, Assets
    <3>2. StopCovers'
      BY <2>6 DEF ScanInv, StopCovers
    <3>3. QED
      BY <1>1, <3>1, <3>2 DEF ScanInv
<1>4. QED
  <2>1. CASE Open(r, k)
    <3>1. PICK lot : lot = [req |-> r, parent |-> ParentOf(ScopeOf[r]),
                            state |-> [a \in AssetsOf[ScopeOf[r]] |-> "live"]]
      OBVIOUS
    <3>2. lots' = Append(lots, lot)
      BY <2>1, <3>1 DEF Open
    <3>3. lot \in Lot
      <4>1. ScopeOf[r] \in Scopes
        BY IntentAssumption
      <4>2. ParentOf(ScopeOf[r]) \in Nat
        <5>1. ParentOf(ScopeOf[r]) = 0 \/ ParentOf(ScopeOf[r]) \in LotNumbers
          BY <4>1, ParentIsDecided DEF ScanInv
        <5>2. QED
          BY <5>1 DEF LotNumbers
      <4>3. [a \in AssetsOf[ScopeOf[r]] |-> "live"] \in [AssetsOf[ScopeOf[r]] -> LotStates]
        BY DEF LotStates
      <4>4. QED
        BY <3>1, <4>1, <4>2, <4>3 DEF Lot
    <3>4. lot.req = r
      BY <3>1
    <3>5. QED
      BY <1>3, <3>2, <3>3, <3>4
  <2>2. CASE Replay(r, k) \/ Join(r, k) \/ Refuse(r, k)
    BY <1>2, <2>2 DEF Replay, Join, Refuse
  <2>3. QED
    BY <2>1, <2>2 DEF Create

(* What a step of the scanner, the runtime or a person is to the lots, the *)
(* switch and the stop.                                                    *)
LEMMA ScanSteps ==
  ASSUME ScanInv, [ScanNext]_scanVars
  PROVE  \/ UNCHANGED <<intents, stop>> /\ auto' \in {auto, Off}
         \/ TurnOn
         \/ \E r \in Automatic : SwitchHolds /\ Create(r, NoKey) /\ UNCHANGED <<stop, auto>>
         \/ \E r \in Requests \ Automatic : \E k \in ClientKeys :
              Create(r, k) /\ UNCHANGED <<stop, auto>>
         \/ \E n \in LotNumbers : \E a \in DOMAIN lots[n].state :
              \E to \in LotStates \ {"live"} : JobEnds(n, a, to) /\ UNCHANGED <<stop, auto>>
         \/ \E a \in Assets : /\ CancelLabel(a)
                              /\ UNCHANGED <<tables, inFlight, handed, cleaner, stop, auto>>
         \/ StopAll \/ ReadLabels
         \/ \E a \in Assets : StopLabel(a)
<1>1. CASE UNCHANGED scanVars
  BY <1>1 DEF scanVars, switches
<1>2. CASE TurnOn \/ StopAll \/ ReadLabels \/ \E a \in Assets : StopLabel(a)
  BY <1>2
<1>3. CASE TurnOff \/ SwitchVideo \/ RoundFails
  BY <1>3 DEF TurnOff, SwitchVideo, RoundFails, TurnsItselfOff
<1>4. CASE Round
  <2>1. CASE BeginRound \/ ReadImages \/ DropImages \/ ReadVideos \/ \E v \in Videos : PassVideo(v)
    BY <2>1 DEF BeginRound, ReadImages, DropImages, ReadVideos, PassVideo, OverLots, switches
  <2>2. CASE Halt \/ EndRound
    BY <2>2 DEF Halt, EndRound, TurnsItselfOff, switches
  <2>3. ASSUME NEW r \in Automatic, HandOverImages(r) \/ \E v \in Videos : HandOverVideo(r, v)
        PROVE  SwitchHolds /\ Create(r, NoKey) /\ UNCHANGED <<stop, auto>>
    BY <2>3 DEF HandOverImages, HandOverVideo, HandOver, switches
  <2>4. QED
    BY <1>4, <2>1, <2>2, <2>3 DEF Round
<1>5. CASE Runtime
  <2>1. ASSUME NEW x \in finished, Apply(x)
        PROVE  UNCHANGED <<intents, stop, auto>>
    BY <2>1 DEF Apply, Elsewhere, switches
  <2>2. ASSUME NEW n \in LotNumbers, NEW a \in DOMAIN lots[n].state, Completes(n, a)
        PROVE  /\ JobEnds(n, a, "over") /\ "over" \in LotStates \ {"live"}
               /\ UNCHANGED <<stop, auto>>
    BY <2>2 DEF Completes, Elsewhere, switches, LotStates
  <2>3. ASSUME NEW n \in LotNumbers, NEW a \in DOMAIN lots[n].state, NEW to \in LotStates,
               Fails(n, a, to)
        PROVE  JobEnds(n, a, to) /\ to \in LotStates \ {"live"} /\ UNCHANGED <<stop, auto>>
    BY <2>3 DEF Fails, Elsewhere, switches, LotStates
  <2>4. QED
    BY <1>5, <2>1, <2>2, <2>3 DEF Runtime, Works
<1>6. ASSUME NEW a \in Assets, Cancel(a)
      PROVE  CancelLabel(a) /\ UNCHANGED <<tables, inFlight, handed, cleaner, stop, auto>>
  BY <1>6 DEF Cancel, Elsewhere, switches
<1>7. ASSUME NEW i \in InScene, WritePrompt(i)
      PROVE  UNCHANGED <<intents, stop, auto>>
  BY <1>7 DEF WritePrompt, Elsewhere, switches
<1>8. CASE Clients /\ UNCHANGED <<switches, board, rest, scan, stop>>
  BY <1>8 DEF Clients, switches
<1>9. QED
  BY <1>1, <1>2, <1>3, <1>4, <1>5, <1>6, <1>7, <1>8 DEF ScanNext

LEMMA StopAllCovers ==
  ASSUME ScanInv, StopAll
  PROVE  ScanInv' /\ stop'.step = "look"
<1>1. /\ auto' = Off /\ UNCHANGED <<lots, records, aliases, latest, inFlight, handed, cleaner>>
      /\ stop' = [step |-> "look", labels |-> {}, again |-> FALSE]
  BY DEF StopAll, NoStop, intents, tables
<1>2. Inv'
  <2>1. SidesTyped'
    BY <1>1 DEF ScanInv, Inv, IntentTypeOK, SidesTyped, LotNumbers
  <2>2. QED
    BY <1>1, <2>1, QuietStep DEF ScanInv, tables
<1>3. StopTyped' /\ StopCovers'
  BY <1>1 DEF StopTyped, Stops, StopCovers
<1>4. QED
  BY <1>1, <1>2, <1>3 DEF ScanInv

(* The labels are read when the scanner can queue nothing any more.        *)
LEMMA ReadLabelsCovers ==
  ASSUME ScanInv, ReadLabels
  PROVE  /\ ScanInv' /\ lots' = lots
         /\ stop' = NoStop => LiveLabels = {}
<1>1. /\ UNCHANGED <<auto, lots, records, aliases, latest, inFlight, handed, cleaner>>
      /\ stop.step = "look"
      /\ stop' = IF LiveLabels = {} THEN NoStop
                 ELSE [stop EXCEPT !.step = "cancel", !.labels = LiveLabels]
  BY DEF ReadLabels, intents, tables, switches
<1>2. Inv'
  <2>1. SidesTyped'
    BY <1>1 DEF ScanInv, Inv, IntentTypeOK, SidesTyped, LotNumbers
  <2>2. QED
    BY <1>1, <2>1, QuietStep DEF ScanInv, tables
<1>3. \A n \in LotNumbers : \A i \in Images : Queued(n, i) => i \in LiveLabels
  BY DEF LiveLabels, Queued, Newest, Assets
<1>4. stop \in Stops /\ LiveLabels \in SUBSET Assets
  BY DEF ScanInv, StopTyped, LiveLabels
<1>5. CASE LiveLabels = {}
  <2>1. stop' = NoStop
    BY <1>1, <1>5
  <2>2. StopTyped' /\ StopCovers'
    BY <2>1 DEF StopTyped, Stops, NoStop, StopCovers
  <2>3. QED
    BY <1>1, <1>2, <1>5, <2>2 DEF ScanInv
<1>6. CASE LiveLabels # {}
  <2>1. stop' = [step |-> "cancel", labels |-> LiveLabels, again |-> stop.again]
    BY <1>1, <1>4, <1>6 DEF Stops
  <2>2. stop' # NoStop /\ StopTyped'
    BY <1>4, <2>1 DEF StopTyped, Stops, NoStop
  <2>3. auto = Off \/ stop.again
    BY <1>1 DEF ScanInv, StopCovers
  <2>4. \A n \in LotNumbers' : \A i \in Images : Queued(n, i)' => i \in LiveLabels
    BY <1>1, <1>3 DEF Queued, Newest, LotsWith, LotNumbers
  <2>5. StopCovers'
    BY <1>1, <2>1, <2>3, <2>4 DEF StopCovers
  <2>6. QED
    BY <1>1, <1>2, <2>2, <2>5 DEF ScanInv
<1>7. QED
  BY <1>5, <1>6

(* The label that is cancelled is covered no longer, and need not be.      *)
LEMMA StopLabelCovers ==
  ASSUME ScanInv, NEW a \in Assets, StopLabel(a)
  PROVE  /\ ScanInv' /\ NothingRevived /\ stop # NoStop
         /\ stop' = NoStop => stop.labels = {a}
         /\ a \in Images => \A n : Queued(n, a) => lots'[n].state[a] # "live"
<1>1. /\ stop.step = "cancel" /\ stop # NoStop /\ a \in stop.labels /\ CancelLabel(a)
      /\ stop' = IF stop.labels = {a} THEN NoStop ELSE [stop EXCEPT !.labels = @ \ {a}]
      /\ UNCHANGED <<tables, inFlight, handed, cleaner, auto>>
  BY DEF StopLabel, switches, NoStop
<1>2. /\ Inv' /\ NothingRevived
      /\ a \notin Videos => \A n : Queued(n, a) => lots'[n].state[a] # "live"
  BY <1>1, CancelKeeps DEF ScanInv
<1>3. a \in Images => a \notin Videos
  BY ScannerAssumption
<1>4. stop \in Stops
  BY DEF ScanInv, StopTyped
<1>5. /\ StopTyped'
      /\ stop'.step # "idle" => /\ stop'.step = "cancel" /\ stop'.again = stop.again
                               /\ stop'.labels = stop.labels \ {a}
      /\ stop' = NoStop => stop.labels = {a}
  <2>1. CASE stop.labels = {a}
    BY <1>1, <2>1 DEF NoStop, StopTyped, Stops
  <2>2. CASE stop.labels # {a}
    <3>1. stop' = [stop EXCEPT !.labels = @ \ {a}]
      BY <1>1, <2>2
    <3>2. stop' = [step |-> "cancel", labels |-> stop.labels \ {a}, again |-> stop.again]
      BY <1>1, <1>4, <3>1 DEF Stops
    <3>3. stop'.labels # {}
      BY <1>1, <2>2, <3>2
    <3>4. stop' # NoStop
      BY <3>3 DEF NoStop
    <3>5. QED
      BY <1>4, <3>2, <3>4 DEF StopTyped, Stops
  <2>3. QED
    BY <2>1, <2>2
<1>6. StopCovers'
  <2> SUFFICES ASSUME stop'.step # "idle", ~stop'.again
               PROVE  /\ auto' = Off
                      /\ \A n \in LotNumbers' : \A i \in Images :
                           ByScanner(n)' /\ Queued(n, i)' => i \in stop'.labels
    BY DEF StopCovers
  <2>1. auto = Off /\ \A n \in LotNumbers : \A i \in Images :
          ByScanner(n) /\ Queued(n, i) => i \in stop.labels
    BY <1>1, <1>5 DEF ScanInv, StopCovers
  <2>2. ASSUME NEW n \in LotNumbers', NEW i \in Images, ByScanner(n)', Queued(n, i)'
        PROVE  i \in stop'.labels
    <3>1. n \in LotNumbers
      BY <1>2 DEF NothingRevived
    <3>2. ByScanner(n) /\ Queued(n, i)
      BY <1>2, <2>2, <3>1, QueuedBefore
    <3>3. lots'[n].state[i] = "live"
      BY <2>2 DEF Queued
    <3>4. i # a
      BY <1>2, <1>3, <3>2, <3>3
    <3>5. QED
      BY <1>5, <2>1, <3>1, <3>2, <3>4
  <2>3. QED
    BY <1>1, <2>1, <2>2
<1>7. QED
  BY <1>1, <1>2, <1>3, <1>5, <1>6 DEF ScanInv

LEMMA StepKeepsScan == ScanInv /\ [ScanNext]_scanVars => ScanInv'
<1> SUFFICES ASSUME ScanInv, [ScanNext]_scanVars PROVE ScanInv'
  OBVIOUS
<1>1. CASE UNCHANGED <<intents, stop>> /\ auto' \in {auto, Off}
  <2>1. UNCHANGED <<lots, records, aliases, latest, inFlight, handed, cleaner, stop>>
    BY <1>1 DEF intents, tables
  <2>2. SidesTyped'
    BY <2>1 DEF ScanInv, Inv, IntentTypeOK, SidesTyped, LotNumbers
  <2>3. Inv'
    BY <2>1, <2>2, QuietStep DEF ScanInv, tables
  <2>4. NothingRevived
    BY <2>1 DEF NothingRevived, LotNumbers
  <2>5. QED
    BY <1>1, <2>1, <2>3, <2>4, StopGoesOn
<1>2. CASE TurnOn
  <2>1. /\ UNCHANGED <<lots, records, aliases, latest, inFlight, handed, cleaner>>
        /\ stop' = [stop EXCEPT !.again = stop # NoStop]
    BY <1>2 DEF TurnOn, intents, tables
  <2>2. SidesTyped'
    BY <2>1 DEF ScanInv, Inv, IntentTypeOK, SidesTyped, LotNumbers
  <2>3. Inv'
    BY <2>1, <2>2, QuietStep DEF ScanInv, tables
  <2>4. StopTyped' /\ (stop'.step = "idle" \/ stop'.again)
    <3>1. stop \in Stops /\ (stop.step = "idle" => stop = NoStop)
      BY DEF ScanInv, StopTyped
    <3>2. CASE stop = NoStop
      BY <2>1, <3>2 DEF NoStop, StopTyped, Stops
    <3>3. CASE stop # NoStop
      <4>1. stop' = [step |-> stop.step, labels |-> stop.labels, again |-> TRUE]
        BY <2>1, <3>1, <3>3 DEF Stops
      <4>2. QED
        BY <3>1, <3>3, <4>1 DEF StopTyped, Stops
    <3>4. QED
      BY <3>2, <3>3
  <2>5. StopCovers'
    BY <2>4 DEF StopCovers
  <2>6. QED
    BY <2>3, <2>4, <2>5 DEF ScanInv
<1>3. ASSUME NEW r \in Automatic, SwitchHolds, Create(r, NoKey), UNCHANGED <<stop, auto>>
      PROVE  ScanInv'
  <2>1. Inv'
    BY <1>3, IntentAssumption, CreateKeeps DEF ScanInv, Asks
  <2>2. stop.step = "idle" \/ stop.again
    BY <1>3 DEF ScanInv, StopCovers, SwitchHolds
  <2>3. StopTyped' /\ StopCovers'
    BY <1>3, <2>2 DEF ScanInv, StopTyped, Stops, Assets, StopCovers
  <2>4. QED
    BY <2>1, <2>3 DEF ScanInv
<1>4. ASSUME NEW r \in Requests \ Automatic, NEW k \in ClientKeys, Create(r, k),
             UNCHANGED <<stop, auto>>
      PROVE  ScanInv'
  BY <1>4, ClientOpens
<1>5. ASSUME NEW n \in LotNumbers, NEW a \in DOMAIN lots[n].state,
             NEW to \in LotStates \ {"live"}, JobEnds(n, a, to), UNCHANGED <<stop, auto>>
      PROVE  ScanInv'
  <2>1. Inv' /\ NothingRevived
    BY <1>5, JobEndsKeeps, EndRevivesNothing DEF ScanInv
  <2>2. QED
    BY <1>5, <2>1, StopGoesOn
<1>6. ASSUME NEW a \in Assets, CancelLabel(a),
             UNCHANGED <<tables, inFlight, handed, cleaner, stop, auto>>
      PROVE  ScanInv'
  <2>1. Inv' /\ NothingRevived
    BY <1>6, CancelKeeps DEF ScanInv
  <2>2. QED
    BY <1>6, <2>1, StopGoesOn
<1>7. CASE StopAll \/ ReadLabels
  BY <1>7, StopAllCovers, ReadLabelsCovers
<1>8. ASSUME NEW a \in Assets, StopLabel(a) PROVE ScanInv'
  BY <1>8, StopLabelCovers
<1>9. QED
  BY <1>1, <1>2, <1>3, <1>4, <1>5, <1>6, <1>7, <1>8, ScanSteps

LEMMA ScanInitInv == ScanInit => ScanInv
<1> SUFFICES ASSUME ScanInit PROVE ScanInv
  OBVIOUS
<1>1. Inv
  BY InitInv DEF ScanInit
<1>2. stop = NoStop
  BY DEF ScanInit
<1>3. StopTyped /\ StopCovers
  BY <1>2 DEF NoStop, StopTyped, Stops, StopCovers
<1>4. QED
  BY <1>1, <1>3 DEF ScanInv

(* The tables keep what they promise beneath the scanner, clicks, cancels  *)
(* of whole lots and stops as well.                                        *)
THEOREM ScannerKeepsTheTables ==
  ScanSpec => [](IntentTypeOK /\ LiveLotHoldsItsScope /\ KeyKeepsItsLot
                 /\ ScannerLeavesFailures)
<1>1. ScanInv => /\ IntentTypeOK /\ LiveLotHoldsItsScope /\ KeyKeepsItsLot
                 /\ ScannerLeavesFailures
  BY InvPromises DEF ScanInv, Inv
<1>2. QED
  BY <1>1, ScanInitInv, StepKeepsScan, PTL DEF ScanSpec

(* When the button that stops everything has done its work and nobody      *)
(* pressed the switch again, no image the scanner handed over is queued,   *)
(* except behind a newer lot of the same card.                             *)
THEOREM StopsSweep == ScanSpec => StopSweeps
<1>1. ScanInv /\ [ScanNext]_scanVars =>
        [stop # NoStop /\ stop' = NoStop /\ ~stop.again
           => \A n \in LotNumbers : \A i \in Images \cap DOMAIN lots[n].state :
                ByScanner(n) /\ NewestWith(i) = n => lots'[n].state[i] # "live"]_scanVars
  <2> SUFFICES ASSUME ScanInv, [ScanNext]_scanVars,
                      stop # NoStop, stop' = NoStop, ~stop.again,
                      NEW n \in LotNumbers, NEW i \in Images \cap DOMAIN lots[n].state,
                      ByScanner(n), NewestWith(i) = n
               PROVE  lots'[n].state[i] # "live"
    OBVIOUS
  <2>1. Newest(n, i) /\ i \in Assets /\ i \in DOMAIN lots[n].state
    BY NewestThere DEF ScanInv, LotsWith, Assets
  <2>2. ReadLabels \/ \E a \in Assets : StopLabel(a)
    <3>1. ~TurnOn
      BY DEF TurnOn, ScanInv, StopTyped, Stops, NoStop
    <3>2. ~StopAll
      BY DEF StopAll, NoStop
    <3>3. QED
      BY <3>1, <3>2, ScanSteps
  <2>3. CASE ReadLabels
    <3>1. LiveLabels = {} /\ lots' = lots
      BY <2>3, ReadLabelsCovers
    <3>2. QED
      BY <2>1, <3>1 DEF LiveLabels, Newest
  <2>4. ASSUME NEW a \in Assets, StopLabel(a) PROVE lots'[n].state[i] # "live"
    <3>1. lots'[n].state[i] = "live" => lots[n].state[i] = "live"
      BY <2>4, StopLabelCovers DEF NothingRevived
    <3>2. CASE lots[n].state[i] = "live"
      <4>1. Queued(n, i)
        BY <2>1, <3>2 DEF Queued
      <4>2. stop.step = "cancel"
        BY <2>4 DEF StopLabel
      <4>3. i \in stop.labels
        BY <4>1, <4>2 DEF ScanInv, StopCovers
      <4>4. stop.labels = {a}
        BY <2>4, StopLabelCovers
      <4>5. i = a
        BY <4>3, <4>4
      <4>6. QED
        BY <2>4, <4>1, <4>5, StopLabelCovers
    <3>3. QED
      BY <3>1, <3>2
  <2>5. QED
    BY <2>2, <2>3, <2>4
<1>2. QED
  BY <1>1, ScanInitInv, StepKeepsScan, PTL DEF ScanSpec, StopSweeps

=============================================================================
