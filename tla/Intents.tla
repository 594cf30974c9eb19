------------------------------ MODULE Intents ------------------------------
(***************************************************************************)
(* Opening lots of jobs exactly once: the producer (jobs/producer.py), the *)
(* dedupe tables of the store (create_intent and retire_scope in           *)
(* jobs/sqlite_store.py) and the user's clean-up of failed jobs            *)
(* (_runtime_don_loi in sfboard.py).                                       *)
(*                                                                         *)
(* A request asks for one job for each asset of a scope.  A click carries  *)
(* the client's idempotency key (a click without one is like a click with  *)
(* a key that is never sent again); the automatic scanner derives its key  *)
(* from the scope and the lot before.  A request that is accepted opens a  *)
(* lot; every other request is answered with a lot that exists, or         *)
(* refused.  Every entrance but one (/api/master) first looks whether an   *)
(* asset is already being worked on; the server handles requests in        *)
(* threads, so between the look and the request others come in.            *)
(*                                                                         *)
(* create_intent() is one transaction under the runtime's lock, so opening *)
(* is one step.  The clean-up takes no such lock: it reads all the jobs    *)
(* once and then looks up and retires scope after scope.  What the jobs of *)
(* a lot go through is JobRuntime's business; here "live" stands for       *)
(* queued, running and retry_wait.                                         *)
(***************************************************************************)
EXTENDS Naturals, Sequences, FiniteSets

CONSTANTS Requests,
          Scopes,
          ScopeOf,     \* request -> scope
          PayloadOf,   \* request -> what else its fingerprint covers
          Automatic,   \* the requests of the automatic scanner
          Guarded,     \* the requests whose entrance looks first
          AssetsOf,    \* scope -> assets
          ClientKeys,
          NoKey,
          MaxLots,     \* bound on the lots that are opened
          MaxInFlight  \* bound on the requests between look and creation

ClientKey(k) == <<"client", k, 0>>
AutoKey(s, parent) == <<"auto", s, parent>>
Keys ==
  {ClientKey(k) : k \in ClientKeys}
  \cup {AutoKey(s, n) : s \in Scopes, n \in 0 .. MaxLots}

ASSUME IntentAssumption ==
  /\ ScopeOf \in [Requests -> Scopes]
  /\ Automatic \subseteq Requests /\ Guarded \subseteq Requests
  /\ DOMAIN AssetsOf = Scopes /\ \A s \in Scopes : AssetsOf[s] # {}
  /\ NoKey \notin ClientKeys \cup Keys
  /\ MaxLots \in Nat /\ MaxInFlight \in Nat

VARIABLES lots,      \* lot number -> [req, parent, state]          (SQLite)
          records,   \* intent records: <<canonical key, lot>>      (SQLite)
          aliases,   \* intent aliases: <<key, canonical key>>      (SQLite)
          latest,    \* scope -> canonical key of its lot, or NoKey (SQLite)
          inFlight,  \* requests that have looked: <<request, key>>
          handed,    \* what clients were told: <<key, request, lot>>
          cleaner    \* the clean-up in progress

vars == <<lots, records, aliases, latest, inFlight, handed, cleaner>>
tables == <<records, aliases, latest>>

(* Completed and cancelled are alike here: "over".                         *)
LotStates == {"live", "needs_attention", "failed", "over"}
Undecided == {"live", "needs_attention"}

NoScope == "no scope"
AllAssets == UNION {AssetsOf[s] : s \in Scopes}
Asleep == [todo |-> {}, scope |-> NoScope, retired |-> {}]

LotNumbers == 1 .. Len(lots)
InState(n, S) == {a \in DOMAIN lots[n].state : lots[n].state[a] \in S}
ScopeOfLot(n) == ScopeOf[lots[n].req]
SamePayload(n, r) == PayloadOf[lots[n].req] = PayloadOf[r]

(* The lot a key leads to: the alias and its record, joined.               *)
LotsUnder(key) ==
  {rec[2] : rec \in {x \in records : <<key, x[1]>> \in aliases}}
LatestLots(s) == LotsUnder(latest[s])
OnRecord(n) == \E rec \in records : rec[2] = n

(* The lot a new one in this scope would be a rerun of, or 0.              *)
TerminalParents(s) == {n \in LatestLots(s) : InState(n, Undecided) = {}}
ParentOf(s) ==
  IF TerminalParents(s) = {} THEN 0 ELSE CHOOSE n \in TerminalParents(s) : TRUE

KeyFor(r, k) ==
  IF r \in Automatic THEN AutoKey(ScopeOf[r], ParentOf(ScopeOf[r])) ELSE ClientKey(k)

(* A plausible mistake: failures hold nobody back.                         *)
LiveOnly(r) == Undecided

(* _blocking_states: a lot with such a job keeps its scope.  What failed   *)
(* for good holds back the scanner only; a person may run it again.        *)
BlockingStates(r) == Undecided \cup (IF r \in Automatic THEN {"failed"} ELSE {})

(* A plausible mistake: a job in front of the user does not block.         *)
RunningOnly(s, r) == {n \in LatestLots(s) : InState(n, {"live"}) # {}}

Blockers(s, r) == {n \in LatestLots(s) : InState(n, BlockingStates(r)) # {}}

-----------------------------------------------------------------------------

Init ==
  /\ lots = <<>>
  /\ records = {} /\ aliases = {}
  /\ latest = [s \in Scopes |-> NoKey]
  /\ inFlight = {} /\ handed = {}
  /\ cleaner = Asleep

(* _job_state_for_asset: what the newest lot with the asset is doing.      *)
LotsWith(a) == {n \in LotNumbers : a \in DOMAIN lots[n].state}
Active(a) ==
  \E n \in LotsWith(a) : /\ \A m \in LotsWith(a) : m <= n
                         /\ lots[n].state[a] = "live"

(* The look: no asset is active, or the client's key is known.             *)
Look(r, k) ==
  /\ r \in Guarded /\ <<r, k>> \notin inFlight
  /\ Cardinality(inFlight) < MaxInFlight
  /\ \/ \A a \in AssetsOf[ScopeOf[r]] : ~Active(a)
     \/ k # NoKey /\ LotsUnder(ClientKey(k)) # {}
  /\ inFlight' = inFlight \cup {<<r, k>>}
  /\ UNCHANGED <<lots, tables, handed, cleaner>>

Hand(k, r, n) ==
  handed' = IF k = NoKey THEN handed ELSE handed \cup {<<k, r, n>>}

(* The key is known: the same intent again, or 409 for another payload.    *)
Replay(r, k) ==
  \E n \in LotsUnder(KeyFor(r, k)) :
    /\ ScopeOfLot(n) = ScopeOf[r] /\ SamePayload(n, r)
    /\ Hand(k, r, n)
    /\ UNCHANGED <<lots, tables, cleaner>>

(* A plausible mistake: the key of a request that joins is not remembered. *)
NoAlias(key, canonical) == UNCHANGED aliases

AddAlias(key, canonical) == aliases' = aliases \cup {<<key, canonical>>}

(* The key is new but the scope is taken: an alias of the lot that has it, *)
(* or 409 for another payload.                                             *)
Join(r, k) ==
  LET s == ScopeOf[r]
  IN  /\ LotsUnder(KeyFor(r, k)) = {}
      /\ \E n \in Blockers(s, r) :
           /\ SamePayload(n, r)
           /\ AddAlias(KeyFor(r, k), latest[s])
           /\ Hand(k, r, n)
      /\ UNCHANGED <<lots, records, latest, cleaner>>

(* The request opens a lot of its own.                                     *)
Open(r, k) ==
  LET s == ScopeOf[r]
      key == KeyFor(r, k)
      n == Len(lots) + 1
  IN  /\ Len(lots) < MaxLots
      /\ LotsUnder(key) = {} /\ Blockers(s, r) = {}
      /\ lots' = Append(lots, [req |-> r, parent |-> ParentOf(s),
                               state |-> [a \in AssetsOf[s] |-> "live"]])
      /\ records' = records \cup {<<key, n>>}
      /\ aliases' = aliases \cup {<<key, key>>}
      /\ latest' = [latest EXCEPT ![s] = key]
      /\ Hand(k, r, n)
      /\ UNCHANGED cleaner

(* Another payload under a known key, or else in a scope that is taken:    *)
(* 409.                                                                    *)
Refuse(r, k) ==
  LET known == LotsUnder(KeyFor(r, k))
      met == IF known # {} THEN known ELSE Blockers(ScopeOf[r], r)
  IN  /\ \E n \in met : ScopeOfLot(n) # ScopeOf[r] \/ ~SamePayload(n, r)
      /\ UNCHANGED <<lots, tables, handed, cleaner>>

Create(r, k) ==
  /\ r \in Guarded => <<r, k>> \in inFlight
  /\ Replay(r, k) \/ Join(r, k) \/ Open(r, k) \/ Refuse(r, k)
  /\ inFlight' = inFlight \ {<<r, k>>}

(* A job of a lot ends or gets stuck.                                      *)
JobEnds(n, a, to) ==
  /\ lots[n].state[a] = "live"
  /\ lots' = [lots EXCEPT ![n].state[a] = to]
  /\ UNCHANGED <<tables, inFlight, handed, cleaner>>

-----------------------------------------------------------------------------
(* The clean-up of one asset, or of everything.                            *)

StartCleaning(assets) ==
  LET seen == {x \in LotNumbers \X assets :
                 x[2] \in InState(x[1], {"failed", "needs_attention"})}
  IN  /\ cleaner = Asleep /\ seen # {}
      /\ cleaner' = [cleaner EXCEPT !.todo =
                       {<<x[1], x[2], lots[x[1]].state[x[2]]>> : x \in seen}]
      /\ UNCHANGED <<lots, tables, inFlight, handed>>

(* The jobs come in the order in which they were created.                  *)
IsNext(x) == x \in cleaner.todo /\ \A y \in cleaner.todo : x[1] <= y[1]
Rest(x) == IF cleaner.todo = {x} THEN Asleep
           ELSE [cleaner EXCEPT !.todo = @ \ {x}, !.scope = NoScope]

(* A job seen in front of the user is dropped, if it is there still.       *)
CleanStuck(x) ==
  /\ IsNext(x) /\ x[3] = "needs_attention"
  /\ lots' = IF lots[x[1]].state[x[2]] = "needs_attention"
             THEN [lots EXCEPT ![x[1]].state[x[2]] = "over"]
             ELSE lots
  /\ cleaner' = Rest(x)
  /\ UNCHANGED <<tables, inFlight, handed>>

(* scope_of_job: the scope on the record of a failed job.                  *)
FindScope(x) ==
  /\ IsNext(x) /\ x[3] = "failed" /\ cleaner.scope = NoScope
  /\ cleaner' = IF OnRecord(x[1]) /\ ScopeOfLot(x[1]) \notin cleaner.retired
                THEN [cleaner EXCEPT !.scope = ScopeOfLot(x[1])]
                ELSE Rest(x)
  /\ UNCHANGED <<lots, tables, inFlight, handed>>

(* retire_scope: whatever lot the scope points to by now loses its record, *)
(* its keys and its scope.                                                 *)
RetireScope(x) ==
  LET s == cleaner.scope
      key == latest[s]
  IN  /\ IsNext(x) /\ s # NoScope
      /\ IF key = NoKey
         THEN /\ cleaner' = Rest(x)
              /\ UNCHANGED tables
         ELSE /\ latest' = [latest EXCEPT ![s] = NoKey]
              /\ aliases' = {al \in aliases : al[2] # key}
              /\ records' = {rec \in records : rec[1] # key}
              /\ cleaner' = IF cleaner.todo = {x} THEN Asleep
                            ELSE [Rest(x) EXCEPT !.retired = @ \cup {s}]
      /\ UNCHANGED <<lots, inFlight, handed>>

-----------------------------------------------------------------------------

Clean ==
  \/ StartCleaning(AllAssets)
  \/ \E s \in Scopes : \E a \in AssetsOf[s] : StartCleaning({a})
  \/ \E x \in cleaner.todo : CleanStuck(x) \/ FindScope(x) \/ RetireScope(x)

Next ==
  \/ \E r \in Automatic : Look(r, NoKey) \/ Create(r, NoKey)
  \/ \E r \in Requests \ Automatic : \E k \in ClientKeys :
       Look(r, k) \/ Create(r, k)
  \/ \E n \in LotNumbers : \E a \in DOMAIN lots[n].state :
       \E to \in LotStates \ {"live"} : JobEnds(n, a, to)
  \/ Clean

Spec == Init /\ [][Next]_vars

-----------------------------------------------------------------------------
(* Properties.                                                             *)

(* Every table holds what it is for; the clean-up names jobs there are.    *)
IntentTypeOK ==
  /\ Len(lots) <= MaxLots
  /\ lots \in Seq([req : Requests, parent : Nat,
                   state : UNION {[AssetsOf[s] -> LotStates] : s \in Scopes}])
  /\ \A n \in LotNumbers :
       lots[n].parent < n /\ DOMAIN lots[n].state = AssetsOf[ScopeOfLot(n)]
  /\ records \subseteq Keys \X LotNumbers
  /\ aliases \subseteq Keys \X {rec[1] : rec \in records}
  /\ latest \in [Scopes -> {rec[1] : rec \in records} \cup {NoKey}]
  /\ inFlight \subseteq Guarded \X (ClientKeys \cup {NoKey})
  /\ handed \subseteq ClientKeys \X Requests \X LotNumbers
  /\ cleaner \in [todo : SUBSET (LotNumbers \X AllAssets \X LotStates),
                  scope : Scopes \cup {NoScope}, retired : SUBSET Scopes]
  /\ \A x \in cleaner.todo : x[2] \in DOMAIN lots[x[1]].state

(* docs/JOB-STATE-MACHINE.md: while the lot before is alive no other lot   *)
(* is opened in its scope.  A lot that is on record and not decided is the *)
(* one its scope points to, whatever keys, cancels, failures and clean-ups *)
(* came before: so every later request finds it.                           *)
LiveLotHoldsItsScope ==
  \A n \in LotNumbers :
    OnRecord(n) /\ InState(n, Undecided) # {} => LatestLots(ScopeOfLot(n)) = {n}

(* README invariant 1: the same key with the same payload leads to the     *)
(* same intent, also when the first answer was an alias of somebody else's *)
(* lot and that lot has ended since; only a clean-up takes the lot off the *)
(* record.  And no client is handed a lot of another payload.              *)
KeyKeepsItsLot ==
  \A h \in handed :
    /\ ScopeOf[h[2]] = ScopeOfLot(h[3]) /\ SamePayload(h[3], h[2])
    /\ OnRecord(h[3]) => LotsUnder(ClientKey(h[1])) = {h[3]}

(* docs/JOB-STATE-MACHINE.md: what failed is a person's to decide.  The    *)
(* scanner never continues from a lot with a failed job, however often it  *)
(* scans and whatever else ended in the lot.                               *)
ScannerLeavesFailures ==
  \A n \in LotNumbers :
    lots[n].req \in Automatic /\ lots[n].parent # 0
      => InState(lots[n].parent, {"failed"}) = {}

(* retire_scope's own comment: a clean-up that leaves an old key behind    *)
(* makes the scanner replay a dead lot for ever.  When nothing keeps the   *)
(* scope, the key the scanner derives next leads to no old lot.            *)
ScannerMayOpen ==
  \A r \in Automatic :
    Blockers(ScopeOf[r], r) = {} => LotsUnder(KeyFor(r, NoKey)) = {}
=============================================================================
