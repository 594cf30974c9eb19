-------------------------- MODULE AccountAllocator --------------------------
(***************************************************************************)
(* The account allocator (src/sfboard/jobs/accounts.py): which browser     *)
(* account and which tab slot of it one execution may use.                 *)
(*                                                                         *)
(* The module declares the allocator's memory and the effect of each of    *)
(* its operations; JobRuntime and AccountSync build their actions from     *)
(* them.  Every operation runs under the allocator's lock, so one is one   *)
(* atomic piece of a step.  The cooldown deadline is abstracted to a set   *)
(* of cooling accounts that an action of the environment empties; the      *)
(* tie-break on the account's name to any of the least used accounts.      *)
(***************************************************************************)
EXTENDS Naturals, FiniteSets

CONSTANTS Accounts,    \* account ids (Chrome debug ports)
          Works,       \* work keys: execution ids
          NoAccount    \* "no account"

ASSUME AccountAssumption == NoAccount \notin Accounts /\ IsFiniteSet(Works)

VARIABLES maxSlots,    \* registered accounts and their tab count; 0: unknown
          enabled,     \* accounts whose user switch the allocator saw on
          videoOk,     \* accounts that may run a video
          broken,      \* accounts reported fatally lost
          cooling,     \* accounts whose cooldown_until lies ahead
          pinned,      \* works whose force() constraint is in memory
          seats        \* work -> the seat it holds

allocVars == <<maxSlots, enabled, videoOk, broken, cooling, pinned, seats>>

Seat == [acct : Accounts, slot : Nat]
NoSeat == [acct |-> NoAccount, slot |-> 0]

Known(a) == maxSlots[a] > 0

SeatsOn(a) == {w \in Works : seats[w].acct = a}
InUse(a) == Cardinality(SeatsOn(a))

Usable(a, kind) ==
  /\ a \in enabled \ (broken \cup cooling)
  /\ kind = "video" => a \in videoOk
  /\ InUse(a) < maxSlots[a]

LeastUsed(pool) == {a \in pool : \A b \in pool : InUse(a) <= InUse(b)}

(* A plausible mistake: another account is fallen back on unasked.         *)
AnyWhenBusy(pin, usable, spread, fallback) ==
  IF pin \in usable THEN {pin} ELSE spread

(* A forced work gets its own account or, only with its fallback, any      *)
(* other.                                                                  *)
ForcedChoices(pin, usable, spread, fallback) ==
  CASE pin \in usable               -> {pin}
    [] pin \notin usable /\ fallback -> spread
    [] OTHER                        -> {}

(* The accounts allocate() may pick; {} is NoAccountAvailable.             *)
Choices(w, kind, forced, fallback, prefer, avoid) ==
  LET usable == {a \in Accounts : Usable(a, kind)}
      rotated == usable \ {avoid}
      spread == LeastUsed(IF rotated = {} THEN usable ELSE rotated)
  IN  CASE w \in pinned    -> ForcedChoices(forced, usable, spread, fallback)
        [] w \notin pinned /\ prefer \in usable -> {prefer}
        [] OTHER           -> spread

FreeSlots(a) == (0 .. maxSlots[a] - 1) \ {seats[w].slot : w \in SeatsOn(a)}

(* A plausible mistake: the number of seats in use is the next slot.       *)
SlotAfterTheLast(a) == InUse(a)

LowestFreeSlot(a) ==
  CHOOSE i \in FreeSlots(a) : \A k \in FreeSlots(a) : i <= k

TakeSeat(w, a) ==
  seats' = [seats EXCEPT ![w] = [acct |-> a, slot |-> LowestFreeSlot(a)]]

ReleaseSeat(w) == seats' = [seats EXCEPT ![w] = NoSeat]

AllocTypeOK ==
  /\ maxSlots \in [Accounts -> Nat]
  /\ enabled \subseteq Accounts
  /\ videoOk \subseteq Accounts
  /\ broken \subseteq Accounts
  /\ cooling \subseteq Accounts
  /\ pinned \subseteq Works
  /\ seats \in [Works -> Seat \cup {NoSeat}]

(* Two works never hold the same tab of the same account: a tab serves one *)
(* owner at a time (README invariant 3), whatever the order in which seats *)
(* are taken and released and accounts get fewer or more tabs, are deleted *)
(* and come back while seats on them are taken.                            *)
SeatExclusive ==
  \A v, w \in Works :
    v # w /\ seats[v] # NoSeat => seats[v] # seats[w]
=============================================================================
