------------------------------ MODULE Schedule ------------------------------
(***************************************************************************)
(* The schedule of the lifecycle runtime: the Scheduler's tables in memory *)
(* (scheduler.py) over the executions in SQLite (sqlite_store.py), as      *)
(* LifecycleRuntime uses them (runtime.py).                                *)
(*                                                                         *)
(* An operation writes a row in the open transaction and remembers it in   *)
(* memory before the transaction is committed.  When anything fails on the *)
(* way, in the schedule or in the rest of the operation, the transaction   *)
(* is rolled back and the Scheduler is built again from the rows.  A crash *)
(* loses the memory and the open transaction; the start of the board loads *)
(* the rows and settles the leases of the dead process.  The runtime's     *)
(* lock admits one operation at a time.  A write is made against the       *)
(* version that memory has of the row; a write against another version     *)
(* raises.  Leases do not expire: nothing calls expire_leases.             *)
(***************************************************************************)
EXTENDS Naturals, FiniteSets

CONSTANTS Scopes,
          KindOf,      \* scope -> kind of work
          PriorityOf,  \* scope -> priority, the smallest first
          MaxExecs,    \* bound on the executions ever scheduled
          MaxLeases,   \* bound on the leases ever given
          MaxClock,    \* bound on time
          MaxCrashes,  \* bound on the crashes of the board
          MaxFailures  \* bound on the operations that fail

ASSUME ScheduleAssumption ==
  /\ Scopes # {} /\ PriorityOf \in [Scopes -> Nat]
  /\ MaxExecs \in Nat \ {0} /\ MaxLeases \in Nat /\ MaxClock \in Nat
  /\ MaxCrashes \in Nat /\ MaxFailures \in Nat

VARIABLES rows,     \* execution -> row, as committed
          tx,       \* execution -> row, as the connection sees it
          open,     \* the kind of the open transaction, or "no"
          mem,      \* _by_id: execution -> row
          byScope,  \* _by_scope: scope -> execution, or 0
          byLease,  \* _by_lease: lease -> execution, or 0
          next,     \* _seq: the next number
          made,     \* executions that were given an identity
          issued,   \* leases that were given an identity
          board,    \* "down", "starting", "up"
          clock, crashes, failures

memory == <<mem, byScope, byLease, next>>
vars == <<rows, tx, open, memory, made, issued, board, clock, crashes, failures>>

Execs == 1 .. MaxExecs
Leases == 1 .. MaxLeases
States == {"none", "ready", "leased", "finished"}
Live == {"ready", "leased"}
Row == [state : States, scope : Scopes, due : Nat, seq : Nat, lease : 0 .. MaxLeases]

NoRow == [state |-> "none", scope |-> CHOOSE s \in Scopes : TRUE, due |-> 0,
          seq |-> 0, lease |-> 0]
NoRows == [e \in Execs |-> NoRow]

LiveIn(table) == {e \in Execs : table[e].state \in Live}

(* Building the Scheduler from the rows: only live executions are loaded,  *)
(* and the numbers go on after the highest of them.                        *)
Loaded(table) == [e \in Execs |-> IF e \in LiveIn(table) THEN table[e] ELSE NoRow]

ScopeIndex(table) ==
  [s \in Scopes |-> IF \E e \in LiveIn(table) : table[e].scope = s
                    THEN CHOOSE e \in LiveIn(table) : table[e].scope = s
                    ELSE 0]

LeaseIndex(table) ==
  [l \in Leases |-> IF \E e \in LiveIn(table) : table[e].lease = l
                    THEN CHOOSE e \in LiveIn(table) : table[e].lease = l
                    ELSE 0]

(* A plausible mistake: the numbers begin anew.                            *)
NumberedAnew(table) == 0

NextNumber(table) ==
  IF LiveIn(table) = {} THEN 0
  ELSE LET highest == CHOOSE e \in LiveIn(table) :
                        \A f \in LiveIn(table) : table[f].seq <= table[e].seq
       IN  table[highest].seq + 1

Load(table) ==
  /\ mem' = Loaded(table)
  /\ byScope' = ScopeIndex(table) /\ byLease' = LeaseIndex(table)
  /\ next' = NextNumber(table)

Init ==
  /\ rows = NoRows /\ tx = NoRows /\ open = "no"
  /\ mem = NoRows
  /\ byScope = [s \in Scopes |-> 0] /\ byLease = [l \in Leases |-> 0]
  /\ next = 0 /\ made = 0 /\ issued = 0
  /\ board = "down" /\ clock = 0 /\ crashes = 0 /\ failures = 0

-----------------------------------------------------------------------------
(* Transactions.                                                           *)

(* An operation begins its transaction, or goes on in the one it has.      *)
Within(kind) ==
  /\ open \in {"no", kind} /\ open' = kind
Alone == open = "no" /\ open' = "single"

Commit ==
  /\ open # "no" /\ open' = "no"
  /\ rows' = tx
  /\ board' = IF open = "recovery" THEN "up" ELSE board
  /\ UNCHANGED <<tx, memory, made, issued, clock, crashes, failures>>

(* A plausible mistake: what was remembered stays when it is rolled back.  *)
KeepMemory == UNCHANGED memory

(* _reset_scheduler_after_rollback.                                        *)
Reset == Load(rows)

(* The database is locked, or a later part of the operation raises.        *)
Rollback ==
  /\ failures < MaxFailures /\ failures' = failures + 1
  /\ board = "up" /\ open' = "no" /\ tx' = rows /\ Reset
  /\ UNCHANGED <<rows, made, issued, board, clock, crashes>>

Crash ==
  /\ crashes < MaxCrashes /\ crashes' = crashes + 1
  /\ board # "down" /\ board' = "down" /\ open' = "no" /\ tx' = rows
  /\ mem' = NoRows /\ byScope' = [s \in Scopes |-> 0]
  /\ byLease' = [l \in Leases |-> 0] /\ next' = 0
  /\ UNCHANGED <<rows, made, issued, clock, failures>>

Start ==
  /\ board = "down" /\ board' = "starting" /\ Load(rows)
  /\ UNCHANGED <<rows, tx, open, made, issued, clock, crashes, failures>>

-----------------------------------------------------------------------------
(* The Scheduler's operations.                                             *)

(* insert_execution and update_execution, under the row's version.         *)
Persist(e, row) == tx[e] = mem[e] /\ tx' = [tx EXCEPT ![e] = row]

Remember(e, row) ==
  /\ mem' = [mem EXCEPT ![e] = row]
  /\ byScope' = [byScope EXCEPT ![row.scope] = e]

LiveInMemory(s) == byScope[s] # 0 /\ mem[byScope[s]].state \in Live

ScheduleExecution(s) ==
  LET e == made + 1
      row == [state |-> "ready", scope |-> s, due |-> 0, seq |-> next, lease |-> 0]
  IN  /\ board = "up" /\ Within("submit")
      /\ ~LiveInMemory(s) /\ made < MaxExecs
      /\ made' = e /\ next' = next + 1
      /\ Persist(e, row) /\ Remember(e, row)
      /\ UNCHANGED <<rows, byLease, issued, board, clock, crashes, failures>>

Ready(kind) == {e \in Execs : /\ mem[e].state = "ready" /\ mem[e].due <= clock
                              /\ KindOf[mem[e].scope] = kind}

Sooner(f, e) ==
  \/ PriorityOf[mem[f].scope] < PriorityOf[mem[e].scope]
  \/ /\ PriorityOf[mem[f].scope] = PriorityOf[mem[e].scope]
     /\ mem[f].seq < mem[e].seq

LeaseNext(e) ==
  LET l == issued + 1
      row == [mem[e] EXCEPT !.state = "leased", !.lease = l]
  IN  /\ board = "up" /\ Alone /\ issued < MaxLeases
      /\ e \in Ready(KindOf[mem[e].scope])
      /\ \A f \in Ready(KindOf[mem[e].scope]) : ~Sooner(f, e)
      /\ issued' = l
      /\ Persist(e, row) /\ Remember(e, row)
      /\ byLease' = [byLease EXCEPT ![l] = e]
      /\ UNCHANGED <<rows, next, made, board, clock, crashes, failures>>

Forget(l) == byLease' = [byLease EXCEPT ![l] = 0]

Finished(row) == [row EXCEPT !.state = "finished", !.lease = 0]
Returned(row, later) ==
  [row EXCEPT !.state = "ready", !.due = clock + later, !.lease = 0]

Finish(l) ==
  LET e == byLease[l]
      row == Finished(mem[e])
  IN  /\ board = "up" /\ Alone /\ e # 0
      /\ Persist(e, row) /\ Remember(e, row) /\ Forget(l)
      /\ UNCHANGED <<rows, next, made, issued, board, clock, crashes, failures>>

Release(l, later) ==
  LET e == byLease[l]
      row == Returned(mem[e], later)
  IN  /\ board = "up" /\ Alone /\ e # 0
      /\ Persist(e, row) /\ Remember(e, row) /\ Forget(l)
      /\ UNCHANGED <<rows, next, made, issued, board, clock, crashes, failures>>

CancelMember(e) ==
  LET row == Finished(mem[e])
  IN  /\ board = "up" /\ Alone /\ mem[e].state = "ready"
      /\ Persist(e, row) /\ Remember(e, row)
      /\ UNCHANGED <<rows, byLease, next, made, issued, board, clock, crashes,
                     failures>>

(* recover: in one transaction the leases of the dead process are settled, *)
(* finished when the attempt may have been submitted, else given back.     *)
Recover(S) ==
  LET leased == {e \in Execs : mem[e].state = "leased"}
      settled == [e \in Execs |-> IF e \in S THEN Finished(mem[e])
                                  ELSE IF e \in leased THEN Returned(mem[e], 0)
                                  ELSE mem[e]]
  IN  /\ board = "starting" /\ open = "no" /\ open' = "recovery"
      /\ S \subseteq leased /\ \A e \in leased : tx[e] = mem[e]
      /\ tx' = [e \in Execs |-> IF e \in leased THEN settled[e] ELSE tx[e]]
      /\ mem' = settled /\ byLease' = [l \in Leases |-> 0]
      /\ UNCHANGED <<rows, byScope, next, made, issued, board, clock, crashes,
                     failures>>

(* An operation has one time, the one it read when it began.               *)
Elapse ==
  /\ open = "no" /\ clock < MaxClock /\ clock' = clock + 1
  /\ UNCHANGED <<rows, tx, open, memory, made, issued, board, crashes, failures>>

Next ==
  \/ Commit \/ Rollback \/ Crash \/ Start \/ Elapse
  \/ \E s \in Scopes : ScheduleExecution(s)
  \/ \E e \in Execs : LeaseNext(e) \/ CancelMember(e)
  \/ \E l \in Leases : Finish(l) \/ \E later \in {0, 1} : Release(l, later)
  \/ \E S \in SUBSET Execs : Recover(S)

Spec == Init /\ [][Next]_vars

-----------------------------------------------------------------------------
(* Properties.                                                             *)

(* Every table holds rows, every index an execution, every counter stays   *)
(* within its bound.                                                       *)
ScheduleTypeOK ==
  /\ rows \in [Execs -> Row] /\ tx \in [Execs -> Row] /\ mem \in [Execs -> Row]
  /\ open \in {"no", "submit", "single", "recovery"}
  /\ byScope \in [Scopes -> 0 .. MaxExecs] /\ byLease \in [Leases -> 0 .. MaxExecs]
  /\ next \in Nat /\ made \in 0 .. MaxExecs /\ issued \in 0 .. MaxLeases
  /\ board \in {"down", "starting", "up"}
  /\ clock \in 0 .. MaxClock /\ crashes \in Nat /\ failures \in Nat

(* Between two operations of a board that is up, memory says of every live *)
(* execution what the ledger says, finds the live execution of every scope *)
(* and knows exactly the leases that are in force, whatever was rolled     *)
(* back before and wherever the board died (_coordinated_transaction).     *)
CacheIsLedger ==
  board = "up" /\ open = "no" =>
    /\ Loaded(mem) = Loaded(rows)
    /\ byLease = LeaseIndex(rows)
    /\ \A e \in LiveIn(rows) : byScope[rows[e].scope] = e

(* The two tables, their transactions and the repairs after a failure are  *)
(* together one table of executions: no half of a plan, one live execution *)
(* for a scope, and service in the order of scheduling also after a start  *)
(* (Scheduler's numbers are given from memory, runtime.py:100-112).        *)
Contract == INSTANCE ScheduleContract WITH
  rows <- [e \in Execs |-> [state |-> rows[e].state, scope |-> rows[e].scope,
                            due |-> rows[e].due]]

ImplementsSchedule == Contract!Spec
=============================================================================
