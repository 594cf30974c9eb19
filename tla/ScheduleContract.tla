-------------------------- MODULE ScheduleContract --------------------------
(***************************************************************************)
(* What the lifecycle runtime relies on when it keeps its executions in    *)
(* the Scheduler (scheduler.py) over SQLite: one table that is never half  *)
(* changed, at most one live execution per scope, the oldest of the most   *)
(* urgent served first, and a lease that lasts until it is settled.  There *)
(* is no cache, no transaction and no failure here: an execution is known  *)
(* by the order in which it was scheduled.                                 *)
(***************************************************************************)
EXTENDS Naturals

CONSTANTS Scopes,
          KindOf,      \* scope -> kind of work
          PriorityOf,  \* scope -> priority, the smallest first
          MaxExecs     \* bound on the executions ever scheduled

VARIABLES rows,  \* execution -> [state, scope, due]
          clock

vars == <<rows, clock>>

Execs == 1 .. MaxExecs
Live == {"ready", "leased"}

Init == rows \in [Execs -> {[state |-> "none", scope |-> s, due |-> 0] : s \in Scopes}]
        /\ clock = 0

IsLive(e) == rows[e].state \in Live
Others(S) == \A e \in Execs \ S : rows'[e] = rows[e]
Same(e) == rows'[e].scope = rows[e].scope

(* A plan: new executions, later than all before, in scopes of their own.  *)
Submit(S) ==
  /\ \A e \in S : /\ rows[e].state = "none" /\ rows'[e].state = "ready"
                  /\ rows'[e].due = 0
                  /\ \A f \in Execs : rows[f].state # "none" => f < e
                  /\ \A f \in Execs \ {e} :
                        rows'[f].state \in Live => rows'[f].scope # rows'[e].scope
  /\ Others(S)

Waits(e) == rows[e].state = "ready" /\ rows[e].due <= clock

Before(f, e) ==
  LET p == PriorityOf[rows[f].scope]
      q == PriorityOf[rows[e].scope]
  IN  p < q \/ (p = q /\ f < e)

Lease(e) ==
  /\ Waits(e)
  /\ \A f \in Execs :
        Waits(f) /\ KindOf[rows[f].scope] = KindOf[rows[e].scope] => ~Before(f, e)
  /\ rows'[e].state = "leased" /\ rows'[e].due = rows[e].due /\ Same(e)
  /\ Others({e})

(* Finished for good, or given back until a later time.                    *)
Settle(S) ==
  /\ \A e \in S : /\ rows[e].state = "leased" /\ Same(e)
                  /\ rows'[e].state \in {"finished", "ready"}
                  /\ rows'[e].state = "ready" => rows'[e].due >= clock
  /\ Others(S)

Cancel(e) ==
  /\ rows[e].state = "ready" /\ rows'[e].state = "finished" /\ Same(e)
  /\ Others({e})

Elapse == clock' = clock + 1 /\ UNCHANGED rows

Next == \/ Elapse
        \/ /\ UNCHANGED clock
           /\ \/ \E S \in SUBSET Execs : Submit(S) \/ Settle(S)
              \/ \E e \in Execs : Lease(e) \/ Cancel(e)

Spec == Init /\ [][Next]_vars
=============================================================================
