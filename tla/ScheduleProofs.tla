--------------------------- MODULE ScheduleProofs ---------------------------
(***************************************************************************)
(* The schedule in memory and in the ledger, for any scopes, kinds,        *)
(* priorities and bounds: types, a memory that agrees with the ledger      *)
(* between operations, and the refinement of the one table.                *)
(*                                                                         *)
(* The inductive invariant says that both tables are well formed (Sound),  *)
(* that memory follows the connection's view, not the committed one        *)
(* (InStep), and which one step of the contract the open transaction will  *)
(* be when it is committed (Pending).                                      *)
(***************************************************************************)
EXTENDS Schedule, WellFoundedInduction, TLAPS

(* Executions are known to exist, leases are in force for one execution,   *)
(* scopes have one live execution, and numbers grow with the identities.   *)
Sound(t) ==
  /\ \A e \in Execs : t[e].state # "none" => e <= made
  /\ \A e \in Execs : t[e].state = "leased" => t[e].lease \in 1 .. issued
  /\ \A e \in Execs : t[e].state = "ready" => t[e].lease = 0
  /\ \A e, f \in LiveIn(t) : t[e].scope = t[f].scope => e = f
  /\ \A e, f \in LiveIn(t) : t[e].lease = t[f].lease /\ t[e].lease # 0 => e = f
  /\ \A e, f \in LiveIn(t) : e < f => t[e].seq < t[f].seq

RowsInStep == \A e \in Execs : e \in LiveIn(mem) \cup LiveIn(tx) => mem[e] = tx[e]
LeasesInStep ==
  /\ \A l \in Leases : byLease[l] # 0 =>
        byLease[l] \in LiveIn(tx) /\ tx[byLease[l]].lease = l
  /\ \A e \in LiveIn(tx) : tx[e].lease # 0 => byLease[tx[e].lease] = e
ScopesInStep == \A e \in LiveIn(tx) : byScope[tx[e].scope] = e
NumbersInStep == \A e \in LiveIn(tx) : tx[e].seq < next

InStep == RowsInStep /\ LeasesInStep /\ ScopesInStep /\ NumbersInStep

-----------------------------------------------------------------------------
(* From one table to another, as the contract sees it.                     *)

Unchanged(S, t, u) == \A e \in Execs \ S : u[e] = t[e]

Planned(t, u) ==
  \A e \in Execs : u[e] # t[e] =>
    /\ t[e].state = "none" /\ u[e].state = "ready" /\ u[e].due = 0
    /\ \A f \in Execs : t[f].state # "none" => f < e

Waiting(t, e) == t[e].state = "ready" /\ t[e].due <= clock

Earlier(t, f, e) ==
  LET p == PriorityOf[t[f].scope]
      q == PriorityOf[t[e].scope]
  IN  p < q \/ (p = q /\ f < e)

LeasedOne(t, u, e) ==
  /\ Waiting(t, e)
  /\ \A f \in Execs : Waiting(t, f) /\ KindOf[t[f].scope] = KindOf[t[e].scope]
                        => ~Earlier(t, f, e)
  /\ u[e].state = "leased" /\ u[e].due = t[e].due /\ u[e].scope = t[e].scope
  /\ Unchanged({e}, t, u)

SettledAll(t, u, S) ==
  /\ \A e \in S : /\ t[e].state = "leased" /\ u[e].scope = t[e].scope
                  /\ u[e].state \in {"finished", "ready"}
                  /\ u[e].state = "ready" => u[e].due >= clock
  /\ Unchanged(S, t, u)

CancelledOne(t, u, e) ==
  /\ t[e].state = "ready" /\ u[e].state = "finished" /\ u[e].scope = t[e].scope
  /\ Unchanged({e}, t, u)

Pending ==
  /\ open = "no" => tx = rows
  /\ open = "submit" => board = "up" /\ Planned(rows, tx)
  /\ open = "single" =>
       /\ board = "up"
       /\ \E e \in Execs : \/ LeasedOne(rows, tx, e) \/ SettledAll(rows, tx, {e})
                           \/ CancelledOne(rows, tx, e)
  /\ open = "recovery" =>
       board = "starting" /\ \E S \in SUBSET Execs : SettledAll(rows, tx, S)

Inv ==
  /\ ScheduleTypeOK /\ Sound(rows) /\ Sound(tx)
  /\ board # "down" => InStep
  /\ Pending

-----------------------------------------------------------------------------
(* Numbers.                                                                *)

Less == {p \in Nat \X Nat : p[1] < p[2]}

LEMMA LessIsWellFounded == IsWellFoundedOn(Less, Nat)
BY NatLessThanWellFounded DEF OpToRel, Less

LEMMA LeastOf ==
  ASSUME NEW S \in SUBSET Nat, S # {}
  PROVE  \E m \in S : \A k \in S : m <= k
<1>1. PICK m \in S : \A k \in S : <<k, m>> \notin Less
  BY LessIsWellFounded, WFMin
<1>2. ASSUME NEW k \in S PROVE m <= k
  <2>1. k \in Nat /\ m \in Nat
    OBVIOUS
  <2>2. k < m => <<k, m>> \in Less
    BY <2>1 DEF Less
  <2>3. QED
    BY <1>1, <2>1, <2>2
<1>3. QED
  BY <1>2

LEMMA GreatestOf ==
  ASSUME NEW n \in Nat, NEW S \in SUBSET (1 .. n), S # {}
  PROVE  \E m \in S : \A k \in S : k <= m
<1> DEFINE Down == {d \in Nat : \E k \in S : d = n - k}
<1>1. \A k \in S : k \in Int /\ 1 <= k /\ k <= n /\ n - k \in Nat
  OBVIOUS
<1>2. Down \in SUBSET Nat /\ Down # {}
  BY <1>1
<1>3. \E d \in Down : \A x \in Down : d <= x
  <2> HIDE DEF Down
  <2> QED BY <1>2, LeastOf
<1>4. PICK d \in Down : \A x \in Down : d <= x
  BY <1>3
<1>5. PICK m \in S : d = n - m
  BY <1>4
<1>6. ASSUME NEW k \in S PROVE k <= m
  <2>1. n - k \in Down
    BY <1>1
  <2>2. d <= n - k
    BY <1>4, <2>1
  <2>3. QED
    BY <1>1, <1>5, <2>2
<1>7. QED
  BY <1>6

LEMMA NoRowTyped ==
  NoRow \in Row /\ NoRow.state = "none"
<1>1. (CHOOSE s \in Scopes : TRUE) \in Scopes
  BY ScheduleAssumption
<1>2. QED
  BY <1>1, ScheduleAssumption DEF NoRow, Row, States

(* The numbers go on after those of the live executions: the highest is    *)
(* that of the youngest, so there is one.                                  *)
LEMMA NumbersGoOn ==
  ASSUME NEW t \in [Execs -> Row], Sound(t)
  PROVE  /\ NextNumber(t) \in Nat
         /\ \A e \in LiveIn(t) : t[e].seq < NextNumber(t)
<1>0. \A e \in Execs : t[e].seq \in Nat
  BY DEF Row
<1>1. CASE LiveIn(t) = {}
  BY <1>1 DEF NextNumber
<1>2. CASE LiveIn(t) # {}
  <2>1. LiveIn(t) \in SUBSET (1 .. MaxExecs)
    BY DEF LiveIn, Execs
  <2>2. PICK m \in LiveIn(t) : \A k \in LiveIn(t) : k <= m
    BY <1>2, <2>1, GreatestOf, ScheduleAssumption
  <2>3. ASSUME NEW f \in LiveIn(t) PROVE t[f].seq <= t[m].seq
    <3>1. f \in Execs /\ m \in Execs /\ f \in Nat /\ m \in Nat /\ f <= m
      BY <2>2 DEF LiveIn, Execs
    <3>2. CASE f = m
      BY <1>0, <3>1, <3>2
    <3>3. CASE f < m
      BY <1>0, <3>1, <3>3 DEF Sound
    <3>4. QED
      BY <3>1, <3>2, <3>3
  <2> DEFINE h == CHOOSE e \in LiveIn(t) : \A f \in LiveIn(t) : t[f].seq <= t[e].seq
  <2>4. h \in LiveIn(t) /\ \A f \in LiveIn(t) : t[f].seq <= t[h].seq
    BY <2>3
  <2>5. NextNumber(t) = t[h].seq + 1
    BY <1>2 DEF NextNumber
  <2>6. LiveIn(t) \subseteq Execs
    BY DEF LiveIn
  <2> HIDE DEF h
  <2>7. QED
    BY <1>0, <2>4, <2>5, <2>6
<1>3. QED
  BY <1>1, <1>2

LEMMA LoadedTyped ==
  ASSUME NEW t \in [Execs -> Row]
  PROVE  /\ Loaded(t) \in [Execs -> Row]
         /\ ScopeIndex(t) \in [Scopes -> 0 .. MaxExecs]
         /\ LeaseIndex(t) \in [Leases -> 0 .. MaxExecs]
<1>1. LiveIn(t) \subseteq 0 .. MaxExecs /\ 0 \in 0 .. MaxExecs
  BY ScheduleAssumption DEF LiveIn, Execs
<1>2. Loaded(t) \in [Execs -> Row]
  BY NoRowTyped DEF Loaded
<1>3. ASSUME NEW s \in Scopes PROVE ScopeIndex(t)[s] \in 0 .. MaxExecs
  BY <1>1 DEF ScopeIndex
<1>4. ASSUME NEW l \in Leases PROVE LeaseIndex(t)[l] \in 0 .. MaxExecs
  BY <1>1 DEF LeaseIndex
<1>5. QED
  BY <1>2, <1>3, <1>4 DEF ScopeIndex, LeaseIndex

(* A memory built from the rows is in step with them.                      *)
LEMMA LoadIsInStep ==
  ASSUME ScheduleTypeOK, Sound(rows), Load(rows), tx' = rows
  PROVE  /\ InStep'
         /\ mem' \in [Execs -> Row] /\ next' \in Nat
         /\ byScope' \in [Scopes -> 0 .. MaxExecs]
         /\ byLease' \in [Leases -> 0 .. MaxExecs]
<1>1. rows \in [Execs -> Row]
  BY DEF ScheduleTypeOK
<1>2. /\ mem' = Loaded(rows) /\ byScope' = ScopeIndex(rows)
      /\ byLease' = LeaseIndex(rows) /\ next' = NextNumber(rows)
  BY DEF Load
<1>3. RowsInStep'
  <2>1. LiveIn(mem') = LiveIn(rows)
    BY <1>2, NoRowTyped DEF LiveIn, Loaded, Live
  <2>2. QED
    BY <1>2, <2>1 DEF RowsInStep, Loaded, LiveIn
<1>4. LeasesInStep'
  <2>1. ASSUME NEW l \in Leases, byLease'[l] # 0
        PROVE  byLease'[l] \in LiveIn(rows) /\ rows[byLease'[l]].lease = l
    BY <1>2, <2>1 DEF LeaseIndex
  <2>2. ASSUME NEW e \in LiveIn(rows), rows[e].lease # 0
        PROVE  byLease'[rows[e].lease] = e
    <3>1. e \in Execs /\ rows[e].lease \in Leases
      BY <1>1, <2>2, ScheduleAssumption DEF LiveIn, Leases, Row
    <3>2. PICK f \in LiveIn(rows) : /\ byLease'[rows[e].lease] = f
                                    /\ rows[f].lease = rows[e].lease
      BY <1>2, <3>1 DEF LeaseIndex
    <3>3. QED
      BY <2>2, <3>2 DEF Sound
  <2>3. QED
    BY <2>1, <2>2 DEF LeasesInStep, LiveIn
<1>5. ScopesInStep'
  <2>1. ASSUME NEW e \in LiveIn(rows) PROVE byScope'[rows[e].scope] = e
    <3>1. e \in Execs /\ rows[e].scope \in Scopes
      BY <1>1 DEF LiveIn, Row
    <3>2. PICK f \in LiveIn(rows) : /\ byScope'[rows[e].scope] = f
                                    /\ rows[f].scope = rows[e].scope
      BY <1>2, <3>1 DEF ScopeIndex
    <3>3. QED
      BY <3>2 DEF Sound
  <2>2. QED
    BY <2>1 DEF ScopesInStep, LiveIn
<1>6. NumbersInStep'
  BY <1>1, <1>2, NumbersGoOn DEF NumbersInStep, LiveIn
<1>7. QED
  BY <1>1, <1>2, <1>3, <1>4, <1>5, <1>6, LoadedTyped, NumbersGoOn DEF InStep

THEOREM InitInv == Init => Inv
<1> SUFFICES ASSUME Init PROVE Inv
  OBVIOUS
<1>1. NoRows \in [Execs -> Row] /\ \A e \in Execs : NoRows[e].state = "none"
  BY NoRowTyped DEF NoRows
<1>2. ScheduleTypeOK
  BY <1>1, ScheduleAssumption DEF Init, ScheduleTypeOK, Leases
<1>3. Sound(rows) /\ Sound(tx)
  BY <1>1 DEF Init, Sound, LiveIn, Live
<1>4. Pending
  BY DEF Init, Pending
<1>5. QED
  BY <1>2, <1>3, <1>4 DEF Init, Inv

-----------------------------------------------------------------------------
(* What a write leaves.                                                    *)

LEMMA LiveRow ==
  ASSUME Inv, board # "down", NEW e \in Execs, mem[e].state \in Live
  PROVE  /\ e \in LiveIn(tx) /\ mem[e] = tx[e] /\ mem[e] \in Row
         /\ mem[e].state = "leased" => mem[e].lease \in 1 .. issued
         /\ mem[e].state = "ready" => mem[e].lease = 0
<1>1. e \in LiveIn(mem)
  BY DEF LiveIn
<1>2. mem[e] = tx[e]
  BY <1>1 DEF Inv, InStep, RowsInStep
<1>3. mem[e] \in Row
  BY DEF Inv, ScheduleTypeOK
<1>4. QED
  BY <1>2, <1>3 DEF LiveIn, Inv, Sound

LEMMA LeasedRow ==
  ASSUME Inv, board # "down", NEW l \in Leases, byLease[l] # 0
  PROVE  /\ byLease[l] \in Execs /\ byLease[l] \in LiveIn(tx)
         /\ tx[byLease[l]].state = "leased" /\ tx[byLease[l]].lease = l
         /\ mem[byLease[l]] = tx[byLease[l]]
<1>1. byLease[l] \in LiveIn(tx) /\ tx[byLease[l]].lease = l
  BY DEF Inv, InStep, LeasesInStep
<1>2. byLease[l] \in Execs /\ l # 0
  BY <1>1 DEF LiveIn, Leases
<1>3. tx[byLease[l]].state = "leased"
  BY <1>1, <1>2 DEF LiveIn, Live, Inv, Sound
<1>4. QED
  BY <1>1, <1>2, <1>3 DEF Inv, InStep, RowsInStep

(* An execution that is live is finished or given back, and its lease is   *)
(* forgotten.                                                              *)
LEMMA OneSettled ==
  ASSUME Inv, board # "down",
         NEW e \in LiveIn(tx), NEW row \in Row,
         row.state \in {"ready", "finished"}, row.lease = 0,
         row.scope = tx[e].scope, row.seq = tx[e].seq,
         Persist(e, row), Remember(e, row),
         byLease' = [l \in Leases |-> IF l = tx[e].lease THEN 0 ELSE byLease[l]],
         UNCHANGED <<next, made, issued, rows>>
  PROVE  /\ Sound(tx)' /\ InStep'
         /\ tx' \in [Execs -> Row] /\ mem' \in [Execs -> Row]
         /\ byScope' \in [Scopes -> 0 .. MaxExecs]
         /\ byLease' \in [Leases -> 0 .. MaxExecs]
<1>1. /\ e \in Execs /\ tx \in [Execs -> Row] /\ mem \in [Execs -> Row]
      /\ byScope \in [Scopes -> 0 .. MaxExecs] /\ byLease \in [Leases -> 0 .. MaxExecs]
  BY DEF Inv, ScheduleTypeOK, LiveIn
<1>0. PICK u : u = tx'
  OBVIOUS
<1>2. /\ u = [tx EXCEPT ![e] = row] /\ mem' = [mem EXCEPT ![e] = row]
      /\ byScope' = [byScope EXCEPT ![row.scope] = e]
  BY <1>0 DEF Persist, Remember
<1>3. /\ u \in [Execs -> Row] /\ mem' \in [Execs -> Row]
      /\ u[e] = row /\ mem'[e] = row
      /\ \A f \in Execs : f # e => u[f] = tx[f] /\ mem'[f] = mem[f]
  BY <1>1, <1>2
<1>4. row.scope \in Scopes /\ e \in 0 .. MaxExecs
  BY <1>1, ScheduleAssumption DEF Row, Execs
<1>5. \A f \in Execs : f \in LiveIn(u) => /\ f \in LiveIn(tx)
                                          /\ u[f].scope = tx[f].scope
                                          /\ u[f].seq = tx[f].seq
                                          /\ u[f].lease # 0 => f # e /\ u[f] = tx[f]
  BY <1>3 DEF LiveIn
<1>6. Sound(tx)'
  <2>1. Sound(tx)
    BY DEF Inv
  <2>2. tx[e].state # "none" => e <= made
    BY <1>1, <2>1 DEF Sound
  <2>3. \A f \in Execs : u[f].state # "none" => f <= made
    BY <1>3, <2>1, <2>2 DEF Sound, LiveIn, Live
  <2>4. \A f \in Execs : u[f].state = "leased" => u[f].lease \in 1 .. issued
    BY <1>3, <2>1 DEF Sound
  <2>5. \A f \in Execs : u[f].state = "ready" => u[f].lease = 0
    BY <1>3, <2>1 DEF Sound
  <2>6. \A f, g \in LiveIn(u) : u[f].scope = u[g].scope => f = g
    BY <1>5, <2>1 DEF Sound, LiveIn
  <2>7. \A f, g \in LiveIn(u) : u[f].lease = u[g].lease /\ u[f].lease # 0 => f = g
    BY <1>5, <2>1 DEF Sound, LiveIn
  <2>8. \A f, g \in LiveIn(u) : f < g => u[f].seq < u[g].seq
    BY <1>5, <2>1 DEF Sound, LiveIn
  <2>9. Sound(u)
    BY <2>3, <2>4, <2>5, <2>6, <2>7, <2>8 DEF Sound
  <2>10. QED
    BY <1>0, <2>9 DEF Sound, LiveIn
<1>7. InStep
  BY DEF Inv
<1>8. RowsInStep'
  <2>1. ASSUME NEW f \in Execs, f \in LiveIn(mem') \cup LiveIn(u) PROVE mem'[f] = u[f]
    <3>1. CASE f = e
      BY <1>3, <3>1
    <3>2. CASE f # e
      BY <1>3, <1>7, <2>1, <3>2 DEF InStep, RowsInStep, LiveIn
    <3>3. QED
      BY <3>1, <3>2
  <2>2. QED
    BY <1>0, <2>1 DEF RowsInStep, LiveIn
<1>9. LeasesInStep'
  <2>1. ASSUME NEW l \in Leases, byLease'[l] # 0
        PROVE  byLease'[l] \in LiveIn(u) /\ u[byLease'[l]].lease = l
    <3>1. byLease'[l] = byLease[l] /\ l # tx[e].lease
      BY <2>1
    <3>2. byLease[l] \in LiveIn(tx) /\ tx[byLease[l]].lease = l
      BY <1>7, <2>1, <3>1 DEF InStep, LeasesInStep
    <3>3. byLease[l] # e /\ byLease[l] \in Execs
      BY <3>1, <3>2 DEF LiveIn
    <3>4. QED
      BY <1>3, <3>1, <3>2, <3>3 DEF LiveIn
  <2>2. ASSUME NEW f \in LiveIn(u), u[f].lease # 0 PROVE byLease'[u[f].lease] = f
    <3>1. f \in Execs
      BY DEF LiveIn
    <3>2. f # e /\ u[f] = tx[f] /\ f \in LiveIn(tx)
      BY <1>5, <2>2, <3>1 DEF LiveIn
    <3>3. byLease[tx[f].lease] = f
      BY <1>7, <2>2, <3>2 DEF InStep, LeasesInStep
    <3>4. tx[f].lease \in Leases
      <4>1. tx[f] \in Row /\ tx[f].lease # 0
        BY <1>1, <2>2, <3>1, <3>2
      <4>2. QED
        BY <4>1, ScheduleAssumption DEF Row, Leases
    <3>5. tx[f].lease # tx[e].lease
      BY <2>2, <3>2 DEF Inv, Sound
    <3>6. QED
      BY <3>2, <3>3, <3>4, <3>5
  <2>3. QED
    BY <1>0, <2>1, <2>2 DEF LeasesInStep, LiveIn
<1>10. ScopesInStep'
  <2>1. ASSUME NEW f \in LiveIn(u) PROVE byScope'[u[f].scope] = f
    <3>1. f \in Execs
      BY DEF LiveIn
    <3>2. f \in LiveIn(tx) /\ u[f].scope = tx[f].scope
      BY <1>5, <3>1 DEF LiveIn
    <3>3. byScope[tx[f].scope] = f /\ tx[f].scope \in Scopes
      BY <1>1, <1>7, <3>1, <3>2 DEF InStep, ScopesInStep, Row
    <3>4. CASE tx[f].scope = row.scope
      <4>1. f = e
        BY <3>2, <3>4 DEF Inv, Sound
      <4>2. QED
        BY <1>1, <1>2, <1>4, <3>2, <3>4, <4>1
    <3>5. CASE tx[f].scope # row.scope
      BY <1>1, <1>2, <3>2, <3>3, <3>5
    <3>6. QED
      BY <3>4, <3>5
  <2>2. QED
    BY <1>0, <2>1 DEF ScopesInStep, LiveIn
<1>11. NumbersInStep'
  <2>1. \A f \in LiveIn(u) : u[f].seq < next'
    BY <1>5, <1>7 DEF InStep, NumbersInStep, LiveIn
  <2>2. QED
    BY <1>0, <2>1 DEF NumbersInStep, LiveIn
<1>12. /\ byScope' \in [Scopes -> 0 .. MaxExecs]
       /\ byLease' \in [Leases -> 0 .. MaxExecs]
  <2>1. byScope' \in [Scopes -> 0 .. MaxExecs]
    BY <1>1, <1>2, <1>4
  <2>2. ASSUME NEW l \in Leases
        PROVE  (IF l = tx[e].lease THEN 0 ELSE byLease[l]) \in 0 .. MaxExecs
    BY <1>1, ScheduleAssumption
  <2>3. QED
    BY <2>1, <2>2
<1>13. QED
  BY <1>0, <1>3, <1>6, <1>8, <1>9, <1>10, <1>11, <1>12 DEF InStep

(* A new execution, in a scope in which memory knows no live one.          *)
LEMMA OneScheduled ==
  ASSUME Inv, NEW s \in Scopes, ScheduleExecution(s)
  PROVE  /\ Sound(tx)' /\ InStep'
         /\ tx' \in [Execs -> Row] /\ mem' \in [Execs -> Row]
         /\ byScope' \in [Scopes -> 0 .. MaxExecs]
         /\ Planned(rows, tx)'
<1> PICK u : u = tx'
  OBVIOUS
<1> PICK e : e = made + 1
  OBVIOUS
<1> PICK row : row = [state |-> "ready", scope |-> s, due |-> 0, seq |-> next, lease |-> 0]
  OBVIOUS
<1>1. /\ made \in 0 .. MaxExecs /\ next \in Nat /\ issued \in 0 .. MaxLeases
      /\ tx \in [Execs -> Row] /\ mem \in [Execs -> Row] /\ rows \in [Execs -> Row]
      /\ byScope \in [Scopes -> 0 .. MaxExecs]
  BY DEF Inv, ScheduleTypeOK
<1>2. /\ board = "up" /\ open \in {"no", "submit"} /\ made < MaxExecs
      /\ made' = e /\ next' = next + 1 /\ ~LiveInMemory(s)
      /\ u = [tx EXCEPT ![e] = row] /\ mem' = [mem EXCEPT ![e] = row]
      /\ byScope' = [byScope EXCEPT ![s] = e]
      /\ byLease' = byLease /\ issued' = issued /\ rows' = rows
  BY DEF ScheduleExecution, Within, Persist, Remember
<1>3. e \in Execs /\ e \in 0 .. MaxExecs /\ e > made /\ e \in Nat
  BY <1>1, <1>2, ScheduleAssumption DEF Execs
<1>4. row \in Row /\ row.state = "ready" /\ row.scope = s /\ row.due = 0
      /\ row.seq = next /\ row.lease = 0
  BY <1>1, ScheduleAssumption DEF Row, States
<1>5. /\ u \in [Execs -> Row] /\ mem' \in [Execs -> Row]
      /\ u[e] = row /\ mem'[e] = row
      /\ \A f \in Execs : f # e => u[f] = tx[f] /\ mem'[f] = mem[f]
  BY <1>1, <1>2, <1>3, <1>4
<1>6. \A f \in Execs : f <= made \/ (tx[f].state = "none" /\ rows[f].state = "none")
  BY DEF Inv, Sound
<1>7. InStep /\ Sound(tx)
  BY <1>2 DEF Inv
<1>8. \A f \in Execs : f \in LiveIn(u) =>
        f = e \/ (f # e /\ f < e /\ f \in LiveIn(tx) /\ u[f] = tx[f])
  <2>1. ASSUME NEW f \in Execs, f # e, f \in LiveIn(u)
        PROVE  f < e /\ f \in LiveIn(tx) /\ u[f] = tx[f]
    <3>1. u[f] = tx[f] /\ f \in LiveIn(tx)
      BY <1>5, <2>1 DEF LiveIn
    <3>2. f <= made
      BY <1>6, <3>1 DEF LiveIn, Live
    <3>3. QED
      BY <1>1, <1>3, <3>1, <3>2 DEF Execs
  <2>2. QED
    BY <2>1
<1>9. \A f \in LiveIn(tx) : tx[f].scope # s
  <2>1. ASSUME NEW f \in LiveIn(tx), tx[f].scope = s PROVE FALSE
    <3>1. f \in Execs /\ byScope[s] = f
      BY <1>7, <2>1 DEF InStep, ScopesInStep, LiveIn
    <3>2. mem[f] = tx[f]
      BY <1>7, <3>1 DEF InStep, RowsInStep
    <3>3. f # 0 /\ mem[f].state \in Live
      BY <3>1, <3>2 DEF LiveIn, Execs
    <3>4. QED
      BY <1>2, <3>1, <3>3 DEF LiveInMemory
  <2>2. QED
    BY <2>1
<1>10. \A f \in LiveIn(tx) : tx[f].seq < next
  BY <1>7 DEF InStep, NumbersInStep
<1>11. Sound(tx)'
  <2>1. \A f \in Execs : u[f].state # "none" => f <= e
    BY <1>1, <1>3, <1>5, <1>6 DEF Execs
  <2>2. \A f \in Execs : u[f].state = "leased" => u[f].lease \in 1 .. issued
    BY <1>4, <1>5, <1>7 DEF Sound
  <2>3. \A f \in Execs : u[f].state = "ready" => u[f].lease = 0
    BY <1>4, <1>5, <1>7 DEF Sound
  <2>4. \A f, g \in LiveIn(u) : u[f].scope = u[g].scope => f = g
    BY <1>4, <1>5, <1>7, <1>8, <1>9 DEF Sound, LiveIn
  <2>5. \A f, g \in LiveIn(u) : u[f].lease = u[g].lease /\ u[f].lease # 0 => f = g
    BY <1>4, <1>5, <1>7, <1>8 DEF Sound, LiveIn
  <2>6. ASSUME NEW f \in LiveIn(u), NEW g \in LiveIn(u), f < g
        PROVE  u[f].seq < u[g].seq
    <3>1. f \in Execs /\ g \in Execs
      BY DEF LiveIn
    <3>2. f # e
      <4>1. g = e \/ g < e
        BY <1>8, <3>1
      <4>2. QED
        BY <1>3, <2>6, <3>1, <4>1 DEF Execs
    <3>3. f \in LiveIn(tx) /\ u[f] = tx[f]
      BY <1>8, <3>1, <3>2
    <3>4. CASE g = e
      BY <1>4, <1>5, <1>10, <3>3, <3>4
    <3>5. CASE g # e
      <4>1. g \in LiveIn(tx) /\ u[g] = tx[g]
        BY <1>8, <3>1, <3>5
      <4>2. QED
        BY <1>7, <2>6, <3>3, <4>1 DEF Sound
    <3>6. QED
      BY <3>4, <3>5
  <2>7. QED
    BY <1>2, <2>1, <2>2, <2>3, <2>4, <2>5, <2>6 DEF Sound, LiveIn
<1>12. RowsInStep'
  <2>1. ASSUME NEW f \in Execs, f \in LiveIn(mem') \cup LiveIn(u) PROVE mem'[f] = u[f]
    <3>1. CASE f = e
      BY <1>5, <3>1
    <3>2. CASE f # e
      BY <1>5, <1>7, <2>1, <3>2 DEF InStep, RowsInStep, LiveIn
    <3>3. QED
      BY <3>1, <3>2
  <2>2. QED
    BY <2>1 DEF RowsInStep, LiveIn
<1>13. LeasesInStep'
  <2>1. ASSUME NEW l \in Leases, byLease'[l] # 0
        PROVE  byLease'[l] \in LiveIn(u) /\ u[byLease'[l]].lease = l
    <3>1. byLease[l] \in LiveIn(tx) /\ tx[byLease[l]].lease = l
      BY <1>2, <1>7, <2>1 DEF InStep, LeasesInStep
    <3>2. byLease[l] \in Execs /\ byLease[l] # e
      <4>1. byLease[l] \in Execs /\ byLease[l] <= made
        BY <1>6, <3>1 DEF LiveIn, Live
      <4>2. QED
        BY <1>1, <1>3, <4>1 DEF Execs
    <3>3. QED
      BY <1>2, <1>5, <3>1, <3>2 DEF LiveIn
  <2>2. ASSUME NEW f \in LiveIn(u), u[f].lease # 0 PROVE byLease'[u[f].lease] = f
    <3>1. f \in Execs
      BY DEF LiveIn
    <3>2. f # e
      BY <1>4, <1>5, <2>2
    <3>3. u[f] = tx[f] /\ f \in LiveIn(tx)
      BY <1>8, <3>1, <3>2
    <3>4. QED
      BY <1>2, <1>7, <2>2, <3>3 DEF InStep, LeasesInStep
  <2>3. QED
    BY <2>1, <2>2 DEF LeasesInStep, LiveIn
<1>14. ScopesInStep'
  <2>1. ASSUME NEW f \in LiveIn(u) PROVE byScope'[u[f].scope] = f
    <3>1. f \in Execs
      BY DEF LiveIn
    <3>2. CASE f = e
      BY <1>1, <1>2, <1>4, <1>5, <3>2
    <3>3. CASE f # e
      <4>1. u[f] = tx[f] /\ f \in LiveIn(tx)
        BY <1>8, <3>1, <3>3
      <4>2. byScope[tx[f].scope] = f /\ tx[f].scope # s
        BY <1>7, <1>9, <4>1 DEF InStep, ScopesInStep
      <4>3. tx[f].scope \in Scopes
        BY <1>1, <3>1 DEF Row
      <4>4. QED
        BY <1>1, <1>2, <4>1, <4>2, <4>3
    <3>4. QED
      BY <3>2, <3>3
  <2>2. QED
    BY <2>1 DEF ScopesInStep, LiveIn
<1>15. NumbersInStep'
  <2>1. ASSUME NEW f \in LiveIn(u) PROVE u[f].seq < next + 1
    <3>1. f \in Execs
      BY DEF LiveIn
    <3>2. CASE f = e
      BY <1>1, <1>4, <1>5, <3>2
    <3>3. CASE f # e
      <4>1. u[f] = tx[f] /\ f \in LiveIn(tx) /\ tx[f].seq \in Nat
        BY <1>1, <1>8, <3>1, <3>3 DEF Row
      <4>2. QED
        BY <1>1, <1>10, <4>1
    <3>4. QED
      BY <3>2, <3>3
  <2>2. QED
    BY <1>2, <2>1 DEF NumbersInStep, LiveIn
<1>16. Planned(rows, tx)'
  <2>1. Planned(rows, tx)
    BY <1>2 DEF Inv, Pending, Planned
  <2>2. ASSUME NEW f \in Execs, u[f] # rows[f]
        PROVE  /\ rows[f].state = "none" /\ u[f].state = "ready" /\ u[f].due = 0
               /\ \A g \in Execs : rows[g].state # "none" => g < f
    <3>1. CASE f = e
      <4>1. rows[e].state = "none"
        BY <1>1, <1>3, <1>6 DEF Execs
      <4>2. \A g \in Execs : rows[g].state # "none" => g < e
        BY <1>1, <1>3, <1>6 DEF Execs
      <4>3. QED
        BY <1>4, <1>5, <3>1, <4>1, <4>2
    <3>2. CASE f # e
      BY <1>5, <2>1, <2>2, <3>2 DEF Planned
    <3>3. QED
      BY <3>1, <3>2
  <2>3. QED
    BY <1>2, <2>2 DEF Planned
<1>17. byScope' \in [Scopes -> 0 .. MaxExecs]
  BY <1>1, <1>2, <1>3
<1>18. QED
  BY <1>5, <1>11, <1>12, <1>13, <1>14, <1>15, <1>16, <1>17 DEF InStep

(* The order of the numbers is that of the identities.                     *)
LEMMA OrderedByNumber ==
  ASSUME Inv, board # "down", open = "no",
         NEW e \in Execs, NEW f \in Execs,
         mem[e].state = "ready", ~Sooner(f, e),
         Waiting(rows, f), Earlier(rows, f, e)
  PROVE  FALSE
<1>1. tx = rows
  BY DEF Inv, Pending
<1>2. e \in LiveIn(tx) /\ mem[e] = tx[e] /\ tx[e] \in Row
  BY LiveRow DEF Live
<1>3. f \in LiveIn(tx)
  BY <1>1 DEF LiveIn, Live, Waiting
<1>4. mem[f] = tx[f] /\ tx[f] \in Row
  BY <1>3 DEF Inv, InStep, RowsInStep, ScheduleTypeOK
<1>5. PICK p, q : p = PriorityOf[tx[f].scope] /\ q = PriorityOf[tx[e].scope]
  OBVIOUS
<1>6. p \in Nat /\ q \in Nat
  BY <1>2, <1>4, <1>5, ScheduleAssumption DEF Row
<1>7. p < q \/ (p = q /\ f < e)
  BY <1>1, <1>5 DEF Earlier
<1>8. ~(p < q) /\ ~(p = q /\ tx[f].seq < tx[e].seq)
  BY <1>2, <1>4, <1>5 DEF Sooner
<1>9. f < e => tx[f].seq < tx[e].seq
  BY <1>2, <1>3 DEF Inv, Sound
<1>10. QED
  BY <1>7, <1>8, <1>9

(* The first of the ready ones is leased under a new lease.                *)
LEMMA OneLeased ==
  ASSUME Inv, NEW e \in Execs, LeaseNext(e)
  PROVE  /\ Sound(tx)' /\ InStep'
         /\ tx' \in [Execs -> Row] /\ mem' \in [Execs -> Row]
         /\ byScope' \in [Scopes -> 0 .. MaxExecs]
         /\ byLease' \in [Leases -> 0 .. MaxExecs]
         /\ LeasedOne(rows, tx, e)'
<1> PICK u : u = tx'
  OBVIOUS
<1> PICK l : l = issued + 1
  OBVIOUS
<1> PICK row : row = [mem[e] EXCEPT !.state = "leased", !.lease = l]
  OBVIOUS
<1>1. /\ made \in 0 .. MaxExecs /\ next \in Nat /\ issued \in 0 .. MaxLeases
      /\ tx \in [Execs -> Row] /\ mem \in [Execs -> Row] /\ rows \in [Execs -> Row]
      /\ byScope \in [Scopes -> 0 .. MaxExecs] /\ byLease \in [Leases -> 0 .. MaxExecs]
  BY DEF Inv, ScheduleTypeOK
<1>2. /\ board = "up" /\ open = "no" /\ issued < MaxLeases
      /\ e \in Ready(KindOf[mem[e].scope])
      /\ \A f \in Ready(KindOf[mem[e].scope]) : ~Sooner(f, e)
      /\ u = [tx EXCEPT ![e] = row] /\ mem' = [mem EXCEPT ![e] = row]
      /\ byScope' = [byScope EXCEPT ![row.scope] = e]
      /\ byLease' = [byLease EXCEPT ![l] = e]
      /\ issued' = l /\ next' = next /\ made' = made /\ rows' = rows /\ clock' = clock
  BY DEF LeaseNext, Alone, Persist, Remember
<1>3. /\ mem[e].state = "ready" /\ mem[e].due <= clock
  BY <1>2 DEF Ready
<1>4. e \in LiveIn(tx) /\ mem[e] = tx[e] /\ tx[e] \in Row /\ tx[e].lease = 0
  BY <1>2, <1>3, LiveRow DEF Live
<1>5. l \in Leases /\ l \in Nat /\ l > issued /\ l \in 0 .. MaxLeases
  BY <1>1, <1>2, ScheduleAssumption DEF Leases
<1>6. /\ row \in Row /\ row.state = "leased" /\ row.lease = l
      /\ row.scope = tx[e].scope /\ row.seq = tx[e].seq /\ row.due = tx[e].due
  BY <1>4, <1>5 DEF Row, States
<1>7. /\ u \in [Execs -> Row] /\ mem' \in [Execs -> Row]
      /\ u[e] = row /\ mem'[e] = row
      /\ \A f \in Execs : f # e => u[f] = tx[f] /\ mem'[f] = mem[f]
  BY <1>1, <1>2, <1>6
<1>8. \A f \in Execs : f \in LiveIn(u) =>
        /\ f \in LiveIn(tx) /\ u[f].scope = tx[f].scope /\ u[f].seq = tx[f].seq
        /\ f # e => u[f] = tx[f]
  BY <1>4, <1>6, <1>7 DEF LiveIn
<1>9. InStep /\ Sound(tx) /\ tx = rows
  BY <1>2 DEF Inv, Pending
<1>10. \A f \in LiveIn(tx) : tx[f].lease # l
  <2>1. ASSUME NEW f \in LiveIn(tx) PROVE tx[f].lease \in 0 .. issued
    BY <1>1, <1>9 DEF Sound, LiveIn, Live
  <2>2. QED
    BY <1>1, <1>5, <2>1
<1>11. Sound(tx)'
  <2>1. \A f \in Execs : u[f].state # "none" => f <= made
    BY <1>4, <1>7, <1>9 DEF Sound, LiveIn, Live
  <2>2. ASSUME NEW f \in Execs
        PROVE  /\ u[f].state = "leased" => u[f].lease \in 1 .. l
               /\ u[f].state = "ready" => u[f].lease = 0
    <3>1. CASE f = e
      <4>1. u[f].state = "leased" /\ u[f].lease = l
        BY <1>6, <1>7, <3>1
      <4>2. QED
        BY <1>1, <1>5, <4>1
    <3>2. CASE f # e
      <4>1. /\ u[f] = tx[f]
            /\ tx[f].state = "leased" => tx[f].lease \in 1 .. issued
            /\ tx[f].state = "ready" => tx[f].lease = 0
        BY <1>7, <1>9, <3>2 DEF Sound
      <4>2. QED
        BY <1>1, <1>5, <4>1
    <3>3. QED
      BY <3>1, <3>2
  <2>3. \A f, g \in LiveIn(u) : u[f].scope = u[g].scope => f = g
    BY <1>8, <1>9 DEF Sound, LiveIn
  <2>4. ASSUME NEW f \in LiveIn(u), NEW g \in LiveIn(u),
               u[f].lease = u[g].lease, u[f].lease # 0
        PROVE  f = g
    <3>1. f \in Execs /\ g \in Execs
      BY DEF LiveIn
    <3>2. u[e].lease = l /\ \A x \in Execs : x \in LiveIn(u) /\ x # e => u[x].lease # l
      BY <1>6, <1>7, <1>8, <1>10
    <3>3. CASE f = e \/ g = e
      BY <2>4, <3>1, <3>2, <3>3
    <3>4. CASE f # e /\ g # e
      <4>1. u[f] = tx[f] /\ f \in LiveIn(tx) /\ u[g] = tx[g] /\ g \in LiveIn(tx)
        BY <1>8, <3>1, <3>4
      <4>2. \A x, y \in LiveIn(tx) :
              tx[x].lease = tx[y].lease /\ tx[x].lease # 0 => x = y
        BY <1>9 DEF Sound
      <4>3. QED
        BY <2>4, <4>1, <4>2
    <3>5. QED
      BY <3>3, <3>4
  <2>5. \A f, g \in LiveIn(u) : f < g => u[f].seq < u[g].seq
    BY <1>8, <1>9 DEF Sound, LiveIn
  <2>6. QED
    BY <1>2, <2>1, <2>2, <2>3, <2>4, <2>5 DEF Sound, LiveIn
<1>12. RowsInStep'
  <2>1. ASSUME NEW f \in Execs, f \in LiveIn(mem') \cup LiveIn(u) PROVE mem'[f] = u[f]
    <3>1. CASE f = e
      BY <1>7, <3>1
    <3>2. CASE f # e
      BY <1>7, <1>9, <2>1, <3>2 DEF InStep, RowsInStep, LiveIn
    <3>3. QED
      BY <3>1, <3>2
  <2>2. QED
    BY <2>1 DEF RowsInStep, LiveIn
<1>13. LeasesInStep'
  <2>1. ASSUME NEW k \in Leases, byLease'[k] # 0
        PROVE  byLease'[k] \in LiveIn(u) /\ u[byLease'[k]].lease = k
    <3>1. CASE k = l
      BY <1>1, <1>2, <1>4, <1>6, <1>7, <3>1 DEF LiveIn, Live
    <3>2. CASE k # l
      <4>1. byLease'[k] = byLease[k]
        BY <1>1, <1>2, <3>2
      <4>2. byLease[k] \in LiveIn(tx) /\ tx[byLease[k]].lease = k
        BY <1>9, <2>1, <4>1 DEF InStep, LeasesInStep
      <4>3. byLease[k] \in Execs /\ byLease[k] # e
        BY <1>4, <4>2 DEF LiveIn, Leases
      <4>4. QED
        BY <1>7, <4>1, <4>2, <4>3 DEF LiveIn
    <3>3. QED
      BY <3>1, <3>2
  <2>2. ASSUME NEW f \in LiveIn(u), u[f].lease # 0 PROVE byLease'[u[f].lease] = f
    <3>1. f \in Execs
      BY DEF LiveIn
    <3>2. CASE f = e
      BY <1>1, <1>2, <1>5, <1>6, <1>7, <3>2
    <3>3. CASE f # e
      <4>1. u[f] = tx[f] /\ f \in LiveIn(tx) /\ tx[f].lease # l /\ tx[f].lease # 0
        BY <1>8, <1>10, <2>2, <3>1, <3>3
      <4>2. byLease[tx[f].lease] = f
        BY <1>9, <4>1 DEF InStep, LeasesInStep
      <4>3. tx[f].lease \in Leases
        <5>1. tx[f] \in Row
          BY <1>1, <3>1
        <5>2. QED
          BY <4>1, <5>1, ScheduleAssumption DEF Row, Leases
      <4>4. QED
        BY <1>1, <1>2, <4>1, <4>2, <4>3
    <3>4. QED
      BY <3>2, <3>3
  <2>3. QED
    BY <2>1, <2>2 DEF LeasesInStep, LiveIn
<1>14. ScopesInStep'
  <2>1. ASSUME NEW f \in LiveIn(u) PROVE byScope'[u[f].scope] = f
    <3>1. f \in Execs /\ f \in LiveIn(tx) /\ u[f].scope = tx[f].scope
      BY <1>8 DEF LiveIn
    <3>2. byScope[tx[f].scope] = f /\ byScope[tx[e].scope] = e
      BY <1>4, <1>9, <3>1 DEF InStep, ScopesInStep
    <3>3. tx[f].scope \in Scopes /\ tx[e].scope \in Scopes
      BY <1>1, <1>4, <3>1 DEF Row
    <3>4. byScope' = [byScope EXCEPT ![tx[e].scope] = e]
      BY <1>2, <1>6
    <3>5. QED
      BY <1>1, <3>1, <3>2, <3>3, <3>4
  <2>2. QED
    BY <2>1 DEF ScopesInStep, LiveIn
<1>15. NumbersInStep'
  <2>1. \A f \in LiveIn(u) : u[f].seq < next
    BY <1>8, <1>9 DEF InStep, NumbersInStep, LiveIn
  <2>2. QED
    BY <1>2, <2>1 DEF NumbersInStep, LiveIn
<1>16. LeasedOne(rows, tx, e)'
  <2>1. Waiting(rows, e)
    BY <1>3, <1>4, <1>9 DEF Waiting
  <2>2. ASSUME NEW f \in Execs, Waiting(rows, f),
               KindOf[rows[f].scope] = KindOf[rows[e].scope]
        PROVE  ~Earlier(rows, f, e)
    <3>1. f \in LiveIn(tx)
      BY <1>9, <2>2 DEF LiveIn, Live, Waiting
    <3>2. mem[f] = tx[f]
      BY <1>9, <3>1 DEF InStep, RowsInStep
    <3>3. f \in Ready(KindOf[mem[e].scope])
      BY <1>4, <1>9, <2>2, <3>2 DEF Ready, Waiting
    <3>4. ~Sooner(f, e)
      BY <1>2, <3>3
    <3>5. QED
      BY <1>2, <1>3, <2>2, <3>4, OrderedByNumber
  <2>3. u[e].state = "leased" /\ u[e].due = rows[e].due /\ u[e].scope = rows[e].scope
    BY <1>6, <1>7, <1>9
  <2>4. Unchanged({e}, rows, u)
    BY <1>7, <1>9 DEF Unchanged
  <2>5. LeasedOne(rows, u, e)
    BY <2>1, <2>2, <2>3, <2>4 DEF LeasedOne
  <2>6. QED
    BY <1>2, <2>5 DEF LeasedOne, Waiting, Unchanged
<1>17. /\ byScope' \in [Scopes -> 0 .. MaxExecs]
       /\ byLease' \in [Leases -> 0 .. MaxExecs]
  <2>1. row.scope \in Scopes
    BY <1>6 DEF Row
  <2>2. e \in 0 .. MaxExecs
    <3>1. e \in 1 .. MaxExecs
      BY DEF Execs
    <3>2. QED
      BY <3>1, ScheduleAssumption
  <2>3. QED
    BY <1>1, <1>2, <1>5, <2>1, <2>2
<1>18. QED
  BY <1>7, <1>11, <1>12, <1>13, <1>14, <1>15, <1>16, <1>17 DEF InStep

(* What an execution is when it is settled.                                *)
LEMMA SettledRow ==
  ASSUME ScheduleTypeOK, NEW r \in Row, NEW later \in Nat
  PROVE  /\ Finished(r) \in Row /\ Returned(r, later) \in Row
         /\ Finished(r).state = "finished" /\ Finished(r).lease = 0
         /\ Finished(r).scope = r.scope /\ Finished(r).seq = r.seq
         /\ Returned(r, later).state = "ready" /\ Returned(r, later).lease = 0
         /\ Returned(r, later).scope = r.scope /\ Returned(r, later).seq = r.seq
         /\ Returned(r, later).due >= clock
<1>1. clock \in Nat /\ clock + later \in Nat /\ clock + later >= clock
  BY DEF ScheduleTypeOK
<1> 0 \in 0 .. MaxLeases /\ "finished" \in States /\ "ready" \in States
  BY ScheduleAssumption DEF States
<1>2. /\ Finished(r) \in Row
      /\ Finished(r).state = "finished" /\ Finished(r).lease = 0
      /\ Finished(r).scope = r.scope /\ Finished(r).seq = r.seq
  BY DEF Finished, Row
<1>3. /\ Returned(r, later) \in Row
      /\ Returned(r, later).state = "ready" /\ Returned(r, later).lease = 0
      /\ Returned(r, later).scope = r.scope /\ Returned(r, later).seq = r.seq
      /\ Returned(r, later).due = clock + later
  BY <1>1 DEF Returned, Row
<1>4. QED
  BY <1>1, <1>2, <1>3

(* All leases of the dead process are settled at once.                     *)
LEMMA AllRecovered ==
  ASSUME Inv, NEW S \in SUBSET Execs, Recover(S)
  PROVE  /\ Sound(tx)' /\ InStep'
         /\ tx' \in [Execs -> Row] /\ mem' \in [Execs -> Row]
         /\ byLease' \in [Leases -> 0 .. MaxExecs]
         /\ \E T \in SUBSET Execs : SettledAll(rows, tx, T)'
<1> PICK u : u = tx'
  OBVIOUS
<1> PICK leased : leased = {e \in Execs : mem[e].state = "leased"}
  OBVIOUS
<1> PICK settled : settled =
      [e \in Execs |-> IF e \in S THEN Finished(mem[e])
                       ELSE IF e \in leased THEN Returned(mem[e], 0)
                       ELSE mem[e]]
  OBVIOUS
<1>1. /\ made \in 0 .. MaxExecs /\ next \in Nat /\ clock \in Nat
      /\ tx \in [Execs -> Row] /\ mem \in [Execs -> Row] /\ rows \in [Execs -> Row]
  BY DEF Inv, ScheduleTypeOK
<1>2. /\ board = "starting" /\ open = "no" /\ S \subseteq leased
      /\ u = [e \in Execs |-> IF e \in leased THEN settled[e] ELSE tx[e]]
      /\ mem' = settled /\ byLease' = [l \in Leases |-> 0]
      /\ byScope' = byScope /\ next' = next /\ made' = made /\ issued' = issued
      /\ rows' = rows /\ clock' = clock
  BY DEF Recover
<1>3. InStep /\ Sound(tx) /\ tx = rows
  BY <1>2 DEF Inv, Pending
<1>4. \A e \in leased : e \in Execs /\ mem[e] = tx[e] /\ tx[e].state = "leased"
                        /\ e \in LiveIn(tx) /\ tx[e] \in Row
  <2>1. ASSUME NEW e \in leased
        PROVE  e \in Execs /\ mem[e] = tx[e] /\ tx[e].state = "leased"
               /\ e \in LiveIn(tx) /\ tx[e] \in Row
    BY <1>2, LiveRow DEF Live
  <2>2. QED
    BY <2>1
<1>5. ASSUME NEW e \in leased
      PROVE  /\ u[e] = settled[e] /\ settled[e] \in Row
             /\ u[e].state \in {"finished", "ready"} /\ u[e].lease = 0
             /\ u[e].scope = tx[e].scope /\ u[e].seq = tx[e].seq
             /\ u[e].state = "ready" => u[e].due >= clock
  <2>1. e \in Execs /\ mem[e] = tx[e] /\ tx[e] \in Row
    BY <1>4
  <2>2. u[e] = settled[e]
    BY <1>2, <2>1
  <2>3. CASE e \in S
    <3>1. settled[e] = Finished(tx[e])
      BY <2>1, <2>3
    <3>2. QED
      BY <2>1, <2>2, <3>1, SettledRow DEF Inv
  <2>4. CASE e \notin S
    <3>1. settled[e] = Returned(tx[e], 0)
      BY <2>1, <2>4
    <3>2. QED
      BY <2>1, <2>2, <3>1, SettledRow DEF Inv
  <2>5. QED
    BY <2>3, <2>4
<1>6. \A e \in Execs : e \notin leased => u[e] = tx[e] /\ settled[e] = mem[e]
  BY <1>2
<1>7. u \in [Execs -> Row] /\ settled \in [Execs -> Row]
  <2>1. ASSUME NEW e \in Execs PROVE u[e] \in Row /\ settled[e] \in Row
    BY <1>1, <1>5, <1>6
  <2>2. QED
    BY <1>2, <2>1
<1>8. \A e \in LiveIn(u) : /\ e \in LiveIn(tx) /\ u[e].scope = tx[e].scope
                           /\ u[e].seq = tx[e].seq
                           /\ u[e].state = "ready" /\ u[e].lease = 0
  <2>1. ASSUME NEW e \in LiveIn(u)
        PROVE  /\ e \in LiveIn(tx) /\ u[e].scope = tx[e].scope
               /\ u[e].seq = tx[e].seq
               /\ u[e].state = "ready" /\ u[e].lease = 0
    <3>1. e \in Execs /\ u[e].state \in Live
      BY DEF LiveIn
    <3>2. CASE e \in leased
      BY <1>4, <1>5, <3>1, <3>2 DEF Live
    <3>3. CASE e \notin leased
      <4>1. u[e] = tx[e] /\ e \in LiveIn(tx)
        BY <1>6, <3>1, <3>3 DEF LiveIn
      <4>2. mem[e] = tx[e]
        BY <1>3, <3>1, <4>1 DEF InStep, RowsInStep
      <4>3. tx[e].state = "ready"
        BY <3>1, <3>3, <4>1, <4>2 DEF Live
      <4>4. QED
        BY <1>3, <3>1, <4>1, <4>3 DEF Sound
    <3>4. QED
      BY <3>2, <3>3
  <2>2. QED
    BY <2>1
<1>9. Sound(tx)'
  <2>1. ASSUME NEW e \in Execs, u[e].state # "none" PROVE e <= made
    BY <1>3, <1>4, <1>6, <2>1 DEF Sound
  <2>2. ASSUME NEW e \in Execs
        PROVE  u[e].state # "leased" /\ (u[e].state = "ready" => u[e].lease = 0)
    BY <1>8 DEF LiveIn, Live
  <2>3. \A e, f \in LiveIn(u) : u[e].scope = u[f].scope => e = f
    BY <1>3, <1>8 DEF Sound
  <2>4. \A e, f \in LiveIn(u) : e < f => u[e].seq < u[f].seq
    BY <1>3, <1>8 DEF Sound
  <2>5. QED
    BY <1>2, <1>8, <2>1, <2>2, <2>3, <2>4 DEF Sound, LiveIn
<1>10. RowsInStep'
  <2>1. ASSUME NEW e \in Execs, e \in LiveIn(settled) \cup LiveIn(u) PROVE settled[e] = u[e]
    <3>1. CASE e \in leased
      BY <1>5, <3>1
    <3>2. CASE e \notin leased
      BY <1>3, <1>6, <2>1, <3>2 DEF InStep, RowsInStep, LiveIn
    <3>3. QED
      BY <3>1, <3>2
  <2>2. QED
    BY <1>2, <2>1 DEF RowsInStep, LiveIn
<1>11. LeasesInStep'
  <2>1. \A l \in Leases : byLease'[l] = 0
    BY <1>2
  <2>2. \A e \in Execs : u[e].state \in Live => u[e].lease = 0
    BY <1>8 DEF LiveIn
  <2>3. QED
    BY <2>1, <2>2 DEF LeasesInStep, LiveIn
<1>12. ScopesInStep'
  <2>1. \A e \in LiveIn(u) : byScope[u[e].scope] = e
    BY <1>3, <1>8 DEF InStep, ScopesInStep
  <2>2. QED
    BY <1>2, <2>1 DEF ScopesInStep, LiveIn
<1>13. NumbersInStep'
  <2>1. \A e \in LiveIn(u) : u[e].seq < next
    BY <1>3, <1>8 DEF InStep, NumbersInStep
  <2>2. QED
    BY <1>2, <2>1 DEF NumbersInStep, LiveIn
<1>14. \E T \in SUBSET Execs : SettledAll(rows, tx, T)'
  <2>1. SettledAll(rows, u, leased)
    BY <1>1, <1>3, <1>4, <1>5, <1>6 DEF SettledAll, Unchanged
  <2>2. leased \in SUBSET Execs
    BY <1>4
  <2>3. SettledAll(rows, tx, leased)'
    BY <1>2, <2>1 DEF SettledAll, Unchanged
  <2>4. QED
    BY <2>2, <2>3
<1>15. byLease' \in [Leases -> 0 .. MaxExecs]
  BY <1>2, ScheduleAssumption
<1>16. QED
  BY <1>2, <1>7, <1>9, <1>10, <1>11, <1>12, <1>13, <1>14, <1>15 DEF InStep

(* Finish, Release and CancelMember settle one execution.                  *)
LEMMA FinishSettles ==
  ASSUME Inv, NEW l \in Leases, Finish(l) \/ \E later \in {0, 1} : Release(l, later)
  PROVE  /\ Sound(tx)' /\ InStep'
         /\ tx' \in [Execs -> Row] /\ mem' \in [Execs -> Row]
         /\ byScope' \in [Scopes -> 0 .. MaxExecs]
         /\ byLease' \in [Leases -> 0 .. MaxExecs]
         /\ \E e \in Execs : SettledAll(rows, tx, {e})'
<1>1. PICK e : e = byLease[l]
  OBVIOUS
<1>2. PICK row : /\ row = Finished(mem[e]) \/ \E later \in {0, 1} : row = Returned(mem[e], later)
                 /\ Persist(e, row) /\ Remember(e, row) /\ Forget(l)
  BY <1>1 DEF Finish, Release
<1>3. /\ board = "up" /\ open = "no" /\ e # 0
      /\ UNCHANGED <<rows, next, made, issued, board, clock>>
  BY <1>1 DEF Finish, Release, Alone
<1>4. /\ e \in Execs /\ e \in LiveIn(tx) /\ tx[e].state = "leased"
      /\ tx[e].lease = l /\ mem[e] = tx[e]
  BY <1>1, <1>3, LeasedRow
<1>5. tx = rows /\ tx[e] \in Row /\ ScheduleTypeOK
  BY <1>3, <1>4 DEF Inv, Pending, ScheduleTypeOK
<1>6. /\ row \in Row /\ row.state \in {"ready", "finished"} /\ row.lease = 0
      /\ row.scope = tx[e].scope /\ row.seq = tx[e].seq
      /\ row.state = "ready" => row.due >= clock
  <2>1. CASE row = Finished(mem[e])
    BY <1>4, <1>5, <2>1, SettledRow
  <2>2. CASE \E later \in {0, 1} : row = Returned(mem[e], later)
    <3>1. PICK later \in {0, 1} : row = Returned(tx[e], later)
      BY <1>4, <2>2
    <3>2. later \in Nat
      OBVIOUS
    <3>3. QED
      BY <1>5, <3>1, <3>2, SettledRow
  <2>3. QED
    BY <1>2, <2>1, <2>2
<1>7. byLease' = [k \in Leases |-> IF k = tx[e].lease THEN 0 ELSE byLease[k]]
  <2>1. byLease \in [Leases -> 0 .. MaxExecs]
    BY DEF Inv, ScheduleTypeOK
  <2>2. QED
    BY <1>2, <1>4, <2>1 DEF Forget
<1>8. SettledAll(rows, tx, {e})'
  <2>1. PICK u : u = tx'
    OBVIOUS
  <2>2. u = [rows EXCEPT ![e] = row] /\ rows \in [Execs -> Row]
    BY <1>2, <1>5, <2>1 DEF Persist, ScheduleTypeOK
  <2>3. u[e] = row /\ \A f \in Execs : f # e => u[f] = rows[f]
    BY <1>4, <2>2
  <2>4. SettledAll(rows, u, {e})
    BY <1>4, <1>5, <1>6, <2>3 DEF SettledAll, Unchanged
  <2>5. QED
    BY <1>3, <2>1, <2>4 DEF SettledAll, Unchanged
<1>9. QED
  BY <1>2, <1>3, <1>4, <1>6, <1>7, <1>8, OneSettled

LEMMA CancelSettles ==
  ASSUME Inv, NEW e \in Execs, CancelMember(e)
  PROVE  /\ Sound(tx)' /\ InStep'
         /\ tx' \in [Execs -> Row] /\ mem' \in [Execs -> Row]
         /\ byScope' \in [Scopes -> 0 .. MaxExecs]
         /\ byLease' \in [Leases -> 0 .. MaxExecs]
         /\ CancelledOne(rows, tx, e)'
<1>1. PICK row : row = Finished(mem[e])
  OBVIOUS
<1>2. /\ board = "up" /\ open = "no" /\ mem[e].state = "ready"
      /\ Persist(e, row) /\ Remember(e, row)
      /\ UNCHANGED <<rows, byLease, next, made, issued, board, clock>>
  BY <1>1 DEF CancelMember, Alone
<1>3. /\ e \in LiveIn(tx) /\ mem[e] = tx[e] /\ tx[e] \in Row
      /\ tx[e].state = "ready" /\ tx[e].lease = 0
  BY <1>2, LiveRow DEF Live
<1>4. tx = rows /\ ScheduleTypeOK
  BY <1>2 DEF Inv, Pending
<1>5. /\ row \in Row /\ row.state = "finished" /\ row.lease = 0
      /\ row.scope = tx[e].scope /\ row.seq = tx[e].seq
  BY <1>1, <1>3, <1>4, SettledRow
<1>6. byLease' = [k \in Leases |-> IF k = tx[e].lease THEN 0 ELSE byLease[k]]
  <2>1. byLease \in [Leases -> 0 .. MaxExecs]
    BY <1>4 DEF ScheduleTypeOK
  <2>2. byLease' = byLease /\ \A k \in Leases : k # 0
    BY <1>2 DEF Leases
  <2>3. QED
    BY <1>3, <2>1, <2>2
<1>7. CancelledOne(rows, tx, e)'
  <2>1. PICK u : u = tx'
    OBVIOUS
  <2>2. u = [rows EXCEPT ![e] = row] /\ rows \in [Execs -> Row]
    BY <1>2, <1>4, <2>1 DEF Persist, ScheduleTypeOK
  <2>3. u[e] = row /\ \A f \in Execs : f # e => u[f] = rows[f]
    BY <2>2
  <2>4. CancelledOne(rows, u, e)
    BY <1>3, <1>4, <1>5, <2>3 DEF CancelledOne, Unchanged
  <2>5. QED
    BY <1>2, <2>1, <2>4 DEF CancelledOne, Unchanged
<1>8. QED
  BY <1>2, <1>3, <1>5, <1>6, <1>7, OneSettled

-----------------------------------------------------------------------------
(* The invariant.                                                          *)

(* Sound speaks of a table and of the two counters of identities.          *)
LEMMA RowsStaySound ==
  ASSUME Sound(rows), UNCHANGED <<rows, issued>>, made' = made \/ made' = made + 1,
         made \in Nat
  PROVE  Sound(rows)'
<1>1. \A e \in Execs : rows'[e].state # "none" => e <= made'
  <2>1. ASSUME NEW e \in Execs, rows[e].state # "none" PROVE e <= made'
    <3>1. e <= made
      BY <2>1 DEF Sound
    <3>2. e \in Nat
      BY DEF Execs
    <3>3. QED
      BY <3>1, <3>2
  <2>2. QED
    BY <2>1
<1>2. QED
  BY <1>1 DEF Sound, LiveIn

LEMMA RowsSoundAtLease ==
  ASSUME Sound(rows), UNCHANGED <<rows, made>>, issued' = issued + 1, issued \in Nat
  PROVE  Sound(rows)'
<1>1. \A e \in Execs : rows'[e].state = "leased" => rows'[e].lease \in 1 .. issued'
  <2>1. ASSUME NEW e \in Execs, rows[e].state = "leased"
        PROVE  rows[e].lease \in 1 .. issued + 1
    <3>1. rows[e].lease \in 1 .. issued
      BY <2>1 DEF Sound
    <3>2. QED
      BY <3>1
  <2>2. QED
    BY <2>1
<1>2. QED
  BY <1>1 DEF Sound, LiveIn

LEMMA InvStep == Inv /\ [Next]_vars => Inv'
<1> SUFFICES ASSUME Inv, [Next]_vars PROVE Inv'
  OBVIOUS
<1> USE DEF Inv
<1>0. ScheduleTypeOK /\ made \in Nat /\ issued \in Nat
  BY ScheduleAssumption DEF ScheduleTypeOK
<1>1. CASE Commit
  <2>1. /\ open # "no" /\ open' = "no" /\ rows' = tx /\ tx' = tx
        /\ board' = IF open = "recovery" THEN "up" ELSE board
        /\ UNCHANGED <<memory, made, issued, clock, crashes, failures>>
    BY <1>1 DEF Commit
  <2>2. board # "down"
    BY <2>1 DEF Pending, ScheduleTypeOK
  <2>3. Sound(rows)' /\ Sound(tx)'
    BY <2>1 DEF Sound, LiveIn
  <2>4. InStep'
    BY <2>1, <2>2 DEF InStep, RowsInStep, LeasesInStep, ScopesInStep, NumbersInStep,
                      LiveIn, memory
  <2>5. ScheduleTypeOK'
    BY <2>1 DEF ScheduleTypeOK, memory
  <2>6. Pending'
    BY <2>1 DEF Pending
  <2>7. QED
    BY <2>3, <2>4, <2>5, <2>6
<1>2. CASE Rollback
  <2>1. /\ failures \in Nat /\ failures' = failures + 1 /\ board' = board /\ board = "up"
        /\ open' = "no" /\ tx' = rows /\ Load(rows)
        /\ UNCHANGED <<rows, made, issued, clock, crashes>>
    BY <1>2 DEF Rollback, Reset, ScheduleTypeOK
  <2>2. Sound(rows)' /\ Sound(tx)'
    BY <2>1 DEF Sound, LiveIn
  <2>3. ScheduleTypeOK' /\ InStep'
    BY <2>1, LoadIsInStep DEF ScheduleTypeOK
  <2>4. Pending'
    BY <2>1 DEF Pending
  <2>5. QED
    BY <2>2, <2>3, <2>4
<1>3. CASE Crash
  <2>1. /\ board' = "down" /\ open' = "no" /\ tx' = rows
        /\ UNCHANGED <<rows, made, issued, clock, failures>>
        /\ crashes \in Nat /\ crashes' = crashes + 1 /\ next' = 0
        /\ mem' = NoRows /\ byScope' = [s \in Scopes |-> 0]
        /\ byLease' = [l \in Leases |-> 0]
    BY <1>3 DEF Crash, ScheduleTypeOK
  <2>2. Sound(rows)' /\ Sound(tx)'
    BY <2>1 DEF Sound, LiveIn
  <2>3. NoRows \in [Execs -> Row] /\ 0 \in 0 .. MaxExecs /\ 0 \in Nat
    BY NoRowTyped, ScheduleAssumption DEF NoRows
  <2>4. ScheduleTypeOK'
    BY <2>1, <2>3 DEF ScheduleTypeOK
  <2>5. QED
    BY <2>1, <2>2, <2>4 DEF Pending
<1>4. CASE Start
  <2>1. /\ board = "down" /\ board' = "starting" /\ Load(rows)
        /\ UNCHANGED <<rows, tx, open, made, issued, clock, crashes, failures>>
    BY <1>4 DEF Start
  <2>2. open = "no" /\ tx = rows
    BY <2>1 DEF Pending, ScheduleTypeOK
  <2>3. Sound(rows)' /\ Sound(tx)'
    BY <2>1 DEF Sound, LiveIn
  <2>4. ScheduleTypeOK' /\ InStep'
    BY <2>1, <2>2, LoadIsInStep DEF ScheduleTypeOK
  <2>5. QED
    BY <2>1, <2>2, <2>3, <2>4 DEF Pending
<1>5. CASE Elapse
  <2>1. /\ open = "no" /\ clock < MaxClock /\ clock' = clock + 1
        /\ UNCHANGED <<rows, tx, open, memory, made, issued, board, crashes, failures>>
    BY <1>5 DEF Elapse
  <2>2. Sound(rows)' /\ Sound(tx)'
    BY <2>1 DEF Sound, LiveIn
  <2>3. board # "down" => InStep'
    BY <2>1 DEF InStep, RowsInStep, LeasesInStep, ScopesInStep, NumbersInStep, LiveIn,
                memory
  <2>4. ScheduleTypeOK'
    BY <2>1, ScheduleAssumption DEF ScheduleTypeOK, memory
  <2>5. QED
    BY <2>1, <2>2, <2>3, <2>4 DEF Pending
<1>6. ASSUME NEW s \in Scopes, ScheduleExecution(s) PROVE Inv'
  <2>1. /\ board = "up" /\ open' = "submit" /\ made < MaxExecs
        /\ made' = made + 1 /\ next' = next + 1
        /\ UNCHANGED <<rows, byLease, issued, board, clock, crashes, failures>>
    BY <1>6 DEF ScheduleExecution, Within
  <2>2. Sound(rows)'
    BY <1>0, <2>1, RowsStaySound
  <2>3. /\ Sound(tx)' /\ InStep' /\ tx' \in [Execs -> Row] /\ mem' \in [Execs -> Row]
        /\ byScope' \in [Scopes -> 0 .. MaxExecs] /\ Planned(rows, tx)'
    BY <1>6, OneScheduled
  <2>4. made' \in 0 .. MaxExecs /\ next' \in Nat
    BY <1>0, <2>1, ScheduleAssumption DEF ScheduleTypeOK
  <2>5. ScheduleTypeOK'
    BY <1>0, <2>1, <2>3, <2>4 DEF ScheduleTypeOK
  <2>6. Pending'
    BY <2>1, <2>3 DEF Pending
  <2>7. QED
    BY <2>2, <2>3, <2>5, <2>6
<1>7. ASSUME NEW e \in Execs, LeaseNext(e) PROVE Inv'
  <2>1. /\ board = "up" /\ open' = "single" /\ issued < MaxLeases /\ issued' = issued + 1
        /\ UNCHANGED <<rows, next, made, board, clock, crashes, failures>>
    BY <1>7 DEF LeaseNext, Alone
  <2>2. Sound(rows)'
    BY <1>0, <2>1, RowsSoundAtLease
  <2>3. /\ Sound(tx)' /\ InStep' /\ tx' \in [Execs -> Row] /\ mem' \in [Execs -> Row]
        /\ byScope' \in [Scopes -> 0 .. MaxExecs]
        /\ byLease' \in [Leases -> 0 .. MaxExecs] /\ LeasedOne(rows, tx, e)'
    BY <1>7, OneLeased
  <2>4. issued' \in 0 .. MaxLeases
    BY <1>0, <2>1, ScheduleAssumption
  <2>5. ScheduleTypeOK'
    BY <1>0, <2>1, <2>3, <2>4 DEF ScheduleTypeOK
  <2>6. Pending'
    BY <2>1, <2>3 DEF Pending
  <2>7. QED
    BY <2>2, <2>3, <2>5, <2>6
<1>8. ASSUME NEW e \in Execs, CancelMember(e) PROVE Inv'
  <2>1. /\ board = "up" /\ open' = "single"
        /\ UNCHANGED <<rows, byLease, next, made, issued, board, clock, crashes, failures>>
    BY <1>8 DEF CancelMember, Alone
  <2>2. Sound(rows)'
    BY <1>0, <2>1, RowsStaySound
  <2>3. /\ Sound(tx)' /\ InStep' /\ tx' \in [Execs -> Row] /\ mem' \in [Execs -> Row]
        /\ byScope' \in [Scopes -> 0 .. MaxExecs] /\ CancelledOne(rows, tx, e)'
    BY <1>8, CancelSettles
  <2>4. ScheduleTypeOK'
    BY <1>0, <2>1, <2>3 DEF ScheduleTypeOK
  <2>5. Pending'
    BY <2>1, <2>3 DEF Pending
  <2>6. QED
    BY <2>2, <2>3, <2>4, <2>5
<1>9. ASSUME NEW l \in Leases, Finish(l) \/ \E later \in {0, 1} : Release(l, later)
      PROVE  Inv'
  <2>1. /\ board = "up" /\ open' = "single"
        /\ UNCHANGED <<rows, next, made, issued, board, clock, crashes, failures>>
    BY <1>9 DEF Finish, Release, Alone
  <2>2. Sound(rows)'
    BY <1>0, <2>1, RowsStaySound
  <2>3. /\ Sound(tx)' /\ InStep' /\ tx' \in [Execs -> Row] /\ mem' \in [Execs -> Row]
        /\ byScope' \in [Scopes -> 0 .. MaxExecs]
        /\ byLease' \in [Leases -> 0 .. MaxExecs]
        /\ \E e \in Execs : SettledAll(rows, tx, {e})'
    BY <1>9, FinishSettles
  <2>4. ScheduleTypeOK'
    BY <1>0, <2>1, <2>3 DEF ScheduleTypeOK
  <2>5. Pending'
    BY <2>1, <2>3 DEF Pending
  <2>6. QED
    BY <2>2, <2>3, <2>4, <2>5
<1>10. ASSUME NEW S \in SUBSET Execs, Recover(S) PROVE Inv'
  <2>1. /\ board = "starting" /\ open' = "recovery"
        /\ UNCHANGED <<rows, byScope, next, made, issued, board, clock, crashes, failures>>
    BY <1>10 DEF Recover
  <2>2. Sound(rows)'
    BY <1>0, <2>1, RowsStaySound
  <2>3. /\ Sound(tx)' /\ InStep' /\ tx' \in [Execs -> Row] /\ mem' \in [Execs -> Row]
        /\ byLease' \in [Leases -> 0 .. MaxExecs]
        /\ \E T \in SUBSET Execs : SettledAll(rows, tx, T)'
    BY <1>10, AllRecovered
  <2>4. ScheduleTypeOK'
    BY <1>0, <2>1, <2>3 DEF ScheduleTypeOK
  <2>5. Pending'
    BY <2>1, <2>3 DEF Pending
  <2>6. QED
    BY <2>2, <2>3, <2>4, <2>5
<1>11. CASE UNCHANGED vars
  <2>1. UNCHANGED <<rows, tx, open, mem, byScope, byLease, next, made, issued, board,
                    clock, crashes, failures>>
    BY <1>11 DEF vars, memory
  <2>2. Sound(rows)' /\ Sound(tx)'
    BY <2>1 DEF Sound, LiveIn
  <2>3. board # "down" => InStep'
    BY <2>1 DEF InStep, RowsInStep, LeasesInStep, ScopesInStep, NumbersInStep, LiveIn
  <2>4. ScheduleTypeOK'
    BY <1>0, <2>1 DEF ScheduleTypeOK
  <2>5. Pending'
    BY <2>1 DEF Pending, Planned, LeasedOne, SettledAll, CancelledOne, Unchanged,
                Waiting, Earlier
  <2>6. QED
    BY <2>1, <2>2, <2>3, <2>4, <2>5
<1>12. QED
  BY <1>1, <1>2, <1>3, <1>4, <1>5, <1>6, <1>7, <1>8, <1>9, <1>10, <1>11 DEF Next

(* The tables and the pending transaction stay well formed whatever is     *)
(* scheduled, rolled back and lost.                                        *)
THEOREM InvAlways == Spec => []Inv
BY InitInv, InvStep, PTL DEF Spec

(* Every table holds rows, every index an execution, every counter stays   *)
(* within its bound.                                                       *)
THEOREM TypeCorrect == Spec => []ScheduleTypeOK
<1>1. Inv => ScheduleTypeOK
  BY DEF Inv
<1>2. QED
  BY <1>1, InvAlways, PTL

LEMMA CacheFollows == Inv => CacheIsLedger
<1> SUFFICES ASSUME Inv, board = "up", open = "no"
             PROVE  /\ Loaded(mem) = Loaded(rows) /\ byLease = LeaseIndex(rows)
                    /\ \A e \in LiveIn(rows) : byScope[rows[e].scope] = e
  BY DEF CacheIsLedger
<1>1. tx = rows /\ InStep /\ Sound(rows)
  BY DEF Inv, Pending
<1>2. Loaded(mem) = Loaded(rows)
  <2>1. ASSUME NEW e \in Execs
        PROVE  (IF e \in LiveIn(mem) THEN mem[e] ELSE NoRow)
                 = (IF e \in LiveIn(rows) THEN rows[e] ELSE NoRow)
    BY <1>1 DEF InStep, RowsInStep, LiveIn
  <2>2. QED
    BY <2>1 DEF Loaded
<1>3. byLease = LeaseIndex(rows)
  <2>1. byLease \in [Leases -> 0 .. MaxExecs]
    BY DEF Inv, ScheduleTypeOK
  <2>2. ASSUME NEW l \in Leases PROVE byLease[l] = LeaseIndex(rows)[l]
    <3>0. l # 0
      BY DEF Leases
    <3>1. CASE \E e \in LiveIn(rows) : rows[e].lease = l
      <4>1. PICK f \in LiveIn(rows) : LeaseIndex(rows)[l] = f /\ rows[f].lease = l
        BY <3>1 DEF LeaseIndex
      <4>2. byLease[rows[f].lease] = f
        BY <1>1, <3>0, <4>1 DEF InStep, LeasesInStep
      <4>3. QED
        BY <4>1, <4>2
    <3>2. CASE ~ \E e \in LiveIn(rows) : rows[e].lease = l
      <4>1. LeaseIndex(rows)[l] = 0
        BY <3>2 DEF LeaseIndex
      <4>2. byLease[l] = 0
        BY <1>1, <3>2 DEF InStep, LeasesInStep
      <4>3. QED
        BY <4>1, <4>2
    <3>3. QED
      BY <3>1, <3>2
  <2>3. LeaseIndex(rows) = [l \in Leases |-> LeaseIndex(rows)[l]]
    BY DEF LeaseIndex
  <2>4. QED
    BY <2>1, <2>2, <2>3
<1>4. \A e \in LiveIn(rows) : byScope[rows[e].scope] = e
  BY <1>1 DEF InStep, ScopesInStep
<1>5. QED
  BY <1>2, <1>3, <1>4

(* Between two operations of a board that is up the Scheduler's memory is  *)
(* what the ledger says, for any number of crashes and of operations that  *)
(* failed (_coordinated_transaction, _reset_scheduler_after_rollback).     *)
THEOREM MemoryIsLedger == Spec => []CacheIsLedger
BY CacheFollows, InvAlways, PTL

-----------------------------------------------------------------------------
(* The refinement.                                                         *)

View(t) == [e \in Execs |-> [state |-> t[e].state, scope |-> t[e].scope, due |-> t[e].due]]

LEMMA ContractInit == Init => Contract!Init
<1> SUFFICES ASSUME Init PROVE Contract!Init
  OBVIOUS
<1>1. (CHOOSE s \in Scopes : TRUE) \in Scopes
  BY ScheduleAssumption
<1>2. PICK s \in Scopes : s = CHOOSE x \in Scopes : TRUE
  BY <1>1
<1>3. \A e \in Execs : [state |-> rows[e].state, scope |-> rows[e].scope, due |-> rows[e].due]
                         = [state |-> "none", scope |-> s, due |-> 0]
  BY <1>2 DEF Init, NoRows, NoRow
<1>4. QED
  BY <1>3 DEF Init, Contract!Init, Contract!Execs, Execs

(* A commit is the one step that the transaction stood for.                *)
LEMMA CommitIsStep ==
  ASSUME Inv, Commit
  PROVE  [Contract!Next]_(Contract!vars)
<1>1. /\ open # "no" /\ rows' = tx /\ clock' = clock
      /\ rows \in [Execs -> Row] /\ tx \in [Execs -> Row]
      /\ open \in {"no", "submit", "single", "recovery"}
  BY DEF Commit, Inv, ScheduleTypeOK
<1>2. PICK r, u : r = View(rows) /\ u = View(tx)
  OBVIOUS
<1>3. \A e \in Execs : /\ r[e].state = rows[e].state /\ r[e].scope = rows[e].scope
                       /\ r[e].due = rows[e].due /\ u[e].state = tx[e].state
                       /\ u[e].scope = tx[e].scope /\ u[e].due = tx[e].due
                       /\ tx[e] = rows[e] => u[e] = r[e]
  BY <1>2 DEF View
<1>4. CASE Planned(rows, tx)
  <2>1. ASSUME NEW e \in Execs, tx[e] # rows[e]
        PROVE  /\ r[e].state = "none" /\ u[e].state = "ready" /\ u[e].due = 0
               /\ \A f \in Execs : r[f].state # "none" => f < e
               /\ \A f \in Execs \ {e} : u[f].state \in Live => u[f].scope # u[e].scope
    <3>1. /\ e \in Execs /\ rows[e].state = "none" /\ tx[e].state = "ready"
          /\ tx[e].due = 0 /\ \A f \in Execs : rows[f].state # "none" => f < e
      BY <1>4, <2>1 DEF Planned
    <3>2. \A f \in Execs \ {e} : tx[f].state \in Live => tx[f].scope # tx[e].scope
      BY <3>1 DEF Inv, Sound, LiveIn, Live
    <3>3. QED
      BY <1>3, <3>1, <3>2
  <2>2. PICK S \in SUBSET Execs :
          /\ \A e \in S :
               /\ r[e].state = "none" /\ u[e].state = "ready" /\ u[e].due = 0
               /\ \A f \in Execs : r[f].state # "none" => f < e
               /\ \A f \in Execs \ {e} : u[f].state \in Live => u[f].scope # u[e].scope
          /\ \A e \in Execs \ S : u[e] = r[e]
    <3> DEFINE T == {e \in Execs : tx[e] # rows[e]}
    <3>1. T \in SUBSET Execs /\ \A e \in Execs \ T : u[e] = r[e]
      BY <1>3
    <3>2. QED
      BY <2>1, <3>1
  <2>3. Contract!Submit(S)
    BY <1>1, <1>2, <2>2
       DEF View, Contract!Submit, Contract!Others, Contract!Execs, Contract!Live, Execs, Live
  <2>4. QED
    BY <1>1, <2>3 DEF Contract!Next, Contract!Execs, Execs
<1>5. ASSUME NEW e \in Execs, LeasedOne(rows, tx, e)
      PROVE  Contract!Lease(e)
  <2>1. r[e].state = "ready" /\ r[e].due <= clock
    BY <1>3, <1>5 DEF LeasedOne, Waiting
  <2>2. ASSUME NEW f \in Execs, r[f].state = "ready", r[f].due <= clock,
               KindOf[r[f].scope] = KindOf[r[e].scope]
        PROVE  LET p == PriorityOf[r[f].scope]
                   q == PriorityOf[r[e].scope]
               IN  ~(p < q \/ (p = q /\ f < e))
    BY <1>3, <1>5, <2>2 DEF LeasedOne, Waiting, Earlier
  <2>3. u[e].state = "leased" /\ u[e].due = r[e].due /\ u[e].scope = r[e].scope
    BY <1>3, <1>5 DEF LeasedOne
  <2>4. \A f \in Execs \ {e} : u[f] = r[f]
    BY <1>3, <1>5 DEF LeasedOne, Unchanged
  <2>5. QED
    BY <1>1, <1>2, <2>1, <2>2, <2>3, <2>4
       DEF View, Contract!Lease, Contract!Waits, Contract!Before, Contract!Same,
           Contract!Others, Contract!Execs, Execs
<1>6. ASSUME NEW S \in SUBSET Execs, SettledAll(rows, tx, S)
      PROVE  Contract!Settle(S)
  <2>1. \A e \in S : /\ r[e].state = "leased" /\ u[e].scope = r[e].scope
                     /\ u[e].state \in {"finished", "ready"}
                     /\ u[e].state = "ready" => u[e].due >= clock
    BY <1>3, <1>6 DEF SettledAll
  <2>2. \A f \in Execs \ S : u[f] = r[f]
    BY <1>3, <1>6 DEF SettledAll, Unchanged
  <2>3. QED
    BY <1>1, <1>2, <2>1, <2>2
       DEF View, Contract!Settle, Contract!Same, Contract!Others, Contract!Execs, Execs
<1>7. ASSUME NEW e \in Execs, CancelledOne(rows, tx, e)
      PROVE  Contract!Cancel(e)
  <2>1. r[e].state = "ready" /\ u[e].state = "finished" /\ u[e].scope = r[e].scope
    BY <1>3, <1>7 DEF CancelledOne
  <2>2. \A f \in Execs \ {e} : u[f] = r[f]
    BY <1>3, <1>7 DEF CancelledOne, Unchanged
  <2>3. QED
    BY <1>1, <1>2, <2>1, <2>2
       DEF View, Contract!Cancel, Contract!Same, Contract!Others, Contract!Execs, Execs
<1>8. CASE open = "single"
  <2>1. PICK e \in Execs : \/ LeasedOne(rows, tx, e) \/ SettledAll(rows, tx, {e})
                           \/ CancelledOne(rows, tx, e)
    BY <1>8 DEF Inv, Pending
  <2>2. {e} \in SUBSET Execs
    OBVIOUS
  <2>3. Contract!Lease(e) \/ Contract!Settle({e}) \/ Contract!Cancel(e)
    BY <1>5, <1>6, <1>7, <2>1, <2>2
  <2>4. QED
    BY <1>1, <2>2, <2>3 DEF Contract!Next, Contract!Execs, Execs
<1>9. CASE open = "recovery"
  <2>1. PICK S \in SUBSET Execs : SettledAll(rows, tx, S)
    BY <1>9 DEF Inv, Pending
  <2>2. Contract!Settle(S)
    BY <1>6, <2>1
  <2>3. QED
    BY <1>1, <2>2 DEF Contract!Next, Contract!Execs, Execs
<1>10. QED
  BY <1>1, <1>4, <1>8, <1>9 DEF Inv, Pending

LEMMA ContractStep == Inv /\ [Next]_vars => [Contract!Next]_(Contract!vars)
<1> SUFFICES ASSUME Inv, [Next]_vars PROVE [Contract!Next]_(Contract!vars)
  OBVIOUS
<1>1. CASE Commit
  BY <1>1, CommitIsStep
<1>2. CASE Elapse
  <2>1. rows' = rows /\ clock' = clock + 1
    BY <1>2 DEF Elapse
  <2>2. Contract!Elapse
    BY <2>1 DEF Contract!Elapse
  <2>3. QED
    BY <2>2 DEF Contract!Next
<1>3. CASE rows' = rows /\ clock' = clock
  BY <1>3 DEF Contract!vars
<1>4. Commit \/ Elapse \/ (rows' = rows /\ clock' = clock)
  BY DEF Next, vars, Rollback, Crash, Start, ScheduleExecution, LeaseNext, CancelMember,
         Finish, Release, Recover
<1>5. QED
  BY <1>1, <1>2, <1>3, <1>4

(* The tables, their transactions and the repairs after a failure are one  *)
(* table of executions that is never half changed, for any bounds.         *)
THEOREM ScheduleIsKept == Spec => ImplementsSchedule
<1>1. Inv /\ [Next]_vars => [Contract!Next]_(Contract!vars)
  BY ContractStep
<1>2. Init => Contract!Init
  BY ContractInit
<1>3. QED
  BY <1>1, <1>2, InvAlways, PTL DEF Spec, ImplementsSchedule, Contract!Spec
=============================================================================
