------------------------ MODULE ParallelGroupsProofs ------------------------
(***************************************************************************)
(* Proofs about ParallelGroups, for every number of groups, children and   *)
(* clients, every limit and every combination of faults.                   *)
(*                                                                         *)
(* The slot limit of a group.  Only two operations put a child in flight:  *)
(* the reservation of its group and a claim.  Both choose the first k      *)
(* children of a list, for a k that leaves room; a lemma about ranks shows *)
(* that this chooses at most k.  Every other step leaves or shrinks the    *)
(* set of children in flight, which needs that a child not yet launched    *)
(* has no recorded process.  The global limit follows in the same way.     *)
(*                                                                         *)
(* One start and one outcome for each child.  The second invariant, AInv,  *)
(* says who has which children in hand: a child about to be started is in  *)
(* one hand, has left the queue and was not started before.  Its status    *)
(* then only moves along the edges of RunLifecycle (Edge), so that a group *)
(* that has ended stays as it was published.                               *)
(***************************************************************************)
EXTENDS ParallelGroups, FiniteSetTheorems, TLAPS

----
(* Counting. *)

\* Of the members of S, before[x] are those ahead of x in a linear order.
IsOrder(S, before) ==
    /\ before \in [S -> SUBSET S]
    /\ \A x \in S : x \notin before[x]
    /\ \A x, y \in S : x = y \/ x \in before[y] \/ y \in before[x]
    /\ \A x, y \in S : x \in before[y] => before[x] \subseteq before[y]

\* The ranks in a finite linear order are distinct, in its order, and less than
\* the number of its members.
LEMMA Ranks ==
    ASSUME NEW S, IsFiniteSet(S), NEW before, IsOrder(S, before)
    PROVE  /\ Cardinality(S) \in Nat
           /\ \A x \in S : Cardinality(before[x]) \in 0..(Cardinality(S) - 1)
           /\ \A x, y \in S :
                x \in before[y] <=> Cardinality(before[x]) < Cardinality(before[y])
           /\ \A x, y \in S : Cardinality(before[x]) = Cardinality(before[y]) => x = y
<1>1. \A x \in S : /\ IsFiniteSet(before[x]) /\ Cardinality(before[x]) \in Nat
                   /\ Cardinality(before[x]) < Cardinality(S)
  <2> SUFFICES ASSUME NEW x \in S
               PROVE  /\ IsFiniteSet(before[x]) /\ Cardinality(before[x]) \in Nat
                      /\ Cardinality(before[x]) < Cardinality(S)
    OBVIOUS
  <2>1. before[x] \in SUBSET S /\ before[x] # S BY DEF IsOrder
  <2>2. /\ IsFiniteSet(before[x]) /\ Cardinality(before[x]) <= Cardinality(S)
        /\ Cardinality(S) = Cardinality(before[x]) => S = before[x]
    BY <2>1, FS_Subset
  <2>3. Cardinality(before[x]) \in Nat /\ Cardinality(S) \in Nat BY <2>2, FS_CardinalityType
  <2> QED  BY <2>1, <2>2, <2>3
<1>2. Cardinality(S) \in Nat BY FS_CardinalityType
<1>3. ASSUME NEW x \in S, NEW y \in S, x \in before[y]
      PROVE  Cardinality(before[x]) < Cardinality(before[y])
  <2>1. before[x] \in SUBSET before[y] /\ before[x] # before[y] BY <1>3 DEF IsOrder
  <2>2. Cardinality(before[x]) <= Cardinality(before[y])
        /\ (Cardinality(before[y]) = Cardinality(before[x]) => before[y] = before[x])
    BY <1>1, <2>1, FS_Subset
  <2> QED  BY <1>1, <2>1, <2>2
<1>4. ASSUME NEW x \in S, NEW y \in S
      PROVE  /\ x \in before[y] <=> Cardinality(before[x]) < Cardinality(before[y])
             /\ Cardinality(before[x]) = Cardinality(before[y]) => x = y
  <2>1. x = y \/ x \in before[y] \/ y \in before[x] BY DEF IsOrder
  <2>2. Cardinality(before[x]) \in Nat /\ Cardinality(before[y]) \in Nat BY <1>1
  <2>3. x \in before[y] => Cardinality(before[x]) < Cardinality(before[y]) BY <1>3
  <2>4. y \in before[x] => Cardinality(before[y]) < Cardinality(before[x]) BY <1>3
  <2> QED  BY <2>1, <2>2, <2>3, <2>4
<1>5. \A x \in S : Cardinality(before[x]) \in 0..(Cardinality(S) - 1) BY <1>1, <1>2
<1> QED  BY <1>2, <1>4, <1>5

\* At most k members have fewer than k before them.
LEMMA FirstK ==
    ASSUME NEW S, IsFiniteSet(S), NEW before, IsOrder(S, before), NEW k \in Nat
    PROVE  LET first == {x \in S : Cardinality(before[x]) < k}
           IN  IsFiniteSet(first) /\ Cardinality(first) <= k
<1> DEFINE first == {x \in S : Cardinality(before[x]) < k}
           f == [x \in first |-> Cardinality(before[x])]
<1>1. \A x \in first : Cardinality(before[x]) \in 0..(k - 1) BY Ranks
<1>2. f \in [first -> 0..(k - 1)] BY <1>1
<1>3. \A x, y \in first : Cardinality(before[x]) = Cardinality(before[y]) => x = y BY Ranks
<1>4. \A x, y \in first : f[x] = f[y] => x = y BY <1>3
<1>5. f \in Injection(first, 0..(k - 1)) BY <1>2, <1>4 DEF Injection, IsInjective
<1>6. IsFiniteSet(0..(k - 1)) /\ Cardinality(0..(k - 1)) = k BY FS_Interval
<1> HIDE DEF f, first
<1>7. IsFiniteSet(first) /\ Cardinality(first) <= Cardinality(0..(k - 1))
  BY <1>5, <1>6, FS_Injection
<1> QED  BY <1>6, <1>7 DEF first

\* Every number less than that of the members is the rank of one of them.
LEMMA RankOnto ==
    ASSUME NEW S, IsFiniteSet(S), NEW before, IsOrder(S, before),
           NEW k \in 0..(Cardinality(S) - 1)
    PROVE  \E x \in S : Cardinality(before[x]) = k
<1> DEFINE f == [x \in S |-> Cardinality(before[x])]
           T == {f[x] : x \in S}
           n == Cardinality(S)
<1>1. f \in [S -> T] /\ T \in SUBSET (0..(n - 1)) /\ n \in Nat BY Ranks
<1>2. \A x, y \in S : f[x] = f[y] => x = y BY Ranks
<1>3. \A t \in T : \E x \in S : f[x] = t
  OBVIOUS
<1>4. f \in Bijection(S, T) BY <1>1, <1>2, <1>3 DEF Bijection, Injection, Surjection, IsInjective
<1>5. IsFiniteSet(0..(n - 1)) /\ Cardinality(0..(n - 1)) = n
  <2> HIDE DEF n
  <2> QED  BY <1>1, FS_Interval
<1>6. IsFiniteSet(T) BY <1>1, <1>5, FS_Subset
<1> HIDE DEF f, T
<1>7. Cardinality(T) = n BY <1>4, FS_Bijection DEF ExistsBijection
<1>8. T = 0..(n - 1) BY <1>1, <1>5, <1>7, FS_Subset
<1>9. k \in T BY <1>8
<1> QED  BY <1>9 DEF f, T

\* The members can be listed in their order.
LEMMA Listing ==
    ASSUME NEW S, IsFiniteSet(S), NEW before, IsOrder(S, before)
    PROVE  \E s \in [1..Cardinality(S) -> S] :
             \A i, j \in 1..Cardinality(S) : i < j => s[i] \in before[s[j]]
<1> DEFINE n == Cardinality(S)
           at(i) == CHOOSE x \in S : Cardinality(before[x]) = i - 1
           s == [i \in 1..n |-> at(i)]
<1>1. n \in Nat BY FS_CardinalityType
<1>2. \A i \in 1..n : at(i) \in S /\ Cardinality(before[at(i)]) = i - 1
  <2> TAKE i \in 1..n
  <2>1. i - 1 \in 0..(n - 1) BY <1>1
  <2>2. \E x \in S : Cardinality(before[x]) = i - 1 BY <2>1, RankOnto
  <2> QED  BY <2>2
<1> HIDE DEF at
<1>3. s \in [1..n -> S] BY <1>2
<1>4. ASSUME NEW i \in 1..n, NEW j \in 1..n, i < j PROVE s[i] \in before[s[j]]
  <2>1. Cardinality(before[at(i)]) < Cardinality(before[at(j)]) BY <1>1, <1>2, <1>4
  <2>2. at(i) \in before[at(j)] BY <1>2, <2>1, Ranks
  <2> QED  BY <2>2
<1> QED  BY <1>3, <1>4

\* Children of one group are in the order of their positions.
LEMMA PositionOrder ==
    ASSUME NEW g, NEW S, S \subseteq Siblings(g)
    PROVE  IsOrder(S, [x \in S |-> {y \in S : Position[y] < Position[x]}])
<1>1. \A x \in S : Position[x] \in Nat BY GroupsAssumption DEF Siblings
<1>2. \A x, y \in S : x # y => Position[x] # Position[y] BY GroupsAssumption DEF Siblings
<1> QED  BY <1>1, <1>2 DEF IsOrder

----
(* The inductive invariant. *)

\* A child that was not launched yet has no recorded process.
Clean(row) == row.status \in {"none", "pending"} => ~row.lpid /\ ~row.wpid

\* A worker about to commit has a result.
HasResult(p) == p.pc \in {"finish", "commit"} => p.out \in Terminal

IInv ==
    /\ child \in [Children -> Rows]
    /\ proc \in [Children -> Procs]
    /\ \A c \in Children : Clean(child[c]) /\ HasResult(proc[c])
    /\ GroupLimit

\* What every step but a reservation and a claim does to a row: it does not put
\* the child in flight.
Quiet(row, new) == new \in Rows /\ Clean(new) /\ (InFlight(new) => InFlight(row))
Calm == child' \in [Children -> Rows] /\ \A c \in Children : Quiet(child[c], child'[c])
WorkersOK == proc' \in [Children -> Procs] /\ \A c \in Children : HasResult(proc'[c])

----
(* Rows. *)

\* The literals the row operations write have their types.
LEMMA Literals ==
    /\ Terminal \subseteq Statuses
    /\ "none" \in Statuses /\ "pending" \in Statuses /\ "launch_pending" \in Statuses
    /\ "queued" \in Statuses /\ "running" \in Statuses
    /\ "cancellation_pending" \in Statuses /\ "recovery_pending" \in Statuses
    /\ "none" \in Phases /\ "pending" \in Phases /\ "launch_pending" \in Phases
    /\ "queued" \in Phases /\ "worker" \in Phases /\ "executable" \in Phases
    /\ "cancellation_pending" \in Phases /\ "recovery_pending" \in Phases /\ "result" \in Phases
  BY DEF Terminal, Active, Statuses, Phases

\* A row stays a row when one field takes another value of its type.
LEMMA RowFields ==
    ASSUME NEW row \in Rows
    PROVE  /\ \A x \in Statuses : [row EXCEPT !.status = x] \in Rows
           /\ \A x \in Phases : [row EXCEPT !.phase = x] \in Rows
           /\ \A x \in Nat : [row EXCEPT !.ver = x] \in Rows
           /\ \A x \in BOOLEAN : [row EXCEPT !.lpid = x] \in Rows
           /\ \A x \in BOOLEAN : [row EXCEPT !.wpid = x] \in Rows
           /\ \A x \in BOOLEAN : [row EXCEPT !.cpid = x] \in Rows
<1>1. \A x \in Statuses : [row EXCEPT !.status = x] \in Rows  BY DEF Rows
<1>2. \A x \in Phases : [row EXCEPT !.phase = x] \in Rows  BY DEF Rows
<1>3. \A x \in Nat : [row EXCEPT !.ver = x] \in Rows  BY DEF Rows
<1>4. \A x \in BOOLEAN : [row EXCEPT !.lpid = x] \in Rows  BY DEF Rows
<1>5. \A x \in BOOLEAN : [row EXCEPT !.wpid = x] \in Rows  BY DEF Rows
<1>6. \A x \in BOOLEAN : [row EXCEPT !.cpid = x] \in Rows  BY DEF Rows
<1> QED  BY <1>1, <1>2, <1>3, <1>4, <1>5, <1>6

\* Every row operation returns a row.
LEMMA RowOpTypes ==
    ASSUME NEW row \in Rows
    PROVE  /\ Bump(row) \in Rows
           /\ \A st \in Statuses \cap Phases : SetStatus(row, st) \in Rows
           /\ \A ph \in Phases : SetPhase(row, ph) \in Rows
           /\ \A st \in Statuses : ToTerminal(row, st) \in Rows
           /\ [Bump(row) EXCEPT !.phase = "worker"] \in Rows
           /\ Launched(row) \in Rows
           /\ ToRunning(row) \in Rows
           /\ Attached(row) \in Rows
<1>1. row.ver + 1 \in Nat  BY DEF Rows
<1>2. Bump(row) \in Rows  BY <1>1, RowFields, Zenon DEF Bump
<1>3. \A x \in Rows : Bump(x) \in Rows
  <2> TAKE x \in Rows
  <2>1. x.ver + 1 \in Nat  BY DEF Rows
  <2> QED  BY <2>1, RowFields, Zenon DEF Bump
<1>4. \A st \in Statuses \cap Phases : SetStatus(row, st) \in Rows
  BY <1>2, RowFields, Zenon DEF SetStatus
<1>5. \A ph \in Phases : SetPhase(row, ph) \in Rows BY <1>2, RowFields, Zenon DEF SetPhase
<1>6. \A st \in Statuses : ToTerminal(row, st) \in Rows
  BY <1>2, RowFields, Literals, Zenon DEF ToTerminal
<1>7. [Bump(row) EXCEPT !.phase = "worker"] \in Rows BY <1>2, RowFields, Literals, Zenon
<1>8. TRUE \in BOOLEAN  OBVIOUS
<1>9. SetStatus(row, "queued") \in Rows BY <1>4, Literals
<1>10. Launched(row) \in Rows BY <1>8, <1>9, RowFields, Zenon DEF Launched
<1>11. ToRunning(row) \in Rows BY <1>2, <1>8, RowFields, Literals, Zenon DEF ToRunning
<1>12. SetPhase(row, "executable") \in Rows BY <1>5, Literals
<1>13. Attached(row) \in Rows BY <1>3, <1>8, <1>12, RowFields, Zenon DEF Attached
<1> QED  BY <1>2, <1>4, <1>5, <1>6, <1>7, <1>10, <1>11, <1>13

\* No row operation but a claim puts a child in flight.
LEMMA QuietOps ==
    ASSUME NEW row \in Rows, Clean(row)
    PROVE  /\ Quiet(row, row)
           /\ Quiet(row, [Bump(row) EXCEPT !.phase = "worker"])
           /\ Quiet(row, SetPhase(row, "worker"))
           /\ \A st \in Terminal : Quiet(row, ToTerminal(row, st))
           /\ ~IsTerminal(row) => Quiet(row, SetStatus(row, "cancellation_pending"))
           /\ ~IsTerminal(row) => Quiet(row, SetStatus(row, "recovery_pending"))
           /\ row.status = "launch_pending" => Quiet(row, Launched(row))
           /\ row.status \in {"launch_pending", "queued"} => Quiet(row, ToRunning(row))
           /\ row.status = "running" => Quiet(row, Attached(row))
<1> USE RowOpTypes, Literals
<1>1. Quiet(row, row) BY DEF Quiet
<1>2. Quiet(row, [Bump(row) EXCEPT !.phase = "worker"]) BY DEF Quiet, Clean, InFlight, Bump, Rows
<1>3. Quiet(row, SetPhase(row, "worker")) BY DEF Quiet, Clean, InFlight, SetPhase, Bump, Rows
<1>4. ASSUME NEW st \in Terminal PROVE Quiet(row, ToTerminal(row, st))
  <2>1. ToTerminal(row, st).status = st BY DEF ToTerminal, Bump, Rows
  <2> QED  BY <2>1 DEF Quiet, Clean, InFlight, Terminal
<1>5. ASSUME ~IsTerminal(row), NEW st \in {"cancellation_pending", "recovery_pending"}
      PROVE  Quiet(row, SetStatus(row, st))
  <2>1. /\ SetStatus(row, st).status = st
        /\ SetStatus(row, st).lpid = row.lpid
        /\ SetStatus(row, st).wpid = row.wpid
    BY DEF SetStatus, Bump, Rows
  <2>2. row.status \in {"none", "pending"} \cup Active BY <1>5 DEF IsTerminal, Rows, Statuses
  <2>3. SetStatus(row, st) \in Rows BY <1>5
  <2> QED  BY <2>1, <2>2, <2>3 DEF Quiet, Clean, InFlight, Active
<1>6. ASSUME row.status = "launch_pending" PROVE Quiet(row, Launched(row))
  <2>1. Launched(row).status = "queued" BY DEF Launched, SetStatus, Bump, Rows
  <2> QED  BY <1>6, <2>1 DEF Quiet, Clean, InFlight
<1>7. ASSUME row.status \in {"launch_pending", "queued"} PROVE Quiet(row, ToRunning(row))
  <2>1. ToRunning(row).status = "running" BY DEF ToRunning, Bump, Rows
  <2> QED  BY <1>7, <2>1 DEF Quiet, Clean, InFlight
<1>8. ASSUME row.status = "running" PROVE Quiet(row, Attached(row))
  <2>1. Attached(row).status = "running" BY <1>8 DEF Attached, SetPhase, Bump, Rows
  <2> QED  BY <1>8, <2>1 DEF Quiet, Clean, InFlight
<1> QED  BY <1>1, <1>2, <1>3, <1>4, <1>5, <1>6, <1>7, <1>8

----
(* Processes. *)

PCs == {"none", "boot", "claim", "start", "run", "finish", "commit", "policy", "exit", "gone"}
Outs == {"none", "completed", "failed", "timed_out"}

\* A process record keeps its type when one field takes another value of its type.
LEMMA ProcFields ==
    ASSUME NEW p \in Procs
    PROVE  /\ \A x \in PCs : [p EXCEPT !.pc = x] \in Procs
           /\ \A x \in BOOLEAN : [p EXCEPT !.open = x] \in Procs
           /\ \A x \in Nat : [p EXCEPT !.ver = x] \in Procs
           /\ \A x \in Outs : [p EXCEPT !.out = x] \in Procs
           /\ \A x \in Children \cup {None} : [p EXCEPT !.parent = x] \in Procs
<1>1. \A x \in PCs : [p EXCEPT !.pc = x] \in Procs  BY DEF Procs, PCs
<1>2. \A x \in BOOLEAN : [p EXCEPT !.open = x] \in Procs  BY DEF Procs
<1>3. \A x \in Nat : [p EXCEPT !.ver = x] \in Procs  BY DEF Procs
<1>4. \A x \in Outs : [p EXCEPT !.out = x] \in Procs  BY DEF Procs, Outs
<1>5. \A x \in Children \cup {None} : [p EXCEPT !.parent = x] \in Procs  BY DEF Procs
<1> QED  BY <1>1, <1>2, <1>3, <1>4, <1>5

\* A process record of its type that carries a result if it is about to commit.
ProcOK(p) == p \in Procs /\ HasResult(p)

\* The records that steps write for a process have their type and, if they are
\* about to commit, a result.
LEMMA ProcOps ==
    ASSUME NEW p, ProcOK(p)
    PROVE  /\ ProcOK(NoProc) /\ ProcOK(Gone) /\ ProcOK(Exiting(p))
           /\ \A x \in Children \cup {None} :
                ProcOK([NoProc EXCEPT !.pc = "boot", !.parent = x])
           /\ \A x \in BOOLEAN : ProcOK([p EXCEPT !.open = x])
           /\ \A x \in BOOLEAN : ProcOK([Gone EXCEPT !.open = x])
           /\ \A x \in {"claim", "start", "policy"} : ProcOK([p EXCEPT !.pc = x])
           /\ \A x \in {"claim", "policy"}, v \in Nat : ProcOK([p EXCEPT !.pc = x, !.ver = v])
           /\ ProcOK([p EXCEPT !.pc = "run", !.open = TRUE])
           /\ ProcOK([p EXCEPT !.pc = "finish", !.out = "failed"])
           /\ \A x \in {"completed", "failed", "timed_out"} :
                ProcOK([p EXCEPT !.pc = "finish", !.open = FALSE, !.out = x])
           /\ \A v \in Nat : p.pc = "finish" => ProcOK([p EXCEPT !.pc = "commit", !.ver = v])
<1> USE DEF ProcOK
<1>1. /\ "boot" \in PCs /\ "gone" \in PCs /\ "exit" \in PCs /\ "claim" \in PCs
      /\ "start" \in PCs /\ "policy" \in PCs /\ "run" \in PCs /\ "finish" \in PCs
      /\ "commit" \in PCs
      /\ "failed" \in Outs /\ "completed" \in Outs /\ "timed_out" \in Outs
      /\ TRUE \in BOOLEAN /\ FALSE \in BOOLEAN
  BY DEF PCs, Outs
<1>2. NoProc \in Procs BY DEF NoProc, Procs
<1>3. Gone \in Procs BY <1>1, <1>2, ProcFields, Zenon DEF Gone
<1>4. ProcOK(NoProc) /\ ProcOK(Gone) BY <1>2, <1>3 DEF NoProc, Gone, HasResult
<1>5. ProcOK(Exiting(p))
  <2>1. p.parent \in Children \cup {None}  BY DEF Procs
  <2>2. Exiting(p) \in Procs  BY <1>1, <1>2, <2>1, ProcFields, Zenon DEF Exiting
  <2> QED  BY <2>2 DEF Exiting, NoProc, HasResult
<1>6. ASSUME NEW x \in Children \cup {None}
      PROVE  ProcOK([NoProc EXCEPT !.pc = "boot", !.parent = x])
  <2>1. [NoProc EXCEPT !.pc = "boot", !.parent = x] \in Procs BY <1>1, <1>2, ProcFields, Zenon
  <2> QED  BY <2>1 DEF NoProc, HasResult
<1>7. ASSUME NEW x \in BOOLEAN
      PROVE  ProcOK([p EXCEPT !.open = x]) /\ ProcOK([Gone EXCEPT !.open = x])
  <2>1. [p EXCEPT !.open = x] \in Procs /\ [Gone EXCEPT !.open = x] \in Procs
    BY <1>3, ProcFields, Zenon
  <2> QED  BY <2>1 DEF NoProc, Gone, HasResult, Procs
<1>8. ASSUME NEW x \in {"claim", "start", "policy"} PROVE ProcOK([p EXCEPT !.pc = x])
  <2>1. [p EXCEPT !.pc = x] \in Procs BY <1>1, ProcFields
  <2> QED  BY <2>1 DEF HasResult, Procs
<1>9. ASSUME NEW x \in {"claim", "policy"}, NEW v \in Nat
      PROVE  ProcOK([p EXCEPT !.pc = x, !.ver = v])
  <2>1. x \in PCs  BY <1>1
  <2>2. [p EXCEPT !.pc = x, !.ver = v] \in Procs BY <2>1, ProcFields, Zenon
  <2> QED  BY <2>2 DEF HasResult, Procs
<1>10. ProcOK([p EXCEPT !.pc = "run", !.open = TRUE])
  <2>1. [p EXCEPT !.pc = "run", !.open = TRUE] \in Procs BY <1>1, ProcFields, Zenon
  <2> QED  BY <2>1 DEF HasResult, Procs
<1>11. ProcOK([p EXCEPT !.pc = "finish", !.out = "failed"])
  <2>1. [p EXCEPT !.pc = "finish", !.out = "failed"] \in Procs BY <1>1, ProcFields, Zenon
  <2> QED  BY <2>1 DEF HasResult, Procs, Terminal
<1>12. ASSUME NEW x \in {"completed", "failed", "timed_out"}
       PROVE  ProcOK([p EXCEPT !.pc = "finish", !.open = FALSE, !.out = x])
  <2>1. x \in Outs /\ x \in Terminal  BY DEF Outs, Terminal
  <2>2. [p EXCEPT !.pc = "finish", !.open = FALSE, !.out = x] \in Procs
    BY <1>1, <2>1, ProcFields, Zenon
  <2> QED  BY <2>1, <2>2 DEF HasResult, Procs
<1>13. ASSUME NEW v \in Nat, p.pc = "finish"
       PROVE  ProcOK([p EXCEPT !.pc = "commit", !.ver = v])
  <2>1. [p EXCEPT !.pc = "commit", !.ver = v] \in Procs BY <1>1, ProcFields, Zenon
  <2> QED  BY <1>13, <2>1 DEF HasResult, Procs
<1> HIDE DEF ProcOK
<1> QED  BY <1>4, <1>5, <1>6, <1>7, <1>8, <1>9, <1>10, <1>11, <1>12, <1>13

\* A step that gives one child's process a good record keeps all of them good.
LEMMA OneProc ==
    ASSUME IInv, NEW c, NEW p, c \in Children => ProcOK(p),
           proc' = [proc EXCEPT ![c] = p]
    PROVE  WorkersOK
  BY DEF IInv, WorkersOK, ProcOK

\* A termination keeps them good too.
LEMMA KilledProcs ==
    ASSUME IInv, NEW K
    PROVE  AfterKill(K) \in [Children -> Procs]
           /\ \A d \in Children : ProcOK(AfterKill(K)[d])
<1> SUFFICES ASSUME NEW d \in Children PROVE ProcOK(AfterKill(K)[d]) BY DEF AfterKill, ProcOK
<1>1. ProcOK(proc[d])  BY DEF IInv, ProcOK
<1>2. ProcOK(Gone)  BY <1>1, ProcOps
<1> QED  BY <1>1, <1>2 DEF AfterKill

----
(* Steps that put no child in flight. *)

\* A quiet change of one row.
LEMMA CalmSave ==
    ASSUME IInv, NEW c, NEW row, c \in Children => Quiet(child[c], row), Save(c, row)
    PROVE  Calm
<1>1. \A d \in Children : Quiet(child[d], child[d]) BY QuietOps DEF IInv
<1>2. child' \in [Children -> Rows] BY DEF IInv, Save, Quiet
<1>3. \A d \in Children : child'[d] = IF d = c THEN row ELSE child[d] BY DEF IInv, Save
<1> QED  BY <1>1, <1>2, <1>3 DEF Calm

\* No change of any row, or of any process.
LEMMA Still ==
    ASSUME IInv
    PROVE  (UNCHANGED child => Calm) /\ (UNCHANGED proc => WorkersOK)
<1>1. \A d \in Children : Quiet(child[d], child[d]) BY QuietOps DEF IInv
<1> QED  BY <1>1 DEF IInv, Calm, WorkersOK

\* The siblings in a group are finitely many.
LEMMA FiniteSiblings ==
    ASSUME NEW g, NEW T, T \subseteq Siblings(g)
    PROVE  IsFiniteSet(T) /\ Cardinality(T) \in Nat
<1>1. T \in SUBSET Children  BY DEF Siblings
<1>2. IsFiniteSet(T)  BY <1>1, FiniteAssumption, FS_Subset
<1> QED  BY <1>2, FS_CardinalityType

\* A calm step keeps the invariant: the set of children in flight only shrinks.
LEMMA CalmKeepsInv ==
    ASSUME IInv, Calm, WorkersOK
    PROVE  IInv'
<1>1. ASSUME NEW g \in Groups, Requested[g] # None
      PROVE  Occupied(Siblings(g))' <= Requested[g]
  <2> DEFINE now == {c \in Siblings(g) : InFlight(child[c])}
             next == {c \in Siblings(g) : InFlight(child'[c])}
  <2>1. next \in SUBSET now BY DEF Calm, Quiet, Siblings
  <2>2. IsFiniteSet(now) /\ Cardinality(now) \in Nat /\ Cardinality(next) \in Nat
    BY <2>1, FiniteSiblings
  <2>3. Cardinality(now) <= Requested[g] BY <1>1 DEF IInv, GroupLimit, Occupied, FlyingIn
  <2>4. Requested[g] \in Nat BY <1>1, LimitsAssumption
  <2> HIDE DEF now, next
  <2>5. Cardinality(next) <= Cardinality(now) BY <2>1, <2>2, FS_Subset
  <2>6. Cardinality(next) <= Requested[g] BY <2>2, <2>3, <2>4, <2>5
  <2> QED  BY <2>6 DEF next, Occupied, FlyingIn, InFlight, Siblings
<1>2. GroupLimit' BY <1>1 DEF GroupLimit
<1>3. \A c \in Children : Clean(child'[c]) /\ HasResult(proc'[c]) BY DEF Calm, Quiet, WorkersOK
<1> QED  BY <1>2, <1>3 DEF IInv, Calm, WorkersOK, Clean, HasResult

\* Neither launching the children in hand nor the bookkeeping of a refill puts
\* another one in flight.
LEMMA LaunchCalm ==
    ASSUME IInv, NEW a \in Actors, LaunchStep(a) \/ ReadMembers(a) \/ EndRefill(a)
    PROVE  Calm /\ WorkersOK
<1> DEFINE c == Head(act[a].todo)
<1>1. c \in Children => child[c] \in Rows /\ Clean(child[c]) /\ ProcOK(proc[c]) BY DEF IInv, ProcOK
<1>2. CASE Materialize(a) \/ ReadMembers(a) BY <1>2, Still DEF Materialize, ReadMembers
<1>3. CASE SpawnChild(a)
  <2>1. CASE UNCHANGED proc BY <1>3, <2>1, Still DEF SpawnChild
  <2>2. CASE proc' = [proc EXCEPT ![c] =
                        [NoProc EXCEPT !.pc = "boot",
                                       !.parent = IF a \in Children THEN a ELSE None]]
    <3>1. (IF a \in Children THEN a ELSE None) \in Children \cup {None}
      OBVIOUS
    <3>2. c \in Children =>
            ProcOK([NoProc EXCEPT !.pc = "boot",
                                  !.parent = IF a \in Children THEN a ELSE None])
      BY <1>1, <3>1, ProcOps
    <3>3. WorkersOK BY <2>2, <3>2, OneProc
    <3> QED  BY <1>3, <3>3, Still DEF SpawnChild
  <2> QED  BY <1>3, <2>1, <2>2 DEF SpawnChild
<1>4. CASE RecordChild(a)
  <2> DEFINE won == child[c].status = "launch_pending" /\ child[c].ver = act[a].seen[c]
             row == IF won THEN Launched(child[c]) ELSE child[c]
  <2>1. Save(c, row) BY <1>4 DEF RecordChild
  <2>2. c \in Children => Quiet(child[c], row) BY <1>1, QuietOps
  <2>3. UNCHANGED proc \/ proc' = AfterKill(KilledTree(c)) BY <1>4 DEF RecordChild
  <2>4. WorkersOK BY <2>3, Still, KilledProcs DEF WorkersOK, ProcOK
  <2> HIDE DEF row
  <2> QED  BY <2>1, <2>2, <2>4, CalmSave
<1>5. CASE EventChild(a)
  <2>1. Save(c, SetPhase(child[c], "worker")) /\ UNCHANGED proc BY <1>5 DEF EventChild
  <2>2. c \in Children => Quiet(child[c], SetPhase(child[c], "worker")) BY <1>1, QuietOps
  <2> QED  BY <2>1, <2>2, CalmSave, Still
<1>6. CASE FailChild(a)
  <2> DEFINE row == IF Matches(child[c], act[a].row)
                    THEN ToTerminal(child[c], "failed") ELSE child[c]
  <2>1. Save(c, row) /\ UNCHANGED proc BY <1>6 DEF FailChild
  <2>2. c \in Children => Quiet(child[c], row) BY <1>1, QuietOps DEF Terminal
  <2> HIDE DEF row
  <2> QED  BY <2>1, <2>2, CalmSave, Still
<1>7. CASE EndRefill(a)
  <2>1. UNCHANGED child /\ (UNCHANGED proc \/ (a \in Children /\ proc' = [proc EXCEPT ![a] = Gone]))
    BY <1>7 DEF EndRefill
  <2>2. a \in Children => ProcOK(Gone) BY ProcOps DEF IInv, ProcOK
  <2>3. WorkersOK BY <2>1, <2>2, OneProc, Still
  <2> QED  BY <2>1, <2>3, Still
<1> QED  BY <1>2, <1>3, <1>4, <1>5, <1>6, <1>7 DEF LaunchStep

\* Nor does a cancellation, whose row may be any the canceller read.
LEMMA CancelCalm ==
    ASSUME IInv, NEW a \in Actors, CancelStep(a)
    PROVE  Calm /\ WorkersOK
<1> DEFINE c == Head(act[a].todo)
<1>1. c \in Children => child[c] \in Rows /\ Clean(child[c]) /\ ProcOK(proc[c]) BY DEF IInv, ProcOK
<1>2. CASE CancelRead(a) BY <1>2, Still DEF CancelRead
<1>3. CASE CancelMark(a)
  <2>1. CASE UNCHANGED child BY <1>3, <2>1, Still DEF CancelMark
  <2>2. CASE Matches(child[c], act[a].row)
             /\ Save(c, SetStatus(child[c], "cancellation_pending"))
    <3>1. c \in Children => Quiet(child[c], SetStatus(child[c], "cancellation_pending"))
      BY <1>1, <2>2, QuietOps DEF Matches
    <3> QED  BY <1>3, <2>2, <3>1, CalmSave, Still DEF CancelMark
  <2> QED  BY <1>3, <2>1, <2>2 DEF CancelMark
<1>4. CASE CancelKill(a)
  <2> DEFINE s == act[a].row
             K == IF s.lpid \/ s.wpid THEN KilledTree(c) ELSE {}
             p == AfterKill(K)
  <2>1. UNCHANGED child /\ proc' = [p EXCEPT ![c].open = @ /\ ~s.cpid] BY <1>4 DEF CancelKill
  <2>2. p \in [Children -> Procs] /\ \A d \in Children : ProcOK(p[d]) BY KilledProcs
  <2> HIDE DEF p, K
  <2>3. c \in Children => ProcOK([p[c] EXCEPT !.open = @ /\ ~s.cpid])
    <3> SUFFICES ASSUME c \in Children PROVE ProcOK([p[c] EXCEPT !.open = @ /\ ~s.cpid])
      OBVIOUS
    <3>1. (p[c].open /\ ~s.cpid) \in BOOLEAN BY Zenon
    <3>2. ProcOK([p[c] EXCEPT !.open = (p[c].open /\ ~s.cpid)]) BY <2>2, <3>1, ProcOps
    <3> QED  BY <3>2
  <2>4. WorkersOK BY <2>1, <2>2, <2>3 DEF WorkersOK, ProcOK
  <2> QED  BY <2>1, <2>4, Still
<1>5. CASE CancelFinish(a)
  <2> DEFINE won == child[c].status = "cancellation_pending" /\ child[c].ver = act[a].row.ver
             row == IF won THEN ToTerminal(child[c], "cancelled") ELSE child[c]
  <2>1. Save(c, row) /\ UNCHANGED proc BY <1>5 DEF CancelFinish
  <2>2. c \in Children => Quiet(child[c], row) BY <1>1, QuietOps DEF Terminal
  <2> HIDE DEF row
  <2> QED  BY <2>1, <2>2, CalmSave, Still
<1> QED  BY <1>2, <1>3, <1>4, <1>5 DEF CancelStep

\* Nor does a worker: it runs a child that its launcher has put in flight.
LEMMA WorkerCalm ==
    ASSUME IInv, NEW c \in Children,
           WorkerStep(c) \/ EndChild(c) \/ OrphanExit(c) \/ WorkerCrash(c)
    PROVE  Calm /\ WorkersOK
<1>1. /\ child[c] \in Rows /\ Clean(child[c]) /\ child[c].ver \in Nat
      /\ ProcOK(proc[c]) /\ proc[c].open \in BOOLEAN
  BY DEF IInv, ProcOK, Rows, Procs
<1>2. CASE WorkerRead(c)
  <2> DEFINE pc == IF child[c].status = "cancelled" THEN "policy" ELSE "claim"
  <2>1. pc \in {"claim", "policy"}  OBVIOUS
  <2>2. UNCHANGED child /\ proc' = [proc EXCEPT ![c] = [proc[c] EXCEPT !.pc = pc,
                                                                     !.ver = child[c].ver]]
    BY <1>2 DEF WorkerRead, SetProc
  <2> HIDE DEF pc
  <2>3. ProcOK([proc[c] EXCEPT !.pc = pc, !.ver = child[c].ver]) BY <1>1, <2>1, ProcOps
  <2> QED  BY <2>2, <2>3, OneProc, Still
<1>3. CASE WorkerClaim(c)
  <2>1. ProcOK([proc[c] EXCEPT !.pc = "start"]) /\ ProcOK([proc[c] EXCEPT !.pc = "policy"])
    BY <1>1, ProcOps
  <2>2. WorkersOK BY <1>3, <2>1, OneProc DEF WorkerClaim, SetProc
  <2>3. CASE UNCHANGED child BY <2>2, <2>3, Still
  <2>4. CASE child[c].status \in {"launch_pending", "queued"} /\ Save(c, ToRunning(child[c]))
    <3>1. Quiet(child[c], ToRunning(child[c])) BY <1>1, <2>4, QuietOps
    <3> QED  BY <2>2, <2>4, <3>1, CalmSave
  <2> QED  BY <1>3, <2>3, <2>4 DEF WorkerClaim
<1>4. CASE StartChild(c)
  <2>1. ProcOK([proc[c] EXCEPT !.pc = "run", !.open = TRUE])
        /\ ProcOK([proc[c] EXCEPT !.pc = "finish", !.out = "failed"])
    BY <1>1, ProcOps
  <2>2. WorkersOK BY <1>4, <2>1, OneProc DEF StartChild, SetProc
  <2>3. CASE UNCHANGED child BY <2>2, <2>3, Still
  <2>4. CASE child[c].status = "running" /\ Save(c, Attached(child[c]))
    <3>1. Quiet(child[c], Attached(child[c])) BY <1>1, <2>4, QuietOps
    <3> QED  BY <2>2, <2>4, <3>1, CalmSave
  <2> QED  BY <1>4, <2>3, <2>4 DEF StartChild
<1>5. CASE EndChild(c)
  <2> PICK out \in Exits :
        SetProc(c, [proc[c] EXCEPT !.pc = "finish", !.open = FALSE, !.out = out])
    BY <1>5 DEF EndChild
  <2>1. out \in {"completed", "failed", "timed_out"} BY ScopeAssumption
  <2>2. ProcOK([proc[c] EXCEPT !.pc = "finish", !.open = FALSE, !.out = out]) BY <1>1, <2>1, ProcOps
  <2> QED  BY <1>5, <2>2, OneProc, Still DEF EndChild, SetProc
<1>6. CASE WorkerFinish(c)
  <2>1. ProcOK([proc[c] EXCEPT !.pc = "commit", !.ver = child[c].ver])
    BY <1>1, <1>6, ProcOps DEF WorkerFinish
  <2> QED  BY <1>6, <2>1, OneProc, Still DEF WorkerFinish, SetProc
<1>7. CASE WorkerCommit(c)
  <2> DEFINE row == IF child[c].status = "running" /\ child[c].ver = proc[c].ver
                    THEN ToTerminal(child[c], proc[c].out) ELSE child[c]
  <2>1. Save(c, row) /\ proc' = [proc EXCEPT ![c] = [proc[c] EXCEPT !.pc = "policy"]]
    BY <1>7 DEF WorkerCommit, SetProc
  <2>2. proc[c].out \in Terminal BY <1>1, <1>7 DEF WorkerCommit, ProcOK, HasResult
  <2>3. Quiet(child[c], row) BY <1>1, <2>2, QuietOps
  <2>4. ProcOK([proc[c] EXCEPT !.pc = "policy"]) BY <1>1, ProcOps
  <2> HIDE DEF row
  <2> QED  BY <2>1, <2>3, <2>4, OneProc, CalmSave
<1>8. CASE EnforcePolicy(c)
  <2>1. ProcOK(Exiting(proc[c])) BY <1>1, ProcOps
  <2>2. UNCHANGED child /\ proc' = [proc EXCEPT ![c] = Exiting(proc[c])]
    BY <1>8 DEF EnforcePolicy, SetProc
  <2> QED  BY <2>1, <2>2, OneProc, Still
<1>9. CASE WorkerCrash(c)
  <2>1. ProcOK([Gone EXCEPT !.open = proc[c].open]) BY <1>1, ProcOps
  <2>2. UNCHANGED child /\ proc' = [proc EXCEPT ![c] = [Gone EXCEPT !.open = proc[c].open]]
    BY <1>9 DEF WorkerCrash, SetProc
  <2> QED  BY <2>1, <2>2, OneProc, Still
<1>10. CASE OrphanExit(c)
  <2>1. ProcOK([proc[c] EXCEPT !.open = FALSE]) BY <1>1, ProcOps
  <2> QED  BY <1>10, <2>1, OneProc, Still DEF OrphanExit, SetProc
<1> QED  BY <1>2, <1>3, <1>4, <1>5, <1>6, <1>7, <1>8, <1>9, <1>10 DEF WorkerStep

\* Nor does the server when it dies or reconciles.
LEMMA ServerCalm ==
    ASSUME IInv, ServerCrash \/ RestartStep
    PROVE  Calm /\ WorkersOK
<1>1. CASE ServerCrash \/ ServerRestart \/ ReconcileRefill
  BY <1>1, Still DEF ServerCrash, ServerRestart, ReconcileRefill
<1>2. CASE \E c \in Children : ReconcileRun(c)
  <2> PICK c \in Children : ReconcileRun(c) BY <1>2
  <2> PICK row \in Reconciled(c) : Save(c, row) BY DEF ReconcileRun
  <2>1. child[c] \in Rows /\ Clean(child[c]) BY DEF IInv
  <2>2. Quiet(child[c], row) BY <2>1, QuietOps DEF Reconciled, Matches, Terminal
  <2> QED  BY <2>2, CalmSave, Still DEF ReconcileRun
<1> QED  BY <1>1, <1>2 DEF RestartStep

----
(* The two steps that put children in flight. *)

\* A new group starts with its first children only, whatever it had before.
LEMMA ReserveKeepsInv ==
    ASSUME IInv, NEW a, NEW g \in Groups, ReserveGroup(a, g)
    PROVE  IInv'
<1> DEFINE new(c) == NewChild(IF c \in Eligible(g) THEN "launch_pending" ELSE "pending")
<1>1. child' = [c \in Children |-> IF GroupOf[c] # g THEN child[c] ELSE new(c)]
      /\ UNCHANGED proc
  BY DEF ReserveGroup
<1>2. \A st \in {"launch_pending", "pending"} :
        /\ NewChild(st) \in Rows
        /\ Clean(NewChild(st))
        /\ InFlight(NewChild(st)) => st = "launch_pending"
  BY DEF NewChild, NoRow, Rows, Statuses, Active, Phases, Clean, InFlight
<1>3. \A c \in Children : /\ new(c) \in Rows /\ Clean(new(c))
                          /\ InFlight(new(c)) => c \in Eligible(g)
  BY <1>2
<1> HIDE DEF new
<1>4. child' \in [Children -> Rows] /\ \A c \in Children : Clean(child'[c]) BY <1>1, <1>3 DEF IInv
<1>5. ASSUME NEW h \in Groups, Requested[h] # None
      PROVE  Occupied(Siblings(h))' <= Requested[h]
  <2> DEFINE next == {c \in Siblings(h) : InFlight(child'[c])}
  <2>1. Occupied(Siblings(h))' = Cardinality(next) BY DEF Occupied, FlyingIn, Siblings, InFlight
  <2>2. Requested[h] \in Nat BY <1>5, LimitsAssumption
  <2>3. CASE h # g
    <3>1. next = {c \in Siblings(h) : InFlight(child[c])} BY <1>1, <2>3 DEF Siblings
    <3> QED  BY <1>5, <2>1, <3>1 DEF IInv, GroupLimit, Occupied, FlyingIn
  <2>4. CASE h = g
    <3> DEFINE first == {c \in Siblings(g) :
                           Cardinality({d \in Siblings(g) : Position[d] < Position[c]})
                             < Requested[g]}
    <3>1. IsFiniteSet(Siblings(g)) BY FiniteSiblings
    <3> DEFINE before == [x \in Siblings(g) |-> {y \in Siblings(g) : Position[y] < Position[x]}]
    <3>2. /\ IsOrder(Siblings(g), before)
          /\ first = {x \in Siblings(g) : Cardinality(before[x]) < Requested[g]}
      BY PositionOrder
    <3>3. IsFiniteSet(first) /\ Cardinality(first) <= Requested[g]
      <4> HIDE DEF before, first
      <4> QED  BY <2>2, <2>4, <3>1, <3>2, FirstK
    <3>4. Eligible(g) = first BY <1>5, <2>4 DEF Eligible, Limit
    <3>5. next \in SUBSET first BY <1>1, <1>3, <2>4, <3>4 DEF Siblings
    <3>6. Cardinality(next) \in Nat /\ Cardinality(first) \in Nat BY <2>4, FiniteSiblings
    <3> HIDE DEF first, next
    <3>7. Cardinality(next) <= Cardinality(first) BY <3>3, <3>5, FS_Subset
    <3>8. Cardinality(next) <= Requested[g] BY <2>2, <2>4, <3>3, <3>6, <3>7
    <3> QED  BY <2>1, <2>4, <3>8
  <2> QED  BY <2>3, <2>4
<1>6. GroupLimit' BY <1>5 DEF GroupLimit
<1>7. proc' \in [Children -> Procs] /\ \A c \in Children : HasResult(proc'[c]) BY <1>1 DEF IInv
<1> QED  BY <1>4, <1>6, <1>7 DEF IInv, Clean, HasResult

\* A claim fills the free slots of a group and no more: those in flight were
\* active when the slots were counted, or are among the first pending ones.
LEMMA ClaimKeepsInv ==
    ASSUME IInv, NEW a, ClaimPending(a)
    PROVE  IInv'
<1>1. child' = Claimed /\ UNCHANGED proc BY DEF ClaimPending
<1>2. \A c \in Claimable : c \in Children /\ InGroupSlots(c) /\ IsPending(c)
  BY DEF Claimable, InGroupSlots
<1>3. \A c \in Children :
        /\ child'[c] \in Rows /\ Clean(child'[c])
        /\ c \notin Claimable => child'[c] = child[c]
  <2> SUFFICES ASSUME NEW c \in Children
               PROVE  /\ child'[c] \in Rows /\ Clean(child'[c])
                      /\ c \notin Claimable => child'[c] = child[c]
    OBVIOUS
  <2>1. child[c] \in Rows /\ Clean(child[c]) BY DEF IInv
  <2>2. SetStatus(child[c], "launch_pending") \in Rows BY <2>1, RowOpTypes, Literals
  <2>3. SetStatus(child[c], "launch_pending").status = "launch_pending"
    BY <2>1 DEF SetStatus, Bump, Rows
  <2> QED  BY <1>1, <2>1, <2>2, <2>3 DEF Claimed, Clean
<1>4. child' \in [Children -> Rows] BY <1>1, <1>3 DEF Claimed
<1>5. ASSUME NEW g \in Groups, Requested[g] # None
      PROVE  Occupied(Siblings(g))' <= Requested[g]
  <2> DEFINE now == {c \in Siblings(g) : InFlight(child[c])}
             next == {c \in Siblings(g) : InFlight(child'[c])}
             active == {c \in Siblings(g) : IsActive(c)}
             new == Siblings(g) \cap Claimable
             free == Free(Requested[g], Siblings(g))
             P == {c \in Siblings(g) : IsPending(c)}
             first == {c \in P : Cardinality({d \in P : Position[d] < Position[c]}) < free}
  <2>1. Occupied(Siblings(g))' = Cardinality(next) BY DEF Occupied, FlyingIn, Siblings, InFlight
  <2>2. Requested[g] \in Nat BY <1>5, LimitsAssumption
  <2>3. Cardinality(now) <= Requested[g] BY <1>5 DEF IInv, GroupLimit, Occupied, FlyingIn
  <2>4. /\ IsFiniteSet(active) /\ Cardinality(active) \in Nat
        /\ IsFiniteSet(new) /\ Cardinality(new) \in Nat
        /\ IsFiniteSet(next) /\ Cardinality(next) \in Nat
        /\ IsFiniteSet(now) /\ Cardinality(now) \in Nat
        /\ IsFiniteSet(P) /\ IsFiniteSet(first) /\ Cardinality(first) \in Nat
    BY FiniteSiblings
  <2>5. CASE new = {}
    <3>1. next = now BY <1>3, <2>5 DEF Siblings
    <3> QED  BY <2>1, <2>3, <3>1
  <2>6. CASE new # {}
    <3>1. free = IF Cardinality(active) < Requested[g]
                 THEN Requested[g] - Cardinality(active) ELSE 0
      BY <1>5 DEF Free
    <3>2. free \in Nat BY <2>2, <2>4, <3>1
    <3>3. \A c \in Siblings(g) :
            {d \in Siblings(g) : IsPending(d) /\ Position[d] < Position[c]}
              = {d \in P : Position[d] < Position[c]}
      OBVIOUS
    <3>4. \A c \in new : GroupOf[c] = g /\ IsPending(c) /\ InGroupSlots(c) BY <1>2 DEF Siblings
    <3>5. \A c \in new :
            Cardinality({d \in Siblings(g) : IsPending(d) /\ Position[d] < Position[c]}) < free
      BY <3>4 DEF InGroupSlots
    <3>6. new \in SUBSET first BY <3>3, <3>4, <3>5
    <3> DEFINE before == [x \in P |-> {y \in P : Position[y] < Position[x]}]
    <3>7. IsOrder(P, before) /\ first = {x \in P : Cardinality(before[x]) < free} BY PositionOrder
    <3> HIDE DEF free, P
    <3>8. Cardinality(first) <= free
      <4> HIDE DEF before, first
      <4> QED  BY <2>4, <3>2, <3>7, FirstK
    <3> HIDE DEF first
    <3>9. Cardinality(new) <= free
      <4>1. Cardinality(new) <= Cardinality(first) BY <2>4, <3>6, FS_Subset
      <4> QED  BY <2>4, <3>2, <3>8, <4>1
    <3>10. free > 0
      <4>1. PICK c \in new : TRUE BY <2>6
      <4>2. PICK n \in Nat : n < free BY <2>4, <3>2, <3>5, <4>1, FiniteSiblings
      <4> QED  BY <3>2, <4>2
    <3>11. \A c \in Children : InFlight(child[c]) => IsActive(c)
      BY DEF IInv, InFlight, IsActive, Active
    <3>12. next \in SUBSET (active \cup new) BY <1>3, <3>11 DEF Siblings
    <3> HIDE DEF next, active, new
    <3>13. IsFiniteSet(active \cup new)
           /\ Cardinality(active \cup new)
                = Cardinality(active) + Cardinality(new) - Cardinality(active \cap new)
      BY <2>4, FS_Union
    <3>14. IsFiniteSet(active \cap new) /\ Cardinality(active \cap new) \in Nat
      BY <2>4, FS_Intersection, FS_CardinalityType
    <3>15. Cardinality(next) <= Cardinality(active \cup new) BY <3>12, <3>13, FS_Subset
    <3>16. Cardinality(next) <= Requested[g]
      BY <2>2, <2>4, <3>1, <3>2, <3>9, <3>10, <3>13, <3>14, <3>15
    <3> QED  BY <2>1, <3>16
  <2> QED  BY <2>5, <2>6
<1>6. GroupLimit' BY <1>5 DEF GroupLimit
<1>7. proc' \in [Children -> Procs] /\ \A c \in Children : HasResult(proc'[c]) BY <1>1 DEF IInv
<1> QED  BY <1>3, <1>4, <1>6, <1>7 DEF IInv, Clean, HasResult

----
(* The theorem. *)

\* Every step but a reservation and a claim is calm.
LEMMA CalmSteps ==
    ASSUME IInv, [Next]_vars
    PROVE  \/ \E a \in Clients, g \in Groups : ReserveGroup(a, g)
           \/ \E a \in Actors : ClaimPending(a)
           \/ Calm /\ WorkersOK
<1>1. CASE UNCHANGED vars BY <1>1, Still DEF vars
<1>2. CASE \/ \E a \in Clients, g \in Groups : CancelGroup(a, g)
           \/ \E a \in Clients, c \in Children : CancelRun(a, c)
  BY <1>2, Still DEF CancelGroup, CancelRun
<1>3. CASE \E a \in Actors : LaunchStep(a) \/ ReadMembers(a) \/ EndRefill(a) BY <1>3, LaunchCalm
<1>4. CASE \E a \in Actors : CancelStep(a) BY <1>4, CancelCalm
<1>5. CASE \E c \in Children : WorkerStep(c) \/ EndChild(c) \/ OrphanExit(c) \/ WorkerCrash(c)
  BY <1>5, WorkerCalm
<1>6. CASE ServerCrash \/ RestartStep BY <1>6, ServerCalm
<1> QED  BY <1>1, <1>2, <1>3, <1>4, <1>5, <1>6 DEF Next, RefillStep

\* Every step keeps the invariant.
LEMMA StepKeepsInv == IInv /\ [Next]_vars => IInv'
  BY CalmSteps, CalmKeepsInv, ReserveKeepsInv, ClaimKeepsInv

\* It holds initially.
LEMMA InitInv == Init => IInv
<1> SUFFICES ASSUME Init PROVE IInv
  OBVIOUS
<1>1. NoRow \in Rows /\ Clean(NoRow) /\ ~InFlight(NoRow)
  BY DEF NoRow, Rows, Statuses, Phases, Clean, InFlight
<1>2. NoProc \in Procs /\ HasResult(NoProc) BY DEF NoProc, Procs, HasResult
<1>3. ASSUME NEW g \in Groups, Requested[g] # None
      PROVE  Occupied(Siblings(g)) <= Requested[g]
  <2>1. FlyingIn(Siblings(g)) = {} BY <1>1 DEF Init, FlyingIn, Siblings
  <2>2. Requested[g] \in Nat BY <1>3, LimitsAssumption
  <2> QED  BY <2>1, <2>2, FS_EmptySet DEF Occupied
<1> QED  BY <1>1, <1>2, <1>3 DEF Init, IInv, GroupLimit

\* However reservations, claims of competing refills, launches, cancellations,
\* failures and restarts interleave, a group with a requested concurrency never
\* occupies more slots than that (launch_powershell_group, claim_pending_launches).
THEOREM SlotLimit == Spec => []GroupLimit
<1>1. IInv => GroupLimit BY DEF IInv
<1> QED  BY <1>1, InitInv, StepKeepsInv, PTL DEF Spec

----
(* The second invariant: who has which children in hand. *)

\* The control states in which an actor is about to start the processes of all
\* the children in hand, or of all but the first; and those in which it works on
\* the first one.
BeforePCs == {"files", "members", "spawn"}
AfterPCs == {"record", "event", "fail"}
HeadPCs == {"files", "spawn", "record", "event", "fail", "read", "mark", "kill", "settle"}

Elements(s) == {s[i] : i \in 1..Len(s)}
Distinct(s) == \A i, j \in 1..Len(s) : s[i] = s[j] => i = j
InHand(r) == IF r.pc \in BeforePCs THEN Elements(r.todo)
             ELSE IF r.pc \in AfterPCs THEN Elements(Tail(r.todo)) ELSE {}

ActOK(r) ==
    /\ r \in Acts
    /\ r.pc \in HeadPCs => r.todo # <<>>
    /\ r.pc \in BeforePCs \cup AfterPCs => Distinct(r.todo)

\* A record of an actor that knows only children of groups that exist.
Good(r) == ActOK(r) /\ \A c \in Elements(r.todo) : child[c].status # "none"
ActorsOK == act \in [Actors -> Acts] /\ \A a \in Actors : Good(act[a])

\* Groups are numbered in the order of their creation, and a group exists with
\* its children.
Created == {h \in Groups : group[h].created > 0}
GroupsOK ==
    /\ group \in [Groups -> [status : GroupStatuses, created : Nat]]
    /\ \A g \in Groups :
         /\ group[g].status = "none" <=> group[g].created = 0
         /\ group[g].created > 0 => Siblings(g) # {}
         /\ group[g].created <= Cardinality(Created)
         /\ \A h \in Created : group[g].created = group[h].created => g = h
    /\ \A c \in Children : child[c].status = "none" <=> group[GroupOf[c]].status = "none"

ServerOK ==
    /\ server \in [pc : {"ready", "down", "runs", "refill"}, todo : SUBSET Children,
                   crashes : Nat, listed : [Children -> Rows]]
    /\ \A c \in Children : server.listed[c].status = "none" => ~server.listed[c].cpid

\* A child about to be started is in one hand and was not started before.
SpawnOK ==
    /\ spawned \in [Children -> Nat]
    /\ \A c \in Children :
         /\ spawned[c] <= 1
         /\ child[c].status \in {"none", "pending"} => spawned[c] = 0
    /\ \A a \in Actors : \A c \in InHand(act[a]) :
         /\ spawned[c] = 0 /\ child[c].status \notin {"none", "pending"}
         /\ \A b \in Actors : c \in InHand(act[b]) => a = b

AInv == IInv /\ GroupsOK /\ ActorsOK /\ ServerOK /\ SpawnOK /\ EndedGroupIsFinal

----
(* What a step does to the status of a child whose group exists. *)

Waiting == {"pending", "launch_pending", "queued"}
Edge(s, t) ==
    \/ s = t
    \/ s \in Waiting /\ t \in {"launch_pending", "queued", "running"}
    \/ s \in {"pending"} \cup Active
         /\ t \in {"cancellation_pending", "recovery_pending", "failed"}
    \/ s = "running" /\ t \in {"completed", "timed_out"}
    \/ s = "cancellation_pending" /\ t = "cancelled"
RowsMove == \A c \in Children : Edge(child[c].status, child'[c].status)

\* A child neither enters nor leaves the absent state, never returns to the queue,
\* and keeps its outcome.
LEMMA EdgeFacts ==
    ASSUME NEW s \in Statuses, NEW t \in Statuses, Edge(s, t)
    PROVE  /\ s = "none" <=> t = "none"
           /\ t = "pending" => s = "pending"
           /\ s \in Terminal => t = s
  BY DEF Edge, Statuses, Active, Terminal, Waiting

\* The statuses that the row operations write.
LEMMA OpStatus ==
    ASSUME NEW row \in Rows
    PROVE  /\ \A st : SetStatus(row, st).status = st
           /\ \A ph : SetPhase(row, ph).status = row.status
           /\ \A st : ToTerminal(row, st).status = st
           /\ [Bump(row) EXCEPT !.phase = "worker"].status = row.status
           /\ Launched(row).status = "queued"
           /\ ToRunning(row).status = "running"
           /\ Attached(row).status = row.status
  BY DEF SetStatus, SetPhase, ToTerminal, Launched, ToRunning, Attached, Bump, Rows

\* One row moves and the others stay.
LEMMA OneMove ==
    ASSUME IInv, NEW c, NEW row, Save(c, row),
           c \in Children => Edge(child[c].status, row.status)
    PROVE  RowsMove
  BY DEF IInv, Save, RowsMove, Edge

\* No row changes.
LEMMA NoMove ==
    ASSUME UNCHANGED child
    PROVE  RowsMove
  BY DEF RowsMove, Edge

----
(* Sequences of children in hand. *)

\* The first of the children in hand, and the others.
LEMMA HeadAndTail ==
    ASSUME NEW s \in Seq(Children), s # <<>>
    PROVE  /\ Head(s) \in Children /\ Head(s) \in Elements(s)
           /\ Tail(s) \in Seq(Children) /\ Elements(Tail(s)) \subseteq Elements(s)
           /\ Distinct(s) => Distinct(Tail(s)) /\ Head(s) \notin Elements(Tail(s))
<1>1. Len(s) \in Nat /\ Len(s) >= 1 /\ Head(s) = s[1] /\ s[1] \in Children
  OBVIOUS
<1>2. Tail(s) \in Seq(Children) /\ Len(Tail(s)) = Len(s) - 1
      /\ \A i \in 1..Len(Tail(s)) : i + 1 \in 1..Len(s) /\ Tail(s)[i] = s[i + 1]
  OBVIOUS
<1>3. Head(s) \in Elements(s) BY <1>1 DEF Elements
<1>4. Elements(Tail(s)) \subseteq Elements(s) BY <1>2 DEF Elements
<1>5. ASSUME Distinct(s) PROVE Distinct(Tail(s)) /\ Head(s) \notin Elements(Tail(s))
  <2>1. Distinct(Tail(s))
    <3> SUFFICES ASSUME NEW i \in 1..Len(Tail(s)), NEW j \in 1..Len(Tail(s)),
                        Tail(s)[i] = Tail(s)[j]
                 PROVE  i = j
      BY DEF Distinct
    <3>1. i + 1 = j + 1 BY <1>2, <1>5 DEF Distinct
    <3> QED  BY <3>1
  <2>2. ASSUME NEW i \in 1..Len(Tail(s)) PROVE s[1] # Tail(s)[i]
    <3>1. 1 \in 1..Len(s) /\ i + 1 \in 1..Len(s) /\ 1 # i + 1 /\ Tail(s)[i] = s[i + 1] BY <1>1, <1>2
    <3> QED  BY <1>5, <3>1 DEF Distinct
  <2> QED  BY <1>1, <2>1, <2>2 DEF Elements
<1> QED  BY <1>1, <1>2, <1>3, <1>4, <1>5

\* Children are in a linear order as far as their groups were created one after
\* the other.
Sortable(S) ==
    \A c, d \in S : GroupOf[c] # GroupOf[d]
                      => group[GroupOf[c]].created # group[GroupOf[d]].created

\* Then the sort order of the launch lists is one.
LEMMA AheadOrder ==
    ASSUME GroupsOK, NEW S \in SUBSET Children, Sortable(S)
    PROVE  IsOrder(S, [x \in S |-> {y \in S : Ahead(y, x)}])
<1>1. \A x \in S : /\ Position[x] \in Nat /\ GroupOf[x] \in Groups
                   /\ group[GroupOf[x]].created \in Nat
  BY GroupsAssumption DEF GroupsOK
<1>2. \A x, y \in S : x # y /\ GroupOf[x] = GroupOf[y] => Position[x] # Position[y]
  BY GroupsAssumption
<1> DEFINE before == [x \in S |-> {y \in S : Ahead(y, x)}]
<1>3. \A x \in S : ~Ahead(x, x) BY <1>1 DEF Ahead
<1>4. \A x, y \in S : x = y \/ Ahead(x, y) \/ Ahead(y, x) BY <1>1, <1>2 DEF Ahead, Sortable
<1>5. \A x, y, z \in S : Ahead(z, x) /\ Ahead(x, y) => Ahead(z, y) BY <1>1 DEF Ahead
<1> HIDE DEF Ahead
<1> QED  BY <1>3, <1>4, <1>5 DEF IsOrder

\* What InOrder lists: members of the set, each once, and not none of them.
LEMMA InOrderLists ==
    ASSUME GroupsOK, NEW S \in SUBSET Children, Sortable(S)
    PROVE  /\ InOrder(S) \in Seq(Children)
           /\ Elements(InOrder(S)) \subseteq S
           /\ Distinct(InOrder(S))
           /\ S # {} => InOrder(S) # <<>>
<1> DEFINE n == Cardinality(S)
           before == [x \in S |-> {y \in S : Ahead(y, x)}]
           Sorted(s) == \A i, j \in 1..n : i < j => Ahead(s[i], s[j])
<1>1. IsFiniteSet(S) /\ n \in Nat BY FiniteAssumption, FS_Subset, FS_CardinalityType
<1>2. \E s \in [1..n -> S] : \A i, j \in 1..n : i < j => s[i] \in before[s[j]]
  <2>1. IsOrder(S, before) BY AheadOrder
  <2> HIDE DEF before
  <2> QED  BY <1>1, <2>1, Listing
<1>3. \E s \in [1..n -> S] : Sorted(s) BY <1>2
<1>4. InOrder(S) \in [1..n -> S] /\ Sorted(InOrder(S)) BY <1>3 DEF InOrder
<1>5. InOrder(S) \in Seq(Children) /\ Len(InOrder(S)) = n BY <1>1, <1>4
<1>6. Elements(InOrder(S)) \subseteq S BY <1>4, <1>5 DEF Elements
<1>7. \A x \in S : ~Ahead(x, x) BY GroupsAssumption DEF Ahead, GroupsOK
<1>8. ASSUME NEW i \in 1..n, NEW j \in 1..n, InOrder(S)[i] = InOrder(S)[j] PROVE i = j
  <2>1. InOrder(S)[i] \in S /\ InOrder(S)[j] \in S BY <1>4
  <2>2. ~(i < j) /\ ~(j < i) BY <1>4, <1>7, <1>8, <2>1
  <2> QED  BY <1>1, <2>2
<1>9. S # {} => n # 0 BY <1>1, FS_EmptySet
<1> QED  BY <1>1, <1>5, <1>6, <1>8, <1>9 DEF Distinct

\* The children of one group can be listed.
LEMMA SiblingsSortable ==
    ASSUME NEW g, NEW S, S \subseteq Siblings(g)
    PROVE  S \in SUBSET Children /\ Sortable(S)
  BY DEF Siblings, Sortable

\* So can any children of groups that exist.
LEMMA KnownSortable ==
    ASSUME GroupsOK, NEW S \in SUBSET Children, \A c \in S : child[c].status # "none"
    PROVE  Sortable(S)
<1>1. ASSUME NEW c \in S PROVE GroupOf[c] \in Created
  <2>1. c \in Children /\ GroupOf[c] \in Groups BY GroupsAssumption
  <2>2. group[GroupOf[c]].status # "none" /\ group[GroupOf[c]].created \in Nat BY <2>1 DEF GroupsOK
  <2>3. group[GroupOf[c]].created # 0 BY <2>1, <2>2 DEF GroupsOK
  <2> QED  BY <2>1, <2>2, <2>3 DEF Created
<1>2. \A c \in S : GroupOf[c] \in Groups BY GroupsAssumption
<1> QED  BY <1>1, <1>2 DEF GroupsOK, Sortable

----
(* Steps that start no process and make no claim. *)

\* Every record that changes is a good one with fewer children in hand.
ActsFollow ==
    /\ act' = [b \in Actors |-> act'[b]]
    /\ \A b \in Actors :
         \/ act'[b] = act[b]
         \/ Good(act'[b]) /\ InHand(act'[b]) \subseteq InHand(act[b])
Orderly ==
    /\ RowsMove /\ ActsFollow /\ ServerOK'
    /\ group' \in {group, Refreshed}
    /\ UNCHANGED spawned

\* A published status is one, and not that of an absent group.
LEMMA AggregateStatus ==
    ASSUME NEW S
    PROVE  Aggregate(S) \in GroupStatuses \ {"none"}
  BY DEF Aggregate, GroupStatuses

\* Rows that move keep a good record good.
LEMMA StaysGood ==
    ASSUME IInv, IInv', RowsMove, NEW r, Good(r)
    PROVE  ActOK(r) /\ \A c \in Elements(r.todo) : child'[c].status # "none"
<1>1. \A c \in Children : child[c].status # "none" => child'[c].status # "none"
  BY EdgeFacts DEF IInv, RowsMove, Rows
<1>2. r.todo \in Seq(Children) BY DEF Good, ActOK, Acts
<1>3. Elements(r.todo) \subseteq Children BY <1>2 DEF Elements
<1> QED  BY <1>1, <1>3 DEF Good, ActOK

\* A refresh, or none, changes nothing about which groups exist and in which order.
LEMMA GroupsStay ==
    ASSUME IInv, IInv', RowsMove, GroupsOK, group' \in {group, Refreshed}
    PROVE  GroupsOK'
<1>1. \A g \in Groups : /\ group'[g].created = group[g].created
                        /\ group'[g].status = "none" <=> group[g].status = "none"
  BY AggregateStatus DEF GroupsOK, Refreshed
<1>2. group' \in [Groups -> [status : GroupStatuses, created : Nat]]
  BY AggregateStatus DEF GroupsOK, Refreshed
<1>3. Created' = Created BY <1>1 DEF Created
<1>4. \A c \in Children : child'[c].status = "none" <=> child[c].status = "none"
  BY EdgeFacts DEF IInv, RowsMove, Rows
<1>5. \A g \in Groups : Siblings(g)' = Siblings(g) BY DEF Siblings
<1>6. \A c \in Children : GroupOf[c] \in Groups BY GroupsAssumption
<1>7. \A g \in Groups :
         /\ group'[g].status = "none" <=> group'[g].created = 0
         /\ group'[g].created > 0 => Siblings(g)' # {}
         /\ group'[g].created <= Cardinality(Created')
         /\ \A h \in Created' : group'[g].created = group'[h].created => g = h
  BY <1>1, <1>3, <1>5 DEF GroupsOK, Created
<1>8. \A c \in Children : child'[c].status = "none" <=> group'[GroupOf[c]].status = "none"
  BY <1>1, <1>4, <1>6 DEF GroupsOK
<1> QED  BY <1>2, <1>7, <1>8 DEF GroupsOK

\* A group that has ended stays as it is.
LEMMA EndedStays ==
    ASSUME IInv, IInv', RowsMove, EndedGroupIsFinal, group' \in {group, Refreshed},
           GroupsOK
    PROVE  EndedGroupIsFinal'
<1> SUFFICES ASSUME NEW g \in Groups,
                    group'[g].status \in {"completed", "cancelled", "failed", "partial"}
             PROVE  /\ \A c \in Siblings(g) : IsTerminal(child'[c])
                    /\ group'[g].status = Aggregate(Siblings(g))'
  BY DEF EndedGroupIsFinal, Siblings, IsTerminal
<1>1. (\A c \in Siblings(g) : IsTerminal(child[c])) /\ group'[g].status = Aggregate(Siblings(g))
  <2>1. CASE group' = group BY <2>1 DEF EndedGroupIsFinal
  <2>2. CASE group' = Refreshed /\ group[g].status = "none" BY <2>2 DEF Refreshed
  <2>3. CASE group' = Refreshed /\ group[g].status # "none"
    <3>1. group'[g].status = Aggregate(Siblings(g)) BY <2>3 DEF Refreshed, GroupsOK
    <3>2. {child[c].status : c \in Siblings(g)} \subseteq Terminal BY <3>1 DEF Aggregate
    <3> QED  BY <3>1, <3>2 DEF IsTerminal
  <2> QED  BY <2>1, <2>2, <2>3
<1>2. \A c \in Siblings(g) : child'[c].status = child[c].status
  BY <1>1, EdgeFacts DEF IInv, RowsMove, Rows, IsTerminal, Siblings
<1>3. {child'[c].status : c \in Siblings(g)} = {child[c].status : c \in Siblings(g)} BY <1>2
<1>4. Aggregate(Siblings(g))' = Aggregate(Siblings(g)) BY <1>3 DEF Aggregate, Siblings
<1> QED  BY <1>1, <1>2, <1>4 DEF IsTerminal

\* What a step keeps as long as rows only move and records stay good.
LEMMA MovesKeep ==
    ASSUME AInv, IInv', RowsMove, group' \in {group, Refreshed}, ServerOK',
           act' = [b \in Actors |-> act'[b]], \A b \in Actors : Good(act'[b])
    PROVE  GroupsOK' /\ EndedGroupIsFinal' /\ ActorsOK' /\ (SpawnOK' => AInv')
<1> USE DEF AInv
<1>1. GroupsOK' BY GroupsStay
<1>2. EndedGroupIsFinal' BY EndedStays
<1>3. \A b \in Actors : ActOK(act'[b])
                       /\ \A c \in Elements(act'[b].todo) : child'[c].status # "none"
  BY StaysGood
<1>4. ActorsOK'
  <2>1. \A b \in Actors : Good(act[b])' BY <1>3 DEF Good, ActOK, Elements, Distinct
  <2>2. act' \in [Actors -> Acts] BY <1>3 DEF ActOK
  <2> QED  BY <2>1, <2>2 DEF ActorsOK
<1> QED  BY <1>1, <1>2, <1>4

\* Nobody has a child in hand that is not one.
LEMMA HandsHoldChildren ==
    ASSUME ActorsOK, NEW b \in Actors
    PROVE  InHand(act[b]) \subseteq Children
<1>1. act[b].todo \in Seq(Children) /\ (act[b].pc \in HeadPCs => act[b].todo # <<>>)
  BY DEF ActorsOK, Good, ActOK, Acts
<1>2. Elements(act[b].todo) \subseteq Children BY <1>1 DEF Elements
<1> QED  BY <1>1, <1>2, HeadAndTail DEF InHand, AfterPCs, HeadPCs

\* No child returns to the queue, or to where it was before its group.
LEMMA NoReturn ==
    ASSUME IInv, IInv', RowsMove, NEW c \in Children
    PROVE  child'[c].status \in {"none", "pending"} => child[c].status \in {"none", "pending"}
  BY EdgeFacts DEF IInv, RowsMove, Rows

\* An orderly step keeps the invariant.
LEMMA OrderlyKeepsInv ==
    ASSUME AInv, IInv', Orderly
    PROVE  AInv'
<1> USE DEF AInv, Orderly
<1>1. \A b \in Actors : Good(act'[b]) /\ InHand(act'[b]) \subseteq InHand(act[b])
  BY DEF ActsFollow, ActorsOK
<1>2. SpawnOK' BY <1>1, NoReturn, HandsHoldChildren DEF SpawnOK
<1> QED  BY <1>1, <1>2, MovesKeep DEF ActsFollow

----
(* The records of the actors. *)

Kinds == {"none", "launch", "child", "group", "policy", "exit", "startup"}
ActPCs == {"idle", "files", "spawn", "record", "event", "fail", "read", "mark",
           "kill", "settle", "claim", "members", "refresh", "done"}

\* A record keeps its type when one field takes another value of its type.
LEMMA ActFields ==
    ASSUME NEW r \in Acts
    PROVE  /\ \A x \in Kinds : [r EXCEPT !.kind = x] \in Acts
           /\ \A x \in ActPCs : [r EXCEPT !.pc = x] \in Acts
           /\ \A x \in Seq(Children) : [r EXCEPT !.todo = x] \in Acts
           /\ \A x \in [Children -> Nat] : [r EXCEPT !.seen = x] \in Acts
           /\ \A x \in Rows : [r EXCEPT !.row = x] \in Acts
           /\ \A x \in 0..2 : [r EXCEPT !.rounds = x] \in Acts
<1>1. \A x \in Kinds : [r EXCEPT !.kind = x] \in Acts  BY DEF Acts, Kinds
<1>2. \A x \in ActPCs : [r EXCEPT !.pc = x] \in Acts  BY DEF Acts, ActPCs
<1>3. \A x \in Seq(Children) : [r EXCEPT !.todo = x] \in Acts  BY DEF Acts
<1>4. \A x \in [Children -> Nat] : [r EXCEPT !.seen = x] \in Acts  BY DEF Acts
<1>5. \A x \in Rows : [r EXCEPT !.row = x] \in Acts  BY DEF Acts
<1>6. \A x \in 0..2 : [r EXCEPT !.rounds = x] \in Acts  BY DEF Acts
<1> QED  BY <1>1, <1>2, <1>3, <1>4, <1>5, <1>6

\* The record that differs from r in these five fields.
Rec(r, pc, todo, seen, row, rounds) ==
    [r EXCEPT !.pc = pc, !.todo = todo, !.seen = seen, !.row = row, !.rounds = rounds]

\* It has its type.
LEMMA RecTypes ==
    ASSUME NEW r \in Acts, NEW pc \in ActPCs, NEW todo \in Seq(Children),
           NEW seen \in [Children -> Nat], NEW row \in Rows, NEW rounds \in 0..2
    PROVE  /\ Rec(r, pc, todo, seen, row, rounds) \in Acts
           /\ Rec(r, pc, todo, seen, row, rounds).pc = pc
           /\ Rec(r, pc, todo, seen, row, rounds).todo = todo
<1>1. [r EXCEPT !.pc = pc] \in Acts  BY ActFields
<1>2. [r EXCEPT !.pc = pc, !.todo = todo] \in Acts  BY <1>1, ActFields, Zenon
<1>3. [r EXCEPT !.pc = pc, !.todo = todo, !.seen = seen] \in Acts  BY <1>2, ActFields, Zenon
<1>4. [r EXCEPT !.pc = pc, !.todo = todo, !.seen = seen, !.row = row] \in Acts
  BY <1>3, ActFields, Zenon
<1>5. Rec(r, pc, todo, seen, row, rounds) \in Acts BY <1>4, ActFields, Zenon DEF Rec
<1> QED  BY <1>5 DEF Rec, Acts

\* A thread without work.
LEMMA Resting ==
    /\ Idle \in Acts /\ Idle.pc = "idle" /\ Idle.todo = <<>>
    /\ Good(Idle) /\ InHand(Idle) = {}
    /\ Done \in Acts /\ Done.pc = "done" /\ Done.todo = <<>>
    /\ Good(Done) /\ InHand(Done) = {}
    /\ NoRow \in Rows /\ Unseen \in [Children -> Nat]
<1>1. NoRow \in Rows BY DEF NoRow, Rows, Statuses, Phases
<1>2. Unseen \in [Children -> Nat] BY DEF Unseen
<1>3. Idle \in Acts /\ Idle.pc = "idle" /\ Idle.todo = <<>> BY <1>1, <1>2 DEF Idle, Acts
<1>4. Done \in Acts /\ Done.pc = "done" /\ Done.todo = <<>> BY <1>3 DEF Done, Acts
<1>5. Elements(<<>>) = {} BY DEF Elements
<1> QED  BY <1>1, <1>2, <1>3, <1>4, <1>5
         DEF Good, ActOK, InHand, HeadPCs, BeforePCs, AfterPCs

\* What an actor works on.
LEMMA Working ==
    ASSUME ActorsOK, NEW a \in Actors, act[a].pc \in HeadPCs
    PROVE  /\ Good(act[a]) /\ act[a] \in Acts
           /\ Head(act[a].todo) \in Children /\ child[Head(act[a].todo)].status # "none"
           /\ act[a].todo \in Seq(Children) /\ Tail(act[a].todo) \in Seq(Children)
           /\ act[a].todo # <<>>
           /\ Elements(Tail(act[a].todo)) \subseteq Elements(act[a].todo)
           /\ act[a].pc \in BeforePCs \cup AfterPCs =>
                /\ Distinct(act[a].todo) /\ Distinct(Tail(act[a].todo))
                /\ Head(act[a].todo) \notin Elements(Tail(act[a].todo))
<1>1. Good(act[a]) /\ act[a].todo \in Seq(Children) /\ act[a].todo # <<>> /\ act[a] \in Acts
  BY DEF ActorsOK, Good, ActOK, Acts
<1>2. act[a].pc \in BeforePCs \cup AfterPCs => Distinct(act[a].todo) BY DEF ActorsOK, Good, ActOK
<1> QED  BY <1>1, <1>2, HeadAndTail DEF Good

\* The same children in hand, in another control state that knows no less of them.
LEMMA GoesOn ==
    ASSUME NEW r, Good(r), NEW q \in Acts, q.todo = r.todo,
           q.pc \in HeadPCs => r.pc \in HeadPCs,
           q.pc \in AfterPCs => r.pc \in AfterPCs \cup {"spawn"},
           q.pc \in BeforePCs => r.pc \in BeforePCs
    PROVE  Good(q) /\ InHand(q) \subseteq InHand(r)
<1>1. Good(q) BY DEF Good, ActOK, HeadPCs, BeforePCs, AfterPCs
<1>2. CASE q.pc \in AfterPCs
  <2>1. r.todo \in Seq(Children) /\ r.todo # <<>> BY <1>2 DEF Good, ActOK, Acts, HeadPCs, AfterPCs
  <2>2. Elements(Tail(r.todo)) \subseteq Elements(r.todo) BY <2>1, HeadAndTail
  <2> QED  BY <1>1, <1>2, <2>2 DEF InHand, AfterPCs, BeforePCs
<1> QED  BY <1>1, <1>2 DEF InHand

\* The others, after the first one has been dealt with; a child is only launched
\* by an actor that was launching.
LEMMA GoesToNext ==
    ASSUME NEW r, Good(r), r.pc \in HeadPCs, NEW q \in Acts, q.todo = Tail(r.todo),
           q.pc \in HeadPCs => Tail(r.todo) # <<>>,
           q.pc \notin AfterPCs,
           q.pc \in BeforePCs => r.pc \in AfterPCs
    PROVE  Good(q) /\ InHand(q) \subseteq InHand(r)
<1>1. r.todo \in Seq(Children) /\ r.todo # <<>> BY DEF Good, ActOK, Acts
<1>2. /\ Elements(Tail(r.todo)) \subseteq Elements(r.todo)
      /\ Distinct(r.todo) => Distinct(Tail(r.todo))
  BY <1>1, HeadAndTail
<1>3. Good(q) BY <1>2 DEF Good, ActOK
<1>4. InHand(q) \subseteq InHand(r) BY <1>2 DEF InHand, BeforePCs, AfterPCs
<1> QED  BY <1>3, <1>4

\* Other children in hand, none of them to be launched.
LEMMA TakesUp ==
    ASSUME NEW q \in Acts, q.pc \notin BeforePCs \cup AfterPCs,
           q.pc \in HeadPCs => q.todo # <<>>,
           \A c \in Elements(q.todo) : child[c].status # "none"
    PROVE  Good(q) /\ InHand(q) = {}
  BY DEF Good, ActOK, InHand

\* One actor goes on.
LEMMA OneActor ==
    ASSUME ActorsOK, NEW a \in Actors, NEW r, Become(a, r), Good(r),
           InHand(r) \subseteq InHand(act[a])
    PROVE  ActsFollow
<1>1. act' = [b \in Actors |-> IF b = a THEN r ELSE act[b]] BY DEF ActorsOK, Become
<1> QED  BY <1>1 DEF ActsFollow

\* One actor goes on, and others are terminated.
LEMMA OthersStopped ==
    ASSUME ActorsOK, NEW K, NEW a \in Actors, NEW r, Good(r), InHand(r) \subseteq InHand(act[a]),
           act' = [b \in Actors |-> IF Stopped(b, K) THEN Done
                                    ELSE IF b = a THEN r ELSE act[b]]
    PROVE  ActsFollow
  BY Resting DEF ActsFollow

\* No actor moves.
LEMMA NobodyActs ==
    ASSUME ActorsOK, UNCHANGED act
    PROVE  ActsFollow
  BY DEF ActorsOK, ActsFollow

\* The server does not move.
LEMMA ServerStays ==
    ASSUME ServerOK, UNCHANGED server
    PROVE  ServerOK'
  BY DEF ServerOK

----
(* Orderly steps. *)

\* What is left to show when neither the groups nor the server nor what was
\* started changes.
LEMMA Ordinary ==
    ASSUME AInv, RowsMove, ActsFollow, UNCHANGED <<group, server, spawned>>
    PROVE  Orderly
  BY ServerStays DEF AInv, Orderly

\* Going on with the next child to launch, or with the refill.
LEMMA NextLaunchFollows ==
    ASSUME AInv, NEW a \in Actors, act[a].pc \in {"event", "fail"}, NextLaunch(a)
    PROVE  ActsFollow
<1> DEFINE r == act[a]
           c == Head(r.todo)
           rest == Tail(r.todo)
           pc == IF rest # <<>> THEN "spawn"
                 ELSE IF r.kind = "launch" THEN "done" ELSE "refresh"
           seen == [r.seen EXCEPT ![c] = 0]
           q == Rec(r, pc, rest, seen, NoRow, r.rounds)
<1>1. /\ Good(r) /\ r \in Acts /\ c \in Children /\ rest \in Seq(Children)
      /\ r.pc \in HeadPCs
  BY Working DEF AInv, HeadPCs
<1>2. seen \in [Children -> Nat] /\ r.rounds \in 0..2 /\ pc \in ActPCs /\ NoRow \in Rows
  BY <1>1, Resting DEF Acts, ActPCs
<1>3. q \in Acts /\ q.pc = pc /\ q.todo = rest
  <2> HIDE DEF pc, seen, rest, q, r
  <2>1. Rec(r, pc, rest, seen, NoRow, r.rounds) \in Acts
        /\ Rec(r, pc, rest, seen, NoRow, r.rounds).pc = pc
        /\ Rec(r, pc, rest, seen, NoRow, r.rounds).todo = rest
    BY <1>1, <1>2, RecTypes
  <2> QED  BY <2>1 DEF q
<1>4. q = [r EXCEPT !.pc = pc, !.todo = rest, !.row = NoRow, !.seen = seen] BY <1>1 DEF Rec, Acts
<1>5. Become(a, IF pc = "done" THEN Done ELSE q)
  <2> DEFINE p == [r EXCEPT !.pc = pc, !.todo = rest, !.row = NoRow, !.seen[c] = 0]
  <2>1. Become(a, IF pc = "done" THEN Done ELSE p) BY DEF NextLaunch
  <2>2. p = [r EXCEPT !.pc = pc, !.todo = rest, !.row = NoRow, !.seen = seen]
    OBVIOUS
  <2> HIDE DEF p, q
  <2> QED  BY <1>4, <2>1, <2>2
<1>6. CASE pc = "done"
  <2>1. Become(a, Done) BY <1>5, <1>6
  <2> QED  BY <2>1, OneActor, Resting DEF AInv
<1>7. CASE pc # "done"
  <2>1. Become(a, q) BY <1>5, <1>7
  <2>2. /\ q.pc \in HeadPCs => rest # <<>>
        /\ q.pc \notin AfterPCs
    BY <1>3 DEF HeadPCs, AfterPCs
  <2>3. r.pc \in AfterPCs BY DEF AfterPCs
  <2> HIDE DEF q, pc
  <2>4. Good(q) /\ InHand(q) \subseteq InHand(r) BY <1>1, <1>3, <2>2, <2>3, GoesToNext
  <2> QED  BY <2>1, <2>4, OneActor DEF AInv
<1> QED  BY <1>6, <1>7

\* Launching, apart from the start of a process.
LEMMA LaunchOrderly ==
    ASSUME AInv, NEW a \in Actors,
           \/ Materialize(a) \/ RecordChild(a) \/ EventChild(a) \/ FailChild(a)
           \/ SpawnChild(a) /\ UNCHANGED spawned
    PROVE  Orderly
<1> DEFINE r == act[a]
           c == Head(r.todo)
<1> USE DEF AInv
<1>1. CASE Materialize(a)
  <2>1. CASE Become(a, Done) BY <1>1, <2>1, Resting, OneActor, NoMove, Ordinary DEF Materialize
  <2>2. CASE Become(a, [r EXCEPT !.pc = "spawn"])
    <3> DEFINE q == [r EXCEPT !.pc = "spawn"]
    <3>1. Good(r) /\ r \in Acts /\ r.pc = "files" BY <1>1, Working DEF Materialize, HeadPCs
    <3>2. q \in Acts /\ q.pc = "spawn" /\ q.todo = r.todo
      <4>1. q \in Acts BY <3>1, ActFields DEF ActPCs
      <4> QED  BY <3>1, <4>1 DEF Acts
    <3> HIDE DEF q
    <3>3. Good(q) /\ InHand(q) \subseteq InHand(r)
      BY <3>1, <3>2, GoesOn DEF HeadPCs, AfterPCs, BeforePCs
    <3>4. Become(a, q) BY <2>2 DEF q
    <3> QED  BY <1>1, <3>3, <3>4, OneActor, NoMove, Ordinary DEF Materialize
  <2> QED  BY <1>1, <2>1, <2>2 DEF Materialize
<1>2. CASE SpawnChild(a) /\ UNCHANGED spawned
  <2>1. r.pc = "spawn" /\ Good(r) /\ r \in Acts /\ c \in Children
    BY <1>2, Working DEF SpawnChild, HeadPCs
  <2>2. CASE Become(a, [r EXCEPT !.pc = "fail", !.row = child[c]])
    <3> DEFINE q == [r EXCEPT !.pc = "fail", !.row = child[c]]
    <3>1. child[c] \in Rows /\ "fail" \in ActPCs BY <2>1 DEF IInv, ActPCs
    <3>2. [r EXCEPT !.pc = "fail"] \in Acts BY <2>1, <3>1, ActFields
    <3>3. q \in Acts BY <3>1, <3>2, ActFields, Zenon
    <3>4. q.pc = "fail" /\ q.todo = r.todo BY <2>1 DEF Acts
    <3> HIDE DEF q
    <3>5. Good(q) /\ InHand(q) \subseteq InHand(r)
      BY <2>1, <3>3, <3>4, GoesOn DEF HeadPCs, AfterPCs, BeforePCs
    <3>6. Become(a, q) BY <2>2 DEF q
    <3> QED  BY <1>2, <3>5, <3>6, OneActor, NoMove, Ordinary DEF SpawnChild
  <2>3. CASE spawned' = [spawned EXCEPT ![c] = @ + 1]
    <3>1. spawned[c] \in Nat /\ spawned' # spawned BY <2>1, <2>3 DEF SpawnOK
    <3> QED  BY <1>2, <3>1
  <2> QED  BY <1>2, <2>2, <2>3 DEF SpawnChild
<1>3. CASE RecordChild(a)
  <2> DEFINE won == child[c].status = "launch_pending" /\ child[c].ver = r.seen[c]
             row == IF won THEN Launched(child[c]) ELSE child[c]
             e == [r EXCEPT !.pc = "event"]
             q == [r EXCEPT !.pc = "fail", !.row = row]
             K == KilledTree(c)
  <2>1. r.pc = "record" /\ Good(r) /\ r \in Acts /\ c \in Children
    BY <1>3, Working DEF RecordChild, HeadPCs
  <2>2. child[c] \in Rows BY <2>1 DEF IInv
  <2>3. row \in Rows /\ Edge(child[c].status, row.status)
    BY <2>2, RowOpTypes, OpStatus DEF Edge, Waiting
  <2>4. RowsMove
    <3>1. Save(c, row) BY <1>3 DEF RecordChild
    <3> HIDE DEF row
    <3> QED  BY <2>3, <3>1, OneMove
  <2>5. \/ Become(a, e)
        \/ act' = [b \in Actors |-> IF Stopped(b, K) THEN Done
                                    ELSE IF b = a THEN q ELSE act[b]]
    BY <1>3 DEF RecordChild
  <2> HIDE DEF row
  <2>6. e \in Acts /\ e.pc = "event" /\ e.todo = r.todo
    <3>1. e \in Acts BY <2>1, ActFields DEF ActPCs
    <3> QED  BY <2>1, <3>1 DEF Acts
  <2>7. q \in Acts /\ q.pc = "fail" /\ q.todo = r.todo
    <3>1. [r EXCEPT !.pc = "fail"] \in Acts BY <2>1, ActFields DEF ActPCs
    <3>2. q \in Acts BY <2>3, <3>1, ActFields, Zenon
    <3> QED  BY <2>1, <3>2 DEF Acts
  <2> HIDE DEF q, e, K
  <2>8. Good(e) /\ InHand(e) \subseteq InHand(r)
    BY <2>1, <2>6, GoesOn DEF HeadPCs, AfterPCs, BeforePCs
  <2>9. Good(q) /\ InHand(q) \subseteq InHand(r)
    BY <2>1, <2>7, GoesOn DEF HeadPCs, AfterPCs, BeforePCs
  <2>10. ActsFollow BY <2>5, <2>8, <2>9, OneActor, OthersStopped
  <2> QED  BY <1>3, <2>4, <2>10, Ordinary DEF RecordChild
<1>4. CASE EventChild(a)
  <2>1. c \in Children /\ child[c] \in Rows BY <1>4, Working DEF EventChild, HeadPCs, IInv
  <2>2. Edge(child[c].status, SetPhase(child[c], "worker").status) BY <2>1, OpStatus DEF Edge
  <2>3. RowsMove BY <1>4, <2>2, OneMove DEF EventChild
  <2> QED  BY <1>4, <2>3, NextLaunchFollows, Ordinary DEF EventChild
<1>5. CASE FailChild(a)
  <2> DEFINE row == IF Matches(child[c], r.row) THEN ToTerminal(child[c], "failed") ELSE child[c]
  <2>1. c \in Children /\ child[c] \in Rows /\ child[c].status # "none"
    BY <1>5, Working DEF FailChild, HeadPCs, IInv
  <2>2. Edge(child[c].status, row.status)
    BY <2>1, OpStatus DEF Edge, Matches, IsTerminal, Rows, Statuses
  <2>3. Save(c, row) BY <1>5 DEF FailChild
  <2> HIDE DEF row
  <2>4. RowsMove BY <2>2, <2>3, OneMove
  <2> QED  BY <1>5, <2>4, NextLaunchFollows, Ordinary DEF FailChild
<1> QED  BY <1>1, <1>2, <1>3, <1>4, <1>5

\* The bookkeeping of a refill.
LEMMA RefillOrderly ==
    ASSUME AInv, NEW a \in Actors, ReadMembers(a) \/ EndRefill(a)
    PROVE  Orderly
<1> DEFINE r == act[a]
<1> USE DEF AInv
<1>1. r \in Acts /\ Good(r) BY DEF ActorsOK
<1>2. CASE ReadMembers(a)
  <2> DEFINE S == {c \in Range(r.todo) : child[c].status = "launch_pending"}
             todo == InOrder(S)
             pc == IF todo = <<>> THEN "refresh" ELSE "spawn"
             q == [r EXCEPT !.pc = pc, !.todo = todo]
  <2>1. Become(a, q) /\ r.pc = "members" BY <1>2 DEF ReadMembers
  <2>2. r.todo \in Seq(Children) BY <1>1 DEF Acts
  <2>3. S \in SUBSET Children /\ S \subseteq Elements(r.todo) BY <2>2 DEF Range, Elements
  <2>4. Sortable(S) BY <2>3, KnownSortable
  <2> HIDE DEF S
  <2>5. /\ todo \in Seq(Children) /\ Distinct(todo)
        /\ Elements(todo) \subseteq Elements(r.todo)
    BY <2>3, <2>4, InOrderLists
  <2> HIDE DEF todo
  <2>6. q \in Acts /\ q.pc = pc /\ q.todo = todo
    <3>1. pc \in ActPCs BY DEF ActPCs
    <3>2. [r EXCEPT !.pc = pc] \in Acts BY <1>1, <3>1, ActFields
    <3>3. q \in Acts BY <2>5, <3>2, ActFields, Zenon
    <3> QED  BY <1>1, <3>3 DEF Acts
  <2>7. Good(q) BY <1>1, <2>5, <2>6 DEF Good, ActOK, HeadPCs
  <2>8. InHand(q) \subseteq InHand(r) BY <2>1, <2>5, <2>6 DEF InHand, BeforePCs, AfterPCs
  <2> HIDE DEF q
  <2> QED  BY <1>2, <2>1, <2>7, <2>8, OneActor, NoMove, Ordinary DEF ReadMembers
<1>3. CASE EndRefill(a)
  <2> DEFINE q == Rec(r, "claim", r.todo, Unseen, r.row, r.rounds - 1)
  <2>1. ActsFollow
    <3>1. CASE r.rounds > 1
      <4>1. r.rounds - 1 \in 0..2 /\ r.todo \in Seq(Children) /\ r.row \in Rows
            /\ Unseen \in [Children -> Nat] /\ "claim" \in ActPCs
        BY <1>1, <3>1, Resting DEF Acts, ActPCs
      <4>2. q \in Acts /\ q.pc = "claim" /\ q.todo = r.todo BY <1>1, <4>1, RecTypes
      <4>3. q = [r EXCEPT !.pc = "claim", !.rounds = @ - 1, !.seen = Unseen] BY <1>1 DEF Rec, Acts
      <4>4. Become(a, q) BY <1>3, <3>1, <4>3 DEF EndRefill
      <4> HIDE DEF q
      <4>5. Good(q) /\ InHand(q) \subseteq InHand(r)
        BY <1>1, <4>2, GoesOn DEF HeadPCs, AfterPCs, BeforePCs
      <4> QED  BY <4>4, <4>5, OneActor
    <3>2. CASE ~(r.rounds > 1)
      <4>1. Become(a, Idle) \/ Become(a, Done) BY <1>3, <3>2 DEF EndRefill
      <4> QED  BY <4>1, Resting, OneActor
    <3> QED  BY <3>1, <3>2
  <2>2. RowsMove /\ group' = Refreshed /\ UNCHANGED spawned BY <1>3, NoMove DEF EndRefill
  <2>3. server' = server \/ server' = [server EXCEPT !.pc = "ready"] BY <1>3 DEF EndRefill
  <2>4. ServerOK' BY <2>3 DEF ServerOK
  <2> QED  BY <2>1, <2>2, <2>4 DEF Orderly
<1> QED  BY <1>2, <1>3

\* Going on with the next child to cancel, or with the refill.
LEMMA AfterCancelFollows ==
    ASSUME AInv, NEW a \in Actors, act[a].pc \in {"read", "mark", "settle"},
           NEW won \in BOOLEAN, Become(a, AfterCancel(a, won))
    PROVE  ActsFollow
<1> DEFINE r == act[a]
           rest == Tail(r.todo)
           q == Rec(r, "read", rest, r.seen, NoRow, r.rounds)
           e == Rec(r, "claim", <<>>, r.seen, NoRow, r.rounds)
<1>1. Good(r) /\ r \in Acts /\ rest \in Seq(Children) /\ r.pc \in HeadPCs
  BY Working DEF AInv, HeadPCs
<1>2. /\ r.seen \in [Children -> Nat] /\ r.rounds \in 0..2 /\ NoRow \in Rows
      /\ "read" \in ActPCs /\ "claim" \in ActPCs /\ <<>> \in Seq(Children)
  BY <1>1, Resting DEF Acts, ActPCs
<1>3. q \in Acts /\ q.pc = "read" /\ q.todo = rest
  <2> HIDE DEF rest, r
  <2> QED  BY <1>1, <1>2, RecTypes
<1>4. e \in Acts /\ e.pc = "claim" /\ e.todo = <<>>
  <2> DEFINE nobody == <<>>
  <2>1. nobody \in Seq(Children) /\ e = Rec(r, "claim", nobody, r.seen, NoRow, r.rounds) BY <1>2
  <2> HIDE DEF nobody, r, e
  <2>2. /\ r \in Acts /\ nobody \in Seq(Children) /\ "claim" \in ActPCs /\ NoRow \in Rows
        /\ r.seen \in [Children -> Nat] /\ r.rounds \in 0..2
    BY <1>1, <1>2, <2>1
  <2>3. /\ Rec(r, "claim", nobody, r.seen, NoRow, r.rounds) \in Acts
        /\ Rec(r, "claim", nobody, r.seen, NoRow, r.rounds).pc = "claim"
        /\ Rec(r, "claim", nobody, r.seen, NoRow, r.rounds).todo = nobody
    BY <2>2, RecTypes
  <2> QED  BY <2>1, <2>3 DEF nobody
<1>5. /\ q = [r EXCEPT !.pc = "read", !.todo = rest, !.row = NoRow]
      /\ e = [r EXCEPT !.pc = "claim", !.todo = <<>>, !.row = NoRow]
  BY <1>1 DEF Rec, Acts
<1>6. \/ rest # <<>> /\ AfterCancel(a, won) = q
      \/ AfterCancel(a, won) \in {Done, e}
  BY <1>5 DEF AfterCancel
<1> HIDE DEF q, e
<1>7. rest # <<>> => Good(q) /\ InHand(q) \subseteq InHand(r)
  BY <1>1, <1>3, GoesToNext DEF HeadPCs, AfterPCs, BeforePCs
<1>8. Good(e) /\ InHand(e) = {} BY <1>4, TakesUp DEF Elements, HeadPCs, AfterPCs, BeforePCs
<1> QED  BY <1>6, <1>7, <1>8, Resting, OneActor DEF AInv

\* Cancellation of the children in hand.
LEMMA CancelOrderly ==
    ASSUME AInv, NEW a \in Actors, CancelStep(a)
    PROVE  Orderly
<1> DEFINE r == act[a]
           c == Head(r.todo)
<1> USE DEF AInv
<1>1. r.pc \in HeadPCs \ (BeforePCs \cup AfterPCs)
  BY DEF CancelStep, CancelRead, CancelMark, CancelKill, CancelFinish, HeadPCs, BeforePCs, AfterPCs
<1>2. /\ Good(r) /\ r \in Acts /\ c \in Children /\ child[c] \in Rows
      /\ child[c].status # "none"
  BY <1>1, Working DEF IInv
<1>3. CASE CancelRead(a)
  <2> DEFINE q == [r EXCEPT !.pc = "mark", !.row = child[c]]
  <2>1. Become(a, AfterCancel(a, FALSE)) \/ Become(a, q) BY <1>3 DEF CancelRead
  <2>2. q \in Acts
    <3>1. [r EXCEPT !.pc = "mark"] \in Acts BY <1>2, ActFields DEF ActPCs
    <3> QED  BY <1>2, <3>1, ActFields, Zenon
  <2>3. q.pc = "mark" /\ q.todo = r.todo BY <1>2 DEF Acts
  <2> HIDE DEF q
  <2>4. Good(q) /\ InHand(q) \subseteq InHand(r)
    BY <1>1, <1>2, <2>2, <2>3, GoesOn DEF HeadPCs, AfterPCs, BeforePCs
  <2>5. ActsFollow BY <1>3, <2>1, <2>4, AfterCancelFollows, OneActor DEF CancelRead
  <2> QED  BY <1>3, <2>5, NoMove, Ordinary DEF CancelRead
<1>4. CASE CancelMark(a)
  <2> DEFINE q == [r EXCEPT !.pc = "kill"]
  <2>1. \/ /\ Matches(child[c], r.row) /\ Become(a, q)
           /\ Save(c, SetStatus(child[c], "cancellation_pending"))
        \/ Become(a, AfterCancel(a, FALSE)) /\ UNCHANGED child
    BY <1>4 DEF CancelMark
  <2>2. q \in Acts BY <1>2, ActFields DEF ActPCs
  <2>3. q.pc = "kill" /\ q.todo = r.todo BY <1>2 DEF Acts
  <2> HIDE DEF q
  <2>4. Good(q) /\ InHand(q) \subseteq InHand(r)
    BY <1>1, <1>2, <2>2, <2>3, GoesOn DEF HeadPCs, AfterPCs, BeforePCs
  <2>5. ActsFollow BY <1>4, <2>1, <2>4, AfterCancelFollows, OneActor DEF CancelMark
  <2>6. Matches(child[c], r.row)
          => Edge(child[c].status, SetStatus(child[c], "cancellation_pending").status)
    BY <1>2, OpStatus DEF Edge, Matches, IsTerminal, Rows, Statuses
  <2>7. RowsMove BY <2>1, <2>6, OneMove, NoMove
  <2> QED  BY <1>4, <2>5, <2>7, Ordinary DEF CancelMark
<1>5. CASE CancelKill(a)
  <2> DEFINE K == IF r.row.lpid \/ r.row.wpid THEN KilledTree(c) ELSE {}
             q == [r EXCEPT !.pc = "settle", !.row = child[c]]
  <2>1. act' = [b \in Actors |-> IF Stopped(b, K) THEN Done
                                 ELSE IF b = a THEN q ELSE act[b]]
    BY <1>5 DEF CancelKill
  <2>2. q \in Acts
    <3>1. [r EXCEPT !.pc = "settle"] \in Acts BY <1>2, ActFields DEF ActPCs
    <3> QED  BY <1>2, <3>1, ActFields, Zenon
  <2>3. q.pc = "settle" /\ q.todo = r.todo BY <1>2 DEF Acts
  <2> HIDE DEF q, K
  <2>4. Good(q) /\ InHand(q) \subseteq InHand(r)
    BY <1>1, <1>2, <2>2, <2>3, GoesOn DEF HeadPCs, AfterPCs, BeforePCs
  <2>5. ActsFollow BY <2>1, <2>4, OthersStopped
  <2> QED  BY <1>5, <2>5, NoMove, Ordinary DEF CancelKill
<1>6. CASE CancelFinish(a)
  <2> DEFINE won == child[c].status = "cancellation_pending" /\ child[c].ver = r.row.ver
             row == IF won THEN ToTerminal(child[c], "cancelled") ELSE child[c]
  <2>1. Save(c, row) /\ Become(a, AfterCancel(a, won)) /\ won \in BOOLEAN BY <1>6 DEF CancelFinish
  <2>2. Edge(child[c].status, row.status) BY <1>2, OpStatus DEF Edge
  <2> HIDE DEF row, won
  <2>3. RowsMove BY <2>1, <2>2, OneMove
  <2>4. ActsFollow BY <1>6, <2>1, AfterCancelFollows DEF CancelFinish
  <2> QED  BY <1>6, <2>3, <2>4, Ordinary DEF CancelFinish
<1> QED  BY <1>3, <1>4, <1>5, <1>6 DEF CancelStep

\* Two lists, one after the other.
LEMMA Concatenated ==
    ASSUME NEW s \in Seq(Children), NEW t \in Seq(Children)
    PROVE  s \o t \in Seq(Children) /\ Elements(s \o t) \subseteq Elements(s) \cup Elements(t)
<1>1. /\ s \o t \in Seq(Children) /\ Len(s \o t) = Len(s) + Len(t)
      /\ Len(s) \in Nat /\ Len(t) \in Nat
  OBVIOUS
<1>2. ASSUME NEW i \in 1..Len(s \o t)
      PROVE  (s \o t)[i] \in Elements(s) \cup Elements(t)
  <2>1. CASE i <= Len(s)
    <3>1. i \in 1..Len(s) /\ (s \o t)[i] = s[i] BY <1>1, <2>1
    <3> QED  BY <3>1 DEF Elements
  <2>2. CASE ~(i <= Len(s))
    <3>1. i - Len(s) \in 1..Len(t) /\ (s \o t)[i] = t[i - Len(s)] BY <1>1, <2>2
    <3> QED  BY <3>1 DEF Elements
  <2> QED  BY <2>1, <2>2
<1>3. Elements(s \o t) = {(s \o t)[i] : i \in 1..Len(s \o t)} BY DEF Elements
<1> QED  BY <1>1, <1>2, <1>3

\* A client asks for a cancellation.
LEMMA RequestOrderly ==
    ASSUME AInv, NEW a \in Clients,
           \/ \E g \in Groups : CancelGroup(a, g)
           \/ \E c \in Children : CancelRun(a, c)
    PROVE  Orderly
<1> USE DEF AInv
<1>1. a \in Actors /\ Idle \in Acts /\ Idle.seen \in [Children -> Nat] /\ Idle.row \in Rows
  BY Resting DEF Actors, Acts
<1>2. ASSUME NEW c \in Children, CancelRun(a, c) PROVE Orderly
  <2> DEFINE q == [Idle EXCEPT !.kind = "child", !.pc = "read", !.todo = <<c>>, !.rounds = 1]
  <2>1. q \in Acts /\ q.pc = "read" /\ q.todo = <<c>>
    <3>1. [Idle EXCEPT !.kind = "child"] \in Acts BY <1>1, ActFields DEF Kinds
    <3>2. [Idle EXCEPT !.kind = "child", !.pc = "read"] \in Acts
      BY <3>1, ActFields, Zenon DEF ActPCs
    <3>3. <<c>> \in Seq(Children) /\ 1 \in 0..2
      OBVIOUS
    <3>4. [Idle EXCEPT !.kind = "child", !.pc = "read", !.todo = <<c>>] \in Acts
      BY <3>2, <3>3, ActFields, Zenon
    <3>5. q \in Acts BY <3>3, <3>4, ActFields, Zenon
    <3> QED  BY <1>1, <3>5 DEF Acts
  <2>2. Elements(<<c>>) = {c} BY DEF Elements
  <2>3. child[c].status # "none" /\ Become(a, q) BY <1>2 DEF CancelRun
  <2> HIDE DEF q
  <2>4. Good(q) /\ InHand(q) = {} BY <2>1, <2>2, <2>3, TakesUp DEF HeadPCs, BeforePCs, AfterPCs
  <2> QED  BY <1>1, <1>2, <2>3, <2>4, OneActor, NoMove, Ordinary DEF CancelRun
<1>3. ASSUME NEW g \in Groups, CancelGroup(a, g) PROVE Orderly
  <2> DEFINE open == {c \in Siblings(g) : ~IsTerminal(child[c])}
             early == {c \in open : child[c].status \in
                         {"pending", "launch_pending", "queued", "recovery_pending"}}
             todo == InOrder(early) \o InOrder(open \ early)
             pc == IF todo = <<>> THEN "claim" ELSE "read"
             q == [Idle EXCEPT !.kind = "group", !.rounds = 1, !.todo = todo, !.pc = pc]
  <2>1. Become(a, q) /\ group[g].status # "none" BY <1>3 DEF CancelGroup
  <2>2. early \subseteq Siblings(g) /\ open \ early \subseteq Siblings(g)
    OBVIOUS
  <2> HIDE DEF early, open
  <2>3. /\ InOrder(early) \in Seq(Children) /\ InOrder(open \ early) \in Seq(Children)
        /\ Elements(InOrder(early)) \subseteq Siblings(g)
        /\ Elements(InOrder(open \ early)) \subseteq Siblings(g)
    BY <2>2, SiblingsSortable, InOrderLists
  <2>4. todo \in Seq(Children) /\ Elements(todo) \subseteq Siblings(g) BY <2>3, Concatenated
  <2>5. \A c \in Siblings(g) : child[c].status # "none" BY <2>1 DEF GroupsOK, Siblings
  <2> HIDE DEF todo
  <2>6. q \in Acts /\ q.pc = pc /\ q.todo = todo
    <3>1. [Idle EXCEPT !.kind = "group"] \in Acts BY <1>1, ActFields DEF Kinds
    <3>2. [Idle EXCEPT !.kind = "group", !.rounds = 1] \in Acts
      <4>1. 1 \in 0..2
        OBVIOUS
      <4> QED  BY <3>1, <4>1, ActFields, Zenon
    <3>3. [Idle EXCEPT !.kind = "group", !.rounds = 1, !.todo = todo] \in Acts
      BY <2>4, <3>2, ActFields, Zenon
    <3>4. pc \in ActPCs BY DEF ActPCs
    <3>5. q \in Acts BY <3>3, <3>4, ActFields, Zenon
    <3> QED  BY <1>1, <3>5 DEF Acts
  <2> HIDE DEF q
  <2>7. Good(q) /\ InHand(q) = {} BY <2>4, <2>5, <2>6, TakesUp DEF HeadPCs, BeforePCs, AfterPCs
  <2> QED  BY <1>1, <1>3, <2>1, <2>7, OneActor, NoMove, Ordinary DEF CancelGroup
<1> QED  BY <1>2, <1>3

\* A worker.
LEMMA WorkerOrderly ==
    ASSUME AInv, NEW c \in Children,
           WorkerStep(c) \/ EndChild(c) \/ OrphanExit(c) \/ WorkerCrash(c)
    PROVE  Orderly
<1> USE DEF AInv
<1>1. child[c] \in Rows /\ c \in Actors BY DEF IInv, Actors
<1>2. CASE WorkerRead(c) \/ EndChild(c) \/ WorkerFinish(c) \/ OrphanExit(c)
  BY <1>2, NoMove, NobodyActs, Ordinary
     DEF WorkerRead, EndChild, WorkerFinish, OrphanExit
<1>3. CASE WorkerClaim(c)
  <2>1. \/ UNCHANGED child
        \/ child[c].status \in {"launch_pending", "queued"} /\ Save(c, ToRunning(child[c]))
    BY <1>3 DEF WorkerClaim
  <2>2. child[c].status \in {"launch_pending", "queued"}
          => Edge(child[c].status, ToRunning(child[c]).status)
    BY <1>1, OpStatus DEF Edge, Waiting
  <2>3. RowsMove BY <2>1, <2>2, NoMove, OneMove
  <2> QED  BY <1>3, <2>3, NobodyActs, Ordinary DEF WorkerClaim
<1>4. CASE StartChild(c)
  <2>1. UNCHANGED child \/ Save(c, Attached(child[c])) BY <1>4 DEF StartChild
  <2>2. Edge(child[c].status, Attached(child[c]).status) BY <1>1, OpStatus DEF Edge
  <2>3. RowsMove BY <2>1, <2>2, NoMove, OneMove
  <2> QED  BY <1>4, <2>3, NobodyActs, Ordinary DEF StartChild
<1>5. CASE WorkerCommit(c)
  <2> DEFINE row == IF child[c].status = "running" /\ child[c].ver = proc[c].ver
                    THEN ToTerminal(child[c], proc[c].out) ELSE child[c]
  <2>1. proc[c].out \in {"completed", "failed", "timed_out"}
    BY <1>5 DEF WorkerCommit, IInv, HasResult, Procs, Terminal
  <2>2. Edge(child[c].status, row.status) BY <1>1, <2>1, OpStatus DEF Edge, Active
  <2>3. Save(c, row) BY <1>5 DEF WorkerCommit
  <2> HIDE DEF row
  <2>4. RowsMove BY <2>2, <2>3, OneMove
  <2> QED  BY <1>5, <2>4, NobodyActs, Ordinary DEF WorkerCommit
<1>6. CASE EnforcePolicy(c)
  <2> DEFINE others == InOrder({d \in Siblings(GroupOf[c]) \ {c} : ~IsTerminal(child[d])})
             pc == IF others = <<>> THEN "claim" ELSE "read"
             p == [Idle EXCEPT !.kind = "policy", !.rounds = 2, !.todo = others, !.pc = pc]
             e == [Idle EXCEPT !.kind = "exit", !.rounds = 1, !.pc = "claim"]
             enforced == /\ GroupOf[c] \in CancelRemaining
                         /\ child[c].status \in {"failed", "timed_out"}
  <2>1. (enforced /\ Become(c, p)) \/ Become(c, e) BY <1>6 DEF EnforcePolicy
  <2>2. others \in Seq(Children) /\ Elements(others) \subseteq Siblings(GroupOf[c])
    <3> DEFINE S == {d \in Siblings(GroupOf[c]) \ {c} : ~IsTerminal(child[d])}
    <3>1. S \subseteq Siblings(GroupOf[c])
      OBVIOUS
    <3> HIDE DEF S
    <3>2. InOrder(S) \in Seq(Children) /\ Elements(InOrder(S)) \subseteq Siblings(GroupOf[c])
      BY <3>1, SiblingsSortable, InOrderLists
    <3> QED  BY <3>2 DEF S
  <2>3. enforced => \A d \in Siblings(GroupOf[c]) : child[d].status # "none"
    <3> SUFFICES ASSUME enforced, NEW d \in Siblings(GroupOf[c]) PROVE child[d].status # "none"
      OBVIOUS
    <3>1. group[GroupOf[c]].status # "none" BY DEF GroupsOK
    <3> QED  BY <3>1 DEF GroupsOK, Siblings
  <2> HIDE DEF others, enforced
  <2>4. Idle \in Acts BY Resting
  <2>5. p \in Acts /\ p.pc = pc /\ p.todo = others
    <3>1. [Idle EXCEPT !.kind = "policy"] \in Acts BY <2>4, ActFields DEF Kinds
    <3>2. 2 \in 0..2 /\ pc \in ActPCs BY DEF ActPCs
    <3>3. [Idle EXCEPT !.kind = "policy", !.rounds = 2] \in Acts BY <3>1, <3>2, ActFields, Zenon
    <3>4. [Idle EXCEPT !.kind = "policy", !.rounds = 2, !.todo = others] \in Acts
      BY <2>2, <3>3, ActFields, Zenon
    <3>5. p \in Acts BY <3>2, <3>4, ActFields, Zenon
    <3> QED  BY <2>4, <3>5 DEF Acts
  <2>6. e \in Acts /\ e.pc = "claim" /\ e.todo = <<>>
    <3>1. [Idle EXCEPT !.kind = "exit"] \in Acts BY <2>4, ActFields DEF Kinds
    <3>2. 1 \in 0..2 /\ "claim" \in ActPCs BY DEF ActPCs
    <3>3. [Idle EXCEPT !.kind = "exit", !.rounds = 1] \in Acts BY <3>1, <3>2, ActFields, Zenon
    <3>4. e \in Acts BY <3>2, <3>3, ActFields, Zenon
    <3> QED  BY <2>4, <3>4, Resting DEF Acts
  <2> HIDE DEF p, e
  <2>7. enforced => Good(p) /\ InHand(p) = {}
    BY <2>2, <2>3, <2>5, TakesUp DEF HeadPCs, BeforePCs, AfterPCs
  <2>8. Good(e) /\ InHand(e) = {} BY <2>6, TakesUp DEF Elements, HeadPCs, BeforePCs, AfterPCs
  <2>9. ActsFollow BY <1>1, <2>1, <2>7, <2>8, OneActor
  <2> QED  BY <1>6, <2>9, NoMove, Ordinary DEF EnforcePolicy
<1>7. CASE WorkerCrash(c)
  <2>1. UNCHANGED act \/ Become(c, Done) BY <1>7 DEF WorkerCrash, Become
  <2>2. ActsFollow BY <1>1, <2>1, NobodyActs, OneActor, Resting
  <2> QED  BY <1>7, <2>2, NoMove, Ordinary DEF WorkerCrash
<1> QED  BY <1>2, <1>3, <1>4, <1>5, <1>6, <1>7 DEF WorkerStep

\* The server dies and restarts.
LEMMA ServerOrderly ==
    ASSUME AInv, ServerCrash \/ RestartStep
    PROVE  Orderly
<1> USE DEF AInv
<1>1. NoRow \in Rows /\ NoRow.cpid = FALSE BY Resting DEF NoRow
<1>2. CASE ServerCrash
  <2>1. ActsFollow BY <1>2, Resting DEF ServerCrash, ActsFollow
  <2>2. server' = [server EXCEPT !.pc = "down", !.crashes = @ + 1, !.todo = {},
                                 !.listed = [c \in Children |-> NoRow]]
    BY <1>2 DEF ServerCrash
  <2>3. ServerOK'
    <3> DEFINE listed == [c \in Children |-> NoRow]
    <3>1. /\ listed \in [Children -> Rows] /\ {} \in SUBSET Children
          /\ \A c \in Children : ~listed[c].cpid
          /\ server.crashes + 1 \in Nat
      BY <1>1 DEF ServerOK
    <3>2. server' = [server EXCEPT !.pc = "down", !.crashes = @ + 1, !.todo = {},
                                   !.listed = listed]
      BY <2>2
    <3> HIDE DEF listed
    <3> QED  BY <3>1, <3>2 DEF ServerOK
  <2> QED  BY <1>2, <2>1, <2>3, NoMove DEF ServerCrash, Orderly
<1>3. CASE ServerRestart
  <2> DEFINE todo == {c \in Children : IsActive(c)}
             listed == [c \in Children |-> IF c \in todo THEN child[c] ELSE NoRow]
  <2>1. server' = [server EXCEPT !.pc = "runs", !.todo = todo, !.listed = listed]
    BY <1>3 DEF ServerRestart
  <2>2. listed \in [Children -> Rows] BY <1>1 DEF IInv
  <2>3. \A c \in Children : listed[c].status = "none" => ~listed[c].cpid
    BY <1>1 DEF IsActive, Active
  <2>4. todo \in SUBSET Children
    OBVIOUS
  <2> HIDE DEF todo, listed
  <2>5. ServerOK' BY <2>1, <2>2, <2>3, <2>4 DEF ServerOK
  <2> QED  BY <1>3, <2>5, NoMove, NobodyActs DEF ServerRestart, Orderly
<1>4. CASE ReconcileRefill
  <2> DEFINE q == [Idle EXCEPT !.kind = "startup", !.pc = "claim", !.rounds = 1]
  <2>1. q \in Acts /\ q.pc = "claim" /\ q.todo = <<>>
    <3>1. [Idle EXCEPT !.kind = "startup"] \in Acts BY Resting, ActFields DEF Kinds
    <3>2. 1 \in 0..2 /\ "claim" \in ActPCs BY DEF ActPCs
    <3>3. [Idle EXCEPT !.kind = "startup", !.pc = "claim"] \in Acts BY <3>1, <3>2, ActFields, Zenon
    <3>4. q \in Acts BY <3>2, <3>3, ActFields, Zenon
    <3> QED  BY <3>4, Resting DEF Acts
  <2>2. Become(Startup, q) /\ Startup \in Actors BY <1>4 DEF ReconcileRefill, Actors
  <2> HIDE DEF q
  <2>3. Good(q) /\ InHand(q) = {} BY <2>1, TakesUp DEF Elements, HeadPCs, BeforePCs, AfterPCs
  <2>4. ActsFollow BY <2>2, <2>3, OneActor
  <2>5. ServerOK' BY <1>4 DEF ReconcileRefill, ServerOK
  <2> QED  BY <1>4, <2>4, <2>5, NoMove DEF ReconcileRefill, Orderly
<1>5. ASSUME NEW c \in Children, ReconcileRun(c) PROVE Orderly
  <2> PICK row \in Reconciled(c) : Save(c, row) BY <1>5 DEF ReconcileRun
  <2> DEFINE s == server.listed[c]
  <2>1. child[c] \in Rows /\ s \in Rows /\ (s.status = "none" => ~s.cpid) BY DEF IInv, ServerOK
  <2>2. \/ row.status = child[c].status
        \/ child[c].status = "running" /\ row.status = "failed"
        \/ child[c].status \notin {"none"} \cup Terminal /\ row.status = "recovery_pending"
    <3>1. CASE s.wpid /\ Alive(c)
      <4>1. row \in {child[c], [Bump(child[c]) EXCEPT !.phase = "worker"]} BY <3>1 DEF Reconciled
      <4> QED  BY <2>1, <4>1, OpStatus
    <3>2. CASE ~(s.wpid /\ Alive(c)) /\ s.cpid /\ proc[c].open
      <4>1. row = IF Matches(child[c], s) THEN SetStatus(child[c], "recovery_pending")
                  ELSE child[c]
        BY <3>2 DEF Reconciled
      <4> QED  BY <2>1, <3>2, <4>1, OpStatus DEF Matches, IsTerminal
    <3>3. CASE ~(s.wpid /\ Alive(c)) /\ ~(s.cpid /\ proc[c].open)
      <4>1. row = IF s.status = "running" /\ Matches(child[c], s)
                  THEN ToTerminal(child[c], "failed") ELSE child[c]
        BY <3>3 DEF Reconciled
      <4> QED  BY <2>1, <4>1, OpStatus DEF Matches
    <3> QED  BY <3>1, <3>2, <3>3
  <2>3. Edge(child[c].status, row.status) BY <2>1, <2>2 DEF Edge, Rows, Statuses, Active
  <2>4. RowsMove BY <2>3, OneMove
  <2>5. server' = [server EXCEPT !.todo = @ \ {c}, !.listed[c] = NoRow] BY <1>5 DEF ReconcileRun
  <2>6. ServerOK' BY <1>1, <2>5 DEF ServerOK
  <2> QED  BY <1>5, <2>4, <2>6, NobodyActs DEF ReconcileRun, Orderly
<1> QED  BY <1>2, <1>3, <1>4, <1>5 DEF RestartStep

----
(* The steps that start a process or take children in hand. *)

\* A started child leaves the hand it was in.
LEMMA SpawnKeepsInv ==
    ASSUME AInv, IInv', NEW a \in Actors, SpawnChild(a), spawned' # spawned
    PROVE  AInv'
<1> DEFINE r == act[a]
           c == Head(r.todo)
           seen == [r.seen EXCEPT ![c] = IF r.kind = "launch" THEN child[c].ver ELSE @]
           q == [r EXCEPT !.pc = "record", !.seen = seen]
<1> USE DEF AInv
<1>1. /\ r.pc = "spawn" /\ r \in Acts /\ Good(r) /\ c \in Children /\ child[c] \in Rows
      /\ r.todo \in Seq(Children) /\ r.todo # <<>> /\ c \notin Elements(Tail(r.todo))
      /\ Elements(Tail(r.todo)) \subseteq Elements(r.todo)
  BY Working DEF SpawnChild, HeadPCs, BeforePCs, IInv
<1>2. c \in InHand(r) /\ InHand(r) = Elements(r.todo) BY <1>1, HeadAndTail DEF InHand, BeforePCs
<1>3. spawned' = [spawned EXCEPT ![c] = @ + 1]
      /\ Become(a, [r EXCEPT !.pc = "record",
                             !.seen[c] = IF r.kind = "launch" THEN child[c].ver ELSE @])
      /\ UNCHANGED <<child, group, server>>
  BY DEF SpawnChild
<1>4. Become(a, q) BY <1>3
<1>5. q \in Acts /\ q.pc = "record" /\ q.todo = r.todo
  <2>1. seen \in [Children -> Nat] /\ "record" \in ActPCs BY <1>1 DEF Acts, Rows, ActPCs
  <2> HIDE DEF seen
  <2>2. [r EXCEPT !.pc = "record"] \in Acts BY <1>1, <2>1, ActFields
  <2>3. q \in Acts BY <2>1, <2>2, ActFields, Zenon
  <2> QED  BY <1>1, <2>3 DEF Acts
<1> HIDE DEF q
<1>6. Good(q) BY <1>1, <1>5, GoesOn DEF HeadPCs, AfterPCs, BeforePCs
<1>7. InHand(q) \subseteq InHand(r) \ {c} BY <1>1, <1>2, <1>5 DEF InHand, BeforePCs, AfterPCs
<1>8. act' = [b \in Actors |-> IF b = a THEN q ELSE act[b]] BY <1>4 DEF Become, ActorsOK
<1>9. \A b \in Actors : Good(act'[b]) BY <1>6, <1>8 DEF ActorsOK
<1>10. \A b \in Actors : InHand(act'[b]) \subseteq InHand(act[b]) \ {c}
  BY <1>2, <1>7, <1>8 DEF SpawnOK
<1>11. spawned[c] = 0 /\ child[c].status \notin {"none", "pending"} BY <1>2 DEF SpawnOK
<1>12. SpawnOK'
  <2>1. \A d \in Children : spawned'[d] = IF d = c THEN 1 ELSE spawned[d] BY <1>3, <1>11 DEF SpawnOK
  <2>2. spawned' \in [Children -> Nat] BY <1>1, <1>3, <1>11 DEF SpawnOK
  <2>3. \A d \in Children :
          /\ spawned'[d] <= 1
          /\ child'[d].status \in {"none", "pending"} => spawned'[d] = 0
    BY <1>3, <1>11, <2>1 DEF SpawnOK
  <2>4. \A b \in Actors : \A d \in InHand(act'[b]) :
          /\ spawned'[d] = 0 /\ child'[d].status \notin {"none", "pending"}
          /\ \A e \in Actors : d \in InHand(act'[e]) => b = e
    <3> SUFFICES ASSUME NEW b \in Actors, NEW d \in InHand(act'[b])
                 PROVE  /\ spawned'[d] = 0 /\ child'[d].status \notin {"none", "pending"}
                        /\ \A e \in Actors : d \in InHand(act'[e]) => b = e
      OBVIOUS
    <3>1. d \in InHand(act[b]) /\ d # c /\ d \in Children BY <1>10, HandsHoldChildren
    <3> QED  BY <1>3, <1>10, <2>1, <3>1 DEF SpawnOK
  <2> QED  BY <2>2, <2>3, <2>4 DEF SpawnOK
<1>13. ServerOK' BY <1>3, ServerStays
<1>14. act' = [b \in Actors |-> act'[b]] BY <1>8
<1> QED  BY <1>3, <1>9, <1>12, <1>13, <1>14, NoMove, MovesKeep

\* Claimed children were pending, in nobody's hand and not started.
LEMMA ClaimKeepsAInv ==
    ASSUME AInv, IInv', NEW a \in Actors, ClaimPending(a)
    PROVE  RowsMove /\ AInv'
<1> DEFINE r == act[a]
           todo == InOrder(Claimable)
           seen == [c \in Children |-> IF c \in Claimable THEN child[c].ver + 1 ELSE 0]
           q == [r EXCEPT !.pc = "members", !.todo = todo, !.seen = seen]
<1> USE DEF AInv
<1>1. r \in Acts BY DEF ActorsOK
<1>2. /\ Become(a, q) /\ child' = Claimed /\ group' = Refreshed
      /\ UNCHANGED <<server, spawned>>
  BY DEF ClaimPending
<1>3. Claimable \in SUBSET Children /\ \A c \in Claimable : child[c].status = "pending"
  BY DEF Claimable, InGroupSlots, IsPending
<1>4. Sortable(Claimable) BY <1>3, KnownSortable
<1>5. todo \in Seq(Children) /\ Elements(todo) \subseteq Claimable /\ Distinct(todo)
  BY <1>3, <1>4, InOrderLists
<1>6. q \in Acts /\ q.pc = "members" /\ q.todo = todo
  <2>1. "members" \in ActPCs /\ seen \in [Children -> Nat] BY DEF ActPCs, IInv, Rows
  <2> HIDE DEF seen, todo
  <2>2. [r EXCEPT !.pc = "members"] \in Acts BY <1>1, <2>1, ActFields
  <2>3. [r EXCEPT !.pc = "members", !.todo = todo] \in Acts BY <1>5, <2>2, ActFields, Zenon
  <2>4. q \in Acts BY <2>1, <2>3, ActFields, Zenon
  <2> QED  BY <1>1, <2>4 DEF Acts
<1> HIDE DEF q, todo
<1>7. Good(q) BY <1>3, <1>5, <1>6 DEF Good, ActOK, HeadPCs
<1>8. InHand(q) \subseteq Claimable BY <1>5, <1>6 DEF InHand, BeforePCs
<1>9. act' = [b \in Actors |-> IF b = a THEN q ELSE act[b]] BY <1>2 DEF Become, ActorsOK
<1>10. \A c \in Children :
          child'[c].status = IF c \in Claimable THEN "launch_pending" ELSE child[c].status
  BY <1>2, OpStatus DEF Claimed, IInv
<1>11. RowsMove BY <1>3, <1>10 DEF RowsMove, Edge, Waiting
<1>12. \A b \in Actors : InHand(act[b]) \cap Claimable = {} BY <1>3 DEF SpawnOK
<1>13. SpawnOK'
  <2>1. \A c \in Children : child'[c].status \in {"none", "pending"}
                              => child[c].status \in {"none", "pending"}
    BY <1>3, <1>10
  <2>2. \A b \in Actors : \A d \in InHand(act'[b]) :
          /\ spawned[d] = 0 /\ child'[d].status \notin {"none", "pending"}
          /\ \A e \in Actors : d \in InHand(act'[e]) => b = e
    <3> SUFFICES ASSUME NEW b \in Actors, NEW d \in InHand(act'[b])
                 PROVE  /\ spawned[d] = 0 /\ child'[d].status \notin {"none", "pending"}
                        /\ \A e \in Actors : d \in InHand(act'[e]) => b = e
      OBVIOUS
    <3>1. CASE b = a
      <4>1. d \in Claimable BY <1>8, <1>9, <3>1
      <4>2. \A e \in Actors : d \in InHand(act'[e]) => e = a BY <1>9, <1>12, <4>1
      <4> QED  BY <1>3, <1>10, <3>1, <4>1, <4>2 DEF SpawnOK
    <3>2. CASE b # a
      <4>1. d \in InHand(act[b]) /\ d \notin Claimable /\ d \in Children
        BY <1>9, <1>12, <3>2, HandsHoldChildren
      <4>2. \A e \in Actors : d \in InHand(act'[e]) => e # a /\ d \in InHand(act[e])
        BY <1>8, <1>9, <4>1
      <4> QED  BY <1>10, <4>1, <4>2 DEF SpawnOK
    <3> QED  BY <3>1, <3>2
  <2> QED  BY <1>2, <2>1, <2>2 DEF SpawnOK
<1>14. ServerOK' BY <1>2, ServerStays
<1>15. \A b \in Actors : Good(act'[b]) BY <1>7, <1>9 DEF ActorsOK
<1>16. act' = [b \in Actors |-> act'[b]] BY <1>9
<1> QED  BY <1>2, <1>11, <1>13, <1>14, <1>15, <1>16, MovesKeep

\* Only groups of children exist, so that they are finitely many.
LEMMA CreatedFinite ==
    ASSUME GroupsOK
    PROVE  IsFiniteSet(Created) /\ Cardinality(Created) \in Nat
<1> DEFINE T == {GroupOf[c] : c \in Children}
<1>1. GroupOf \in Surjection(Children, T) BY GroupsAssumption DEF Surjection
<1>2. IsFiniteSet(T) BY <1>1, FiniteAssumption, FS_Surjection
<1>3. ASSUME NEW g \in Created PROVE g \in T
  <2>1. Siblings(g) # {} BY DEF Created, GroupsOK
  <2>2. PICK c \in Children : GroupOf[c] = g BY <2>1 DEF Siblings
  <2> QED  BY <2>2
<1>4. IsFiniteSet(Created)
  <2>1. Created \in SUBSET T BY <1>3
  <2> QED  BY <1>2, <2>1, FS_Subset
<1> QED  BY <1>4, FS_CardinalityType

\* A group that has children launches some of them.
LEMMA SomeEligible ==
    ASSUME NEW g \in Groups, Siblings(g) # {}
    PROVE  Eligible(g) # {}
<1> DEFINE before == [x \in Siblings(g) |-> {y \in Siblings(g) : Position[y] < Position[x]}]
<1>1. Limit(g) \in (Nat \ {0}) \cup {None} BY LimitsAssumption DEF Limit
<1>2. IsFiniteSet(Siblings(g)) /\ Cardinality(Siblings(g)) \in Nat BY FiniteSiblings
<1>3. Cardinality(Siblings(g)) # 0 BY <1>2, FS_EmptySet
<1>4. IsOrder(Siblings(g), before) /\ 0 \in 0..(Cardinality(Siblings(g)) - 1)
  BY <1>2, <1>3, PositionOrder
<1>5. PICK x \in Siblings(g) : Cardinality(before[x]) = 0
  <2> HIDE DEF before
  <2> QED  BY <1>2, <1>4, RankOnto
<1>6. Limit(g) = None \/ Cardinality({d \in Siblings(g) : Position[d] < Position[x]}) < Limit(g)
  BY <1>1, <1>5
<1> QED  BY <1>6 DEF Eligible

\* A new group: nobody knows its children.
LEMMA ReserveKeepsAInv ==
    ASSUME AInv, IInv', NEW a \in Clients, NEW g \in Groups, ReserveGroup(a, g)
    PROVE  AInv'
<1> DEFINE todo == InOrder(Eligible(g))
           n == Cardinality(Created)
           q == [Idle EXCEPT !.kind = "launch", !.pc = "files", !.todo = todo]
<1> USE DEF AInv
<1>1. /\ group[g].status = "none" /\ Siblings(g) # {} /\ Become(a, q)
      /\ group' = [group EXCEPT ![g] = [status |-> "launch_pending", created |-> 1 + n]]
      /\ UNCHANGED <<proc, server, spawned>>
  BY DEF ReserveGroup, Created
<1>2. \A c \in Children : child'[c] = IF GroupOf[c] # g THEN child[c]
                          ELSE NewChild(IF c \in Eligible(g) THEN "launch_pending" ELSE "pending")
  BY DEF ReserveGroup
<1>3. \A c \in Children :
        /\ GroupOf[c] # g => child'[c] = child[c]
        /\ GroupOf[c] = g => child[c].status = "none"
                             /\ child'[c].status = IF c \in Eligible(g) THEN "launch_pending"
                                                   ELSE "pending"
  <2>1. \A st : NewChild(st).status = st BY DEF NewChild, NoRow
  <2> QED  BY <1>1, <1>2, <2>1 DEF GroupsOK
<1>4. n \in Nat /\ IsFiniteSet(Created) /\ g \notin Created
  BY <1>1, CreatedFinite DEF Created, GroupsOK
<1>5. /\ group'[g].status = "launch_pending" /\ group'[g].created = 1 + n
      /\ \A h \in Groups : h # g => group'[h] = group[h]
      /\ group' \in [Groups -> [status : GroupStatuses, created : Nat]]
  BY <1>1, <1>4 DEF GroupsOK, GroupStatuses
<1>6. Created' = Created \cup {g} BY <1>4, <1>5 DEF Created
<1>7. Cardinality(Created') = n + 1 BY <1>4, <1>6, FS_AddElement
<1>8. GroupsOK'
  <2>1. ASSUME NEW h \in Groups
        PROVE  /\ group'[h].status = "none" <=> group'[h].created = 0
               /\ group'[h].created > 0 => Siblings(h)' # {}
               /\ group'[h].created <= Cardinality(Created')
               /\ \A k \in Created' : group'[h].created = group'[k].created => h = k
    <3>1. Siblings(h)' = Siblings(h) BY DEF Siblings
    <3>2. CASE h = g
      <4>1. \A k \in Created : /\ group[k].created \in Nat /\ group[k].created <= n
                               /\ k # g /\ k \in Groups
        BY <1>4 DEF GroupsOK, Created
      <4>2. \A k \in Created : group'[k].created # 1 + n BY <1>4, <1>5, <4>1
      <4> QED  BY <1>1, <1>4, <1>5, <1>6, <1>7, <3>1, <3>2, <4>2
    <3>3. CASE h # g
      <4>1. /\ group'[h] = group[h] /\ group[h].created \in Nat /\ group[h].created <= n
            /\ group[h].status = "none" <=> group[h].created = 0
            /\ group[h].created > 0 => Siblings(h) # {}
        BY <1>5, <3>3 DEF GroupsOK
      <4>2. ASSUME NEW k \in Created', group'[h].created = group'[k].created PROVE h = k
        <5>1. k # g BY <1>4, <1>5, <4>1, <4>2
        <5>2. k \in Created /\ k \in Groups /\ group'[k] = group[k] BY <1>5, <1>6, <5>1 DEF Created
        <5> QED  BY <4>1, <4>2, <5>2 DEF GroupsOK
      <4> QED  BY <1>4, <1>7, <3>1, <4>1, <4>2
    <3> QED  BY <3>2, <3>3
  <2>2. ASSUME NEW c \in Children
        PROVE  child'[c].status = "none" <=> group'[GroupOf[c]].status = "none"
    <3>1. GroupOf[c] \in Groups BY GroupsAssumption
    <3> QED  BY <1>3, <1>5, <3>1 DEF GroupsOK
  <2> QED  BY <1>5, <2>1, <2>2 DEF GroupsOK
<1>9. /\ todo \in Seq(Children) /\ Elements(todo) \subseteq Eligible(g)
      /\ Distinct(todo) /\ todo # <<>>
  <2>1. Eligible(g) \subseteq Siblings(g) BY DEF Eligible
  <2> QED  BY <1>1, <2>1, SiblingsSortable, InOrderLists, SomeEligible
<1>10. Eligible(g) \subseteq Children /\ \A c \in Eligible(g) : GroupOf[c] = g
  BY DEF Eligible, Siblings
<1>11. q \in Acts /\ q.pc = "files" /\ q.todo = todo
  <2> HIDE DEF todo
  <2>1. Idle \in Acts /\ "files" \in ActPCs BY Resting DEF ActPCs
  <2>2. [Idle EXCEPT !.kind = "launch"] \in Acts BY <2>1, ActFields DEF Kinds
  <2>3. [Idle EXCEPT !.kind = "launch", !.pc = "files"] \in Acts BY <2>1, <2>2, ActFields, Zenon
  <2>4. q \in Acts BY <1>9, <2>3, ActFields, Zenon
  <2> QED  BY <2>1, <2>4 DEF Acts
<1> HIDE DEF q, todo
<1>12. a \in Actors /\ act' = [b \in Actors |-> IF b = a THEN q ELSE act[b]]
  BY <1>1 DEF Become, ActorsOK, Actors
<1>13. ActOK(q) /\ InHand(q) \subseteq Eligible(g) BY <1>9, <1>11 DEF ActOK, InHand, BeforePCs
<1>14. \A c \in Children : child[c].status # "none" => child'[c] = child[c] BY <1>3
<1>15. ActorsOK'
  <2>1. ASSUME NEW b \in Actors
        PROVE  ActOK(act'[b]) /\ \A c \in Elements(act'[b].todo) : child'[c].status # "none"
    <3>1. CASE b = a BY <1>3, <1>9, <1>10, <1>11, <1>12, <1>13, <3>1
    <3>2. CASE b # a
      <4>1. act'[b] = act[b] /\ ActOK(act[b]) /\ act[b].todo \in Seq(Children)
            /\ \A c \in Elements(act[b].todo) : child[c].status # "none"
        BY <1>12, <3>2 DEF ActorsOK, Good, Acts
      <4>2. Elements(act[b].todo) \subseteq Children BY <4>1 DEF Elements
      <4> QED  BY <1>14, <4>1, <4>2
    <3> QED  BY <3>1, <3>2
  <2>2. \A b \in Actors : Good(act[b])' BY <2>1 DEF Good, ActOK, Elements, Distinct
  <2>3. act' \in [Actors -> Acts] BY <1>12, <2>1 DEF ActOK
  <2> QED  BY <2>2, <2>3 DEF ActorsOK
<1>16. \A b \in Actors : InHand(act[b]) \cap Eligible(g) = {} BY <1>3, <1>10 DEF SpawnOK
<1>17. SpawnOK'
  <2>1. \A c \in Children : child'[c].status \in {"none", "pending"} => spawned[c] = 0
    BY <1>3 DEF SpawnOK
  <2>2. \A b \in Actors : \A d \in InHand(act'[b]) :
          /\ spawned[d] = 0 /\ child'[d].status \notin {"none", "pending"}
          /\ \A e \in Actors : d \in InHand(act'[e]) => b = e
    <3> SUFFICES ASSUME NEW b \in Actors, NEW d \in InHand(act'[b])
                 PROVE  /\ spawned[d] = 0 /\ child'[d].status \notin {"none", "pending"}
                        /\ \A e \in Actors : d \in InHand(act'[e]) => b = e
      OBVIOUS
    <3>1. CASE b = a
      <4>1. d \in Eligible(g) BY <1>12, <1>13, <3>1
      <4>2. \A e \in Actors : d \in InHand(act'[e]) => e = a BY <1>12, <1>16, <4>1
      <4> QED  BY <1>3, <1>10, <3>1, <4>1, <4>2 DEF SpawnOK
    <3>2. CASE b # a
      <4>1. d \in InHand(act[b]) /\ d \notin Eligible(g) /\ d \in Children
        BY <1>12, <1>16, <3>2, HandsHoldChildren
      <4>2. \A e \in Actors : d \in InHand(act'[e]) => e # a /\ d \in InHand(act[e])
        BY <1>12, <1>13, <4>1
      <4>3. child'[d] = child[d] BY <1>14, <4>1 DEF SpawnOK
      <4> QED  BY <4>1, <4>2, <4>3 DEF SpawnOK
    <3> QED  BY <3>1, <3>2
  <2> QED  BY <1>1, <2>1, <2>2 DEF SpawnOK
<1>18. EndedGroupIsFinal'
  <2> SUFFICES ASSUME NEW h \in Groups,
                      group'[h].status \in {"completed", "cancelled", "failed", "partial"}
               PROVE  /\ \A c \in Siblings(h) : IsTerminal(child'[c])
                      /\ group'[h].status = Aggregate(Siblings(h))'
    BY DEF EndedGroupIsFinal, Siblings, IsTerminal
  <2>1. h # g /\ group'[h] = group[h] BY <1>5
  <2>2. \A c \in Siblings(h) : child'[c] = child[c] BY <1>3, <2>1 DEF Siblings
  <2>3. {child'[c].status : c \in Siblings(h)} = {child[c].status : c \in Siblings(h)} BY <2>2
  <2>4. Aggregate(Siblings(h))' = Aggregate(Siblings(h)) BY <2>3 DEF Aggregate, Siblings
  <2> QED  BY <2>1, <2>2, <2>4 DEF EndedGroupIsFinal
<1>19. ServerOK' BY <1>1, ServerStays
<1> QED  BY <1>8, <1>15, <1>17, <1>18, <1>19

----
(* Types, one start for each child, and groups that end once. *)

\* Reservations and claims aside, a step starts a child or is orderly.
LEMMA StepKinds ==
    ASSUME AInv, [Next]_vars
    PROVE  \/ \E a \in Clients, g \in Groups : ReserveGroup(a, g)
           \/ \E a \in Actors : ClaimPending(a)
           \/ \E a \in Actors : SpawnChild(a) /\ UNCHANGED child
           \/ Orderly
<1>1. CASE UNCHANGED vars BY <1>1, NoMove, NobodyActs, Ordinary DEF vars, AInv
<1>2. CASE \E a \in Clients, g \in Groups : ReserveGroup(a, g) BY <1>2
<1>3. CASE \/ \E a \in Clients, g \in Groups : CancelGroup(a, g)
           \/ \E a \in Clients, c \in Children : CancelRun(a, c)
  BY <1>3, RequestOrderly
<1>4. CASE \E a \in Actors : LaunchStep(a)
  <2> PICK a \in Actors : LaunchStep(a) BY <1>4
  <2>1. CASE SpawnChild(a) BY <2>1 DEF SpawnChild
  <2>2. CASE ~SpawnChild(a) BY <2>2, LaunchOrderly DEF LaunchStep
  <2> QED  BY <2>1, <2>2
<1>5. CASE \E a \in Actors : RefillStep(a) BY <1>5, RefillOrderly DEF RefillStep
<1>6. CASE \E a \in Actors : CancelStep(a) BY <1>6, CancelOrderly
<1>7. CASE \E c \in Children : WorkerStep(c) \/ EndChild(c) \/ OrphanExit(c) \/ WorkerCrash(c)
  BY <1>7, WorkerOrderly
<1>8. CASE ServerCrash \/ RestartStep BY <1>8, ServerOrderly
<1> QED  BY <1>1, <1>2, <1>3, <1>4, <1>5, <1>6, <1>7, <1>8 DEF Next

\* Every step keeps the second invariant.
LEMMA StepKeepsAInv == AInv /\ [Next]_vars => AInv'
<1> SUFFICES ASSUME AInv, [Next]_vars PROVE AInv'
  OBVIOUS
<1>1. IInv' BY StepKeepsInv DEF AInv
<1>2. CASE \E a \in Clients, g \in Groups : ReserveGroup(a, g) BY <1>1, <1>2, ReserveKeepsAInv
<1>3. CASE \E a \in Actors : ClaimPending(a) BY <1>1, <1>3, ClaimKeepsAInv
<1>4. CASE \E a \in Actors : SpawnChild(a)
  <2> PICK a \in Actors : SpawnChild(a) BY <1>4
  <2>1. CASE UNCHANGED spawned BY <1>1, <2>1, LaunchOrderly, OrderlyKeepsInv
  <2>2. CASE spawned' # spawned BY <1>1, <2>2, SpawnKeepsInv
  <2> QED  BY <2>1, <2>2
<1>5. CASE Orderly BY <1>1, <1>5, OrderlyKeepsInv
<1> QED  BY <1>2, <1>3, <1>4, <1>5, StepKinds

\* It holds in every reachable state.
LEMMA AInvHolds == Spec => []AInv
<1>1. Init => AInv
  <2> SUFFICES ASSUME Init PROVE AInv
    OBVIOUS
  <2>1. IInv BY InitInv
  <2>2. Created = {} BY DEF Init, Created
  <2>3. GroupsOK
    <3>1. Cardinality({}) = 0 BY FS_EmptySet
    <3>2. \A c \in Children : GroupOf[c] \in Groups BY GroupsAssumption
    <3> QED  BY <2>2, <3>1, <3>2 DEF Init, GroupsOK, GroupStatuses, NoRow
  <2>4. ActorsOK BY Resting DEF Init, ActorsOK
  <2>5. ServerOK BY Resting DEF Init, ServerOK, NoRow
  <2>6. SpawnOK BY Resting DEF Init, SpawnOK
  <2>7. EndedGroupIsFinal BY DEF Init, EndedGroupIsFinal
  <2> QED  BY <2>1, <2>3, <2>4, <2>5, <2>6, <2>7 DEF AInv
<1> QED  BY <1>1, StepKeepsAInv, PTL DEF Spec

\* Every variable keeps its type; however launches, refills, cancellations and
\* restarts interleave, at most one worker is started for a child; and a group
\* reported as ended has ended, with the status its children add up to
\* (claim_pending_launches, reserve_group, refresh_group).
THEOREM GroupsAreSound == Spec => [](TypeOK /\ SpawnedOnce /\ EndedGroupIsFinal)
<1>1. AInv => TypeOK /\ SpawnedOnce /\ EndedGroupIsFinal
  BY DEF AInv, IInv, GroupsOK, ActorsOK, ServerOK, SpawnOK, TypeOK, SpawnedOnce
<1> QED  BY <1>1, AInvHolds, PTL

----
(* The children as runs. *)

\* A step of a status is a step of the run, or none that a client sees.
LEMMA EdgeIsRunStep ==
    ASSUME NEW c \in Children, child[c] \in Rows, child'[c] \in Rows,
           \/ Edge(child[c].status, child'[c].status)
           \/ child[c].status = "none" /\ child'[c].status \in {"pending", "launch_pending"}
    PROVE  Child(c)!Next \/ Life(c)' = Life(c)
<1> DEFINE s == child[c].status
           t == child'[c].status
           Moved(from, to) == Life(c) \in from /\ Life(c)' = to
<1>1. \A from, to : Moved(from, to) => Child(c)!Move(c, from, to) BY DEF Child!Move
<1>2. s \in Statuses /\ t \in Statuses BY DEF Rows
<1>3. \/ Life(c)' = Life(c)
      \/ Moved({"absent"}, "waiting")
      \/ Moved({"waiting"}, "executing")
      \/ Moved({"waiting", "executing", "held"}, "stopping")
      \/ Moved({"waiting", "executing", "stopping", "held"}, "held")
      \/ Moved({"executing"}, "completed")
      \/ Moved({"executing"}, "timed_out")
      \/ Moved({"stopping"}, "cancelled")
      \/ Moved({"waiting", "executing", "stopping", "held"}, "failed")
  BY <1>2 DEF Edge, Life, Statuses, Active, Terminal, Waiting
<1> HIDE DEF Moved
<1> QED  BY <1>1, <1>3 DEF Child!Next, Child!Accept, Child!Begin, Child!Stop, Child!Hold,
                          Child!Settle, Child!Open

\* Each child is a run of RunLifecycle: it executes at most once and settles once,
\* whichever of its launchers, cancellers and recoveries come first.
THEOREM ChildrenRun == Spec => ChildrenAreRuns
<1>1. AInv /\ AInv' /\ [Next]_vars
        => \A c \in Children : Child(c)!Next \/ Life(c)' = Life(c)
  <2> SUFFICES ASSUME AInv, AInv', [Next]_vars, NEW c \in Children
               PROVE  Child(c)!Next \/ Life(c)' = Life(c)
    OBVIOUS
  <2>1. child[c] \in Rows /\ child'[c] \in Rows BY DEF AInv, IInv
  <2>2. CASE \E a \in Clients, g \in Groups : ReserveGroup(a, g)
    <3> PICK a \in Clients, g \in Groups : ReserveGroup(a, g) BY <2>2
    <3>1. CASE GroupOf[c] # g
      <4>1. child'[c] = child[c] BY <3>1 DEF ReserveGroup
      <4> QED  BY <2>1, <4>1, EdgeIsRunStep DEF Edge
    <3>2. CASE GroupOf[c] = g
      <4>1. child[c].status = "none" BY <3>2 DEF ReserveGroup, AInv, GroupsOK
      <4>2. child'[c].status \in {"pending", "launch_pending"}
        BY <3>2 DEF ReserveGroup, NewChild, NoRow
      <4> QED  BY <2>1, <4>1, <4>2, EdgeIsRunStep
    <3> QED  BY <3>1, <3>2
  <2>3. CASE \E a \in Actors : ClaimPending(a)
    <3>1. RowsMove BY <2>3, ClaimKeepsAInv DEF AInv
    <3> QED  BY <2>1, <3>1, EdgeIsRunStep DEF RowsMove
  <2>4. CASE UNCHANGED child BY <2>1, <2>4, EdgeIsRunStep DEF Edge
  <2>5. CASE Orderly BY <2>1, <2>5, EdgeIsRunStep DEF Orderly, RowsMove
  <2> QED  BY <2>2, <2>3, <2>4, <2>5, StepKinds
<1>2. AInv /\ AInv' /\ [Next]_vars
        => [\A c \in Children : Child(c)!Next \/ Life(c)' = Life(c)]_vars
  BY <1>1
<1> QED  BY <1>2, AInvHolds, PTL DEF Spec, ChildrenAreRuns

----
(* The global limit. *)

\* However many processes refill, none of them takes the occupied slots beyond the
\* global limit: a claim counts those of all groups (claim_pending_launches).
THEOREM GlobalLimitKept == Spec => RefillKeepsGlobalLimit
<1> DEFINE Kept == \/ \E g \in Groups : group[g].status = "none" /\ group'[g].status # "none"
                   \/ MaxConcurrent = None
                   \/ Occupied(Children)' <= Occupied(Children)
                   \/ Occupied(Children)' <= MaxConcurrent
           now == {c \in Children : InFlight(child[c])}
           next == {c \in Children : InFlight(child'[c])}
<1>1. AInv /\ [Next]_vars => Kept
  <2> SUFFICES ASSUME AInv, [Next]_vars PROVE Kept
    OBVIOUS
  <2>1. Occupied(Children)' = Cardinality(next) /\ Occupied(Children) = Cardinality(now)
    BY DEF Occupied, FlyingIn, InFlight
  <2>2. \A T \in SUBSET Children : IsFiniteSet(T) /\ Cardinality(T) \in Nat
    BY FiniteAssumption, FS_Subset, FS_CardinalityType
  <2>3. next \in SUBSET now => Kept
    <3> SUFFICES ASSUME next \in SUBSET now PROVE Kept
      OBVIOUS
    <3>1. now \in SUBSET Children
      OBVIOUS
    <3> HIDE DEF now, next
    <3>2. Cardinality(next) <= Cardinality(now) BY <2>2, <3>1, FS_Subset
    <3> QED  BY <2>1, <3>2
  <2>4. CASE \E a \in Clients, g \in Groups : ReserveGroup(a, g)
    <3> PICK a \in Clients, g \in Groups : ReserveGroup(a, g) BY <2>4
    <3>1. group[g].status = "none" /\ group'[g].status = "launch_pending"
      BY DEF ReserveGroup, AInv, GroupsOK
    <3> QED  BY <3>1
  <2>5. CASE Calm
    <3>1. next \in SUBSET now BY <2>5 DEF Calm, Quiet
    <3> QED  BY <2>3, <3>1
  <2>6. CASE \E a \in Actors : ClaimPending(a)
    <3> PICK a \in Actors : ClaimPending(a) BY <2>6
    <3> DEFINE active == {c \in Children : IsActive(c)}
               first == {c \in Children : InGroupSlots(c)}
               free == Free(MaxConcurrent, Children)
               before == [x \in first |-> {d \in first : Ahead(d, x)}]
    <3>1. SUFFICES ASSUME MaxConcurrent # None PROVE Kept
      OBVIOUS
    <3>2. MaxConcurrent \in Nat BY <3>1, LimitsAssumption
    <3>3. Claimable = {c \in first : Cardinality(before[c]) < free} BY DEF Claimable
    <3>4. first \in SUBSET Children /\ active \in SUBSET Children
          /\ Claimable \in SUBSET Children /\ next \in SUBSET Children
          /\ now \in SUBSET Children
      BY DEF Claimable
    <3>5. IsOrder(first, before)
      <4>1. \A c \in first : child[c].status # "none" BY DEF InGroupSlots, IsPending
      <4> HIDE DEF first
      <4> QED  BY <3>4, <4>1, KnownSortable, AheadOrder DEF AInv
    <3>6. free = IF Cardinality(active) < MaxConcurrent
                 THEN MaxConcurrent - Cardinality(active) ELSE 0
      BY <3>1 DEF Free
    <3>7. Cardinality(active) \in Nat /\ free \in Nat BY <2>2, <3>2, <3>4, <3>6
    <3>8. Cardinality(Claimable) <= free
      <4> HIDE DEF first, before, free
      <4> QED  BY <2>2, <3>3, <3>4, <3>5, <3>7, FirstK
    <3>9. child' = Claimed BY DEF ClaimPending
    <3>10. \A c \in Children : c \notin Claimable => child'[c] = child[c] BY <3>9 DEF Claimed
    <3>11. \A c \in Children : InFlight(child[c]) => IsActive(c)
      BY DEF AInv, IInv, InFlight, IsActive, Active
    <3>12. CASE free = 0
      <4>1. Claimable = {}
        <5>1. Cardinality(Claimable) = 0 /\ IsFiniteSet(Claimable) BY <2>2, <3>4, <3>8, <3>12
        <5> QED  BY <5>1, FS_EmptySet
      <4>2. next \in SUBSET now BY <3>10, <4>1
      <4> QED  BY <2>3, <4>2
    <3>13. CASE free # 0
      <4>1. next \in SUBSET (active \cup Claimable) BY <3>10, <3>11
      <4> HIDE DEF next, active, free
      <4>2. IsFiniteSet(active \cup Claimable)
            /\ Cardinality(active \cup Claimable)
                 = Cardinality(active) + Cardinality(Claimable)
                     - Cardinality(active \cap Claimable)
        BY <2>2, <3>4, FS_Union
      <4>3. Cardinality(active \cap Claimable) \in Nat /\ Cardinality(Claimable) \in Nat
            /\ Cardinality(next) \in Nat
        BY <2>2, <3>4
      <4>4. Cardinality(next) <= Cardinality(active \cup Claimable) BY <4>1, <4>2, FS_Subset
      <4>5. Cardinality(next) <= MaxConcurrent BY <3>2, <3>6, <3>7, <3>8, <3>13, <4>2, <4>3, <4>4
      <4> QED  BY <2>1, <4>5
    <3> QED  BY <3>12, <3>13
  <2> QED  BY <2>4, <2>5, <2>6, CalmSteps DEF AInv
<1>2. AInv /\ [Next]_vars => [Kept]_vars BY <1>1
<1> QED  BY <1>2, AInvHolds, PTL DEF Spec, RefillKeepsGlobalLimit
=============================================================================
