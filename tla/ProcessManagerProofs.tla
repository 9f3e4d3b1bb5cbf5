------------------------- MODULE ProcessManagerProofs -------------------------
(***************************************************************************)
(* The process manager keeps each child it has, and the pid it keeps is    *)
(* the child's, for any number of programs and pids.                       *)
(***************************************************************************)
EXTENDS ProcessManager, TLAPS

\* What ties a table of pids to a process table.
Family(table, procs) ==
  /\ \A n, m \in Programs : n # m /\ table[n] = table[m] => table[n] = NoPid
  /\ \A n \in Programs : table[n] # NoPid =>
       procs[table[n]].phase # "free" /\ procs[table[n]].program = n /\ procs[table[n]].child
  /\ \A p \in Pids : procs[p].child => procs[p].phase # "free" /\ procs[p].program \in Programs
  /\ \A p \in Pids : procs[p].child /\ procs[p].phase # "zombie" => table[procs[p].program] = p

Types ==
  /\ up \in BOOLEAN
  /\ pids \in [Programs -> Pids \cup {NoPid}]
  /\ proc \in [Pids -> Process]
  /\ members \in [Pids -> Group]
  /\ wanted \in [Programs -> {"start", "stop"}]
  /\ status \in [Programs -> {"running", "stopped"}]

\* A manager that is gone has no children, so its successor begins with none.
ManagerInv ==
  /\ Types
  /\ up => Family(pids, proc)
  /\ ~up => \A p \in Pids : ~proc[p].child

\* The three invariants that are checked are parts of the inductive one.
LEMMA ManagerInvImplies ==
  ASSUME ManagerInv
  PROVE  TypeOK /\ PidIsItsProgram /\ EveryChildIsKept
<1>1. TypeOK
  BY DEF ManagerInv, Types, Family, TypeOK
<1>2. PidIsItsProgram
  BY DEF ManagerInv, Types, Family, PidIsItsProgram
<1>3. EveryChildIsKept
  BY DEF ManagerInv, Types, Family, EveryChildIsKept, LiveLeader
<1> QED
  BY <1>1, <1>2, <1>3

\* Reaping takes an entry and its zombie away together.
LEMMA ReapKeepsFamily ==
  ASSUME ManagerInv, up
  PROVE  /\ PidsAfterReap \in [Programs -> Pids \cup {NoPid}]
         /\ ProcAfterReap \in [Pids -> Process]
         /\ Family(PidsAfterReap, ProcAfterReap)
<1> USE ProcessAssumption
<1>1. PidsAfterReap \in [Programs -> Pids \cup {NoPid}]
  BY DEF PidsAfterReap, ManagerInv, Types
<1>2. ProcAfterReap \in [Pids -> Process]
  <2>1. Free \in Process
    BY DEF Process, Phases, Free
  <2> QED
    BY <2>1 DEF ProcAfterReap, ManagerInv, Types
<1>3. Types /\ Family(pids, proc)
  BY DEF ManagerInv
<1>4. ~Free.child /\ Free.phase = "free"
  BY DEF Free
<1>5. ASSUME NEW n \in Programs, PidsAfterReap[n] # NoPid
      PROVE  /\ PidsAfterReap[n] = pids[n] /\ pids[n] \in Pids /\ ~Finished(n)
             /\ ProcAfterReap[pids[n]] = proc[pids[n]]
  <2>1. PidsAfterReap[n] = pids[n] /\ ~Finished(n)
    BY <1>5 DEF PidsAfterReap
  <2>2. pids[n] \in Pids
    BY <1>3, <1>5, <2>1 DEF Types
  <2>3. ~\E m \in Programs : pids[m] = pids[n] /\ Finished(m)
    BY <1>3, <2>1, <2>2 DEF Family, Finished
  <2> QED
    BY <2>1, <2>2, <2>3 DEF ProcAfterReap
<1>6. ASSUME NEW p \in Pids, ProcAfterReap[p].child
      PROVE  /\ ProcAfterReap[p] = proc[p]
             /\ ~\E n \in Programs : pids[n] = p /\ Finished(n)
  BY <1>4, <1>6 DEF ProcAfterReap
<1>7. ASSUME NEW p \in Pids, ProcAfterReap[p].child, ProcAfterReap[p].phase # "zombie"
      PROVE  PidsAfterReap[ProcAfterReap[p].program] = p
  <2>1. proc[p].program \in Programs /\ pids[proc[p].program] = p
    BY <1>3, <1>6, <1>7 DEF Family
  <2> QED
    BY <1>6, <1>7, <2>1 DEF PidsAfterReap
<1>8. Family(PidsAfterReap, ProcAfterReap)
  <2>1. \A n, m \in Programs : n # m /\ PidsAfterReap[n] = PidsAfterReap[m] => PidsAfterReap[n] = NoPid
    BY <1>3, <1>5 DEF Family
  <2>2. \A n \in Programs : PidsAfterReap[n] # NoPid =>
          /\ ProcAfterReap[PidsAfterReap[n]].phase # "free"
          /\ ProcAfterReap[PidsAfterReap[n]].program = n
          /\ ProcAfterReap[PidsAfterReap[n]].child
    BY <1>3, <1>5 DEF Family
  <2>3. \A p \in Pids : ProcAfterReap[p].child =>
          ProcAfterReap[p].phase # "free" /\ ProcAfterReap[p].program \in Programs
    BY <1>3, <1>6 DEF Family
  <2> QED
    BY <1>7, <2>1, <2>2, <2>3 DEF Family
<1> QED
  BY <1>1, <1>2, <1>8

\* An interrupt changes nothing the family is about.
LEMMA InterruptKeepsFamily ==
  ASSUME NEW table, NEW procs \in [Pids -> Process], NEW targets, Family(table, procs),
         table \in [Programs -> Pids \cup {NoPid}]
  PROVE  /\ Interrupted(procs, targets) \in [Pids -> Process]
         /\ Family(table, Interrupted(procs, targets))
<1> DEFINE after == Interrupted(procs, targets)
<1>1. ASSUME NEW p \in Pids
      PROVE  /\ after[p] \in Process
             /\ after[p].phase = procs[p].phase
             /\ after[p].program = procs[p].program
             /\ after[p].child = procs[p].child
  <2>1. procs[p] \in Process
    OBVIOUS
  <2>2. after[p] = IF p \in targets /\ procs[p].phase = "running"
                   THEN [procs[p] EXCEPT !.interrupted = TRUE] ELSE procs[p]
    BY DEF Interrupted
  <2> QED
    BY <2>1, <2>2 DEF Process
<1>2. after \in [Pids -> Process]
  BY <1>1 DEF Interrupted
<1> HIDE DEF after
<1>3. Family(table, after)
  BY <1>1 DEF Family
<1> QED
  BY <1>2, <1>3 DEF after

\* The same for the groups.
LEMMA InterruptKeepsGroups ==
  ASSUME NEW targets, members \in [Pids -> Group]
  PROVE  MembersInterrupted(targets) \in [Pids -> Group]
<1>1. ASSUME NEW p \in Pids PROVE [members[p] EXCEPT !.interrupted = TRUE] \in Group
  BY DEF Group
<1> QED
  BY <1>1 DEF MembersInterrupted

\* The children of a manager that ends are nobody's.
LEMMA OrphansAreNoChildren ==
  ASSUME NEW procs \in [Pids -> Process]
  PROVE  /\ Orphaned(procs) \in [Pids -> Process]
         /\ \A p \in Pids : ~Orphaned(procs)[p].child
<1>1. ASSUME NEW p \in Pids
      PROVE  Orphaned(procs)[p] \in Process /\ ~Orphaned(procs)[p].child
  <2>1. procs[p] \in Process
    OBVIOUS
  <2> QED
    BY <2>1 DEF Orphaned, Process, Free, Phases
<1> QED
  BY <1>1 DEF Orphaned

\* A process that goes through a phase of its life that is not its end.
LEMMA BecomeKeepsInv ==
  ASSUME ManagerInv, NEW p \in Pids, NEW phase \in {"session", "running"},
         proc[p].phase \in {"forked", "session"}, Become(p, phase),
         UNCHANGED <<up, pids, members, wanted, status>>
  PROVE  ManagerInv'
<1>1. ASSUME NEW q \in Pids
      PROVE  /\ proc'[q] \in Process
             /\ proc'[q].program = proc[q].program /\ proc'[q].child = proc[q].child
             /\ proc'[q].phase = "free" <=> proc[q].phase = "free"
             /\ proc'[q].phase = "zombie" <=> proc[q].phase = "zombie"
  <2>1. proc[q] \in Process /\ proc[p] \in Process
    BY DEF ManagerInv, Types
  <2>2. proc'[q] = IF q = p THEN [proc[q] EXCEPT !.phase = phase] ELSE proc[q]
    BY DEF Become, ManagerInv, Types
  <2> QED
    BY <2>1, <2>2 DEF Process, Phases
<1>2. proc' \in [Pids -> Process]
  BY <1>1 DEF Become, ManagerInv, Types
<1>3. up => Family(pids, proc')
  BY <1>1 DEF ManagerInv, Types, Family
<1>4. ~up => \A q \in Pids : ~proc'[q].child
  BY <1>1 DEF ManagerInv
<1> QED
  BY <1>2, <1>3, <1>4 DEF ManagerInv, Types

\* A process that ends: a zombie if it has a parent, nothing otherwise.
LEMMA ExitKeepsInv ==
  ASSUME ManagerInv, NEW p \in Pids, proc[p].phase \in {"session", "running"}, Exit(p)
  PROVE  ManagerInv'
<1>1. ASSUME NEW q \in Pids
      PROVE  /\ proc'[q] \in Process
             /\ proc'[q].child = proc[q].child
             /\ proc[q].child => /\ proc'[q].program = proc[q].program
                                 /\ proc'[q].phase \in {proc[q].phase, "zombie"}
  <2>1. proc[q] \in Process
    BY DEF ManagerInv, Types
  <2>2. proc'[q] = IF q # p THEN proc[q]
                   ELSE IF proc[q].child THEN [proc[q] EXCEPT !.phase = "zombie"] ELSE Free
    BY DEF Exit, ManagerInv, Types
  <2>3. CASE q # p
    BY <2>1, <2>2, <2>3
  <2>4. CASE q = p /\ proc[q].child
    <3>1. proc'[q] = [proc[q] EXCEPT !.phase = "zombie"]
      BY <2>2, <2>4
    <3> QED
      BY <2>1, <3>1 DEF Process, Phases
  <2>5. CASE q = p /\ ~proc[q].child
    <3>1. proc'[q] = Free /\ Free \in Process /\ Free.child = FALSE
      BY <2>2, <2>5 DEF Process, Phases, Free
    <3>2. proc[q].child = FALSE
      BY <2>1, <2>5 DEF Process
    <3> QED
      BY <2>5, <3>1, <3>2
  <2> QED
    BY <2>3, <2>4, <2>5
<1>2. proc' \in [Pids -> Process]
  BY <1>1 DEF Exit, ManagerInv, Types
<1>3. up => Family(pids, proc')
  BY <1>1 DEF ManagerInv, Types, Family
<1>4. ~up => \A q \in Pids : ~proc'[q].child
  BY <1>1 DEF ManagerInv
<1> QED
  BY <1>2, <1>3, <1>4 DEF ManagerInv, Types, Exit

\* The heart of it: a program is started only when no entry is left for it, so the child
\* it gets is its only one, and the pid is nobody else's.
LEMMA StartKeepsInv ==
  ASSUME ManagerInv, NEW n \in Programs, StartProcess(n)
  PROVE  ManagerInv'
<1> USE ProcessAssumption
<1> DEFINE born == [phase |-> "forked", program |-> n, child |-> TRUE, interrupted |-> FALSE]
<1>1. /\ up /\ up' /\ Types
      /\ members' \in [Pids -> Group] /\ status' \in [Programs -> {"running", "stopped"}]
      /\ wanted' \in [Programs -> {"start", "stop"}]
  BY DEF StartProcess, ManagerInv, Types
<1>2. /\ PidsAfterReap \in [Programs -> Pids \cup {NoPid}]
      /\ ProcAfterReap \in [Pids -> Process]
      /\ Family(PidsAfterReap, ProcAfterReap)
  BY <1>1, ReapKeepsFamily
<1>3. CASE pids' = PidsAfterReap /\ proc' = ProcAfterReap
  BY <1>1, <1>2, <1>3 DEF ManagerInv, Types
<1>4. ASSUME NEW p \in Pids, ~AlreadyRunning(n), ProcAfterReap[p] = Free,
             pids' = [PidsAfterReap EXCEPT ![n] = p], proc' = [ProcAfterReap EXCEPT ![p] = born]
      PROVE  ManagerInv'
  <2>1. born \in Process /\ born.child /\ born.program = n /\ born.phase = "forked"
    BY DEF Process, Phases
  <2>2. ~Free.child /\ Free.phase = "free"
    BY DEF Free
  <2>3. PidsAfterReap[n] = NoPid
    BY <1>4 DEF AlreadyRunning
  <2> HIDE DEF born
  <2>4. pids' \in [Programs -> Pids \cup {NoPid}] /\ proc' \in [Pids -> Process]
    BY <1>2, <1>4, <2>1
  <2>5. \A m \in Programs : pids'[m] = IF m = n THEN p ELSE PidsAfterReap[m]
    BY <1>2, <1>4
  <2>6. \A q \in Pids : proc'[q] = IF q = p THEN born ELSE ProcAfterReap[q]
    BY <1>2, <1>4
  <2>7. \A m \in Programs : PidsAfterReap[m] # p
    BY <1>2, <1>4, <2>2 DEF Family
  <2>8. \A m, k \in Programs : m # k /\ pids'[m] = pids'[k] => pids'[m] = NoPid
    BY <1>2, <2>5, <2>7 DEF Family
  <2>9. \A m \in Programs : pids'[m] # NoPid =>
          proc'[pids'[m]].phase # "free" /\ proc'[pids'[m]].program = m /\ proc'[pids'[m]].child
    <3> SUFFICES ASSUME NEW m \in Programs, pids'[m] # NoPid
                 PROVE  /\ proc'[pids'[m]].phase # "free" /\ proc'[pids'[m]].program = m
                        /\ proc'[pids'[m]].child
      OBVIOUS
    <3>1. CASE m = n
      BY <2>1, <2>5, <2>6, <3>1
    <3>2. CASE m # n
      <4>1. pids'[m] = PidsAfterReap[m] /\ pids'[m] \in Pids /\ pids'[m] # p
        BY <2>4, <2>5, <2>7, <3>2
      <4> QED
        BY <1>2, <2>6, <4>1 DEF Family
    <3> QED
      BY <3>1, <3>2
  <2>10. \A q \in Pids : proc'[q].child => proc'[q].phase # "free" /\ proc'[q].program \in Programs
    BY <1>2, <2>1, <2>6 DEF Family
  <2>11. \A q \in Pids : proc'[q].child /\ proc'[q].phase # "zombie" => pids'[proc'[q].program] = q
    <3> SUFFICES ASSUME NEW q \in Pids, proc'[q].child, proc'[q].phase # "zombie"
                 PROVE  pids'[proc'[q].program] = q
      OBVIOUS
    <3>1. CASE q = p
      BY <2>1, <2>5, <2>6, <3>1
    <3>2. CASE q # p
      <4>1. proc'[q] = ProcAfterReap[q]
        BY <2>6, <3>2
      <4>2. /\ ProcAfterReap[q].program \in Programs
            /\ PidsAfterReap[ProcAfterReap[q].program] = q
        BY <1>2, <4>1 DEF Family
      <4>3. ProcAfterReap[q].program # n
        BY <2>3, <4>2
      <4> QED
        BY <2>5, <4>1, <4>2, <4>3
    <3> QED
      BY <3>1, <3>2
  <2>12. Family(pids', proc')
    BY <2>8, <2>9, <2>10, <2>11 DEF Family
  <2> QED
    BY <1>1, <2>4, <2>12 DEF ManagerInv, Types
<1> QED
  BY <1>3, <1>4 DEF StartProcess

\* The invariant holds at the start and every step keeps it.
THEOREM ManagerKeepsItsChildren == Spec => []ManagerInv
<1> USE ProcessAssumption
<1>1. Init => ManagerInv
  BY DEF Init, ManagerInv, Types, Family, Process, Phases, Free, Group, NoGroup
<1>2. ManagerInv /\ [Next]_vars => ManagerInv'
  <2> SUFFICES ASSUME ManagerInv, [Next]_vars PROVE ManagerInv'
    OBVIOUS
  <2>1. ASSUME NEW n \in Programs, StartProcess(n) PROVE ManagerInv'
    BY <2>1, StartKeepsInv
  <2>2. ASSUME NEW n \in Programs, StopProcess(n) PROVE ManagerInv'
    <3> DEFINE targets == {PidsAfterReap[n]} \ {NoPid}
    <3>1. up /\ up' /\ Types
      BY <2>2 DEF StopProcess, ManagerInv
    <3>2. pids' = PidsAfterReap /\ proc' = Interrupted(ProcAfterReap, targets)
          /\ members' = MembersInterrupted(targets)
      BY <2>2 DEF StopProcess
    <3>3. /\ pids' \in [Programs -> Pids \cup {NoPid}] /\ proc' \in [Pids -> Process]
          /\ Family(pids', proc')
      BY <3>1, <3>2, ReapKeepsFamily, InterruptKeepsFamily
    <3>4. members' \in [Pids -> Group]
      BY <3>1, <3>2, InterruptKeepsGroups DEF Types
    <3> QED
      BY <2>2, <3>1, <3>3, <3>4 DEF StopProcess, ManagerInv, Types
  <2>3. CASE OnTimer
    <3>1. up /\ up' /\ Types
      BY <2>3 DEF OnTimer, ManagerInv
    <3> QED
      BY <2>3, <3>1, ReapKeepsFamily DEF OnTimer, ManagerInv, Types
  <2>4. CASE ManagerStops
    <3> DEFINE targets == {pids[n] : n \in Programs} \ {NoPid}
    <3>1. up /\ ~up' /\ Types /\ Family(pids, proc)
      BY <2>4 DEF ManagerStops, ManagerInv
    <3>2. proc' = Orphaned(Interrupted(proc, targets)) /\ members' = MembersInterrupted(targets)
      BY <2>4 DEF ManagerStops
    <3>3. Interrupted(proc, targets) \in [Pids -> Process]
      BY <3>1, InterruptKeepsFamily DEF Types
    <3>4. proc' \in [Pids -> Process] /\ \A p \in Pids : ~proc'[p].child
      BY <3>2, <3>3, OrphansAreNoChildren
    <3>5. members' \in [Pids -> Group]
      BY <3>1, <3>2, InterruptKeepsGroups DEF Types
    <3> QED
      BY <2>4, <3>1, <3>4, <3>5 DEF ManagerStops, ManagerInv, Types
  <2>5. CASE ManagerCrashes
    BY <2>5, OrphansAreNoChildren DEF ManagerCrashes, ManagerInv, Types
  <2>6. CASE ManagerStarts
    BY <2>6 DEF ManagerStarts, ManagerInv, Types, Family
  <2>7. ASSUME NEW p \in Pids, Setsid(p) PROVE ManagerInv'
    BY <2>7, BecomeKeepsInv DEF Setsid
  <2>8. ASSUME NEW p \in Pids, Exec(p) PROVE ManagerInv'
    BY <2>8, BecomeKeepsInv DEF Exec
  <2>9. ASSUME NEW p \in Pids, ExecFails(p) \/ LeaderExits(p) PROVE ManagerInv'
    BY <2>9, ExitKeepsInv DEF ExecFails, LeaderExits
  <2>10. ASSUME NEW p \in Pids, Spawn(p) \/ MembersExit(p) PROVE ManagerInv'
    <3>1. members' \in [Pids -> Group]
      <4>1. proc[p].program \in Programs \cup {NoProgram}
        BY DEF ManagerInv, Types, Process
      <4>2. NoGroup \in Group /\ [program |-> proc[p].program, interrupted |-> FALSE] \in Group
        BY <4>1 DEF Group, NoGroup
      <4> QED
        BY <2>10, <4>2 DEF Spawn, MembersExit, ManagerInv, Types
    <3> QED
      BY <2>10, <3>1 DEF Spawn, MembersExit, ManagerInv, Types
  <2>11. CASE UNCHANGED vars
    BY <2>11 DEF vars, ManagerInv, Types
  <2> QED
    BY <2>1, <2>2, <2>3, <2>4, <2>5, <2>6, <2>7, <2>8, <2>9, <2>10, <2>11 DEF Next
<1> QED
  BY <1>1, <1>2, PTL DEF Spec

\* ProcessManagerNode: for any programs and pids, the tables stay typed and no two
\* programs share a pid.
THEOREM ManagerTyping == Spec => []TypeOK
BY ManagerKeepsItsChildren, ManagerInvImplies, PTL

\* StopProcess, StopProcessByPid: the pid that is interrupted is the program's.
THEOREM PidStaysWithItsProgram == Spec => []PidIsItsProgram
BY ManagerKeepsItsChildren, ManagerInvImplies, PTL

\* StartProcess: a program has one child at a time, and it is the one that is kept.
THEOREM NoChildIsForgotten == Spec => []EveryChildIsKept
BY ManagerKeepsItsChildren, ManagerInvImplies, PTL
=============================================================================
