---------------------------- MODULE ProcessManager ----------------------------
(***************************************************************************)
(* The process manager: starts and stops the programs of the car on the    *)
(* ground station's command, and the operating system under it.            *)
(*                                                                         *)
(* The manager has one thread, so each callback is one action.  A program  *)
(* runs beside it: between fork and its first own instruction, between     *)
(* setsid and exec, and later with processes of its own in its group.  The *)
(* kernel hands a pid out again when no process and no group has it.       *)
(***************************************************************************)
EXTENDS Integers

CONSTANTS
  Programs,    \* the keys of configs_, and "rosbag"
  Pids,        \* bound: the pids of the computer
  NoPid,       \* the entry is missing or was set to -1
  NoProgram    \* no process

ASSUME ProcessAssumption == NoPid \notin Pids /\ NoProgram \notin Programs

VARIABLES
  up,       \* the manager runs
  pids,     \* pids_
  proc,     \* pid |-> the process with that pid
  members,  \* pid |-> the other processes in the group with that id
  wanted,   \* program |-> the last command of the ground station
  status    \* the last status published

vars == <<up, pids, proc, members, wanted, status>>

Phases == {"free", "forked", "session", "running", "zombie"}

\* "child" tells a child of this manager from one a previous manager left behind.
Process == [phase : Phases, program : Programs \cup {NoProgram}, child : BOOLEAN,
            interrupted : BOOLEAN]
Free    == [phase |-> "free", program |-> NoProgram, child |-> FALSE, interrupted |-> FALSE]
Group   == [program : Programs \cup {NoProgram}, interrupted : BOOLEAN]
NoGroup == [program |-> NoProgram, interrupted |-> FALSE]

\* No two programs share a pid, although the kernel hands pids out again.
TypeOK ==
  /\ up \in BOOLEAN
  /\ pids \in [Programs -> Pids \cup {NoPid}]
  /\ \A n, m \in Programs : n # m /\ up /\ pids[n] = pids[m] => pids[n] = NoPid
  /\ proc \in [Pids -> Process]
  /\ members \in [Pids -> Group]
  /\ wanted \in [Programs -> {"start", "stop"}]
  /\ status \in [Programs -> {"running", "stopped"}]

Init ==
  /\ up = TRUE
  /\ pids = [n \in Programs |-> NoPid]
  /\ proc = [p \in Pids |-> Free]
  /\ members = [p \in Pids |-> NoGroup]
  /\ wanted = [n \in Programs |-> "stop"]
  /\ status = [n \in Programs |-> "stopped"]

-----------------------------------------------------------------------------
(* The manager. *)

Finished(n) == pids[n] # NoPid /\ proc[pids[n]].phase = "zombie"

\* Mutant: the entry keeps the pid that waitpid has given back.
PidsAfterReapKept == pids

\* ReapFinished: the entries and the process table after it.
PidsAfterReap == [n \in Programs |-> IF Finished(n) THEN NoPid ELSE pids[n]]

ProcAfterReap ==
  [p \in Pids |-> IF \E n \in Programs : pids[n] = p /\ Finished(n) THEN Free ELSE proc[p]]

\* Mutant: only a program that is known to have ended is not started.
AlreadyRunningNever(n) == FALSE

AlreadyRunning(n) == PidsAfterReap[n] # NoPid

StartProcess(n) ==
  /\ up
  /\ wanted' = [wanted EXCEPT ![n] = "start"]
  /\ \/ /\ ~AlreadyRunning(n)
        /\ \E p \in Pids :
             /\ ProcAfterReap[p] = Free /\ members[p] = NoGroup
             /\ pids' = [PidsAfterReap EXCEPT ![n] = p]
             /\ proc' = [ProcAfterReap EXCEPT ![p] =
                           [phase |-> "forked", program |-> n, child |-> TRUE,
                            interrupted |-> FALSE]]
     \/ \* already running, or fork failed
        /\ pids' = PidsAfterReap
        /\ proc' = ProcAfterReap
  /\ UNCHANGED <<up, members, status>>

\* killpg(pid, SIGINT) finds no group before setsid; after it and before exec the
\* handler inherited from the manager takes the signal and does nothing with it.
Interrupted(procs, targets) ==
  [p \in Pids |-> IF p \in targets /\ procs[p].phase = "running"
                  THEN [procs[p] EXCEPT !.interrupted = TRUE] ELSE procs[p]]

\* Mutant: kill instead of killpg.
MembersInterruptedNot(targets) == members

MembersInterrupted(targets) ==
  [p \in Pids |-> IF p \in targets /\ members[p] # NoGroup
                  THEN [members[p] EXCEPT !.interrupted = TRUE] ELSE members[p]]

StopProcess(n) ==
  /\ up
  /\ wanted' = [wanted EXCEPT ![n] = "stop"]
  /\ pids' = PidsAfterReap
  /\ LET targets == {PidsAfterReap[n]} \ {NoPid}
     IN /\ proc' = Interrupted(ProcAfterReap, targets)
        /\ members' = MembersInterrupted(targets)
  /\ UNCHANGED <<up, status>>

\* An operator who sees "running" asks again.
StopAgain(n) == wanted[n] = "stop" /\ StopProcess(n)

OnTimer ==
  /\ up
  /\ pids' = PidsAfterReap
  /\ proc' = ProcAfterReap
  /\ status' = [n \in Programs |-> IF PidsAfterReap[n] # NoPid THEN "running" ELSE "stopped"]
  /\ UNCHANGED <<up, members, wanted>>

\* The children of a manager that is gone belong to init, which reaps them.
Orphaned(procs) ==
  [p \in Pids |-> IF procs[p].phase = "zombie" THEN Free ELSE [procs[p] EXCEPT !.child = FALSE]]

\* ~ProcessManagerNode, after spin has returned
ManagerStops ==
  /\ up
  /\ up' = FALSE
  /\ LET targets == {pids[n] : n \in Programs} \ {NoPid}
     IN /\ proc' = Orphaned(Interrupted(proc, targets))
        /\ members' = MembersInterrupted(targets)
  /\ UNCHANGED <<pids, wanted, status>>

ManagerCrashes ==
  /\ up
  /\ up' = FALSE
  /\ proc' = Orphaned(proc)
  /\ UNCHANGED <<pids, members, wanted, status>>

ManagerStarts ==
  /\ ~up
  /\ up' = TRUE
  /\ pids' = [n \in Programs |-> NoPid]
  /\ UNCHANGED <<proc, members, wanted, status>>

-----------------------------------------------------------------------------
(* The programs. *)

Become(p, phase) == proc' = [proc EXCEPT ![p].phase = phase]

Setsid(p) ==
  /\ proc[p].phase = "forked"
  /\ Become(p, "session")
  /\ UNCHANGED <<up, pids, members, wanted, status>>

Exec(p) ==
  /\ proc[p].phase = "session"
  /\ Become(p, "running")
  /\ UNCHANGED <<up, pids, members, wanted, status>>

Exit(p) ==
  /\ proc' = [proc EXCEPT ![p] = IF proc[p].child THEN [@ EXCEPT !.phase = "zombie"] ELSE Free]
  /\ UNCHANGED <<up, pids, members, wanted, status>>

\* _exit(127)
ExecFails(p) == proc[p].phase = "session" /\ Exit(p)

\* ros2 launch starts the nodes of its launch file.
Spawn(p) ==
  /\ proc[p].phase = "running" /\ ~proc[p].interrupted
  /\ members[p] = NoGroup
  /\ members' = [members EXCEPT ![p] = [program |-> proc[p].program, interrupted |-> FALSE]]
  /\ UNCHANGED <<up, pids, proc, wanted, status>>

\* By itself, or because it was interrupted.
LeaderExits(p) ==
  /\ proc[p].phase = "running"
  /\ Exit(p)

MembersExit(p) ==
  /\ members[p] # NoGroup
  /\ members' = [members EXCEPT ![p] = NoGroup]
  /\ UNCHANGED <<up, pids, proc, wanted, status>>

Next ==
  \/ \E n \in Programs : StartProcess(n) \/ StopProcess(n)
  \/ OnTimer
  \/ ManagerStops
  \/ ManagerCrashes
  \/ ManagerStarts
  \/ \E p \in Pids : Setsid(p) \/ Exec(p) \/ ExecFails(p) \/ Spawn(p) \/ LeaderExits(p) \/ MembersExit(p)

\* Programs run and obey an interrupt; an operator who wants a program stopped asks
\* until it is.
Fairness ==
  /\ \A p \in Pids : /\ WF_vars(Setsid(p)) /\ WF_vars(Exec(p))
                     /\ WF_vars(proc[p].interrupted /\ LeaderExits(p))
                     /\ WF_vars(members[p].interrupted /\ MembersExit(p))
  /\ WF_vars(OnTimer)

Persistence == \A n \in Programs : WF_vars(StopAgain(n))

Spec     == Init /\ [][Next]_vars
FairSpec == Spec /\ Fairness /\ Persistence

-----------------------------------------------------------------------------
(* Properties. *)

LiveLeader(p) == proc[p].phase \in {"forked", "session", "running"}

\* The pid kept for a program is a child of this manager that runs that program, or
\* its zombie: the interrupt can never reach a process that was given the pid later.
PidIsItsProgram ==
  up => \A n \in Programs : pids[n] # NoPid =>
          /\ proc[pids[n]].phase # "free"
          /\ proc[pids[n]].program = n /\ proc[pids[n]].child

\* No child is forgotten: each live child of this manager is the one kept for its
\* program, so that a program has one at a time and it can be stopped.
EveryChildIsKept ==
  up => \A p \in Pids : LiveLeader(p) /\ proc[p].child => pids[proc[p].program] = p

Gone(n) ==
  \A p \in Pids : (LiveLeader(p) => proc[p].program # n) /\ members[p].program # n

\* No launcher has ended by itself and left its nodes behind.
NoStrayNodes ==
  \A p \in Pids : proc[p].phase = "zombie" /\ members[p] # NoGroup =>
                     proc[p].interrupted \/ members[p].interrupted

\* process_manager_node.cpp, StopProcessByPid: the interrupt reaches "all child
\* processes (including nodes launched by ros2 launch)".  One stop may be lost before
\* setsid or exec; an operator who asks until the status says "stopped" gets rid of the
\* program and of every process it has spawned, as long as the manager lives.
PersistentStopStops ==
  [](up /\ NoStrayNodes) =>
    \A n \in Programs : <>[](wanted[n] = "stop") => <>[]Gone(n)
=============================================================================
