-------------------------------- MODULE ForkN --------------------------------
(***************************************************************************)
(* starter/fork/forkN.c: the parent forks NUM_CHILD workers and waits for  *)
(* them by pid, in the order it forked them; they end in any order.        *)
(***************************************************************************)
EXTENDS Integers, Sequences

CONSTANT NUM_CHILD  \* workers the parent forks, 5 in the program

ASSUME ChildAssumption == NUM_CHILD \in Nat \ {0}

Kids == 0 .. NUM_CHILD - 1

\* The process ids the kernel gives out: distinct, and no child has number 0.
Pid(c) == 1000 + c

VARIABLES
  proc,      \* none, run, zombie (ended, not waited for) or gone
  how,       \* how a child ended: exit or signal
  main_pc,   \* the parent
  i,         \* its loop counter
  cpids,     \* pid_t cpids[], uninitialized
  state,     \* int state, uninitialized
  reported   \* the lines "Child cpid[i]=pid terminated with state" so far

kids   == <<proc, how>>
report == <<cpids, state, reported>>
vars   == <<kids, main_pc, i, report>>

\* A value that nothing was assigned to: pids are also garbage when not set.
GARBAGE == "garbage"
NoPid   == -1

Init ==
  /\ proc = [c \in Kids |-> "none"] /\ how = [c \in Kids |-> "none"]
  /\ main_pc = "fork" /\ i = 0
  /\ cpids = [c \in Kids |-> NoPid] /\ state = GARBAGE /\ reported = <<>>

ParentEnded == main_pc \in {"done", "abort"}

\* A child leaves main, or is killed.
Ends(c) ==
  /\ proc[c] = "run"
  /\ proc' = [proc EXCEPT ![c] = "zombie"]
  /\ how' \in {[how EXCEPT ![c] = h] : h \in {"exit", "signal"}}
  /\ UNCHANGED <<main_pc, i, report>>

\* init waits for the children of a parent that has ended.
Adopt(c) ==
  /\ ParentEnded /\ proc[c] = "zombie"
  /\ proc' = [proc EXCEPT ![c] = "gone"]
  /\ UNCHANGED <<how, main_pc, i, report>>

\* fork() returns the pid of a new child.
Start(c) == proc' = [proc EXCEPT ![c] = "run"] /\ UNCHANGED how

\* wait() takes an ended child out of the process table.
Reap(c) ==
  /\ proc[c] = "zombie"
  /\ proc' = [proc EXCEPT ![c] = "gone"]
  /\ UNCHANGED how

\* The parent has no child that it could still wait for.
NoChild == \A c \in Kids : proc[c] \in {"none", "gone"}

-----------------------------------------------------------------------------
(* The parent *)

\* What printf is given.
Line(n, p, s) == [n |-> n, pid |-> p, state |-> s]

Fork ==
  /\ main_pc = "fork"
  /\ Start(i)
  /\ cpids' = [cpids EXCEPT ![i] = Pid(i)]
  /\ IF i + 1 < NUM_CHILD THEN i' = i + 1 /\ UNCHANGED main_pc
     ELSE i' = 0 /\ main_pc' = "waitpid"
  /\ UNCHANGED <<state, reported>>

\* abort(): the workers forked so far are left behind.
ForkFails ==
  /\ main_pc = "fork"
  /\ main_pc' = "abort"
  /\ UNCHANGED <<kids, i, report>>

\* Mutant: wait() instead of waitpid(cpids[i]).
WaitAny ==
  /\ main_pc = "waitpid"
  /\ \E c \in Kids : Reap(c) /\ state' = how[c]
  /\ main_pc' = "report"
  /\ UNCHANGED <<i, cpids, reported>>

\* Mutant: waits until WIFEXITED(state), also for a worker that was killed.
WaitForExit ==
  /\ main_pc = "waitpid"
  /\ \E c \in Kids : Pid(c) = cpids[i] /\ how[c] = "exit" /\ Reap(c) /\ state' = how[c]
  /\ main_pc' = "report"
  /\ UNCHANGED <<i, cpids, reported>>

\* waitpid(cpids[i], &state, 0): blocks until that worker has ended.
Waitpid ==
  /\ main_pc = "waitpid"
  /\ \E c \in Kids : Pid(c) = cpids[i] /\ Reap(c) /\ state' = how[c]
  /\ main_pc' = "report"
  /\ UNCHANGED <<i, cpids, reported>>

\* Mutant: the loop ends one child early.
ReportButLast ==
  /\ main_pc = "report"
  /\ reported' = IF state = "exit" THEN Append(reported, Line(i, cpids[i], state))
                 ELSE reported
  /\ i' = i + 1
  /\ main_pc' = IF i + 2 < NUM_CHILD THEN "waitpid" ELSE "done"
  /\ UNCHANGED <<kids, cpids, state>>

\* WIFEXITED(state): only a normal end is reported.
Report ==
  /\ main_pc = "report"
  /\ reported' = IF state = "exit" THEN Append(reported, Line(i, cpids[i], state))
                 ELSE reported
  /\ i' = i + 1
  /\ main_pc' = IF i + 1 < NUM_CHILD THEN "waitpid" ELSE "done"
  /\ UNCHANGED <<kids, cpids, state>>

ParentStep == Fork \/ Waitpid \/ Report

Terminated ==
  ParentEnded /\ (\A c \in Kids : proc[c] \in {"none", "gone"}) /\ UNCHANGED vars

Next ==
  \/ ParentStep
  \/ ForkFails
  \/ \E c \in Kids : Ends(c) \/ Adopt(c)
  \/ Terminated

Spec == Init /\ [][Next]_vars

\* The parent is scheduled, a worker sleeps a bounded time and then ends, and
\* init waits for orphans.
FairSpec ==
  /\ Spec
  /\ WF_vars(ParentStep)
  /\ \A c \in Kids : WF_vars(Ends(c)) /\ WF_vars(Adopt(c))

-----------------------------------------------------------------------------
(* Properties *)

\* A line names a child by its number and pid, and that child has ended the way
\* the line says.
TrueLine(r) ==
  /\ r.n \in Kids /\ r.pid = Pid(r.n)
  /\ proc[r.n] = "gone" /\ how[r.n] = r.state

\* The kernel's view and the parent's variables.
TypeOK ==
  /\ proc \in [Kids -> {"none", "run", "zombie", "gone"}]
  /\ how \in [Kids -> {"none", "exit", "signal"}]
  /\ main_pc \in {"fork", "waitpid", "report", "done", "abort"}
  /\ i \in 0 .. NUM_CHILD /\ (main_pc \in {"fork", "waitpid", "report"} => i < NUM_CHILD)
  /\ cpids \in [Kids -> {NoPid} \cup {Pid(c) : c \in Kids}]
  /\ state \in {GARBAGE, "exit", "signal"}
  /\ reported \in Seq([n : Kids, pid : {Pid(c) : c \in Kids}, state : {"exit"}])

\* Whatever order the workers end in, and however, the lines are true.
ReportsTrue == \A k \in 1 .. Len(reported) : TrueLine(reported[k])

\* The lines are in the order of the workers, so that none is printed twice.
Ascending ==
  \A j, k \in 1 .. Len(reported) : j < k => reported[j].n < reported[k].n

\* A parent that gets to its end leaves no zombie, has waited for every worker
\* and has printed one line, and only one, for each that exited.
AllAccountedFor ==
  main_pc = "done" =>
    /\ \A c \in Kids : proc[c] = "gone"
    /\ {reported[k].n : k \in 1 .. Len(reported)} = {c \in Kids : how[c] = "exit"}
    /\ Ascending

\* Everybody ends, and nobody stays a zombie: not even when fork() fails.
NoZombieStays == <>[](ParentEnded /\ NoChild)
=============================================================================
