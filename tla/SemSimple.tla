------------------------------ MODULE SemSimple ------------------------------
(***************************************************************************)
(* starter/sem/sem_simple.c: a child sends its parent one message through  *)
(* a shared segment; two POSIX semaphores in another segment order the     *)
(* write and the read.  sprintf writes the message byte by byte and the    *)
(* parent's printf reads it byte by byte.                                  *)
(***************************************************************************)
EXTENDS Integers, Sequences

CONSTANTS
  LENGTH,       \* bytes of the message with its NUL
  ChildMayDie   \* whether somebody may kill the child

ASSUME SemAssumption == LENGTH \in Nat \ {0} /\ ChildMayDie \in BOOLEAN

Bytes == 1 .. LENGTH
Procs == {"parent", "child"}
Segs  == {"buf", "sems"}

VARIABLES
  sems,           \* sems[0] (the buffer is free), sems[1] (a message is there)
  buf,            \* for each byte whether it is the child's (memset: none is)
  parent, child,  \* control
  written, got,   \* bytes the child has written; what the parent has read
  attached,       \* the processes that have each segment attached
  segment         \* live, marked for removal, gone

private == <<written, got>>
kernel  == <<attached, segment>>
vars    == <<sems, buf, parent, child, private, kernel>>

\* A segment goes when it is marked and nobody has it attached.
Detached(p, s) ==
  /\ attached' = [attached EXCEPT ![s] = @ \ {p}]
  /\ segment' = [segment EXCEPT ![s] =
                   IF @ = "marked" /\ attached[s] \subseteq {p} THEN "gone" ELSE @]

Removed(s) ==
  /\ segment' = [segment EXCEPT ![s] = IF attached[s] = {} THEN "gone" ELSE "marked"]
  /\ UNCHANGED attached

-----------------------------------------------------------------------------
(* The parent *)

Fork ==
  /\ parent = "fork"
  /\ parent' = "wait" /\ child' = "wait"
  /\ attached' = [s \in Segs |-> Procs]
  /\ UNCHANGED <<sems, buf, private, segment>>

\* abort(): the kernel detaches, nobody removes.
ForkFails ==
  /\ parent = "fork"
  /\ parent' = "abort"
  /\ attached' = [s \in Segs |-> {}]
  /\ UNCHANGED <<sems, buf, child, private, segment>>

ParentWait ==
  /\ parent = "wait" /\ sems[1] > 0
  /\ sems' = [sems EXCEPT ![1] = @ - 1]
  /\ parent' = "read"
  /\ UNCHANGED <<buf, child, private, kernel>>

\* printf of the message.
ParentRead ==
  /\ parent = "read"
  /\ got' = Append(got, buf[Len(got) + 1])
  /\ parent' = IF Len(got) + 1 = LENGTH THEN "post" ELSE "read"
  /\ UNCHANGED <<sems, buf, child, written, kernel>>

\* Mutant: both are posted.
ParentPostBoth ==
  /\ parent = "post"
  /\ sems' = [sems EXCEPT ![0] = @ + 1, ![1] = @ + 1]
  /\ parent' = "detach_buf"
  /\ UNCHANGED <<buf, child, private, kernel>>

ParentPost ==
  /\ parent = "post"
  /\ sems' = [sems EXCEPT ![0] = @ + 1]
  /\ parent' = "detach_buf"
  /\ UNCHANGED <<buf, child, private, kernel>>

ParentDetachBuf ==
  /\ parent = "detach_buf"
  /\ Detached("parent", "buf")
  /\ parent' = "rmid_buf"
  /\ UNCHANGED <<sems, buf, child, private>>

\* Mutant: the segment of the message is forgotten.
RmidBufForgotten ==
  /\ parent = "rmid_buf"
  /\ parent' = "detach_sems"
  /\ UNCHANGED <<sems, buf, child, private, kernel>>

\* The child may still have the buffer attached.
ParentRmidBuf ==
  /\ parent = "rmid_buf"
  /\ Removed("buf")
  /\ parent' = "detach_sems"
  /\ UNCHANGED <<sems, buf, child, private>>

ParentDetachSems ==
  /\ parent = "detach_sems"
  /\ Detached("parent", "sems")
  /\ parent' = "waitpid"
  /\ UNCHANGED <<sems, buf, child, private>>

Waitpid ==
  /\ parent = "waitpid" /\ child \in {"exit", "killed"}
  /\ parent' = "rmid_sems"
  /\ UNCHANGED <<sems, buf, child, private, kernel>>

\* shmctl, and sem_destroy on addresses no longer attached, which has no effect in
\* the C library the course uses.
ParentRmidSems ==
  /\ parent = "rmid_sems"
  /\ Removed("sems")
  /\ parent' = "done"
  /\ UNCHANGED <<sems, buf, child, private>>

-----------------------------------------------------------------------------
(* The child *)

\* usleep, then sem_wait(&sems[0]).
ChildWait ==
  /\ child = "wait" /\ sems[0] > 0
  /\ sems' = [sems EXCEPT ![0] = @ - 1]
  /\ child' = "write"
  /\ UNCHANGED <<buf, parent, private, kernel>>

\* sprintf.
ChildWrite ==
  /\ child = "write" /\ written < LENGTH
  /\ written' = written + 1
  /\ buf' = [buf EXCEPT ![written + 1] = TRUE]
  /\ UNCHANGED <<sems, parent, child, got, kernel>>

\* Mutant: the message is announced before it is complete.
ChildPostEarly ==
  /\ child = "write" /\ written + 1 >= LENGTH
  /\ sems' = [sems EXCEPT ![1] = @ + 1]
  /\ child' = "detach_buf"
  /\ UNCHANGED <<buf, parent, private, kernel>>

\* Mutant: the child gives the buffer back itself and forgets the parent.
ChildPostOther ==
  /\ child = "write" /\ written = LENGTH
  /\ sems' = [sems EXCEPT ![0] = @ + 1]
  /\ child' = "detach_buf"
  /\ UNCHANGED <<buf, parent, private, kernel>>

ChildPost ==
  /\ child = "write" /\ written = LENGTH
  /\ sems' = [sems EXCEPT ![1] = @ + 1]
  /\ child' = "detach_buf"
  /\ UNCHANGED <<buf, parent, private, kernel>>

ChildDetachBuf ==
  /\ child = "detach_buf"
  /\ Detached("child", "buf")
  /\ child' = "detach_sems"
  /\ UNCHANGED <<sems, buf, parent, private>>

ChildDetachSems ==
  /\ child = "detach_sems"
  /\ Detached("child", "sems")
  /\ child' = "exit"
  /\ UNCHANGED <<sems, buf, parent, private>>

\* A signal from outside: the kernel detaches, the semaphores stay as they are.
Killed ==
  /\ ChildMayDie /\ child \notin {"none", "exit", "killed"}
  /\ child' = "killed"
  /\ attached' = [s \in Segs |-> attached[s] \ {"child"}]
  /\ segment' = [s \in Segs |-> IF segment[s] = "marked" /\ attached[s] \subseteq {"child"}
                                THEN "gone" ELSE segment[s]]
  /\ UNCHANGED <<sems, buf, parent, private>>

-----------------------------------------------------------------------------
Init ==
  /\ sems = [n \in {0, 1} |-> IF n = 0 THEN 1 ELSE 0]
  /\ buf = [k \in Bytes |-> FALSE]
  /\ parent = "fork" /\ child = "none"
  /\ written = 0 /\ got = <<>>
  /\ attached = [s \in Segs |-> {"parent"}] /\ segment = [s \in Segs |-> "live"]

ParentStep ==
  \/ Fork \/ ParentWait \/ ParentRead \/ ParentPost \/ ParentDetachBuf
  \/ ParentRmidBuf \/ ParentDetachSems \/ Waitpid \/ ParentRmidSems

ChildStep ==
  ChildWait \/ ChildWrite \/ ChildPost \/ ChildDetachBuf \/ ChildDetachSems

ChildEnded == child \in {"none", "exit", "killed"}

\* The two ends of the program, and the parent that waits for a dead child.
Terminated ==
  /\ ChildEnded
  /\ parent \in {"done", "abort"} \/ (parent = "wait" /\ child = "killed" /\ sems[1] = 0)
  /\ UNCHANGED vars

Next == ParentStep \/ ForkFails \/ ChildStep \/ Killed \/ Terminated

Spec == Init /\ [][Next]_vars

\* Both processes are scheduled, and sem_wait returns when it can.
FairSpec == Spec /\ WF_vars(ParentStep) /\ WF_vars(ChildStep)

-----------------------------------------------------------------------------
(* Properties *)

TypeOK ==
  /\ sems \in [{0, 1} -> 0 .. 1] /\ buf \in [Bytes -> BOOLEAN]
  /\ parent \in {"fork", "wait", "read", "post", "detach_buf", "rmid_buf",
                 "detach_sems", "waitpid", "rmid_sems", "done", "abort"}
  /\ child \in {"none", "wait", "write", "detach_buf", "detach_sems", "exit", "killed"}
  /\ written \in 0 .. LENGTH
  /\ got \in Seq(BOOLEAN) /\ Len(got) <= LENGTH /\ (parent = "read" => Len(got) < LENGTH)
  /\ attached \in [Segs -> SUBSET Procs]
  /\ segment \in [Segs -> {"live", "marked", "gone"}]

ParentHolds == parent \in {"read", "post"}
ChildHolds  == child = "write"

\* There is one token: a semaphore has it or one of the two processes, which are
\* therefore never in the buffer together.  A child that is killed may take it.
OneToken ==
  LET holders == {p \in Procs : IF p = "parent" THEN ParentHolds ELSE ChildHolds}
      tokens  == sems[0] + sems[1]
  IN  /\ holders # Procs
      /\ child # "killed" => (tokens = 1 <=> holders = {}) /\ tokens <= 1

\* The parent reads the child's message, every byte of it, or nothing.
MessageWhole == \A k \in 1 .. Len(got) : got[k]

\* A program that reaches its end has read the message and leaves no segment.
CleanEnd ==
  parent = "done" /\ ChildEnded =>
    Len(got) = LENGTH /\ \A s \in Segs : segment[s] = "gone"

\* The program comes to an end unless fork fails or the child is killed: the
\* parent's sem_wait is answered.
Ends == <>(parent = "done" \/ parent = "abort" \/ child = "killed")
=============================================================================
