--------------------------- MODULE SemSimpleProofs ---------------------------
(***************************************************************************)
(* Theorems of SemSimple, for messages of every length.                    *)
(***************************************************************************)
EXTENDS SemSimple, TLAPS

\* Where the token is, by the control of the two processes: the child has it, or
\* it is in sems[1] or with the parent once the child has posted.
Token ==
  /\ child \in {"none", "wait"} =>
       sems[0] = 1 /\ sems[1] = 0 /\ written = 0 /\ parent \in {"fork", "wait", "abort"}
  /\ child = "none" <=> parent \in {"fork", "abort"}
  /\ child = "write" => sems[0] = 0 /\ sems[1] = 0 /\ parent = "wait"
  /\ child \in {"detach_buf", "detach_sems", "exit"} =>
       /\ parent # "fork" /\ parent # "abort"
       /\ sems[0] = IF parent \in {"wait", "read", "post"} THEN 0 ELSE 1
       /\ sems[1] = IF parent = "wait" THEN 1 ELSE 0
  /\ child = "killed" =>
       /\ parent # "wait" => sems[1] = 0
       /\ sems[0] + sems[1] <= 1
       /\ parent \in {"read", "post"} => sems[0] = 0

\* The buffer when the parent may read it.
Complete ==
  /\ \A k \in 1 .. written : buf[k]
  /\ sems[1] = 1 => written = LENGTH
  /\ child \in {"detach_buf", "detach_sems", "exit"} => written = LENGTH
  /\ parent \notin {"fork", "abort", "wait"} => written = LENGTH
  /\ parent \in {"fork", "abort", "wait"} => got = <<>>

Inv == TypeOK /\ Token /\ Complete /\ MessageWhole

-----------------------------------------------------------------------------
LEMMA InitInv == Init => Inv
<1> SUFFICES ASSUME Init PROVE Inv
  OBVIOUS
<1>1. TypeOK
  BY SemAssumption DEF Init, TypeOK, Segs, Procs
<1>2. Token /\ Complete /\ MessageWhole
  BY SemAssumption DEF Init, Token, Complete, MessageWhole
<1> QED BY <1>1, <1>2 DEF Inv

\* Detaching and removing leave the semaphores and the message alone.
LEMMA KernelType ==
  ASSUME TypeOK, NEW p \in Procs, NEW s \in Segs, Detached(p, s) \/ Removed(s)
  PROVE  attached' \in [Segs -> SUBSET Procs] /\ segment' \in [Segs -> {"live", "marked", "gone"}]
<1>1. CASE Detached(p, s)
  BY <1>1 DEF Detached, TypeOK
<1>2. CASE Removed(s)
  BY <1>2 DEF Removed, TypeOK
<1> QED BY <1>1, <1>2

LEMMA ParentKernelStep ==
  ASSUME Inv, ParentDetachBuf \/ ParentRmidBuf \/ ParentDetachSems \/ ParentRmidSems
  PROVE  Inv'
<1> USE DEF Inv
<1>1. attached' \in [Segs -> SUBSET Procs] /\ segment' \in [Segs -> {"live", "marked", "gone"}]
  BY KernelType DEF ParentDetachBuf, ParentRmidBuf, ParentDetachSems, ParentRmidSems,
                    Segs, Procs
<1>2. /\ UNCHANGED <<sems, buf, child, written, got>>
      /\ parent \in {"detach_buf", "rmid_buf", "detach_sems", "rmid_sems"}
      /\ parent' \in {"rmid_buf", "detach_sems", "waitpid", "done"}
  BY DEF ParentDetachBuf, ParentRmidBuf, ParentDetachSems, ParentRmidSems, private
<1>3. TypeOK'
  BY <1>1, <1>2 DEF TypeOK
<1>4. Token' /\ Complete' /\ MessageWhole'
  BY <1>2 DEF Token, Complete, MessageWhole
<1> QED BY <1>3, <1>4

LEMMA ParentControlStep ==
  ASSUME Inv, Fork \/ ForkFails \/ Waitpid
  PROVE  Inv'
<1> USE DEF Inv, private, kernel
<1>1. UNCHANGED <<sems, buf, written, got, segment>>
  BY DEF Fork, ForkFails, Waitpid
<1>2. TypeOK'
  BY <1>1 DEF TypeOK, Fork, ForkFails, Waitpid
<1>3. Complete' /\ MessageWhole'
  BY <1>1 DEF Complete, MessageWhole, Token, Fork, ForkFails, Waitpid
<1>4. Token'
  BY <1>1 DEF Token, Fork, ForkFails, Waitpid
<1> QED BY <1>2, <1>3, <1>4

\* The semaphores as two numbers.
LEMMA SemRange == TypeOK => sems[0] \in 0 .. 1 /\ sems[1] \in 0 .. 1
BY DEF TypeOK

LEMMA Semaphores ==
  ASSUME TypeOK, NEW n \in {0, 1}, NEW v \in 0 .. 1
  PROVE  /\ [sems EXCEPT ![n] = v] \in [{0, 1} -> 0 .. 1]
         /\ [sems EXCEPT ![n] = v][n] = v
         /\ \A o \in {0, 1} \ {n} : [sems EXCEPT ![n] = v][o] = sems[o]
BY DEF TypeOK

LEMMA ParentWaitStep == ASSUME Inv, ParentWait PROVE Inv'
<1> USE DEF Inv, private, kernel
<1>1. sems[0] \in 0 .. 1 /\ sems[1] = 1 /\ sems' = [sems EXCEPT ![1] = 0]
  <2>1. sems[0] \in 0 .. 1 /\ sems[1] = 1 /\ sems[1] - 1 = 0
    BY SemRange DEF ParentWait
  <2> QED BY <2>1 DEF ParentWait
<1>2. sems' \in [{0, 1} -> 0 .. 1] /\ sems'[1] = 0 /\ sems'[0] = sems[0]
  BY <1>1, Semaphores
<1>3. /\ parent = "wait" /\ parent' = "read"
      /\ UNCHANGED <<buf, child, written, got, attached, segment>>
  BY DEF ParentWait
<1>4. written = LENGTH /\ got = <<>>
  BY <1>1, <1>3 DEF Complete
<1>5. TypeOK'
  BY <1>2, <1>3, <1>4, SemAssumption DEF TypeOK
<1>6. Token'
  BY <1>1, <1>2, <1>3 DEF Token, TypeOK
<1>7. Complete' /\ MessageWhole'
  BY <1>2, <1>3, <1>4 DEF Complete, MessageWhole
<1> QED BY <1>5, <1>6, <1>7

LEMMA ParentPostStep == ASSUME Inv, ParentPost PROVE Inv'
<1> USE DEF Inv, private, kernel
<1>1. /\ parent = "post" /\ parent' = "detach_buf"
      /\ UNCHANGED <<buf, child, written, got, attached, segment>>
  BY DEF ParentPost
<1>2. sems[0] = 0 /\ sems[1] = 0
  <2>1. child \in {"detach_buf", "detach_sems", "exit", "killed"}
    BY <1>1 DEF Token, TypeOK
  <2> QED BY <1>1, <2>1, SemRange DEF Token
<1>3. sems' = [sems EXCEPT ![0] = 1]
  BY <1>2 DEF ParentPost
<1>4. sems' \in [{0, 1} -> 0 .. 1] /\ sems'[0] = 1 /\ sems'[1] = 0
  BY <1>2, <1>3, Semaphores
<1>5. TypeOK'
  BY <1>1, <1>4 DEF TypeOK
<1>6. Token'
  BY <1>1, <1>2, <1>4 DEF Token, TypeOK
<1>7. Complete' /\ MessageWhole'
  BY <1>1, <1>4 DEF Complete, MessageWhole
<1> QED BY <1>5, <1>6, <1>7

LEMMA ParentReadStep == ASSUME Inv, ParentRead PROVE Inv'
<1> USE DEF Inv, private, kernel
<1>1. /\ parent = "read" /\ parent' \in {"read", "post"}
      /\ got' = Append(got, buf[Len(got) + 1])
      /\ parent' = "read" => Len(got) + 1 # LENGTH
      /\ UNCHANGED <<sems, buf, child, written, attached, segment>>
  BY DEF ParentRead
<1>2. written = LENGTH /\ Len(got) \in Nat /\ Len(got) < LENGTH /\ LENGTH \in Nat
  BY <1>1, SemAssumption DEF Complete, TypeOK
<1>3. buf[Len(got) + 1] \in BOOLEAN /\ buf[Len(got) + 1]
  BY <1>2 DEF Complete, TypeOK, Bytes
<1>4. /\ got' \in Seq(BOOLEAN) /\ Len(got') = Len(got) + 1
      /\ got'[Len(got) + 1] = buf[Len(got) + 1]
      /\ \A k \in 1 .. Len(got) : got'[k] = got[k]
  <2>1. got \in Seq(BOOLEAN)
    BY DEF TypeOK
  <2> DEFINE b == buf[Len(got) + 1]
  <2>2. b \in BOOLEAN /\ got' = Append(got, b)
    BY <1>1, <1>3
  <2> HIDE DEF b
  <2>3. /\ got' \in Seq(BOOLEAN) /\ Len(got') = Len(got) + 1
        /\ got'[Len(got) + 1] = b
        /\ \A k \in 1 .. Len(got) : got'[k] = got[k]
    BY <2>1, <2>2
  <2> QED BY <2>3 DEF b
<1>5. TypeOK'
  BY <1>1, <1>2, <1>4 DEF TypeOK
<1>6. Token' /\ Complete'
  BY <1>1 DEF Token, Complete
<1>7. MessageWhole'
  <2> SUFFICES ASSUME NEW k \in 1 .. Len(got') PROVE got'[k]
    BY DEF MessageWhole
  <2>1. CASE k = Len(got) + 1
    BY <1>3, <1>4, <2>1
  <2>2. CASE k # Len(got) + 1
    <3>1. k \in 1 .. Len(got)
      BY <1>2, <1>4, <2>2
    <3>2. got'[k] = got[k] /\ got[k]
      BY <1>4, <3>1 DEF MessageWhole
    <3> QED BY <3>2
  <2> QED BY <2>1, <2>2
<1> QED BY <1>5, <1>6, <1>7

LEMMA ChildWaitStep == ASSUME Inv, ChildWait PROVE Inv'
<1> USE DEF Inv, private, kernel
<1>1. /\ child = "wait" /\ child' = "write"
      /\ UNCHANGED <<buf, parent, written, got, attached, segment>>
  BY DEF ChildWait
<1>2. sems[0] = 1 /\ sems[1] = 0 /\ sems' = [sems EXCEPT ![0] = 0] /\ parent = "wait"
  <2>1. sems[0] = 1 /\ sems[0] - 1 = 0 /\ sems[1] = 0
    BY <1>1 DEF Token
  <2>2. parent = "wait"
    BY <1>1 DEF Token
  <2> QED BY <2>1, <2>2 DEF ChildWait
<1>3. sems' \in [{0, 1} -> 0 .. 1] /\ sems'[0] = 0 /\ sems'[1] = 0
  BY <1>2, Semaphores
<1>4. TypeOK'
  BY <1>1, <1>3 DEF TypeOK
<1>5. Token'
  BY <1>1, <1>2, <1>3 DEF Token
<1>6. Complete' /\ MessageWhole'
  BY <1>1, <1>2, <1>3 DEF Complete, MessageWhole
<1> QED BY <1>4, <1>5, <1>6

LEMMA ChildWriteStep == ASSUME Inv, ChildWrite PROVE Inv'
<1> USE DEF Inv, private, kernel
<1>1. /\ child = "write" /\ written < LENGTH /\ written' = written + 1
      /\ buf' = [buf EXCEPT ![written + 1] = TRUE]
      /\ UNCHANGED <<sems, child, parent, got, attached, segment>>
  BY DEF ChildWrite
<1>2. sems[1] = 0 /\ parent = "wait"
  BY <1>1 DEF Token
<1>3. buf' \in [Bytes -> BOOLEAN] /\ written' \in 0 .. LENGTH
  <2>1. written \in Nat /\ LENGTH \in Nat /\ buf \in [Bytes -> BOOLEAN]
    BY SemAssumption DEF TypeOK
  <2>2. written' \in 0 .. LENGTH
    BY <1>1, <2>1
  <2>3. buf' \in [Bytes -> BOOLEAN]
    BY <1>1, <2>1
  <2> QED BY <2>2, <2>3
<1>4. \A k \in 1 .. written' : buf'[k]
  BY <1>1, SemAssumption DEF TypeOK, Complete, Bytes
<1>5. TypeOK'
  BY <1>1, <1>3 DEF TypeOK
<1>6. Token' /\ Complete' /\ MessageWhole'
  BY <1>1, <1>2, <1>4 DEF Token, Complete, MessageWhole
<1> QED BY <1>5, <1>6

LEMMA ChildPostStep == ASSUME Inv, ChildPost PROVE Inv'
<1> USE DEF Inv, private, kernel
<1>1. /\ child = "write" /\ child' = "detach_buf" /\ written = LENGTH
      /\ UNCHANGED <<buf, parent, written, got, attached, segment>>
  BY DEF ChildPost
<1>2. sems[0] = 0 /\ sems[1] = 0 /\ sems' = [sems EXCEPT ![1] = 1] /\ parent = "wait"
  <2>1. sems[0] = 0 /\ sems[1] = 0 /\ sems[1] + 1 = 1 /\ parent = "wait"
    BY <1>1 DEF Token
  <2> QED BY <2>1 DEF ChildPost
<1>3. sems' \in [{0, 1} -> 0 .. 1] /\ sems'[0] = 0 /\ sems'[1] = 1
  BY <1>2, Semaphores
<1>4. TypeOK'
  BY <1>1, <1>3 DEF TypeOK
<1>5. Token' /\ Complete' /\ MessageWhole'
  BY <1>1, <1>2, <1>3 DEF Token, Complete, MessageWhole
<1> QED BY <1>4, <1>5

LEMMA ChildEndStep ==
  ASSUME Inv, ChildDetachBuf \/ ChildDetachSems \/ Killed
  PROVE  Inv'
<1> USE DEF Inv
<1>1. /\ UNCHANGED <<sems, buf, parent, written, got>>
      /\ child # "none"
      /\ \/ child' = "killed"
         \/ /\ child \in {"detach_buf", "detach_sems"}
            /\ child' \in {"detach_sems", "exit"}
  BY DEF ChildDetachBuf, ChildDetachSems, Killed, private
<1>2. attached' \in [Segs -> SUBSET Procs] /\ segment' \in [Segs -> {"live", "marked", "gone"}]
  <2>1. CASE ChildDetachBuf \/ ChildDetachSems
    BY <2>1, KernelType DEF ChildDetachBuf, ChildDetachSems, Segs, Procs
  <2>2. CASE Killed
    BY <2>2 DEF Killed, TypeOK
  <2> QED BY <2>1, <2>2
<1>3. TypeOK'
  BY <1>1, <1>2 DEF TypeOK
<1>4. Complete' /\ MessageWhole'
  BY <1>1 DEF Complete, MessageWhole
<1>5. Token'
  <2>1. sems[0] \in 0 .. 1 /\ sems[1] \in 0 .. 1
    BY SemRange
  <2> QED BY <1>1, <2>1 DEF Token, TypeOK
<1> QED BY <1>3, <1>4, <1>5

LEMMA Inductive == Inv /\ [Next]_vars => Inv'
<1> SUFFICES ASSUME Inv, [Next]_vars PROVE Inv'
  OBVIOUS
<1>1. CASE ParentStep
  BY <1>1, ParentControlStep, ParentWaitStep, ParentReadStep, ParentPostStep,
     ParentKernelStep DEF ParentStep
<1>2. CASE ForkFails
  BY <1>2, ParentControlStep
<1>3. CASE ChildStep
  BY <1>3, ChildWaitStep, ChildWriteStep, ChildPostStep, ChildEndStep DEF ChildStep
<1>4. CASE Killed
  BY <1>4, ChildEndStep
<1>5. CASE Terminated \/ UNCHANGED vars
  BY <1>5 DEF Terminated, vars, private, kernel, Inv, TypeOK, Token, Complete, MessageWhole
<1> QED BY <1>1, <1>2, <1>3, <1>4, <1>5 DEF Next

LEMMA Invariance == Spec => []Inv
BY InitInv, Inductive, PTL DEF Spec

-----------------------------------------------------------------------------
\* The semaphores stay 0 or 1 and the message inside its buffer (sem_simple.c:58-120).
THEOREM TypeCorrect == Spec => []TypeOK
<1>1. Inv => TypeOK
  BY DEF Inv
<1> QED BY <1>1, Invariance, PTL

\* The parent and the child are never in the buffer together, and no token is made
\* or lost while the child lives (sem_simple.c:62-72 and 101-111).
THEOREM TokenKept == Spec => []OneToken
<1>1. Inv => OneToken
  <2> SUFFICES ASSUME Inv PROVE OneToken
    OBVIOUS
  <2>1. sems[0] \in 0 .. 1 /\ sems[1] \in 0 .. 1
    BY SemRange DEF Inv
  <2>2. ~(ParentHolds /\ ChildHolds)
    BY DEF Inv, Token, ParentHolds, ChildHolds
  <2>3. child # "killed" =>
          /\ sems[0] + sems[1] = 1 <=> ~ParentHolds /\ ~ChildHolds
          /\ sems[0] + sems[1] <= 1
    BY <2>1 DEF Inv, Token, TypeOK, ParentHolds, ChildHolds
  <2> DEFINE H == {p \in Procs : IF p = "parent" THEN ParentHolds ELSE ChildHolds}
  <2>4. ("parent" \in H <=> ParentHolds) /\ ("child" \in H <=> ChildHolds)
    BY DEF Procs
  <2>5. H # Procs
    BY <2>2, <2>4 DEF Procs
  <2>6. H = {} <=> ~ParentHolds /\ ~ChildHolds
    BY <2>4 DEF Procs
  <2> QED BY <2>3, <2>5, <2>6 DEF OneToken
<1> QED BY <1>1, Invariance, PTL

\* Whenever the child is killed, the parent reads nothing or the whole message
\* (sem_simple.c:62-67 and 107-111).
THEOREM NeverHalfAMessage == Spec => []MessageWhole
<1>1. Inv => MessageWhole
  BY DEF Inv
<1> QED BY <1>1, Invariance, PTL

-----------------------------------------------------------------------------
(* The segments. *)

\* Who has let go of what, by the control of the two processes, and how far the
\* message has been read.
Leaving ==
  /\ parent = "fork" => segment = [s \in Segs |-> "live"]
  /\ parent \notin {"fork", "abort", "wait", "read"} => Len(got) = LENGTH
  /\ parent \notin {"fork", "wait", "read", "post", "detach_buf"} =>
       "parent" \notin attached["buf"]
  /\ parent \in {"detach_sems", "waitpid", "rmid_sems", "done"} => segment["buf"] # "live"
  /\ parent \in {"waitpid", "rmid_sems", "done"} => "parent" \notin attached["sems"]
  /\ parent \in {"rmid_sems", "done"} => child \in {"exit", "killed"}
  /\ parent = "done" => segment["sems"] # "live"
  /\ child \in {"detach_sems", "exit", "killed"} => "child" \notin attached["buf"]
  /\ child \in {"exit", "killed"} => "child" \notin attached["sems"]

\* A marked segment is still attached by somebody.
MarkedIsUsed == \A s \in Segs : segment[s] = "marked" => attached[s] # {}

LEMMA LeavingInit == Init => Leaving /\ MarkedIsUsed
BY DEF Init, Leaving, MarkedIsUsed, Segs

\* The kernel frees a marked segment with its last detach.
LEMMA KernelFrees ==
  ASSUME TypeOK, MarkedIsUsed, NEW p \in Procs, NEW s \in Segs, Detached(p, s) \/ Removed(s)
  PROVE  /\ MarkedIsUsed'
         /\ \A t \in Segs : segment[t] # "live" => segment'[t] # "live"
         /\ \A t \in Segs : attached'[t] \subseteq attached[t]
         /\ \A t \in Segs : t # s => segment'[t] = segment[t]
         /\ Detached(p, s) => p \notin attached'[s]
         /\ Removed(s) => segment'[s] # "live"
<1>1. CASE Detached(p, s)
  <2>1. attached[s] \subseteq {p} <=> attached'[s] = {}
    BY <1>1 DEF Detached, TypeOK
  <2> QED BY <1>1, <2>1 DEF Detached, Removed, TypeOK, MarkedIsUsed
<1>2. CASE Removed(s)
  <2>1. attached' = attached
    BY <1>2 DEF Removed
  <2>2. segment' = [segment EXCEPT ![s] = IF attached[s] = {} THEN "gone" ELSE "marked"]
    BY <1>2 DEF Removed
  <2>3. Detached(p, s) => p \notin attached'[s]
    BY DEF Detached, TypeOK
  <2> QED BY <2>1, <2>2, <2>3 DEF TypeOK, MarkedIsUsed
<1> QED BY <1>1, <1>2

LEMMA LeavingInductive ==
  ASSUME Inv, Leaving, MarkedIsUsed, [Next]_vars
  PROVE  Leaving' /\ MarkedIsUsed'
<1> USE DEF Inv
<1>1. CASE ParentDetachBuf \/ ParentRmidBuf \/ ParentDetachSems \/ ParentRmidSems
  <2>1. PICK s \in Segs : Detached("parent", s) \/ Removed(s)
    BY <1>1 DEF ParentDetachBuf, ParentRmidBuf, ParentDetachSems, ParentRmidSems, Segs
  <2>2. /\ MarkedIsUsed'
        /\ \A t \in Segs : segment[t] # "live" => segment'[t] # "live"
        /\ \A t \in Segs : attached'[t] \subseteq attached[t]
    BY <2>1, KernelFrees DEF Procs
  <2>3. /\ ParentDetachBuf => "parent" \notin attached'["buf"]
        /\ ParentDetachSems => "parent" \notin attached'["sems"]
        /\ ParentRmidBuf => segment'["buf"] # "live"
        /\ ParentRmidSems => segment'["sems"] # "live"
    BY KernelFrees DEF ParentDetachBuf, ParentRmidBuf, ParentDetachSems, ParentRmidSems,
                       Segs, Procs
  <2> QED BY <1>1, <2>2, <2>3 DEF Leaving, ParentDetachBuf, ParentRmidBuf,
          ParentDetachSems, ParentRmidSems, Segs, private
<1>2. CASE ChildDetachBuf \/ ChildDetachSems
  <2>1. PICK s \in Segs : Detached("child", s)
    BY <1>2 DEF ChildDetachBuf, ChildDetachSems, Segs
  <2>2. /\ MarkedIsUsed'
        /\ \A t \in Segs : segment[t] # "live" => segment'[t] # "live"
        /\ \A t \in Segs : attached'[t] \subseteq attached[t]
    BY <2>1, KernelFrees DEF Procs
  <2>3. /\ ChildDetachBuf => "child" \notin attached'["buf"]
        /\ ChildDetachSems => "child" \notin attached'["sems"]
    BY KernelFrees DEF ChildDetachBuf, ChildDetachSems, Segs, Procs
  <2>4. parent # "fork" /\ parent' = parent
    BY <1>2 DEF ChildDetachBuf, ChildDetachSems, Token
  <2> QED BY <1>2, <2>2, <2>3, <2>4
          DEF Leaving, ChildDetachBuf, ChildDetachSems, Segs, private
<1>3. CASE Killed
  <2>1. /\ \A t \in Segs : attached'[t] = attached[t] \ {"child"}
        /\ \A t \in Segs : segment[t] # "live" => segment'[t] # "live"
        /\ UNCHANGED <<parent, got>> /\ child' = "killed"
    BY <1>3 DEF Killed, private
  <2>2. MarkedIsUsed'
    BY <1>3 DEF Killed, MarkedIsUsed, TypeOK
  <2>3. parent # "fork"
    BY <1>3 DEF Killed, Token
  <2> QED BY <2>1, <2>2, <2>3 DEF Leaving, Segs
<1>4. CASE Fork \/ ForkFails \/ Waitpid
  BY <1>4 DEF Fork, ForkFails, Waitpid, Leaving, MarkedIsUsed, Segs, Procs, Token, TypeOK,
     private, kernel
<1>5. CASE ParentRead
  <2>1. Len(got') = Len(got) + 1
    BY <1>5 DEF ParentRead, TypeOK
  <2> QED BY <1>5, <2>1 DEF ParentRead, Leaving, MarkedIsUsed, kernel
<1>6. CASE ParentWait \/ ParentPost \/ ChildWait \/ ChildWrite \/ ChildPost
  BY <1>6 DEF ParentWait, ParentPost, ChildWait, ChildWrite, ChildPost, Leaving,
     MarkedIsUsed, private, kernel
<1>7. CASE UNCHANGED vars
  BY <1>7 DEF vars, private, kernel, Leaving, MarkedIsUsed
<1> QED BY <1>1, <1>2, <1>3, <1>4, <1>5, <1>6, <1>7
        DEF Next, ParentStep, ChildStep, Terminated

\* Whatever order the two processes detach in, and wherever the child is killed: a
\* parent that gets to its end has read the whole message and left no segment
\* (sem_simple.c:74-95 and 112-120).
THEOREM NothingLeft == Spec => []CleanEnd
<1>1. Inv /\ Leaving /\ MarkedIsUsed => CleanEnd
  <2> SUFFICES ASSUME Inv, Leaving, MarkedIsUsed, parent = "done"
               PROVE  Len(got) = LENGTH /\ \A s \in Segs : segment[s] = "gone"
    BY DEF CleanEnd
  <2>1. child \in {"exit", "killed"}
    BY DEF Leaving
  <2>2. \A s \in Segs : attached[s] = {} /\ segment[s] # "live"
    BY <2>1 DEF Leaving, Segs, Inv, TypeOK, Procs
  <2> QED BY <2>2 DEF Leaving, MarkedIsUsed, Inv, TypeOK
<1>2. Inv /\ Leaving /\ MarkedIsUsed /\ [Next]_vars => Leaving' /\ MarkedIsUsed'
  BY LeavingInductive
<1> QED BY <1>1, <1>2, LeavingInit, Invariance, PTL DEF Spec
=============================================================================
