----------------------------- MODULE ForkNProofs -----------------------------
(***************************************************************************)
(* Theorems of ForkN, for every number of children.                        *)
(***************************************************************************)
EXTENDS ForkN, TLAPS

\* The pids known so far, and the worker whose line is printed next.
Known ==
  /\ main_pc = "fork" =>
       /\ reported = <<>>
       /\ \A c \in Kids : c < i => cpids[c] = Pid(c)
  /\ main_pc \in {"waitpid", "report"} => \A c \in Kids : cpids[c] = Pid(c)
  /\ main_pc = "report" => proc[i] = "gone" /\ how[i] = state
  /\ main_pc = "done" => i = NUM_CHILD

\* The workers whose turn is over have been waited for; those of them that exited
\* have one line, and nobody else has.
Over    == {c \in Kids : c < i}
Printed == {reported[k].n : k \in 1 .. Len(reported)}
Settled ==
  main_pc \in {"waitpid", "report", "done"} =>
    /\ \A c \in Over : proc[c] = "gone"
    /\ Printed = {c \in Over : how[c] = "exit"}
    /\ Ascending

\* How a child ended is known once it has.
Ended == \A c \in Kids : proc[c] \in {"zombie", "gone"} => how[c] \in {"exit", "signal"}

Inv == TypeOK /\ ReportsTrue /\ Known /\ Settled /\ Ended

-----------------------------------------------------------------------------
LEMMA PidInjective ==
  ASSUME NEW c \in Kids, NEW d \in Kids, Pid(c) = Pid(d)
  PROVE  c = d
BY DEF Kids, Pid

LEMMA InitInv == Init => Inv
<1> SUFFICES ASSUME Init PROVE Inv
  OBVIOUS
<1>1. TypeOK
  BY ChildAssumption DEF Init, TypeOK
<1>2. ReportsTrue /\ Known /\ Settled /\ Ended
  BY DEF Init, ReportsTrue, Known, Settled, Ended, Kids, Ascending
<1> QED BY <1>1, <1>2 DEF Inv

LEMMA ForkStep == ASSUME Inv, Fork PROVE Inv'
<1> USE DEF Inv
<1>1. /\ main_pc = "fork" /\ i \in Kids /\ reported = <<>> /\ reported' = <<>>
      /\ proc' = [proc EXCEPT ![i] = "run"] /\ how' = how /\ state' = state
      /\ cpids' = [cpids EXCEPT ![i] = Pid(i)]
  BY ChildAssumption DEF Fork, Start, TypeOK, Known, Kids
<1>2. \/ i' = i + 1 /\ i + 1 < NUM_CHILD /\ main_pc' = "fork"
      \/ i' = 0 /\ i + 1 = NUM_CHILD /\ main_pc' = "waitpid"
  BY <1>1, ChildAssumption DEF Fork, Kids
<1>3. TypeOK'
  BY <1>1, <1>2, ChildAssumption DEF TypeOK, Kids
<1>4. ReportsTrue'
  BY <1>1 DEF ReportsTrue
<1>5. \A c \in Kids : c <= i => cpids'[c] = Pid(c)
  BY <1>1 DEF TypeOK, Known, Kids
<1>6. Known'
  BY <1>1, <1>2, <1>5, ChildAssumption DEF Known, Kids
<1>7. Settled'
  BY <1>1, <1>2 DEF Settled, Over, Printed, Kids, Ascending
<1>8. Ended'
  BY <1>1 DEF Ended, TypeOK
<1> QED BY <1>3, <1>4, <1>6, <1>7, <1>8

LEMMA WaitpidStep == ASSUME Inv, Waitpid PROVE Inv'
<1> USE DEF Inv
<1>1. PICK c \in Kids : Pid(c) = cpids[i] /\ Reap(c) /\ state' = how[c]
  BY DEF Waitpid
<1>2. i \in Kids /\ main_pc = "waitpid" /\ main_pc' = "report"
      /\ i' = i /\ cpids' = cpids /\ reported' = reported
  BY ChildAssumption DEF Waitpid, TypeOK, Kids
<1>3. c = i
  BY <1>1, <1>2, PidInjective DEF Known
<1>4. proc[i] = "zombie" /\ proc' = [proc EXCEPT ![i] = "gone"] /\ how' = how
      /\ state' = how[i] /\ how[i] \in {"exit", "signal"}
  BY <1>1, <1>2, <1>3 DEF Reap, Ended
<1>5. TypeOK'
  BY <1>2, <1>4 DEF TypeOK
<1>6. ReportsTrue'
  BY <1>2, <1>4 DEF ReportsTrue, TrueLine, TypeOK
<1>7. Known'
  BY <1>2, <1>4 DEF Known, TypeOK
<1>8. Settled'
  BY <1>2, <1>4 DEF Settled, Over, Printed, TypeOK, Ascending
<1>9. Ended'
  BY <1>4 DEF Ended, TypeOK
<1> QED BY <1>5, <1>6, <1>7, <1>8, <1>9

LEMMA ReportStep == ASSUME Inv, Report PROVE Inv'
<1> USE DEF Inv
<1>1. /\ main_pc = "report" /\ i \in Kids /\ i' = i + 1
      /\ UNCHANGED <<proc, how, cpids, state>>
      /\ proc[i] = "gone" /\ how[i] = state /\ cpids[i] = Pid(i)
  BY ChildAssumption DEF Report, TypeOK, Known, Kids, kids
<1>2. main_pc' = IF i + 1 < NUM_CHILD THEN "waitpid" ELSE "done"
  BY DEF Report
<1>3. Over' = Over \cup {i}
  BY <1>1, ChildAssumption DEF Over, Kids
<1> DEFINE line == Line(i, Pid(i), "exit")
           Lines == [n : Kids, pid : {Pid(c) : c \in Kids}, state : {"exit"}]
<1>4. line \in Lines /\ reported \in Seq(Lines) /\ line.n = i
      /\ line.pid = Pid(i) /\ line.state = "exit"
  BY <1>1 DEF Line, TypeOK
<1> HIDE DEF line, Lines
<1>5. CASE state = "exit"
  <2>1. reported' = Append(reported, line)
    BY <1>1, <1>5 DEF Report, line
  <2>2. /\ reported' \in Seq(Lines) /\ Len(reported') = Len(reported) + 1
        /\ reported'[Len(reported) + 1] = line
        /\ \A k \in 1 .. Len(reported) : reported'[k] = reported[k]
    BY <1>4, <2>1
  <2>3. TypeOK'
    <3>1. /\ reported' \in Seq([n : Kids, pid : {Pid(c) : c \in Kids}, state : {"exit"}])
          /\ UNCHANGED Kids
      BY <2>2 DEF Lines
    <3>2. i' \in 0 .. NUM_CHILD /\ (main_pc' \in {"fork", "waitpid", "report"} => i' < NUM_CHILD)
          /\ main_pc' \in {"fork", "waitpid", "report", "done", "abort"}
      BY <1>1, <1>2, ChildAssumption DEF Kids
    <3> QED BY <1>1, <3>1, <3>2 DEF TypeOK
  <2>4. ReportsTrue'
    BY <1>1, <1>4, <1>5, <2>2 DEF ReportsTrue, TrueLine
  <2>5. Printed' = Printed \cup {i}
    BY <1>4, <2>2 DEF Printed
  <2>6. Ascending'
    <3> SUFFICES ASSUME NEW j \in 1 .. Len(reported'), NEW k \in 1 .. Len(reported'), j < k
                 PROVE  reported'[j].n < reported'[k].n
      BY DEF Ascending
    <3>1. Len(reported) \in Nat /\ j \in 1 .. Len(reported)
      BY <1>4, <2>2
    <3>2. reported[j].n < i
      BY <1>1, <3>1 DEF Settled, Printed, Over
    <3>3. CASE k = Len(reported) + 1
      BY <1>4, <2>2, <3>1, <3>2, <3>3
    <3>4. CASE k # Len(reported) + 1
      <4>1. k \in 1 .. Len(reported)
        BY <2>2, <3>1, <3>4
      <4> QED BY <1>1, <2>2, <3>1, <4>1 DEF Settled, Ascending
    <3> QED BY <3>3, <3>4
  <2>7. Settled'
    BY <1>1, <1>3, <1>5, <2>5, <2>6 DEF Settled
  <2>8. Known' /\ Ended'
    BY <1>1, <1>2, ChildAssumption DEF Known, Ended, Kids
  <2> QED BY <2>3, <2>4, <2>7, <2>8
<1>6. CASE state # "exit"
  <2>1. reported' = reported
    BY <1>6 DEF Report
  <2>2. TypeOK'
    BY <1>1, <1>2, <2>1, ChildAssumption DEF TypeOK, Kids
  <2>3. ReportsTrue'
    BY <1>1, <2>1 DEF ReportsTrue, TrueLine
  <2>4. Settled'
    BY <1>1, <1>3, <1>6, <2>1 DEF Settled, Printed, Ascending
  <2>5. Known' /\ Ended'
    BY <1>1, <1>2, ChildAssumption DEF Known, Ended, Kids
  <2> QED BY <2>2, <2>3, <2>4, <2>5
<1> QED BY <1>5, <1>6

\* A child that ends changes nothing the parent has looked at.
LEMMA EndsStep == ASSUME Inv, NEW c \in Kids, Ends(c) PROVE Inv'
<1> USE DEF Inv
<1>1. PICK h \in {"exit", "signal"} : how' = [how EXCEPT ![c] = h]
  BY DEF Ends
<1>2. proc[c] = "run" /\ proc' = [proc EXCEPT ![c] = "zombie"]
      /\ UNCHANGED <<main_pc, i, cpids, state, reported>>
  BY DEF Ends, report
<1>3. TypeOK'
  BY <1>1, <1>2 DEF TypeOK
<1>4. ReportsTrue'
  BY <1>1, <1>2 DEF ReportsTrue, TrueLine, TypeOK
<1>5. Known' /\ Ended'
  BY <1>1, <1>2, ChildAssumption DEF Known, Ended, TypeOK, Kids
<1>6. Settled'
  BY <1>1, <1>2 DEF Settled, Over, Printed, TypeOK, Ascending
<1> QED BY <1>3, <1>4, <1>5, <1>6

LEMMA AdoptStep == ASSUME Inv, NEW c \in Kids, Adopt(c) PROVE Inv'
<1> USE DEF Inv
<1>1. proc[c] = "zombie" /\ proc' = [proc EXCEPT ![c] = "gone"]
      /\ main_pc \in {"done", "abort"}
      /\ UNCHANGED <<how, main_pc, i, cpids, state, reported>>
  BY DEF Adopt, report, ParentEnded
<1>2. TypeOK' /\ Known' /\ Ended'
  BY <1>1 DEF TypeOK, Known, Ended
<1>3. ReportsTrue' /\ Settled'
  BY <1>1 DEF ReportsTrue, TrueLine, TypeOK, Settled, Over, Printed, Ascending
<1> QED BY <1>2, <1>3

LEMMA InvInductive == Spec => []Inv
<1>1. Inv /\ [Next]_vars => Inv'
  <2> SUFFICES ASSUME Inv, [Next]_vars PROVE Inv'
    OBVIOUS
  <2>1. CASE ParentStep
    BY <2>1, ForkStep, WaitpidStep, ReportStep DEF ParentStep
  <2>2. CASE ForkFails
    <3>1. main_pc' = "abort" /\ UNCHANGED <<proc, how, i, cpids, state, reported>>
      BY <2>2 DEF ForkFails, kids, report
    <3> QED BY <3>1 DEF Inv, TypeOK, ReportsTrue, TrueLine, Known, Settled, Ended
  <2>3. CASE \E c \in Kids : Ends(c) \/ Adopt(c)
    BY <2>3, EndsStep, AdoptStep
  <2>4. CASE Terminated \/ UNCHANGED vars
    <3>1. UNCHANGED <<proc, how, main_pc, i, cpids, state, reported>>
      BY <2>4 DEF Terminated, vars, kids, report
    <3> QED BY <3>1 DEF Inv, TypeOK, ReportsTrue, TrueLine, Known, Settled, Ended,
                        Over, Printed, Ascending
  <2> QED BY <2>1, <2>2, <2>3, <2>4 DEF Next
<1> QED BY <1>1, InitInv, PTL DEF Spec

-----------------------------------------------------------------------------
\* Every line forkN prints is true, for every number of workers, whatever order
\* they end in and however they end.
THEOREM LinesAreTrue == Spec => []ReportsTrue
BY InvInductive, PTL DEF Inv

\* A parent that gets to its end has waited for every worker and printed one line
\* for each of exactly those that exited.
THEOREM EveryWorkerAccountedFor == Spec => []AllAccountedFor
<1>1. Inv => AllAccountedFor
  <2> SUFFICES ASSUME Inv, main_pc = "done" PROVE AllAccountedFor
    BY DEF AllAccountedFor
  <2>1. Over = Kids
    BY ChildAssumption DEF Inv, Known, Over, Kids
  <2> QED BY <2>1 DEF Inv, Settled, Printed, AllAccountedFor
<1> QED BY <1>1, InvInductive, PTL
=============================================================================
