---------------------------- MODULE HandOffProofs ----------------------------
(***************************************************************************)
(* Theorems of HandOff, for every size of the segment, every answer of the *)
(* server and every message.                                               *)
(***************************************************************************)
EXTENDS HandOff, TLAPS

\* The number a complete result has to have.
Number == IF response.fragment THEN part ELSE -1

\* Which program has which process where, and who waits for whom.
Stages ==
  /\ program = "shm_simple" => response = [fragment |-> FALSE, body |-> Message]
  /\ program = "cURL" => pc["child"] = "none" /\ pc["parent"] \notin {"fork", "wait"}
  /\ program # "cURL" => pc["parent"] \notin WorkLabels
  /\ pc["child"] \in WorkLabels => program = "main_2proc"
  /\ pc["child"] \in {"attach", "memset", "sprintf"} => program = "shm_simple"
  /\ pc["parent"] \in {"shmget", "fork"} => pc["child"] = "none"
  /\ pc["parent"] = "attach" /\ program # "shm_simple" => pc["child"] = "none"
  /\ Waited /\ program # "cURL" => Ended("child")

\* Nothing has been written before the worker starts.
Fresh ==
  pc[Worker] \in {"shmget", "attach", "none", "init", "headers", "memset"} =>
    size = 0 /\ sent = 0 /\ seq = -1 /\ res = "none"

\* What the segment holds of the result: between the memcpy and the update of size
\* it is ahead of size, and stays so if the child is killed there.
Contents ==
  /\ program = "shm_simple" =>
       /\ size = 0 /\ seq = -1
       /\ \A k \in Index : buf[k] = IF k < sent THEN response.body[k + 1] ELSE NUL
  /\ program # "shm_simple" =>
       /\ size <= sent
       /\ \A k \in Index : k < size => buf[k] = response.body[k + 1]
       /\ pc[Worker] = "body" => size = sent
       /\ pc[Worker] = "size" => \A k \in Index : k < sent => buf[k] = response.body[k + 1]
  /\ pc[Worker] \in {"body", "size"} => seq = Number
  /\ res # "none" => pc[Worker] \notin WorkLabels \cup {"memset", "sprintf"}
  /\ res = "ok" =>
       /\ sent = Len(response.body) /\ seq = Number
       /\ program # "shm_simple" => size = sent

\* What the parent has taken is what is still there.
Taken ==
  written # NoFile =>
    /\ pc["parent"] \in {"detach", "remove", "exit"}
    /\ named = seq
    /\ program = "shm_simple" => written = sent

\* A process that is not there has nothing attached.
Kernel ==
  /\ \A p \in Processes : pc[p] \in EndLabels \cup {"none"} => p \notin attached
  /\ pc["parent"] = "exit" => seg = "marked"

Inv == TypeOK /\ Stages /\ Fresh /\ Contents /\ Taken /\ Kernel /\ OutputIsPrefix

-----------------------------------------------------------------------------
(* The constants and the types, as the provers need them. *)

LEMMA Sizes ==
  /\ BUF_SIZE \in Nat /\ BUF_SIZE > 0 /\ part \in Nat
  /\ 0 \in Index /\ Index \subseteq Nat
  /\ \A n \in Nat : n < BUF_SIZE => n \in Index
BY HandOffAssumption DEF Index

LEMMA Bodies ==
  ASSUME NEW r \in Responses \cup {[fragment |-> FALSE, body |-> Message]}
  PROVE  /\ r.body \in Seq({NUL, 1}) /\ Len(r.body) \in Nat /\ r.fragment \in BOOLEAN
         /\ \A k \in 1 .. Len(r.body) : r.body[k] \in {NUL, 1}
<1>1. r.body \in Seq({NUL, 1}) /\ r.fragment \in BOOLEAN
  <2>1. CASE r \in Responses
    BY <2>1, HandOffAssumption
  <2>2. CASE r = [fragment |-> FALSE, body |-> Message]
    BY <2>2, HandOffAssumption
  <2> QED BY <2>1, <2>2
<1> QED BY <1>1

\* Labels are put where they should be.
LEMMA Labels ==
  ASSUME TypeOK, NEW p \in Processes, NEW l, Goto(p, l)
  PROVE  /\ p = "parent" => pc'["parent"] = l /\ pc'["child"] = pc["child"]
         /\ p = "child"  => pc'["child"] = l /\ pc'["parent"] = pc["parent"]
         /\ pc' = [parent |-> pc'["parent"], child |-> pc'["child"]]
BY DEF TypeOK, Goto, Processes

LEMMA Workers == Worker \in Processes /\ (Worker = "parent" <=> program = "cURL")
BY DEF Worker, Processes

-----------------------------------------------------------------------------
LEMMA InitInv == Init => Inv
<1> SUFFICES ASSUME Init PROVE Inv
  OBVIOUS
<1>1. TypeOK
  BY Sizes, Bodies DEF Init, TypeOK, ParentLabels, ChildLabels, EndLabels, WorkLabels,
     NoFile, NUL, Processes
<1>2. Stages /\ Kernel
  BY DEF Init, Stages, Kernel, WorkLabels, EndLabels, Waited, Processes
<1>3. Fresh /\ Contents
  BY Sizes DEF Init, Fresh, Contents, Worker, WorkLabels
<1>4. Taken /\ OutputIsPrefix
  BY Sizes, <1>1, Bodies DEF Init, Taken, OutputIsPrefix, NoFile, TypeOK
<1> QED BY <1>1, <1>2, <1>3, <1>4 DEF Inv

-----------------------------------------------------------------------------
(* The segment and the child: the result and the output are left alone. *)

\* The parent on its way to the wait, or out.
LEMMA SetUpStep ==
  ASSUME Inv, Shmget \/ ShmgetFails \/ AttachFaults \/ ForkFails
              \/ AttachLate("parent") \/ AttachLateFails("parent")
  PROVE  Inv'
<1> USE Sizes DEF Inv
<1>1. /\ UNCHANGED <<choice, recv, network, output>>
      /\ pc["parent"] \in {"shmget", "attach", "fork"}
      /\ seg' \in {seg, "kept"}
      /\ attached' \subseteq Processes
      /\ \A p \in Processes : p \in attached' => p \in attached \/ p = "parent"
  BY DEF Shmget, ShmgetFails, AttachFaults, ForkFails, AttachLate, AttachLateFails,
         Leave, At, Processes, TypeOK, segment
<1>2. PICK l :
        /\ Goto("parent", l)
        /\ \/ /\ pc["parent"] = "shmget"
              /\ l \in {IF program = "shm_simple" THEN "fork" ELSE "attach", "abort"}
           \/ pc["parent"] = "attach" /\ program = "shm_simple" /\ l \in {"wait", "abort"}
           \/ pc["parent"] \in {"attach", "fork"} /\ l \in {"abort", "killed"}
        /\ l \in EndLabels => "parent" \notin attached'
  <2>1. CASE Shmget \/ ShmgetFails
    BY <2>1 DEF Shmget, ShmgetFails, At, EndLabels, Kernel, segment, Processes, TypeOK
  <2>2. CASE AttachFaults \/ AttachLateFails("parent")
    BY <2>2 DEF AttachFaults, AttachLateFails, Leave, At
  <2>3. CASE ForkFails
    BY <2>3 DEF ForkFails, Leave, At
  <2>4. CASE AttachLate("parent")
    BY <2>4 DEF AttachLate, At, EndLabels
  <2> QED BY <2>1, <2>2, <2>3, <2>4
<1>3. /\ pc'["parent"] = l /\ pc'["child"] = pc["child"]
      /\ pc' = [parent |-> pc'["parent"], child |-> pc'["child"]]
  BY <1>2, Labels DEF Processes
<1>4. TypeOK'
  BY <1>1, <1>2, <1>3
       DEF TypeOK, choice, recv, network, output, ParentLabels, EndLabels, WorkLabels
<1>5. Stages' /\ Kernel'
  BY <1>1, <1>2, <1>3
       DEF Stages, Kernel, Ended, choice, Waited, EndLabels, WorkLabels, Processes
<1>6. Fresh' /\ Contents'
  BY <1>1, <1>2, <1>3, Workers
       DEF Stages, Fresh, Contents, Worker, Number, choice, recv, network,
     WorkLabels
<1>7. Taken' /\ OutputIsPrefix'
  BY <1>1, <1>2, <1>3 DEF Taken, OutputIsPrefix, choice, recv, network, output
<1> QED BY <1>4, <1>5, <1>6, <1>7

\* The child of shm_simple gets to its memset, or a child ends, in whatever way.
LEMMA ChildControlStep ==
  ASSUME Inv, Killed \/ ChildExits \/ AttachLate("child") \/ AttachLateFails("child")
  PROVE  Inv'
<1> USE Sizes DEF Inv
<1>1. /\ UNCHANGED <<choice, seg, recv, network, output>>
      /\ attached' \subseteq Processes
      /\ "parent" \in attached' => "parent" \in attached
  BY DEF Killed, ChildExits, AttachLate, AttachLateFails, Leave, At, Processes, TypeOK,
       segment
<1>2. PICK l :
        /\ Goto("child", l)
        /\ pc["child"] # "none" /\ pc["child"] \notin EndLabels
        /\ \/ l \in EndLabels /\ "child" \notin attached'
           \/ pc["child"] = "attach" /\ l = "memset" /\ program = "shm_simple"
  BY DEF Killed, ChildExits, AttachLate, AttachLateFails, Leave, At, Ended,
     Processes, EndLabels, segment
<1>3. /\ pc'["child"] = l /\ pc'["parent"] = pc["parent"]
      /\ pc' = [parent |-> pc'["parent"], child |-> pc'["child"]]
  BY <1>2, Labels DEF Processes
<1>4. TypeOK'
  BY <1>1, <1>2, <1>3
       DEF TypeOK, choice, recv, network, output, ChildLabels, EndLabels, WorkLabels
<1>5. Stages' /\ Kernel'
  BY <1>1, <1>2, <1>3
       DEF Stages, Kernel, Ended, choice, Waited, EndLabels, WorkLabels, Processes
<1>6. Fresh' /\ Contents'
  BY <1>1, <1>2, <1>3 DEF Stages, Fresh, Contents, Worker, Number, choice, recv, network,
     WorkLabels, EndLabels
<1>7. Taken' /\ OutputIsPrefix'
  BY <1>1, <1>2, <1>3 DEF Taken, OutputIsPrefix, choice, recv, network, output
<1> QED BY <1>4, <1>5, <1>6, <1>7

\* shm_recv_buf_init writes what was there.
LEMMA AttachInitStep == ASSUME Inv, AttachInit PROVE Inv'
<1> USE Sizes DEF Inv
<1>1. /\ UNCHANGED <<choice, seg, buf, network, output>>
      /\ pc["parent"] = "attach" /\ program # "shm_simple"
      /\ attached' = {"parent"} /\ size' = 0 /\ seq' = -1
      /\ Goto("parent", IF program = "cURL" THEN "init" ELSE "fork")
  BY DEF AttachInit, At
<1>2. /\ pc'["parent"] = IF program = "cURL" THEN "init" ELSE "fork"
      /\ pc'["child"] = pc["child"]
      /\ pc' = [parent |-> pc'["parent"], child |-> pc'["child"]]
  BY <1>1, Labels DEF Processes
<1>3. pc["child"] = "none" /\ size = 0 /\ seq = -1 /\ sent = 0 /\ res = "none"
  BY <1>1 DEF Stages, Fresh, Worker
<1>4. TypeOK'
  BY <1>1, <1>2 DEF TypeOK, choice, network, output, ParentLabels, EndLabels, WorkLabels,
     Processes
<1>5. Stages' /\ Kernel'
  BY <1>1, <1>2, <1>3 DEF Stages, Kernel, choice, Waited, EndLabels, WorkLabels, Processes
<1>6. Fresh' /\ Contents'
  BY <1>1, <1>2, <1>3 DEF Fresh, Contents, Worker, choice, network, WorkLabels
<1>7. Taken' /\ OutputIsPrefix'
  BY <1>1 DEF Taken, OutputIsPrefix, choice, output
<1> QED BY <1>4, <1>5, <1>6, <1>7

LEMMA ForkStep == ASSUME Inv, Fork PROVE Inv'
<1> USE Sizes DEF Inv
<1>1. /\ UNCHANGED <<choice, seg, recv, network, output>>
      /\ pc["parent"] = "fork" /\ pc["child"] = "none" /\ program # "cURL"
      /\ pc' = IF program = "shm_simple" THEN [parent |-> "attach", child |-> "attach"]
               ELSE [parent |-> "wait", child |-> "init"]
      /\ attached' \subseteq Processes
  BY DEF Fork, At, Stages
<1>2. TypeOK'
  BY <1>1 DEF TypeOK, choice, recv, network, output, ParentLabels, ChildLabels, EndLabels,
     WorkLabels
<1>3. Stages' /\ Kernel'
  BY <1>1 DEF Stages, Kernel, choice, Waited, EndLabels, WorkLabels, Processes, TypeOK
<1>4. Fresh' /\ Contents'
  BY <1>1 DEF Fresh, Contents, Worker, Number, choice, recv, network, WorkLabels, TypeOK
<1>5. Taken' /\ OutputIsPrefix'
  BY <1>1 DEF Taken, OutputIsPrefix, choice, recv, network, output
<1> QED BY <1>2, <1>3, <1>4, <1>5

-----------------------------------------------------------------------------
(* The download and the message. *)

\* A step of the worker to a label of its own: nobody has taken anything, and who
\* waits for whom does not change.
LEMMA WorkerMoves ==
  ASSUME Inv, NEW l, Goto(Worker, l),
         UNCHANGED <<choice, segment, output>>,
         \/ pc[Worker] \in WorkLabels /\ l \in WorkLabels
         \/ pc[Worker] \in WorkLabels /\ program = "cURL" /\ l = "output"
         \/ pc[Worker] \in WorkLabels /\ program = "main_2proc" /\ l = "cleanup"
         \/ pc[Worker] \in {"memset", "sprintf"} /\ l \in {"sprintf", "cleanup"}
  PROVE  /\ Stages' /\ Kernel' /\ Taken' /\ OutputIsPrefix'
         /\ pc'[Worker] = l /\ Worker' = Worker /\ written = NoFile
         /\ pc' = [parent |-> pc'["parent"], child |-> pc'["child"]]
         /\ pc'["parent"] \in ParentLabels \cup WorkLabels /\ pc'["child"] \in ChildLabels
<1> USE Sizes DEF Inv
<1>1. /\ Worker = "parent" => pc'["parent"] = l /\ pc'["child"] = pc["child"]
      /\ Worker = "child"  => pc'["child"] = l /\ pc'["parent"] = pc["parent"]
      /\ pc' = [parent |-> pc'["parent"], child |-> pc'["child"]]
  BY Labels, Workers
<1>2. Worker' = Worker
  BY DEF Worker, choice
<1>3. written = NoFile
  BY Workers DEF Taken, Stages, Waited, Ended, Processes, WorkLabels, EndLabels
<1>4. CASE program = "cURL"
  <2>1. Worker = "parent" /\ pc["parent"] \in WorkLabels /\ pc["child"] = "none"
    BY <1>4 DEF Worker, Stages, WorkLabels, ParentLabels, EndLabels, TypeOK
  <2>2. Stages' /\ Kernel'
    BY <1>1, <1>4, <2>1
         DEF Stages, Kernel, choice, segment, Waited, EndLabels, WorkLabels,
       Processes
  <2>3. pc'["parent"] \in ParentLabels \cup WorkLabels /\ pc'["child"] \in ChildLabels
    BY <1>1, <1>4, <2>1 DEF ParentLabels, ChildLabels, WorkLabels
  <2> QED BY <1>1, <1>2, <1>3, <2>1, <2>2, <2>3 DEF Taken, OutputIsPrefix, choice, output, NoFile
<1>5. CASE program # "cURL"
  <2>1. Worker = "child"
    BY <1>5 DEF Worker
  <2>2. Stages' /\ Kernel'
    BY <1>1, <1>5, <2>1
         DEF Stages, Kernel, choice, segment, Waited, EndLabels, WorkLabels,
       Processes, Ended
  <2>3. pc'["parent"] \in ParentLabels \cup WorkLabels /\ pc'["child"] \in ChildLabels
    BY <1>1, <1>5, <2>1 DEF ChildLabels, WorkLabels, TypeOK
  <2> QED BY <1>1, <1>2, <1>3, <2>1, <2>2, <2>3 DEF Taken, OutputIsPrefix, choice, output, NoFile
<1> QED BY <1>4, <1>5

LEMMA EasyInitStep == ASSUME Inv, EasyInit PROVE Inv'
<1> USE Sizes DEF Inv
<1>1. /\ UNCHANGED <<choice, segment, recv, network, output>>
      /\ pc[Worker] = "init" /\ Goto(Worker, "headers")
  BY DEF EasyInit, At
<1>2. /\ Stages' /\ Kernel' /\ Taken' /\ OutputIsPrefix'
      /\ pc'[Worker] = "headers" /\ Worker' = Worker
      /\ pc' = [parent |-> pc'["parent"], child |-> pc'["child"]]
      /\ pc'["parent"] \in ParentLabels \cup WorkLabels /\ pc'["child"] \in ChildLabels
  BY <1>1, WorkerMoves DEF WorkLabels
<1>3. TypeOK'
  BY <1>1, <1>2 DEF TypeOK, choice, segment, recv, network, output
<1>4. Fresh' /\ Contents'
  BY <1>1, <1>2 DEF Fresh, Contents, choice, recv, network, WorkLabels
<1> QED BY <1>2, <1>3, <1>4

\* The worker gives up: returns 1, or aborts on a body that does not fit.
LEMMA WorkerFailsStep ==
  ASSUME Inv, EasyInitFails \/ \E n \in 1 .. Len(response.body) : WriteAborts(n)
  PROVE  Inv'
<1> USE Sizes DEF Inv
<1>1. /\ UNCHANGED <<choice, seg, recv, network, output>>
      /\ pc[Worker] \in {"init", "body"} /\ attached' = attached \ {Worker}
  BY DEF EasyInitFails, WriteAborts, Leave, At
<1>2. PICK l \in {"return1", "abort"} : Goto(Worker, l)
  BY DEF EasyInitFails, WriteAborts, Leave
<1>3. /\ Worker = "parent" => pc'["parent"] = l /\ pc'["child"] = pc["child"]
      /\ Worker = "child"  => pc'["child"] = l /\ pc'["parent"] = pc["parent"]
      /\ pc' = [parent |-> pc'["parent"], child |-> pc'["child"]]
  BY <1>2, Labels, Workers
<1>4. TypeOK'
  BY <1>1, <1>3, Workers DEF TypeOK, choice, recv, network, output, ParentLabels,
     ChildLabels, EndLabels
<1>5. Stages' /\ Kernel'
  BY <1>1, <1>2, <1>3, Workers DEF Stages, Kernel, choice, Waited, Ended, EndLabels,
     WorkLabels, Processes
<1>6. Fresh' /\ Contents'
  BY <1>1, <1>2, <1>3, Workers DEF Fresh, Contents, Worker, Number, choice, recv, network,
     WorkLabels
<1>7. Taken' /\ OutputIsPrefix'
  <2>1. OutputIsPrefix'
    BY <1>1 DEF OutputIsPrefix, choice, output
  <2>2. CASE Worker = "parent"
    BY <1>1, <2>1, <2>2 DEF Taken, output
  <2>3. CASE Worker = "child"
    BY <1>1, <1>3, <2>1, <2>3 DEF Taken, choice, recv, network, output
  <2> QED BY <2>2, <2>3, Workers DEF Processes
<1> QED BY <1>4, <1>5, <1>6, <1>7

LEMMA HeaderStep == ASSUME Inv, HeaderCb PROVE Inv'
<1> USE Sizes DEF Inv
<1>1. /\ UNCHANGED <<choice, segment, buf, size, network, output>>
      /\ pc[Worker] = "headers" /\ Goto(Worker, "body")
      /\ seq' = IF response.fragment THEN part ELSE seq
  BY DEF HeaderCb, At
<1>2. /\ Stages' /\ Kernel' /\ OutputIsPrefix' /\ written = NoFile
      /\ pc'[Worker] = "body" /\ Worker' = Worker
      /\ pc' = [parent |-> pc'["parent"], child |-> pc'["child"]]
      /\ pc'["parent"] \in ParentLabels \cup WorkLabels /\ pc'["child"] \in ChildLabels
  BY <1>1, WorkerMoves DEF WorkLabels
<1>3. program # "shm_simple" /\ size = 0 /\ sent = 0 /\ seq = -1 /\ res = "none"
  BY <1>1, Workers DEF Fresh, Stages, WorkLabels, Processes
<1>4. TypeOK'
  BY <1>1, <1>2 DEF TypeOK, choice, segment, network, output
<1>5. Fresh' /\ Contents' /\ Taken'
  BY <1>1, <1>2, <1>3
       DEF Fresh, Contents, Taken, Number, choice, network, output, WorkLabels
<1> QED BY <1>2, <1>4, <1>5

\* libcurl passes on n bytes: they are in the buffer, size does not count them yet.
LEMMA WriteBytesStep ==
  ASSUME Inv, NEW n \in 1 .. Len(response.body), WriteBytes(n)
  PROVE  Inv'
<1> USE Sizes DEF Inv
<1>1. /\ UNCHANGED <<choice, segment, size, seq, res, output>>
      /\ pc[Worker] = "body" /\ Goto(Worker, "size")
      /\ n <= Len(response.body) - sent /\ ~(size + n + 1 > BUF_SIZE) /\ sent' = sent + n
      /\ buf' = [k \in Index |->
                   IF size <= k /\ k < size + n THEN response.body[sent + k - size + 1]
                   ELSE buf[k]]
  BY DEF WriteBytes, At, TooSmall
<1>2. /\ Stages' /\ Kernel' /\ Taken' /\ OutputIsPrefix' /\ written = NoFile
      /\ pc'[Worker] = "size" /\ Worker' = Worker
      /\ pc' = [parent |-> pc'["parent"], child |-> pc'["child"]]
      /\ pc'["parent"] \in ParentLabels \cup WorkLabels /\ pc'["child"] \in ChildLabels
  BY <1>1, WorkerMoves DEF WorkLabels
<1>3. program # "shm_simple" /\ size = sent /\ seq = Number /\ res = "none"
  BY <1>1, Workers DEF Contents, Stages, WorkLabels, Processes
<1>4. /\ n \in Nat /\ sent \in Nat /\ sent + n <= Len(response.body)
      /\ sent + n \in Index
      /\ \A k \in 1 .. Len(response.body) : response.body[k] \in {NUL, 1}
  <2>1. /\ Len(response.body) \in Nat
        /\ \A k \in 1 .. Len(response.body) : response.body[k] \in {NUL, 1}
    BY Bodies DEF TypeOK
  <2>2. sent \in Nat /\ n \in Nat
    BY <2>1 DEF TypeOK
  <2>3. sent + n \in Nat /\ sent + n < BUF_SIZE /\ sent + n <= Len(response.body)
    BY <1>1, <1>3, <2>1, <2>2
  <2> QED BY <2>1, <2>2, <2>3
<1>5. /\ buf' \in [Index -> {NUL, 1}]
      /\ \A k \in Index : k < sent + n => buf'[k] = response.body[k + 1]
  <2>1. ASSUME NEW k \in Index
        PROVE  /\ buf'[k] \in {NUL, 1}
               /\ k < sent + n => buf'[k] = response.body[k + 1]
    <3>1. buf'[k] = IF sent <= k /\ k < sent + n THEN response.body[sent + k - sent + 1]
                    ELSE buf[k]
      BY <1>1, <1>3
    <3>2. k \in Nat /\ sent + k - sent + 1 = k + 1
      BY <1>4
    <3>3. CASE sent <= k /\ k < sent + n
      BY <1>4, <3>1, <3>2, <3>3, Bodies DEF TypeOK
    <3>4. CASE k < sent
      BY <1>3, <1>4, <3>1, <3>2, <3>4 DEF TypeOK, Contents
    <3>5. CASE k >= sent + n
      BY <1>4, <3>1, <3>2, <3>5 DEF TypeOK
    <3> QED BY <1>4, <3>2, <3>3, <3>4, <3>5
  <2> QED BY <1>1, <2>1
<1>6. TypeOK'
  BY <1>1, <1>2, <1>4, <1>5 DEF TypeOK, choice, segment, output
<1>7. Fresh' /\ Contents'
  BY <1>1, <1>2, <1>3, <1>4, <1>5 DEF Fresh, Contents, Number, choice, WorkLabels
<1> QED BY <1>2, <1>6, <1>7

\* size catches up, and the NUL is put behind the data.
LEMMA WriteSizeStep == ASSUME Inv, WriteSize PROVE Inv'
<1> USE Sizes DEF Inv
<1>1. /\ UNCHANGED <<choice, segment, seq, network, output>>
      /\ pc[Worker] = "size" /\ Goto(Worker, "body")
      /\ size' = sent /\ buf' = [buf EXCEPT ![sent] = NUL]
  BY DEF WriteSize, At
<1>2. /\ Stages' /\ Kernel' /\ Taken' /\ OutputIsPrefix' /\ written = NoFile
      /\ pc'[Worker] = "body" /\ Worker' = Worker
      /\ pc' = [parent |-> pc'["parent"], child |-> pc'["child"]]
      /\ pc'["parent"] \in ParentLabels \cup WorkLabels /\ pc'["child"] \in ChildLabels
  BY <1>1, WorkerMoves DEF WorkLabels
<1>3. program # "shm_simple" /\ seq = Number /\ res = "none"
  BY <1>1, Workers DEF Contents, Stages, WorkLabels, Processes
<1>4. TypeOK'
  BY <1>1, <1>2 DEF TypeOK, choice, segment, network, output
<1>5. Fresh' /\ Contents'
  BY <1>1, <1>2, <1>3 DEF TypeOK, Fresh, Contents, Number, choice, network, WorkLabels
<1> QED BY <1>2, <1>4, <1>5

LEMMA PerformStep == ASSUME Inv, PerformReturns PROVE Inv'
<1> USE Sizes DEF Inv
<1>1. /\ UNCHANGED <<choice, segment, recv, sent, output>>
      /\ pc[Worker] \in {"headers", "body"}
      /\ \/ res' = "error"
         \/ pc[Worker] = "body" /\ sent = Len(response.body) /\ res' = "ok"
  BY DEF PerformReturns, At
<1>2. PICK l \in {"output", "cleanup"} :
        Goto(Worker, l) /\ l = IF program = "cURL" THEN "output" ELSE "cleanup"
  BY DEF PerformReturns
<1>3. program \in {"cURL", "main_2proc"}
  BY <1>1, Workers DEF Stages, WorkLabels, Processes
<1>4. /\ Stages' /\ Kernel' /\ Taken' /\ OutputIsPrefix'
      /\ pc'[Worker] = l /\ Worker' = Worker
      /\ pc' = [parent |-> pc'["parent"], child |-> pc'["child"]]
      /\ pc'["parent"] \in ParentLabels \cup WorkLabels /\ pc'["child"] \in ChildLabels
  BY <1>1, <1>2, <1>3, WorkerMoves DEF WorkLabels
<1>5. TypeOK'
  BY <1>1, <1>4 DEF TypeOK, choice, segment, recv, output
<1>6. Fresh' /\ Contents'
  BY <1>1, <1>2, <1>3, <1>4 DEF Fresh, Contents, Number, choice, recv, WorkLabels
<1> QED BY <1>4, <1>5, <1>6

\* memset and sprintf.
LEMMA MessageStep == ASSUME Inv, Memset \/ Sprintf \/ SprintfReturns PROVE Inv'
<1> USE Sizes DEF Inv
<1>1. program = "shm_simple" /\ Worker = "child" /\ pc["child"] \in {"memset", "sprintf"}
  BY DEF Memset, Sprintf, SprintfReturns, At, Stages, Worker
<1>2. /\ \A k \in Index : buf[k] = IF k < sent THEN response.body[k + 1] ELSE NUL
      /\ response.body = Message /\ Len(Message) \in Nat /\ Len(Message) < BUF_SIZE
      /\ sent \in Nat /\ size = 0 /\ seq = -1 /\ res = "none"
      /\ \A k \in 1 .. Len(Message) : Message[k] \in {NUL, 1}
      /\ pc["child"] = "memset" => sent = 0
  BY <1>1, HandOffAssumption DEF Contents, Fresh, Stages, TypeOK
<1>3. CASE Memset
  <2>1. /\ UNCHANGED <<choice, segment, size, seq, network, output>>
        /\ Goto("child", "sprintf") /\ buf' = [k \in Index |-> NUL] /\ sent = 0
    BY <1>2, <1>3 DEF Memset, At
  <2>2. /\ Stages' /\ Kernel' /\ Taken' /\ OutputIsPrefix'
        /\ pc'["child"] = "sprintf" /\ Worker' = Worker
        /\ pc' = [parent |-> pc'["parent"], child |-> pc'["child"]]
        /\ pc'["parent"] \in ParentLabels \cup WorkLabels /\ pc'["child"] \in ChildLabels
    BY <1>1, <2>1, WorkerMoves
  <2>3. TypeOK'
    BY <2>1, <2>2 DEF TypeOK, choice, segment, network, output
  <2>4. Fresh' /\ Contents'
    BY <1>1, <1>2, <2>1, <2>2 DEF Fresh, Contents, choice, network, WorkLabels
  <2> QED BY <2>2, <2>3, <2>4
<1>4. CASE Sprintf
  <2>1. /\ UNCHANGED <<choice, segment, size, seq, res, output, pc>>
        /\ pc["child"] = "sprintf" /\ sent < Len(Message) /\ sent' = sent + 1
        /\ buf' = [buf EXCEPT ![sent] = Message[sent + 1]]
    BY <1>2, <1>4 DEF Sprintf, At
  <2>2. TypeOK'
    BY <1>2, <2>1 DEF TypeOK, choice, segment, output
  <2>3. Stages' /\ Kernel'
    BY <2>1 DEF Stages, Kernel, choice, segment, Waited, Ended
  <2>4. Fresh' /\ Contents'
    BY <1>1, <1>2, <2>1 DEF TypeOK, Fresh, Contents, choice, Worker, WorkLabels
  <2>5. written = NoFile
    BY <1>1 DEF Taken, Stages, Waited, Ended, EndLabels
  <2>6. Taken' /\ OutputIsPrefix'
    BY <2>1, <2>5 DEF Taken, OutputIsPrefix, choice, output
  <2> QED BY <2>2, <2>3, <2>4, <2>6
<1>5. CASE SprintfReturns
  <2>1. /\ UNCHANGED <<choice, segment, recv, sent, output>>
        /\ pc["child"] = "sprintf" /\ Goto("child", "cleanup")
        /\ sent = Len(Message) /\ res' = "ok"
    BY <1>2, <1>5 DEF SprintfReturns, At
  <2>2. /\ Stages' /\ Kernel' /\ Taken' /\ OutputIsPrefix'
        /\ pc'["child"] = "cleanup" /\ Worker' = Worker
        /\ pc' = [parent |-> pc'["parent"], child |-> pc'["child"]]
        /\ pc'["parent"] \in ParentLabels \cup WorkLabels /\ pc'["child"] \in ChildLabels
    BY <1>1, <2>1, WorkerMoves
  <2>3. TypeOK'
    BY <2>1, <2>2 DEF TypeOK, choice, segment, recv, output
  <2>4. Number = -1
    BY <1>1 DEF Stages, Number
  <2>5. Fresh' /\ Contents'
    BY <1>1, <1>2, <2>1, <2>2, <2>4 DEF Fresh, Contents, Number, choice, recv, WorkLabels
  <2> QED BY <2>2, <2>3, <2>5
<1> QED BY <1>3, <1>4, <1>5

-----------------------------------------------------------------------------
(* The parent takes the result. *)

\* A step of the parent alone, at or after its wait, that leaves the segment's
\* contents as they are.
LEMMA ParentMoves ==
  ASSUME Inv, NEW l, Goto("parent", l), UNCHANGED <<choice, recv, network>>,
         \/ pc["parent"] = "wait" /\ l = "output" /\ Ended("child")
         \/ pc["parent"] = "output" /\ l = "detach"
         \/ pc["parent"] = "detach" /\ l = "remove"
         \/ pc["parent"] = "remove" /\ l = "exit"
  PROVE  /\ Stages' /\ Fresh' /\ Contents' /\ pc'["parent"] = l /\ pc'["child"] = pc["child"]
         /\ pc' = [parent |-> pc'["parent"], child |-> pc'["child"]]
         /\ pc'["parent"] \in ParentLabels /\ Worker' = Worker
<1> USE Sizes DEF Inv
<1>1. /\ pc'["parent"] = l /\ pc'["child"] = pc["child"]
      /\ pc' = [parent |-> pc'["parent"], child |-> pc'["child"]]
  BY Labels DEF Processes
<1>2. Stages'
  BY <1>1 DEF Stages, choice, Waited, Ended, EndLabels, WorkLabels
<1>3. Fresh' /\ Contents'
  BY <1>1 DEF Fresh, Contents, Number, Worker, choice, recv, network, WorkLabels
<1>4. pc'["parent"] \in ParentLabels /\ Worker' = Worker
  BY <1>1 DEF ParentLabels, EndLabels, Worker, choice
<1> QED BY <1>1, <1>2, <1>3, <1>4

LEMMA WaitpidStep == ASSUME Inv, Waitpid PROVE Inv'
<1> USE Sizes DEF Inv
<1>1. /\ UNCHANGED <<choice, segment, recv, network, output>>
      /\ pc["parent"] = "wait" /\ Ended("child") /\ Goto("parent", "output")
  BY DEF Waitpid, At
<1>2. /\ Stages' /\ Fresh' /\ Contents' /\ pc'["parent"] = "output"
      /\ pc'["child"] = pc["child"]
      /\ pc' = [parent |-> pc'["parent"], child |-> pc'["child"]]
      /\ pc'["parent"] \in ParentLabels
  BY <1>1, ParentMoves
<1>3. TypeOK' /\ Kernel'
  BY <1>1, <1>2 DEF TypeOK, Kernel, choice, segment, recv, network, output, Processes,
     EndLabels
<1>4. Taken' /\ OutputIsPrefix'
  BY <1>1, <1>2 DEF Taken, OutputIsPrefix, choice, recv, network, output
<1> QED BY <1>2, <1>3, <1>4

\* What the parent takes: n bytes that are those of the body, or all of a string.
LEMMA TakeIsPrefix ==
  ASSUME Inv, NEW n \in 0 .. BUF_SIZE - 1,
         \/ program # "shm_simple" /\ n <= size
         \/ program = "shm_simple" /\ StringLength(n)
  PROVE  /\ n <= sent /\ sent <= Len(response.body)
         /\ \A k \in Index : k < n => buf[k] = response.body[k + 1]
         /\ program = "shm_simple" => n = sent
<1> USE Sizes DEF Inv
<1>1. n \in Index /\ sent \in Index /\ sent <= Len(response.body)
  BY DEF TypeOK, Index
<1>2. CASE program # "shm_simple"
  <2>1. n <= size /\ size <= sent /\ size \in Nat /\ sent \in Nat /\ n \in Nat
    BY <1>1, <1>2 DEF TypeOK, Contents
  <2>2. \A k \in Index : k < n => k < size
    BY <2>1
  <2> QED BY <1>1, <1>2, <2>1, <2>2 DEF Contents
<1>3. CASE program = "shm_simple"
  <2>1. /\ \A k \in Index : buf[k] = IF k < sent THEN response.body[k + 1] ELSE NUL
        /\ buf[n] = NUL /\ \A k \in Index : k < n => buf[k] # NUL
        /\ response.body = Message
    BY <1>3 DEF Contents, Stages, StringLength
  <2>2. Len(Message) \in Nat /\ \A k \in 1 .. Len(Message) : Message[k] = 1
    BY HandOffAssumption
  <2>3. ~(sent < n)
    BY <1>1, <2>1
  <2>4. ~(n < sent)
    <3>1. SUFFICES ASSUME n < sent PROVE FALSE
      OBVIOUS
    <3>2. n + 1 \in 1 .. Len(Message) /\ buf[n] = Message[n + 1]
      BY <1>1, <2>1, <2>2, <3>1
    <3> QED BY <2>1, <2>2, <3>2 DEF NUL
  <2>5. n = sent
    BY <1>1, <2>3, <2>4
  <2>6. \A k \in Index : k < n => buf[k] = response.body[k + 1]
    BY <2>1, <2>5
  <2>7. n <= sent
    BY <1>1, <2>5
  <2> QED BY <1>1, <2>5, <2>6, <2>7
<1> QED BY <1>2, <1>3

LEMMA TakeStep ==
  ASSUME Inv, NEW n \in 0 .. BUF_SIZE - 1, WriteFile(n) \/ PrintMessage(n)
  PROVE  Inv'
<1> USE Sizes DEF Inv
<1>1. /\ UNCHANGED <<choice, segment, recv, network>>
      /\ pc["parent"] = "output" /\ Goto("parent", "detach")
      /\ file' = buf /\ written' = n /\ named' = seq
      /\ \/ program # "shm_simple" /\ n <= size
         \/ program = "shm_simple" /\ StringLength(n)
  BY DEF WriteFile, PrintMessage, At
<1>2. /\ Stages' /\ Fresh' /\ Contents' /\ pc'["parent"] = "detach"
      /\ pc'["child"] = pc["child"]
      /\ pc' = [parent |-> pc'["parent"], child |-> pc'["child"]]
      /\ pc'["parent"] \in ParentLabels
  BY <1>1, ParentMoves
<1>3. /\ n <= sent /\ sent <= Len(response.body) /\ n \in Index
      /\ \A k \in Index : k < n => buf[k] = response.body[k + 1]
      /\ program = "shm_simple" => n = sent
  BY <1>1, TakeIsPrefix DEF Index
<1>4. TypeOK' /\ Kernel'
  BY <1>1, <1>2, <1>3 DEF TypeOK, Kernel, choice, segment, recv, network, Processes,
     EndLabels
<1>5. n <= Len(response.body)
  <2>1. n \in Nat /\ sent \in Nat /\ Len(response.body) \in Nat
    BY <1>3, Bodies DEF TypeOK
  <2> QED BY <1>3, <2>1
<1>6. Taken' /\ OutputIsPrefix'
  BY <1>1, <1>2, <1>3, <1>5 DEF Taken, OutputIsPrefix, choice, recv, network
<1> QED BY <1>2, <1>4, <1>6

LEMMA EndStep == ASSUME Inv, WriteFileFails \/ Detach \/ Remove PROVE Inv'
<1> USE Sizes DEF Inv
<1>1. /\ UNCHANGED <<choice, recv, network, output>>
      /\ attached' \subseteq attached
      /\ \/ pc["parent"] = "output" /\ Goto("parent", "detach") /\ seg' = seg
         \/ pc["parent"] = "detach" /\ Goto("parent", "remove") /\ seg' = seg
         \/ /\ pc["parent"] = "remove" /\ Goto("parent", "exit") /\ seg' = "marked"
            /\ "parent" \notin attached'
  BY DEF WriteFileFails, Detach, Remove, At, Leave, segment
<1>2. /\ Stages' /\ Fresh' /\ Contents' /\ pc'["child"] = pc["child"]
      /\ pc' = [parent |-> pc'["parent"], child |-> pc'["child"]]
      /\ pc'["parent"] \in ParentLabels
      /\ \/ pc'["parent"] \in {"detach", "remove"} /\ seg' = seg
         \/ pc'["parent"] = "exit" /\ seg' = "marked" /\ "parent" \notin attached'
  BY <1>1, ParentMoves
<1>3. TypeOK' /\ Kernel'
  BY <1>1, <1>2 DEF TypeOK, Kernel, choice, recv, network, output, Processes, EndLabels
<1>4. Taken' /\ OutputIsPrefix'
  BY <1>1, <1>2 DEF Taken, OutputIsPrefix, choice, recv, network, output
<1> QED BY <1>2, <1>3, <1>4

-----------------------------------------------------------------------------
LEMMA NextInv == Inv /\ [Next]_vars => Inv'
<1> SUFFICES ASSUME Inv, [Next]_vars PROVE Inv'
  OBVIOUS
<1>1. CASE ParentStep
  <2>1. CASE \E n \in 0 .. BUF_SIZE - 1 : WriteFile(n) \/ PrintMessage(n)
    BY <2>1, TakeStep
  <2> QED BY <1>1, <2>1, SetUpStep, AttachInitStep, ForkStep, WaitpidStep, EndStep
          DEF ParentStep
<1>2. CASE WorkerStep
  BY <1>2, EasyInitStep, WorkerFailsStep, WriteSizeStep, MessageStep, ChildControlStep
     DEF WorkerStep
<1>3. CASE Network
  <2>1. CASE \E n \in 1 .. Len(response.body) : WriteBytes(n)
    BY <2>1, WriteBytesStep
  <2>2. CASE \E n \in 1 .. Len(response.body) : WriteAborts(n)
    BY <2>2, WorkerFailsStep
  <2> QED BY <1>3, <2>1, <2>2, HeaderStep, PerformStep DEF Network
<1>4. CASE Killed
  BY <1>4, ChildControlStep
<1>5. CASE UNCHANGED vars
  BY <1>5 DEF Inv, TypeOK, Stages, Fresh, Contents, Taken, Kernel, OutputIsPrefix, Worker,
     Number, Waited, Ended, vars, choice, segment, recv, network, output
<1> QED BY <1>1, <1>2, <1>3, <1>4, <1>5 DEF Next, Terminated

\* For every size of the segment, every answer and every message: everything stays
\* in its range, and the segment has room for the NUL.
THEOREM TypeCorrect == Spec => []TypeOK
<1>1. Inv => TypeOK
  BY DEF Inv
<1> QED BY InitInv, NextInv, <1>1, PTL DEF Spec

\* For every size and body, and wherever the child is killed: the output is the
\* beginning of the body.
THEOREM OutputNeverWrong == Spec => []OutputIsPrefix
<1>1. Inv => OutputIsPrefix
  BY DEF Inv
<1> QED BY InitInv, NextInv, <1>1, PTL DEF Spec

\* For every size and body: what libcurl called complete is handed over complete.
THEOREM CompleteIsHandedOver == Spec => []CompleteHandOver
<1>1. Inv => CompleteHandOver
  BY DEF Inv, Contents, Taken, CompleteHandOver, Number
<1> QED BY InitInv, NextInv, <1>1, PTL DEF Spec

\* However the child ended: a parent that gets to its end leaves no segment.
THEOREM SegmentGoes == Spec => []SegmentReclaimed
<1>1. Inv => SegmentReclaimed
  BY DEF Inv, Kernel, SegmentReclaimed, Gone, Ended, TypeOK, Processes
<1> QED BY InitInv, NextInv, <1>1, PTL DEF Spec

-----------------------------------------------------------------------------
(* The mailbox. *)

\* What the parent would take now.
Result == IF program = "shm_simple" THEN sent ELSE size

ResultSeen == Visible = Result /\ Result \in Nat /\ seq \in {-1, part}

LEMMA VisibleIsResult == Inv => Visible = Result /\ Result \in Nat /\ seq \in {-1, part}
<1> SUFFICES ASSUME Inv PROVE Visible = Result /\ Result \in Nat /\ seq \in {-1, part}
  OBVIOUS
<1> USE Sizes DEF Inv
<1>1. sent \in Index /\ size \in Index /\ sent \in Nat /\ size \in Nat /\ seq \in {-1, part}
  BY DEF TypeOK
<1>2. CASE program # "shm_simple"
  BY <1>1, <1>2 DEF Visible, Result
<1>3. CASE program = "shm_simple"
  <2>1. /\ \A k \in Index : buf[k] = IF k < sent THEN response.body[k + 1] ELSE NUL
        /\ response.body = Message
    BY <1>3 DEF Contents, Stages
  <2>2. /\ Len(Message) \in Nat /\ sent <= Len(Message)
        /\ \A k \in 1 .. Len(Message) : Message[k] = 1
    BY <2>1, HandOffAssumption DEF TypeOK
  <2>3. ASSUME NEW k \in Index, k < sent PROVE buf[k] # NUL
    <3>1. k + 1 \in 1 .. Len(Message)
      BY <1>1, <2>2, <2>3
    <3> QED BY <2>1, <2>2, <2>3, <3>1 DEF NUL
  <2>4. StringLength(sent)
    BY <1>1, <2>1, <2>3 DEF StringLength
  <2>5. \A n \in Index : StringLength(n) => n = sent
    BY <1>3, TakeIsPrefix DEF Index
  <2>6. (CHOOSE n \in Index : StringLength(n)) = sent
    BY <1>1, <2>4, <2>5
  <2> QED BY <1>1, <1>3, <2>6 DEF Visible, Result
<1> QED BY <1>2, <1>3

\* The four things a step can be to the mailbox.
Gives == ~Waited /\ ~Waited' /\ UNCHANGED <<choice, output>> /\ Result' >= Result
Closes == ~Waited /\ Waited' /\ UNCHANGED <<choice, recv, sent, output>>
Takes ==
  /\ Waited /\ Waited' /\ UNCHANGED <<choice, recv, sent>>
  /\ written = NoFile /\ named' = seq /\ written' \in 0 .. Result
Passes == (Waited' <=> Waited) /\ UNCHANGED <<choice, recv, sent, output>>

LEMMA ParentMaps == Inv /\ ParentStep => Gives \/ Closes \/ Takes \/ Passes
<1> SUFFICES ASSUME Inv, ParentStep PROVE Gives \/ Closes \/ Takes \/ Passes
  OBVIOUS
<1> USE Sizes DEF Inv
<1>1. CASE Shmget \/ ShmgetFails \/ AttachFaults \/ ForkFails
           \/ AttachLate("parent") \/ AttachLateFails("parent")
  <2>1. UNCHANGED <<choice, recv, network, output>>
    BY <1>1 DEF Shmget, ShmgetFails, AttachFaults, ForkFails, AttachLate, AttachLateFails
  <2>2. PICK l \in {"fork", "attach", "abort", "killed", "wait"} : Goto("parent", l)
    BY <1>1 DEF Shmget, ShmgetFails, AttachFaults, ForkFails, AttachLate, AttachLateFails,
       Leave
  <2>3. pc["parent"] \in {"shmget", "attach", "fork"}
    BY <1>1 DEF Shmget, ShmgetFails, AttachFaults, ForkFails, AttachLate,
         AttachLateFails, At
  <2>4. pc'["parent"] = l
    BY <2>2, Labels DEF Processes
  <2> QED BY <2>1, <2>2, <2>3, <2>4 DEF Passes, Waited, network
<1>2. CASE AttachInit
  <2>1. /\ UNCHANGED <<choice, buf, network, output>> /\ size' = 0 /\ seq' = -1
        /\ pc["parent"] = "attach" /\ program # "shm_simple"
        /\ Goto("parent", IF program = "cURL" THEN "init" ELSE "fork")
    BY <1>2 DEF AttachInit, At
  <2>2. pc'["parent"] = IF program = "cURL" THEN "init" ELSE "fork"
    BY <2>1, Labels DEF Processes
  <2>3. size = 0 /\ seq = -1
    BY <2>1 DEF Fresh, Stages, Worker
  <2> QED BY <2>1, <2>2, <2>3 DEF Passes, Waited, recv, network
<1>3. CASE Fork
  BY <1>3 DEF Fork, At, Passes, Waited, network
<1>4. CASE Waitpid
  <2>1. /\ UNCHANGED <<choice, recv, network, output>>
        /\ pc["parent"] = "wait" /\ Goto("parent", "output")
    BY <1>4 DEF Waitpid, At
  <2>2. pc'["parent"] = "output"
    BY <2>1, Labels DEF Processes
  <2> QED BY <2>1, <2>2 DEF Closes, Waited, network
<1>5. CASE \E n \in 0 .. BUF_SIZE - 1 : WriteFile(n) \/ PrintMessage(n)
  <2>1. PICK n \in 0 .. BUF_SIZE - 1 : WriteFile(n) \/ PrintMessage(n)
    BY <1>5
  <2>2. /\ UNCHANGED <<choice, segment, recv, network>>
        /\ pc["parent"] = "output" /\ Goto("parent", "detach")
        /\ written' = n /\ named' = seq
        /\ \/ program # "shm_simple" /\ n <= size
           \/ program = "shm_simple" /\ StringLength(n)
    BY <2>1 DEF WriteFile, PrintMessage, At
  <2>3. pc'["parent"] = "detach" /\ written = NoFile
    BY <2>2, Labels DEF Processes, Taken
  <2>4. n \in 0 .. Result
    BY <2>2, TakeIsPrefix, VisibleIsResult DEF Result
  <2> QED BY <2>2, <2>3, <2>4 DEF Takes, Waited, network
<1>6. CASE WriteFileFails \/ Detach \/ Remove
  <2>1. UNCHANGED <<choice, recv, network, output>>
    BY <1>6 DEF WriteFileFails, Detach, Remove
  <2>2. PICK l \in {"detach", "remove", "exit"} : Goto("parent", l)
    BY <1>6 DEF WriteFileFails, Detach, Remove, Leave
  <2>3. pc["parent"] \in {"output", "detach", "remove"}
    BY <1>6 DEF WriteFileFails, Detach, Remove, At
  <2>4. pc'["parent"] = l
    BY <2>2, Labels DEF Processes
  <2> QED BY <2>1, <2>2, <2>3, <2>4 DEF Passes, Waited, network
<1> QED BY <1>1, <1>2, <1>3, <1>4, <1>5, <1>6 DEF ParentStep

\* While the worker moves nobody has waited for it.
LEMMA WorkerUnwaited ==
  ASSUME Inv, pc[Worker] \notin EndLabels, pc[Worker] \notin {"none", "output", "detach", "remove"}
  PROVE  ~Waited
<1>1. CASE program = "cURL"
  BY <1>1 DEF Waited, Worker, EndLabels
<1>2. CASE program # "cURL"
  BY <1>2 DEF Inv, Stages, Waited, Ended, Worker, EndLabels
<1> QED BY <1>1, <1>2

\* Nor has anybody when it goes on to another of its labels.
LEMMA WorkerGives ==
  ASSUME Inv, NEW l, Goto(Worker, l), pc[Worker] \in WorkLabels \cup {"memset", "sprintf", "cleanup"},
         l \notin {"output", "detach", "remove", "exit"} \/ Worker = "child",
         UNCHANGED <<choice, output>>, Result' >= Result
  PROVE  Gives
<1>1. ~Waited
  BY WorkerUnwaited DEF WorkLabels, EndLabels
<1>2. CASE Worker = "child"
  <2>1. pc'["parent"] = pc["parent"]
    BY <1>2, Labels DEF Inv, Processes
  <2> QED BY <1>1, <2>1 DEF Gives, Waited
<1>3. CASE Worker = "parent"
  <2>1. pc'["parent"] = l
    BY <1>3, Labels DEF Inv, Processes
  <2> QED BY <1>1, <1>3, <2>1 DEF Gives, Waited
<1> QED BY <1>2, <1>3, Workers DEF Processes

LEMMA WorkerMaps ==
  ASSUME Inv, WorkerStep \/ Network \/ Killed
  PROVE  Gives \/ Closes \/ Passes
<1> USE Sizes DEF Inv
<1>0. size \in Nat /\ sent \in Nat /\ Result \in Nat
  BY VisibleIsResult DEF TypeOK
<1>1. CASE EasyInit \/ HeaderCb
  <2>1. PICK l \in {"headers", "body"} : Goto(Worker, l) /\ pc[Worker] \in WorkLabels
    BY <1>1 DEF EasyInit, HeaderCb, At, WorkLabels
  <2>2. UNCHANGED <<choice, output>> /\ Result' = Result
    BY <1>1 DEF EasyInit, HeaderCb, Result, choice, recv, network
  <2> QED BY <1>0, <2>1, <2>2, WorkerGives
<1>2. CASE EasyInitFails \/ \E n \in 1 .. Len(response.body) : WriteAborts(n)
  <2>1. PICK l \in {"return1", "abort"} : Goto(Worker, l) /\ pc[Worker] \in WorkLabels
    BY <1>2 DEF EasyInitFails, WriteAborts, At, Leave, WorkLabels
  <2>2. UNCHANGED <<choice, output>> /\ Result' = Result
    BY <1>2 DEF EasyInitFails, WriteAborts, Result, choice, recv, network
  <2> QED BY <1>0, <2>1, <2>2, WorkerGives
<1>3. CASE \E n \in 1 .. Len(response.body) : WriteBytes(n)
  <2>1. Goto(Worker, "size") /\ pc[Worker] \in WorkLabels /\ program # "shm_simple"
    BY <1>3, Workers DEF WriteBytes, At, WorkLabels, Stages, Processes
  <2>2. UNCHANGED <<choice, output>> /\ Result' = Result
    BY <1>3, <2>1 DEF WriteBytes, Result, choice
  <2> QED BY <1>0, <2>1, <2>2, WorkerGives
<1>4. CASE WriteSize
  <2>1. Goto(Worker, "body") /\ pc[Worker] \in WorkLabels /\ program # "shm_simple"
    BY <1>4, Workers DEF WriteSize, At, WorkLabels, Stages, Processes
  <2>2. UNCHANGED <<choice, output>> /\ Result' >= Result
    BY <1>0, <1>4, <2>1 DEF WriteSize, Result, choice, Contents
  <2> QED BY <2>1, <2>2, WorkerGives
<1>5. CASE PerformReturns
  <2>1. /\ Goto(Worker, IF program = "cURL" THEN "output" ELSE "cleanup")
        /\ pc[Worker] \in WorkLabels /\ UNCHANGED <<choice, recv, sent, output>>
    BY <1>5 DEF PerformReturns, WorkLabels
  <2>2. CASE program = "cURL"
    <3>1. pc'["parent"] = "output"
      BY <2>1, <2>2, Labels, Workers DEF Processes
    <3>2. ~Waited
      BY <2>1, WorkerUnwaited DEF WorkLabels, EndLabels
    <3> QED BY <2>1, <3>1, <3>2 DEF Closes, Waited
  <2>3. CASE program # "cURL"
    <3>1. UNCHANGED <<choice, output>> /\ Result' = Result
      BY <2>1 DEF Result, choice, recv
    <3> QED BY <1>0, <2>1, <2>3, <3>1, WorkerGives
  <2> QED BY <2>2, <2>3
<1>6. CASE Memset \/ SprintfReturns \/ Sprintf
  <2>1. /\ Worker = "child" /\ program = "shm_simple"
        /\ pc["child"] \in {"memset", "sprintf"}
        /\ UNCHANGED <<choice, output>> /\ Result' >= Result
    BY <1>0, <1>6 DEF Memset, SprintfReturns, Sprintf, Result, choice, network, recv, At,
       Worker, Stages
  <2>2. CASE Memset \/ SprintfReturns
    <3>1. PICK l \in {"sprintf", "cleanup"} : Goto(Worker, l)
      BY <2>1, <2>2 DEF Memset, SprintfReturns
    <3> QED BY <2>1, <3>1, WorkerGives
  <2>3. CASE Sprintf
    BY <2>1, <2>3, WorkerUnwaited DEF Sprintf, Gives, Waited, EndLabels
  <2> QED BY <1>6, <2>2, <2>3
<1>7. CASE Killed \/ ChildExits \/ AttachLate("child") \/ AttachLateFails("child")
  <2>1. UNCHANGED <<choice, recv, network, output>>
    BY <1>7 DEF Killed, ChildExits, AttachLate, AttachLateFails
  <2>2. PICK l : Goto("child", l)
    BY <1>7 DEF Killed, ChildExits, AttachLate, AttachLateFails, Leave
  <2>3. pc'["parent"] = pc["parent"]
    BY <2>2, Labels DEF Processes
  <2> QED BY <2>1, <2>3 DEF Passes, Waited, network
<1> QED BY <1>1, <1>2, <1>3, <1>4, <1>5, <1>6, <1>7 DEF WorkerStep, Network

\* The hand-over is a mailbox, for every size, body and message: the parent takes
\* once, after the last write, a beginning of what was written.
THEOREM HandOffIsMailbox == Spec => IsMailbox
<1>1. Inv /\ Init => Box!Init
  <2> SUFFICES ASSUME Inv, Init PROVE Box!Init
    OBVIOUS
  <2>1. ~Waited /\ Result = 0 /\ seq = -1 /\ written = NoFile
    BY DEF Init, Waited, Result
  <2>2. Visible = 0
    BY <2>1, VisibleIsResult
  <2>3. (~Waited) = TRUE
    BY <2>1
  <2> QED BY <2>1, <2>2, <2>3 DEF Box!Init
<1>a. Inv => ResultSeen
  BY VisibleIsResult DEF ResultSeen
<1>b. Inv' => ResultSeen'
  BY <1>a, PTL
<1>2. Inv /\ Inv' /\ [Next]_vars => [Box!Next]_Box!mailbox
  <2> SUFFICES ASSUME Inv, Inv', [Next]_vars PROVE [Box!Next]_Box!mailbox
    OBVIOUS
  <2>1. Visible = Result /\ Result \in Nat
    BY VisibleIsResult
  <2>2. Visible' = Result' /\ Result' \in Nat /\ seq' \in {-1, part}
    BY <1>b DEF ResultSeen
  <2>3. CASE Gives
    <3>1. (~Waited) = TRUE /\ (~Waited)' = (~Waited)
      BY <2>3 DEF Gives
    <3> QED BY <2>1, <2>2, <2>3, <3>1 DEF Gives, output, Box!Next, Box!Give
  <2>4. CASE Closes
    <3>1. (~Waited) = TRUE /\ (~Waited)' = FALSE
      BY <2>4 DEF Closes
    <3>2. Visible' = Visible
      BY <2>1, <2>2, <2>4 DEF Closes, Result, choice, recv
    <3> QED BY <2>4, <3>1, <3>2 DEF Closes, output, recv, Box!Next, Box!Close
  <2>5. CASE Takes
    <3>1. (~Waited) = FALSE /\ (~Waited)' = (~Waited)
      BY <2>5 DEF Takes
    <3>2. Visible' = Visible
      BY <2>1, <2>2, <2>5 DEF Takes, Result, choice, recv
    <3>3. written' # NoFile
      BY <2>1, <2>5 DEF Takes, NoFile
    <3> QED BY <2>1, <2>5, <3>1, <3>2, <3>3 DEF Takes, recv, Box!Next, Box!Take
  <2>6. CASE Passes
    <3>1. (~Waited)' = (~Waited)
      BY <2>6 DEF Passes
    <3>2. Visible' = Visible
      BY <2>1, <2>2, <2>6 DEF Passes, Result, choice, recv
    <3> QED BY <2>6, <3>1, <3>2 DEF Passes, output, recv, Box!mailbox
  <2>7. CASE UNCHANGED vars
    BY <2>6, <2>7 DEF Passes, Waited, vars, network
  <2> QED BY <2>3, <2>4, <2>5, <2>6, <2>7, ParentMaps, WorkerMaps DEF Next, Terminated
<1> QED BY InitInv, NextInv, <1>1, <1>2, PTL DEF Spec, IsMailbox, Box!Spec
=============================================================================
