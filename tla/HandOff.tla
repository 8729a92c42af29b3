------------------------------- MODULE HandOff -------------------------------
(***************************************************************************)
(* Three programs that put one result into one System V segment and hand   *)
(* it over: starter/cURL_IPC/cURL.c downloads and saves it in one process, *)
(* main_2proc.c downloads in a child and saves in the parent, and          *)
(* starter/shm/shm_simple.c sends a message from the child to the parent.  *)
(* A parent only waits, it never looks at how the child ended.             *)
(***************************************************************************)
EXTENDS Integers, Sequences

CONSTANTS
  Programs,   \* which of the three
  part,       \* the sequence number in the fragment header
  BUF_SIZE,   \* bytes in the segment behind the RECV_BUF, or SHM_SIZE
  Responses,  \* what the server may send: [fragment, body]
  Message     \* what the child of shm_simple prints into the segment

NUL == 0
NoFile == -1

ASSUME HandOffAssumption ==
  /\ Programs \subseteq {"cURL", "main_2proc", "shm_simple"}
  /\ part \in Nat
  /\ BUF_SIZE \in Nat \ {0}
  /\ Responses \subseteq [fragment : BOOLEAN, body : Seq({NUL, 1})]
  /\ Message \in Seq({1}) /\ Len(Message) < BUF_SIZE

Index     == 0 .. BUF_SIZE - 1
Processes == {"parent", "child"}

VARIABLES
  program, response,     \* the program, and what is to be handed over
  seg, attached,         \* the kernel's view: the segment, who has it attached
  buf, size, seq,        \* what is in the segment
  sent, res,             \* libcurl: bytes passed on, result of perform
  file, written, named,  \* the parent's output: bytes, how many, its number
  pc

choice  == <<program, response>>
segment == <<seg, attached>>
recv    == <<buf, size, seq>>
network == <<sent, res>>
output  == <<file, written, named>>
vars    == <<choice, segment, recv, network, output, pc>>

\* The process that fills the segment.
Worker == IF program = "cURL" THEN "parent" ELSE "child"

At(p, label)   == pc[p] = label
Goto(p, label) == pc' = [pc EXCEPT ![p] = label]

\* A process that ends loses its attachments.
Leave(p, how) == Goto(p, how) /\ attached' = attached \ {p}

EndLabels == {"exit", "return1", "abort", "killed"}
Ended(p)  == pc[p] \in EndLabels

\* The kernel frees a segment marked for removal when nobody has it attached.
Gone == seg = "marked" /\ attached = {}

-----------------------------------------------------------------------------
(* The segment and the child. *)

Shmget ==
  /\ At("parent", "shmget")
  /\ seg' = "kept"
  /\ Goto("parent", IF program = "shm_simple" THEN "fork" ELSE "attach")
  /\ UNCHANGED <<choice, attached, recv, network, output>>

\* shm_simple only prints the error and forks; the others abort.
ShmgetFails ==
  /\ At("parent", "shmget")
  /\ Goto("parent", IF program = "shm_simple" THEN "fork" ELSE "abort")
  /\ UNCHANGED <<choice, segment, recv, network, output>>

\* shmat and shm_recv_buf_init, before the fork if there is one.
AttachInit ==
  /\ program # "shm_simple" /\ At("parent", "attach")
  /\ attached' = {"parent"}
  /\ size' = 0 /\ seq' = -1
  /\ Goto("parent", IF program = "cURL" THEN "init" ELSE "fork")
  /\ UNCHANGED <<choice, seg, buf, network, output>>

\* shmat fails and is not tested: shm_recv_buf_init writes to address -1.
AttachFaults ==
  /\ program # "shm_simple" /\ At("parent", "attach")
  /\ Leave("parent", "killed")
  /\ UNCHANGED <<choice, seg, recv, network, output>>

\* In shm_simple both processes attach, after the fork and in any order.
AttachLate(p) ==
  /\ program = "shm_simple" /\ At(p, "attach") /\ seg = "kept"
  /\ attached' = attached \cup {p}
  /\ Goto(p, IF p = "parent" THEN "wait" ELSE "memset")
  /\ UNCHANGED <<choice, seg, recv, network, output>>

\* shmat fails, always when there is no segment: abort().
AttachLateFails(p) ==
  /\ program = "shm_simple" /\ At(p, "attach")
  /\ Leave(p, "abort")
  /\ UNCHANGED <<choice, seg, recv, network, output>>

\* The child inherits the attachment.
Fork ==
  /\ At("parent", "fork")
  /\ pc' = IF program = "shm_simple"
           THEN [parent |-> "attach", child |-> "attach"]
           ELSE [parent |-> "wait", child |-> "init"]
  /\ attached' = IF "parent" \in attached THEN Processes ELSE {}
  /\ UNCHANGED <<choice, seg, recv, network, output>>

ForkFails ==
  /\ At("parent", "fork")
  /\ Leave("parent", "abort")
  /\ UNCHANGED <<choice, seg, recv, network, output>>

\* The child may be killed anywhere.
Killed ==
  /\ ~Ended("child") /\ ~At("child", "none")
  /\ Leave("child", "killed")
  /\ UNCHANGED <<choice, seg, recv, network, output>>

-----------------------------------------------------------------------------
(* The download *)

\* Mutant: nothing is tested.
TooSmallNever(n) == FALSE

\* write_cb_curl's test, with room for the terminating NUL.
TooSmall(n) == size + n + 1 > BUF_SIZE

EasyInit ==
  /\ At(Worker, "init")
  /\ Goto(Worker, "headers")
  /\ UNCHANGED <<choice, segment, recv, network, output>>

\* curl_easy_init returned NULL: main returns 1 at once.
EasyInitFails ==
  /\ At(Worker, "init")
  /\ Leave(Worker, "return1")
  /\ UNCHANGED <<choice, seg, recv, network, output>>

\* The fragment header, if the answer has one, and the end of the headers.
HeaderCb ==
  /\ At(Worker, "headers")
  /\ seq' = IF response.fragment THEN part ELSE seq
  /\ Goto(Worker, "body")
  /\ UNCHANGED <<choice, segment, buf, size, network, output>>

\* Mutant: each chunk is put at the beginning of the buffer.
WriteBytesAtStart(n) ==
  /\ At(Worker, "body") /\ n <= Len(response.body) - sent /\ ~TooSmall(n)
  /\ buf' = [k \in Index |-> IF k < n THEN response.body[sent + k + 1] ELSE buf[k]]
  /\ sent' = sent + n
  /\ Goto(Worker, "size")
  /\ UNCHANGED <<choice, segment, size, seq, res, output>>

\* write_cb_curl up to its memcpy: libcurl passes on the next n bytes.
WriteBytes(n) ==
  /\ At(Worker, "body") /\ n <= Len(response.body) - sent /\ ~TooSmall(n)
  /\ buf' = [k \in Index |->
               IF size <= k /\ k < size + n THEN response.body[sent + k - size + 1]
               ELSE buf[k]]
  /\ sent' = sent + n
  /\ Goto(Worker, "size")
  /\ UNCHANGED <<choice, segment, size, seq, res, output>>

\* Mutant: = instead of +=.
WriteSizeAnew ==
  /\ At(Worker, "size")
  /\ size' = sent - size
  /\ Goto(Worker, "body")
  /\ UNCHANGED <<choice, segment, buf, seq, network, output>>

\* p->size += realsize, the bytes that were just copied, and the NUL.
WriteSize ==
  /\ At(Worker, "size")
  /\ size' = sent
  /\ buf' = [buf EXCEPT ![sent] = NUL]
  /\ Goto(Worker, "body")
  /\ UNCHANGED <<choice, segment, seq, network, output>>

\* They do not fit: abort().
WriteAborts(n) ==
  /\ At(Worker, "body") /\ n <= Len(response.body) - sent /\ TooSmall(n)
  /\ Leave(Worker, "abort")
  /\ UNCHANGED <<choice, seg, recv, network, output>>

\* curl_easy_perform returns, with an error at any time; it is only printed.
PerformReturns ==
  /\ pc[Worker] \in {"headers", "body"}
  /\ \/ res' = "error"
     \/ At(Worker, "body") /\ sent = Len(response.body) /\ res' = "ok"
  /\ Goto(Worker, IF program = "cURL" THEN "output" ELSE "cleanup")
  /\ UNCHANGED <<choice, segment, recv, sent, output>>

\* shm_simple: memset(buf, 0, SHM_SIZE) ...
Memset ==
  /\ At("child", "memset")
  /\ buf' = [k \in Index |-> NUL]
  /\ Goto("child", "sprintf")
  /\ UNCHANGED <<choice, segment, size, seq, network, output>>

\* ... and sprintf, one character after the other.
Sprintf ==
  /\ At("child", "sprintf") /\ sent < Len(response.body)
  /\ buf' = [buf EXCEPT ![sent] = response.body[sent + 1]]
  /\ sent' = sent + 1
  /\ UNCHANGED <<choice, segment, size, seq, res, output, pc>>

SprintfReturns ==
  /\ At("child", "sprintf") /\ sent = Len(response.body)
  /\ res' = "ok"
  /\ Goto("child", "cleanup")
  /\ UNCHANGED <<choice, segment, recv, sent, output>>

\* The child detaches and returns 0.
ChildExits ==
  /\ At("child", "cleanup")
  /\ Leave("child", "exit")
  /\ UNCHANGED <<choice, seg, recv, network, output>>

-----------------------------------------------------------------------------
(* The parent takes the result. *)

\* Mutant: WNOHANG.
WaitpidNoHang ==
  /\ At("parent", "wait")
  /\ Goto("parent", "output")
  /\ UNCHANGED <<choice, segment, recv, network, output>>

\* Mutant: waits again when the child did not exit normally.
WaitpidForExit ==
  /\ At("parent", "wait") /\ Ended("child")
  /\ Goto("parent", IF At("child", "exit") THEN "output" ELSE "wait")
  /\ UNCHANGED <<choice, segment, recv, network, output>>

\* waitpid returns whichever way the child ended; nobody looks at state.
Waitpid ==
  /\ At("parent", "wait") /\ Ended("child")
  /\ Goto("parent", "output")
  /\ UNCHANGED <<choice, segment, recv, network, output>>

\* write_file(fname, buf, size): fopen works, and n of the bytes get to the disk;
\* the result is ignored.
WriteFile(n) ==
  /\ program # "shm_simple" /\ At("parent", "output") /\ n <= size
  /\ file' = buf /\ written' = n /\ named' = seq
  /\ Goto("parent", "detach")
  /\ UNCHANGED <<choice, segment, recv, network>>

\* fopen fails: no file.
WriteFileFails ==
  /\ program # "shm_simple" /\ At("parent", "output")
  /\ Goto("parent", "detach")
  /\ UNCHANGED <<choice, segment, recv, network, output>>

\* n is where a %s of the buffer stops.
StringLength(n) == buf[n] = NUL /\ \A k \in Index : k < n => buf[k] # NUL

\* shm_simple prints the message.
PrintMessage(n) ==
  /\ program = "shm_simple" /\ At("parent", "output") /\ StringLength(n)
  /\ file' = buf /\ written' = n /\ named' = seq
  /\ Goto("parent", "detach")
  /\ UNCHANGED <<choice, segment, recv, network>>

\* Mutant: a parent whose child failed returns at once.
DetachIfChildWell ==
  /\ At("parent", "detach")
  /\ attached' = attached \ {"parent"}
  /\ Goto("parent", IF pc["child"] \in {"abort", "killed"} THEN "exit" ELSE "remove")
  /\ UNCHANGED <<choice, seg, recv, network, output>>

Detach ==
  /\ At("parent", "detach")
  /\ attached' = attached \ {"parent"}
  /\ Goto("parent", "remove")
  /\ UNCHANGED <<choice, seg, recv, network, output>>

\* shmctl(shmid, IPC_RMID, NULL), and the end of main.
Remove ==
  /\ At("parent", "remove")
  /\ seg' = "marked"
  /\ Leave("parent", "exit")
  /\ UNCHANGED <<choice, recv, network, output>>

-----------------------------------------------------------------------------
Init ==
  /\ program \in Programs
  /\ response \in IF program = "shm_simple"
                  THEN {[fragment |-> FALSE, body |-> Message]} ELSE Responses
  /\ seg = "none" /\ attached = {}
  /\ buf = [k \in Index |-> NUL] /\ size = 0 /\ seq = -1
  /\ sent = 0 /\ res = "none"
  /\ file = [k \in Index |-> NUL] /\ written = NoFile /\ named = -1
  /\ pc = [parent |-> "shmget", child |-> "none"]

Network ==
  HeaderCb \/ PerformReturns
  \/ \E n \in 1 .. Len(response.body) : WriteBytes(n) \/ WriteAborts(n)

\* What the worker does by itself.
WorkerStep ==
  EasyInit \/ EasyInitFails \/ WriteSize \/ Memset \/ Sprintf \/ SprintfReturns
  \/ ChildExits \/ AttachLate("child") \/ AttachLateFails("child")

ParentStep ==
  \/ Shmget \/ ShmgetFails \/ AttachInit \/ AttachFaults
  \/ AttachLate("parent") \/ AttachLateFails("parent") \/ Fork \/ ForkFails \/ Waitpid
  \/ WriteFileFails \/ Detach \/ Remove
  \/ \E n \in 0 .. BUF_SIZE - 1 : WriteFile(n) \/ PrintMessage(n)

Terminated == Ended("parent") /\ pc["child"] \in EndLabels \cup {"none"} /\ UNCHANGED vars

Next == ParentStep \/ WorkerStep \/ Network \/ Killed \/ Terminated

Spec == Init /\ [][Next]_vars

\* Both processes are scheduled.  Nothing is assumed of the server: no timeout is
\* set on the handle.
FairSpec == Spec /\ WF_vars(ParentStep) /\ WF_vars(WorkerStep)

-----------------------------------------------------------------------------
(* Properties *)

ParentLabels ==
  {"shmget", "attach", "fork", "wait", "output", "detach", "remove"} \cup EndLabels
WorkLabels == {"init", "headers", "body", "size"}
ChildLabels ==
  {"none", "attach", "memset", "sprintf", "cleanup"} \cup WorkLabels \cup EndLabels

\* The segment, libcurl's position in the body and the two processes; the bytes in
\* the buffer always leave room for the NUL.
TypeOK ==
  /\ program \in Programs
  /\ response \in Responses \cup {[fragment |-> FALSE, body |-> Message]}
  /\ seg \in {"none", "kept", "marked"} /\ attached \subseteq Processes
  /\ buf \in [Index -> {NUL, 1}] /\ size \in Index /\ seq \in {-1, part}
  /\ sent \in Index /\ sent <= Len(response.body) /\ res \in {"none", "ok", "error"}
  /\ file \in [Index -> {NUL, 1}] /\ written \in Index \cup {NoFile}
  /\ named \in {-1, part}
  /\ pc["parent"] \in ParentLabels \cup WorkLabels /\ pc["child"] \in ChildLabels
  /\ pc = [parent |-> pc["parent"], child |-> pc["child"]]

\* Whatever happens to the worker, and whenever: the parent's output has only
\* bytes of the body, in their places, although the child may have been killed
\* between the memcpy and the update of size.
OutputIsPrefix ==
  /\ written <= Len(response.body)
  /\ \A k \in Index : k < written => file[k] = response.body[k + 1]

\* A transfer that libcurl called complete is handed over complete, under the
\* number its header gave: what is missing was lost by the disk (written < size)
\* or there is no file at all.
CompleteHandOver ==
  /\ res = "ok" /\ Ended("parent") /\ written # NoFile
  /\ program # "shm_simple" => written = size
  => /\ written = Len(response.body)
     /\ named = IF response.fragment THEN part ELSE -1

\* The segment outlives both processes only if the parent did not get to its end;
\* how the child ended, and whether the file was written, does not matter.
SegmentReclaimed ==
  Ended("parent") /\ pc["child"] \in EndLabels \cup {"none"} /\ seg # "none" =>
    Gone \/ pc["parent"] # "exit"

\* What the parent can see of the result.
Visible ==
  IF program = "shm_simple" THEN CHOOSE n \in Index : StringLength(n) ELSE size

\* The parent has waited (or there is nobody to wait for).
Waited == pc["parent"] \in {"output", "detach", "remove", "exit"}

Box == INSTANCE Mailbox WITH
  Labels <- {-1, part}, open <- ~Waited, given <- Visible, label <- seq,
  taken <- IF written = NoFile THEN <<>> ELSE <<written, named>>

\* The hand-over is a mailbox: the result only grows, nothing of it changes once
\* waitpid has returned, and the parent takes what is there, once.
IsMailbox == Box!Spec

\* Both processes end, unless the transfer stalls: no end of the child leaves the
\* parent waiting.
EndsUnlessStalled ==
  <>(Ended("parent") /\ pc["child"] \in EndLabels \cup {"none"})
  \/ <>[](pc[Worker] \in {"headers", "body"})
=============================================================================
