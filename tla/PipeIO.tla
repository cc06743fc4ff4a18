------------------------------- MODULE PipeIO -------------------------------
(***************************************************************************)
(* The descriptor system calls of NEOX as several processes make them.     *)
(*                                                                         *)
(* FILE_IO excludes two bodies from each other (GateExclusion, proved of   *)
(* the module Kernel), so the part of a call that only touches the tables  *)
(* FILE_IO protects is one action.  Two stretches are not protected and    *)
(* have steps of their own:                                                *)
(*   - ksys_io_block releases the gate and only then enters                *)
(*     sched_block_current;                                                *)
(*   - scheduler_wake_one runs with the gate but with IRQs enabled: it     *)
(*     stores what it looks for in scratch that sched_block_current writes *)
(*     too, its scan counter is the one sched_pick_next uses, and          *)
(*     proc_wake stores READY some time after the state has been tested.   *)
(*                                                                         *)
(* Which runnable process a scheduler pass selects is left open here; the  *)
(* module Kernel has the round robin.                                      *)
(***************************************************************************)
EXTENDS Descriptors

CONSTANTS
    IoTasks,        \* tasks present at boot
    Lens,           \* the lengths reads ask for
    Texts,          \* the byte sequences writes send
    OpenModes,      \* the access modes files are opened with, as sets of flags
    Calls           \* the system calls that are made

AllCalls == {"read", "write", "close", "dup", "dup2", "pipe", "open", "spawn", "exit", "kill"}

ASSUME PipeIOAssumption ==
    /\ IoTasks \subseteq Task /\ (BootPipes > 0 => {1, 2} \subseteq IoTasks)
    /\ Lens \subseteq Nat /\ 0 \in Lens /\ Texts \subseteq Seq(Byte) /\ << >> \in Texts
    /\ OpenModes \subseteq (SUBSET End) \ {{}} /\ Calls \subseteq AllCalls

VARIABLES
    tab,        \* the tables of Descriptors
    cpu,        \* active_pid, which is also sched_cursor_pid
    gate,       \* file_io_gate_owner
    at,         \* where each process is
    call,       \* the read or write it retries when it is woken
    waker,      \* the wake the gate owner is performing, the waiter its scan has
                \* found, and where it then returns to
    scratch     \* sched_wake_reason_tmp, sched_wake_object_tmp and sched_scan_count,
                \* followed only while a scheduler_wake_one is under way

vars == <<tab, cpu, gate, at, call, waker, scratch>>

NoCall == [op |-> "-", fd |-> 0, len |-> 0, text |-> << >>, reason |-> "NONE", object |-> 0]
Place  == {"none", "user", "wake", "scan", "store", "block", "blocked", "retry", "dead"}
Active == {"user", "wake", "scan", "store", "block", "retry"}
NoReq   == [reason |-> "NONE", pipe |-> 0, all |-> FALSE]
NoWaker == [req |-> NoReq, ret |-> "none", found |-> Idle]
Scan    == [reason : {"NONE", "CONSOLE", "PIPE_READ", "PIPE_WRITE"}, object : Pipe,
            count : 0 .. (MaxProcs - 1)]
NoScan  == [reason |-> "NONE", object |-> 0, count |-> 0]

Init ==
    /\ tab = BootTables(IoTasks)
    /\ cpu \in IoTasks
    /\ gate = Nobody
    /\ at = [p \in Pid |-> IF p \in IoTasks \cup {Idle} THEN "user" ELSE "none"]
    /\ call = [p \in Task |-> NoCall]
    /\ waker = NoWaker
    /\ scratch = NoScan

----------------------------------------------------------------------------
(***************************************************************************)
(* Calls.                                                                  *)
(***************************************************************************)

\* p has the CPU in user code, makes call c and gets FILE_IO.
Enter(p, c) == cpu = p /\ gate = Nobody /\ at[p] = "user" /\ c \in Calls

\* The body of p's call ends with tables T: with no wake to perform the gate
\* is released and p is at l; otherwise the wakes come first.
Finish(p, T, l, a) ==
    /\ tab' = T
    /\ IF T.wakes = {}
       THEN /\ at' = [a EXCEPT ![p] = l]
            /\ UNCHANGED <<gate, waker>>
       ELSE /\ at' = [a EXCEPT ![p] = "wake"]
            /\ gate' = p
            /\ waker' = [NoWaker EXCEPT !.ret = l]
    /\ UNCHANGED <<cpu, scratch>>

Return(p, T) ==
    /\ Finish(p, T, "user", at)
    /\ call' = IF p \in Task THEN [call EXCEPT ![p] = NoCall] ELSE call

\* EAGAIN: ksys_io_block keeps reason and object on the stack and releases
\* the gate.
MustWait(p, c, r, o) ==
    /\ at' = [at EXCEPT ![p] = "block"]
    /\ call' = [call EXCEPT ![p] = [c EXCEPT !.reason = r, !.object = o]]
    /\ UNCHANGED <<tab, cpu, gate, waker, scratch>>

SlotOf(p, c) == tab.fd[p][c.fd]
ObjOf(p, c)  == tab.obj[SlotOf(p, c).obj]
RingOf(p, c) == tab.pipe[ObjOf(p, c).pipe]
Allows(p, c, e) == SlotOf(p, c).obj # None /\ e \in SlotOf(p, c).flags

\* The endpoint as pipe_resolve_endpoint accepts it.
OnPipe(p, c, e) ==
    /\ Allows(p, c, e) /\ ObjOf(p, c).type = "PIPE" /\ ObjOf(p, c).end = e
    /\ ObjOf(p, c).pipe # None /\ RingOf(p, c).ends # {}

AttemptRead(p, c) ==
    \* EBADF, and a read from a file, change nothing here
    \/ /\ ~OnPipe(p, c, "R")
       /\ Return(p, tab)
    \* the console has input or has not
    \/ /\ Allows(p, c, "R") /\ ObjOf(p, c).type = "DEVICE" /\ c.len > 0
       /\ MustWait(p, c, "CONSOLE", 0)
    \/ /\ OnPipe(p, c, "R")
       /\ \/ c.len = 0 /\ Return(p, tab)
          \/ /\ c.len > 0 /\ RingOf(p, c).count = 0 /\ "W" \in RingOf(p, c).ends
             /\ MustWait(p, c, "PIPE_READ", ObjOf(p, c).pipe)
          \/ /\ c.len > 0 /\ RingOf(p, c).count = 0 /\ "W" \notin RingOf(p, c).ends
             /\ Return(p, tab)                                          \* EOF
          \/ /\ c.len > 0 /\ RingOf(p, c).count > 0
             /\ Return(p, ReadRing(tab, ObjOf(p, c).pipe, c.len))

AttemptWrite(p, c) ==
    \/ /\ ~OnPipe(p, c, "W")
       /\ Return(p, tab)
    \/ /\ OnPipe(p, c, "W")
       /\ \/ /\ c.text = << >> \/ "R" \notin RingOf(p, c).ends          \* EPIPE
             /\ Return(p, tab)
          \/ /\ c.text # << >> /\ "R" \in RingOf(p, c).ends
             /\ RingOf(p, c).count = PipeBufSize
             /\ MustWait(p, c, "PIPE_WRITE", ObjOf(p, c).pipe)
          \/ /\ c.text # << >> /\ "R" \in RingOf(p, c).ends
             /\ RingOf(p, c).count # PipeBufSize
             /\ Return(p, WriteRing(tab, ObjOf(p, c).pipe, c.text))

SysRead(p) ==
    /\ Enter(p, "read")
    /\ \E f \in Fd, n \in Lens :
          AttemptRead(p, [NoCall EXCEPT !.op = "read", !.fd = f, !.len = n])

SysWrite(p) ==
    /\ Enter(p, "write")
    /\ \E f \in Fd, s \in Texts :
          AttemptWrite(p, [NoCall EXCEPT !.op = "write", !.fd = f, !.text = s])

\* A woken process acquires the gate again and starts over.
Retry(p) ==
    /\ cpu = p /\ gate = Nobody /\ at[p] = "retry"
    /\ \/ call[p].op = "read" /\ AttemptRead(p, call[p])
       \/ call[p].op = "write" /\ AttemptWrite(p, call[p])

SysClose(p) == Enter(p, "close") /\ \E f \in Fd : Return(p, ClosePid(tab, p, f))

SysDup(p) ==
    /\ Enter(p, "dup")
    /\ \E f \in Fd : IsOpen(tab, p, f) /\ FreeFds(tab, p) # {} /\ Return(p, Dup(tab, p, f))

SysDup2(p) ==
    /\ Enter(p, "dup2")
    /\ \E f, g \in Fd : IsOpen(tab, p, f) /\ Return(p, Dup2(tab, p, f, g))

SysPipe(p) == Enter(p, "pipe") /\ Return(p, PipeCreate(tab, p))

SysOpen(p) ==
    /\ Enter(p, "open")
    /\ \E fl \in OpenModes : Return(p, OpenFile(tab, p, fl))

\* A free PID gets cleared descriptors and clones of the caller's; when a
\* source is not open, or the RP refuses to clone the directory, the clones
\* are closed again.
SysSpawn(p) ==
    /\ Enter(p, "spawn")
    /\ \E c \in Task, m \in [0 .. (Consoles - 1) -> Fd \cup {None}], rp \in BOOLEAN :
          LET T  == CloneMapped(ClearSlots(tab, c), p, c, m)
              ok == rp /\ \A g \in DOMAIN m : m[g] = None \/ IsOpen(tab, p, m[g])
          IN /\ at[c] = "none"
             /\ Finish(p, IF ok THEN T ELSE CloseProcess(T, c), "user",
                       IF ok THEN [at EXCEPT ![c] = "user"] ELSE at)
    /\ UNCHANGED call

\* exit closes every descriptor; the PID is free once it has been reaped.
SysExit(p) ==
    /\ Enter(p, "exit")
    /\ Finish(p, CloseProcess(tab, p), "dead", at)
    /\ UNCHANGED call

\* waitpid of a parent, or PID 0, closes what a killed process left open.  The
\* test for a ZOMBIE, which the code makes before it has FILE_IO, belongs to the
\* step here (the module Kernel has them apart).
Reap(p) ==
    /\ cpu = p /\ gate = Nobody /\ at[p] = "user"
    /\ \E q \in Task :
          /\ at[q] = "dead"
          /\ Finish(p, CloseProcess(tab, q), "user", [at EXCEPT ![q] = "none"])
    /\ UNCHANGED call

----------------------------------------------------------------------------
(***************************************************************************)
(* scheduler_wake_one.                                                     *)
(***************************************************************************)
WakeStart(p) ==
    /\ cpu = p /\ at[p] = "wake"
    /\ \E w \in tab.wakes :
          /\ waker' = [waker EXCEPT !.req = w]
          /\ scratch' = [reason |-> w.reason, object |-> w.pipe, count |-> MaxProcs - 1]
    /\ at' = [at EXCEPT ![p] = "scan"]
    /\ UNCHANGED <<tab, cpu, gate, call>>

\* The waiters the scan reaches: it looks at the first entry, and at one
\* more for every time the counter is decremented without becoming zero.
Matching == {q \in Task : /\ at[q] = "blocked" /\ call[q].reason = scratch.reason
                          /\ call[q].object = scratch.object
                          /\ scratch.count = 0 \/ ScanDist(cpu, q) < scratch.count}

\* A wake that was the last one, or that is not repeated, leaves the list; the
\* gate goes with the last.
WakeDone(p, rest, a) ==
    /\ tab' = [tab EXCEPT !.wakes = rest]
    /\ IF rest = {}
       THEN at' = [a EXCEPT ![p] = waker.ret] /\ gate' = Nobody /\ waker' = NoWaker
       ELSE at' = [a EXCEPT ![p] = "wake"] /\ waker' = [waker EXCEPT !.found = Idle] /\ UNCHANGED gate

\* The first match after the cursor, which proc_wake finds BLOCKED too; or none.
WakeScan(p) ==
    /\ cpu = p /\ at[p] = "scan"
    /\ \/ /\ \E q \in Matching : /\ \A r \in Matching : ScanDist(cpu, q) <= ScanDist(cpu, r)
                                 /\ waker' = [waker EXCEPT !.found = q]
          /\ at' = [at EXCEPT ![p] = "store"]
          /\ UNCHANGED <<tab, gate>>
       \/ Matching = {} /\ WakeDone(p, tab.wakes \ {waker.req}, at)
    /\ scratch' = NoScan
    /\ UNCHANGED <<cpu, call>>

\* proc_wake makes the waiter READY, also when it has died since.
WakeStore(p) ==
    /\ cpu = p /\ at[p] = "store"
    /\ WakeDone(p, IF waker.req.all THEN tab.wakes ELSE tab.wakes \ {waker.req},
                [at EXCEPT ![waker.found] = "retry"])
    /\ UNCHANGED <<cpu, call, scratch>>

----------------------------------------------------------------------------
(***************************************************************************)
(* The scheduler: a pass wakes at most the console reader and gives the    *)
(* CPU to an active process or to PID 0.  sched_pick_next leaves in the    *)
(* counter what its own scan has not used.                                 *)
(***************************************************************************)
Scanning == \E p \in Pid : at[p] = "scan"

\* reason and object are those a sched_block_current has just stored, or the
\* ones that were there.
Pass(a, reason, object) ==
    \E woken \in {{}} \cup {{q} : q \in {r \in Task : a[r] = "blocked" /\ call[r].reason = "CONSOLE"}} :
    \E n \in Pid :
       /\ n = Idle \/ a[n] \in Active \/ n \in woken
       /\ at' = [q \in Pid |-> IF q \in woken THEN "retry" ELSE a[q]]
       /\ cpu' = n
       /\ scratch' = IF ~Scanning THEN NoScan
                     ELSE [reason |-> reason, object |-> object,
                           count |-> IF n = Idle THEN 0
                                     ELSE MaxProcs - 1 - ScanDist(cpu, n)]

\* The timer IRQ.
Preempt ==
    /\ Pass(at, scratch.reason, scratch.object)
    /\ UNCHANGED <<tab, gate, call, waker>>

\* sched_block_current.
Block(p) ==
    /\ cpu = p /\ at[p] = "block"
    /\ Pass([at EXCEPT ![p] = "blocked"], call[p].reason, call[p].object)
    /\ UNCHANGED <<tab, gate, call, waker>>

\* A process that does not own the gate is killed, by another process or by
\* a default INT in a pass; both test the gate first.  (That the test of KILL
\* can be overtaken is NoStrandedGate of the module Kernel.)
Kill(q) ==
    /\ "kill" \in Calls /\ gate # q /\ at[q] \in Active \cup {"blocked"}
    /\ IF q = cpu THEN Pass([at EXCEPT ![q] = "dead"], scratch.reason, scratch.object)
                  ELSE at' = [at EXCEPT ![q] = "dead"] /\ UNCHANGED <<cpu, scratch>>
    /\ call' = IF waker.found = q THEN call ELSE [call EXCEPT ![q] = NoCall]
    /\ UNCHANGED <<tab, gate, waker>>

Next ==
    \/ \E p \in Task : \/ SysRead(p) \/ SysWrite(p) \/ Retry(p) \/ SysClose(p) \/ SysDup(p)
                       \/ SysDup2(p) \/ SysPipe(p) \/ SysOpen(p) \/ SysSpawn(p) \/ SysExit(p)
                       \/ Block(p) \/ Kill(p)
    \/ \E p \in Pid : Reap(p) \/ WakeStart(p) \/ WakeScan(p) \/ WakeStore(p)
    \/ Preempt

Spec == Init /\ [][Next]_vars

----------------------------------------------------------------------------
(***************************************************************************)
(* Properties.                                                             *)
(***************************************************************************)

\* The types of the variables.
TypeOK ==
    /\ tab \in Tables
    /\ cpu \in Pid /\ gate \in Pid \cup {Nobody}
    /\ at \in [Pid -> Place]
    /\ call \in [Task -> [op : {"-", "read", "write"}, fd : Fd, len : Lens, text : Texts,
                         reason : {"NONE", "CONSOLE", "PIPE_READ", "PIPE_WRITE"}, object : Pipe]]
    /\ waker \in [req : WakeReq \cup {NoReq}, ret : Place, found : Pid]
    /\ scratch \in Scan

\* open_refcnt of every object is the number of descriptors that refer to
\* it, across dup, dup2, clones into a child, rollback, exit and reaping.
RefsCounted ==
    \A o \in Obj :
       tab.obj[o].refs = Cardinality({d \in Task \X Fd : tab.fd[d[1]][d[2]].obj = o})

\* A descriptor never dangles: its object is in use, and if it is a pipe end
\* the pipe still has that end, the descriptor permits exactly its
\* direction, and no other object stands for the same end.
SlotsValid ==
    \A p \in Task, f \in Fd : IsOpen(tab, p, f) =>
       LET o == tab.fd[p][f].obj
           x == tab.obj[o]
       IN /\ x.type # "NONE"
          /\ x.type = "PIPE" =>
                /\ x.pipe # None /\ x.end \in tab.pipe[x.pipe].ends
                /\ tab.fd[p][f].flags = {x.end}
                /\ \A q \in Obj \ {o} : tab.obj[q].pipe # x.pipe \/ tab.obj[q].end # x.end

\* From the moment a call decides to wait on a pipe until its retry, its
\* descriptor still refers to that end of that pipe: the index in
\* wait_object cannot come to mean another pipe.
WaiterHoldsEnd ==
    \A p \in Task : at[p] \in {"block", "blocked", "retry"} =>
       /\ call[p].reason = "PIPE_READ" =>
             OnPipe(p, call[p], "R") /\ ObjOf(p, call[p]).pipe = call[p].object
       /\ call[p].reason = "PIPE_WRITE" =>
             OnPipe(p, call[p], "W") /\ ObjOf(p, call[p]).pipe = call[p].object

\* The ring buffers of pipe.asm implement bounded FIFOs.
Content(r) == [i \in 1 .. r.count |-> r.buf[Advance(r.tail, i - 1)]]
Abs == INSTANCE PipeSpec WITH ends  <- [k \in Pipe |-> tab.pipe[k].ends],
                              queue <- [k \in Pipe |-> Content(tab.pipe[k])]
PipesAreFifos == Abs!Spec

\* docs/6502_kernel/pipes.md: "A pipe read reaches EOF when no data remains
\* and no writer remains."  A reader is not left blocked on a pipe without a
\* writer once the close has performed its wakes.  The code violates this.
ReaderSeesEof ==
    \A p \in Task :
       at[p] = "blocked" /\ call[p].reason = "PIPE_READ" /\ tab.wakes = {} =>
          "W" \in tab.pipe[call[p].object].ends

\* The same sentence seen from the tables: an end that no descriptor refers to
\* is not open, or its peer waits for a writer or a reader that does not exist.
\* The code violates this, with dup2.
EndsReferenced ==
    \A k \in Pipe : \A e \in tab.pipe[k].ends : \E p \in Task, f \in Fd :
       /\ IsOpen(tab, p, f)
       /\ tab.obj[tab.fd[p][f].obj].pipe = k /\ tab.obj[tab.fd[p][f].obj].end = e
=============================================================================
